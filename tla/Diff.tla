-------------------------------- MODULE Diff --------------------------------
(***************************************************************************)
(* diffWithSpike (diff.go), main's --spike mode: open the ELF, start spike *)
(* (NewSpike), read its stack, build the VM with NewVM of MemSize =        *)
(* SP + len(stack), load the ALLOC sections, set SP and copy spike's stack *)
(* above it; then step spike and the VM with Run(1) until one exits, one   *)
(* fails, their registers or PCs differ, or *maxSteps iterations ran.      *)
(* Every return runs the deferred spike.Close once NewSpike succeeded; a   *)
(* Go panic in the VM runs it too before the process dies.                 *)
(*                                                                         *)
(* The VM is Machine's state; Machine's Running guard never stops a        *)
(* Run(1) here (MaxSteps exceeds the loop bound), so each call is one      *)
(* iteration of VM.Run.  A program is [code, sections]: the abstract       *)
(* instructions spike executes and the ELF sections holding their          *)
(* encoding; main passes the split --argv and --env flags.                 *)
(***************************************************************************)
EXTENDS Machine, Cli, Spike

CONSTANTS
  Programs,       \* the programs diffWithSpike may be given
  ProgName,       \* its path, a string
  SimSP,          \* SP of spike's hart at _start
  SimStack,       \* the bytes spike's proxy kernel put above SP
  MaxStepsFlag    \* the values of --max_steps

VARIABLES
  at,             \* the point diffWithSpike has reached
  prog,           \* the program
  spike,          \* the Spike struct (and the hart it mirrors)
  open, child,    \* the PTY files this process holds; the spike process
  maxSteps, i,    \* *maxSteps and the loop's i
  serr,           \* spike.Run(1)'s error in this iteration
  ret,            \* what diffWithSpike returned: "nil", "error", or "panic"
  report          \* what it printed last: "diff" (FOUND DIFF), "exited" (EXITTED)

harness == <<at, prog, spike, open, child, maxSteps, i, serr, ret, report>>
allVars == <<vars, harness>>

NoVM == NewVM([argv |-> Nil, env |-> Nil, start |-> Zero, memSize |-> 0], {RDINSTRET})

DiffInit ==
  /\ at = "open" /\ prog \in Programs /\ spike = NoSpike
  /\ open = {} /\ child = "none"
  /\ maxSteps \in MaxStepsFlag /\ i = 0
  /\ serr = "none" /\ ret = "none" /\ report = "none"
  /\ InitFrom(NoVM)

(* vm := the VM v, as NewVM leaves it: Steps, LastPC, LastInstr zero. *)
StartVM(v) ==
  /\ SetVM(v)
  /\ steps' = 0 /\ lastPC' = Zero /\ lastInstr' = NoInstr /\ status' = "running"

(* Return with r; the deferred spike.Close runs next. *)
Return(r) == at' = "close" /\ ret' = r

(* elf.Open: a failure returns before anything was acquired. *)
ElfOpen ==
  /\ at = "open"
  /\ \/ at' = "newspike" /\ UNCHANGED ret
     \/ at' = "returned" /\ ret' = "error"
  /\ UNCHANGED <<vars, prog, spike, open, child, maxSteps, i, serr, report>>

(* NewSpike; on its error diffWithSpike returns at once, without Close. *)
StartSpike ==
  /\ at = "newspike"
  /\ \E o \in NewSpike(SimSP) :
       /\ open' = o.open /\ child' = o.child /\ spike' = o.s
       /\ IF o.ok THEN at' = "stack" /\ UNCHANGED ret
                  ELSE at' = "returned" /\ ret' = "error"
  /\ UNCHANGED <<vars, prog, maxSteps, i, serr, report>>

(* spike.Stack, NewVM, the section loop, vm.Reg[SP] = sp and               *)
(* copy(vm.Mem[sp:], stack); the loop is entered when 0 < *maxSteps.       *)
SetupVM ==
  /\ at = "stack"
  /\ \E st \in Stack(spike, SimStack) :
       IF ~st.ok THEN Return("error") /\ UNCHANGED <<vars, report>>
       ELSE LET r  == Main(<<>>, <<>>, ProgName, Zero, prog.sections,
                           st.sp + Len(st.stack), {RDINSTRET})
                v  == [r.vm EXCEPT !.reg[SP] = FromNat(st.sp),
                         !.mem = [a \in DOMAIN @ |-> IF st.sp <= a /\ a < st.sp + Len(st.stack)
                                                     THEN st.stack[a - st.sp + 1] ELSE @[a]]]
            IN  /\ StartVM(v)
                /\ CASE r.status = "panic" -> Return("panic") /\ UNCHANGED report
                     [] maxSteps = 0       -> Return("nil") /\ report' = "exited"
                     [] OTHER              -> at' = "spike" /\ UNCHANGED <<ret, report>>
  /\ UNCHANGED <<prog, spike, open, child, maxSteps, i, serr>>

(* serr := spike.Run(1). *)
SpikeStep ==
  /\ at = "spike"
  /\ \E r \in Run1(spike, prog.code) : spike' = r.s /\ serr' = r.err
  /\ at' = "vm"
  /\ UNCHANGED <<vars, prog, open, child, maxSteps, i, ret, report>>

(* vmerr := vm.Run(1); a panic unwinds through the deferred Close. *)
VMStep ==
  /\ at = "vm"
  /\ FetchPanic \/ DecodeFail \/ Execute
  /\ IF status' = "panic" THEN Return("panic") ELSE at' = "check" /\ UNCHANGED ret
  /\ UNCHANGED <<prog, spike, open, child, maxSteps, i, serr, report>>

(* What the check of an iteration leaves alone. *)
CheckFrame == UNCHANGED <<vars, prog, spike, open, child, maxSteps, serr>>

vmerr == CASE status = "running" -> "none" [] status = "exit" -> "exit" [] OTHER -> "error"

diffRegs(a, b) == {r \in 0 .. 31 : a[r] # b[r]}

(* Mutant of ExitCheck: either exit ends the loop as a clean exit. *)
ExitCheckEither ==
  /\ at = "check"
  /\ "exit" \in {serr, vmerr}
  /\ Return("nil") /\ report' = "exited"
  /\ UNCHANGED i /\ CheckFrame

(* IsExit(serr) || IsExit(vmerr): the same sentinel from both breaks out   *)
(* of the loop to EXITTED; otherwise "didn't exit at the same time".       *)
ExitCheck ==
  /\ at = "check"
  /\ "exit" \in {serr, vmerr}
  /\ IF serr = vmerr THEN Return("nil") /\ report' = "exited"
                     ELSE Return("error") /\ UNCHANGED report
  /\ UNCHANGED i /\ CheckFrame

(* serr != nil, then vmerr != nil: returned as errors. *)
StepError ==
  /\ at = "check"
  /\ "exit" \notin {serr, vmerr}
  /\ serr # "none" \/ vmerr # "none"
  /\ Return("error") /\ UNCHANGED report
  /\ UNCHANGED i /\ CheckFrame

(* diffRegs(spike.Reg, vm.Reg) non-empty or spike.PC != vm.LastPC: print   *)
(* FOUND DIFF and return nil.                                              *)
FoundDiff ==
  /\ at = "check"
  /\ serr = "none" /\ vmerr = "none"
  /\ diffRegs(spike.reg, reg) # {} \/ spike.pc # lastPC
  /\ Return("nil") /\ report' = "diff"
  /\ UNCHANGED i /\ CheckFrame

(* Mutant of NoDiff: the loop runs while i <= *maxSteps. *)
NoDiffOneMore ==
  /\ at = "check"
  /\ serr = "none" /\ vmerr = "none"
  /\ diffRegs(spike.reg, reg) = {} /\ spike.pc = lastPC
  /\ i' = i + 1
  /\ IF i + 1 <= maxSteps THEN at' = "spike" /\ UNCHANGED <<ret, report>>
                          ELSE Return("nil") /\ report' = "exited"
  /\ CheckFrame

(* No difference: i++, and the loop goes on while i < *maxSteps; after it  *)
(* EXITTED is printed and nil returned.                                    *)
NoDiff ==
  /\ at = "check"
  /\ serr = "none" /\ vmerr = "none"
  /\ diffRegs(spike.reg, reg) = {} /\ spike.pc = lastPC
  /\ i' = i + 1
  /\ IF i + 1 < maxSteps THEN at' = "spike" /\ UNCHANGED <<ret, report>>
                         ELSE Return("nil") /\ report' = "exited"
  /\ CheckFrame

(* The deferred spike.Close. *)
CloseSpike ==
  /\ at = "close"
  /\ \E c \in Close(open) : open' = c.open /\ child' = c.child
  /\ at' = "returned"
  /\ UNCHANGED <<vars, prog, spike, maxSteps, i, serr, ret, report>>

DiffNext == \/ ElfOpen \/ StartSpike \/ SetupVM \/ SpikeStep \/ VMStep
            \/ ExitCheck \/ StepError \/ FoundDiff \/ NoDiff \/ CloseSpike

(* No fairness: a spike command may never answer (readUntilLn has no      *)
(* timeout, see SpikeProto), so nothing here forces diffWithSpike on.     *)
DiffSpec == DiffInit /\ [][DiffNext]_allVars

-----------------------------------------------------------------------------
Points == {"open", "newspike", "stack", "spike", "vm", "check", "close", "returned"}

DiffTypeOK ==
  /\ at \in Points /\ prog \in Programs
  /\ open \subseteq {"master", "slave"} /\ child \in {"none", "running", "reaped"}
  /\ i \in 0 .. maxSteps /\ maxSteps \in MaxStepsFlag
  /\ serr \in {"none", "exit", "trap", "io"}
  /\ ret \in {"none", "nil", "error", "panic"} /\ report \in {"none", "diff", "exited"}
  /\ spike.reg \in [0 .. 31 -> Word] /\ spike.pc \in Word

(* Spec §4.10, "if either reports exit and the other does not, diverge":  *)
(* EXITTED is printed only when spike and the VM exited in the same        *)
(* iteration, or when *maxSteps iterations found no difference.  A program *)
(* the VM ends where spike does not (ebreak, which the VM's ecallOrBreak   *)
(* runs as an exit ecall while spike traps) is reported as an error.       *)
ExitAgreement ==
  report = "exited" => (serr = "exit" /\ status = "exit") \/ i = maxSteps

(* Spec §5 and the PTY acquisition note: the PTY's files are released on   *)
(* every exit path.  When diffWithSpike has returned (its deferred Close   *)
(* run) this process holds neither the master nor the slave (newPTY's and  *)
(* NewSpike's error returns, Spike.Close's early return after Wait).       *)
PtyReleased == at = "returned" => open = {}
====
