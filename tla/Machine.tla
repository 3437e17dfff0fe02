------------------------------ MODULE Machine ------------------------------
(***************************************************************************)
(* The VM (pty.go) and its fetch/execute loop VM.Run(n): each iteration    *)
(* slices Mem[PC:PC+4] (cut at len(Mem)), decodes, records LastPC and      *)
(* LastInstr, calls the handler, and then either returns its exit or       *)
(* error, or retires the instruction: Steps++, CSR[RDINSTRET]++ unless the *)
(* handler wrote RDINSTRET, PC += size unless the handler wrote PC.        *)
(* A Go panic ends the process, so it is a terminal status like the       *)
(* returned errors.  Run's loop counter equals steps (Run is called once,  *)
(* on a VM with Steps = 0), so the loop ends when steps = MaxSteps.        *)
(***************************************************************************)
EXTENDS Integers, Sequences, FiniteSets, Decode, Handlers

CONSTANTS
  MaxSteps,     \* n of vm.Run(n) (main passes --max_steps)
  InitVMs       \* the VMs Run may start from: [reg, csr, pc, mem, out]

VARIABLES
  reg, csr, pc, mem, out,   \* VM.Reg, VM.CSR, VM.PC, VM.Mem, the host's fd 1 and 2
  steps,                    \* VM.Steps
  lastPC, lastInstr,        \* VM.LastPC, VM.LastInstr
  status                    \* "running", or how Run ended

vars == <<reg, csr, pc, mem, out, steps, lastPC, lastInstr, status>>
vmVars == <<reg, csr, pc, mem, out>>

vm == [reg |-> reg, csr |-> csr, pc |-> pc, mem |-> mem, out |-> out]

SetVM(v) == /\ reg' = v.reg
            /\ csr' = v.csr
            /\ pc' = v.pc
            /\ mem' = v.mem
            /\ out' = v.out

MemLen == Cardinality(DOMAIN mem)

(* A fresh VM v: Steps, LastPC and LastInstr are zero, Run not yet called. *)
InitFrom(v) ==
  /\ reg = v.reg /\ csr = v.csr /\ pc = v.pc /\ mem = v.mem /\ out = v.out
  /\ steps = 0
  /\ lastPC = Zero
  /\ lastInstr = NoInstr
  /\ status = "running"

Init == \E v \in InitVMs : InitFrom(v)

-----------------------------------------------------------------------------
(* vm.Mem[vm.PC:end] with end = min(int(PC+4), len(Mem)): it panics when   *)
(* PC > len(Mem) (for a larger PC, PC+4 either exceeds len or wraps below  *)
(* PC); otherwise it holds the 0 to 4 bytes from PC.                       *)
FetchOk == IsSmall(pc) /\ ToNat(pc) <= MemLen
Fetched ==
  LET p == ToNat(pc)
      e == IF p + 4 > MemLen THEN MemLen ELSE p + 4
  IN  [i \in 1 .. e - p |-> mem[p + i - 1]]

(* Mutant of Running: the loop bound checked with <=. *)
RunningOneMore == status = "running" /\ steps <= MaxSteps

Running == status = "running" /\ steps < MaxSteps

(* The slice expression panics. *)
FetchPanic ==
  /\ Running
  /\ ~FetchOk
  /\ status' = "panic"
  /\ UNCHANGED <<vmVars, steps, lastPC, lastInstr>>

(* Decode returns an error (or panics); Run returns before LastPC is set. *)
DecodeFail ==
  /\ Running
  /\ FetchOk
  /\ LET d == Decode(Fetched) IN
       /\ d.status # "ok"
       /\ status' = IF d.status = "panic" THEN "panic" ELSE "error"
  /\ UNCHANGED <<vmVars, steps, lastPC, lastInstr>>

(* Mutant of Retire: RDINSTRET counted even when the handler wrote it. *)
RetireAlwaysCount(d, r) ==
  /\ r.err = "none"
  /\ reg' = r.vm.reg
  /\ mem' = r.vm.mem
  /\ out' = r.vm.out
  /\ steps' = steps + 1
  /\ csr' = [r.vm.csr EXCEPT ![RDINSTRET] = Add(@, One)]
  /\ pc' = IF r.updatedPC THEN r.vm.pc ELSE Add(r.vm.pc, FromNat(d.size))
  /\ UNCHANGED status

(* The handler returned no error: the instruction retires. *)
Retire(d, r) ==
  /\ r.err = "none"
  /\ reg' = r.vm.reg
  /\ mem' = r.vm.mem
  /\ out' = r.vm.out
  /\ steps' = steps + 1
  /\ csr' = IF r.updatedRDINSTRET THEN r.vm.csr
            ELSE [r.vm.csr EXCEPT ![RDINSTRET] = Add(@, One)]
  /\ pc' = IF r.updatedPC THEN r.vm.pc ELSE Add(r.vm.pc, FromNat(d.size))
  /\ UNCHANGED status

(* The handler returned exitErr: Run returns it. *)
Exit(r) ==
  /\ r.err = "exit"
  /\ SetVM(r.vm)
  /\ status' = "exit"
  /\ UNCHANGED steps

(* The handler returned another error, or panicked. *)
Abort(r) ==
  /\ r.err \in {"error", "panic"}
  /\ SetVM(r.vm)
  /\ status' = r.err
  /\ UNCHANGED steps

(* One iteration of Run's loop that reaches the handler. *)
Execute ==
  /\ Running
  /\ FetchOk
  /\ \E d \in {Decode(Fetched)} :       \* d is the decoded result, computed once
       /\ d.status = "ok"
       /\ lastPC' = pc
       /\ lastInstr' = d.instr
       /\ \E r \in Dispatch(vm, d.instr) : Retire(d, r) \/ Exit(r) \/ Abort(r)

(* The loop has run n times: Run returns nil. *)
Finish ==
  /\ status = "running"
  /\ steps = MaxSteps
  /\ status' = "done"
  /\ UNCHANGED <<vmVars, steps, lastPC, lastInstr>>

Next == FetchPanic \/ DecodeFail \/ Execute \/ Finish

Spec == Init /\ [][Next]_vars

-----------------------------------------------------------------------------
Status == {"running", "done", "exit", "error", "panic"}

TypeOK ==
  /\ reg \in [0 .. 31 -> Word]
  /\ csr \in [DOMAIN csr -> Word]
  /\ pc \in Word
  /\ mem \in [DOMAIN mem -> Byte]
  /\ out \in [{1, 2} -> Seq(Byte)]
  /\ steps \in 0 .. MaxSteps
  /\ lastPC \in Word
  /\ status \in Status
====
