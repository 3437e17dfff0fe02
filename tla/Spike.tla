-------------------------------- MODULE Spike --------------------------------
(***************************************************************************)
(* The bridge to the reference simulator (rvi.go: NewSpike, Spike.Run,     *)
(* runCmd, Stack, Close) and the PTY it talks over (newPTY, cgo build).    *)
(* Like a handler, each call is an operator giving the set of its possible *)
(* outcomes.  Talking to spike can fail at every command (the PTY read or  *)
(* write returns an error): that is the "io" outcome.                      *)
(*                                                                         *)
(* A Spike is a record [reg, pc, next, steps]: Spike.Reg, Spike.PC (the PC *)
(* of the instruction spike last reported), Spike.Steps, and next, the PC  *)
(* the simulated hart will execute next.  spike runs the same program as   *)
(* the VM, given here as abstract instructions [op, rd, rs1, imm] by       *)
(* address, and executes it by the ISA (a reference, not code of this      *)
(* repository).  The PTY's two files are "master" and "slave"; open is the *)
(* set this process holds.  The exit/ecall/trap errors are sentinels (the  *)
(* same value each time), as spec §7's Exit signal.                        *)
(*                                                                         *)
(* A command whose reply never comes (readUntilLn has no timeout, so Read  *)
(* blocks forever) has no outcome here: the call never returns, and the    *)
(* behaviour of the caller stops.  SpikeProto models that byte loop and    *)
(* the hang on its own (the Responsive invariant).                         *)
(***************************************************************************)
EXTENDS Integers, Word

A7 == 17
ExitSyscall == 93                   \* 0x5d

Imm(n) == IF n < 0 THEN Neg(FromNat(-n)) ELSE FromNat(n)
SetReg(r, rd, v) == IF rd = 0 THEN r ELSE [r EXCEPT ![rd] = v]

(* The reference hart executes the instruction at next.  The result is the *)
(* hart's registers and next PC and what its trace prints: the "core 0:"   *)
(* line with the PC, and for an exception the "exception ... epc" line     *)
(* (trap_user_ecall for an ecall).  A trap leaves next at the epc; proxy   *)
(* kernel code runs when spike is told to continue.                        *)
RefStep(s, prog) ==
  LET ins == prog[s.next]
      r   == s.reg
      res(reg, nxt, trap, ecall) ==
        [reg |-> reg, next |-> nxt, pc |-> s.next, trap |-> trap, ecall |-> ecall]
  IN  CASE ins.op = "addi"  -> res(SetReg(r, ins.rd, Add(r[ins.rs1], Imm(ins.imm))), s.next + 4, FALSE, FALSE)
        [] ins.op = "sraiw" -> res(SetReg(r, ins.rd, S32(Sra(S32(r[ins.rs1]), ins.imm))), s.next + 4, FALSE, FALSE)
        [] ins.op = "ecall" -> res(r, s.next, TRUE, TRUE)
        [] OTHER            -> res(r, s.next, TRUE, FALSE)      \* ebreak, illegal

(* runCmd: the PC from the trace (the epc when there is a trap line), the  *)
(* registers from "reg 0", and the error: exitErr for an ecall with        *)
(* a7 = 0x5d, ecallErr for another ecall, trapErr for another exception.   *)
runCmd(s, o) ==
  LET t == [s EXCEPT !.reg = o.reg, !.pc = FromNat(o.pc), !.next = o.next]
  IN  {[s |-> s, err |-> "io"],
       [s |-> t, err |-> CASE o.ecall /\ o.reg[A7] = FromNat(ExitSyscall) -> "exit"
                           [] o.ecall -> "ecall"
                           [] o.trap  -> "trap"
                           [] OTHER   -> "none"]}

untilNext(s) ==
  {[s |-> [s EXCEPT !.reg[10] = FromNat(k), !.next = ToNat(s.pc) + 4], err |-> "none"]
     : k \in 0 .. ToNat(s.reg[12])}
  \cup {[s |-> s, err |-> "io"]}

(* Spike.Run(1): runCmd(""); an exit is returned as is; while the error is *)
(* ecallErr, until PC+4; any other error is returned wrapped; otherwise    *)
(* Steps++.                                                                *)
Run1(s, prog) ==
  LET first == runCmd(s, RefStep(s, prog))
      afterEcall == UNION {untilNext(r.s) : r \in {q \in first : q.err = "ecall"}}
      done == {r \in first : r.err # "ecall"} \cup afterEcall
  IN  {IF r.err = "none" THEN [r EXCEPT !.s.steps = @ + 1] ELSE r : r \in done}

(* newPTY (cgo): posix_openpt, grantpt, unlockpt, open of the slave,       *)
(* tcgetattr, tcsetattr.  A failure returns nil files and an error without *)
(* closing what was opened before it.                                      *)
newPTY ==
  { [open |-> {}, ok |-> FALSE],                      \* posix_openpt
    [open |-> {"master"}, ok |-> FALSE],              \* grantpt, unlockpt, open
    [open |-> {"master", "slave"}, ok |-> FALSE],     \* tcgetattr, tcsetattr
    [open |-> {"master", "slave"}, ok |-> TRUE] }

NoSpike == [reg |-> [r \in 0 .. 31 |-> Zero], pc |-> Zero, next |-> 0, steps |-> 0]

(* NewSpike: newPTY, whose (pts, ptm) results are taken as (ptm, pts), so  *)
(* the child gets the master and Spike.ptm is the slave; cmd.Start; the    *)
(* close of the master (the fd is released even when Close errs); the      *)
(* prompt; then until _start, a step and until _start, where a trapErr is  *)
(* tolerated.  Every error return leaves the files and the child as they   *)
(* are.  On success spike stands at _start with SP = sp.                   *)
NewSpike(sp) ==
  LET failed(open, child) == [open |-> open, child |-> child, ok |-> FALSE, s |-> NoSpike]
      started == {"slave"}
  IN  {failed(p.open, "none") : p \in {q \in newPTY : ~q.ok}}
      \cup {failed({"master", "slave"}, "none"),     \* cmd.Start
            failed(started, "running")}              \* pts.Close, the prompt, a runCmd
      \cup {[open |-> started, child |-> "running", ok |-> TRUE,
             s |-> [NoSpike EXCEPT !.reg[2] = FromNat(sp)]]}

(* Stack: SP = Spike.Reg[SP], then "mem 0 addr" from SP upwards, 8 bytes   *)
(* at a time, until spike answers with nothing (invalidAddrErr): the bytes *)
(* simStack spike holds above SP.  A failed command is an error.           *)
Stack(s, simStack) ==
  { [ok |-> FALSE, sp |-> 0, stack |-> <<>>],
    [ok |-> TRUE, sp |-> ToNat(s.reg[2]), stack |-> simStack] }

(* Close: "q", cmd.Wait (the child is reaped either way), then ptm.Close;  *)
(* when Wait returns an error, Close returns it and ptm stays open.        *)
Close(open) ==
  { [open |-> open, child |-> "reaped"],
    [open |-> open \ {"slave"}, child |-> "reaped"] }
====
