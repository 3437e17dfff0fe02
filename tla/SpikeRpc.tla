------------------------------ MODULE SpikeRpc ------------------------------
(***************************************************************************)
(* What sendCmd promises its callers (NewSpike, runCmd, Memory): a remote  *)
(* call.  Each command sent to a running spike returns spike's output for  *)
(* that command, framed as sendCmd returns it (the newline ending the      *)
(* echo, the output, the prompt ": "), and leaves the channel clean for    *)
(* the next command; a command fails, returning "", only once spike has    *)
(* exited.  This is a safety specification: that a call returns at all is *)
(* SpikeProto's Responsive invariant, not a property of this module.      *)
(***************************************************************************)
EXTENDS Naturals, Sequences

CONSTANTS Cmds, Outputs, MaxCmds

VARIABLES
  state,      \* "start", "idle" (connected, nothing pending) or "failed"
  alive,      \* spike still runs
  calls,      \* commands sent
  answer,     \* what the last call returned
  output      \* spike's output for the last call

rpcVars == <<state, alive, calls, answer, output>>

Answer(out) == <<"\n">> \o out \o <<":", " ">>

RpcInit ==
  /\ state = "start" /\ alive = TRUE /\ calls = 0
  /\ answer = <<>> /\ output = <<>>

(* The first prompt is read. *)
Connect ==
  /\ state = "start"
  /\ state' \in IF alive THEN {"idle"} ELSE {"idle", "failed"}
  /\ UNCHANGED <<alive, calls, answer, output>>

(* A command is answered by a running spike, or fails on an exited one. *)
Call(c) ==
  /\ state = "idle" /\ calls < MaxCmds
  /\ calls' = calls + 1
  /\ \/ alive /\ \E out \in Outputs : answer' = Answer(out) /\ output' = out
                                      /\ UNCHANGED state
     \/ ~alive /\ state' = "failed" /\ answer' = <<>> /\ output' = <<>>
  /\ UNCHANGED alive

Exit == alive /\ ~alive' /\ UNCHANGED <<state, calls, answer, output>>

RpcNext == Connect \/ (\E c \in Cmds : Call(c)) \/ Exit

RpcSpec == RpcInit /\ [][RpcNext]_rpcVars
====
