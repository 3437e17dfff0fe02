------------------------------ MODULE ProtoCases ------------------------------
(***************************************************************************)
(* A session of up to four commands, each a step ("") or a command with    *)
(* text ("c" stands for until, reg 0 or mem 0 ADDR).  Spike's own output   *)
(* lines: a trace or register line, with ": " inside it, and a line that   *)
(* starts with command text.  The program's writes to fd 2 reach the same  *)
(* pty (spike's stderr is pts): ProgOut is one such write, with no         *)
(* trailing newline.                                                       *)
(***************************************************************************)
EXTENDS Sequences

MCCmds == {<<>>, <<"c">>}
SpikeLines == {<<"x", ":", " ", "x", "\n">>, <<"c", "x", "\n">>}
SpikeOutputs == {<<>>} \cup SpikeLines \cup {a \o b : a, b \in SpikeLines}
ProgOut == <<"x">>
ProgOutputs == SpikeOutputs \cup {o \o ProgOut : o \in SpikeOutputs}
MCMaxCmds == 4
====
