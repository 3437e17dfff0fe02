------------------------------- MODULE MCProto -------------------------------
(***************************************************************************)
(* The spike protocol (SpikeProto) on the sessions of ProtoCases.  The     *)
(* decode run checks it with spike's own output (SpikeOutputs); MCProto-   *)
(* Stderr.cfg adds the program's writes to fd 2 (ProgOutputs).             *)
(***************************************************************************)
EXTENDS SpikeProto, ProtoCases
====
