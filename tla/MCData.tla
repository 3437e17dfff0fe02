------------------------------- MODULE MCData -------------------------------
(***************************************************************************)
(* The data path: the register arithmetic program of MCAlu, the memory     *)
(* program of MCMem, the CSR/OS-bridge program of MCSys and the program    *)
(* MCLoop starts the way main does, checked in one model.  prog records    *)
(* which of them the VM was started with; each                             *)
(* program's properties are stated for its own behaviours.  prog = "tests" *)
(* runs the repository's unit tests instead (GoTests, over the tables of   *)
(* RvcTests and RviTests), the VM left at the start of the ALU program.    *)
(***************************************************************************)
EXTENDS Machine

AluProg == INSTANCE MCAlu
MemProg == INSTANCE MCMem
SysProg == INSTANCE MCSys

VARIABLES prog,      \* "alu", "mem", "sys", "loop" or "tests"
          test, idx, failed,
          cli        \* main's --argv and --env flags (the loop program)

LoopProg == INSTANCE MCLoop

T == INSTANCE GoTests

Programs == [alu |-> AluProg!MCInitVMs, mem |-> MemProg!MCInitVMs, sys |-> SysProg!MCInitVMs]
DataMaxSteps == 24   \* MCLoop's bound: the loop program hits it for argc = 4 and 5

MCInit ==
  /\ T!RunnerInit
  /\ \/ \E p \in DOMAIN Programs : prog = p /\ \E v \in Programs[p] : InitFrom(v)
     \/ prog = "tests" /\ InitFrom(CHOOSE v \in Programs.alu : TRUE)
     \/ prog = "loop" /\ LoopProg!MCInit
  /\ prog # "loop" => cli = [argv |-> <<>>, env |-> <<>>]

MCNext ==
  \/ prog # "tests" /\ Next /\ UNCHANGED <<prog, test, idx, failed, cli>>
  \/ prog = "tests" /\ T!RunnerNext /\ UNCHANGED <<vars, prog, cli>>

-----------------------------------------------------------------------------
(* The loop program's frame and result (see MCLoop): the stack NewVM built *)
(* from main's split flags is the frame of spec §4.6, and the call, loop   *)
(* and return compute argc (argc + 1) / 2.                                 *)
StartLayout == prog = "loop" => LoopProg!StartLayout
LoopResult == prog = "loop" => LoopProg!LoopResult

(* div/rem and divu/remu of a0 by a1 satisfy a0 = q * a1 + r at exit       *)
(* (div, divu, rem, remu of rvi.go), see MCAlu.                            *)
DivRemIdentity == prog = "alu" => AluProg!DivRemIdentity

(* Every load reads back what the stores wrote, with its width and         *)
(* extension (lb ... ld, sb ... sd of rvi.go), see MCMem.                  *)
RoundTrip == prog = "mem" => MemProg!RoundTrip

(* The memory program panics exactly when its accesses leave Mem, wrapped  *)
(* addresses included (the slice bounds of the load and store handlers).   *)
PanicIffOutOfRange == prog = "mem" => MemProg!PanicIffOutOfRange

(* RDINSTRET counts retired instructions, and a value csrrw x0 writes is   *)
(* read back (csrrw's updatedRDINSTRET flag, VM.Run's retire step), MCSys. *)
InstretCount == prog = "sys" => SysProg!InstretCount

(* The write ecall returns the count of the bytes the host received, a bad *)
(* fd is an error and a buffer past Mem panics (ecall of rvi.go).          *)
WriteCount == prog = "sys" => SysProg!WriteCount

(* Every case of the repository's unit tests passes on the model's        *)
(* decodeC* extractors, rvcDecode and RV64IM/RVC handlers (GoTests).       *)
TestsPass == T!TestsPass
====
