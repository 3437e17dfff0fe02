-------------------------------- MODULE MCMem --------------------------------
(***************************************************************************)
(* Memory: a program stores a1 with sd at a0, reads it back through a3 =   *)
(* a0 + 8 with every load width and a negative offset, then overwrites     *)
(* parts of it with sw, sh and sb and reads it again.  a0 ranges over      *)
(* aligned, unaligned, partly and wholly out-of-range and wrapped          *)
(* addresses of a 16-byte data area after the program; a1 over values      *)
(* whose byte, half and word sign bits differ.                             *)
(***************************************************************************)
EXTENDS Machine, MCPrograms

MemProgram == Program(<<
  SD(10, 11, 0),        \* sd   a1, 0(a0)
  ADDI(13, 10, 8),      \* a3 = a0 + 8
  LD(5, 13, -8),        \* ld   t0, -8(a3)
  LW(6, 13, -8),        \* lw   t1
  LWU(7, 13, -8),       \* lwu  t2
  LH(28, 13, -8),       \* lh   t3
  LHU(29, 13, -8),      \* lhu  t4
  LB(30, 13, -8),       \* lb   t5
  LBU(31, 13, -8),      \* lbu  t6
  SW(10, 0, 4),         \* sw   x0, 4(a0)
  LD(8, 10, 0),         \* ld   s0, 0(a0)
  SH(10, 0, 0),         \* sh   x0, 0(a0)
  SB(10, 0, 2),         \* sb   x0, 2(a0)
  LWU(9, 10, 0),        \* lwu  s1, 0(a0)
  ADDI(17, 0, \h5D),
  ECALL >>)

DataStart == Len(MemProgram)
DataSize == 16

Addresses == { FromNat(DataStart), FromNat(DataStart + 3), FromNat(DataStart + 8),
               FromNat(DataStart + 12), FromNat(DataStart + DataSize), MaxU64 }
Values == { FromNat(1), Shl(One, 63),
            Norm([i \in Bytes |-> \h80]), Norm([i \in Bytes |-> \h7F]) }

MCInitVMs ==
  { ProgVM(MemProgram, DataStart + DataSize, (10 :> a) @@ (11 :> v), {RDINSTRET})
    : a \in Addresses, v \in Values }
MCMaxSteps == 20

(* The low n bytes of v, zero- or sign-extended. *)
Low(v, n) == Norm([i \in Bytes |-> IF i < n THEN v[i] ELSE 0])
SLow(v, n) == signExtend(Low(v, n), 8 * n - 1)

(* Each load reads back the value sd stored, with its width and extension  *)
(* (lb ... ld, lbu ... lwu of rvi.go), and the later narrow stores replace *)
(* exactly their bytes: after sw of x0 at +4 the doubleword is the low     *)
(* word of a1; after sh at +0 and sb at +2 only byte 3 remains.            *)
RoundTrip ==
  status = "exit" =>
    LET v == reg[11] IN
    /\ reg[5] = v              /\ reg[6] = SLow(v, 4)   /\ reg[7] = Low(v, 4)
    /\ reg[28] = SLow(v, 2)    /\ reg[29] = Low(v, 2)
    /\ reg[30] = SLow(v, 1)    /\ reg[31] = Low(v, 1)
    /\ reg[8] = Low(v, 4)
    /\ reg[9] = [Low(v, 4) EXCEPT ![0] = 0, ![1] = 0, ![2] = 0]

(* The program panics (on Mem's bounds check) exactly when its doubleword  *)
(* at a0 does not lie inside memory; otherwise every access, including the *)
(* loads at a negative offset from a0 + 8, stays in range and it exits.    *)
PanicIffOutOfRange ==
  status \in {"exit", "panic"} =>
    (status = "panic" <=> ~(IsSmall(reg[10]) /\ ToNat(reg[10]) + 8 <= MemLen))
====
