------------------------------- MODULE MCAlu -------------------------------
(***************************************************************************)
(* Register arithmetic: a straight-line program of R-type, M and W         *)
(* instructions on a0 (x10) and a1 (x11), each drawn from a set of words   *)
(* at the edges of int64/uint64/int32 arithmetic, ending in exit.          *)
(***************************************************************************)
EXTENDS Machine, MCPrograms

MinInt64 == Shl(One, 63)
Values == {Zero, One, MaxU64, MinInt64, FromNat(7), Neg(FromNat(7))}

AluProgram == Program(<<
  OP(0, 0, 12, 10, 11),         \* add   x12, a0, a1
  OP(\h20, 0, 13, 10, 11),      \* sub   x13, a0, a1
  OP(0, 2, 14, 10, 11),         \* slt   x14, a0, a1
  OP(0, 3, 15, 10, 11),         \* sltu  x15, a0, a1
  OP(\h20, 5, 16, 10, 11),      \* sra   x16, a0, a1
  OP(1, 4, 6, 10, 11),          \* div   x6, a0, a1
  OP(1, 6, 7, 10, 11),          \* rem   x7, a0, a1
  OP(1, 5, 28, 10, 11),         \* divu  x28, a0, a1
  OP(1, 7, 29, 10, 11),         \* remu  x29, a0, a1
  ADDIW(30, 10, -1),            \* addiw x30, a0, -1
  SRAIW(31, 10, 3),             \* sraiw x31, a0, 3
  OP(0, 0, 0, 10, 11),          \* add   x0, a0, a1 (discarded)
  ADDI(17, 0, \h5D),            \* a7 = exit
  ECALL >>)

MCInitVMs ==
  { ProgVM(AluProgram, Len(AluProgram), (10 :> x) @@ (11 :> y), {RDINSTRET}) : x, y \in Values }
MCMaxSteps == 20

(* At exit, div/rem and divu/remu of a0 by a1 satisfy                      *)
(* a0 = (a0 / a1) * a1 + a0 % a1 in 64-bit arithmetic (div, divu, rem and *)
(* remu of rvi.go), including division by zero (quotient all ones,         *)
(* remainder the dividend) and MinInt64 / -1.                              *)
DivRemIdentity ==
  status = "exit" =>
    /\ Add(Mul(reg[6], reg[11]), reg[7]) = reg[10]
    /\ Add(Mul(reg[28], reg[11]), reg[29]) = reg[10]
====
