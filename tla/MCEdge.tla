-------------------------------- MODULE MCEdge --------------------------------
(***************************************************************************)
(* Single instructions at the edges the spec spells out (spec §4.5, §8):   *)
(* a short program per Test, run on inputs that reach the edge, and a      *)
(* property stating what the spec requires of the result.                  *)
(***************************************************************************)
EXTENDS Machine, MCPrograms

CONSTANT Test    \* one of the keys of Programs

MinInt64 == Shl(One, 63)
ExitSeq == <<ADDI(17, 0, \h5D), ECALL>>

Programs ==
     "srai"   :> (<<SRAI(5, 10, 3)>> \o ExitSeq)
  @@ "remw"   :> (<<OPW(1, 6, 5, 10, 11), OPW(1, 7, 6, 10, 11)>> \o ExitSeq)
  @@ "mulh"   :> (<<OP(1, 1, 5, 10, 11), OP(1, 2, 6, 10, 11)>> \o ExitSeq)
  @@ "jalr"   :> <<JALR(0, 10, -4), ADDI(10, 0, 7), ADDI(10, 0, 7)>> \o ExitSeq

(* The a0 and a1 each program runs on. *)
Inputs ==
     "srai"   :> ({MinInt64, Neg(FromNat(7)), FromNat(7)} \X {Zero})
  @@ "remw"   :> ({FromNat(5), Shl(One, 31)} \X {Zero, Shl(One, 32)})
  @@ "mulh"   :> ({MaxU64, One, MinInt64, FromNat(3)} \X {MaxU64, One, MinInt64, FromNat(3)})
  @@ "jalr"   :> {<<FromNat(16), Zero>>}

MCInitVMs ==
  { ProgVM(Program(Programs[Test]), 4 * Len(Programs[Test]), (10 :> in[1]) @@ (11 :> in[2]), {RDINSTRET})
    : in \in Inputs[Test] }
MCMaxSteps == 8

Ended == status \in {"done", "exit", "error", "panic"}

(* SRAI (spec §4.5 Shifts): high six immediate bits 0x10 select the        *)
(* arithmetic shift, so the program exits with a0 >> 3 arithmetic in t0   *)
(* (shiftRight of rvi.go).                                                 *)
SraiSpec == Ended => status = "exit" /\ reg[5] = Sra(reg[10], 3)

(* REMW/REMUW with a divisor whose low 32 bits are 0 (spec §4.5 Divide):   *)
(* the result is the 32-bit dividend sign-extended, for remw and remuw     *)
(* alike (remw and remuw of rvi.go).                                       *)
RemwSpec ==
  Ended =>
    /\ status = "exit"
    /\ U32(reg[11]) = Zero => reg[5] = S32(reg[10]) /\ reg[6] = S32(reg[10])

(* MULH and MULHSU (spec §4.5 Multiply): the high 64 bits of the 128-bit   *)
(* signed x signed and signed x unsigned products; the reference is the    *)
(* unsigned high word corrected for negative operands (mulh, mulhsu of     *)
(* rvi.go).                                                                *)
MulhRef(a, b)   == Sub(Sub(MulHiU(a, b), IF IsNeg(a) THEN b ELSE Zero), IF IsNeg(b) THEN a ELSE Zero)
MulhsuRef(a, b) == Sub(MulHiU(a, b), IF IsNeg(a) THEN b ELSE Zero)
MulhSpec ==
  status = "exit" => reg[5] = MulhRef(reg[10], reg[11]) /\ reg[6] = MulhsuRef(reg[10], reg[11])

(* JALR (spec §4.5): the target is (Reg[rs1] + sx(imm, 11)) & ~1, read     *)
(* before the link is written, for every retired jalr (jalr of rvi.go).    *)
JalrSpec ==
  [][ lastInstr'.fn = "jalr" /\ steps' = steps + 1 =>
        pc' = WAndNot(Add(reg[lastInstr'.rs1], signExtend(lastInstr'.imm, 11)), One) ]_vars
====
