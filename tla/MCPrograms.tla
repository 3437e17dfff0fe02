----------------------------- MODULE MCPrograms -----------------------------
(***************************************************************************)
(* Test programs for the model checker: RV64IMC instruction encoders (the  *)
(* inverse of the decoder, written from the ISA's instruction formats),    *)
(* and the construction of a VM holding a program at address 0.           *)
(* A 32-bit instruction is built as two 16-bit halves, since TLC integers  *)
(* are 32-bit signed; immediates are given as their two's-complement field *)
(* values (e.g. -4 in 12 bits is 4092).                                    *)
(***************************************************************************)
EXTENDS Integers, Sequences, Word

LOCAL SeqX == INSTANCE SequencesExt

Half(h) == <<h % 256, h \div 256>>
Enc(lo, hi) == Half(lo) \o Half(hi)

Field(v, bits) == v % 2^bits            \* two's complement of v in `bits` bits
Bt(v, i) == (v \div 2^i) % 2            \* bit i of a natural
Rg(v, lo, n) == (v \div 2^lo) % 2^n     \* bits lo .. lo+n-1 of a natural

(* rd, funct3 and the low bit of rs1 fill the low half after the opcode. *)
Lo(op, rd, f3, rs1) == op + rd * 128 + f3 * 4096 + (rs1 % 2) * 32768

R(op, rd, f3, rs1, rs2, f7) == Enc(Lo(op, rd, f3, rs1), rs1 \div 2 + rs2 * 16 + f7 * 512)
I(op, rd, f3, rs1, imm) == Enc(Lo(op, rd, f3, rs1), rs1 \div 2 + Field(imm, 12) * 16)
S(op, f3, rs1, rs2, imm) ==
  LET v == Field(imm, 12) IN Enc(Lo(op, v % 32, f3, rs1), rs1 \div 2 + rs2 * 16 + (v \div 32) * 512)
B(f3, rs1, rs2, off) ==
  LET v == Field(off, 13)
  IN  R(\h63, Rg(v, 1, 4) * 2 + Bt(v, 11), f3, rs1, rs2, Rg(v, 5, 6) + Bt(v, 12) * 64)
U(op, rd, imm20) == Enc(op + rd * 128 + (imm20 % 16) * 4096, imm20 \div 16)
J(rd, off) ==
  LET v == Field(off, 21)
  IN  U(\h6F, rd, Bt(v, 20) * 2^19 + Rg(v, 1, 10) * 2^9 + Bt(v, 11) * 2^8 + Rg(v, 12, 8))

(* Mnemonics used by the programs. *)
ADDI(rd, rs1, imm)   == I(\h13, rd, 0, rs1, imm)
SLTIU(rd, rs1, imm)  == I(\h13, rd, 3, rs1, imm)
ANDI(rd, rs1, imm)   == I(\h13, rd, 7, rs1, imm)
SRAI(rd, rs1, sh)    == I(\h13, rd, 5, rs1, \h400 + sh)
SRLI(rd, rs1, sh)    == I(\h13, rd, 5, rs1, sh)
ADDIW(rd, rs1, imm)  == I(\h1B, rd, 0, rs1, imm)
SRLIW(rd, rs1, sh)   == I(\h1B, rd, 5, rs1, sh)
SRAIW(rd, rs1, sh)   == I(\h1B, rd, 5, rs1, \h400 + sh)
OP(f7, f3, rd, rs1, rs2)   == R(\h33, rd, f3, rs1, rs2, f7)
OPW(f7, f3, rd, rs1, rs2)  == R(\h3B, rd, f3, rs1, rs2, f7)
LD(rd, rs1, imm)     == I(\h03, rd, 3, rs1, imm)
LB(rd, rs1, imm)     == I(\h03, rd, 0, rs1, imm)
LW(rd, rs1, imm)     == I(\h03, rd, 2, rs1, imm)
LH(rd, rs1, imm)     == I(\h03, rd, 1, rs1, imm)
LBU(rd, rs1, imm)    == I(\h03, rd, 4, rs1, imm)
LHU(rd, rs1, imm)    == I(\h03, rd, 5, rs1, imm)
LWU(rd, rs1, imm)    == I(\h03, rd, 6, rs1, imm)
SH(rs1, rs2, imm)    == S(\h23, 1, rs1, rs2, imm)
SD(rs1, rs2, imm)    == S(\h23, 3, rs1, rs2, imm)
SB(rs1, rs2, imm)    == S(\h23, 0, rs1, rs2, imm)
SW(rs1, rs2, imm)    == S(\h23, 2, rs1, rs2, imm)
JAL(rd, off)         == J(rd, off)
JALR(rd, rs1, imm)   == I(\h67, rd, 0, rs1, imm)
BEQ(rs1, rs2, off)   == B(0, rs1, rs2, off)
BNE(rs1, rs2, off)   == B(1, rs1, rs2, off)
BLT(rs1, rs2, off)   == B(4, rs1, rs2, off)
BGEU(rs1, rs2, off)  == B(7, rs1, rs2, off)
LUI(rd, imm20)       == U(\h37, rd, imm20)
AUIPC(rd, imm20)     == U(\h17, rd, imm20)
ECALL                == I(\h73, 0, 0, 0, 0)
EBREAK               == I(\h73, 0, 0, 0, 1)
CSRRW(rd, csr, rs1)  == I(\h73, rd, 1, rs1, csr)
CSRRS(rd, csr, rs1)  == I(\h73, rd, 2, rs1, csr)
CSRRWI(rd, csr, u)   == I(\h73, rd, 5, u, csr)
FENCE                == I(\h0F, 0, 0, 0, 0)

-----------------------------------------------------------------------------
(* Compressed (RVC) encoders, from the ISA's 16-bit formats.  Spread(v,    *)
(* bits, hi) places bits[1], bits[2], ... of v at hi, hi-1, ...; an        *)
(* immediate is permuted into its field this way.  Registers of the 3-bit  *)
(* forms are x8 .. x15.                                                    *)
Spread(v, bits, hi) ==
  LET f[k \in 0 .. Len(bits)] == IF k = 0 THEN 0 ELSE f[k - 1] + Bt(v, bits[k]) * 2^(hi - k + 1)
  IN  f[Len(bits)]
CI(f3, op, rd, imm) ==
  LET v == Field(imm, 6) IN Half(op + Rg(v, 0, 5) * 4 + rd * 128 + Bt(v, 5) * 4096 + f3 * 8192)
CADDI(rd, imm)   == CI(0, 1, rd, imm)
CADDIW(rd, imm)  == CI(1, 1, rd, imm)
CLI(rd, imm)     == CI(2, 1, rd, imm)
CLUI(rd, imm)    == CI(3, 1, rd, imm)          \* imm = nzimm[17:12]
CSLLI(rd, sh)    == CI(0, 2, rd, sh)
CADDI16SP(imm)   ==
  LET v == Field(imm, 10) IN Half(1 + 2 * 128 + 3 * 8192 + Spread(v, <<9>>, 12) + Spread(v, <<4, 6, 8, 7, 5>>, 6))
CLWSP(rd, off)   == Half(2 + rd * 128 + 2 * 8192 + Spread(off, <<5>>, 12) + Spread(off, <<4, 3, 2, 7, 6>>, 6))
CLDSP(rd, off)   == Half(2 + rd * 128 + 3 * 8192 + Spread(off, <<5>>, 12) + Spread(off, <<4, 3, 8, 7, 6>>, 6))
CSWSP(rs2, off)  == Half(2 + rs2 * 4 + 6 * 8192 + Spread(off, <<5, 4, 3, 2, 7, 6>>, 12))
CSDSP(rs2, off)  == Half(2 + rs2 * 4 + 7 * 8192 + Spread(off, <<5, 4, 3, 8, 7, 6>>, 12))
CADDI4SPN(rd, nz) == Half((rd - 8) * 4 + Spread(nz, <<5, 4, 9, 8, 7, 6, 2, 3>>, 12))
CL(f3, r, rs1, off, lo) ==
  Half(r * 4 - 32 + (rs1 - 8) * 128 + f3 * 8192 + Spread(off, <<5, 4, 3>>, 12) + Spread(off, lo, 6))
CLW(rd, rs1, off)  == CL(2, rd, rs1, off, <<2, 6>>)
CLD(rd, rs1, off)  == CL(3, rd, rs1, off, <<7, 6>>)
CSW(rs1, rs2, off) == CL(6, rs2, rs1, off, <<2, 6>>)
CSD(rs1, rs2, off) == CL(7, rs2, rs1, off, <<7, 6>>)
CB(f2, rd, imm) ==
  LET v == Field(imm, 6) IN Half(1 + 4 * 8192 + f2 * 1024 + (rd - 8) * 128 + Bt(v, 5) * 4096 + Rg(v, 0, 5) * 4)
CSRLI(rd, sh)    == CB(0, rd, sh)
CSRAI(rd, sh)    == CB(1, rd, sh)
CANDI(rd, imm)   == CB(2, rd, imm)
(* f: sub 0, xor 1, or 2, and 3, subw 4, addw 5. *)
CA(f, rd, rs2)   == Half(1 + 4 * 8192 + 3 * 1024 + (rd - 8) * 128 + (rs2 - 8) * 4 + (f % 4) * 32 + (f \div 4) * 4096)
CJ(off)          == Half(1 + 5 * 8192 + Spread(Field(off, 12), <<11, 4, 9, 8, 10, 6, 7, 3, 2, 1, 5>>, 12))
CBR(f3, rs1, off) ==
  LET v == Field(off, 9)
  IN  Half(1 + f3 * 8192 + (rs1 - 8) * 128 + Spread(v, <<8, 4, 3>>, 12) + Spread(v, <<7, 6, 2, 1, 5>>, 6))
CBEQZ(rs1, off)  == CBR(6, rs1, off)
CBNEZ(rs1, off)  == CBR(7, rs1, off)
CR(b, r1, r2)    == Half(2 + 4 * 8192 + b * 4096 + r1 * 128 + r2 * 4)
CJR(rs1)         == CR(0, rs1, 0)
CMV(rd, rs2)     == CR(0, rd, rs2)
CEBREAK          == CR(1, 0, 0)
CJALR(rs1)       == CR(1, rs1, 0)
CADD(rd, rs2)    == CR(1, rd, rs2)

-----------------------------------------------------------------------------
(* A VM with program `prog` (a byte sequence) at address 0 of a memory of  *)
(* `size` bytes, PC 0, the registers of `regs` (a function from register  *)
(* numbers) set and the others 0, CSRs csrs all 0, nothing written.        *)
ProgVM(prog, size, regs, csrs) ==
  [reg |-> [r \in 0 .. 31 |-> IF r \in DOMAIN regs THEN regs[r] ELSE Zero],
   csr |-> [c \in csrs |-> Zero],
   pc  |-> Zero,
   mem |-> [a \in 0 .. size - 1 |-> IF a < Len(prog) THEN prog[a + 1] ELSE 0],
   out |-> [fd \in {1, 2} |-> <<>>]]

(* The byte sequence of a list of instructions. *)
Program(is) == SeqX!FlattenSeq(is)
====
