------------------------------ MODULE RvcTests ------------------------------
(***************************************************************************)
(* The repository's table-driven tests of compressed instructions (the     *)
(* _test part of pty.go): TestDecodeRVCFormat on the decodeC* extractors,  *)
(* TestDecodeRVCImmediateAndReg on rvcDecode's fields, and TestExecRVC,    *)
(* which decodes one instruction and calls its handler on a VM with the    *)
(* given registers and memory.  Each table is a set of cases and each test *)
(* body a predicate of one case, evaluated on the model's Decode, rvcDecode *)
(* and handlers: a case the predicate refutes is a test the model fails.   *)
(* Descriptions and messages are left out.                                 *)
(***************************************************************************)
EXTENDS Integers, Sequences, Bitwise, Decode, Handlers

P(k)  == FromNat(2^k)                              \* 1 << k
Sx(k) == signExtend(FromNat(2^k), k)               \* signExtend(1<<k, k)
LE(s) == [i \in Bytes |-> s[i + 1]]                \* a uint64 from its bytes, low first
Mem(s) == [a \in 0 .. Len(s) - 1 |-> s[a + 1]]     \* a []byte

-----------------------------------------------------------------------------
(* TestDecodeRVCFormat: <<extractor, in, a, b, c>>. *)
FormatCases == <<
  <<"CI", \h0F80, 0, \h1F, 0>>, <<"CI", \h107C, \h3F, 0, 0>>, <<"CI", \hFFFF, \h3F, \h1F, 0>>,
  <<"CSS", \h007C, 0, \h1F, 0>>, <<"CSS", \h1F80, \h3F, 0, 0>>, <<"CSS", \hFFFF, \h3F, \h1F, 0>>,
  <<"CL", \h0380, 0, 15, 8>>, <<"CL", \h001C, 0, 8, 15>>, <<"CL", \h1C60, \h1F, 8, 8>>,
  <<"CL", \hFFFF, \h1F, \hF, \hF>>,
  <<"CS", \h0380, 0, 15, 8>>, <<"CS", \h001C, 0, 8, 15>>, <<"CS", \h1C60, \h1F, 8, 8>>,
  <<"CS", \hFFFF, \h1F, \hF, \hF>>,
  <<"CJ", \h1FFC, \h7FF, 0, 0>>,
  <<"CR", \h0F80, \h1F, 0, 0>>, <<"CR", \h007C, 0, \h1F, 0>>, <<"CR", \hFFFF, \h1F, \h1F, 0>>,
  <<"CB", \h1C7C, \hFF, 8, 0>>, <<"CB", \h0380, 0, 15, 0>>, <<"CB", \hFFFF, \hFF, 15, 0>>,
  <<"CIW", \h1FE0, \hFF, 8, 0>>, <<"CIW", \h001C, 0, 15, 0>>, <<"CIW", \hFFFF, \hFF, 15, 0>> >>

(* tt.f(tt.in): the extractor, widened to three results by addval and     *)
(* add2vals.                                                               *)
FormatOf(f, in) ==
  LET two(r) == <<r[1], r[2], 0>> IN
  CASE f = "CI" -> two(decodeCI(in))   [] f = "CSS" -> two(decodeCSS(in))
    [] f = "CL" -> decodeCL(in)        [] f = "CS"  -> decodeCS(in)
    [] f = "CJ" -> <<decodeCJ(in), 0, 0>>
    [] f = "CR" -> two(decodeCR(in))   [] f = "CB"  -> two(decodeCB(in))
    [] f = "CIW" -> two(decodeCIW(in))

FormatPasses(t) == FormatOf(t[1], t[2]) = <<t[3], t[4], t[5]>>

-----------------------------------------------------------------------------
(* TestDecodeRVCImmediateAndReg: [in, imm, rd, rs1, rs2].  The table sets  *)
(* one immediate bit at a time on a base encoding: Grp gives the cases of  *)
(* a base and its <<bit, imm>> pairs, in the order of the table.           *)
Grp(base, rd, rs1, rs2, bits) ==
  [k \in DOMAIN bits |-> [in |-> base | bits[k][1], imm |-> bits[k][2], rd |-> rd, rs1 |-> rs1, rs2 |-> rs2]]

CIBits  == <<<<0, Zero>>, <<4, P(0)>>, <<8, P(1)>>, <<\h10, P(2)>>, <<\h20, P(3)>>, <<\h40, P(4)>>>>
LWBits  == <<<<0, Zero>>, <<\h20, P(6)>>, <<\h40, P(2)>>, <<\h400, P(3)>>, <<\h800, P(4)>>, <<\h1000, P(5)>>>>
LDBits  == <<<<0, Zero>>, <<\h20, P(6)>>, <<\h40, P(7)>>, <<\h400, P(3)>>, <<\h800, P(4)>>, <<\h1000, P(5)>>>>
BBits   == <<<<0, Zero>>, <<4, P(5)>>, <<8, P(1)>>, <<\h10, P(2)>>, <<\h20, P(6)>>, <<\h40, P(7)>>,
            <<\h400, P(3)>>, <<\h800, P(4)>>, <<\h1000, Sx(8)>>>>
SWSPBits == <<<<0, Zero>>, <<\h80, P(6)>>, <<\h100, P(7)>>, <<\h400, P(3)>>, <<\h800, P(4)>>, <<\h1000, P(5)>>>>

Shifts(base) == Grp(base, 15, 15, 0, CIBits \o <<<<\h1000, P(5)>>>>)
CAOp(op)       == Grp(op | \h0198, 11, 11, 14, <<<<0, Zero>>>>)

(* The loads and stores, the CI-format arithmetic and the CB shifts. *)
ImmRegCasesA ==
     Grp(\h000C, 11, 2, 0, <<<<0, Zero>>, <<\h20, P(3)>>, <<\h40, P(2)>>, <<\h80, P(6)>>,
                            <<\h100, P(7)>>, <<\h200, P(8)>>, <<\h400, P(9)>>, <<\h800, P(4)>>,
                            <<\h1000, P(5)>>>>)                                  \* C.ADDI4SPN
  \o Grp(\h410C, 11, 10, 0, LWBits) \o Grp(\h610C, 11, 10, 0, LDBits)      \* C.LW, C.LD
  \o Grp(\hC10C, 0, 10, 11, LWBits) \o Grp(\hE10C, 0, 10, 11, LDBits)      \* C.SW, C.SD
  \o Grp(\h0001, 0, 0, 0, <<<<0, Zero>>>>)                                      \* C.NOP
  \o Grp(\h0F81, 31, 31, 0, CIBits \o <<<<\h1000, Sx(5)>>>>)                  \* C.ADDI
  \o Grp(\h2F81, 31, 31, 0, CIBits \o <<<<\h1000, Sx(5)>>>>)                  \* C.ADDIW
  \o Grp(\h4F81, 31, 0, 0, CIBits \o <<<<\h1000, Sx(5)>>>>)                   \* C.LI
  \o Grp(\h6101, 2, 2, 0, <<<<0, Zero>>, <<4, P(5)>>, <<8, P(7)>>, <<\h10, P(8)>>,
                             <<\h20, P(6)>>, <<\h40, P(4)>>, <<\h1000, Sx(9)>>>>)   \* C.ADDI16SP
  \o Grp(\h6181, 3, 0, 0, <<<<0, Zero>>, <<4, P(12)>>, <<8, P(13)>>, <<\h10, P(14)>>,
                             <<\h20, P(15)>>, <<\h40, P(16)>>, <<\h1000, Sx(17)>>>>) \* C.LUI
  \o Shifts(\h8381) \o Shifts(\h8781) \o Shifts(\h8B81)                  \* C.SRLI, C.SRAI, C.ANDI

(* The register-register forms, the jumps and branches, and the SP forms. *)
ImmRegCasesB ==
     CAOp(\h8C01) \o CAOp(\h8C21) \o CAOp(\h8C41) \o CAOp(\h8C61)
  \o CAOp(\h9C01) \o CAOp(\h9C21)                                         \* C.SUB .. C.ADDW
  \o Grp(\hA001, 0, 0, 0, <<<<0, Zero>>, <<4, P(5)>>, <<8, P(1)>>, <<\h10, P(2)>>,
                             <<\h20, P(3)>>, <<\h40, P(7)>>, <<\h80, P(6)>>, <<\h100, P(10)>>,
                             <<\h200, P(8)>>, <<\h400, P(9)>>, <<\h800, P(4)>>,
                             <<\h1000, Sx(11)>>>>)                              \* C.J
  \o Grp(\hC001, 0, 8, 0, BBits) \o Grp(\hE001, 0, 8, 0, BBits)           \* C.BEQZ, C.BNEZ
  \o Grp(\h0F82, 31, 31, 0, CIBits \o <<<<\h1000, P(5)>>>>)                  \* C.SLLI
  \o Grp(\h4F82, 31, SP, 0, <<<<0, Zero>>, <<4, P(6)>>, <<8, P(7)>>, <<\h10, P(2)>>,
                              <<\h20, P(3)>>, <<\h40, P(4)>>, <<\h1000, P(5)>>>>)  \* C.LWSP
  \o Grp(\h6F82, 31, SP, 0, <<<<0, Zero>>, <<4, P(6)>>, <<8, P(7)>>, <<\h10, P(8)>>,
                              <<\h20, P(3)>>, <<\h40, P(4)>>, <<\h1000, P(5)>>>>)  \* C.LDSP
  \o Grp(\h8F82, 0, 31, 0, <<<<0, Zero>>>>) \o Grp(\h8AAA, 21, 0, 10, <<<<0, Zero>>>>) \* C.JR, C.MV
  \o Grp(\h9002, 0, 0, 0, <<<<0, Zero>>>>) \o Grp(\h9F82, 1, 31, 0, <<<<0, Zero>>>>)   \* C.EBREAK, C.JALR
  \o Grp(\h9AAA, 21, 21, 10, <<<<0, Zero>>>>)                                   \* C.ADD
  \o Grp(\hC07E, 0, SP, 31, SWSPBits \o <<<<\h200, P(2)>>>>)                  \* C.SWSP
  \o Grp(\hE07E, 0, SP, 31, SWSPBits \o <<<<\h200, P(8)>>>>)                  \* C.SDSP

(* rvcDecode succeeds (t.Fatalf otherwise) and gives the wanted fields. *)
ImmRegPasses(t) ==
  LET r == rvcDecode(t.in) IN
  /\ r[1] = "ok"
  /\ r[2].imm = t.imm /\ r[2].rs1 = t.rs1 /\ r[2].rs2 = t.rs2 /\ r[2].rd = t.rd

-----------------------------------------------------------------------------
(* asBytes: a compressed instruction as its two bytes, low first. *)
asBytes(in) == IF in & 3 = 3 THEN <<in % 256, (in \div 256) % 256, (in \div 65536) % 256, in \div 16777216>>
               ELSE <<in % 256, in \div 256>>

(* TestExecRVC: [in, reg, mem, wantReg, wantMem, wantPC]; registers are    *)
(* given by the entries that are not 0, memory as its bytes.               *)
X(in, reg, mem, wantReg, wantMem, wantPC) ==
  [in |-> in, reg |-> reg, mem |-> mem, wantReg |-> wantReg, wantMem |-> wantMem, wantPC |-> wantPC]
Seq11 == [i \in 1 .. 11 |-> i - 1]          \* []byte{0, 1, ..., 10}
Seq19 == [i \in 1 .. 19 |-> i - 1]
Seq21 == [i \in 1 .. 21 |-> i - 1]
NoRegs == <<>>

ExecCases == <<
  X(\h0020 | 12, (11 :> P(1)) @@ (SP :> P(4)), <<>>, (11 :> FromNat(\h18)) @@ (SP :> P(4)), <<>>, 0),  \* C.ADDI4SPN
  X(\h4000 | 12 | 256 | 64, (10 :> P(1)), Seq11,
    (10 :> P(1)) @@ (11 :> FromNat(\h09080706)), Seq11, 0),                                              \* C.LW
  X(\h6000 | 12 | 256 | \h400, (10 :> P(1)), Seq19,
    (10 :> P(1)) @@ (11 :> LE(<<10, 11, 12, 13, 14, 15, 16, 17>>)), Seq19, 0),                           \* C.LD
  X(\hC000 | 128 | 8 | 64, (9 :> One) @@ (10 :> FromNat(\h0D0C0B0A)), Seq11,
    (9 :> One) @@ (10 :> FromNat(\h0D0C0B0A)), <<0, 1, 2, 3, 4, 10, 11, 12, 13, 9, 10>>, 0),             \* C.SW
  X(\hE000 | 128 | 8 | \h400, (9 :> One) @@ (10 :> LE(<<1, 2, 3, 4, 5, 6, 7, 8>>)), Seq19,
    (9 :> One) @@ (10 :> LE(<<1, 2, 3, 4, 5, 6, 7, 8>>)),
    <<0, 1, 2, 3, 4, 5, 6, 7, 8, 1, 2, 3, 4, 5, 6, 7, 8, 17, 18>>, 0),                                   \* C.SD
  X(\h0001 | 7 * 128 | 12, (7 :> FromNat(5)), <<>>, (7 :> FromNat(8)), <<>>, 0),                         \* C.ADDI
  X(\h2001 | 7 * 128 | 12, (7 :> FromNat(5)), <<>>, (7 :> FromNat(8)), <<>>, 0),                         \* C.ADDIW
  X(\h4001 | 7 * 128 | 12, NoRegs, <<>>, (7 :> FromNat(3)), <<>>, 0),                                    \* C.LI
  X(\h6001 | 256 | 4, (SP :> FromNat(100)), <<>>, (SP :> FromNat(132)), <<>>, 0),                        \* C.ADDI16SP
  X(\h6001 | 3 * 128 | \h7C, NoRegs, <<>>, (3 :> FromNat(\h1F000)), <<>>, 0),                            \* C.LUI
  X(\h8001 | 128 | 8, (9 :> FromNat(7)), <<>>, (9 :> One), <<>>, 0),                                     \* C.SRLI
  X(\h8401 | 128 | 8, (9 :> FromNat(7)), <<>>, (9 :> One), <<>>, 0),                                     \* C.SRAI
  X(\h8801 | 128 | 12, (9 :> FromNat(10)), <<>>, (9 :> FromNat(2)), <<>>, 0),                            \* C.ANDI
  X(\h8C01 | 128 | 8, (9 :> FromNat(8)) @@ (10 :> FromNat(3)), <<>>,
    (9 :> FromNat(5)) @@ (10 :> FromNat(3)), <<>>, 0),                                                   \* C.SUB
  X(\hA001 | 16, NoRegs, <<>>, NoRegs, <<>>, 4),                                                         \* C.J
  X(\hC001 | 128 | 4, (9 :> Zero), <<>>, NoRegs, <<>>, 32),                                              \* C.BEQZ
  X(\hE001 | 128 | 4, (9 :> One), <<>>, (9 :> One), <<>>, 32),                                           \* C.BNEZ
  X(\h0002 | 128 | 8, (1 :> One), <<>>, (1 :> FromNat(4)), <<>>, 0),                                     \* C.SLLI
  X(\h4002 | 3 * 128 | 16, (SP :> One), Seq11, (SP :> One) @@ (3 :> FromNat(\h08070605)), Seq11, 0),   \* C.LWSP
  X(\h6002 | 3 * 128 | 32, (SP :> One), Seq21,
    (SP :> One) @@ (3 :> LE(<<9, 10, 11, 12, 13, 14, 15, 16>>)), Seq21, 0),                              \* C.LDSP
  X(\h8002 | 3 * 128, (3 :> FromNat(\hCAFE)), <<>>, (3 :> FromNat(\hCAFE)), <<>>, \hCAFE),              \* C.JR
  X(\hC002 | 12 | \h200, (SP :> One) @@ (3 :> FromNat(\h12345678)), [i \in 1 .. 16 |-> 0],
    (SP :> One) @@ (3 :> FromNat(\h12345678)), <<0, 0, 0, 0, 0, \h78, \h56, \h34, \h12, 0, 0, 0, 0, 0, 0, 0>>, 0), \* C.SWSP
  X(\hE002 | 12 | \h400, (SP :> One) @@ (3 :> LE(<<8, 7, 6, 5, 4, 3, 2, 1>>)), [i \in 1 .. 18 |-> 0],
    (SP :> One) @@ (3 :> LE(<<8, 7, 6, 5, 4, 3, 2, 1>>)),
    <<0, 0, 0, 0, 0, 0, 0, 0, 0, 8, 7, 6, 5, 4, 3, 2, 1, 0>>, 0) >>                                       \* C.SDSP

Regs(f) == [r \in 0 .. 31 |-> IF r \in DOMAIN f THEN f[r] ELSE Zero]

(* vm := &VM{Reg: tt.reg, Mem: tt.mem}: PC 0 and the counters 0. *)
TestVM(t) ==
  [reg |-> Regs(t.reg), csr |-> [c \in {RDINSTRET} |-> Zero], pc |-> Zero,
   mem |-> Mem(t.mem), out |-> [fd \in {1, 2} |-> <<>>]]

(* Decode succeeds with size 2, the handler returns no error (a panic      *)
(* fails the test too), and the registers, the memory and, where wantPC is *)
(* not 0, the PC are the wanted ones.                                      *)
ExecPasses(t) ==
  LET d == Decode(asBytes(t.in)) IN
  /\ d.status = "ok" /\ d.size = 2
  /\ \A r \in Dispatch(TestVM(t), d.instr) :
       /\ r.err = "none"
       /\ r.vm.reg = Regs(t.wantReg)
       /\ r.vm.mem = Mem(t.wantMem)
       /\ t.wantPC # 0 => r.vm.pc = FromNat(t.wantPC)
====
