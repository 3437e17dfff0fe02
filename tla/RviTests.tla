------------------------------ MODULE RviTests ------------------------------
(***************************************************************************)
(* The repository's table-driven tests of the RV64IM handlers: TestM,      *)
(* TestShifts, TestArith, TestLogical, TestJumps, TestMemLoad, TestMemStore *)
(* and TestLUIAUIPC.  Each case names a handler and calls it directly on a *)
(* VM built by test.setup; each test body is a predicate of one case,      *)
(* evaluated on the model's handlers.  Descriptions and messages are left  *)
(* out; the u64, u12, u13 and u20 conversions of the table literals are    *)
(* applied, so every value is the uint64 the test passes.                  *)
(***************************************************************************)
EXTENDS RvcTests

(* A uint64 from its four 16-bit groups, high first: 0x57acca70cafebabe is *)
(* U64(<<\h57AC, \hCA70, \hCAFE, \hBABE>>).                                *)
U64(g) == [i \in Bytes |-> LET h == g[4 - i \div 2] IN
                           IF i % 2 = 0 THEN h % 256 ELSE h \div 256]

(* The test struct: [fn, a, b, imm, pc, mem, want]; want is a register    *)
(* value, the PC of a jump, or the memory after a store.                   *)
Case(fn, a, b, imm, pc, mem, want) ==
  [fn |-> fn, a |-> a, b |-> b, imm |-> imm, pc |-> FromNat(pc), mem |-> mem, want |-> want]
RR(fn, a, b, want)            == Case(fn, a, b, Zero, 0, <<>>, want)
RI(fn, a, imm, want)          == Case(fn, a, Zero, imm, 0, <<>>, want)
JC(fn, pc, a, b, imm, want)   == Case(fn, a, b, imm, pc, <<>>, FromNat(want))
LC(fn, a, imm, mem, want)     == Case(fn, a, Zero, imm, 0, mem, want)
SC(fn, a, b, imm, want)       == Case(fn, a, b, imm, 0, <<>>, want)
UC(fn, pc, imm, want)         == Case(fn, Zero, Zero, imm, pc, <<>>, want)

(* test.setup: rd = a0 (0xA), rs1 = 0xB holding a, imm, PC and Mem from    *)
(* the case, and rs2 = 0xC holding b only when b is not 0 (rs2 = x0        *)
(* otherwise).                                                             *)
SetupIn(t) == Instr(t.fn, 11, IF t.b # Zero THEN 12 ELSE 0, 10, t.imm)
SetupVM(t) ==
  [reg |-> Regs((11 :> t.a) @@ (IF t.b # Zero THEN (12 :> t.b) ELSE <<>>)),
   csr |-> [c \in {RDINSTRET} |-> Zero], pc |-> t.pc, mem |-> Mem(t.mem),
   out |-> [fd \in {1, 2} |-> <<>>]]

(* TestMemStore builds its own VM: 16 zero bytes, a in 0xA, b in 0xB, and *)
(* the instruction rs1 = 0xA, rs2 = 0xB, rd = 0.                           *)
StoreIn(t) == Instr(t.fn, 10, 11, 0, t.imm)
StoreVM(t) ==
  [reg |-> Regs((10 :> t.a) @@ (11 :> t.b)), csr |-> [c \in {RDINSTRET} |-> Zero],
   pc |-> Zero, mem |-> [a \in 0 .. 15 |-> 0], out |-> [fd \in {1, 2} |-> <<>>]]

-----------------------------------------------------------------------------
(* The loop bodies.  err != nil is t.Fatalf; a flags value other than the  *)
(* wanted one is t.Errorf; either fails the case.                          *)

(* TestM, TestShifts, TestArith, TestLogical, TestMemLoad, TestLUIAUIPC:   *)
(* a0 holds want and the flags are empty.                                  *)
RegPasses(t) ==
  \A r \in Dispatch(SetupVM(t), SetupIn(t)) :
    /\ r.err = "none"
    /\ r.vm.reg[10] = t.want
    /\ ~r.updatedPC /\ ~r.updatedRDINSTRET

(* TestJumps: PC is want; for jal and jalr (the descriptions containing    *)
(* "jal") a0 holds startPC + 4; updatedPC is set exactly when PC moved.    *)
JumpPasses(t) ==
  \A r \in Dispatch(SetupVM(t), SetupIn(t)) :
    /\ r.err = "none"
    /\ r.vm.pc = t.want
    /\ t.fn \in {"jal", "jalr"} => r.vm.reg[10] = Add(t.pc, FromNat(4))
    /\ r.updatedPC = (r.vm.pc # t.pc) /\ ~r.updatedRDINSTRET

(* TestMemStore: the flags are empty and Mem is want. *)
StorePasses(t) ==
  \A r \in Dispatch(StoreVM(t), StoreIn(t)) :
    /\ r.err = "none"
    /\ ~r.updatedPC /\ ~r.updatedRDINSTRET
    /\ r.vm.mem = Mem(t.want)

-----------------------------------------------------------------------------
(* TestM *)
MCases == <<
  RR("mul", FromNat(2), FromNat(3), FromNat(6)),
  RR("mul", FromNat(2), MaxU64, Neg(FromNat(2))),
  RR("mul", Neg(FromNat(2)), MaxU64, FromNat(2)),
  RR("mul", FromNat(2), Zero, Zero),
  RR("mul", Zero, MaxU64, Zero),
  RR("mul", U64(<<\h57AC, \hCA70, \hCAFE, \hBABE>>), U64(<<\h57ED, \hFA57, \hF005, \hBA11>>), U64(<<\h42E7, \h2D98, \h544E, \h729E>>)),
  RR("mul", MaxU64, MaxU64, One),
  RR("mul", MaxU64, U64(<<\h7FFF, \hFFFF, \hFFFF, \hFFFF>>), Neg(U64(<<\h7FFF, \hFFFF, \hFFFF, \hFFFF>>))),
  RR("mulh", FromNat(2), FromNat(3), Zero),
  RR("mulh", FromNat(3), U64(<<\h7FFF, \hFFFF, \hFFFF, \hFFFF>>), One),
  RR("mulh", Neg(FromNat(3)), U64(<<\h7FFF, \hFFFF, \hFFFF, \hFFFF>>), MaxU64),
  RR("mulh", U64(<<\h57AC, \hCA70, \hCAFE, \hBABE>>), U64(<<\h57ED, \hFA57, \hF005, \hBA11>>), U64(<<\h1E1D, \h3980, \h9B07, \h65BE>>)),
  RR("mulh", Neg(U64(<<\h57AC, \hCA70, \hCAFE, \hBABE>>)), U64(<<\h57ED, \hFA57, \hF005, \hBA11>>), Neg(U64(<<\h1E1D, \h3980, \h9B07, \h65BE>>))),
  RR("mulh", Neg(U64(<<\h57AC, \hCA70, \hCAFE, \hBABE>>)), Neg(U64(<<\h57ED, \hFA57, \hF005, \hBA11>>)), U64(<<\h1E1D, \h3980, \h9B07, \h65BE>>)),
  RR("mulh", MaxU64, MaxU64, Zero),
  RR("mulh", MaxU64, U64(<<\h7FFF, \hFFFF, \hFFFF, \hFFFF>>), Zero),
  RR("mulhsu", FromNat(2), FromNat(3), Zero),
  RR("mulhsu", FromNat(3), U64(<<\h7FFF, \hFFFF, \hFFFF, \hFFFF>>), One),
  RR("mulhsu", Neg(FromNat(3)), U64(<<\h7FFF, \hFFFF, \hFFFF, \hFFFF>>), MaxU64),
  RR("mulhsu", U64(<<\h57AC, \hCA70, \hCAFE, \hBABE>>), U64(<<\h57ED, \hFA57, \hF005, \hBA11>>), U64(<<\h1E1D, \h3980, \h9B07, \h65BE>>)),
  RR("mulhsu", Neg(U64(<<\h57AC, \hCA70, \hCAFE, \hBABE>>)), U64(<<\h57ED, \hFA57, \hF005, \hBA11>>), Neg(U64(<<\h1E1D, \h3980, \h9B07, \h65BE>>))),
  RR("mulhsu", MaxU64, One, Zero),
  RR("mulhsu", MaxU64, U64(<<\h7FFF, \hFFFF, \hFFFF, \hFFFF>>), Zero),
  RR("mulhu", FromNat(2), FromNat(3), Zero),
  RR("mulhu", U64(<<\h57AC, \hCA70, \hCAFE, \hBABE>>), U64(<<\h57ED, \hFA57, \hF005, \hBA11>>), U64(<<\h1E1D, \h3980, \h9B07, \h65BE>>)),
  RR("mulhu", U64(<<\hA853, \h358F, \h3501, \h4542>>), U64(<<\hA812, \h5A8, \hFFA, \h45EF>>), U64(<<\h6E82, \h74B7, \hE002, \hF0EF>>)),
  RR("mulhu", MaxU64, MaxU64, U64(<<\hFFFF, \hFFFF, \hFFFF, \hFFFE>>)),
  RR("mulw", FromNat(2), FromNat(3), FromNat(6)),
  RR("mulw", U64(<<\h0, \h0, \hFFFF, \hFFFF>>), U64(<<\h0, \h0, \hFFFF, \hFFFF>>), One),
  RR("mulw", U64(<<\h0, \h1234, \hFFFF, \hFFFF>>), U64(<<\h0, \h5678, \hFFFF, \hFFFF>>), One),
  RR("mulw", U64(<<\h0, \h0, \h8000, \h0>>), One, U64(<<\hFFFF, \hFFFF, \h8000, \h0>>)),
  RR("div", FromNat(6), FromNat(2), FromNat(3)),
  RR("div", FromNat(2), MaxU64, Neg(FromNat(2))),
  RR("div", FromNat(7), FromNat(2), FromNat(3)),
  RR("div", FromNat(10), Neg(FromNat(6)), MaxU64),
  RR("div", FromNat(7), Zero, MaxU64),
  RR("div", Zero, Zero, MaxU64),
  RR("div", Neg(U64(<<\h8000, \h0, \h0, \h0>>)), MaxU64, Neg(U64(<<\h8000, \h0, \h0, \h0>>))),
  RR("divu", FromNat(6), FromNat(2), FromNat(3)),
  RR("divu", FromNat(7), FromNat(2), FromNat(3)),
  RR("divu", FromNat(7), Zero, MaxU64),
  RR("divu", Zero, Zero, MaxU64),
  RR("divu", U64(<<\h8FFF, \hFFFF, \hFFFF, \hFFFF>>), FromNat(2), U64(<<\h47FF, \hFFFF, \hFFFF, \hFFFF>>)),
  RR("rem", FromNat(6), FromNat(2), Zero),
  RR("rem", FromNat(2), MaxU64, Zero),
  RR("rem", FromNat(7), FromNat(2), One),
  RR("rem", FromNat(10), Neg(FromNat(6)), FromNat(4)),
  RR("rem", FromNat(7), Zero, FromNat(7)),
  RR("rem", Zero, Zero, Zero),
  RR("rem", Neg(U64(<<\h8000, \h0, \h0, \h0>>)), MaxU64, Zero),
  RR("remu", FromNat(6), FromNat(2), Zero),
  RR("remu", FromNat(7), FromNat(2), One),
  RR("remu", FromNat(7), Zero, FromNat(7)),
  RR("remu", Zero, Zero, Zero),
  RR("remu", U64(<<\h8FFF, \hFFFF, \hFFFF, \hFFFF>>), FromNat(2), One),
  RR("divw", U64(<<\hFFFF, \hFFFF, \h0, \hA>>), U64(<<\hFFFF, \hFFFF, \h0, \h6>>), One),
  RR("remw", U64(<<\hFFFF, \hFFFF, \h0, \hA>>), U64(<<\hFFFF, \hFFFF, \h0, \h6>>), FromNat(4)),
  RR("divuw", U64(<<\hFFFF, \hFFFF, \h0, \hA>>), U64(<<\hFFFF, \hFFFF, \h0, \h6>>), One),
  RR("remuw", U64(<<\hFFFF, \hFFFF, \h0, \hA>>), U64(<<\hFFFF, \hFFFF, \h0, \h6>>), FromNat(4)),
  RR("divw", U64(<<\hFFFF, \hFFFF, \hFFFF, \hFFEC>>), U64(<<\hFFFF, \hFFFF, \h0, \h6>>), Neg(FromNat(3))),
  RR("remw", U64(<<\hFFFF, \hFFFF, \hFFFF, \hFFEC>>), U64(<<\hFFFF, \hFFFF, \h0, \h6>>), Neg(FromNat(2))),
  RR("divuw", U64(<<\hFFFF, \hFFFF, \hFFFF, \hFFEC>>), U64(<<\hFFFF, \hFFFF, \h0, \h6>>), FromNat(\h2AAAAAA7)),
  RR("remuw", U64(<<\hFFFF, \hFFFF, \hFFFF, \hFFEC>>), U64(<<\hFFFF, \hFFFF, \h0, \h6>>), FromNat(2)) >>

(* TestShifts *)
ShiftCases == <<
  RR("sll", Zero, FromNat(10), Zero),
  RR("sll", One, FromNat(2), FromNat(4)),
  RR("sll", One, FromNat(\h3F), U64(<<\h8000, \h0, \h0, \h0>>)),
  RR("sll", One, FromNat(\hFFF), U64(<<\h8000, \h0, \h0, \h0>>)),
  RR("srl", FromNat(\hF0), FromNat(2), FromNat(\h3C)),
  RR("srl", Zero, FromNat(10), Zero),
  RR("srl", MaxU64, FromNat(\h3F), One),
  RR("srl", U64(<<\hFFFF, \hFFFF, \hFFFF, \hFFFB>>), FromNat(2), U64(<<\h3FFF, \hFFFF, \hFFFF, \hFFFE>>)),
  RR("srl", U64(<<\h8000, \h0, \h0, \h0>>), FromNat(\hFFF), One),
  RR("sra", FromNat(\hF0), FromNat(2), FromNat(\h3C)),
  RR("sra", Zero, FromNat(10), Zero),
  RR("sra", MaxU64, FromNat(\h3F), MaxU64),
  RR("sra", Neg(FromNat(5)), FromNat(2), Neg(FromNat(2))),
  RR("sra", U64(<<\h4000, \h0, \h0, \h0>>), FromNat(\hFFE), One),
  RI("slli", Zero, FromNat(10), Zero),
  RI("slli", One, FromNat(2), FromNat(4)),
  RI("slli", One, FromNat(\h3F), U64(<<\h8000, \h0, \h0, \h0>>)),
  RI("slli", One, FromNat(\hFFF), U64(<<\h8000, \h0, \h0, \h0>>)),
  RI("srli", FromNat(\hF0), FromNat(2), FromNat(\h3C)),
  RI("srli", Zero, FromNat(10), Zero),
  RI("srli", MaxU64, FromNat(\h3F), One),
  RI("srli", U64(<<\hFFFF, \hFFFF, \hFFFF, \hFFFB>>), FromNat(2), U64(<<\h3FFF, \hFFFF, \hFFFF, \hFFFE>>)),
  RI("srli", U64(<<\h8000, \h0, \h0, \h0>>), FromNat(\hFFF), One),
  RI("srai", FromNat(\hF0), FromNat(2), FromNat(\h3C)),
  RI("srai", Zero, FromNat(10), Zero),
  RI("srai", MaxU64, FromNat(\h3F), MaxU64),
  RI("srai", Neg(FromNat(5)), FromNat(2), Neg(FromNat(2))),
  RI("srai", U64(<<\h4000, \h0, \h0, \h0>>), FromNat(\hFFE), One),
  RI("slliw", Zero, FromNat(10), Zero),
  RI("slliw", One, FromNat(2), FromNat(4)),
  RI("slliw", One, FromNat(\h1E), FromNat(\h40000000)),
  RI("slliw", One, FromNat(\h1F), U64(<<\hFFFF, \hFFFF, \h8000, \h0>>)),
  RI("slliw", One, FromNat(\hFFF), U64(<<\hFFFF, \hFFFF, \h8000, \h0>>)),
  RI("srliw", FromNat(\hF0), FromNat(2), FromNat(\h3C)),
  RI("srliw", Zero, FromNat(10), Zero),
  RI("srliw", U64(<<\h0, \h0, \hFFFF, \hFFFF>>), FromNat(\h1F), One),
  RI("srliw", U64(<<\h0, \h0, \hFFFF, \hFFFB>>), FromNat(2), FromNat(\h3FFFFFFE)),
  RI("srliw", U64(<<\hFFFF, \hFFFF, \hFFFF, \hFFFB>>), FromNat(2), FromNat(\h3FFFFFFE)),
  RI("srliw", FromNat(\h40000000), FromNat(\hFFE), One),
  RI("sraiw", FromNat(\hF0), FromNat(2), FromNat(\h3C)),
  RI("sraiw", Zero, FromNat(10), Zero),
  RI("sraiw", U64(<<\h0, \h0, \hFFFF, \hFFFF>>), FromNat(\h3F), MaxU64),
  RI("sraiw", Neg(FromNat(5)), FromNat(2), Neg(FromNat(2))),
  RI("sraiw", FromNat(\h40000000), FromNat(\hFFE), One),
  RR("sllw", Zero, FromNat(10), Zero),
  RR("sllw", One, FromNat(2), FromNat(4)),
  RR("sllw", One, FromNat(\h1E), FromNat(\h40000000)),
  RR("sllw", One, FromNat(\h1F), U64(<<\hFFFF, \hFFFF, \h8000, \h0>>)),
  RR("sllw", One, FromNat(\hFFF), U64(<<\hFFFF, \hFFFF, \h8000, \h0>>)),
  RR("srlw", FromNat(\hF0), FromNat(2), FromNat(\h3C)),
  RR("srlw", Zero, FromNat(10), Zero),
  RR("srlw", U64(<<\h0, \h0, \hFFFF, \hFFFF>>), FromNat(\h1F), One),
  RR("srlw", U64(<<\h0, \h0, \hFFFF, \hFFFB>>), FromNat(2), FromNat(\h3FFFFFFE)),
  RR("srlw", U64(<<\hFFFF, \hFFFF, \hFFFF, \hFFFB>>), FromNat(2), FromNat(\h3FFFFFFE)),
  RR("srlw", FromNat(\h40000000), FromNat(\hFFE), One),
  RR("sraw", FromNat(\hF0), FromNat(2), FromNat(\h3C)),
  RR("sraw", Zero, FromNat(10), Zero),
  RR("sraw", U64(<<\h0, \h0, \hFFFF, \hFFFF>>), FromNat(\h3F), MaxU64),
  RR("sraw", Neg(FromNat(5)), FromNat(2), Neg(FromNat(2))),
  RR("sraw", FromNat(\h40000000), FromNat(\hFFE), One) >>

(* TestArith *)
ArithCases == <<
  RR("add", FromNat(2), FromNat(3), FromNat(5)),
  RR("add", FromNat(2), Neg(FromNat(3)), MaxU64),
  RR("add", Neg(FromNat(2)), Neg(FromNat(3)), Neg(FromNat(5))),
  RR("add", U64(<<\h7000, \h0, \h0, \h0>>), U64(<<\hFFF, \hFFFF, \hFFFF, \hFFFF>>), U64(<<\h7FFF, \hFFFF, \hFFFF, \hFFFF>>)),
  RR("add", U64(<<\h8000, \h0, \h0, \h0>>), MaxU64, U64(<<\h7FFF, \hFFFF, \hFFFF, \hFFFF>>)),
  RR("add", U64(<<\h7FFF, \hFFFF, \hFFFF, \hFFFF>>), One, U64(<<\h8000, \h0, \h0, \h0>>)),
  RR("addw", FromNat(2), FromNat(3), FromNat(5)),
  RR("addw", FromNat(2), Neg(FromNat(3)), MaxU64),
  RR("addw", Neg(FromNat(2)), Neg(FromNat(3)), Neg(FromNat(5))),
  RR("addw", U64(<<\h0, \h0, \hFFFF, \hFFFF>>), Zero, MaxU64),
  RR("addw", Zero, U64(<<\h0, \h0, \hFFFF, \hFFFF>>), MaxU64),
  RR("addw", FromNat(\h70000000), FromNat(\hFFFFFFF), FromNat(\h7FFFFFFF)),
  RR("addw", U64(<<\hFFFF, \hFFFF, \h8000, \h0>>), MaxU64, FromNat(\h7FFFFFFF)),
  RR("addw", FromNat(\h7FFFFFFF), One, U64(<<\hFFFF, \hFFFF, \h8000, \h0>>)),
  RI("addi", FromNat(2), FromNat(3), FromNat(5)),
  RI("addi", FromNat(2), FromNat(\hFFD), MaxU64),
  RI("addi", Neg(FromNat(2)), FromNat(\hFFD), Neg(FromNat(5))),
  RI("addi", U64(<<\h7000, \h0, \h0, \h0>>), FromNat(\h7FF), U64(<<\h7000, \h0, \h0, \h7FF>>)),
  RI("addi", U64(<<\h8000, \h0, \h0, \h0>>), FromNat(\hFFF), U64(<<\h7FFF, \hFFFF, \hFFFF, \hFFFF>>)),
  RI("addi", U64(<<\h7FFF, \hFFFF, \hFFFF, \hFFFF>>), One, U64(<<\h8000, \h0, \h0, \h0>>)),
  RI("addiw", FromNat(2), FromNat(3), FromNat(5)),
  RI("addiw", FromNat(2), FromNat(\hFFD), MaxU64),
  RI("addiw", Neg(FromNat(2)), FromNat(\hFFD), Neg(FromNat(5))),
  RI("addiw", FromNat(\h70000000), FromNat(\h7FF), FromNat(\h700007FF)),
  RI("addiw", U64(<<\hFFFF, \hFFFF, \h8000, \h0>>), FromNat(\hFFF), FromNat(\h7FFFFFFF)),
  RI("addiw", FromNat(\h7FFFFFFF), One, U64(<<\hFFFF, \hFFFF, \h8000, \h0>>)),
  RI("addiw", U64(<<\h0, \h0, \hFFFF, \hFFFF>>), Zero, MaxU64),
  RR("sub", FromNat(2), Neg(FromNat(3)), FromNat(5)),
  RR("sub", FromNat(2), FromNat(3), MaxU64),
  RR("sub", Neg(FromNat(2)), FromNat(3), Neg(FromNat(5))),
  RR("sub", U64(<<\h7000, \h0, \h0, \h0>>), Neg(U64(<<\hFFF, \hFFFF, \hFFFF, \hFFFF>>)), U64(<<\h7FFF, \hFFFF, \hFFFF, \hFFFF>>)),
  RR("sub", U64(<<\h8000, \h0, \h0, \h0>>), One, U64(<<\h7FFF, \hFFFF, \hFFFF, \hFFFF>>)),
  RR("sub", U64(<<\h7FFF, \hFFFF, \hFFFF, \hFFFF>>), MaxU64, U64(<<\h8000, \h0, \h0, \h0>>)),
  RR("subw", FromNat(2), Neg(FromNat(3)), FromNat(5)),
  RR("subw", FromNat(2), FromNat(3), MaxU64),
  RR("subw", Neg(FromNat(2)), FromNat(3), Neg(FromNat(5))),
  RR("subw", U64(<<\h0, \h0, \hFFFF, \hFFFF>>), Zero, MaxU64),
  RR("subw", MaxU64, U64(<<\h0, \h0, \hFFFF, \hFFFF>>), Zero),
  RR("subw", FromNat(\h70000000), Neg(FromNat(\hFFFFFFF)), FromNat(\h7FFFFFFF)),
  RR("subw", U64(<<\hFFFF, \hFFFF, \h8000, \h0>>), One, FromNat(\h7FFFFFFF)),
  RR("subw", FromNat(\h7FFFFFFF), MaxU64, U64(<<\hFFFF, \hFFFF, \h8000, \h0>>)),
  RI("slti", One, FromNat(2), One),
  RI("slti", One, One, Zero),
  RI("slti", FromNat(2), One, Zero),
  RI("slti", Neg(FromNat(2)), FromNat(\hFFF), One),
  RI("slti", MaxU64, FromNat(\hFFE), Zero),
  RI("slti", Zero, FromNat(\hFFF), Zero),
  RI("sltiu", One, FromNat(2), One),
  RI("sltiu", One, One, Zero),
  RI("sltiu", FromNat(2), One, Zero),
  RI("sltiu", Zero, FromNat(\hFFF), One),
  RR("slt", One, FromNat(2), One),
  RR("slt", One, One, Zero),
  RR("slt", FromNat(2), One, Zero),
  RR("slt", Neg(FromNat(2)), MaxU64, One),
  RR("slt", MaxU64, Neg(FromNat(2)), Zero),
  RR("slt", Zero, MaxU64, Zero),
  RR("sltu", One, FromNat(2), One),
  RR("sltu", One, One, Zero),
  RR("sltu", FromNat(2), One, Zero),
  RR("sltu", Zero, MaxU64, One) >>

(* TestLogical *)
LogicalCases == <<
  RI("xori", FromNat(3), FromNat(\hFF5), U64(<<\hFFFF, \hFFFF, \hFFFF, \hFFF6>>)),
  RI("ori", FromNat(3), FromNat(\hFF5), U64(<<\hFFFF, \hFFFF, \hFFFF, \hFFF7>>)),
  RI("andi", FromNat(3), FromNat(\hFF5), One),
  RR("xor", FromNat(3), FromNat(\hFF5), FromNat(\hFF6)),
  RR("or", FromNat(3), FromNat(\hFF5), FromNat(\hFF7)),
  RR("and", FromNat(3), FromNat(\hFF5), One) >>

(* TestJumps *)
JumpCases == <<
  JC("jal", 8, Zero, Zero, FromNat(\h12345), \h1234D),
  JC("jal", \h12345, Zero, Zero, FromNat(\hFFFF8), \h1233D),
  JC("jalr", 0, FromNat(8), Zero, FromNat(\h120), \h128),
  JC("jalr", 0, FromNat(\h120), Zero, FromNat(\h1FF8), \h118),
  JC("jalr", 0, FromNat(\h1120), Zero, FromNat(\h1000), \h120),
  JC("jalr", 0, FromNat(\h121), Zero, Zero, \h120),
  JC("beq", 8, One, One, FromNat(\h120), \h128),
  JC("beq", \h120, One, One, FromNat(\h1FF8), \h118),
  JC("beq", \h1120, One, One, FromNat(\h1000), \h120),
  JC("beq", 8, One, FromNat(2), FromNat(\h120), 8),
  JC("bne", 8, One, FromNat(2), FromNat(\h120), \h128),
  JC("bne", \h120, One, FromNat(2), FromNat(\h1FF8), \h118),
  JC("bne", \h1120, One, FromNat(2), FromNat(\h1000), \h120),
  JC("bne", 8, One, One, FromNat(\h120), 8),
  JC("blt", 8, One, FromNat(2), FromNat(\h120), \h128),
  JC("blt", 8, MaxU64, Zero, FromNat(\h120), \h128),
  JC("blt", \h120, One, FromNat(2), FromNat(\h1FF8), \h118),
  JC("blt", \h1120, One, FromNat(2), FromNat(\h1000), \h120),
  JC("blt", 8, One, One, FromNat(\h120), 8),
  JC("blt", 8, FromNat(2), One, FromNat(\h120), 8),
  JC("bge", 8, FromNat(2), One, FromNat(\h120), \h128),
  JC("bge", 8, Zero, MaxU64, FromNat(\h120), \h128),
  JC("bge", \h120, FromNat(2), One, FromNat(\h1FF8), \h118),
  JC("bge", \h1120, FromNat(2), One, FromNat(\h1000), \h120),
  JC("bge", 8, One, One, FromNat(\h120), \h128),
  JC("bge", 8, One, FromNat(2), FromNat(\h120), 8),
  JC("bltu", 8, One, FromNat(2), FromNat(\h120), \h128),
  JC("bltu", 8, Zero, MaxU64, FromNat(\h120), \h128),
  JC("bltu", \h120, One, FromNat(2), FromNat(\h1FF8), \h118),
  JC("bltu", \h1120, One, FromNat(2), FromNat(\h1000), \h120),
  JC("bltu", 8, One, One, FromNat(\h120), 8),
  JC("bltu", 8, FromNat(2), One, FromNat(\h120), 8),
  JC("bgeu", 8, FromNat(2), One, FromNat(\h120), \h128),
  JC("bgeu", 8, MaxU64, Zero, FromNat(\h120), \h128),
  JC("bgeu", \h120, FromNat(2), One, FromNat(\h1FF8), \h118),
  JC("bgeu", \h1120, FromNat(2), One, FromNat(\h1000), \h120),
  JC("bgeu", 8, One, One, FromNat(\h120), \h128),
  JC("bgeu", 8, One, FromNat(2), FromNat(\h120), 8) >>

(* TestMemLoad *)
LoadCases == <<
  LC("lb", Zero, Zero, <<1, 2, 3, 4>>, One),
  LC("lb", One, Zero, <<1, 2, 3, 4>>, FromNat(2)),
  LC("lb", FromNat(2), Zero, <<1, 2, 3, 4>>, FromNat(3)),
  LC("lb", FromNat(3), Zero, <<1, 2, 3, 4>>, FromNat(4)),
  LC("lb", Zero, Zero, <<\h80>>, U64(<<\hFFFF, \hFFFF, \hFFFF, \hFF80>>)),
  LC("lb", Zero, One, <<1, 2, 3, 4>>, FromNat(2)),
  LC("lb", FromNat(2), FromNat(\hFFF), <<1, 2, 3, 4>>, FromNat(2)),
  LC("lbu", Zero, Zero, <<1, 2, 3, 4>>, One),
  LC("lbu", Zero, Zero, <<\h80>>, FromNat(\h80)),
  LC("lbu", Zero, One, <<1, 2, 3, 4>>, FromNat(2)),
  LC("lbu", FromNat(2), FromNat(\hFFF), <<1, 2, 3, 4>>, FromNat(2)),
  LC("lh", Zero, Zero, <<1, 2, 3, 4>>, FromNat(\h201)),
  LC("lh", One, Zero, <<1, 2, 3, 4>>, FromNat(\h302)),
  LC("lh", FromNat(2), Zero, <<1, 2, 3, 4>>, FromNat(\h403)),
  LC("lh", Zero, Zero, <<0, \h80>>, U64(<<\hFFFF, \hFFFF, \hFFFF, \h8000>>)),
  LC("lh", One, One, <<1, 2, 3, 4>>, FromNat(\h403)),
  LC("lh", FromNat(3), FromNat(\hFFF), <<1, 2, 3, 4>>, FromNat(\h403)),
  LC("lhu", Zero, Zero, <<1, 2, 3, 4>>, FromNat(\h201)),
  LC("lhu", Zero, Zero, <<0, \h80>>, FromNat(\h8000)),
  LC("lhu", Zero, One, <<1, 2, 3, 4>>, FromNat(\h302)),
  LC("lhu", One, FromNat(\hFFF), <<1, 2, 3, 4>>, FromNat(\h201)),
  LC("lw", Zero, Zero, <<1, 2, 3, 4, 5>>, FromNat(\h4030201)),
  LC("lw", One, Zero, <<1, 2, 3, 4, 5>>, FromNat(\h5040302)),
  LC("lw", Zero, Zero, <<0, 0, 0, \h80>>, U64(<<\hFFFF, \hFFFF, \h8000, \h0>>)),
  LC("lw", Zero, One, <<1, 2, 3, 4, 5>>, FromNat(\h5040302)),
  LC("lw", FromNat(2), FromNat(\hFFF), <<1, 2, 3, 4, 5>>, FromNat(\h5040302)),
  LC("lwu", Zero, Zero, <<1, 2, 3, 4, 5>>, FromNat(\h4030201)),
  LC("lwu", Zero, Zero, <<0, 0, 0, \h80>>, U64(<<\h0, \h0, \h8000, \h0>>)),
  LC("lwu", Zero, One, <<1, 2, 3, 4, 5>>, FromNat(\h5040302)),
  LC("lwu", One, FromNat(\hFFF), <<1, 2, 3, 4, 5>>, FromNat(\h4030201)),
  LC("ld", Zero, Zero, <<1, 2, 3, 4, 5, 6, 7, 8, 9>>, U64(<<\h807, \h605, \h403, \h201>>)),
  LC("ld", One, Zero, <<1, 2, 3, 4, 5, 6, 7, 8, 9>>, U64(<<\h908, \h706, \h504, \h302>>)),
  LC("ld", Zero, One, <<1, 2, 3, 4, 5, 6, 7, 8, 9>>, U64(<<\h908, \h706, \h504, \h302>>)),
  LC("ld", FromNat(2), FromNat(\hFFF), <<1, 2, 3, 4, 5, 6, 7, 8, 9>>, U64(<<\h908, \h706, \h504, \h302>>)) >>

(* TestMemStore *)
StoreCases == <<
  SC("sb", FromNat(8), U64(<<\h1122, \h3344, \h5566, \h7788>>), Zero, <<0, 0, 0, 0, 0, 0, 0, 0, \h88, 0, 0, 0, 0, 0, 0, 0>>),
  SC("sb", FromNat(7), U64(<<\h1122, \h3344, \h5566, \h7788>>), One, <<0, 0, 0, 0, 0, 0, 0, 0, \h88, 0, 0, 0, 0, 0, 0, 0>>),
  SC("sb", FromNat(9), U64(<<\h1122, \h3344, \h5566, \h7788>>), FromNat(\hFFF), <<0, 0, 0, 0, 0, 0, 0, 0, \h88, 0, 0, 0, 0, 0, 0, 0>>),
  SC("sh", FromNat(8), U64(<<\h1122, \h3344, \h5566, \h7788>>), Zero, <<0, 0, 0, 0, 0, 0, 0, 0, \h88, \h77, 0, 0, 0, 0, 0, 0>>),
  SC("sh", FromNat(7), U64(<<\h1122, \h3344, \h5566, \h7788>>), One, <<0, 0, 0, 0, 0, 0, 0, 0, \h88, \h77, 0, 0, 0, 0, 0, 0>>),
  SC("sh", FromNat(9), U64(<<\h1122, \h3344, \h5566, \h7788>>), FromNat(\hFFF), <<0, 0, 0, 0, 0, 0, 0, 0, \h88, \h77, 0, 0, 0, 0, 0, 0>>),
  SC("sw", FromNat(8), U64(<<\h1122, \h3344, \h5566, \h7788>>), Zero, <<0, 0, 0, 0, 0, 0, 0, 0, \h88, \h77, \h66, \h55, 0, 0, 0, 0>>),
  SC("sw", FromNat(7), U64(<<\h1122, \h3344, \h5566, \h7788>>), One, <<0, 0, 0, 0, 0, 0, 0, 0, \h88, \h77, \h66, \h55, 0, 0, 0, 0>>),
  SC("sw", FromNat(9), U64(<<\h1122, \h3344, \h5566, \h7788>>), FromNat(\hFFF), <<0, 0, 0, 0, 0, 0, 0, 0, \h88, \h77, \h66, \h55, 0, 0, 0, 0>>),
  SC("sd", FromNat(8), U64(<<\h1122, \h3344, \h5566, \h7788>>), Zero, <<0, 0, 0, 0, 0, 0, 0, 0, \h88, \h77, \h66, \h55, \h44, \h33, \h22, \h11>>),
  SC("sd", FromNat(7), U64(<<\h1122, \h3344, \h5566, \h7788>>), One, <<0, 0, 0, 0, 0, 0, 0, 0, \h88, \h77, \h66, \h55, \h44, \h33, \h22, \h11>>),
  SC("sd", FromNat(9), U64(<<\h1122, \h3344, \h5566, \h7788>>), FromNat(\hFFF), <<0, 0, 0, 0, 0, 0, 0, 0, \h88, \h77, \h66, \h55, \h44, \h33, \h22, \h11>>) >>

(* TestLUIAUIPC *)
UpperCases == <<
  UC("lui", 0, FromNat(\h12345000), FromNat(\h12345000)),
  UC("lui", 0, U64(<<\h0, \h0, \h8234, \h5000>>), U64(<<\hFFFF, \hFFFF, \h8234, \h5000>>)),
  UC("auipc", \h678, FromNat(\h12345000), FromNat(\h12345678)),
  UC("auipc", \h678, U64(<<\h0, \h0, \h8234, \h5000>>), U64(<<\hFFFF, \hFFFF, \h8234, \h5678>>)) >>
====
