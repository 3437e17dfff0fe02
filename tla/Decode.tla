------------------------------- MODULE Decode -------------------------------
(***************************************************************************)
(* The instruction decoder: decodeSize and Decode (the RVI decoder and its *)
(* rvi64Instructions table) and rvcDecode with its decodeC* field          *)
(* extractors.  A decoded Instruction is a record                          *)
(*   [fn |-> handler name, rs1, rs2, rd |-> register numbers, imm |-> Word] *)
(* and a decoder result is [status, instr, size] where status is "ok",     *)
(* "error" (a returned Go error) or "panic" (a Go run-time panic: a        *)
(* panic() call or an index out of range).  The raw `in` field is only     *)
(* printed, so it is left out.                                             *)
(***************************************************************************)
EXTENDS Integers, Sequences, Bitwise, Word

SP == 2
RA == 1
Zero0 == 0                       \* the register Zero of pty.go

Instr(fn, rs1, rs2, rd, imm) == [fn |-> fn, rs1 |-> rs1, rs2 |-> rs2, rd |-> rd, imm |-> imm]
NoInstr == Instr("nil", 0, 0, 0, Zero)

Ok(in, size) == [status |-> "ok", instr |-> in, size |-> size]
Fail(st, size) == [status |-> st, instr |-> NoInstr, size |-> size]

(* (x >> lo) & mask on a natural. *)
Fld(x, lo, mask) == (x \div 2^lo) & mask

-----------------------------------------------------------------------------
(* decodeSize: the instruction length from its first two bytes, and        *)
(* whether it is one the decoder can name (<<size, ok>>).  The `default`   *)
(* panic is unreachable: the five cases cover every byte.                  *)
decodeSize(b0, b1) ==
  CASE b0 & 3 # 3               -> <<2, TRUE>>
    [] b0 & 31 # 31             -> <<4, TRUE>>
    [] b0 & 63 = 31             -> <<3, TRUE>>
    [] b0 & 127 = 63            -> <<4, TRUE>>
    [] OTHER (* b0 & 127 = 127 *) ->
         LET n == Fld(b1, 4, 7) IN IF n = 7 THEN <<0, FALSE>> ELSE <<5 + 2 * n, TRUE>>

-----------------------------------------------------------------------------
(* rvi64Instructions: key funct7 | funct3 | opcode>>2 -> handler.  The Go  *)
(* array has length 0x20AE + 1; a key past it is an index out of range.    *)
rvi64Instructions ==
  ( \h0D :> "lui"    @@ \h05 :> "auipc" @@ \h1B :> "jal"   @@ \h19 :> "jalr"
 @@ \h18 :> "beq"    @@ \h38 :> "bne"   @@ \h98 :> "blt"   @@ \hB8 :> "bge"
 @@ \hD8 :> "bltu"   @@ \hF8 :> "bgeu"  @@ \h00 :> "lb"    @@ \h20 :> "lh"
 @@ \h40 :> "lw"     @@ \h80 :> "lbu"   @@ \hA0 :> "lhu"   @@ \h08 :> "sb"
 @@ \h28 :> "sh"     @@ \h48 :> "sw"    @@ \h04 :> "addi"  @@ \h44 :> "slti"
 @@ \h64 :> "sltiu"  @@ \h84 :> "xori"  @@ \hC4 :> "ori"   @@ \hE4 :> "andi"
 @@ \h0C :> "add"    @@ \h200C :> "sub" @@ \h2C :> "sll"   @@ \h4C :> "slt"
 @@ \h6C :> "sltu"   @@ \h8C :> "xor"   @@ \hAC :> "srl"   @@ \h20AC :> "sra"
 @@ \hCC :> "or"     @@ \hEC :> "and"   @@ \h03 :> "fence" @@ \h23 :> "fence_i"
 @@ \h1C :> "ecallOrBreak" @@ \h3C :> "csrrw" @@ \h5C :> "csrrs" @@ \h7C :> "csrrc"
 @@ \hBC :> "csrrwi" @@ \hDC :> "csrrsi" @@ \hFC :> "csrrci"
 @@ \hC0 :> "lwu"    @@ \h60 :> "ld"    @@ \h68 :> "sd"    @@ \h24 :> "slli"
 @@ \hA4 :> "shiftRight" @@ \h06 :> "addiw" @@ \h26 :> "slliw" @@ \hA6 :> "srliw"
 @@ \h20A6 :> "sraiw" @@ \h0E :> "addw" @@ \h200E :> "subw" @@ \h2E :> "sllw"
 @@ \hAE :> "srlw"   @@ \h20AE :> "sraw"
 @@ \h10C :> "mul"   @@ \h12C :> "mulh" @@ \h14C :> "mulhsu" @@ \h16C :> "mulhu"
 @@ \h18C :> "div"   @@ \h1AC :> "divu" @@ \h1CC :> "rem"  @@ \h1EC :> "remu"
 @@ \h10E :> "mulw"  @@ \h18E :> "divw" @@ \h1AE :> "divuw" @@ \h1CE :> "remw"
 @@ \h1EE :> "remuw" )

rviTableLen == \h20AE + 1

(* Base-opcode classes of the format switch. *)
(* Mutant of RType: boOp32 left out of the r-type case of the switch. *)
RTypeNoOp32 == {\h0B, \h0C, \h14}
RType == {\h0B, \h0C, \h0E, \h14}
IType == {\h00, \h01, \h03, \h04, \h06, \h19, \h1C}
SType == {\h08, \h09}

(* The 32-bit decoder, on the four bytes of the instruction. *)
DecodeRVI(b) ==
  LET in  == [i \in Bytes |-> IF i < 4 THEN b[i + 1] ELSE 0]
      rs1 == Bits(in, 15, 5)
      rs2 == Bits(in, 20, 5)
      rd  == Bits(in, 7, 5)
      bop == Bits(in, 2, 5)
      I(fn, imm) == Instr(fn, rs1, rs2, rd, imm)
      uimm == [i \in Bytes |-> IF i = 1 THEN in[1] & \hF0 ELSE IF i = 0 THEN 0 ELSE in[i]]
      jimm == Bits(in, 31, 1) * 2^20 + Bits(in, 12, 8) * 2^12
              + Bits(in, 20, 1) * 2^11 + Bits(in, 21, 10) * 2
      funct7 == IF bop \in RType THEN Bits(in, 25, 7) * 256 ELSE 0
      imm == CASE bop \in IType  -> Bits(in, 20, 12)
               [] bop \in SType  -> Bits(in, 25, 7) * 32 + Bits(in, 7, 5)
               [] bop = \h18   -> Bits(in, 31, 1) * 2^12 + Bits(in, 7, 1) * 2^11
                                    + Bits(in, 25, 6) * 32 + Bits(in, 8, 4) * 2
               [] OTHER          -> 0
      key == funct7 + Bits(in, 12, 3) * 32 + bop
  IN  CASE bop = \h0D -> Ok(I("lui", uimm), 4)
        [] bop = \h05 -> Ok(I("auipc", uimm), 4)
        [] bop = \h1B -> Ok(I("jal", FromNat(jimm)), 4)
        [] bop \notin RType \cup IType \cup SType \cup {\h18} -> Fail("error", 0)
        [] key >= rviTableLen -> Fail("panic", 0)
        [] key \notin DOMAIN rvi64Instructions -> Fail("error", 0)
        [] OTHER -> Ok(I(rvi64Instructions[key], FromNat(imm)), 4)

-----------------------------------------------------------------------------
(* The compressed formats' fields (rvc.go); register fields of the 3-bit   *)
(* forms are offset by rvcRegOffset.                                       *)
rvcRegOffset == 8
decodeCR(in)      == <<Fld(in, 7, 31), Fld(in, 2, 31)>>
decodeCISign(in)  == <<Fld(in, 2, 31), Fld(in, 7, 31)>>
decodeCI(in)      == <<Fld(in, 7, 32) | Fld(in, 2, 31), Fld(in, 7, 31)>>
decodeCSS(in)     == <<Fld(in, 7, 63), Fld(in, 2, 31)>>
decodeCIW(in)     == <<Fld(in, 5, 255), Fld(in, 2, 7) + rvcRegOffset>>
(* Mutant of decodeCL: the 3-bit register fields used without rvcRegOffset. *)
decodeCL(in)      == <<Fld(in, 8, 28) | Fld(in, 5, 3), Fld(in, 7, 7) + rvcRegOffset,
                       Fld(in, 2, 7) + rvcRegOffset>>
decodeCS(in)      == decodeCL(in)
decodeCB(in)      == <<Fld(in, 5, 224) | Fld(in, 2, 31), Fld(in, 7, 7) + rvcRegOffset>>
(* Mutant of decodeShiftCB: shamt[5] (bit 12) dropped. *)
decodeShiftCBLow(in) == <<Fld(in, 2, 31), Fld(in, 7, 7) + rvcRegOffset>>
decodeShiftCB(in) == <<(in & \h1000) \div 128 | Fld(in, 2, 31), Fld(in, 7, 7) + rvcRegOffset>>
decodeCJ(in)      == Fld(in, 2, \h7FF)

(* x << k, for the immediate permutations below. *)
Up(x, k) == x * 2^k

(* rvcDecode: one 16-bit instruction to the Instruction it stands for.     *)
(* Results are <<status, instr>>; the floating-point forms, the reserved   *)
(* selector and the reserved op-op forms 0x1e/0x1f panic.                  *)
rvcDecode(in) ==
  LET sel == Fld(in, 11, \h1C) | (in & 3)
      ok(fn, rs1, rs2, rd, imm) == <<"ok", Instr(fn, rs1, rs2, rd, FromNat(imm))>>
      okW(fn, rs1, rs2, rd, imm) == <<"ok", Instr(fn, rs1, rs2, rd, imm)>>
      sx(v, bit) == signExtend(FromNat(v), bit)
      ci  == decodeCI(in)
      cl  == decodeCL(in)
      ciw == decodeCIW(in)
      cb  == decodeCB(in)
      scb == decodeShiftCB(in)
      css == decodeCSS(in)
      cr  == decodeCR(in)
      cbImm == LET i == cb[1] IN
               sx(Up(i & \h80, 1) | ((i & \h60) \div 4) | Up(i & \h18, 3) | (i & 6) | Up(i & 1, 5), 8)
      opop == Fld(in, 8, \h1C) | Fld(in, 5, 3)
      opFn == (\hC :> "sub" @@ \hD :> "xor" @@ \hE :> "or" @@ \hF :> "and"
               @@ \h1C :> "subw" @@ \h1D :> "addw")
      bit12 == in & \h1000
  IN
  CASE in = 0 -> <<"error", NoInstr>>
    [] sel = \h00 -> LET i == ciw[1] IN
                     ok("addi", SP, 0, ciw[2],
                        ((i & \hC0) \div 4) | Up(i & \h3C, 4) | Up(i & 2, 1) | Up(i & 1, 3))
    [] sel \in {\h04, \h10, \h14, \h06, \h16} -> <<"panic", NoInstr>>
    [] sel = \h08 -> ok("lw", cl[2], 0, cl[3], Up((Up(cl[1], 5) | cl[1]) & \h3E, 1))
    [] sel = \h0C -> ok("ld", cl[2], 0, cl[3], (Up(cl[1], 6) | Up(cl[1], 1)) & \hF8)
    [] sel = \h18 -> ok("sw", cl[2], cl[3], 0, Up(Up(cl[1], 5) | cl[1], 1) & \h7C)
    [] sel = \h1C -> ok("sd", cl[2], cl[3], 0, Up(Up(cl[1], 5) | cl[1], 1) & \hF8)
    [] sel = \h01 -> okW("addi", ci[2], 0, ci[2], sx(ci[1], 5))
    [] sel = \h05 -> okW("addiw", ci[2], 0, ci[2], sx(ci[1], 5))
    [] sel = \h09 -> okW("addi", Zero0, 0, ci[2], sx(ci[1], 5))
    [] sel = \h0D /\ ci[2] # 2 -> okW("lui", 0, 0, ci[2], sx(Up(ci[1], 12), 17))
    [] sel = \h0D -> LET i == ci[1] IN
                     okW("addi", SP, 0, SP,
                         sx(Up(i & \h20, 4) | (i & \h10) | Up(i & 8, 3) | Up(i & 6, 6) | Up(i & 1, 5), 9))
    [] sel = \h11 /\ Fld(in, 10, 3) = 0 -> ok("srli", scb[2], 0, scb[2], scb[1])
    [] sel = \h11 /\ Fld(in, 10, 3) = 1 -> ok("srai", scb[2], 0, scb[2], scb[1])
    [] sel = \h11 /\ Fld(in, 10, 3) = 2 -> ok("andi", scb[2], 0, scb[2], scb[1])
    [] sel = \h11 /\ opop \in DOMAIN opFn -> ok(opFn[opop], cl[2], cl[3], cl[2], 0)
    [] sel = \h11 -> <<"panic", NoInstr>>
    [] sel = \h15 -> LET i == decodeCJ(in) IN
                     okW("rvcJAL", 0, 0, Zero0,
                         sx(((i & \h200) \div 32) | Up(i & \h40, 4) | Up(i & \h5A0, 1)
                            | Up(i & \h10, 3) | (i & \hE) | Up(i & 1, 5), 11))
    [] sel = \h19 -> okW("beq", cb[2], Zero0, 0, cbImm)
    [] sel = \h1D -> okW("bne", cb[2], Zero0, 0, cbImm)
    [] sel = \h02 -> ok("slli", ci[2], 0, ci[2], ci[1])
    [] sel = \h0A -> ok("lw", SP, 0, ci[2], (Up(ci[1], 6) | ci[1]) & \hFC)
    [] sel = \h0E -> ok("ld", SP, 0, ci[2], (Up(ci[1], 6) | ci[1]) & \h1F8)
    [] sel = \h12 /\ bit12 = 0 /\ cr[2] = 0 -> ok("rvcJALR", cr[1], 0, Zero0, 0)
    [] sel = \h12 /\ bit12 = 0 -> ok("add", Zero0, cr[2], cr[1], 0)
    [] sel = \h12 /\ cr[1] = 0 /\ cr[2] = 0 -> ok("ebreak", 0, 0, 0, 0)
    [] sel = \h12 /\ cr[2] = 0 -> ok("rvcJALR", cr[1], 0, RA, 0)
    [] sel = \h12 -> ok("add", cr[1], cr[2], cr[1], 0)
    [] sel = \h1A -> ok("sw", SP, css[2], 0, (Up(css[1], 6) | css[1]) & \hFC)
    [] sel = \h1E -> ok("sd", SP, css[2], 0, (Up(css[1], 6) | css[1]) & \h1F8)

-----------------------------------------------------------------------------
(* Decode: the first instruction of the byte sequence b (the bytes from PC *)
(* to PC+4, cut at the end of memory).                                     *)
Decode(b) ==
  LET sz == decodeSize(b[1], b[2]) IN
  CASE Len(b) = 0 \/ Len(b) % 2 # 0 -> Fail("error", 0)
    [] ~sz[2]                        -> Fail("error", 0)
    [] Len(b) < sz[1]                -> Fail("error", 0)
    [] sz[1] = 2 -> LET r == rvcDecode(b[2] * 256 + b[1]) IN
                    IF r[1] = "ok" THEN Ok(r[2], 2) ELSE Fail(r[1], 2)
    [] sz[1] # 4 -> Fail("error", 0)
    [] OTHER     -> DecodeRVI(b)
====
