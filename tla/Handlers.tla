------------------------------ MODULE Handlers ------------------------------
(***************************************************************************)
(* The instruction handlers of rvi.go and rvc.go, and VM.store (pty.go).   *)
(* A handler, func(vm *VM, in *Instruction) (flags, error), is an       *)
(* an operator of the instruction and the machine                        *)
(*   vm = [reg |-> [0..31 -> Word], csr |-> [CSR numbers -> Word],         *)
(*         pc |-> Word, mem |-> [0..len(Mem)-1 -> Byte],                   *)
(*         out |-> [{1, 2} -> Seq(Byte)]]    (what was written to fd 1, 2) *)
(* to the SET of results it may return,                                    *)
(*   [vm, updatedPC, updatedRDINSTRET, err]                                *)
(* with err "none", "exit", "error" or "panic" (a Go run-time panic:       *)
(* Mem or CSR index out of range, integer division by zero, panic()).      *)
(* Every handler is deterministic except ecall's write, whose host write   *)
(* may stop short.                                                         *)
(***************************************************************************)
EXTENDS Integers, Sequences, FiniteSets, Bitwise, Word

RDINSTRET == 3

Res(vm)       == {[vm |-> vm, updatedPC |-> FALSE, updatedRDINSTRET |-> FALSE, err |-> "none"]}
Jump(vm)      == {[vm |-> vm, updatedPC |-> TRUE,  updatedRDINSTRET |-> FALSE, err |-> "none"]}
Stop(vm, err) == {[vm |-> vm, updatedPC |-> FALSE, updatedRDINSTRET |-> FALSE, err |-> err]}

(* VM.store: writes to the zero register are dropped. *)
store(vm, rd, val) == IF rd = 0 THEN vm ELSE [vm EXCEPT !.reg[rd] = val]

(* uint64(b) for a boolean comparison result. *)
B2W(b) == IF b THEN One ELSE Zero

-----------------------------------------------------------------------------
(* Memory.  Mem[a], Mem[a+1], ... in the order the handlers touch them:    *)
(* the first byte out of range panics, after the bytes before it were      *)
(* written.  For an in-range a, a+k does not wrap.                         *)
InMem(vm, a, n) == IsSmall(a) /\ ToNat(a) + n - 1 \in DOMAIN vm.mem

(* v = Mem[a] | Mem[a+1]<<8 | ... over n bytes. *)
LoadN(vm, a, n) == [i \in Bytes |-> IF i < n THEN vm.mem[ToNat(a) + i] ELSE 0]

(* Mem[a+i] = byte(v >> 8i) for i < n, for the addresses in range. *)
StoreN(vm, a, n, v) ==
  LET base == ToNat(a)
  IN  [vm EXCEPT !.mem = [j \in DOMAIN vm.mem |->
                            IF IsSmall(a) /\ j >= base /\ j < base + n
                            THEN v[j - base] ELSE vm.mem[j]]]

(* Mutant of Addr: the offset sign-extended from bit 12, as jalr does. *)
AddrWide(vm, in) == Add(vm.reg[in.rs1], signExtend(in.imm, 12))

(* Address of a load or store: Reg[rs1] + signExtend(imm, 11). *)
Addr(vm, in) == Add(vm.reg[in.rs1], signExtend(in.imm, 11))

Load(vm, in, n, ext(_)) ==
  LET a == Addr(vm, in)
  IN  IF InMem(vm, a, n) THEN Res(store(vm, in.rd, ext(LoadN(vm, a, n))))
                         ELSE Stop(vm, "panic")

Store(vm, in, n) ==
  LET a == Addr(vm, in)
      w == StoreN(vm, a, n, vm.reg[in.rs2])
  IN  IF InMem(vm, a, n) THEN Res(w) ELSE Stop(w, "panic")

-----------------------------------------------------------------------------
(* RV32I *)
lui(vm, in)   == Res(store(vm, in.rd, signExtend(in.imm, 31)))
auipc(vm, in) == Res(store(vm, in.rd, signExtend(Add(in.imm, vm.pc), 31)))

(* jal and jalr store the link before computing the target; jalr reads     *)
(* Reg[rs1] after that store.                                              *)
jal(vm, in) ==
  LET v == store(vm, in.rd, Add(vm.pc, FromNat(4)))
  IN  Jump([v EXCEPT !.pc = Add(signExtend(in.imm, 19), vm.pc)])

jalr(vm, in) ==
  LET v == store(vm, in.rd, Add(vm.pc, FromNat(4)))
  IN  Jump([v EXCEPT !.pc = WAndNot(Add(signExtend(in.imm, 12), v.reg[in.rs1]), One)])

(* Mutant of Branch: the target taken relative to the next instruction. *)
BranchFromNext(vm, in, taken) ==
  IF taken THEN Jump([vm EXCEPT !.pc = Add(Add(vm.pc, FromNat(4)), signExtend(in.imm, 12))])
  ELSE Res(vm)

Branch(vm, in, taken) ==
  IF taken THEN Jump([vm EXCEPT !.pc = Add(vm.pc, signExtend(in.imm, 12))]) ELSE Res(vm)

beq(vm, in)  == Branch(vm, in, vm.reg[in.rs1] = vm.reg[in.rs2])
bne(vm, in)  == Branch(vm, in, vm.reg[in.rs1] # vm.reg[in.rs2])
blt(vm, in)  == Branch(vm, in, LtS(vm.reg[in.rs1], vm.reg[in.rs2]))
bge(vm, in)  == Branch(vm, in, ~LtS(vm.reg[in.rs1], vm.reg[in.rs2]))
bltu(vm, in) == Branch(vm, in, LtU(vm.reg[in.rs1], vm.reg[in.rs2]))
bgeu(vm, in) == Branch(vm, in, ~LtU(vm.reg[in.rs1], vm.reg[in.rs2]))

lb(vm, in)  == Load(vm, in, 1, LAMBDA v : signExtend(v, 7))
lh(vm, in)  == Load(vm, in, 2, LAMBDA v : signExtend(v, 15))
(* Mutant of lw: the word zero-extended, as lwu does. *)
lwNoSign(vm, in) == Load(vm, in, 4, LAMBDA v : v)
lw(vm, in)  == Load(vm, in, 4, LAMBDA v : signExtend(v, 31))
lbu(vm, in) == Load(vm, in, 1, LAMBDA v : v)
lhu(vm, in) == Load(vm, in, 2, LAMBDA v : v)
sb(vm, in)  == Store(vm, in, 1)
sh(vm, in)  == Store(vm, in, 2)
sw(vm, in)  == Store(vm, in, 4)

(* The ALU handlers store one value, computed from Reg[rs1] and Reg[rs2] or imm, in rd. *)
Alu(vm, in, val) == Res(store(vm, in.rd, val))
Imm12(in) == signExtend(WAnd(in.imm, FromNat(\hFFF)), 11)
Sh6(w) == Bits(w, 0, 6)                              \* w & 0x3f
Sh5(w) == Bits(w, 0, 5)                              \* w & 0x1f

addi(vm, in)  == Alu(vm, in, Add(vm.reg[in.rs1], Imm12(in)))
slti(vm, in)  == Alu(vm, in, B2W(LtS(vm.reg[in.rs1], signExtend(in.imm, 11))))
sltiu(vm, in) == Alu(vm, in, B2W(LtU(vm.reg[in.rs1], in.imm)))
xori(vm, in)  == Alu(vm, in, WXor(vm.reg[in.rs1], signExtend(in.imm, 11)))
ori(vm, in)   == Alu(vm, in, WOr(vm.reg[in.rs1], signExtend(in.imm, 11)))
andi(vm, in)  == Alu(vm, in, WAnd(vm.reg[in.rs1], signExtend(in.imm, 11)))
add(vm, in)   == Alu(vm, in, Add(vm.reg[in.rs1], vm.reg[in.rs2]))
sub(vm, in)   == Alu(vm, in, Sub(vm.reg[in.rs1], vm.reg[in.rs2]))
sll(vm, in)   == Alu(vm, in, Shl(vm.reg[in.rs1], Sh6(vm.reg[in.rs2])))
slt(vm, in)   == Alu(vm, in, B2W(LtS(vm.reg[in.rs1], vm.reg[in.rs2])))
sltu(vm, in)  == Alu(vm, in, B2W(LtU(vm.reg[in.rs1], vm.reg[in.rs2])))
xor(vm, in)   == Alu(vm, in, WXor(vm.reg[in.rs1], vm.reg[in.rs2]))
srl(vm, in)   == Alu(vm, in, Shr(vm.reg[in.rs1], Sh6(vm.reg[in.rs2])))
sra(vm, in)   == Alu(vm, in, Sra(vm.reg[in.rs1], Sh6(vm.reg[in.rs2])))
or(vm, in)    == Alu(vm, in, WOr(vm.reg[in.rs1], vm.reg[in.rs2]))
and(vm, in)   == Alu(vm, in, WAnd(vm.reg[in.rs1], vm.reg[in.rs2]))

fence(vm, in)   == Res(vm)
fence_i(vm, in) == Res(vm)

-----------------------------------------------------------------------------
(* ECALL and EBREAK share the table entry; ecallOrBreak switches on        *)
(* imm >> 12, which is 0 for every 12-bit immediate the decoder produces.  *)
ebreak(vm, in) == Res(vm)

(* ecall: a7 = 0x5D exits, a7 = 0x40 writes Mem[buf:buf+n] to fd 1 or 2.  *)
(* The slice panics unless 0 <= buf <= buf+n <= len(Mem) in int; the host  *)
(* write reports k <= n bytes written, its error is dropped, and k is      *)
(* stored in a0.                                                           *)
(* Mutant of ecall: a0 set to the requested count n, not the count written. *)
ecallReportsN(vm, in) ==
  LET call == vm.reg[17]  fd == vm.reg[10]  buf == vm.reg[11]  n == vm.reg[12]
  IN  CASE call = FromNat(\h5D) -> Stop(vm, "exit")
        [] call = FromNat(\h40) /\ fd \notin {One, FromNat(2)} -> Stop(vm, "error")
        [] call = FromNat(\h40) /\ ~(IsSmall(buf) /\ IsSmall(n)
                                     /\ ToNat(buf) + ToNat(n) <= Cardinality(DOMAIN vm.mem)) ->
              Stop(vm, "panic")
        [] call = FromNat(\h40) ->
              UNION { Res(store([vm EXCEPT !.out[ToNat(fd)] =
                                   @ \o [i \in 1 .. k |-> vm.mem[ToNat(buf) + i - 1]]],
                                10, n))
                      : k \in 0 .. ToNat(n) }
        [] OTHER -> Stop(vm, "error")

ecall(vm, in) ==
  LET call == vm.reg[17]
      fd   == vm.reg[10]
      buf  == vm.reg[11]
      n    == vm.reg[12]
  IN  CASE call = FromNat(\h5D) -> Stop(vm, "exit")
        [] call = FromNat(\h40) /\ fd \notin {One, FromNat(2)} -> Stop(vm, "error")
        [] call = FromNat(\h40) /\ ~(IsSmall(buf) /\ IsSmall(n)
                                     /\ ToNat(buf) + ToNat(n) <= Cardinality(DOMAIN vm.mem)) ->
              Stop(vm, "panic")
        [] call = FromNat(\h40) ->
              UNION { Res(store([vm EXCEPT !.out[ToNat(fd)] =
                                   @ \o [i \in 1 .. k |-> vm.mem[ToNat(buf) + i - 1]]],
                                10, FromNat(k)))
                      : k \in 0 .. ToNat(n) }
        [] OTHER -> Stop(vm, "error")

ecallOrBreak(vm, in) ==
  LET k == Shr(in.imm, 12)
  IN  CASE k = Zero -> ecall(vm, in)
        [] k = One  -> ebreak(vm, in)
        [] OTHER    -> Stop(vm, "panic")

-----------------------------------------------------------------------------
(* CSR read-modify-write.  VM.CSR has 1 << 11 entries and the index is the *)
(* 12-bit CSR number, so a number >= 2048 panics.  The immediate forms use *)
(* uimm = signExtend(rs1 & 0x1f, 4).                                       *)
CsrOk(in) == IsSmall(in.imm) /\ ToNat(in.imm) < 2048
Csr(vm, in) == vm.csr[ToNat(in.imm)]
SetCsr(vm, in, v) == [vm EXCEPT !.csr[ToNat(in.imm)] = v]
Uimm(in) == signExtend(FromNat(in.rs1 % 32), 4)

csrrw(vm, in) ==
  CASE ~CsrOk(in) -> Stop(vm, "panic")
    [] in.rd = 0 /\ ToNat(in.imm) = RDINSTRET ->
         {[vm |-> SetCsr(vm, in, vm.reg[in.rs1]), updatedPC |-> FALSE,
           updatedRDINSTRET |-> TRUE, err |-> "none"]}
    [] in.rd = 0 -> Res(SetCsr(vm, in, vm.reg[in.rs1]))
    [] OTHER -> Res(store(SetCsr(vm, in, vm.reg[in.rs1]), in.rd, Csr(vm, in)))

(* csrrs/csrrc (op = WOr or WAndNot), changing the CSR only when rs1 # 0. *)
CsrSetClear(vm, in, op(_, _)) ==
  IF ~CsrOk(in) THEN Stop(vm, "panic")
  ELSE LET v == IF in.rs1 # 0 THEN SetCsr(vm, in, op(Csr(vm, in), vm.reg[in.rs1])) ELSE vm
       IN  Res(store(v, in.rd, Csr(vm, in)))

csrrs(vm, in) == CsrSetClear(vm, in, WOr)
csrrc(vm, in) == CsrSetClear(vm, in, WAndNot)

csrrwi(vm, in) ==
  CASE ~CsrOk(in) -> Stop(vm, "panic")
    [] in.rd = 0  -> Res(SetCsr(vm, in, Uimm(in)))
    [] OTHER      -> Res(store(SetCsr(vm, in, Uimm(in)), in.rd, Csr(vm, in)))

(* csrrsi/csrrci, changing the CSR only when uimm # 0. *)
CsrSetClearI(vm, in, op(_, _)) ==
  IF ~CsrOk(in) THEN Stop(vm, "panic")
  ELSE LET v == IF Uimm(in) # Zero THEN SetCsr(vm, in, op(Csr(vm, in), Uimm(in))) ELSE vm
       IN  Res(store(v, in.rd, Csr(vm, in)))

csrrsi(vm, in) == CsrSetClearI(vm, in, WOr)
csrrci(vm, in) == CsrSetClearI(vm, in, WAndNot)

-----------------------------------------------------------------------------
(* RV64I *)
lwu(vm, in) == Load(vm, in, 4, LAMBDA v : v)
ld(vm, in)  == Load(vm, in, 8, LAMBDA v : v)
sd(vm, in)  == Store(vm, in, 8)

slli(vm, in) == Alu(vm, in, Shl(vm.reg[in.rs1], Sh6(in.imm)))
srli(vm, in) == Alu(vm, in, Shr(vm.reg[in.rs1], Sh6(in.imm)))
srai(vm, in) == Alu(vm, in, Sra(vm.reg[in.rs1], Sh6(in.imm)))

(* shiftRight switches on imm & 0xFC00, a multiple of 0x400: 0 selects     *)
(* srli, the case 0x10 (srai) cannot match, anything else panics.          *)
shiftRight(vm, in) ==
  LET top == Bits(in.imm, 10, 6) * \h400
  IN  CASE top = 0    -> srli(vm, in)
        [] top = \h10 -> srai(vm, in)
        [] OTHER      -> Stop(vm, "panic")

(* The W forms: uint64(int32(...)) is S32, uint64(uint32(...)) is U32. *)
addiw(vm, in) == Alu(vm, in, S32(Add(vm.reg[in.rs1], Imm12(in))))
slliw(vm, in) == Alu(vm, in, signExtend(U32(Shl(U32(vm.reg[in.rs1]), Sh5(in.imm))), 31))
srliw(vm, in) == Alu(vm, in, signExtend(Shr(U32(vm.reg[in.rs1]), Sh5(in.imm)), 31))
sraiw(vm, in) == Alu(vm, in, Sra(S32(vm.reg[in.rs1]), Sh5(in.imm)))
addw(vm, in)  == Alu(vm, in, S32(Add(vm.reg[in.rs1], vm.reg[in.rs2])))
subw(vm, in)  == Alu(vm, in, S32(Sub(vm.reg[in.rs1], vm.reg[in.rs2])))
sllw(vm, in)  == Alu(vm, in, signExtend(U32(Shl(U32(vm.reg[in.rs1]), Sh5(vm.reg[in.rs2]))), 31))
srlw(vm, in)  == Alu(vm, in, signExtend(Shr(U32(vm.reg[in.rs1]), Sh5(vm.reg[in.rs2])), 31))
sraw(vm, in)  == Alu(vm, in, Sra(S32(vm.reg[in.rs1]), Sh5(vm.reg[in.rs2])))

-----------------------------------------------------------------------------
(* M.  mulh and mulhsu take the high word of |n1| * |n2| from four 32x32   *)
(* partial products (exactly MulHiU) and negate it, as a 64-bit value,     *)
(* when the signs differ.                                                  *)
mul(vm, in)    == Alu(vm, in, Mul(vm.reg[in.rs1], vm.reg[in.rs2]))
mulh(vm, in)   ==
  LET n1 == vm.reg[in.rs1]   n2 == vm.reg[in.rs2]
      v  == MulHiU(Abs(n1), Abs(n2))
  IN  Alu(vm, in, IF IsNeg(n1) # IsNeg(n2) THEN Neg(v) ELSE v)
mulhsu(vm, in) ==
  LET n1 == vm.reg[in.rs1]
      v  == MulHiU(Abs(n1), vm.reg[in.rs2])
  IN  Alu(vm, in, IF IsNeg(n1) THEN Neg(v) ELSE v)
mulhu(vm, in)  == Alu(vm, in, MulHiU(vm.reg[in.rs1], vm.reg[in.rs2]))
mulw(vm, in)   == Alu(vm, in, S32(Mul(vm.reg[in.rs1], vm.reg[in.rs2])))

(* Division by zero writes MaxUint64 (div) or the dividend (rem).  The     *)
(* zero tests of remw and remuw look at all 64 bits of Reg[rs2] while the  *)
(* division uses the low 32: Go panics on int32 % 0 and uint32 % 0.       *)
div(vm, in) ==
  LET x == vm.reg[in.rs1]  y == vm.reg[in.rs2]
  IN  Alu(vm, in, IF y = Zero THEN MaxU64 ELSE DivS(x, y))
divu(vm, in) ==
  LET x == vm.reg[in.rs1]  y == vm.reg[in.rs2]
  IN  Alu(vm, in, IF y = Zero THEN MaxU64 ELSE DivU(x, y))
divw(vm, in) ==
  LET x == vm.reg[in.rs1]  y == vm.reg[in.rs2]
  IN  Alu(vm, in, IF U32(y) = Zero THEN MaxU64 ELSE signExtend(S32(DivS(S32(x), S32(y))), 31))
divuw(vm, in) ==
  LET x == vm.reg[in.rs1]  y == vm.reg[in.rs2]
  IN  Alu(vm, in, IF U32(y) = Zero THEN MaxU64 ELSE signExtend(DivU(U32(x), U32(y)), 31))
(* Mutant of rem: a zero divisor yields 0 instead of the dividend. *)
remZeroIsZero(vm, in) ==
  LET x == vm.reg[in.rs1]  y == vm.reg[in.rs2]
  IN  Alu(vm, in, IF y = Zero THEN Zero ELSE RemS(x, y))
rem(vm, in) ==
  LET x == vm.reg[in.rs1]  y == vm.reg[in.rs2]
  IN  Alu(vm, in, IF y = Zero THEN x ELSE RemS(x, y))
remu(vm, in) ==
  LET x == vm.reg[in.rs1]  y == vm.reg[in.rs2]
  IN  Alu(vm, in, IF y = Zero THEN x ELSE RemU(x, y))
remw(vm, in) ==
  LET x == vm.reg[in.rs1]  y == vm.reg[in.rs2]
  IN  CASE y = Zero      -> Alu(vm, in, x)
        [] U32(y) = Zero -> Stop(vm, "panic")
        [] OTHER         -> Alu(vm, in, S32(RemS(S32(x), S32(y))))
remuw(vm, in) ==
  LET x == vm.reg[in.rs1]  y == vm.reg[in.rs2]
  IN  CASE y = Zero      -> Alu(vm, in, x)
        [] U32(y) = Zero -> Stop(vm, "panic")
        [] OTHER         -> Alu(vm, in, signExtend(RemU(U32(x), U32(y)), 31))

-----------------------------------------------------------------------------
(* The compressed jumps link PC+2; rvcJALR reads Reg[rs1] after the store. *)
rvcJAL(vm, in) ==
  LET v == store(vm, in.rd, Add(vm.pc, FromNat(2)))
  IN  Jump([v EXCEPT !.pc = Add(in.imm, vm.pc)])

rvcJALR(vm, in) ==
  LET v == store(vm, in.rd, Add(vm.pc, FromNat(2)))
  IN  Jump([v EXCEPT !.pc = WAndNot(Add(in.imm, v.reg[in.rs1]), One)])

-----------------------------------------------------------------------------
(* in.fn(vm, in): the handler the decoder named. *)
Dispatch(vm, in) ==
  CASE in.fn = "lui" -> lui(vm, in)     [] in.fn = "auipc" -> auipc(vm, in)
    [] in.fn = "jal" -> jal(vm, in)     [] in.fn = "jalr" -> jalr(vm, in)
    [] in.fn = "beq" -> beq(vm, in)     [] in.fn = "bne" -> bne(vm, in)
    [] in.fn = "blt" -> blt(vm, in)     [] in.fn = "bge" -> bge(vm, in)
    [] in.fn = "bltu" -> bltu(vm, in)   [] in.fn = "bgeu" -> bgeu(vm, in)
    [] in.fn = "lb" -> lb(vm, in)       [] in.fn = "lh" -> lh(vm, in)
    [] in.fn = "lw" -> lw(vm, in)       [] in.fn = "lbu" -> lbu(vm, in)
    [] in.fn = "lhu" -> lhu(vm, in)     [] in.fn = "sb" -> sb(vm, in)
    [] in.fn = "sh" -> sh(vm, in)       [] in.fn = "sw" -> sw(vm, in)
    [] in.fn = "addi" -> addi(vm, in)   [] in.fn = "slti" -> slti(vm, in)
    [] in.fn = "sltiu" -> sltiu(vm, in) [] in.fn = "xori" -> xori(vm, in)
    [] in.fn = "ori" -> ori(vm, in)     [] in.fn = "andi" -> andi(vm, in)
    [] in.fn = "add" -> add(vm, in)     [] in.fn = "sub" -> sub(vm, in)
    [] in.fn = "sll" -> sll(vm, in)     [] in.fn = "slt" -> slt(vm, in)
    [] in.fn = "sltu" -> sltu(vm, in)   [] in.fn = "xor" -> xor(vm, in)
    [] in.fn = "srl" -> srl(vm, in)     [] in.fn = "sra" -> sra(vm, in)
    [] in.fn = "or" -> or(vm, in)       [] in.fn = "and" -> and(vm, in)
    [] in.fn = "fence" -> fence(vm, in) [] in.fn = "fence_i" -> fence_i(vm, in)
    [] in.fn = "ecallOrBreak" -> ecallOrBreak(vm, in)
    [] in.fn = "ebreak" -> ebreak(vm, in)
    [] in.fn = "csrrw" -> csrrw(vm, in) [] in.fn = "csrrs" -> csrrs(vm, in)
    [] in.fn = "csrrc" -> csrrc(vm, in) [] in.fn = "csrrwi" -> csrrwi(vm, in)
    [] in.fn = "csrrsi" -> csrrsi(vm, in) [] in.fn = "csrrci" -> csrrci(vm, in)
    [] in.fn = "lwu" -> lwu(vm, in)     [] in.fn = "ld" -> ld(vm, in)
    [] in.fn = "sd" -> sd(vm, in)       [] in.fn = "slli" -> slli(vm, in)
    [] in.fn = "shiftRight" -> shiftRight(vm, in)
    [] in.fn = "srli" -> srli(vm, in)   [] in.fn = "srai" -> srai(vm, in)
    [] in.fn = "addiw" -> addiw(vm, in) [] in.fn = "slliw" -> slliw(vm, in)
    [] in.fn = "srliw" -> srliw(vm, in) [] in.fn = "sraiw" -> sraiw(vm, in)
    [] in.fn = "addw" -> addw(vm, in)   [] in.fn = "subw" -> subw(vm, in)
    [] in.fn = "sllw" -> sllw(vm, in)   [] in.fn = "srlw" -> srlw(vm, in)
    [] in.fn = "sraw" -> sraw(vm, in)   [] in.fn = "mul" -> mul(vm, in)
    [] in.fn = "mulh" -> mulh(vm, in)   [] in.fn = "mulhsu" -> mulhsu(vm, in)
    [] in.fn = "mulhu" -> mulhu(vm, in) [] in.fn = "mulw" -> mulw(vm, in)
    [] in.fn = "div" -> div(vm, in)     [] in.fn = "divu" -> divu(vm, in)
    [] in.fn = "divw" -> divw(vm, in)   [] in.fn = "divuw" -> divuw(vm, in)
    [] in.fn = "rem" -> rem(vm, in)     [] in.fn = "remu" -> remu(vm, in)
    [] in.fn = "remw" -> remw(vm, in)   [] in.fn = "remuw" -> remuw(vm, in)
    [] in.fn = "rvcJAL" -> rvcJAL(vm, in)
    [] in.fn = "rvcJALR" -> rvcJALR(vm, in)
====
