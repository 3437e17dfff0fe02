------------------------------- MODULE MCDecode -------------------------------
(***************************************************************************)
(* The decoder against the instruction set's encoding table (spec §4.4    *)
(* and §6, RISC-V user ISA formats): one-instruction programs of every     *)
(* RV64IM opcode, with register fields and immediates at their extremes,   *)
(* and encodings the decoder must reject.  Run(1) decodes and executes the *)
(* instruction; a VM whose PC lies past its memory panics on the fetch.    *)
(* Expected fields are computed from the format, not from the decoder: the *)
(* decoder fills rs1, rs2 and rd from bits 19:15, 24:20 and 11:7 whatever  *)
(* the format, and the immediate is the format's raw field.                *)
(* The second suite runs a program of compressed instructions beside its   *)
(* 32-bit expansion (MCRvc), the third a session of the text protocol with *)
(* spike (SpikeProto, on ProtoCases' spike-only output).  suite picks one, *)
(* and the others stay at an initial state.                                *)
(***************************************************************************)
EXTENDS Machine, MCPrograms, ProtoCases

CONSTANTS
  Cases,     \* the [enc, instr] pairs programs are made of
  AndiImm    \* the c.andi immediate of MCRvc

VARIABLES suite,
          creg, ccsr, cpc, cmem, cout, csteps, clastPC, clastInstr, cstatus,
          xreg, xcsr, xpc, xmem, xout, xsteps, xlastPC, xlastInstr, xstatus,
          pbuf, pspike, ppc, preply, plastOut, psent, pstream

Rvc == INSTANCE MCRvc
Proto == INSTANCE SpikeProto WITH buf <- pbuf, spike <- pspike, pc <- ppc, reply <- preply,
           lastOut <- plastOut, sent <- psent, stream <- pstream,
           Cmds <- MCCmds, Outputs <- SpikeOutputs, MaxCmds <- MCMaxCmds

rvcVars == <<creg, ccsr, cpc, cmem, cout, csteps, clastPC, clastInstr, cstatus,
             xreg, xcsr, xpc, xmem, xout, xsteps, xlastPC, xlastInstr, xstatus>>
protoVars == <<pbuf, pspike, ppc, preply, plastOut, psent, pstream>>

MemSize == 16

(* An expected decoding of each format, from the encoder's operands (all   *)
(* immediates given as nonnegative field values).                          *)
IC(fn, op, f3, rd, rs1, imm) ==
  [enc |-> I(op, rd, f3, rs1, imm), instr |-> Instr(fn, rs1, imm % 32, rd, FromNat(imm))]
RC(fn, op, f7, f3, rd, rs1, rs2) ==
  [enc |-> R(op, rd, f3, rs1, rs2, f7), instr |-> Instr(fn, rs1, rs2, rd, Zero)]
SC(fn, f3, rs1, rs2, imm) ==
  [enc |-> S(\h23, f3, rs1, rs2, imm), instr |-> Instr(fn, rs1, rs2, imm % 32, FromNat(imm))]
BC(fn, f3, rs1, rs2, off) ==
  [enc |-> B(f3, rs1, rs2, off),
   instr |-> Instr(fn, rs1, rs2, Rg(off, 1, 4) * 2 + Bt(off, 11), FromNat(off))]
UC(fn, op, rd, imm20) ==
  [enc |-> U(op, rd, imm20),
   instr |-> Instr(fn, Rg(imm20, 3, 5), Rg(imm20, 8, 5), rd, Shl(FromNat(imm20), 12))]
JC(rd, off) ==
  [enc |-> J(rd, off),
   instr |-> Instr("jal", Rg(off, 15, 5), Rg(off, 1, 4) * 2 + Bt(off, 11), rd, FromNat(off))]
Bad(enc) == [enc |-> enc, instr |-> NoInstr]

IOps == { <<"lb", 3, 0>>, <<"lh", 3, 1>>, <<"lw", 3, 2>>, <<"ld", 3, 3>>, <<"lbu", 3, 4>>,
          <<"lhu", 3, 5>>, <<"lwu", 3, 6>>,
          <<"addi", \h13, 0>>, <<"slli", \h13, 1>>, <<"slti", \h13, 2>>, <<"sltiu", \h13, 3>>,
          <<"xori", \h13, 4>>, <<"shiftRight", \h13, 5>>, <<"ori", \h13, 6>>, <<"andi", \h13, 7>>,
          <<"addiw", \h1B, 0>>, <<"slliw", \h1B, 1>>, <<"jalr", \h67, 0>>,
          <<"fence", \h0F, 0>>, <<"fence_i", \h0F, 1>>,
          <<"ecallOrBreak", \h73, 0>>, <<"csrrw", \h73, 1>>, <<"csrrs", \h73, 2>>,
          <<"csrrc", \h73, 3>>, <<"csrrwi", \h73, 5>>, <<"csrrsi", \h73, 6>>, <<"csrrci", \h73, 7>> }
ROps == { <<"add", \h33, 0, 0>>, <<"sub", \h33, \h20, 0>>, <<"sll", \h33, 0, 1>>,
          <<"slt", \h33, 0, 2>>, <<"sltu", \h33, 0, 3>>, <<"xor", \h33, 0, 4>>,
          <<"srl", \h33, 0, 5>>, <<"sra", \h33, \h20, 5>>, <<"or", \h33, 0, 6>>,
          <<"and", \h33, 0, 7>>, <<"mul", \h33, 1, 0>>, <<"mulh", \h33, 1, 1>>,
          <<"mulhsu", \h33, 1, 2>>, <<"mulhu", \h33, 1, 3>>, <<"div", \h33, 1, 4>>,
          <<"divu", \h33, 1, 5>>, <<"rem", \h33, 1, 6>>, <<"remu", \h33, 1, 7>>,
          <<"addw", \h3B, 0, 0>>, <<"subw", \h3B, \h20, 0>>, <<"sllw", \h3B, 0, 1>>,
          <<"srlw", \h3B, 0, 5>>, <<"sraw", \h3B, \h20, 5>>, <<"mulw", \h3B, 1, 0>>,
          <<"divw", \h3B, 1, 4>>, <<"divuw", \h3B, 1, 5>>, <<"remw", \h3B, 1, 6>>,
          <<"remuw", \h3B, 1, 7>> }
SOps == { <<"sb", 0>>, <<"sh", 1>>, <<"sw", 2>>, <<"sd", 3>> }
BOps == { <<"beq", 0>>, <<"bne", 1>>, <<"blt", 4>>, <<"bge", 5>>, <<"bltu", 6>>, <<"bgeu", 7>> }

(* Every opcode but sraiw and srliw, whose shared I-type key is the        *)
(* subject of a run of its own; the shift-immediate forms get shift        *)
(* amounts with the funct bits the ISA defines.                            *)
TableCases ==
     { IC(o[1], o[2], o[3], a[1], a[2], a[3]) : o \in IOps, a \in {<<1, 0, 8>>, <<31, 31, \hFFF>>} }
  \cup { RC(o[1], o[2], o[3], o[4], a[1], a[2], a[3]) : o \in ROps, a \in {<<1, 2, 3>>, <<31, 0, 31>>} }
  \cup { SC(o[1], o[2], a[1], a[2], a[3]) : o \in SOps, a \in {<<0, 5, 8>>, <<31, 31, \hFF8>>} }
  \cup { BC(o[1], o[2], a[1], a[2], a[3]) : o \in BOps, a \in {<<0, 0, 8>>, <<31, 5, \h1FF8>>, <<1, 2, \h1000>>} }
  \cup { UC(o[1], o[2], 5, imm) : o \in {<<"lui", \h37>>, <<"auipc", \h17>>}, imm \in {1, \hFFFFF} }
  \cup { JC(rd, off) : rd \in {0, 1}, off \in {8, \h1FFFF8, \h0FFFFE} }
  \cup { IC("srliw", \h1B, 5, 7, 9, 3), IC("shiftRight", \h13, 5, 7, 9, \h403) }

(* Encodings with no entry: an all-zero (compressed) word, a 6-byte        *)
(* length, an OP funct7 the table lacks, and the reserved RVC selector.    *)
RejectCases ==
  { Bad(<<0, 0, 0, 0>>), Bad(<<\h1F, 0, 0, 0>>), Bad(R(\h33, 1, 0, 2, 3, 2)),
    Bad(<<\h00, \h80, 0, 0>>) }

SraiwCases == { IC("sraiw", \h1B, 5, 7, 9, \h403) }

PassCases == TableCases \cup RejectCases

(* The fetch at the end of memory (VM.Run's Mem[PC:min(PC+4, len)]): a    *)
(* c.addi in the last two bytes decodes and runs; the first half of a      *)
(* 32-bit addi there, and a PC equal to the memory's length, are errors.   *)
TailEnc == CADDI(5, 3)
TailCase == [enc |-> TailEnc, instr |-> Instr("addi", 5, 0, 5, FromNat(3))]
AtEnd(enc) ==
  [ProgVM(<<>>, MemSize, <<>>, {RDINSTRET, 8}) EXCEPT
     !.mem = [a \in DOMAIN @ |-> IF a >= MemSize - 2 THEN enc[a - MemSize + 3] ELSE 0],
     !.pc = FromNat(MemSize - 2)]
FetchEdgeVMs ==
  { AtEnd(TailEnc), AtEnd(SubSeq(I(\h13, 5, 0, 5, 3), 1, 2)),
    [ProgVM(<<>>, MemSize, <<>>, {RDINSTRET, 8}) EXCEPT !.pc = FromNat(MemSize)] }

MCInitVMs ==
  { ProgVM(c.enc, MemSize, <<>>, {RDINSTRET, 8}) : c \in Cases }
  \cup { [ProgVM(<<0, 0, 0, 0>>, MemSize, <<>>, {RDINSTRET, 8}) EXCEPT !.pc = FromNat(100)] }
  \cup FetchEdgeVMs
MCMaxSteps == 1

(* MCRvc's initial VMs, evaluated once. *)
RvcCInitVMs == Rvc!CInitVMs
RvcXInitVMs == Rvc!XInitVMs

(* The decoder table runs on the VMs of the cases; the other suites leave   *)
(* the VM of one of them untouched, and the RVC pair at the inputs 0, 0    *)
(* and one loop iteration unless it is the suite running (MCRvc's Init).   *)
SuiteInit ==
  /\ suite \in {"decoder", "rvc", "proto"}
  /\ \E c \in RvcCInitVMs, x \in RvcXInitVMs :
       /\ suite # "rvc" => c.reg[10] = Zero /\ c.reg[11] = Zero /\ c.reg[9] = FromNat(1)
       /\ c.reg = [x.reg EXCEPT ![RA] = c.reg[RA]]
       /\ Rvc!C!InitFrom(c) /\ Rvc!X!InitFrom(x)
  /\ Proto!Init
  /\ IF suite = "decoder" THEN Init ELSE InitFrom(CHOOSE v \in InitVMs : TRUE)

SuiteNext ==
  /\ \/ suite = "decoder" /\ Next /\ UNCHANGED <<rvcVars, protoVars>>
     \/ suite = "rvc" /\ Rvc!Next /\ UNCHANGED <<vars, protoVars>>
     \/ suite = "proto" /\ Proto!Next /\ UNCHANGED <<vars, rvcVars>>
  /\ UNCHANGED suite

(* The case the program in memory was built from: TailCase when its       *)
(* c.addi fills the last two bytes, else the word at address 0.            *)
Case ==
  IF <<mem[MemSize - 2], mem[MemSize - 1]>> = TailEnc THEN TailCase
  ELSE CHOOSE c \in Cases \cup RejectCases : c.enc = [i \in 1 .. 4 |-> mem[i - 1]]

(* Decode names the handler of the spec's table and fills every field as   *)
(* the instruction format lays it out (Decode, rvi64Instructions); an      *)
(* encoding without an entry ends Run with an error or a panic before any  *)
(* instruction is recorded; so does a fetch cut short by the end of memory,*)
(* while a compressed instruction in the last two bytes still decodes.     *)
DecodeTable ==
  status # "running" =>
    IF Case.instr = NoInstr THEN lastInstr = NoInstr /\ status \in {"error", "panic"}
                            ELSE lastInstr = Case.instr
(* Every RVC instruction behaves as its 32-bit expansion: rvcDecode and    *)
(* the decodeC* extractors against Decode, see MCRvc.                      *)
RvcExpansion == Rvc!RvcExpansion

(* readUntilLn's loop stops at the first line equal to what it waits for  *)
(* on every stream the harness reads (see SpikeProto).                     *)
ReadUntilLnFirstMatch == Proto!ReadUntilLnFirstMatch

(* sendCmd implements SpikeRpc's remote call: the answer to the command   *)
(* it sent, nothing left over, failing only on an exited spike (see       *)
(* SpikeProto).                                                            *)
ImplementsRpc == Proto!ImplementsRpc

(* The harness never blocks on a spike waiting at its prompt (see          *)
(* SpikeProto).                                                            *)
Responsive == Proto!Responsive
====
