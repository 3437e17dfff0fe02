-------------------------------- MODULE MCRvc --------------------------------
(***************************************************************************)
(* Compressed instructions against their expansions: two VMs run in        *)
(* lockstep, as the diff harness steps two machines with Run(1), one on a  *)
(* program of RVC instructions and one on the same program written with    *)
(* the 32-bit instructions each of them expands to (RISC-V spec, table     *)
(* 12.5; branch and jump offsets and return addresses doubled).  Inputs:   *)
(* a0, a1 from edge values, the loop count s1, sp at a data area.          *)
(***************************************************************************)
EXTENDS Integers, Sequences, MCPrograms

CONSTANT AndiImm    \* the immediate of the c.andi/andi pair, -32 .. 31

RA == 1
SP == 2
RDINSTRET == 3

(* The instructions as <<compressed, expanded>> pairs, in program order.   *)
Pairs == <<
  <<CLI(12, -3),        ADDI(12, 0, -3)>>,
  <<CADDI(10, 5),       ADDI(10, 10, 5)>>,
  <<CADDIW(11, -1),     ADDIW(11, 11, -1)>>,
  <<CLUI(13, -31),      LUI(13, \hFFFE1)>>,
  <<CSLLI(13, 3),       I(\h13, 13, 1, 13, 3)>>,          \* slli
  <<CSRLI(13, 1),       SRLI(13, 13, 1)>>,
  <<CANDI(12, AndiImm), ANDI(12, 12, AndiImm)>>,
  <<CA(0, 10, 11),      OP(\h20, 0, 10, 10, 11)>>,        \* sub
  <<CA(1, 14, 10),      OP(0, 4, 14, 14, 10)>>,           \* xor
  <<CA(2, 15, 11),      OP(0, 6, 15, 15, 11)>>,           \* or
  <<CA(3, 14, 15),      OP(0, 7, 14, 14, 15)>>,           \* and
  <<CA(4, 10, 12),      OPW(\h20, 0, 10, 10, 12)>>,       \* subw
  <<CA(5, 11, 12),      OPW(0, 0, 11, 11, 12)>>,          \* addw
  <<CMV(5, 10),         OP(0, 0, 5, 0, 10)>>,
  <<CADD(5, 11),        OP(0, 0, 5, 5, 11)>>,
  <<CADDI16SP(-16),     ADDI(SP, SP, -16)>>,
  <<CADDI4SPN(8, 8),    ADDI(8, SP, 8)>>,
  <<CSDSP(10, 0),       SD(SP, 10, 0)>>,
  <<CSWSP(11, 8),       SW(SP, 11, 8)>>,
  <<CLDSP(6, 0),        LD(6, SP, 0)>>,
  <<CLWSP(7, 8),        LW(7, SP, 8)>>,
  <<CSD(8, 12, 8),      SD(8, 12, 8)>>,
  <<CSW(8, 13, 0),      SW(8, 13, 0)>>,
  <<CLD(14, 8, 8),      LD(14, 8, 8)>>,
  <<CLW(15, 8, 0),      LW(15, 8, 0)>>,
  <<CADDI(9, -1),       ADDI(9, 9, -1)>>,                 \* loop: s1 -= 1
  <<CBNEZ(9, -2),       BNE(9, 0, -4)>>,
  <<CBEQZ(9, 4),        BEQ(9, 0, 8)>>,
  <<CLI(10, 0),         ADDI(10, 0, 0)>>,                 \* skipped
  <<CJ(4),              JAL(0, 8)>>,
  <<CLI(11, 0),         ADDI(11, 0, 0)>>,                 \* skipped
  <<CJR(RA),            JALR(0, RA, 0)>>,
  <<CLI(12, 7),         ADDI(12, 0, 7)>>,                 \* skipped
  <<CLI(17, 31),        ADDI(17, 0, 31)>>,                \* ra points here
  <<CADDI(17, 31),      ADDI(17, 17, 31)>>,
  <<CADDI(17, 31),      ADDI(17, 17, 31)>> >>

AndiNeg == -2                         \* a negative c.andi immediate

ExitIndex == 33                       \* the instruction ra points at (0-based)
Compressed == Program([k \in DOMAIN Pairs |-> Pairs[k][1]] \o <<ECALL>>)
Expanded   == Program([k \in DOMAIN Pairs |-> Pairs[k][2]] \o <<ECALL>>)

DataStart == 160
MemSize   == DataStart + 32
Values    == {Zero, MaxU64, Shl(One, 63), FromNat(7)}

VMs(prog, ret) ==
  { ProgVM(prog, MemSize,
           (10 :> x) @@ (11 :> y) @@ (9 :> FromNat(n)) @@ (RA :> FromNat(ret))
           @@ (SP :> FromNat(DataStart + 16)), {RDINSTRET})
    : x, y \in Values, n \in {1, 2} }
CInitVMs == VMs(Compressed, 2 * ExitIndex)
XInitVMs == VMs(Expanded, 4 * ExitIndex)
MCMaxSteps == 40

VARIABLES creg, ccsr, cpc, cmem, cout, csteps, clastPC, clastInstr, cstatus,
          xreg, xcsr, xpc, xmem, xout, xsteps, xlastPC, xlastInstr, xstatus

C == INSTANCE Machine WITH reg <- creg, csr <- ccsr, pc <- cpc, mem <- cmem, out <- cout,
       steps <- csteps, lastPC <- clastPC, lastInstr <- clastInstr, status <- cstatus,
       MaxSteps <- MCMaxSteps, InitVMs <- CInitVMs
X == INSTANCE Machine WITH reg <- xreg, csr <- xcsr, pc <- xpc, mem <- xmem, out <- xout,
       steps <- xsteps, lastPC <- xlastPC, lastInstr <- xlastInstr, status <- xstatus,
       MaxSteps <- MCMaxSteps, InitVMs <- XInitVMs

(* Both start from the same inputs: their registers differ only in ra. *)
Init == C!Init /\ X!Init /\ creg = [xreg EXCEPT ![RA] = creg[RA]]

(* Each step runs one iteration of each VM's Run loop. *)
Next == C!Next /\ X!Next

Spec == Init /\ [][Next]_<<C!vars, X!vars>>

(* Every RVC instruction behaves as its 32-bit expansion (rvcDecode and    *)
(* its immediate decoders against DecodeRVI): after each instruction the   *)
(* two VMs agree on every register but ra (the return addresses differ by  *)
(* construction), on the data area, on what was written to the host, on    *)
(* the number of instructions retired and on how Run ended.                *)
RvcExpansion ==
  /\ \A r \in 0 .. 31 \ {RA} : creg[r] = xreg[r]
  /\ \A a \in DataStart .. MemSize - 1 : cmem[a] = xmem[a]
  /\ cout = xout
  /\ csteps = xsteps
  /\ cstatus = xstatus
====
