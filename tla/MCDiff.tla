-------------------------------- MODULE MCDiff --------------------------------
(***************************************************************************)
(* diffWithSpike on a program that sets a0 = V, shifts it with sraiw,      *)
(* asks the host to write "hi" to stdout and exits with ecall (a7 = 93) or *)
(* with ebreak in its place.  V = -5 meets the VM's SRAIW decoding         *)
(* (decode_sraiw); ebreak meets the VM's ecallOrBreak, which runs ecall.   *)
(* --max_steps is 4 (the loop ends first) or 10 (the program exits).       *)
(* Spike and the VM each get the program from the same list: spike as      *)
(* abstract instructions, the VM as their encoding in an ALLOC section.    *)
(***************************************************************************)
EXTENDS Diff, MCPrograms

Ins(op, rd, rs1, imm) == [op |-> op, rd |-> rd, rs1 |-> rs1, imm |-> imm]

Encode(in) ==
  CASE in.op = "addi"  -> ADDI(in.rd, in.rs1, in.imm)
    [] in.op = "sraiw" -> SRAIW(in.rd, in.rs1, in.imm)
    [] in.op = "ecall" -> ECALL
    [] in.op = "ebreak" -> EBREAK

Buf == 36
Hi == <<104, 105>>                     \* "hi"

Code(v, last) == <<
  Ins("addi", 10, 0, v),               \*  0: a0 = v
  Ins("sraiw", 11, 10, 1),             \*  4: a1 = a0 >> 1
  Ins("addi", 17, 0, 64),              \*  8: a7 = write
  Ins("addi", 10, 0, 1),               \* 12: a0 = stdout
  Ins("addi", 11, 0, Buf),             \* 16: a1 = "hi"
  Ins("addi", 12, 0, Len(Hi)),         \* 20: a2 = 2
  Ins("ecall", 0, 0, 0),               \* 24
  Ins("addi", 17, 0, 93),              \* 28: a7 = exit
  Ins(last, 0, 0, 0) >>                \* 32

MkProgram(code) ==
  [code |-> [a \in {4 * (k - 1) : k \in DOMAIN code} |-> code[a \div 4 + 1]],
   sections |-> << [alloc |-> TRUE, addr |-> 0,
                    bytes |-> Program([k \in DOMAIN code |-> Encode(code[k])]) \o Hi] >>]

MCPrograms == {MkProgram(Code(v, last)) : v \in {5, -5}, last \in {"ecall", "ebreak"}}
MCProgName == <<112>>                  \* "p"
MCSimSP == 40
MCSimStack == <<1, 0, 0, 0, 0, 0, 0, 0, 0, 0, 0, 0, 0, 0, 0, 0>>
MCMaxStepsFlag == {4, 10}
MCMaxSteps == 11                       \* above every Run(1) count

====
