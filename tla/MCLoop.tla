------------------------------- MODULE MCLoop -------------------------------
(***************************************************************************)
(* A program started the way main starts it.  The --argv and --env flags   *)
(* range over short strings of 'a' and ','; main splits them, NewVM lays   *)
(* out the stack, and the ELF's ALLOC section (the program, at 0) is       *)
(* copied in while a non-ALLOC section at the same address is skipped.     *)
(* The program reads argc from 0(sp), calls a function with jal that sums  *)
(* argc, argc-1, ..., 1 in a loop (beq, add, addi, backward jal) and       *)
(* returns with jalr; the caller exits with the sum in a0.  The largest    *)
(* argc needs more steps than the bound, so Run also returns after         *)
(* MaxSteps iterations.                                                    *)
(***************************************************************************)
EXTENDS Machine, MCPrograms, Cli

LOCAL Seqs == INSTANCE SequencesExt

VARIABLE cli         \* the --argv and --env flags main was given

LoopProgram == Program(<<
  LD(11, 2, 0),         \*  0: a1 = argc
  ADDI(5, 0, 0),        \*  4: t0 = 0
  ADDI(6, 11, 0),       \*  8: t1 = a1
  JAL(1, 16),           \* 12: call sum (28)
  ADDI(10, 5, 0),       \* 16: a0 = t0
  ADDI(17, 0, \h5D),    \* 20: a7 = exit
  ECALL,                \* 24
  BEQ(6, 0, 16),        \* 28: sum: if t1 = 0 goto 44
  OP(0, 0, 5, 5, 6),    \* 32: t0 += t1
  ADDI(6, 6, -1),       \* 36: t1 -= 1
  JAL(0, -12),          \* 40: goto 28
  JALR(0, 1, 0) >>)     \* 44: ret

Sections == << [alloc |-> TRUE,  addr |-> 0, bytes |-> LoopProgram],
               [alloc |-> FALSE, addr |-> 0, bytes |-> <<0, 0, 0, 0>>] >>
ProgName == <<112>>                       \* "p"
MemSize == 52                             \* not a multiple of 8
ArgvFlags == Seqs!BoundedSeq({97, Comma}, 3)
EnvFlags == Seqs!BoundedSeq({97, Comma}, 2)
MCMaxSteps == 24

MCInit ==
  \E a \in ArgvFlags, e \in EnvFlags :
    LET r == Main(a, e, ProgName, Zero, Sections, MemSize, {RDINSTRET})
    IN  /\ cli = [argv |-> a, env |-> e]
        /\ r.status = "ok"
        /\ InitFrom(r.vm)


-----------------------------------------------------------------------------
(* The frame a _start reads (spec §4.6): argc at SP, then argv pointers up *)
(* to a 0, then envp pointers up to a 0, each pointing at a C string.      *)
WordAt(m, a) == [i \in Bytes |-> IF a + i \in DOMAIN m THEN m[a + i] ELSE 0]
RECURSIVE CStr(_, _, _)
CStr(m, a, k) == IF k = 0 \/ a \notin DOMAIN m \/ m[a] = 0 THEN <<>>
                 ELSE <<m[a]>> \o CStr(m, a + 1, k - 1)
RECURSIVE Table(_, _, _)
Table(m, a, k) == IF k = 0 \/ WordAt(m, a) = Zero THEN <<>>
                  ELSE <<ToNat(WordAt(m, a))>> \o Table(m, a + 8, k - 1)
Frame(m, sp) ==
  LET argv == Table(m, sp + 8, 8)
      env  == Table(m, sp + 8 * (Len(argv) + 2), 8)
  IN  [argc |-> WordAt(m, sp),
       argv |-> [i \in DOMAIN argv |-> CStr(m, argv[i], 8)],
       env  |-> [i \in DOMAIN env |-> CStr(m, env[i], 8)]]

(* The stack NewVM built from main's flags is the frame of spec §4.6: SP   *)
(* is 8-aligned, argc counts argv, argv is the program path followed by    *)
(* the comma-separated --argv items in order, envp the --env items in      *)
(* order (main's strings.Split, NewVM's reverse pushes of strings and      *)
(* pointers, pushCString, pushUint64 and the alignment of SP).  The        *)
(* program neither stores nor writes SP, so the frame stays readable.      *)
StartLayout ==
  LET sp == ToNat(reg[SP])
      f  == Frame(mem, sp)
  IN  /\ sp % 8 = 0
      /\ f.argc = FromNat(Len(f.argv))
      /\ f.argv = <<ProgName>> \o Split(cli.argv)
      /\ f.env = Split(cli.env)

(* The program loaded argc from the stack, the call returned to the        *)
(* instruction after the jal and the loop ran argc times: it never faults, *)
(* and when it exits a1 is 1 + the number of --argv items and a0 is        *)
(* a1 * (a1 + 1) / 2 (ld, jal, jalr, beq and the retire step of VM.Run     *)
(* advancing PC).                                                          *)
LoopResult ==
  /\ status \in {"running", "done", "exit"}
  /\ status = "exit" =>
       LET n == 1 + Len(Split(cli.argv))
       IN  /\ reg[11] = FromNat(n)
           /\ reg[10] = FromNat((n * (n + 1)) \div 2)
====
