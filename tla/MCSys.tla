-------------------------------- MODULE MCSys --------------------------------
(***************************************************************************)
(* CSRs and the OS bridge: a program reads RDINSTRET with csrrs, writes it *)
(* with csrrw x0 and with csrrw t3, reading it after each write, then asks *)
(* the host to write n bytes of a data area to fd, keeps the count the     *)
(* ecall returned in s1 and exits.  The written value (a3), fd (s2) and n  *)
(* (s3) come from small sets; the host may write fewer bytes than asked.   *)
(***************************************************************************)
EXTENDS Machine, MCPrograms

Code == <<
  CSRRS(5, RDINSTRET, 0),   \*  0: t0 = instret
  ADDI(6, 0, 0),            \*  4
  CSRRS(6, RDINSTRET, 0),   \*  8: t1 = instret
  CSRRW(0, RDINSTRET, 13),  \* 12: instret = a3
  CSRRS(7, RDINSTRET, 0),   \* 16: t2 = instret
  CSRRW(28, RDINSTRET, 0),  \* 20: t3 = instret; instret = 0
  CSRRS(29, RDINSTRET, 0),  \* 24: t4 = instret
  ADDI(10, 18, 0),          \* 28: a0 = fd
  ADDI(11, 0, 64),          \* 32: a1 = buf (Data)
  ADDI(12, 19, 0),          \* 36: a2 = n
  ADDI(17, 0, \h40),        \* 40: a7 = write
  ECALL,                    \* 44
  ADDI(9, 10, 0),           \* 48: s1 = a0
  ADDI(17, 0, \h5D),        \* 52: a7 = exit
  ECALL,                    \* 56
  ADDI(0, 0, 0) >>          \* 60: nop
Data == <<\h68, \h69, \h0A, \h00>>
SysProgram == Program(Code) \o Data

MCInitVMs ==
  { ProgVM(SysProgram, Len(SysProgram),
           (13 :> w) @@ (18 :> FromNat(fd)) @@ (19 :> FromNat(n)), {RDINSTRET})
    : w \in {Zero, FromNat(5)}, fd \in {1, 2, 3}, n \in {0, 2, 4, 5} }
MCMaxSteps == 20

(* RDINSTRET counts the instructions retired since it was last written:    *)
(* the first reads see 0 and 2, across an addi and a csrrs; the value a3   *)
(* written by csrrw x0 is read back unchanged, since that write is not     *)
(* itself counted (csrrw's updatedRDINSTRET flag and the retire step of    *)
(* VM.Run, which counts only after a nil error and unless the flag is set). *)
InstretCount ==
  status = "exit" =>
    /\ reg[5] = Zero /\ reg[6] = FromNat(2) /\ reg[7] = reg[13]

(* Spec §4.5 and the flag's comment (pty.go:65, "whether the instruction   *)
(* set RDINSTRET CSR"): every csrrw to RDINSTRET sets the flag, so a value *)
(* it writes is what the next read sees; after csrrw t3 writes 0, t4 reads *)
(* 0.                                                                      *)
InstretSpec ==
  status = "exit" => reg[7] = reg[13] /\ reg[29] = Zero

(* The write ecall (rvi.go ecall) sends a prefix of Mem[buf:buf+n] to the  *)
(* chosen stream and nothing to the other, and the count the program gets  *)
(* back in a0 is the length of that prefix; an fd other than 1 and 2 is    *)
(* an error, and n beyond the end of memory panics on the slice.           *)
WriteCount ==
  LET fd == ToNat(reg[18])  n == ToNat(reg[19])
  IN  /\ status = "exit" =>
           /\ out[fd] = SubSeq(Data, 1, ToNat(reg[9]))
           /\ out[3 - fd] = <<>>
      /\ status \in {"exit", "error", "panic"} =>
           CASE fd \notin {1, 2}  -> status = "error"
             [] n > Len(Data)     -> status = "panic"
             [] OTHER             -> status = "exit"
====
