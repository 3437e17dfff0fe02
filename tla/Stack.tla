-------------------------------- MODULE Stack --------------------------------
(***************************************************************************)
(* NewVM (pty.go): a VM with PC = Prog.Start and zeroed memory; when argv  *)
(* or env is given, memory is enlarged past Prog.MemSize and the initial   *)
(* stack is laid out below its new top with pushCString and pushUint64.   *)
(* A string is a sequence of byte values.  While the stack is built, the   *)
(* state is a record [mem, sp, addrs]: the memory, Reg[SP] (it stays far   *)
(* from 0, so it is a natural) and the slice addrs of NewVM.               *)
(***************************************************************************)
EXTENDS Integers, Sequences, Word, Decode

LOCAL Seqs == INSTANCE SequencesExt

(* A []string: nil or a sequence of strings. *)
Slice(ss) == [nil |-> FALSE, elems |-> ss]
Nil == [nil |-> TRUE, elems |-> <<>>]

(* vm.pushUint64(v): SP -= 8, then the eight bytes of v, low byte first. *)
pushUint64(st, v) ==
  LET sp == st.sp - 8
  IN  [st EXCEPT !.sp = sp,
                 !.mem = [a \in DOMAIN @ |-> IF sp <= a /\ a < sp + 8 THEN v[a - sp] ELSE @[a]]]

(* vm.pushCString(s): SP -= len(s) + 1, then the bytes of s and a 0. *)
pushCString(st, s) ==
  LET sp == st.sp - (Len(s) + 1)
  IN  [st EXCEPT !.sp = sp,
                 !.mem = [a \in DOMAIN @ |->
                            IF sp <= a /\ a < sp + Len(s) THEN s[a - sp + 1]
                            ELSE IF a = sp + Len(s) THEN 0 ELSE @[a]]]

(* Mutant of pushStrings: the strings pushed first to last. *)
pushStringsForward(st, ss) ==
  LET push(t, s) == LET u == pushCString(t, s) IN [u EXCEPT !.addrs = Append(@, u.sp)]
  IN  Seqs!FoldLeft(push, st, ss)

(* for i := len(ss) - 1; i >= 0; i-- { pushCString(ss[i]); addrs = append(addrs, SP) } *)
pushStrings(st, ss) ==
  LET push(s, t) == LET u == pushCString(t, s) IN [u EXCEPT !.addrs = Append(@, u.sp)]
  IN  Seqs!FoldRight(push, ss, st)

(* The bytes the strings need: len(s) + 1 each. *)
StrBytes(ss) == Seqs!FoldLeft(LAMBDA n, s : n + Len(s) + 1, 0, ss)

(* NewVM(p) for p = [argv, env (Slices), start, memSize], as a VM record of Machine *)
(* with the CSRs csrs (all 0) and nothing written to fd 1 and 2.          *)
NewVM(p, csrs) ==
  LET argv == p.argv.elems
      env  == p.env.elems
      memSize == p.memSize + StrBytes(env) + StrBytes(argv)
                 + (1 + Len(env) + 1 + Len(argv) + 1) * 8
      st0 == [mem |-> [a \in 0 .. memSize - 1 |-> 0], sp |-> memSize, addrs |-> <<0>>]
      st1 == pushStrings(st0, env)
      st2 == pushStrings([st1 EXCEPT !.addrs = Append(@, 0)], argv)
      st3 == [st2 EXCEPT !.sp = @ - (@ % 8)]                  \* SP &^= 0x7
      st4 == Seqs!FoldLeft(LAMBDA t, a : pushUint64(t, FromNat(a)), st3, st3.addrs)
      st5 == pushUint64(st4, FromNat(Len(argv)))
      vm0 == [reg |-> [r \in 0 .. 31 |-> Zero], csr |-> [c \in csrs |-> Zero], pc |-> p.start,
              mem |-> [a \in 0 .. p.memSize - 1 |-> 0], out |-> [fd \in {1, 2} |-> <<>>]]
  IN  IF p.argv.nil /\ p.env.nil
        THEN vm0
        ELSE [vm0 EXCEPT !.reg[SP] = FromNat(st5.sp), !.mem = st5.mem]
====
