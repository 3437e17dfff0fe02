--------------------------------- MODULE Cli ---------------------------------
(***************************************************************************)
(* main (rvi.go) up to the call of vm.Run: the --argv and --env flags are  *)
(* split at commas, the program path is prepended to argv, NewVM lays out  *)
(* the stack, and every ALLOC section of the ELF file is copied into       *)
(* memory at its address.  A section is [alloc, addr, bytes]; opening and  *)
(* reading the file are host I/O and are taken to succeed.  MemSize is the *)
(* 100 << 20 of main, scaled down for the model checker.                   *)
(***************************************************************************)
EXTENDS Integers, Sequences, FiniteSets, Word, Stack

LOCAL Seqs == INSTANCE SequencesExt

Comma == 44                                   \* ','

(* strings.Split(s, ","): the pieces between commas; "" gives [""]. *)
Split(s) ==
  LET cuts   == Seqs!SetToSortSeq({i \in DOMAIN s : s[i] = Comma}, <)
      bounds == <<0>> \o cuts \o <<Len(s) + 1>>
  IN  [k \in 1 .. Len(bounds) - 1 |-> SubSeq(s, bounds[k] + 1, bounds[k + 1] - 1)]

(* copy(vm.Mem[s.Addr:s.Addr+s.Size], s): the slice panics past len(Mem). *)
loadSection(r, s) ==
  IF r.status = "panic" \/ ~s.alloc THEN r
  ELSE IF s.addr + Len(s.bytes) > Cardinality(DOMAIN r.vm.mem) THEN [r EXCEPT !.status = "panic"]
  ELSE [r EXCEPT !.vm.mem = [a \in DOMAIN @ |->
                   IF s.addr <= a /\ a < s.addr + Len(s.bytes) THEN s.bytes[a - s.addr + 1] ELSE @[a]]]

(* The VM main hands to Run, or a panic while loading. *)
Main(argvFlag, envFlag, prog, entry, sections, memSize, csrs) ==
  LET vm == NewVM([argv |-> Slice(<<prog>> \o Split(argvFlag)), env |-> Slice(Split(envFlag)),
                   start |-> entry, memSize |-> memSize], csrs)
  IN  Seqs!FoldLeft(loadSection, [status |-> "ok", vm |-> vm], sections)
====
