----------------------------- MODULE SpikeProto -----------------------------
(***************************************************************************)
(* The text protocol between the harness and spike over the pty master     *)
(* (rvi.go): NewSpike waits for the first prompt, then every command goes  *)
(* through sendCmd, which writes the line, reads spike's echo of it with   *)
(* readUntilLn, checks it, and reads up to the next prompt.  Spike runs    *)
(* with -d: it prints the prompt ": ", echoes a command line, prints what  *)
(* the command produced and the next prompt; it may exit at any time.      *)
(* Spike's answer to a command is appended to the pty at once: the harness *)
(* only reads, blocking, after it wrote, so a chunked answer reads alike.  *)
(* Bytes are one-character strings.                                        *)
(***************************************************************************)
EXTENDS Naturals, Sequences, FiniteSetsExt

CONSTANTS
  Cmds,       \* the command lines the harness sends; <<>> is a step ("")
  Outputs,    \* what may appear on the pty between an echo and the prompt
  MaxCmds     \* bound on the commands of a session

NL     == "\n"
Prompt == <<":", " ">>

VARIABLES
  buf,        \* bytes spike wrote to the pty that the harness has not read
  spike,      \* "running" or "exited"
  pc,         \* "start", "idle", "blocked" or "failed"
  reply,      \* what the last sendCmd returned ("" on an error)
  lastOut,    \* what spike printed for the last command
  sent,       \* the number of commands sent
  stream      \* the bytes the last read started on (history)

vars == <<buf, spike, pc, reply, lastOut, sent, stream>>

(* Spike's answer to the command line c. *)
Reply(c, out) == c \o <<NL>> \o out \o Prompt

(* The loop of readUntilLn: got is every byte read, ln the current line,   *)
(* reset by a newline; it returns as soon as ln equals str.  A failed Read *)
(* (the pty is empty) ends the loop with res "end": an error if spike has  *)
(* exited, a wait otherwise.                                               *)
(* Mutant: the line kept across a newline. *)
RECURSIVE readLoopNoReset(_, _, _, _)
readLoopNoReset(s, want, got, ln) ==
  IF s = <<>> THEN [res |-> "end", got |-> got, rest |-> s]
  ELSE LET b == Head(s) IN
       IF b = NL THEN readLoopNoReset(Tail(s), want, Append(got, b), ln)
       ELSE IF Append(ln, b) = want
            THEN [res |-> "ok", got |-> Append(got, b), rest |-> Tail(s)]
            ELSE readLoopNoReset(Tail(s), want, Append(got, b), Append(ln, b))

RECURSIVE readLoop(_, _, _, _)
readLoop(s, want, got, ln) ==
  IF s = <<>> THEN [res |-> "end", got |-> got, rest |-> s]
  ELSE LET b == Head(s) IN
       IF b = NL THEN readLoop(Tail(s), want, Append(got, b), <<>>)
       ELSE IF Append(ln, b) = want
            THEN [res |-> "ok", got |-> Append(got, b), rest |-> Tail(s)]
            ELSE readLoop(Tail(s), want, Append(got, b), Append(ln, b))

readUntilLn(s, str) == readLoop(s, str, <<>>, <<>>)

(* Mutant: the echo not read. *)
sendCmdNoEcho(c, s) == readUntilLn(s, Prompt)

(* sendCmd on the bytes s spike has written: the echo of a non-empty       *)
(* command must be exactly the bytes read up to it, then the answer is     *)
(* everything up to the prompt.                                            *)
sendCmd(c, s) ==
  IF c = <<>> THEN readUntilLn(s, Prompt)
  ELSE LET e == readUntilLn(s, c) IN
       CASE e.res # "ok" -> e
         [] e.got # c    -> [res |-> "mismatch", got |-> e.got, rest |-> e.rest]
         [] OTHER        -> readUntilLn(e.rest, Prompt)

(* Mutant: a Read error taken for a wait. *)
FinishWaitOnEOF(r, okPC) ==
  /\ buf' = r.rest
  /\ pc' = IF r.res = "ok" THEN okPC ELSE "blocked"

(* How the harness goes on after a read: an answer, an error that ends the *)
(* session, or a wait on a spike that waits for a command.                 *)
Finish(r, okPC) ==
  /\ buf' = r.rest
  /\ pc' = CASE r.res = "ok"                       -> okPC
             [] r.res = "end" /\ spike = "running" -> "blocked"
             [] OTHER                              -> "failed"

Init ==
  /\ buf = Prompt
  /\ spike = "running"
  /\ pc = "start"
  /\ reply = <<>>
  /\ lastOut = <<>>
  /\ sent = 0
  /\ stream = buf

(* NewSpike: wait for the prompt after starting spike. *)
NewSpikePrompt ==
  /\ pc = "start"
  /\ Finish(readUntilLn(buf, Prompt), "idle")
  /\ UNCHANGED <<spike, reply, lastOut, sent, stream>>

(* sendCmd(c), with spike's answer to the line when it is still running. *)
SendCmd(c) ==
  /\ pc = "idle"
  /\ sent < MaxCmds
  /\ sent' = sent + 1
  /\ \E out \in IF spike = "running" THEN Outputs ELSE {<<>>} :
       LET s == IF spike = "running" THEN buf \o Reply(c, out) ELSE buf
           r == sendCmd(c, s)
       IN /\ Finish(r, "idle")
          /\ lastOut' = out
          /\ stream' = s
          /\ reply' = IF r.res = "ok" THEN r.got ELSE <<>>
  /\ UNCHANGED spike

(* Spike exits; a harness blocked in Read gets an error. *)
SpikeExits ==
  /\ spike = "running"
  /\ spike' = "exited"
  /\ pc' = IF pc = "blocked" THEN "failed" ELSE pc
  /\ UNCHANGED <<buf, reply, lastOut, sent, stream>>

Next ==
  \/ NewSpikePrompt
  \/ \E c \in Cmds : SendCmd(c)
  \/ SpikeExits

Spec == Init /\ [][Next]_vars

-----------------------------------------------------------------------------
(* What readUntilLn is for: the shortest prefix of the stream whose last   *)
(* line (the bytes after its last newline, or all of them) equals str.     *)
LastLine(p) ==
  LET nls == {i \in DOMAIN p : p[i] = NL} IN
  SubSeq(p, IF nls = {} THEN 1 ELSE Max(nls) + 1, Len(p))

readUntilLnSpec(s, str) ==
  LET ends == {k \in 1 .. Len(s) : LastLine(SubSeq(s, 1, k)) = str} IN
  IF ends = {} THEN [res |-> "end", got |-> s, rest |-> <<>>]
  ELSE [res |-> "ok", got |-> SubSeq(s, 1, Min(ends)), rest |-> SubSeq(s, Min(ends) + 1, Len(s))]

(* readUntilLn's byte loop, on every stream the harness reads from and for *)
(* every string it waits for (a command's echo, the prompt), stops at the  *)
(* first line equal to the string, and leaves the rest unread.            *)
ReadUntilLnFirstMatch ==
  \A str \in (Cmds \ {<<>>}) \cup {Prompt} :
    readUntilLn(stream, str) = readUntilLnSpec(stream, str)

(* The abstract call of SpikeRpc: the harness state, where an idle        *)
(* harness with unread bytes on the pty is out of sync.                   *)
RpcState == IF pc = "idle" /\ buf # <<>> THEN "unsynced" ELSE pc

Rpc == INSTANCE SpikeRpc WITH state <- RpcState, alive <- (spike = "running"),
                              calls <- sent, answer <- reply, output <- lastOut

(* sendCmd implements a remote call: every answer it returns is spike's    *)
(* output for the command just sent, after the echo and up to its prompt, *)
(* and nothing is left over for the next command to mistake for its own  *)
(* (runCmd parses the PC, a trap and the registers out of it; Memory an   *)
(* address's value); a command fails only once spike has exited, and no   *)
(* call hangs.                                                            *)
ImplementsRpc == Rpc!RpcSpec

(* The harness never waits in readUntilLn for bytes a running spike will   *)
(* not write: spike, at its prompt, waits for a command line.              *)
Responsive == pc # "blocked"
====
