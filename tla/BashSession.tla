----------------------------- MODULE BashSession -----------------------------
(***************************************************************************)
(* A slave with its shell: CheckBash, PrintFirstCommand and WriteIntoBash  *)
(* of C_4_Sockets/server_TCP/server_slave.c, which server/server_slave.c   *)
(* has too, there with CheckPoll.                                          *)
(*                                                                         *)
(* The slave writes a command to a pseudo terminal and reads what comes    *)
(* until nothing has come for a second.  It cannot tell whether the shell  *)
(* has finished.  What follows the last '#', the end of root's prompt, is  *)
(* cut off.                                                                *)
(*                                                                         *)
(* The shell is external: a command makes it write one of Outputs.  A      *)
(* command that never stops is one that writes more than the buffer and    *)
(* the terminal hold.  Bound: MaxCommands.                                 *)
(***************************************************************************)
EXTENDS Naturals, SequencesExt

CONSTANTS
  Outputs,     \* what commands write, each a sequence of "x" and "#"
  BufLen,      \* the size of big_buffer
  TtyLen,      \* how much the terminal holds before the shell has to wait
  MaxCommands

ASSUME ShellAssumption ==
  /\ Outputs \subseteq Seq({"x", "#"})
  /\ BufLen \in Nat \ {0} /\ TtyLen \in Nat \ {0} /\ MaxCommands \in Nat

VARIABLES
  quick,    \* whether the shell never pauses for a second while it has something to write
  pc,       \* "idle", "poll" or "dead"
  wrote,    \* the output of each command, the first being the empty line of the slave
  pending,  \* what the shell has still to write
  tty,      \* what it has written and nobody has read
  buf,      \* big_buffer
  sent      \* the replies, from that to the second command on

vars == <<quick, pc, wrote, pending, tty, buf, sent>>

\* A character is known by its command and its place.
Character == [command : Nat, place : Nat, is : {"x", "#"}]
Marked(k, output) ==
  [i \in DOMAIN output |-> [command |-> k, place |-> i, is |-> output[i]]]

Init ==
  /\ quick \in BOOLEAN
  /\ pc = "idle"
  /\ wrote = <<>> /\ pending = <<>> /\ tty = <<>> /\ buf = <<>> /\ sent = <<>>

-----------------------------------------------------------------------------
\* Fault: the count of bytes is not reset.
CommandKeepingBytes(output) ==
  /\ pc = "idle" /\ Len(wrote) < MaxCommands
  /\ wrote' = Append(wrote, output)
  /\ pending' = pending \o Marked(Len(wrote) + 1, output)
  /\ pc' = "poll"
  /\ UNCHANGED <<quick, tty, buf, sent>>

\* The slave writes a command to the terminal: its own first, then those of the client.
Command(output) ==
  /\ pc = "idle" /\ Len(wrote) < MaxCommands
  /\ wrote' = Append(wrote, output)
  /\ pending' = pending \o Marked(Len(wrote) + 1, output)
  /\ buf' = <<>>
  /\ pc' = "poll"
  /\ UNCHANGED <<quick, tty, sent>>

ShellWrites ==
  /\ pending # <<>> /\ Len(tty) < TtyLen
  /\ tty' = Append(tty, Head(pending))
  /\ pending' = Tail(pending)
  /\ UNCHANGED <<quick, pc, wrote, buf, sent>>

\* poll says that there is something to read, and read gets as much as the buffer still
\* takes.  Once it is full, read gets nothing and poll says the same again for ever.
Read ==
  /\ pc = "poll" /\ tty # <<>> /\ Len(buf) < BufLen
  /\ LET n == IF Len(tty) < BufLen - Len(buf) THEN Len(tty) ELSE BufLen - Len(buf) IN
     /\ buf' = buf \o SubSeq(tty, 1, n)
     /\ tty' = SubSeq(tty, n + 1, Len(tty))
  /\ UNCHANGED <<quick, pc, wrote, pending, sent>>

ReadFails ==
  /\ pc = "poll" /\ tty # <<>>
  /\ pc' = "dead"
  /\ UNCHANGED <<quick, wrote, pending, tty, buf, sent>>

IsHash(c) == c.is = "#"

\* What is left without the characters after the last '#'.
Cut(text) == SubSeq(text, 1, SelectLastInSeq(text, IsHash))

\* Fault: the slave waits until it has seen a prompt.
TimeoutAfterPrompt ==
  /\ pc = "poll" /\ tty = <<>> /\ Cut(buf) # <<>>
  /\ quick => pending = <<>>
  /\ pc' = "idle"
  /\ sent' = IF Len(wrote) = 1 THEN sent ELSE Append(sent, Cut(buf))
  /\ UNCHANGED <<quick, wrote, pending, tty, buf>>

\* poll returns 0 after a second.  The reply ends with a blank and a zero, for which a
\* buffer that is full to the last '#' has no room: that may end the slave.
Timeout ==
  /\ pc = "poll" /\ tty = <<>>
  /\ quick => pending = <<>>
  /\ \/ /\ pc' = "idle"
        /\ sent' = IF Len(wrote) = 1 THEN sent ELSE Append(sent, Cut(buf))
     \/ /\ Len(Cut(buf)) + 2 > BufLen
        /\ pc' = "dead" /\ UNCHANGED sent
  /\ UNCHANGED <<quick, wrote, pending, tty, buf>>

Next ==
  \/ \E output \in Outputs : Command(output)
  \/ ShellWrites \/ Read \/ ReadFails \/ Timeout

Spec == Init /\ [][Next]_vars

\* The shell writes what it has to, and the slave goes on.
FairSpec ==
  Spec /\ WF_vars(ShellWrites) /\ WF_vars(Read \/ ReadFails) /\ WF_vars(Timeout)

-----------------------------------------------------------------------------
(* Properties. *)

TypeOK ==
  /\ quick \in BOOLEAN
  /\ pc \in {"idle", "poll", "dead"}
  /\ wrote \in Seq(Seq({"x", "#"}))
  /\ pending \in Seq(Character)
  /\ tty \in Seq(Character) /\ Len(tty) <= TtyLen
  /\ buf \in Seq(Character) /\ Len(buf) <= BufLen
  /\ sent \in Seq(Seq(Character))

Before(a, b) == a.command < b.command \/ (a.command = b.command /\ a.place < b.place)

\* What a command has written up to its last '#'.
Promised(k) == Cut(Marked(k, wrote[k]))

\* What clients get is what the shell wrote, in its order, nothing twice.  If the shell
\* does not pause, each reply is the whole output of its command up to the last prompt;
\* otherwise a late output comes with a later reply (server_slave.c:467-502).
Answers ==
  /\ \A m, n \in DOMAIN sent : \A i \in DOMAIN sent[m], j \in DOMAIN sent[n] :
       m < n \/ (m = n /\ i < j) => Before(sent[m][i], sent[n][j])
  /\ quick => \A k \in DOMAIN sent : sent[k] = Promised(k + 1)

\* A command is answered, or the slave has failed, unless there is more to read than the
\* buffer takes (server_slave.c:480).
Replies == pc = "poll" ~> pc # "poll" \/ (Len(buf) = BufLen /\ tty # <<>>)
=============================================================================
