------------------------------ MODULE Pipeline ------------------------------
(***************************************************************************)
(* grep/first.c of C_3_sem: a shell that runs every line of a file.        *)
(*                                                                         *)
(* The main process writes the lines into a pipe.  A worker reads one,     *)
(* forks the worker of the next and turns to its own line: it becomes the  *)
(* only command, or makes a pipe between each two commands and forks the   *)
(* commands from left to right.  Nobody waits for anybody: a pipeline ends *)
(* by end of file and SIGPIPE, so everything hangs on who holds which end  *)
(* of which pipe.                                                          *)
(*                                                                         *)
(* Lines and their workers are counted from 1, commands and pipes from 0   *)
(* as in the code: pipe k leads from command k to command k + 1.  Bounds:  *)
(* MaxLines and Width for the files, Items for what a command writes,      *)
(* PipeSize items in a pipe.  The pipe of the lines does not fill up.      *)
(***************************************************************************)
EXTENDS Naturals, Sequences

CONSTANTS
  Files,         \* the files, sequences of lines, a line being a sequence of commands
  MaxLines, Width,
  Unterminated,  \* the lines whose length fills the block that calloc gives them
  Items, PipeSize

\* What the commands do.  "gen" reads nothing and writes Items items, "pass" writes
\* what it reads, "head" leaves after one item, "bad" cannot be executed.
Kind    == {"gen", "pass", "head", "bad"}
Line    == 1..MaxLines
Worker  == 1..(MaxLines + 1)
Command == 0..(Width - 1)
Ends    == Command \X {"in", "out"}
Text    == UNION {[1..n -> Kind] : n \in 0..Width}

ASSUME PipelineAssumption ==
  /\ MaxLines \in Nat /\ Width \in Nat \ {0}
  /\ Items \in Nat /\ PipeSize \in Nat \ {0}
  /\ Files \subseteq UNION {[1..n -> Text] : n \in 0..MaxLines}
  /\ Unterminated \subseteq Line

VARIABLES
  file,
  main,    \* the main process: "open", "write", "end" or "aborted"
  sent,    \* how often it has written into the pipe of the lines
  data,    \* what is in that pipe: the number of a line stands for its length, then for
           \* its text; 0 is the end
  worker,  \* where each worker is
  line,    \* the line it has read
  step,    \* how many of its commands it has forked
  held,    \* the ends of pipes it holds
  proc,    \* each command: "none", "forked", "runs" or "ended"
  holds,   \* the ends of pipes it holds
  hand,    \* the item it has read and not yet written; for "gen" the last one written
  pipe,    \* what is in each pipe
  out      \* what the last command of each line has written

mainVars    == <<main, sent>>
workerVars  == <<worker, line, step, held>>
commandVars == <<proc, holds, hand, pipe, out>>
vars == <<file, mainVars, data, workerVars, commandVars>>

Count(l) == Len(line[l])
Last(l)  == Count(l) - 1
KindOf(l, i) == line[l][i + 1]

\* The two ends of pipe k.
Both(k) == {k} \X {"in", "out"}

Init ==
  /\ file \in Files
  /\ main = "open" /\ sent = 0 /\ data = <<>>
  /\ worker = [l \in Worker |-> IF l = 1 THEN "length" ELSE "none"]
  /\ line = [l \in Worker |-> <<>>]
  /\ step = [l \in Worker |-> 0]
  /\ held = [l \in Worker |-> {}]
  /\ proc = [l \in Worker |-> [i \in Command |-> "none"]]
  /\ holds = [l \in Worker |-> [i \in Command |-> {}]]
  /\ hand = [l \in Worker |-> [i \in Command |-> 0]]
  /\ pipe = [l \in Worker |-> [k \in Command |-> <<>>]]
  /\ out = [l \in Worker |-> <<>>]

-----------------------------------------------------------------------------
(* The main process: print_command_to_pipe. *)

\* A file that cannot be opened or mapped aborts it.
Open ==
  /\ main = "open"
  /\ main' \in {"write", "aborted"}
  /\ UNCHANGED <<file, sent, data, workerVars, commandVars>>

\* Two writes for each line.
WriteLine ==
  /\ main = "write" /\ sent < 2 * Len(file)
  /\ data' = Append(data, 1 + sent \div 2)
  /\ sent' = sent + 1
  /\ UNCHANGED <<file, main, workerVars, commandVars>>

\* Fault: the main process ends without the zero.
WriteNoEnd ==
  /\ main = "write" /\ sent = 2 * Len(file)
  /\ main' = "end"
  /\ UNCHANGED <<file, sent, data, workerVars, commandVars>>

WriteEnd ==
  /\ main = "write" /\ sent = 2 * Len(file)
  /\ data' = Append(data, 0)
  /\ main' = "end"
  /\ UNCHANGED <<file, sent, workerVars, commandVars>>

-----------------------------------------------------------------------------
(* The workers: main, do_command and do_grep_command. *)

\* A worker holds the writing end of the pipe of the lines itself, and so waits for
\* ever when the main process is gone.
ReadLength(l) ==
  /\ worker[l] = "length" /\ data # <<>>
  /\ data' = Tail(data)
  /\ worker' = [worker EXCEPT ![l] = IF Head(data) = 0 THEN "ended" ELSE "text"]
  /\ UNCHANGED <<file, mainVars, line, step, held, commandVars>>

\* The block for the text has no room for a zero: what follows a text that fills it is
\* taken for the end of the last command.
\* (The zero, taken for a text, would be an empty one.)
Garbled(n) ==
  {[file[n] EXCEPT ![i] = k] : i \in {Len(file[n])} \ {0}, k \in Kind}

AsRead(n) ==
  CASE n \notin DOMAIN file -> {<<>>}
    [] n \in DOMAIN file \cap Unterminated -> {file[n]} \cup Garbled(n)
    [] OTHER -> {file[n]}

ReadText(l) ==
  /\ worker[l] = "text" /\ data # <<>>
  /\ data' = Tail(data)
  /\ \E t \in AsRead(Head(data)) : line' = [line EXCEPT ![l] = t]
  /\ worker' = [worker EXCEPT ![l] = "read"]
  /\ UNCHANGED <<file, mainVars, step, held, commandVars>>

\* Fault: the next worker is forked before the text is read.
ForkBeforeText(l) ==
  /\ worker[l] = "text" /\ worker[l + 1] = "none"
  /\ worker' = [worker EXCEPT ![l + 1] = "length"]
  /\ UNCHANGED <<file, mainVars, data, line, step, held, commandVars>>

\* The child is the next worker.
ForkNext(l) ==
  /\ worker[l] = "read"
  /\ worker' = [worker EXCEPT ![l] = "split", ![l + 1] = "length"]
  /\ UNCHANGED <<file, mainVars, data, line, step, held, commandVars>>

\* fork or pipe fails, which aborts the worker.
CallFails(l) ==
  /\ \/ worker[l] \in {"read", "fork"}
     \/ worker[l] = "split" /\ Count(l) > 1
  /\ worker' = [worker EXCEPT ![l] = "aborted"]
  /\ held' = [held EXCEPT ![l] = {}]
  /\ UNCHANGED <<file, mainVars, data, line, step, commandVars>>

\* Fault: one pipe for each command and one more.
PipesPerCommand(l) == (0..Count(l)) \X {"in", "out"}

\* The ends of a line's pipes: one pipe less than commands.
PipesOf(l) == {k \in Command : k < Last(l)} \X {"in", "out"}

\* A line of bars only has no command: the array of pipes has size -1.
Crash(l) ==
  /\ worker[l] = "split" /\ Count(l) = 0
  /\ worker' = [worker EXCEPT ![l] = "aborted"]
  /\ UNCHANGED <<file, mainVars, data, line, step, held, commandVars>>

\* The worker goes on as the command.
BecomeCommand(l) ==
  /\ worker[l] = "split" /\ Count(l) = 1
  /\ worker' = [worker EXCEPT ![l] = "ended"]
  /\ proc' = [proc EXCEPT ![l][0] = "forked"]
  /\ UNCHANGED <<file, mainVars, data, line, step, held, holds, hand, pipe, out>>

MakePipes(l) ==
  /\ worker[l] = "split" /\ Count(l) > 1
  /\ worker' = [worker EXCEPT ![l] = "fork"]
  /\ held' = [held EXCEPT ![l] = PipesOf(l)]
  /\ UNCHANGED <<file, mainVars, data, line, step, commandVars>>

Fork(l) ==
  /\ worker[l] = "fork"
  /\ proc' = [proc EXCEPT ![l][step[l]] = "forked"]
  /\ holds' = [holds EXCEPT ![l][step[l]] = held[l]]
  /\ step' = [step EXCEPT ![l] = @ + 1]
  /\ worker' = [worker EXCEPT ![l] = IF step[l] = 0 THEN "fork" ELSE "close"]
  /\ UNCHANGED <<file, mainVars, data, line, held, hand, pipe, out>>

\* Fault: the worker closes the reading end only.
CloseReading(l) ==
  /\ worker[l] = "close"
  /\ held' = [held EXCEPT ![l] = @ \ {<<step[l] - 2, "in">>}]
  /\ worker' = [worker EXCEPT ![l] = IF step[l] = Count(l) THEN "ended" ELSE "fork"]
  /\ UNCHANGED <<file, mainVars, data, line, step, commandVars>>

\* Fault: the worker closes the pipe after the command.
CloseNext(l) ==
  /\ worker[l] = "close"
  /\ held' = [held EXCEPT ![l] = @ \ Both(step[l] - 1)]
  /\ worker' = [worker EXCEPT ![l] = IF step[l] = Count(l) THEN "ended" ELSE "fork"]
  /\ UNCHANGED <<file, mainVars, data, line, step, commandVars>>

\* After command i > 0 the worker closes pipe i - 1; after the last it ends.
Close(l) ==
  /\ worker[l] = "close"
  /\ held' = [held EXCEPT ![l] = @ \ Both(step[l] - 2)]
  /\ worker' = [worker EXCEPT ![l] = IF step[l] = Count(l) THEN "ended" ELSE "fork"]
  /\ UNCHANGED <<file, mainVars, data, line, step, commandVars>>

-----------------------------------------------------------------------------
(* The commands: do_ordinary_command, and what the programs do. *)

\* Every process that may hold ends of the pipes of line l.
HeldIn(l, e) == e \in held[l] \/ \E j \in Command : e \in holds[l][j]

End(l, i) ==
  /\ proc' = [proc EXCEPT ![l][i] = "ended"]
  /\ holds' = [holds EXCEPT ![l][i] = {}]

\* Fault: the child closes the reading end only.
ClosedReading(i) == {<<i, "in">>}

\* The child closes the writing end of the pipe before it and the reading end of the
\* pipe after it; the others it keeps. dup2 needs the ends that it uses.
Closed(i) == {<<k, "out">> : k \in {i - 1}} \cup {<<i, "in">>}

Needed(l, i) ==
  {<<k, "in">> : k \in {i - 1} \cap Command} \cup
  {<<k, "out">> : k \in {i} \cap 0..(Last(l) - 1)}

Exec(l, i) ==
  /\ proc[l][i] = "forked"
  /\ IF KindOf(l, i) = "bad" \/ ~(Needed(l, i) \subseteq holds[l][i])
       THEN End(l, i)
       ELSE /\ proc' = [proc EXCEPT ![l][i] = "runs"]
            /\ holds' = [holds EXCEPT ![l][i] = @ \ Closed(i)]
  /\ UNCHANGED <<file, mainVars, data, workerVars, hand, pipe, out>>

\* write: the last command's goes to the terminal.
Put(l, i, v) ==
  IF i = Last(l)
    THEN out' = [out EXCEPT ![l] = Append(@, v)] /\ UNCHANGED pipe
    ELSE /\ HeldIn(l, <<i, "in">>) /\ Len(pipe[l][i]) < PipeSize
         /\ pipe' = [pipe EXCEPT ![l][i] = Append(@, v)]
         /\ UNCHANGED out

Runs(l, i, kinds) == proc[l][i] = "runs" /\ KindOf(l, i) \in kinds

Generate(l, i) ==
  /\ Runs(l, i, {"gen"}) /\ hand[l][i] < Items
  /\ Put(l, i, hand[l][i] + 1)
  /\ hand' = [hand EXCEPT ![l][i] = @ + 1]
  /\ UNCHANGED <<file, mainVars, data, workerVars, proc, holds>>

Take(l, i) ==
  /\ Runs(l, i, {"pass", "head"}) /\ hand[l][i] = 0
  /\ i > 0 /\ pipe[l][i - 1] # <<>>
  /\ hand' = [hand EXCEPT ![l][i] = Head(pipe[l][i - 1])]
  /\ pipe' = [pipe EXCEPT ![l][i - 1] = Tail(@)]
  /\ UNCHANGED <<file, mainVars, data, workerVars, proc, holds, out>>

Give(l, i) ==
  /\ Runs(l, i, {"pass", "head"}) /\ hand[l][i] # 0
  /\ Put(l, i, hand[l][i])
  /\ hand' = [hand EXCEPT ![l][i] = 0]
  /\ IF KindOf(l, i) = "head" THEN End(l, i) ELSE UNCHANGED <<proc, holds>>
  /\ UNCHANGED <<file, mainVars, data, workerVars>>

\* A read that returns 0: the pipe is empty and nobody holds its writing end.
EndOfFile(l, i) ==
  /\ Runs(l, i, {"pass", "head"}) /\ hand[l][i] = 0
  /\ i > 0 /\ pipe[l][i - 1] = <<>> /\ ~HeldIn(l, <<i - 1, "out">>)
  /\ End(l, i)
  /\ UNCHANGED <<file, mainVars, data, workerVars, hand, pipe, out>>

Finish(l, i) ==
  /\ Runs(l, i, {"gen"}) /\ hand[l][i] = Items
  /\ End(l, i)
  /\ UNCHANGED <<file, mainVars, data, workerVars, hand, pipe, out>>

\* A write to a pipe whose reading end nobody holds.
SigPipe(l, i) ==
  /\ proc[l][i] = "runs" /\ i # Last(l) /\ ~HeldIn(l, <<i, "in">>)
  /\ \/ KindOf(l, i) = "gen" /\ hand[l][i] < Items
     \/ KindOf(l, i) \in {"pass", "head"} /\ hand[l][i] # 0
  /\ End(l, i)
  /\ UNCHANGED <<file, mainVars, data, workerVars, hand, pipe, out>>

-----------------------------------------------------------------------------
MainStep == Open \/ WriteLine \/ WriteEnd

WorkerStep(l) ==
  \/ ReadLength(l) \/ ReadText(l) \/ ForkNext(l)
  \/ Crash(l) \/ BecomeCommand(l) \/ MakePipes(l) \/ Fork(l) \/ Close(l)

CommandStep(l, i) ==
  \/ Exec(l, i) \/ Generate(l, i) \/ Take(l, i) \/ Give(l, i)
  \/ EndOfFile(l, i) \/ Finish(l, i) \/ SigPipe(l, i)

Next ==
  \/ MainStep
  \/ \E l \in Worker : WorkerStep(l) \/ CallFails(l)
  \/ \E l \in Worker, i \in Command : CommandStep(l, i)

Spec == Init /\ [][Next]_vars

\* Every process runs when it can.
FairSpec ==
  /\ Spec
  /\ WF_vars(MainStep)
  /\ \A l \in Worker : WF_vars(WorkerStep(l))
  /\ \A l \in Worker, i \in Command : WF_vars(CommandStep(l, i))

-----------------------------------------------------------------------------
(* Properties. *)

\* The types of all variables; pipes keep within their size.
TypeOK ==
  /\ file \in Files
  /\ main \in {"open", "write", "end", "aborted"}
  /\ sent \in Nat /\ data \in Seq(0..MaxLines)
  /\ worker \in [Worker -> {"none", "length", "text", "read", "split", "fork",
                            "close", "ended", "aborted"}]
  /\ line \in [Worker -> Text]
  /\ step \in [Worker -> 0..Width]
  /\ held \in [Worker -> SUBSET Ends]
  /\ proc \in [Worker -> [Command -> {"none", "forked", "runs", "ended"}]]
  /\ holds \in [Worker -> [Command -> SUBSET Ends]]
  /\ hand \in [Worker -> [Command -> 0..Items]]
  /\ pipe \in [Worker -> [Command -> Seq(1..Items)]]
  /\ out \in [Worker -> Seq(1..Items)]
  /\ \A l \in Worker, k \in Command : Len(pipe[l][k]) <= PipeSize

\* Every line is run by the worker of its number, though all workers read one pipe: a
\* worker is forked only after the one before it has read both messages of its line.
OwnLine ==
  \A l \in Worker :
    worker[l] \in {"read", "split", "fork", "close"} => line[l] \in AsRead(l)

\* Ends are held on the left: once the worker has closed its own, an end of a pipe is
\* in the hands of the command that uses it or of commands before that, never of a later
\* one.  So a pipeline whose commands end from left to right comes to its end of file:
\* what the calls of close in do_grep_command are for.
HeldOnTheLeft ==
  \A l \in Worker, i \in Command, k \in Command :
    proc[l][i] = "runs" =>
      /\ <<k, "out">> \in holds[l][i] => i <= k
      /\ <<k, "in">> \in holds[l][i] => i <= k + 1 /\ i # k

\* Nothing is lost between the commands: a line of one "gen" followed by "pass" commands
\* only, none of which was prevented, has its last command end after it has written all
\* the items, in order; end of file and SIGPIPE do not come early.
Whole(l) ==
  /\ Count(l) > 0 /\ KindOf(l, 0) = "gen"
  /\ \A i \in 1..Last(l) : KindOf(l, i) = "pass"
NothingLost ==
  \A l \in Worker :
    Whole(l) /\ worker[l] # "aborted" /\ proc[l][Last(l)] = "ended"
      => out[l] = [n \in 1..Items |-> n]

\* Once the main process has written the file, every worker comes to its end, or one
\* fails; the last by the zero, since no end of file would ever come: workers hold the
\* writing end of the pipe themselves.
WorkersEnd ==
  main = "end" ~> \/ \E l \in Worker : worker[l] = "aborted"
                  \/ \A l \in Worker : worker[l] \in {"none", "ended"}

\* A pipeline ends, provided that no command from the third on leaves before its input
\* ends.  (The command that writes to it would then wait for ever, because commands
\* further left hold the reading end: do_grep_command makes all pipes before it forks.)
Patient(l) ==
  /\ \A i \in 2..Last(l) : KindOf(l, i) = "pass"
  /\ Count(l) > 0 => KindOf(l, 0) \in {"gen", "bad"}
PipelinesEnd ==
  \A l \in Worker :
    worker[l] = "split" /\ Patient(l) /\ Count(l) > 0
      ~> worker[l] = "aborted" \/ \A i \in 0..(Len(line[l]) - 1) : proc[l][i] = "ended"

=============================================================================
