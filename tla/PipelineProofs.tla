--------------------------- MODULE PipelineProofs ---------------------------
(***************************************************************************)
(* Proofs about Pipeline, for any files, any number of commands and any    *)
(* size of the pipes.                                                      *)
(*                                                                         *)
(* Control says how far a worker is, and that nobody has been forked after *)
(* the worker that reads.  Left says which ends of pipes a worker can      *)
(* still hold when it has forked so many commands, from which              *)
(* HeldOnTheLeft follows.  Reading says that what is in the pipe of the    *)
(* lines are the messages from the reader's own on, from which OwnLine     *)
(* follows.                                                                *)
(*                                                                         *)
(* The second part proves NothingLost.  Kept says who is sure to hold the  *)
(* ends of a pipe, so that neither the end of file nor SIGPIPE can come    *)
(* before the neighbour has ended.  Flow says that the items of a line are *)
(* all somewhere: what a command has written is what the next has written, *)
(* has in its hand, or has still to read from the pipe, in order.          *)
(***************************************************************************)
EXTENDS Pipeline, SequenceTheorems, TLAPS

-----------------------------------------------------------------------------
(* The parts of the inductive invariant. *)

Control ==
  \A l \in Worker :
    /\ worker[l] \in {"none", "length", "text", "read"} =>
         \A m \in Worker : m > l => worker[m] = "none"
    /\ worker[l] \in {"none", "length", "text", "read", "split"} => step[l] = 0
    /\ worker[l] = "fork" => 2 <= Count(l) /\ step[l] < Count(l)
    /\ worker[l] = "close" => 2 <= step[l] /\ step[l] <= Count(l)

Left ==
  \A l \in Worker :
    /\ worker[l] = "fork" => \A e \in held[l] : step[l] <= e[1] + 1
    /\ worker[l] = "close" => \A e \in held[l] : step[l] <= e[1] + 2
    /\ \A i \in Command :
         proc[l][i] = "forked" => \A e \in holds[l][i] : i <= e[1] + 1

\* The k-th message of the main process, and how many it has sent.
Sent(k) == IF k <= 2 * Len(file) THEN 1 + (k - 1) \div 2 ELSE 0
Total   == IF main = "end" THEN sent + 1 ELSE sent

\* What is in the pipe when n messages have been read.
From(n) == /\ Len(data) + n = Total
           /\ \A k \in 1..Len(data) : data[k] = Sent(n + k)

Reading ==
  /\ sent <= 2 * Len(file)
  /\ main = "end" => sent = 2 * Len(file)
  /\ \A l \in Worker :
       /\ worker[l] = "length" => From(2 * l - 2)
       /\ worker[l] = "text"   => From(2 * l - 1) /\ l <= Len(file)
       /\ worker[l] = "read"   => From(2 * l)

-----------------------------------------------------------------------------
(* The types. *)

\* A file is a sequence of at most MaxLines lines, each of at most Width commands.
LEMMA FileType ==
  ASSUME TypeOK
  PROVE  /\ Len(file) \in 0..MaxLines
         /\ DOMAIN file = 1..Len(file)
         /\ \A n \in DOMAIN file : file[n] \in Text
<1>1. PICK n \in 0..MaxLines : file \in [1..n -> Text]
  BY PipelineAssumption DEF TypeOK
<1>2. Len(file) = n
  BY <1>1, PipelineAssumption
<1> QED
  BY <1>1, <1>2

\* A text and its length.
LEMMA TextType ==
  ASSUME NEW t \in Text
  PROVE  Len(t) \in 0..Width /\ t \in [1..Len(t) -> Kind]
<1>1. PICK n \in 0..Width : t \in [1..n -> Kind]
  BY DEF Text
<1>2. Len(t) = n
  BY <1>1, PipelineAssumption
<1> QED
  BY <1>1, <1>2

\* No command at all.
LEMMA EmptyText == <<>> \in Text
<1>1. <<>> \in Seq(Kind) /\ Len(<<>>) = 0
  BY EmptySeq
<1>2. <<>> \in [1..Len(<<>>) -> Kind]
  BY <1>1, LenProperties
<1>3. <<>> \in [1..0 -> Kind]
  BY <1>1, <1>2
<1>4. 0 \in 0..Width
  BY PipelineAssumption
<1> QED
  BY <1>3, <1>4, Zenon DEF Text

\* What a worker reads is a text, however its block ends.
LEMMA ReadType ==
  ASSUME TypeOK, NEW n \in Nat, NEW t \in AsRead(n)
  PROVE  t \in Text
<1>1. <<>> \in Text
  BY EmptyText
<1>2. ASSUME n \in DOMAIN file, t \in Garbled(n)
      PROVE  t \in Text
  <2>1. file[n] \in Text
    BY <1>2, FileType
  <2>2. PICK m \in 0..Width : file[n] \in [1..m -> Kind]
    BY <2>1 DEF Text
  <2>3. t \in [1..m -> Kind]
    BY <1>2, <2>2 DEF Garbled
  <2> QED
    BY <2>3 DEF Text
<1> QED
  BY <1>1, <1>2, FileType DEF AsRead

\* A table of the commands of the workers, one of whose entries changes.
LEMMA NestedUpdate ==
  ASSUME NEW S, NEW f \in [Worker -> [Command -> S]],
         NEW l \in Worker, NEW i \in Command, NEW x \in S
  PROVE  [f EXCEPT ![l][i] = x] \in [Worker -> [Command -> S]]
OBVIOUS

\* What fits into a pipe.
Buffer == {s \in Seq(1..Items) : Len(s) <= PipeSize}

\* The pipes as tables of buffers.
LEMMA PipeType ==
  TypeOK => pipe \in [Worker -> [Command -> Buffer]]
BY DEF TypeOK, Buffer

\* And back.
LEMMA BufferType ==
  ASSUME pipe' \in [Worker -> [Command -> Buffer]]
  PROVE  /\ pipe' \in [Worker -> [Command -> Seq(1..Items)]]
         /\ \A m \in Worker, k \in Command : Len(pipe'[m][k]) <= PipeSize
BY DEF Buffer

\* A write keeps the types of pipes and output and does not overfill a pipe.
LEMMA PutType ==
  ASSUME TypeOK, NEW l \in Worker, NEW i \in Command, NEW v \in 1..Items, Put(l, i, v)
  PROVE  /\ pipe' \in [Worker -> [Command -> Seq(1..Items)]]
         /\ out' \in [Worker -> Seq(1..Items)]
         /\ \A m \in Worker, k \in Command : Len(pipe'[m][k]) <= PipeSize
<1>0. out \in [Worker -> Seq(1..Items)] /\ pipe \in [Worker -> [Command -> Buffer]]
  BY PipeType DEF TypeOK
<1>1. CASE i = Last(l)
  <2>1. out' \in [Worker -> Seq(1..Items)]
    <3>1. Append(out[l], v) \in Seq(1..Items)
      BY <1>0
    <3>2. out' = [out EXCEPT ![l] = Append(out[l], v)]
      BY <1>1 DEF Put
    <3> QED
      BY <1>0, <3>1, <3>2
  <2>2. pipe' \in [Worker -> [Command -> Buffer]]
    BY <1>0, <1>1 DEF Put
  <2> QED
    BY <2>1, <2>2, BufferType
<1>2. CASE i # Last(l)
  <2>1. Append(pipe[l][i], v) \in Buffer
    <3>1. pipe[l][i] \in Seq(1..Items) /\ Len(pipe[l][i]) < PipeSize
      BY <1>0, <1>2 DEF Put, Buffer
    <3> QED
      BY <3>1, PipelineAssumption DEF Buffer
  <2>2. pipe' = [pipe EXCEPT ![l][i] = Append(pipe[l][i], v)] /\ out' = out
    BY <1>2 DEF Put
  <2>3. pipe' \in [Worker -> [Command -> Buffer]]
    BY <1>0, <2>1, <2>2, NestedUpdate
  <2> QED
    BY <1>0, <2>2, <2>3, BufferType
<1> QED
  BY <1>1, <1>2

\* The end of a command keeps the types of its state and of what it holds.
LEMMA EndType ==
  ASSUME TypeOK, NEW l \in Worker, NEW i \in Command, End(l, i)
  PROVE  /\ proc' \in [Worker -> [Command -> {"none", "forked", "runs", "ended"}]]
         /\ holds' \in [Worker -> [Command -> SUBSET Ends]]
<1>1. proc' \in [Worker -> [Command -> {"none", "forked", "runs", "ended"}]]
  BY DEF End, TypeOK
<1>2. holds \in [Worker -> [Command -> SUBSET Ends]] /\ {} \in SUBSET Ends
  BY DEF TypeOK
<1>3. holds' \in [Worker -> [Command -> SUBSET Ends]]
  BY <1>2, NestedUpdate DEF End
<1> QED
  BY <1>1, <1>3

\* The main process keeps the types.
LEMMA TypeMain ==
  ASSUME TypeOK, MainStep
  PROVE  TypeOK'
<1>1. CASE Open
  BY <1>1 DEF Open, TypeOK, workerVars, commandVars
<1>2. CASE WriteLine
  <2>1. 1 + sent \div 2 \in 0..MaxLines
    BY <1>2, FileType, PipelineAssumption DEF WriteLine, TypeOK
  <2> QED
    BY <1>2, <2>1 DEF WriteLine, TypeOK, workerVars, commandVars
<1>3. CASE WriteEnd
  BY <1>3, PipelineAssumption DEF WriteEnd, TypeOK, workerVars, commandVars
<1> QED
  BY <1>1, <1>2, <1>3 DEF MainStep

\* The workers keep the types.
LEMMA TypeWorker ==
  ASSUME TypeOK, Control, NEW l \in Worker, WorkerStep(l) \/ CallFails(l)
  PROVE  TypeOK'
<1> USE DEF mainVars, workerVars, commandVars
<1>0. Len(line[l]) \in 0..Width
  BY TextType DEF TypeOK
<1>1. CASE ReadLength(l)
  BY <1>1 DEF ReadLength, TypeOK
<1>2. CASE ReadText(l)
  <2>1. Head(data) \in Nat /\ Tail(data) \in Seq(0..MaxLines)
    BY <1>2, PipelineAssumption DEF ReadText, TypeOK
  <2>2. PICK t \in AsRead(Head(data)) : line' = [line EXCEPT ![l] = t]
    BY <1>2 DEF ReadText
  <2>3. t \in Text
    BY <2>1, <2>2, ReadType
  <2> QED
    BY <1>2, <2>1, <2>2, <2>3 DEF ReadText, TypeOK
<1>3. CASE ForkNext(l)
  BY <1>3 DEF ForkNext, TypeOK
<1>4. CASE Crash(l)
  BY <1>4 DEF Crash, TypeOK
<1>5. CASE BecomeCommand(l)
  BY <1>5 DEF BecomeCommand, TypeOK
<1>6. CASE MakePipes(l)
  <2>1. PipesOf(l) \subseteq Ends
    BY DEF PipesOf, Ends
  <2> QED
    BY <1>6, <2>1 DEF MakePipes, TypeOK
<1>7. CASE Fork(l)
  <2>1. step[l] + 1 \in 0..Width
    BY <1>0, <1>7, PipelineAssumption DEF Fork, Control, Count, TypeOK
  <2> QED
    BY <1>7, <2>1 DEF Fork, TypeOK
<1>8. CASE Close(l)
  BY <1>8 DEF Close, TypeOK
<1>9. CASE CallFails(l)
  BY <1>9 DEF CallFails, TypeOK
<1> QED
  BY <1>1, <1>2, <1>3, <1>4, <1>5, <1>6, <1>7, <1>8, <1>9 DEF WorkerStep

\* The commands keep the types.
LEMMA TypeCommand ==
  ASSUME TypeOK, NEW l \in Worker, NEW i \in Command, CommandStep(l, i)
  PROVE  TypeOK'
<1> USE DEF mainVars, workerVars, commandVars
<1>1. CASE Exec(l, i)
  <2>1. CASE End(l, i)
    BY <1>1, <2>1, EndType DEF Exec, TypeOK
  <2>2. CASE /\ proc' = [proc EXCEPT ![l][i] = "runs"]
             /\ holds' = [holds EXCEPT ![l][i] = @ \ Closed(i)]
    BY <1>1, <2>2 DEF Exec, TypeOK
  <2> QED
    BY <1>1, <2>1, <2>2 DEF Exec
<1>2. CASE Generate(l, i)
  <2>1. hand[l][i] + 1 \in 1..Items
    BY <1>2, PipelineAssumption DEF Generate, TypeOK
  <2>2. /\ pipe' \in [Worker -> [Command -> Seq(1..Items)]]
        /\ out' \in [Worker -> Seq(1..Items)]
        /\ \A m \in Worker, k \in Command : Len(pipe'[m][k]) <= PipeSize
    BY <1>2, <2>1, PutType DEF Generate
  <2>3. hand' \in [Worker -> [Command -> 0..Items]]
    BY <1>2, <2>1 DEF Generate, TypeOK
  <2> QED
    BY <1>2, <2>2, <2>3 DEF Generate, TypeOK
<1>3. CASE Take(l, i)
  <2>1. i - 1 \in Command
    BY <1>3, PipelineAssumption DEF Take, Command
  <2>2. pipe[l][i - 1] \in Buffer /\ pipe[l][i - 1] # <<>>
    BY <1>3, <2>1, PipeType DEF Take
  <2>3. Head(pipe[l][i - 1]) \in 1..Items /\ Tail(pipe[l][i - 1]) \in Buffer
    BY <2>2, PipelineAssumption DEF Buffer
  <2>4. hand' \in [Worker -> [Command -> 0..Items]]
    <3>1. hand \in [Worker -> [Command -> 0..Items]] /\ Head(pipe[l][i - 1]) \in 0..Items
      BY <2>3 DEF TypeOK
    <3> QED
      BY <1>3, <3>1, NestedUpdate DEF Take
  <2>5. pipe' \in [Worker -> [Command -> Buffer]]
    BY <1>3, <2>1, <2>3, PipeType, NestedUpdate DEF Take
  <2> QED
    BY <1>3, <2>4, <2>5, BufferType DEF Take, TypeOK
<1>4. CASE Give(l, i)
  <2>1. hand[l][i] \in 1..Items
    BY <1>4, PipelineAssumption DEF Give, TypeOK
  <2>2. /\ pipe' \in [Worker -> [Command -> Seq(1..Items)]]
        /\ out' \in [Worker -> Seq(1..Items)]
        /\ \A m \in Worker, k \in Command : Len(pipe'[m][k]) <= PipeSize
    BY <1>4, <2>1, PutType DEF Give
  <2>3. /\ proc' \in [Worker -> [Command -> {"none", "forked", "runs", "ended"}]]
        /\ holds' \in [Worker -> [Command -> SUBSET Ends]]
    BY <1>4, EndType DEF Give, TypeOK
  <2>4. hand' \in [Worker -> [Command -> 0..Items]]
    BY <1>4, PipelineAssumption DEF Give, TypeOK
  <2> QED
    BY <1>4, <2>2, <2>3, <2>4 DEF Give, TypeOK
<1>5. CASE EndOfFile(l, i)
  BY <1>5, EndType DEF EndOfFile, TypeOK
<1>6. CASE Finish(l, i)
  BY <1>6, EndType DEF Finish, TypeOK
<1>7. CASE SigPipe(l, i)
  BY <1>7, EndType DEF SigPipe, TypeOK
<1> QED
  BY <1>1, <1>2, <1>3, <1>4, <1>5, <1>6, <1>7 DEF CommandStep

-----------------------------------------------------------------------------
(* The control of the workers. *)

\* Every step keeps the control.
LEMMA ControlStep ==
  ASSUME TypeOK, Control, [Next]_vars
  PROVE  Control'
<1> USE DEF mainVars, workerVars, commandVars
<1>1. CASE UNCHANGED workerVars
  BY <1>1 DEF Control, Count
<1>2. ASSUME NEW l \in Worker, WorkerStep(l) \/ CallFails(l)
      PROVE  Control'
  <2>0. /\ Len(line[l]) \in 0..Width
        /\ worker \in [Worker -> {"none", "length", "text", "read", "split", "fork",
                                  "close", "ended", "aborted"}]
        /\ step \in [Worker -> 0..Width] /\ line \in [Worker -> Text]
        /\ Worker \subseteq Nat
    BY TextType, PipelineAssumption DEF TypeOK, Worker
  <2>1. CASE ReadLength(l)
    BY <2>0, <2>1 DEF ReadLength, Control, Count
  <2>2. CASE ReadText(l)
    BY <2>0, <2>2 DEF ReadText, Control, Count
  <2>3. CASE ForkNext(l)
    BY <2>0, <2>3 DEF ForkNext, Control, Count
  <2>4. CASE Crash(l)
    BY <2>0, <2>4 DEF Crash, Control, Count
  <2>5. CASE BecomeCommand(l)
    BY <2>0, <2>5 DEF BecomeCommand, Control, Count
  <2>6. CASE MakePipes(l)
    BY <2>0, <2>6 DEF MakePipes, Control, Count
  <2>7. CASE Fork(l)
    <3>1. /\ worker' = [worker EXCEPT ![l] = IF step[l] = 0 THEN "fork" ELSE "close"]
          /\ step' = [step EXCEPT ![l] = @ + 1] /\ line' = line
          /\ worker[l] = "fork" /\ step[l] \in 0..Width
          /\ 2 <= Len(line[l]) /\ step[l] < Len(line[l])
      BY <2>0, <2>7 DEF Fork, Control, Count
    <3> QED
      BY <2>0, <3>1 DEF Control, Count
  <2>8. CASE Close(l)
    BY <2>0, <2>8 DEF Close, Control, Count
  <2>9. CASE CallFails(l)
    BY <2>0, <2>9 DEF CallFails, Control, Count
  <2> QED
    BY <1>2, <2>1, <2>2, <2>3, <2>4, <2>5, <2>6, <2>7, <2>8, <2>9 DEF WorkerStep
<1>3. CASE MainStep
  BY <1>1, <1>3 DEF MainStep, Open, WriteLine, WriteEnd
<1>4. ASSUME NEW l \in Worker, NEW i \in Command, CommandStep(l, i)
      PROVE  Control'
  BY <1>1, <1>4 DEF CommandStep, Exec, Generate, Take, Give, EndOfFile, Finish, SigPipe
<1> QED
  BY <1>1, <1>2, <1>3, <1>4 DEF Next, vars

-----------------------------------------------------------------------------
(* The ends of pipes. *)

\* Close removes the ends of the one pipe that a worker must not hold any longer.
LEMMA LeftStep ==
  ASSUME TypeOK, Control, Left, [Next]_vars
  PROVE  Left'
<1> USE DEF mainVars, workerVars, commandVars
<1>0. /\ worker \in [Worker -> {"none", "length", "text", "read", "split", "fork",
                                "close", "ended", "aborted"}]
      /\ step \in [Worker -> 0..Width] /\ held \in [Worker -> SUBSET Ends]
      /\ proc \in [Worker -> [Command -> {"none", "forked", "runs", "ended"}]]
      /\ holds \in [Worker -> [Command -> SUBSET Ends]]
      /\ Command \subseteq Nat
      /\ \A e \in Ends : e[1] \in Nat
  BY PipelineAssumption DEF TypeOK, Command, Ends
<1>1. CASE UNCHANGED <<worker, step, held, proc, holds>>
  BY <1>1 DEF Left
<1>2. ASSUME NEW l \in Worker, WorkerStep(l) \/ CallFails(l)
      PROVE  Left'
  <2>1. CASE ReadLength(l)
    BY <1>0, <2>1 DEF ReadLength, Left
  <2>2. CASE ReadText(l)
    BY <1>0, <2>2 DEF ReadText, Left
  <2>3. CASE ForkNext(l)
    BY <1>0, <2>3 DEF ForkNext, Left
  <2>4. CASE Crash(l)
    BY <1>0, <2>4 DEF Crash, Left
  <2>5. CASE BecomeCommand(l)
    BY <1>0, <2>5 DEF BecomeCommand, Left
  <2>6. CASE MakePipes(l)
    <3>1. step[l] = 0
      BY <2>6 DEF MakePipes, Control
    <3>2. PipesOf(l) \subseteq Ends
      BY DEF PipesOf, Ends
    <3> QED
      BY <1>0, <2>6, <3>1, <3>2 DEF MakePipes, Left
  <2>7. CASE Fork(l)
    <3>1. \A e \in held[l] : step[l] <= e[1] + 1
      BY <2>7 DEF Fork, Left
    <3>2. \A e \in held[l] : e \in Ends
      BY <1>0
    <3> QED
      BY <1>0, <2>7, <3>1, <3>2 DEF Fork, Left
  <2>8. CASE Close(l)
    <3>1. \A e \in held[l] : step[l] <= e[1] + 2 /\ e \in Ends
      BY <1>0, <2>8 DEF Close, Left
    <3>2. \A e \in held[l] \ Both(step[l] - 2) : e[1] # step[l] - 2
      BY <3>1 DEF Both, Ends
    <3>3. \A e \in held[l] \ Both(step[l] - 2) : step[l] <= e[1] + 1
      BY <1>0, <3>1, <3>2
    <3> QED
      BY <1>0, <2>8, <3>3 DEF Close, Left
  <2>9. CASE CallFails(l)
    BY <1>0, <2>9 DEF CallFails, Left
  <2> QED
    BY <1>2, <2>1, <2>2, <2>3, <2>4, <2>5, <2>6, <2>7, <2>8, <2>9 DEF WorkerStep
<1>3. CASE MainStep
  BY <1>1, <1>3 DEF MainStep, Open, WriteLine, WriteEnd
<1>4. ASSUME NEW l \in Worker, NEW i \in Command, CommandStep(l, i)
      PROVE  Left'
  <2>1. UNCHANGED workerVars
    BY <1>4
       DEF CommandStep, Exec, Generate, Take, Give, EndOfFile, Finish, SigPipe
  <2>2. CASE UNCHANGED <<proc, holds>>
    BY <1>1, <2>1, <2>2
  <2>3. CASE End(l, i)
    BY <1>0, <2>1, <2>3 DEF End, Left
  <2>4. CASE Exec(l, i)
    <3>1. CASE /\ proc' = [proc EXCEPT ![l][i] = "runs"]
               /\ holds' = [holds EXCEPT ![l][i] = @ \ Closed(i)]
      BY <1>0, <2>1, <3>1 DEF Left
    <3> QED
      BY <2>3, <2>4, <3>1 DEF Exec
  <2>5. CASE Give(l, i)
    BY <2>2, <2>3, <2>5 DEF Give
  <2>6. CASE Generate(l, i) \/ Take(l, i)
    BY <2>2, <2>6 DEF Generate, Take
  <2>7. CASE EndOfFile(l, i) \/ Finish(l, i) \/ SigPipe(l, i)
    BY <2>3, <2>7 DEF EndOfFile, Finish, SigPipe
  <2> QED
    BY <1>4, <2>4, <2>5, <2>6, <2>7 DEF CommandStep
<1> QED
  BY <1>1, <1>2, <1>3, <1>4 DEF Next, vars

\* Only Exec makes a command run, and it closes what HeldOnTheLeft forbids.
LEMMA HeldStep ==
  ASSUME TypeOK, Left, HeldOnTheLeft, [Next]_vars
  PROVE  HeldOnTheLeft'
<1> USE DEF mainVars, workerVars, commandVars
<1>0. /\ proc \in [Worker -> [Command -> {"none", "forked", "runs", "ended"}]]
      /\ holds \in [Worker -> [Command -> SUBSET Ends]]
      /\ Command \subseteq Nat
  BY PipelineAssumption DEF TypeOK, Command
<1>1. CASE UNCHANGED <<proc, holds>>
  BY <1>1 DEF HeldOnTheLeft
<1>2. ASSUME NEW l \in Worker, WorkerStep(l) \/ CallFails(l)
      PROVE  HeldOnTheLeft'
  <2>1. CASE BecomeCommand(l)
    BY <1>0, <2>1 DEF BecomeCommand, HeldOnTheLeft
  <2>2. CASE Fork(l)
    BY <1>0, <2>2 DEF Fork, HeldOnTheLeft
  <2> QED
    BY <1>1, <1>2, <2>1, <2>2 DEF WorkerStep, ReadLength, ReadText, ForkNext, Crash,
       MakePipes, Close, CallFails
<1>3. CASE MainStep
  BY <1>1, <1>3 DEF MainStep, Open, WriteLine, WriteEnd
<1>4. ASSUME NEW l \in Worker, NEW i \in Command, CommandStep(l, i)
      PROVE  HeldOnTheLeft'
  <2>1. CASE End(l, i)
    BY <1>0, <2>1 DEF End, HeldOnTheLeft
  <2>2. CASE Exec(l, i)
    <3>1. CASE /\ proc' = [proc EXCEPT ![l][i] = "runs"]
               /\ holds' = [holds EXCEPT ![l][i] = @ \ Closed(i)]
      <4>1. \A e \in holds[l][i] : i <= e[1] + 1
        BY <2>2 DEF Exec, Left
      <4>2. ASSUME NEW k \in Command, <<k, "out">> \in holds[l][i] \ Closed(i)
            PROVE  i <= k
        <5>1. k # i - 1
          BY <4>2 DEF Closed
        <5> QED
          BY <1>0, <4>1, <4>2, <5>1
      <4>3. ASSUME NEW k \in Command, <<k, "in">> \in holds[l][i] \ Closed(i)
            PROVE  i <= k + 1 /\ i # k
        BY <4>1, <4>3 DEF Closed
      <4> QED
        BY <1>0, <3>1, <4>2, <4>3 DEF HeldOnTheLeft
    <3> QED
      BY <2>1, <2>2, <3>1 DEF Exec
  <2>3. CASE Give(l, i)
    BY <1>1, <2>1, <2>3 DEF Give
  <2>4. CASE Generate(l, i) \/ Take(l, i)
    BY <1>1, <2>4 DEF Generate, Take
  <2>5. CASE EndOfFile(l, i) \/ Finish(l, i) \/ SigPipe(l, i)
    BY <2>1, <2>5 DEF EndOfFile, Finish, SigPipe
  <2> QED
    BY <1>4, <2>2, <2>3, <2>4, <2>5 DEF CommandStep
<1> QED
  BY <1>1, <1>2, <1>3, <1>4 DEF Next, vars

-----------------------------------------------------------------------------
(* The messages of the lines. *)

\* What a worker that reads finds at the head of the pipe, and leaves behind.
LEMMA ReadOne ==
  ASSUME TypeOK, NEW n \in Nat, From(n), data # <<>>, data' = Tail(data),
         UNCHANGED <<file, main, sent>>
  PROVE  Head(data) = Sent(n + 1) /\ From(n + 1)'
<1>1. /\ data \in Seq(0..MaxLines) /\ sent \in Nat /\ Len(data) \in Nat \ {0}
      /\ \A k \in 1..Len(data) : data[k] = Sent(n + k)
  BY DEF TypeOK, From
<1>2. /\ Len(data') = Len(data) - 1
      /\ \A k \in 1..Len(data') : data'[k] = data[k + 1]
  BY <1>1
<1>3. Head(data) = data[1]
  BY <1>1
<1>4. \A k \in 1..Len(data') : data'[k] = Sent(n + (k + 1))
  BY <1>1, <1>2
<1>5. \A k \in 1..Len(data') : Sent(n + (k + 1))' = Sent((n + 1) + k)
  BY <1>1, <1>2, FileType DEF Sent
<1> QED
  BY <1>1, <1>2, <1>3, <1>4, <1>5 DEF From, Total, Sent

\* A message more from the main process.
LEMMA SendOne ==
  ASSUME TypeOK, NEW n \in Nat, From(n), n <= Total, UNCHANGED file,
         Total' = Total + 1, data' = Append(data, Sent(Total + 1))
  PROVE  From(n)'
<1>1. /\ data \in Seq(0..MaxLines) /\ Len(data) \in Nat /\ Total \in Nat
      /\ Len(data) + n = Total
      /\ \A k \in 1..Len(data) : data[k] = Sent(n + k)
  BY DEF TypeOK, From, Total
<1>2. /\ Len(data') = Len(data) + 1
      /\ data'[Len(data) + 1] = Sent(n + (Len(data) + 1))
      /\ \A k \in 1..Len(data) : data'[k] = data[k]
  BY <1>1
<1>3. \A k \in 1..Len(data') : data'[k] = Sent(n + k)
  BY <1>1, <1>2
<1> QED
  <2>1. \A k \in 1..Len(data') : Sent(n + k)' = Sent(n + k)
    BY DEF Sent
  <2>2. Len(data') + n = Total'
    <3>1. Len(data') + n = Total + 1
      <4>1. (Len(data) + 1) + n = Total + 1
        BY <1>1
      <4> QED
        BY <1>2, <4>1, Zenon
    <3>2. Total' = Total + 1
      OBVIOUS
    <3> QED
      BY <3>1, <3>2, Zenon
  <2> QED
    BY <1>3, <2>1, <2>2 DEF From

\* One worker reads at a time.
LEMMA OneReader ==
  ASSUME Control, NEW l \in Worker, worker[l] \in {"length", "text", "read"}
  PROVE  \A m \in Worker \ {l} : worker[m] \notin {"length", "text", "read"}
<1> SUFFICES ASSUME NEW m \in Worker \ {l}
             PROVE  worker[m] \notin {"length", "text", "read"}
  OBVIOUS
<1>1. m > l \/ l > m
  BY PipelineAssumption DEF Worker
<1>2. CASE m > l
  BY <1>2 DEF Control
<1>3. CASE l > m
  BY <1>3 DEF Control
<1> QED
  BY <1>1, <1>2, <1>3

\* What has been read and what is in the pipe keep making up what was sent.
LEMMA ReadingStep ==
  ASSUME TypeOK, Control, Reading, [Next]_vars
  PROVE  Reading'
<1> USE DEF mainVars, workerVars, commandVars
<1>0. /\ worker \in [Worker -> {"none", "length", "text", "read", "split", "fork",
                                "close", "ended", "aborted"}]
      /\ sent \in Nat /\ Len(file) \in Nat /\ Total \in Nat
      /\ \A l \in Worker : l \in Nat \ {0}
  BY FileType, PipelineAssumption, SMTT(30) DEF TypeOK, Worker, Total
<1>1. ASSUME UNCHANGED <<file, main, sent, data>>, NEW n
      PROVE  From(n)' = From(n)
  BY <1>1 DEF From, Total, Sent
<1>2. CASE UNCHANGED <<file, main, sent, data, worker>>
  BY <1>1, <1>2 DEF Reading
<1>3. CASE MainStep
  <2>1. CASE Open
    <3>1. ASSUME NEW n PROVE From(n)' = From(n)
      <4>1. Total' = Total /\ UNCHANGED <<file, data>>
        BY <2>1 DEF Open, Total
      <4> QED
        BY <4>1 DEF From, Sent
    <3>2. /\ UNCHANGED <<file, sent, worker>> /\ main' # "end"
      BY <2>1 DEF Open
    <3> QED
      BY <3>1, <3>2 DEF Reading
  <2>2. ASSUME WriteLine \/ WriteEnd
        PROVE  /\ UNCHANGED <<file, worker>>
               /\ Total' = Total + 1 /\ data' = Append(data, Sent(Total + 1))
               /\ sent' <= 2 * Len(file) /\ (main' = "end" => sent' = 2 * Len(file))
    <3>1. CASE WriteLine
      BY <1>0, <3>1 DEF WriteLine, Reading, Total, Sent
    <3>2. CASE WriteEnd
      BY <1>0, <3>2 DEF WriteEnd, Reading, Total, Sent
    <3> QED
      BY <2>2, <3>1, <3>2
  <2>3. ASSUME WriteLine \/ WriteEnd, NEW n \in Nat, From(n)
        PROVE  From(n)'
    <3>1. n <= Total
      BY <1>0, <2>3 DEF From, TypeOK
    <3> QED
      BY <2>2, <2>3, <3>1, SendOne
  <2>4. CASE WriteLine \/ WriteEnd
    <3>1. \A l \in Worker : 2 * l - 2 \in Nat /\ 2 * l - 1 \in Nat /\ 2 * l \in Nat
      BY <1>0
    <3> QED
      BY <2>2, <2>3, <2>4, <3>1 DEF Reading
  <2> QED
    BY <1>3, <2>1, <2>4 DEF MainStep
<1>4. ASSUME NEW l \in Worker, WorkerStep(l) \/ CallFails(l)
      PROVE  Reading'
  <2>0. /\ 2 * l - 2 \in Nat /\ 2 * l - 1 \in Nat /\ 2 * l \in Nat
        /\ (2 * l - 2) + 1 = 2 * l - 1 /\ (2 * l - 1) + 1 = 2 * l
        /\ l + 1 \in Worker => 2 * (l + 1) - 2 = 2 * l
    BY <1>0
  <2>1. CASE ReadLength(l)
    <3>1. /\ Head(data) = Sent(2 * l - 1) /\ From(2 * l - 1)'
          /\ UNCHANGED <<file, main, sent>>
      BY <2>0, <2>1, ReadOne DEF ReadLength, Reading
    <3>2. Head(data) # 0 => l <= Len(file)
      BY <1>0, <3>1 DEF Sent
    <3>3. \A m \in Worker \ {l} : worker[m] \notin {"length", "text", "read"}
      BY <2>1, OneReader DEF ReadLength
    <3> QED
      BY <1>0, <2>1, <3>1, <3>2, <3>3 DEF ReadLength, Reading
  <2>2. CASE ReadText(l)
    <3>1. From(2 * l)' /\ UNCHANGED <<file, main, sent>>
      BY <2>0, <2>2, ReadOne DEF ReadText, Reading
    <3>2. \A m \in Worker \ {l} : worker[m] \notin {"length", "text", "read"}
      BY <2>2, OneReader DEF ReadText
    <3> QED
      BY <1>0, <2>2, <3>1, <3>2 DEF ReadText, Reading
  <2>3. CASE ForkNext(l)
    <3>1. From(2 * l) /\ \A n : From(n)' = From(n)
      BY <1>1, <2>3 DEF ForkNext, Reading
    <3>2. /\ UNCHANGED <<file, main, sent>>
          /\ \A m \in Worker \ {l, l + 1} : worker'[m] = worker[m]
          /\ worker'[l] = "split"
          /\ l + 1 \in Worker => worker'[l + 1] = "length"
      BY <1>0, <2>3 DEF ForkNext
    <3>3. l + 1 \in Worker => From(2 * (l + 1) - 2)'
      <4> DEFINE k == 2 * (l + 1) - 2
      <4>1. l + 1 \in Worker => k = 2 * l
        BY <2>0
      <4>2. From(k)' = From(k)
        BY <3>1
      <4> HIDE DEF k
      <4>3. l + 1 \in Worker => From(k)'
        BY <3>1, <4>1, <4>2
      <4> QED
        BY <4>3 DEF k
    <3>4. \A m \in Worker \ {l, l + 1} :
            /\ worker'[m] = "length" => From(2 * m - 2)'
            /\ worker'[m] = "text"   => From(2 * m - 1)' /\ m <= Len(file)
            /\ worker'[m] = "read"   => From(2 * m)'
      BY <3>1, <3>2 DEF Reading
    <3> QED
      BY <3>2, <3>3, <3>4 DEF Reading
  <2>4. CASE /\ UNCHANGED <<file, main, sent, data>>
             /\ \A m \in Worker : worker'[m] \in {"length", "text", "read"}
                                    => worker'[m] = worker[m]
    BY <1>1, <2>4 DEF Reading
  <2>5. CASE Crash(l) \/ BecomeCommand(l) \/ MakePipes(l)
    BY <1>0, <2>4, <2>5 DEF Crash, BecomeCommand, MakePipes
  <2>6. CASE Fork(l) \/ Close(l) \/ CallFails(l)
    BY <1>0, <2>4, <2>6 DEF Fork, Close, CallFails
  <2> QED
    BY <1>4, <2>1, <2>2, <2>3, <2>5, <2>6 DEF WorkerStep
<1>5. ASSUME NEW l \in Worker, NEW i \in Command, CommandStep(l, i)
      PROVE  Reading'
  BY <1>2, <1>5 DEF CommandStep, Exec, Generate, Take, Give, EndOfFile, Finish, SigPipe
<1> QED
  BY <1>2, <1>3, <1>4, <1>5 DEF Next, vars

\* What a worker takes for its text is the text of its line.
LEMMA OwnLineStep ==
  ASSUME TypeOK, Control, Reading, OwnLine, [Next]_vars
  PROVE  OwnLine'
<1> USE DEF mainVars, workerVars, commandVars
<1>0. /\ worker \in [Worker -> {"none", "length", "text", "read", "split", "fork",
                                "close", "ended", "aborted"}]
      /\ line \in [Worker -> Text] /\ Len(file) \in Nat
      /\ \A l \in Worker : l \in Nat \ {0}
  BY FileType, PipelineAssumption DEF TypeOK, Worker
<1>1. ASSUME UNCHANGED file, NEW n
      PROVE  AsRead(n)' = AsRead(n)
  BY <1>1 DEF AsRead, Garbled
<1>2. CASE UNCHANGED <<file, worker, line>>
  BY <1>1, <1>2 DEF OwnLine
<1>3. ASSUME NEW l \in Worker, WorkerStep(l) \/ CallFails(l)
      PROVE  OwnLine'
  <2>1. CASE ReadText(l)
    <3>1. Head(data) = Sent(2 * l) /\ l <= Len(file)
      <4>1. 2 * l - 1 \in Nat /\ (2 * l - 1) + 1 = 2 * l
        BY <1>0
      <4> QED
        BY <2>1, <4>1, ReadOne DEF ReadText, Reading
    <3>2. Sent(2 * l) = l
      BY <1>0, <3>1 DEF Sent
    <3>3. PICK t \in AsRead(l) : line' = [line EXCEPT ![l] = t]
      BY <2>1, <3>1, <3>2 DEF ReadText
    <3> QED
      BY <1>0, <1>1, <2>1, <3>3 DEF ReadText, OwnLine
  <2>2. CASE /\ UNCHANGED <<file, line>>
             /\ \A m \in Worker :
                  worker'[m] \in {"read", "split", "fork", "close"} =>
                    worker[m] \in {"read", "split", "fork", "close"}
    BY <1>1, <2>2 DEF OwnLine
  <2>3. CASE ReadLength(l) \/ ForkNext(l) \/ Crash(l) \/ BecomeCommand(l)
    BY <1>0, <2>2, <2>3 DEF ReadLength, ForkNext, Crash, BecomeCommand
  <2>4. CASE MakePipes(l) \/ Fork(l) \/ Close(l) \/ CallFails(l)
    BY <1>0, <2>2, <2>4 DEF MakePipes, Fork, Close, CallFails
  <2> QED
    BY <1>3, <2>1, <2>3, <2>4 DEF WorkerStep
<1>4. CASE MainStep
  BY <1>2, <1>4 DEF MainStep, Open, WriteLine, WriteEnd
<1>5. ASSUME NEW l \in Worker, NEW i \in Command, CommandStep(l, i)
      PROVE  OwnLine'
  BY <1>2, <1>5 DEF CommandStep, Exec, Generate, Take, Give, EndOfFile, Finish, SigPipe
<1> QED
  BY <1>2, <1>3, <1>4, <1>5 DEF Next, vars

-----------------------------------------------------------------------------
(* The theorems. *)

Inv == TypeOK /\ Control /\ Left /\ Reading /\ OwnLine /\ HeldOnTheLeft

\* The invariant of the first part holds at the start.
LEMMA InitInv == Init => Inv
<1> SUFFICES ASSUME Init PROVE Inv
  OBVIOUS
<1>1. <<>> \in Text
  BY EmptyText
<1>2. TypeOK
  BY <1>1, PipelineAssumption DEF Init, TypeOK
<1>3. Control /\ Left /\ OwnLine /\ HeldOnTheLeft
  BY PipelineAssumption DEF Init, Control, Left, OwnLine, HeldOnTheLeft, Worker
<1>4. Reading
  BY <1>2, FileType, PipelineAssumption DEF Init, Reading, From, Total, Worker
<1> QED
  BY <1>2, <1>3, <1>4 DEF Inv

\* Every step keeps it.
LEMMA NextInv == Inv /\ [Next]_vars => Inv'
<1> SUFFICES ASSUME Inv, [Next]_vars PROVE Inv'
  OBVIOUS
<1>1. TypeOK'
  <2>1. CASE UNCHANGED vars
    BY <2>1 DEF Inv, vars, mainVars, workerVars, commandVars, TypeOK
  <2> QED
    BY <2>1, TypeMain, TypeWorker, TypeCommand DEF Next, Inv
<1> QED
  BY <1>1, ControlStep, LeftStep, ReadingStep, OwnLineStep, HeldStep DEF Inv

\* It holds always.
LEMMA Invariance == Spec => []Inv
BY InitInv, NextInv, PTL DEF Spec

\* All variables keep their types, and no pipe holds more than its size, whatever the
\* file says and whichever call fails.
THEOREM TypeCorrect == Spec => []TypeOK
BY Invariance, PTL DEF Inv

\* Every worker runs the line of its number, although all workers read one pipe.
THEOREM OwnLines == Spec => []OwnLine
BY Invariance, PTL DEF Inv

\* A running command holds no end of the pipes to its left but the reading end of the one
\* it reads from, and not the reading end of the one it writes to, in pipelines of any
\* length.
THEOREM Held == Spec => []HeldOnTheLeft
BY Invariance, PTL DEF Inv

-----------------------------------------------------------------------------
(* The items of a line. *)

\* Before a worker has made the pipes of its line, nothing has been done to it.
Untried(l) ==
  /\ worker[l] \in {"none", "length", "text"} => line[l] = <<>>
  /\ out[l] = <<>>
  /\ \A i \in Command : proc[l][i] = "none" /\ hand[l][i] = 0 /\ pipe[l][i] = <<>>

\* How many commands have been forked.
Forked(l) == IF worker[l] \in {"fork", "close"} THEN step[l] ELSE Count(l)

\* Who is sure to hold the ends of a pipe: the worker until it has forked both of its
\* commands, each of the two from then on until it ends.
Kept(l) ==
  /\ \A i \in Command : proc[l][i] = "none" <=> Forked(l) <= i
  /\ \A k \in Command : k < Last(l) =>
       /\ worker[l] = "fork" /\ step[l] <= k + 1 => Both(k) \subseteq held[l]
       /\ worker[l] = "close" /\ step[l] <= k + 2 => Both(k) \subseteq held[l]
       /\ \A i \in Command :
            proc[l][i] = "forked" /\ i <= k + 1 => Both(k) \subseteq holds[l][i]
       /\ proc[l][k] = "runs" => <<k, "out">> \in holds[l][k]
       /\ \A i \in Command : i = k + 1 /\ proc[l][i] = "runs" => <<k, "in">> \in holds[l][i]

\* W[i] is how many items command i has written: the first W[i] in order.  Of them the
\* next command has written W[i + 1], it may have one in its hand, and the others are in
\* the pipe.  A command that has ended has written them all.  (n is the last command, R
\* how far each is, H its hand, P the pipes, O the output.)
Ready(x) == IF x = 0 THEN 0 ELSE 1
Written(n, R, H, P, O, W) ==
  /\ W \in [Command -> 0..Items]
  /\ W[0] = H[0]
  /\ \A i \in Command, k \in Command : i = k + 1 /\ i <= n =>
       /\ W[k] = W[i] + Ready(H[i]) + Len(P[k])
       /\ H[i] # 0 => H[i] = W[i] + 1
       /\ \A j \in 1..Len(P[k]) : P[k][j] = W[i] + Ready(H[i]) + j
  /\ W[n] = Len(O) /\ \A j \in 1..Len(O) : O[j] = j
  /\ \A i \in Command : i <= n /\ R[i] = "ended" => W[i] = Items

Flow(l) ==
  Whole(l) =>
    \E W \in [Command -> 0..Items] :
      Written(Last(l), proc[l], hand[l], pipe[l], out[l], W)

Loss(l) ==
  /\ worker[l] \in {"none", "length", "text", "read", "split"} => Untried(l)
  /\ worker[l] \in {"fork", "close", "ended"} => Kept(l) /\ Flow(l)

-----------------------------------------------------------------------------
(* The five moves of an item or a command of a whole line, as facts about Written. *)

\* The sums that the moves need.
LEMMA Sums ==
  /\ \A x, y, z \in Nat : x + y + (z + 1) = (x + y + z) + 1
  /\ \A x, z \in Nat : x + 0 + (z + 1) = x + 1 + z
  /\ \A x \in Nat, z \in Nat \ {0} : x + 0 + z = x + 1 + (z - 1)
OBVIOUS

\* An item goes into a pipe.
LEMMA PushMove ==
  ASSUME NEW n \in Command, NEW R,
         NEW H \in [Command -> 0..Items], NEW P \in [Command -> Seq(1..Items)],
         NEW O \in Seq(1..Items), NEW W, Written(n, R, H, P, O, W),
         NEW i \in Command, i < n, i # 0 => H[i] # 0,
         NEW v \in 1..Items, v = W[i] + 1, R[i] # "ended"
  PROVE  Written(n, R, [H EXCEPT ![i] = IF i = 0 THEN v ELSE 0],
                 [P EXCEPT ![i] = Append(P[i], v)], O, [W EXCEPT ![i] = v])
<1> DEFINE H2 == [H EXCEPT ![i] = IF i = 0 THEN v ELSE 0]
           P2 == [P EXCEPT ![i] = Append(P[i], v)]
           W2 == [W EXCEPT ![i] = v]
<1>0. Items \in Nat /\ Command \subseteq Nat /\ 0 \in Command
  BY PipelineAssumption DEF Command
<1>1. W2 \in [Command -> 0..Items] /\ W2[0] = H2[0]
  <2>1. W \in [Command -> 0..Items] /\ W[0] = H[0]
    BY DEF Written
  <2> QED
    BY <1>0, <2>1
<1>2. ASSUME NEW a \in Command, NEW k \in Command, a = k + 1, a <= n
      PROVE  /\ W2[k] = W2[a] + Ready(H2[a]) + Len(P2[k])
             /\ H2[a] # 0 => H2[a] = W2[a] + 1
             /\ \A j \in 1..Len(P2[k]) : P2[k][j] = W2[a] + Ready(H2[a]) + j
  <2>0. /\ W[k] = W[a] + Ready(H[a]) + Len(P[k])
        /\ H[a] # 0 => H[a] = W[a] + 1
        /\ \A j \in 1..Len(P[k]) : P[k][j] = W[a] + Ready(H[a]) + j
        /\ W[a] \in Nat /\ W[k] \in Nat /\ H[a] \in Nat /\ Len(P[k]) \in Nat
        /\ Ready(H[a]) \in {0, 1}
    <3>1. W \in [Command -> 0..Items]
      BY DEF Written
    <3>2. /\ W[a] \in 0..Items /\ W[k] \in 0..Items /\ H[a] \in 0..Items
          /\ P[k] \in Seq(1..Items)
      BY <3>1
    <3>3. Len(P[k]) \in Nat
      BY <3>2
    <3>4. Ready(H[a]) \in {0, 1}
      BY DEF Ready
    <3> QED
      BY <1>0, <1>2, <3>2, <3>3, <3>4 DEF Written
  <2>1. CASE k = i
    <3>1. a # i /\ H2[a] = H[a] /\ W2[a] = W[a] /\ W2[k] = v /\ P2[k] = Append(P[k], v)
      BY <1>0, <1>2, <2>1 DEF Written
    <3>2. /\ Len(P2[k]) = Len(P[k]) + 1 /\ P2[k][Len(P[k]) + 1] = v
          /\ \A j \in 1..Len(P[k]) : P2[k][j] = P[k][j]
      BY <3>1
    <3>3. v = W[a] + Ready(H[a]) + (Len(P[k]) + 1)
      <4>1. v = W[k] + 1
        BY <2>1
      <4>2. W[a] \in Nat /\ Ready(H[a]) \in Nat /\ Len(P[k]) \in Nat
        BY <2>0
      <4>3. W[a] + Ready(H[a]) + (Len(P[k]) + 1) = (W[a] + Ready(H[a]) + Len(P[k])) + 1
        BY <4>2, Sums
      <4> QED
        BY <2>0, <4>1, <4>3
    <3>4. ASSUME NEW j \in 1..Len(P2[k])
          PROVE  P2[k][j] = W2[a] + Ready(H2[a]) + j
      <4>1. j \in 1..Len(P[k]) \/ j = Len(P[k]) + 1
        BY <2>0, <3>2, <3>4
      <4> QED
        BY <2>0, <3>1, <3>2, <3>3, <4>1
    <3> HIDE DEF H2, P2, W2
    <3> QED
      BY <2>0, <3>1, <3>2, <3>3, <3>4
  <2>2. CASE a = i
    <3>1. /\ k # i /\ i # 0 /\ H2[a] = 0 /\ W2[a] = W[a] + 1 /\ W2[k] = W[k]
          /\ P2[k] = P[k]
      BY <1>0, <1>2, <2>2 DEF Written
    <3>2. Ready(H[a]) = 1 /\ Ready(H2[a]) = 0
      BY <2>2, <3>1 DEF Ready
    <3> HIDE DEF H2, P2, W2
    <3>3. W2[a] + Ready(H2[a]) = W[a] + Ready(H[a])
      BY <2>0, <3>1, <3>2
    <3> QED
      BY <2>0, <3>1, <3>3
  <2>3. CASE k # i /\ a # i
    <3>1. H2[a] = H[a] /\ W2[a] = W[a] /\ W2[k] = W[k] /\ P2[k] = P[k]
      BY <1>2, <2>3 DEF Written
    <3> QED
      BY <2>0, <3>1
  <2> QED
    BY <2>1, <2>2, <2>3
<1>3. W2[n] = Len(O) /\ \A j \in 1..Len(O) : O[j] = j
  BY <1>0 DEF Written
<1>4. \A a \in Command : a <= n /\ R[a] = "ended" => W2[a] = Items
  BY DEF Written
<1> HIDE DEF H2, P2, W2
<1>5. Written(n, R, H2, P2, O, W2)
  BY <1>1, <1>2, <1>3, <1>4 DEF Written
<1> QED
  BY <1>5 DEF H2, P2, W2

\* An item goes to the terminal.
LEMMA PrintMove ==
  ASSUME NEW n \in Command, NEW R,
         NEW H \in [Command -> 0..Items], NEW P \in [Command -> Seq(1..Items)],
         NEW O \in Seq(1..Items), NEW W, Written(n, R, H, P, O, W),
         n # 0 => H[n] # 0,
         NEW v \in 1..Items, v = W[n] + 1, R[n] # "ended"
  PROVE  Written(n, R, [H EXCEPT ![n] = IF n = 0 THEN v ELSE 0], P,
                 Append(O, v), [W EXCEPT ![n] = v])
<1> DEFINE H2 == [H EXCEPT ![n] = IF n = 0 THEN v ELSE 0]
           O2 == Append(O, v)
           W2 == [W EXCEPT ![n] = v]
<1>0. Items \in Nat /\ Command \subseteq Nat /\ 0 \in Command
  BY PipelineAssumption DEF Command
<1>1. W2 \in [Command -> 0..Items] /\ W2[0] = H2[0]
  <2>1. W \in [Command -> 0..Items] /\ W[0] = H[0]
    BY DEF Written
  <2> QED
    BY <1>0, <2>1
<1>2. ASSUME NEW a \in Command, NEW k \in Command, a = k + 1, a <= n
      PROVE  /\ W2[k] = W2[a] + Ready(H2[a]) + Len(P[k])
             /\ H2[a] # 0 => H2[a] = W2[a] + 1
             /\ \A j \in 1..Len(P[k]) : P[k][j] = W2[a] + Ready(H2[a]) + j
  <2>0. /\ W[k] = W[a] + Ready(H[a]) + Len(P[k])
        /\ H[a] # 0 => H[a] = W[a] + 1
        /\ \A j \in 1..Len(P[k]) : P[k][j] = W[a] + Ready(H[a]) + j
        /\ W[a] \in Nat /\ W[k] \in Nat /\ H[a] \in Nat /\ Len(P[k]) \in Nat
        /\ Ready(H[a]) \in {0, 1}
    <3>1. W \in [Command -> 0..Items]
      BY DEF Written
    <3>2. /\ W[a] \in 0..Items /\ W[k] \in 0..Items /\ H[a] \in 0..Items
          /\ P[k] \in Seq(1..Items)
      BY <3>1
    <3>3. Len(P[k]) \in Nat
      BY <3>2
    <3>4. Ready(H[a]) \in {0, 1}
      BY DEF Ready
    <3> QED
      BY <1>0, <1>2, <3>2, <3>3, <3>4 DEF Written
  <2>1. k # n /\ W2[k] = W[k]
    BY <1>0, <1>2 DEF Written
  <2>2. CASE a = n
    <3>1. n # 0 /\ H2[a] = 0 /\ W2[a] = W[a] + 1
      <4>1. n # 0
        BY <1>0, <1>2, <2>2
      <4> QED
        BY <2>2, <4>1 DEF Written
    <3>2. Ready(H[a]) = 1 /\ Ready(H2[a]) = 0
      BY <2>2, <3>1 DEF Ready
    <3> HIDE DEF H2, W2
    <3>3. W2[a] + Ready(H2[a]) = W[a] + Ready(H[a])
      BY <2>0, <3>1, <3>2
    <3> QED
      BY <2>0, <2>1, <3>1, <3>3
  <2>3. CASE a # n
    <3>1. H2[a] = H[a] /\ W2[a] = W[a]
      BY <1>2, <2>3 DEF Written
    <3> QED
      BY <2>0, <2>1, <3>1
  <2> QED
    BY <2>2, <2>3
<1>3. W2[n] = Len(O2) /\ \A j \in 1..Len(O2) : O2[j] = j
  <2>1. /\ Len(O2) = Len(O) + 1 /\ O2[Len(O) + 1] = v
        /\ \A j \in 1..Len(O) : O2[j] = O[j]
    OBVIOUS
  <2>2. W2[n] = v /\ v = Len(O) + 1 /\ \A j \in 1..Len(O) : O[j] = j
    BY DEF Written
  <2>3. \A j \in 1..(Len(O) + 1) : j \in 1..Len(O) \/ j = Len(O) + 1
    OBVIOUS
  <2> HIDE DEF O2, W2
  <2> QED
    BY <2>1, <2>2, <2>3
<1>4. \A a \in Command : a <= n /\ R[a] = "ended" => W2[a] = Items
  BY DEF Written
<1> HIDE DEF H2, O2, W2
<1>5. Written(n, R, H2, P, O2, W2)
  BY <1>1, <1>2, <1>3, <1>4 DEF Written
<1> QED
  BY <1>5 DEF H2, O2, W2

\* A command takes an item out of the pipe before it.
LEMMA TakeMove ==
  ASSUME NEW n \in Command, NEW R,
         NEW H \in [Command -> 0..Items], NEW P \in [Command -> Seq(1..Items)],
         NEW O, NEW W, Written(n, R, H, P, O, W),
         NEW i \in Command, NEW b \in Command, i = b + 1, i <= n, H[i] = 0, P[b] # <<>>
  PROVE  Written(n, R, [H EXCEPT ![i] = Head(P[b])], [P EXCEPT ![b] = Tail(P[b])], O, W)
<1> DEFINE H2 == [H EXCEPT ![i] = Head(P[b])]
           P2 == [P EXCEPT ![b] = Tail(P[b])]
<1>0. Items \in Nat /\ Command \subseteq Nat /\ 0 \in Command
  BY PipelineAssumption DEF Command
<1>1. W \in [Command -> 0..Items] /\ W[0] = H2[0]
  <2>1. W \in [Command -> 0..Items] /\ W[0] = H[0]
    BY DEF Written
  <2> QED
    BY <1>0, <2>1
<1>2. ASSUME NEW a \in Command, NEW k \in Command, a = k + 1, a <= n
      PROVE  /\ W[k] = W[a] + Ready(H2[a]) + Len(P2[k])
             /\ H2[a] # 0 => H2[a] = W[a] + 1
             /\ \A j \in 1..Len(P2[k]) : P2[k][j] = W[a] + Ready(H2[a]) + j
  <2>0. /\ W[k] = W[a] + Ready(H[a]) + Len(P[k])
        /\ H[a] # 0 => H[a] = W[a] + 1
        /\ \A j \in 1..Len(P[k]) : P[k][j] = W[a] + Ready(H[a]) + j
        /\ W[a] \in Nat /\ W[k] \in Nat /\ Len(P[k]) \in Nat
    <3>1. W \in [Command -> 0..Items]
      BY DEF Written
    <3>2. /\ W[a] \in 0..Items /\ W[k] \in 0..Items /\ H[a] \in 0..Items
          /\ P[k] \in Seq(1..Items)
      BY <3>1
    <3>3. Len(P[k]) \in Nat
      BY <3>2
    <3>4. Ready(H[a]) \in {0, 1}
      BY DEF Ready
    <3> QED
      BY <1>0, <1>2, <3>2, <3>3, <3>4 DEF Written
  <2>1. CASE a = i
    <3>0. k = b
      <4>1. k \in Nat /\ b \in Nat /\ k + 1 = b + 1
        BY <1>0, <1>2, <2>1
      <4> QED
        BY <4>1
    <3>1. H2[a] = Head(P[k]) /\ P2[k] = Tail(P[k]) /\ P[k] # <<>> /\ P[k] \in Seq(1..Items)
      BY <2>1, <3>0
    <3>2. /\ Len(P[k]) \in Nat \ {0} /\ Len(P2[k]) = Len(P[k]) - 1
          /\ H2[a] = P[k][1]
          /\ \A j \in 1..Len(P2[k]) : P2[k][j] = P[k][j + 1] /\ j + 1 \in 1..Len(P[k])
      BY <3>1
    <3>3. Ready(H[a]) = 0
      BY <2>1 DEF Ready
    <3> HIDE DEF H2, P2
    <3>4. H2[a] = W[a] + 1
      <4>1. 1 \in 1..Len(P[k])
        BY <3>2
      <4>2. P[k][1] = W[a] + Ready(H[a]) + 1
        BY <2>0, <4>1
      <4> QED
        BY <2>0, <3>2, <3>3, <4>2
    <3>5. Ready(H2[a]) = 1
      <4>1. H2[a] # 0
        BY <2>0, <3>4
      <4> QED
        BY <4>1 DEF Ready
    <3>6. \A j \in 1..Len(P2[k]) : P2[k][j] = W[a] + 1 + j
      <4> SUFFICES ASSUME NEW j \in 1..Len(P2[k]) PROVE P2[k][j] = W[a] + 1 + j
        OBVIOUS
      <4>1. P[k][j + 1] = W[a] + Ready(H[a]) + (j + 1) /\ P2[k][j] = P[k][j + 1]
        BY <2>0, <3>2
      <4>2. j \in Nat /\ W[a] \in Nat
        BY <2>0, <3>2
      <4>3. W[a] + 0 + (j + 1) = W[a] + 1 + j
        BY <4>2, Sums
      <4> QED
        BY <3>3, <4>1, <4>3
    <3>7. W[k] = W[a] + Ready(H2[a]) + Len(P2[k])
      <4>1. W[k] = W[a] + 0 + Len(P[k])
        BY <2>0, <3>3
      <4>2. W[a] + 0 + Len(P[k]) = W[a] + 1 + (Len(P[k]) - 1)
        BY <2>0, <3>2, Sums
      <4> QED
        BY <3>2, <3>5, <4>1, <4>2
    <3> QED
      BY <3>4, <3>5, <3>6, <3>7
  <2>2. CASE a # i
    <3>1. k # b /\ H2[a] = H[a] /\ P2[k] = P[k]
      BY <1>0, <1>2, <2>2
    <3> QED
      BY <2>0, <3>1
  <2> QED
    BY <2>1, <2>2
<1>3. /\ W[n] = Len(O) /\ \A j \in 1..Len(O) : O[j] = j
      /\ \A a \in Command : a <= n /\ R[a] = "ended" => W[a] = Items
  BY DEF Written
<1> HIDE DEF H2, P2
<1>4. Written(n, R, H2, P2, O, W)
  BY <1>1, <1>2, <1>3 DEF Written
<1> QED
  BY <1>4 DEF H2, P2

\* A command that has written all the items ends, or one that has not ended goes on.
LEMMA EndMove ==
  ASSUME NEW n, NEW R, NEW S, NEW H, NEW P, NEW O, NEW W, Written(n, R, H, P, O, W),
         \A i \in Command : i <= n /\ S[i] = "ended" => R[i] = "ended" \/ W[i] = Items
  PROVE  Written(n, S, H, P, O, W)
BY DEF Written

\* No item at all.
LEMMA NoItem ==
  ASSUME NEW n \in Command, NEW R, NEW H, NEW P,
         \A i \in Command : R[i] # "ended" /\ H[i] = 0 /\ P[i] = <<>>
  PROVE  \E W \in [Command -> 0..Items] : Written(n, R, H, P, <<>>, W)
<1> DEFINE W == [i \in Command |-> 0]
<1>1. Items \in Nat /\ 0 \in Command /\ Len(<<>>) = 0 /\ 1..0 = {}
  BY PipelineAssumption DEF Command
<1>2. W \in [Command -> 0..Items] /\ \A i \in Command : W[i] = 0
  BY <1>1
<1> HIDE DEF W
<1>3. \A i \in Command : Ready(H[i]) = 0
  BY DEF Ready
<1>4. Written(n, R, H, P, <<>>, W)
  BY <1>1, <1>2, <1>3 DEF Written
<1> QED
  BY <1>2, <1>4

-----------------------------------------------------------------------------
(* What happens to one line. *)

\* The tables of one line, and its last command.
LEMMA Tables ==
  ASSUME TypeOK, NEW l \in Worker
  PROVE  /\ proc[l] \in [Command -> {"none", "forked", "runs", "ended"}]
         /\ holds[l] \in [Command -> SUBSET Ends]
         /\ hand[l] \in [Command -> 0..Items]
         /\ pipe[l] \in [Command -> Seq(1..Items)]
         /\ out[l] \in Seq(1..Items)
         /\ Count(l) \in 0..Width /\ step[l] \in 0..Width
         /\ Count(l) > 0 => Last(l) \in Command
         /\ \A i \in Command : i \in Nat /\ (i <= Last(l) <=> i < Count(l))
<1>1. /\ proc[l] \in [Command -> {"none", "forked", "runs", "ended"}]
      /\ holds[l] \in [Command -> SUBSET Ends]
      /\ hand[l] \in [Command -> 0..Items]
      /\ pipe[l] \in [Command -> Seq(1..Items)]
      /\ out[l] \in Seq(1..Items) /\ step[l] \in 0..Width
  BY DEF TypeOK
<1>2. Count(l) \in 0..Width
  BY TextType DEF TypeOK, Count
<1>3. Count(l) > 0 => Last(l) \in Command
  BY <1>2, PipelineAssumption DEF Last, Command
<1>4. \A i \in Command : i \in Nat /\ (i <= Last(l) <=> i < Count(l))
  BY <1>2, PipelineAssumption DEF Last, Command
<1> QED
  BY <1>1, <1>2, <1>3, <1>4

\* Nothing of a line changes but, perhaps, where its worker is.
Untouched(l) ==
  /\ line'[l] = line[l] /\ step'[l] = step[l] /\ held'[l] = held[l]
  /\ proc'[l] = proc[l] /\ holds'[l] = holds[l]
  /\ hand'[l] = hand[l] /\ pipe'[l] = pipe[l] /\ out'[l] = out[l]

\* What is said of a line that does not change.
LEMMA WholeStays ==
  ASSUME NEW l \in Worker, line'[l] = line[l]
  PROVE  /\ Count(l)' = Count(l) /\ Last(l)' = Last(l)
         /\ Whole(l)' <=> Whole(l)
BY DEF Count, Last, Whole, KindOf

\* Flow after a step that leaves the line as it is.
LEMMA FlowNext ==
  ASSUME NEW l \in Worker, line'[l] = line[l],
         Whole(l) => \E W \in [Command -> 0..Items] :
                       Written(Last(l), proc'[l], hand'[l], pipe'[l], out'[l], W)
  PROVE  Flow(l)'
BY WholeStays DEF Flow

\* A line that nobody touches stays in order; its worker may have been forked.
LEMMA UntouchedLoss ==
  ASSUME NEW l \in Worker, Loss(l), Untouched(l),
         \/ worker'[l] = worker[l]
         \/ worker[l] = "none" /\ worker'[l] = "length"
  PROVE  Loss(l)'
<1>1. CASE worker[l] \in {"none", "length", "text", "read", "split"}
  BY <1>1 DEF Loss, Untried, Untouched
<1>2. CASE worker[l] \in {"fork", "close", "ended"}
  <2>1. Kept(l)'
    <3>1. Count(l)' = Count(l) /\ Last(l)' = Last(l) /\ worker'[l] = worker[l]
      BY <1>2, WholeStays DEF Untouched
    <3> QED
      BY <1>2, <3>1 DEF Loss, Kept, Forked, Untouched
  <2>2. Flow(l)'
    BY <1>2, FlowNext DEF Loss, Flow, Untouched
  <2>3. worker'[l] = worker[l]
    BY <1>2
  <2> QED
    BY <1>2, <2>1, <2>2, <2>3 DEF Loss
<1>3. CASE worker[l] \notin {"none", "length", "text", "read", "split", "fork", "close", "ended"}
  BY <1>3 DEF Loss
<1> QED
  BY <1>1, <1>2, <1>3

\* A step of another worker or of the commands of another line.
LEMMA OtherLine ==
  ASSUME TypeOK, Control, NEW l \in Worker, NEW m \in Worker, m # l,
         \/ WorkerStep(m) \/ CallFails(m)
         \/ \E i \in Command : CommandStep(m, i)
  PROVE  /\ Untouched(l)
         /\ \/ worker'[l] = worker[l]
            \/ worker[l] = "none" /\ worker'[l] = "length"
<1> USE DEF mainVars, workerVars, commandVars
<1>0. /\ worker \in [Worker -> {"none", "length", "text", "read", "split", "fork",
                                "close", "ended", "aborted"}]
      /\ line \in [Worker -> Text] /\ step \in [Worker -> 0..Width]
      /\ held \in [Worker -> SUBSET Ends]
      /\ proc \in [Worker -> [Command -> {"none", "forked", "runs", "ended"}]]
      /\ holds \in [Worker -> [Command -> SUBSET Ends]]
      /\ hand \in [Worker -> [Command -> 0..Items]]
      /\ pipe \in [Worker -> [Command -> Seq(1..Items)]]
      /\ out \in [Worker -> Seq(1..Items)]
  BY DEF TypeOK
<1>w. \A w \in Worker : w \in Nat
  BY PipelineAssumption DEF Worker
<1>1. CASE ForkNext(m)
  <2>1. m + 1 = l => worker[l] = "none"
    BY <1>0, <1>w, <1>1 DEF ForkNext, Control
  <2> QED
    BY <1>0, <1>w, <1>1, <2>1 DEF ForkNext, Untouched
<1>2. CASE ReadLength(m) \/ ReadText(m) \/ Crash(m)
  BY <1>0, <1>2 DEF ReadLength, ReadText, Crash, Untouched
<1>3. CASE BecomeCommand(m) \/ MakePipes(m) \/ Fork(m)
  BY <1>0, <1>3 DEF BecomeCommand, MakePipes, Fork, Untouched
<1>4. CASE Close(m) \/ CallFails(m)
  BY <1>0, <1>4 DEF Close, CallFails, Untouched
<1>5. ASSUME NEW i \in Command, CommandStep(m, i)
      PROVE  Untouched(l) /\ worker'[l] = worker[l]
  <2>1. CASE Exec(m, i)
    BY <1>0, <2>1 DEF Exec, End, Untouched
  <2>2. CASE Generate(m, i)
    BY <1>0, <2>2 DEF Generate, Put, Untouched
  <2>3. CASE Take(m, i)
    BY <1>0, <2>3 DEF Take, Untouched
  <2>4. CASE Give(m, i)
    BY <1>0, <2>4 DEF Give, Put, End, Untouched
  <2>5. CASE EndOfFile(m, i) \/ Finish(m, i) \/ SigPipe(m, i)
    BY <1>0, <2>5 DEF EndOfFile, Finish, SigPipe, End, Untouched
  <2> QED
    BY <1>5, <2>1, <2>2, <2>3, <2>4, <2>5 DEF CommandStep
<1> QED
  BY <1>1, <1>2, <1>3, <1>4, <1>5 DEF WorkerStep

\* The worker's own steps.
LEMMA OwnWorker ==
  ASSUME TypeOK, Control, NEW l \in Worker, Loss(l), WorkerStep(l) \/ CallFails(l)
  PROVE  Loss(l)'
<1> USE DEF mainVars, workerVars, commandVars
<1>0. /\ worker \in [Worker -> {"none", "length", "text", "read", "split", "fork",
                                "close", "ended", "aborted"}]
      /\ line \in [Worker -> Text] /\ step \in [Worker -> 0..Width]
      /\ held \in [Worker -> SUBSET Ends]
      /\ proc \in [Worker -> [Command -> {"none", "forked", "runs", "ended"}]]
      /\ holds \in [Worker -> [Command -> SUBSET Ends]]
      /\ l \in Nat /\ 0 \in Command /\ Command \subseteq Nat
  <2>1. l \in Nat /\ 0 \in Command /\ Command \subseteq Nat
    BY PipelineAssumption DEF Worker, Command
  <2> QED
    BY <2>1 DEF TypeOK
<1>t. /\ Count(l) \in 0..Width /\ step[l] \in 0..Width
      /\ Count(l) > 0 => Last(l) \in Command
      /\ \A i \in Command : i \in Nat /\ (i <= Last(l) <=> i < Count(l))
  BY Tables
<1>1. CASE ReadLength(l)
  <2>1. /\ worker[l] = "length" /\ worker'[l] \in {"text", "ended"} /\ Untouched(l)
        /\ Untried(l) /\ line[l] = <<>>
    BY <1>0, <1>1 DEF ReadLength, Loss, Untouched, Untried
  <2>2. Count(l)' = 0 /\ Last(l)' = 0 - 1 /\ ~Whole(l)'
    BY <2>1, WholeStays DEF Untouched, Count, Last, Whole
  <2>3. worker'[l] = "ended" => Kept(l)'
    <3>1. \A k \in Command : ~(k < 0 - 1) /\ 0 <= k
      BY <1>0
    <3>2. \A i \in Command : proc'[l][i] = "none"
      BY <2>1 DEF Untouched, Untried
    <3> QED
      BY <2>2, <3>1, <3>2 DEF Kept, Forked
  <2> QED
    BY <2>1, <2>2, <2>3 DEF Loss, Flow, Untried, Untouched
<1>2. CASE ReadText(l)
  BY <1>0, <1>2 DEF ReadText, Loss, Untried
<1>3. CASE ForkNext(l)
  BY <1>0, <1>3 DEF ForkNext, Loss, Untried
<1>4. CASE Crash(l) \/ CallFails(l)
  BY <1>0, <1>4 DEF Crash, CallFails, Loss
<1>5. CASE BecomeCommand(l)
  <2>1. /\ Untried(l) /\ Count(l) = 1 /\ worker'[l] = "ended" /\ line'[l] = line[l]
        /\ proc'[l] = [proc[l] EXCEPT ![0] = "forked"]
        /\ hand'[l] = hand[l] /\ pipe'[l] = pipe[l] /\ out'[l] = out[l]
    BY <1>0, <1>5 DEF BecomeCommand, Loss
  <2>2. Last(l) = 0 /\ Count(l)' = 1 /\ Last(l)' = 0
    BY <2>1, WholeStays DEF Last
  <2>3. \A i \in Command : proc'[l][i] = "none" <=> i # 0
    BY <1>0, <2>1, Tables DEF Untried
  <2>4. Kept(l)'
    BY <1>0, <2>1, <2>2, <2>3 DEF Kept, Forked
  <2>5. Flow(l)'
    <3>1. \A i \in Command :
            proc'[l][i] # "ended" /\ hand'[l][i] = 0 /\ pipe'[l][i] = <<>>
      BY <1>0, <2>1, Tables DEF Untried
    <3>2. \E W \in [Command -> 0..Items] :
            Written(Last(l), proc'[l], hand'[l], pipe'[l], <<>>, W)
      BY <1>0, <2>2, <3>1, NoItem
    <3> QED
      BY <2>1, <3>2, FlowNext DEF Untried
  <2> QED
    BY <2>1, <2>4, <2>5 DEF Loss
<1>6. CASE MakePipes(l)
  <2>1. /\ Untried(l) /\ Count(l) > 1 /\ worker'[l] = "fork"
        /\ line'[l] = line[l] /\ step'[l] = 0 /\ held'[l] = PipesOf(l)
        /\ proc'[l] = proc[l] /\ hand'[l] = hand[l] /\ pipe'[l] = pipe[l]
        /\ out'[l] = out[l]
    BY <1>0, <1>6 DEF MakePipes, Loss, Control
  <2>2. Count(l)' = Count(l) /\ Last(l)' = Last(l)
    BY <2>1, WholeStays
  <2>3. \A k \in Command : k < Last(l) => Both(k) \subseteq PipesOf(l)
    BY DEF Both, PipesOf
  <2>4. Kept(l)'
    <3>1. Forked(l)' = 0
      BY <2>1 DEF Forked
    <3>2. \A i \in Command : proc'[l][i] = "none"
      BY <2>1 DEF Untried
    <3>3. \A i \in Command : 0 <= i
      BY DEF Command
    <3> QED
      BY <2>1, <2>2, <2>3, <3>1, <3>2, <3>3 DEF Kept
  <2>5. Flow(l)'
    <3>1. \A i \in Command :
            proc'[l][i] # "ended" /\ hand'[l][i] = 0 /\ pipe'[l][i] = <<>>
      BY <2>1 DEF Untried
    <3>2. \E W \in [Command -> 0..Items] :
            Written(Last(l), proc'[l], hand'[l], pipe'[l], <<>>, W)
      <4>1. Last(l) \in Command
        BY <1>t, <2>1
      <4> QED
        BY <3>1, <4>1, NoItem
    <3> QED
      BY <2>1, <3>2, FlowNext DEF Untried
  <2> QED
    BY <2>1, <2>4, <2>5 DEF Loss
<1>7. CASE Fork(l)
  <2> DEFINE s == step[l]
  <2>1. /\ worker[l] = "fork" /\ Kept(l) /\ Flow(l)
        /\ s \in Nat /\ s < Count(l) /\ 2 <= Count(l) /\ s \in Command
        /\ worker'[l] = (IF s = 0 THEN "fork" ELSE "close")
        /\ line'[l] = line[l] /\ step'[l] = s + 1 /\ held'[l] = held[l]
        /\ proc'[l] = [proc[l] EXCEPT ![s] = "forked"]
        /\ holds'[l] = [holds[l] EXCEPT ![s] = held[l]]
        /\ hand'[l] = hand[l] /\ pipe'[l] = pipe[l] /\ out'[l] = out[l]
    BY <1>0, <1>t, <1>7, PipelineAssumption DEF Fork, Loss, Control, Command
  <2>2. Count(l)' = Count(l) /\ Last(l)' = Last(l)
    BY <2>1, WholeStays
  <2>3. /\ proc'[l][s] = "forked" /\ holds'[l][s] = held[l]
        /\ \A i \in Command \ {s} : proc'[l][i] = proc[l][i] /\ holds'[l][i] = holds[l][i]
    BY <2>1, Tables
  <2> HIDE DEF s
  <2>4. \A i \in Command : proc'[l][i] = "none" <=> s + 1 <= i
    <3>1. \A i \in Command : proc[l][i] = "none" <=> s <= i
      BY <2>1 DEF Kept, Forked, s
    <3> QED
      BY <1>0, <2>1, <2>3, <3>1
  <2>5. ASSUME NEW k \in Command, k < Last(l)
        PROVE  /\ s + 1 <= k + 1 => Both(k) \subseteq held[l]
               /\ s # 0 /\ s + 1 <= k + 2 => Both(k) \subseteq held[l]
               /\ \A i \in Command :
                    proc'[l][i] = "forked" /\ i <= k + 1 => Both(k) \subseteq holds'[l][i]
               /\ proc'[l][k] = "runs" => <<k, "out">> \in holds'[l][k]
               /\ \A i \in Command :
                    i = k + 1 /\ proc'[l][i] = "runs" => <<k, "in">> \in holds'[l][i]
    <3>1. /\ s <= k + 1 => Both(k) \subseteq held[l]
          /\ \A i \in Command :
               proc[l][i] = "forked" /\ i <= k + 1 => Both(k) \subseteq holds[l][i]
          /\ proc[l][k] = "runs" => <<k, "out">> \in holds[l][k]
          /\ \A i \in Command :
               i = k + 1 /\ proc[l][i] = "runs" => <<k, "in">> \in holds[l][i]
      BY <2>1, <2>5 DEF Kept, s
    <3>2. k \in Nat
      BY <1>0
    <3> QED
      BY <2>1, <2>3, <3>1, <3>2
  <2>6. Kept(l)'
    <3>1. Forked(l)' = s + 1
      BY <2>1 DEF Forked
    <3> QED
      BY <2>1, <2>2, <2>4, <2>5, <3>1 DEF Kept
  <2>7. Flow(l)'
    <3>1. \A i \in Command : proc'[l][i] = "ended" => proc[l][i] = "ended"
      BY <2>3
    <3>2. ASSUME NEW W \in [Command -> 0..Items],
                 Written(Last(l), proc[l], hand[l], pipe[l], out[l], W)
          PROVE  Written(Last(l), proc'[l], hand'[l], pipe'[l], out'[l], W)
      <4>1. \A i \in Command : i <= Last(l) /\ proc'[l][i] = "ended"
              => proc[l][i] = "ended" \/ W[i] = Items
        BY <3>1
      <4>2. Written(Last(l), proc'[l], hand[l], pipe[l], out[l], W)
        BY <3>2, <4>1, EndMove
      <4> QED
        BY <2>1, <4>2
    <3> QED
      BY <2>1, <3>2, FlowNext DEF Flow
  <2> QED
    BY <2>1, <2>6, <2>7 DEF Loss
<1>8. CASE Close(l)
  <2> DEFINE s == step[l]
  <2>1. /\ worker[l] = "close" /\ Kept(l) /\ Flow(l)
        /\ s \in Nat /\ s <= Count(l) /\ 2 <= s
        /\ worker'[l] = (IF s = Count(l) THEN "ended" ELSE "fork")
        /\ line'[l] = line[l] /\ step'[l] = s /\ held'[l] = held[l] \ Both(s - 2)
        /\ proc'[l] = proc[l] /\ holds'[l] = holds[l]
        /\ hand'[l] = hand[l] /\ pipe'[l] = pipe[l] /\ out'[l] = out[l]
    BY <1>0, <1>t, <1>8 DEF Close, Loss, Control
  <2>2. Count(l)' = Count(l) /\ Last(l)' = Last(l)
    BY <2>1, WholeStays
  <2>3. Forked(l)' = s /\ Forked(l) = s
    BY <2>1, <2>2 DEF Forked
  <2>4. ASSUME NEW k \in Command, k < Last(l), s <= k + 1
        PROVE  Both(k) \subseteq held'[l]
    <3>1. s <= k + 2 /\ k # s - 2
      BY <1>0, <2>1, <2>4
    <3>2. Both(k) \subseteq held[l]
      BY <2>1, <2>4, <3>1 DEF Kept
    <3>3. Both(k) \cap Both(s - 2) = {}
      BY <3>1 DEF Both
    <3> QED
      BY <2>1, <3>2, <3>3
  <2>5. Kept(l)'
    BY <2>1, <2>2, <2>3, <2>4 DEF Kept
  <2>6. Flow(l)'
    BY <2>1, FlowNext DEF Flow
  <2> QED
    BY <2>1, <2>5, <2>6 DEF Loss
<1> QED
  BY <1>1, <1>2, <1>3, <1>4, <1>5, <1>6, <1>7, <1>8 DEF WorkerStep

\* A command that has been forked is a command of its line.
LEMMA ForkedCommand ==
  ASSUME TypeOK, Control, NEW l \in Worker, Loss(l), NEW i \in Command,
         proc[l][i] # "none"
  PROVE  /\ worker[l] \in {"fork", "close", "ended"} => i <= Last(l) /\ i < Forked(l)
         /\ worker[l] \in {"fork", "close", "ended", "aborted"}
<1>1. worker[l] \in {"fork", "close", "ended", "aborted"}
  BY DEF TypeOK, Loss, Untried
<1>2. /\ Count(l) \in Nat /\ step[l] \in Nat /\ i \in Nat
      /\ i <= Last(l) <=> i < Count(l)
  BY Tables
<1>3. Forked(l) \in Nat /\ (worker[l] \in {"fork", "close", "ended"} => Forked(l) <= Count(l))
  BY <1>2 DEF Forked, Control
<1>4. worker[l] \in {"fork", "close", "ended"} => i < Forked(l)
  BY <1>2, <1>3 DEF Loss, Kept
<1> QED
  BY <1>1, <1>2, <1>3, <1>4

\* The commands of a whole line.
LEMMA WholeKinds ==
  ASSUME TypeOK, NEW l \in Worker, Whole(l), NEW i \in Command, i <= Last(l)
  PROVE  KindOf(l, i) = IF i = 0 THEN "gen" ELSE "pass"
<1>1. i # 0 => i \in 1..Last(l)
  <2>1. i \in Nat /\ Count(l) \in Nat
    BY Tables
  <2> QED
    BY <2>1 DEF Last
<1> QED
  BY <1>1 DEF Whole

\* The ends of pipes stay where they are when a command ends, and Exec closes none that
\* its command needs.
LEMMA KeptNext ==
  ASSUME TypeOK, NEW l \in Worker, NEW i \in Command, Kept(l), proc[l][i] # "none",
         worker'[l] = worker[l], line'[l] = line[l], step'[l] = step[l], held'[l] = held[l],
         \/ UNCHANGED <<proc, holds>>
         \/ End(l, i)
         \/ /\ proc[l][i] = "forked"
            /\ proc' = [proc EXCEPT ![l][i] = "runs"]
            /\ holds' = [holds EXCEPT ![l][i] = @ \ Closed(i)]
  PROVE  Kept(l)'
<1>1. /\ Count(l)' = Count(l) /\ Last(l)' = Last(l) /\ Forked(l)' = Forked(l)
  BY WholeStays DEF Forked
<1>2. /\ proc \in [Worker -> [Command -> {"none", "forked", "runs", "ended"}]]
      /\ holds \in [Worker -> [Command -> SUBSET Ends]]
  BY DEF TypeOK
<1>3. CASE UNCHANGED <<proc, holds>>
  BY <1>1, <1>3 DEF Kept
<1>4. CASE End(l, i)
  <2>1. /\ proc'[l][i] = "ended"
        /\ \A j \in Command \ {i} : proc'[l][j] = proc[l][j] /\ holds'[l][j] = holds[l][j]
    BY <1>2, <1>4 DEF End
  <2> QED
    BY <1>1, <2>1 DEF Kept
<1>5. CASE /\ proc[l][i] = "forked"
           /\ proc' = [proc EXCEPT ![l][i] = "runs"]
           /\ holds' = [holds EXCEPT ![l][i] = @ \ Closed(i)]
  <2>1. /\ proc'[l][i] = "runs" /\ holds'[l][i] = holds[l][i] \ Closed(i)
        /\ \A j \in Command \ {i} : proc'[l][j] = proc[l][j] /\ holds'[l][j] = holds[l][j]
    BY <1>2, <1>5
  <2>2. \A j \in Command : proc'[l][j] = "none" <=> proc[l][j] = "none"
    BY <1>5, <2>1
  <2>3. ASSUME NEW k \in Command, k < Last(l)
        PROVE  /\ proc'[l][k] = "runs" => <<k, "out">> \in holds'[l][k]
               /\ \A j \in Command :
                    j = k + 1 /\ proc'[l][j] = "runs" => <<k, "in">> \in holds'[l][j]
    <3>1. k \in Nat /\ i \in Nat
      BY Tables
    <3>2. /\ \A j \in Command :
               proc[l][j] = "forked" /\ j <= k + 1 => Both(k) \subseteq holds[l][j]
          /\ proc[l][k] = "runs" => <<k, "out">> \in holds[l][k]
          /\ \A j \in Command :
               j = k + 1 /\ proc[l][j] = "runs" => <<k, "in">> \in holds[l][j]
      BY <2>3 DEF Kept
    <3>3. i = k => <<k, "out">> \in holds[l][i] \ Closed(i)
      <4>1. i = k => <<k, "out">> \in holds[l][i]
        BY <1>5, <3>1, <3>2 DEF Both
      <4>2. i = k => k # i - 1
        BY <3>1
      <4> QED
        BY <4>1, <4>2 DEF Closed
    <3>4. i = k + 1 => <<k, "in">> \in holds[l][i] \ Closed(i)
      <4>1. i = k + 1 => <<k, "in">> \in holds[l][i]
        BY <1>5, <3>1, <3>2 DEF Both
      <4>2. i = k + 1 => k # i
        BY <3>1
      <4> QED
        BY <4>1, <4>2 DEF Closed
    <3> QED
      BY <2>1, <3>2, <3>3, <3>4
  <2>4. \A k, j \in Command : k < Last(l) /\ proc'[l][j] = "forked" /\ j <= k + 1
           => Both(k) \subseteq holds'[l][j]
    BY <2>1 DEF Kept
  <2> QED
    BY <1>1, <2>2, <2>3, <2>4 DEF Kept
<1> QED
  BY <1>3, <1>4, <1>5

\* A command that reads the end of its input has had all of it.
LEMMA EndIsReal ==
  ASSUME TypeOK, Control, NEW l \in Worker, Loss(l),
         worker[l] \in {"fork", "close", "ended"}, NEW i \in Command, EndOfFile(l, i),
         NEW W, Written(Last(l), proc[l], hand[l], pipe[l], out[l], W)
  PROVE  W[i] = Items
<1>1. /\ proc[l][i] = "runs" /\ hand[l][i] = 0 /\ i > 0
      /\ pipe[l][i - 1] = <<>> /\ ~HeldIn(l, <<i - 1, "out">>)
  BY DEF EndOfFile, Runs
<1>2. i <= Last(l) /\ i < Forked(l) /\ Kept(l)
  BY <1>1, ForkedCommand DEF Loss
<1>3. PICK k \in Command : i = k + 1 /\ k = i - 1
  BY <1>1, PipelineAssumption DEF Command
<1>4. i \in Nat /\ k \in Nat /\ Last(l) \in Int /\ Forked(l) \in Nat
  BY Tables DEF Last, Forked
<1>5. k < Last(l) /\ ~(Forked(l) <= k)
  BY <1>2, <1>3, <1>4
<1>6. proc[l][k] = "ended"
  <2>1. <<k, "out">> \notin holds[l][k]
    BY <1>1, <1>3 DEF HeldIn
  <2>2. proc[l][k] # "none"
    BY <1>2, <1>5 DEF Kept
  <2>3. proc[l][k] # "runs"
    BY <1>2, <1>5, <2>1 DEF Kept
  <2>4. proc[l][k] # "forked"
    <3>1. <<k, "out">> \in Both(k) /\ k <= k + 1
      BY <1>4 DEF Both
    <3> QED
      BY <1>2, <1>5, <2>1, <3>1 DEF Kept
  <2> QED
    BY <2>2, <2>3, <2>4, Tables
<1>7. W[k] = Items
  <2>1. k <= Last(l)
    BY <1>4, <1>5
  <2> QED
    BY <1>6, <2>1 DEF Written
<1>8. W[k] = W[i] + Ready(hand[l][i]) + Len(pipe[l][k])
  BY <1>2, <1>3 DEF Written
<1>9. Ready(hand[l][i]) = 0 /\ Len(pipe[l][k]) = 0 /\ W[i] \in 0..Items
  BY <1>1, <1>3, EmptySeq DEF Ready, Written
<1> QED
  BY <1>7, <1>8, <1>9, PipelineAssumption

\* Nobody writes to a pipe that is no longer read.
LEMMA NoSigPipe ==
  ASSUME TypeOK, Control, NEW l \in Worker, Loss(l), Whole(l),
         worker[l] \in {"fork", "close", "ended"}, NEW i \in Command, SigPipe(l, i),
         NEW W, Written(Last(l), proc[l], hand[l], pipe[l], out[l], W)
  PROVE  FALSE
<1>1. /\ proc[l][i] = "runs" /\ i # Last(l) /\ ~HeldIn(l, <<i, "in">>)
      /\ \/ KindOf(l, i) = "gen" /\ hand[l][i] < Items
         \/ KindOf(l, i) \in {"pass", "head"} /\ hand[l][i] # 0
  BY DEF SigPipe
<1>2. i <= Last(l) /\ i < Forked(l) /\ Kept(l)
  BY <1>1, ForkedCommand DEF Loss
<1>3. /\ i \in Nat /\ Count(l) \in 0..Width /\ Last(l) = Count(l) - 1
      /\ hand[l][i] \in 0..Items
  BY Tables DEF Last
<1>4. i < Last(l) /\ i + 1 < Count(l) /\ i <= i + 1
  BY <1>1, <1>2, <1>3
<1>5. PICK j \in Command : j = i + 1
  BY <1>3, <1>4, PipelineAssumption DEF Command
<1>6. <<i, "in">> \in Both(i) /\ <<i, "in">> \notin held[l] /\ <<i, "in">> \notin holds[l][j]
  BY <1>1 DEF Both, HeldIn
<1>7. proc[l][j] = "ended"
  <2>1. proc[l][j] # "none"
    <3>1. SUFFICES ASSUME Forked(l) <= j PROVE FALSE
      BY <1>2 DEF Kept
    <3>2. CASE worker[l] = "fork"
      BY <1>2, <1>4, <1>5, <1>6, <3>1, <3>2 DEF Kept, Forked
    <3>3. CASE worker[l] = "close"
      <4>1. step[l] \in Nat /\ step[l] <= i + 1
        BY <1>5, <3>1, <3>3, Tables DEF Forked
      <4>2. step[l] <= i + 2
        BY <1>3, <4>1
      <4> QED
        BY <1>2, <1>4, <1>6, <3>3, <4>2 DEF Kept
    <3>4. CASE worker[l] = "ended"
      <4>1. Count(l) <= i + 1
        BY <1>5, <3>1, <3>4 DEF Forked
      <4> QED
        BY <1>3, <1>4, <4>1
    <3> QED
      BY <3>2, <3>3, <3>4
  <2>2. proc[l][j] # "forked"
    <3>1. j <= i + 1
      BY <1>3, <1>5
    <3> QED
      BY <1>2, <1>4, <1>6, <3>1 DEF Kept
  <2>3. proc[l][j] # "runs"
    BY <1>2, <1>4, <1>5, <1>6 DEF Kept
  <2> QED
    BY <2>1, <2>2, <2>3, Tables
<1>8. j <= Last(l)
  BY <1>3, <1>4, <1>5
<1>9. /\ W[j] = Items /\ W[i] \in 0..Items /\ Items \in Nat
      /\ W[i] = W[j] + Ready(hand[l][j]) + Len(pipe[l][i])
      /\ Ready(hand[l][j]) \in Nat
  BY <1>5, <1>7, <1>8, PipelineAssumption DEF Written, Ready
<1>10. Len(pipe[l][i]) \in Nat
  BY Tables
<1>11. W[i] = Items
  BY <1>9, <1>10
<1>12. CASE i = 0
  <2>1. hand[l][i] = Items
    BY <1>11, <1>12 DEF Written
  <2> QED
    BY <1>1, <1>2, <1>9, <1>12, <2>1, WholeKinds
<1>13. CASE i # 0
  <2>1. hand[l][i] # 0
    BY <1>1, <1>2, <1>13, WholeKinds
  <2>2. PICK k \in Command : i = k + 1
    BY <1>3, <1>13, PipelineAssumption DEF Command
  <2>3. hand[l][i] = W[i] + 1
    BY <1>2, <2>1, <2>2 DEF Written
  <2> QED
    BY <1>3, <1>9, <1>11, <2>3
<1> QED
  BY <1>12, <1>13

\* A write of a whole line: the item is the next one of its command.
LEMMA WriteMove ==
  ASSUME TypeOK, NEW l \in Worker, NEW i \in Command, i <= Last(l),
         NEW W, Written(Last(l), proc[l], hand[l], pipe[l], out[l], W),
         NEW v \in 1..Items, v = W[i] + 1, Put(l, i, v), proc[l][i] = "runs",
         i # 0 => hand[l][i] # 0,
         proc' = proc, hand' = [hand EXCEPT ![l][i] = IF i = 0 THEN v ELSE 0]
  PROVE  \E X \in [Command -> 0..Items] :
           Written(Last(l), proc'[l], hand'[l], pipe'[l], out'[l], X)
<1> DEFINE X == [W EXCEPT ![i] = v]
<1>1. /\ i \in Nat /\ hand[l] \in [Command -> 0..Items] /\ out[l] \in Seq(1..Items)
      /\ pipe[l] \in [Command -> Seq(1..Items)]
      /\ hand'[l] = [hand[l] EXCEPT ![i] = IF i = 0 THEN v ELSE 0] /\ proc'[l] = proc[l]
  BY Tables DEF TypeOK
<1>2. Last(l) \in Command
  <2>1. Count(l) > 0
    <3>1. Count(l) \in 0..Width /\ i < Count(l)
      BY Tables
    <3> QED
      BY <1>1, <3>1
  <2> QED
    BY <2>1, Tables
<1>3. X \in [Command -> 0..Items]
  <2>1. W \in [Command -> 0..Items] /\ v \in 0..Items
    BY PipelineAssumption DEF Written
  <2> QED
    BY <2>1
<1>4. CASE i = Last(l)
  <2>1. out'[l] = Append(out[l], v) /\ pipe'[l] = pipe[l]
    BY <1>4 DEF Put, TypeOK
  <2>2. Written(Last(l), proc[l],
                [hand[l] EXCEPT ![Last(l)] = IF Last(l) = 0 THEN v ELSE 0], pipe[l],
                Append(out[l], v), [W EXCEPT ![Last(l)] = v])
    BY <1>1, <1>2, <1>4, PrintMove
  <2>3. Written(Last(l), proc'[l], hand'[l], pipe'[l], out'[l], X)
    BY <1>1, <1>4, <2>1, <2>2
  <2> HIDE DEF X
  <2> QED
    BY <1>3, <2>3
<1>5. CASE i # Last(l)
  <2>1. i < Last(l)
    BY <1>1, <1>2, <1>5, PipelineAssumption DEF Command
  <2>2. pipe'[l] = [pipe[l] EXCEPT ![i] = Append(pipe[l][i], v)] /\ out'[l] = out[l]
    BY <1>5 DEF Put, TypeOK
  <2>3. Written(Last(l), proc[l], [hand[l] EXCEPT ![i] = IF i = 0 THEN v ELSE 0],
                [pipe[l] EXCEPT ![i] = Append(pipe[l][i], v)], out[l], X)
    BY <1>1, <1>2, <2>1, PushMove
  <2>4. Written(Last(l), proc'[l], hand'[l], pipe'[l], out'[l], X)
    BY <1>1, <2>2, <2>3
  <2> HIDE DEF X
  <2> QED
    BY <1>3, <2>4
<1> QED
  BY <1>4, <1>5

\* A command of a whole line does not change what it and the others have written but by
\* writing the next item, and ends when it has written them all.
LEMMA OwnFlow ==
  ASSUME TypeOK, Control, NEW l \in Worker, Loss(l), NEW i \in Command,
         worker[l] \in {"fork", "close", "ended"}, CommandStep(l, i),
         Whole(l), i <= Last(l), i < Forked(l)
  PROVE  \E X \in [Command -> 0..Items] :
           Written(Last(l), proc'[l], hand'[l], pipe'[l], out'[l], X)
<1>0. PICK W \in [Command -> 0..Items] :
        Written(Last(l), proc[l], hand[l], pipe[l], out[l], W)
  BY DEF Loss, Flow
<1>1. /\ i \in Nat /\ W[i] \in 0..Items /\ Items \in Nat
      /\ hand[l] \in [Command -> 0..Items] /\ out[l] \in Seq(1..Items)
      /\ pipe[l] \in [Command -> Seq(1..Items)]
      /\ KindOf(l, i) = (IF i = 0 THEN "gen" ELSE "pass")
  BY Tables, WholeKinds, PipelineAssumption
<1>2. i # 0 => \E k \in Command : i = k + 1
  <2>1. i # 0 => i - 1 \in Command /\ i = (i - 1) + 1
    BY PipelineAssumption DEF Command
  <2> QED
    BY <2>1
<1>3. ASSUME End(l, i) \/ (proc' = [proc EXCEPT ![l][i] = "runs"]),
             UNCHANGED <<hand, pipe, out>>, End(l, i) => W[i] = Items
      PROVE  Written(Last(l), proc'[l], hand'[l], pipe'[l], out'[l], W)
  <2>1. \A j \in Command : j <= Last(l) /\ proc'[l][j] = "ended"
          => proc[l][j] = "ended" \/ W[j] = Items
    BY <1>3 DEF End, TypeOK
  <2>2. Written(Last(l), proc'[l], hand[l], pipe[l], out[l], W)
    BY <1>0, <2>1, EndMove
  <2> QED
    BY <1>3, <2>2
<1>4. CASE Exec(l, i)
  <2>1. Needed(l, i) \subseteq holds[l][i]
    <3>1. proc[l][i] = "forked" /\ Kept(l)
      BY <1>4 DEF Exec, Loss
    <3>2. ASSUME NEW k \in {i - 1} \cap Command
          PROVE  <<k, "in">> \in holds[l][i]
      <4>1. k \in Nat /\ k < Last(l) /\ i <= k + 1
        <5>1. Last(l) \in Int /\ k \in Nat /\ k = i - 1
          BY Tables DEF Last
        <5> QED
          BY <1>1, <5>1
      <4> QED
        BY <3>1, <3>2, <4>1 DEF Kept, Both
    <3>3. ASSUME NEW k \in {i} \cap 0..(Last(l) - 1)
          PROVE  <<k, "out">> \in holds[l][i]
      <4>1. Last(l) \in Int
        BY Tables DEF Last
      <4>2. k < Last(l) /\ i <= k + 1 /\ k \in Command
        BY <1>1, <4>1
      <4> QED
        BY <3>1, <3>3, <4>2 DEF Kept, Both
    <3> QED
      BY <3>2, <3>3 DEF Needed
  <2>2. proc' = [proc EXCEPT ![l][i] = "runs"] /\ UNCHANGED <<hand, pipe, out>>
    BY <1>1, <1>4, <2>1 DEF Exec
  <2>3. ~End(l, i)
    <3>1. proc'[l][i] = "runs"
      BY <2>2 DEF TypeOK
    <3>2. End(l, i) => proc'[l][i] = "ended"
      BY DEF End, TypeOK
    <3> QED
      BY <3>1, <3>2
  <2> QED
    BY <1>0, <1>3, <2>2, <2>3
<1>5. CASE Generate(l, i)
  <2>1. i = 0 /\ proc[l][i] = "runs" /\ hand[l][0] < Items
    BY <1>1, <1>5 DEF Generate, Runs
  <2>2. W[i] = hand[l][0]
    BY <1>0, <2>1 DEF Written
  <2>3. W[i] + 1 \in 1..Items
    BY <1>1, <2>1, <2>2
  <2>4. /\ Put(l, i, W[i] + 1) /\ proc' = proc
        /\ hand' = [hand EXCEPT ![l][i] = IF i = 0 THEN W[i] + 1 ELSE 0]
    BY <1>5, <2>1, <2>2 DEF Generate
  <2> QED
    BY <1>0, <2>1, <2>3, <2>4, WriteMove
<1>6. CASE Take(l, i)
  <2>1. hand[l][i] = 0 /\ i > 0 /\ pipe[l][i - 1] # <<>>
    BY <1>6 DEF Take
  <2>2. PICK k \in Command : i = k + 1 /\ k = i - 1
    BY <2>1, PipelineAssumption DEF Command
  <2>3. /\ hand'[l] = [hand[l] EXCEPT ![i] = Head(pipe[l][k])]
        /\ pipe'[l] = [pipe[l] EXCEPT ![k] = Tail(pipe[l][k])]
        /\ out'[l] = out[l] /\ proc'[l] = proc[l]
    BY <1>6, <2>2 DEF Take, TypeOK
  <2>4. Last(l) \in Command
    BY <1>1, <2>1, Tables
  <2>5. Written(Last(l), proc[l], [hand[l] EXCEPT ![i] = Head(pipe[l][k])],
                [pipe[l] EXCEPT ![k] = Tail(pipe[l][k])], out[l], W)
    BY <1>0, <1>1, <2>1, <2>2, <2>4, TakeMove
  <2> QED
    BY <1>0, <2>3, <2>5
<1>7. CASE Give(l, i)
  <2>1. i # 0 /\ proc[l][i] = "runs" /\ hand[l][i] # 0 /\ KindOf(l, i) # "head"
    BY <1>1, <1>7 DEF Give, Runs
  <2>2. hand[l][i] = W[i] + 1
    BY <1>0, <1>2, <2>1 DEF Written
  <2>3. W[i] + 1 \in 1..Items
    BY <1>1, <2>1, <2>2
  <2>4. /\ Put(l, i, W[i] + 1) /\ proc' = proc
        /\ hand' = [hand EXCEPT ![l][i] = IF i = 0 THEN W[i] + 1 ELSE 0]
    BY <1>7, <2>1, <2>2 DEF Give
  <2> QED
    BY <1>0, <2>1, <2>3, <2>4, WriteMove
<1>8. CASE EndOfFile(l, i)
  BY <1>0, <1>3, <1>8, EndIsReal DEF EndOfFile
<1>9. CASE Finish(l, i)
  <2>1. i = 0 /\ hand[l][i] = Items
    BY <1>1, <1>9 DEF Finish, Runs
  <2>2. W[i] = Items
    BY <1>0, <2>1 DEF Written
  <2> QED
    BY <1>0, <1>3, <1>9, <2>2 DEF Finish
<1>10. CASE SigPipe(l, i)
  BY <1>0, <1>10, NoSigPipe
<1> QED
  BY <1>4, <1>5, <1>6, <1>7, <1>8, <1>9, <1>10 DEF CommandStep

\* The steps of the line's own commands.
LEMMA OwnCommand ==
  ASSUME TypeOK, Control, NEW l \in Worker, Loss(l), NEW i \in Command, CommandStep(l, i)
  PROVE  Loss(l)'
<1>1. proc[l][i] # "none" /\ UNCHANGED workerVars
  BY DEF CommandStep, Exec, Generate, Take, Give, EndOfFile, Finish, SigPipe, Runs
<1>2. worker'[l] = worker[l] /\ worker[l] \in {"fork", "close", "ended", "aborted"}
  BY <1>1, ForkedCommand DEF workerVars
<1>3. CASE worker[l] = "aborted"
  BY <1>2, <1>3 DEF Loss
<1>4. CASE worker[l] \in {"fork", "close", "ended"}
  <2>1. i <= Last(l) /\ i < Forked(l)
    BY <1>1, <1>4, ForkedCommand
  <2>2. \/ UNCHANGED <<proc, holds>>
        \/ End(l, i)
        \/ /\ proc[l][i] = "forked"
           /\ proc' = [proc EXCEPT ![l][i] = "runs"]
           /\ holds' = [holds EXCEPT ![l][i] = @ \ Closed(i)]
    BY DEF CommandStep, Exec, Generate, Take, Give, EndOfFile, Finish, SigPipe
  <2>3. Kept(l)'
    BY <1>1, <1>2, <1>4, <2>2, KeptNext DEF Loss, workerVars
  <2>4. Flow(l)'
    BY <1>1, <1>4, <2>1, OwnFlow, FlowNext DEF workerVars
  <2> QED
    BY <1>2, <1>4, <2>3, <2>4 DEF Loss
<1> QED
  BY <1>2, <1>3, <1>4

\* Every step keeps every line in order.
LEMMA LossStep ==
  ASSUME TypeOK, Control, \A l \in Worker : Loss(l), [Next]_vars
  PROVE  (\A l \in Worker : Loss(l))'
<1> SUFFICES ASSUME NEW l \in Worker PROVE Loss(l)'
  OBVIOUS
<1>1. CASE MainStep \/ UNCHANGED vars
  <2>1. Untouched(l) /\ worker'[l] = worker[l]
    BY <1>1 DEF MainStep, Open, WriteLine, WriteEnd, vars, workerVars, commandVars, Untouched
  <2> QED
    BY <2>1, UntouchedLoss
<1>2. ASSUME NEW m \in Worker, WorkerStep(m) \/ CallFails(m)
      PROVE  Loss(l)'
  <2>1. CASE m = l
    BY <1>2, <2>1, OwnWorker
  <2>2. CASE m # l
    BY <1>2, <2>2, OtherLine, UntouchedLoss
  <2> QED
    BY <2>1, <2>2
<1>3. ASSUME NEW m \in Worker, NEW i \in Command, CommandStep(m, i)
      PROVE  Loss(l)'
  <2>1. CASE m = l
    BY <1>3, <2>1, OwnCommand
  <2>2. CASE m # l
    BY <1>3, <2>2, OtherLine, UntouchedLoss
  <2> QED
    BY <2>1, <2>2
<1> QED
  BY <1>1, <1>2, <1>3 DEF Next

\* In the beginning no line has been touched.
LEMMA InitLoss == Init => \A l \in Worker : Loss(l)
BY DEF Init, Loss, Untried

\* The last command ends when it has written all the items.
LEMMA LossLost ==
  ASSUME TypeOK, Control, \A l \in Worker : Loss(l)
  PROVE  NothingLost
<1> SUFFICES ASSUME NEW l \in Worker, Whole(l), worker[l] # "aborted",
                    proc[l][Last(l)] = "ended"
             PROVE  out[l] = [n \in 1..Items |-> n]
  BY DEF NothingLost
<1>1. Last(l) \in Command /\ Last(l) <= Last(l)
  <2>1. Last(l) \in Command /\ Count(l) \in 0..Width
    BY Tables DEF Whole
  <2> QED
    BY <2>1 DEF Last
<1>2. Flow(l)
  BY <1>1, ForkedCommand DEF Loss
<1>3. PICK W \in [Command -> 0..Items] :
        Written(Last(l), proc[l], hand[l], pipe[l], out[l], W)
  BY <1>2 DEF Flow
<1>4. Len(out[l]) = Items /\ \A j \in 1..Len(out[l]) : out[l][j] = j
  BY <1>1, <1>3 DEF Written
<1>5. out[l] \in Seq(1..Items)
  BY DEF TypeOK
<1>6. out[l] \in [1..Len(out[l]) -> 1..Items]
  BY <1>5, LenProperties
<1> QED
  BY <1>4, <1>6

\* In a pipeline of any length with pipes of any size, when its first command writes the
\* items and the others pass them on, and no fork or pipe of do_grep_command failed, the
\* last command has written all the items in order when it ends: no command takes a full
\* or empty pipe for the end, because the ends are closed by those who do not need them
\* and by nobody else.
THEOREM NothingIsLost == Spec => []NothingLost
<1> DEFINE LossInv == \A l \in Worker : Loss(l)
<1>1. Init => LossInv
  BY InitLoss
<1>2. Inv /\ LossInv /\ [Next]_vars => LossInv'
  BY LossStep DEF Inv
<1>3. Inv /\ LossInv => NothingLost
  BY LossLost DEF Inv
<1> HIDE DEF LossInv
<1> QED
  BY <1>1, <1>2, <1>3, Invariance, PTL DEF Spec

=============================================================================
