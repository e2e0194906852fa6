-------------------------- MODULE ReserveCopyProofs --------------------------
(***************************************************************************)
(* Proofs about ReserveCopy: type correctness, that there is one tree of   *)
(* watchers, who escapes from it, and that careful users' orders are       *)
(* carried out whole, for any number of clients, orders and events and as  *)
(* many forks as TABLE has entries.                                        *)
(***************************************************************************)
EXTENDS ReserveCopy, SequenceTheorems, TLAPS

USE CopyAssumption

-----------------------------------------------------------------------------
(* The tree. *)

\* A watcher that has not forked yet, and one that may have forked in CheckFolder.
Young == {"none", "forked", "cleared", "check"}
Starting == {"wait", "copy", "setup"}

\* What a watcher's record looks like (ResCop.c:277-294, 133-152): its handler is set before it
\* reads events; a child is out of the table only after a fork and while it is moved, and then
\* to an entry of the table.
Shaped(p) ==
  /\ p.pc \notin {"none", "forked", "cleared", "ended"} => p.handler
  /\ p.pc \notin {"record", "swap"} => p.child = 0
  /\ p.pc = "record" => p.child # 0
  /\ p.pc \in {"delete", "swap"} => p.at >= 1
  /\ p.pc = "swap" /\ p.child # 0 => p.at <= Len(p.table)

\* Processes are numbered in the order of their forks.
Ordered ==
  /\ last_aim <= used
  /\ \A w \in Watcher : w > used => proc[w] = Nobody
  /\ \A w, c \in Watcher : proc[c].parent = w => w < c /\ proc[w].pc \notin Young

\* Whom a watcher has in its table, but for the entry that is being replaced, or out of it.
Kept(p) ==
  {p.child} \cup {p.table[i] : i \in {j \in 1 .. Len(p.table) : ~(p.pc = "swap" /\ j = p.at)}}

\* What a watcher has forked in CheckFolder is in no table.
Strayed ==
  \A w, c \in Watcher : proc[c].parent = w /\ proc[w].pc \in Starting => c \in missed

\* A watcher knows its children, unless they have been told to end, or missed.
Known ==
  \A w, c \in Watcher :
    proc[c].parent = w /\ Alive(c) /\ ~Told(c) /\ Alive(w)
      => c \in missed \/ c \in Kept(proc[w])

\* The daemon has told its last watcher before it starts another.
LastTold ==
  dpc \in {"len_in", "in", "len_out", "out", "add"} /\ last_aim \in Watcher
    => (Alive(last_aim) => Told(last_aim))

TreeInv ==
  /\ \A w \in Watcher : Shaped(proc[w])
  /\ Ordered /\ Strayed /\ Known /\ LastTold /\ OneTree /\ Escapes

Working == {"event", "record", "delete", "swap", "stuck"}

\* p is a record that watcher w may have after a step of its own (ResCop.c:266-327).
Successor(w, p) ==
  /\ p \in Process /\ Shaped(p)
  /\ p.pc # "none" /\ p.parent = proc[w].parent
  /\ p.pc \in Working => p.left > 0
  /\ p.pc \in Young => proc[w].pc \in Young
  /\ p.pc \in Starting => proc[w].pc \in Young \cup Starting
  /\ p.pc # "ended" => p.flag_end = proc[w].flag_end

\* What a watcher that ends leaves behind.
LEMMA GoneFacts ==
  ASSUME TypeOK, NEW w \in Watcher
  PROVE  /\ Gone(w) \in Process /\ Shaped(Gone(w))
         /\ Gone(w).pc = "ended" /\ Gone(w).parent = proc[w].parent
         /\ Successor(w, Gone(w))
<1>1. proc[w] \in Process
  BY DEF TypeOK
<1>2. <<>> \in Seq(Pid)
  BY EmptySeq
<1>3. Nobody \in Process
  BY <1>2 DEF Nobody, Process, State, Watcher
<1>4. /\ Gone(w) \in Process /\ Gone(w).pc = "ended" /\ Gone(w).parent = proc[w].parent
      /\ Gone(w).child = 0
  BY <1>1, <1>3 DEF Gone, Nobody, Process, State
<1> QED BY <1>4 DEF Shaped, Successor, Working, Young, Starting

\* The end of an event (ResCop.c:294-325).
LEMMA AfterEventFacts ==
  ASSUME TypeOK, NEW w \in Watcher, NEW q \in Process,
         q.left > 0, q.child = 0, q.handler, q.pc # "swap",
         q.parent = proc[w].parent, q.flag_end = proc[w].flag_end
  PROVE  /\ Successor(w, AfterEvent(w, q))
         /\ AfterEvent(w, q).pc \in {"event", "read", "ended"}
         /\ AfterEvent(w, q).pc = "ended" => ~proc[w].flag_end
         /\ AfterEvent(w, q).pc # "ended" => Kept(q) \subseteq Kept(AfterEvent(w, q))
<1>1. CASE q.left > 1
  <2> DEFINE p == [q EXCEPT !.pc = "event", !.left = @ - 1]
  <2>1. AfterEvent(w, q) = p
    BY <1>1 DEF AfterEvent
  <2>2. /\ p \in Process /\ p.pc = "event" /\ p.left > 0 /\ p.child = 0 /\ p.handler
        /\ p.parent = q.parent /\ p.flag_end = q.flag_end /\ p.table = q.table
    <3>1. q.left - 1 \in 0 .. MaxBatch /\ (q.left > 1 => q.left - 1 > 0)
      BY DEF Process
    <3>2. "event" \in State
      BY DEF State
    <3> QED BY <1>1, <3>1, <3>2 DEF Process
  <2> HIDE DEF p
  <2> QED BY <2>1, <2>2 DEF Successor, Shaped, Kept, Young, Starting, Working
<1>2. CASE ~(q.left > 1) /\ q.flag_end
  <2> DEFINE p == [q EXCEPT !.pc = "read", !.left = @ - 1]
  <2>1. AfterEvent(w, q) = p
    BY <1>2 DEF AfterEvent
  <2>2. /\ p \in Process /\ p.pc = "read" /\ p.child = 0 /\ p.handler
        /\ p.parent = q.parent /\ p.flag_end = q.flag_end /\ p.table = q.table
    <3>1. q.left - 1 \in 0 .. MaxBatch /\ (q.left > 1 => q.left - 1 > 0)
      BY DEF Process
    <3>2. "read" \in State
      BY DEF State
    <3> QED BY <1>2, <3>1, <3>2 DEF Process
  <2> HIDE DEF p
  <2> QED BY <2>1, <2>2 DEF Successor, Shaped, Kept, Young, Starting, Working
<1>3. CASE ~(q.left > 1) /\ ~q.flag_end
  BY <1>3, GoneFacts DEF AfterEvent
<1> QED BY <1>1, <1>2, <1>3

-----------------------------------------------------------------------------
(* Steps of one watcher. *)

\* Watcher w becomes p, and nothing is forgotten.
Moves(w, p) ==
  /\ Alive(w) /\ Successor(w, p) /\ proc' = [proc EXCEPT ![w] = p]
  /\ pending \subseteq pending' /\ missed \subseteq missed'
  /\ used' = used /\ last_aim' = last_aim /\ dpc' \in {dpc, "killed"}

\* A watcher that does not end keeps its children; one that ends has none, or was told.
Keeps(w, p) ==
  /\ p.pc # "ended" =>
       \A c \in Watcher : c \in Kept(proc[w]) /\ proc[c].parent = w /\ Alive(c)
                            => c \in Kept(p) \/ c \in pending'
  /\ p.pc = "ended" =>
       \/ proc[w].pc \in Young \/ ~proc[w].flag_end
       \/ {c \in Watcher : proc[c].parent = w} \subseteq missed'

\* Such a step keeps the tree together.
LEMMA MovesTree ==
  ASSUME TypeOK, TreeInv, NEW w \in Watcher, NEW p, Moves(w, p), Keeps(w, p)
  PROVE  TreeInv'
<1>1. proc \in [Watcher -> Process] /\ used \in Nat
  BY DEF TypeOK
<1>2. /\ proc'[w] = p
      /\ \A c \in Watcher : c # w => proc'[c] = proc[c]
      /\ \A c \in Watcher : proc'[c].parent = proc[c].parent
  BY <1>1 DEF Moves, Successor
<1>3. \A c \in Watcher : Alive(c)' => Alive(c)
  BY <1>2 DEF Alive, Moves
<1>4. \A c \in Watcher : Told(c) /\ Alive(c)' => Told(c)'
  BY <1>2 DEF Told, Alive, Moves, Successor
<1>5. (\A c \in Watcher : Shaped(proc[c]))'
  BY <1>2 DEF Moves, Successor, TreeInv
<1>6. w <= used
  BY <1>1 DEF Moves, Alive, TreeInv, Ordered, Nobody, Watcher
<1>7. Ordered'
  <2>1. \A c \in Watcher : c > used' => proc'[c] = Nobody
    BY <1>1, <1>2, <1>6 DEF Moves, TreeInv, Ordered, Watcher
  <2>2. \A c \in Watcher : proc'[c].pc \in Young => proc[c].pc \in Young
    BY <1>2 DEF Moves, Successor
  <2>3. \A v, c \in Watcher : proc'[c].parent = v => v < c /\ proc'[v].pc \notin Young
    BY <1>2, <2>2 DEF TreeInv, Ordered
  <2> QED BY <2>1, <2>3 DEF Ordered, Moves, TreeInv
<1>12. Strayed'
  BY <1>2 DEF Strayed, Moves, Successor, TreeInv, Ordered
<1>8. Known'
  <2> SUFFICES ASSUME NEW v \in Watcher, NEW c \in Watcher,
                      proc'[c].parent = v, Alive(c)', ~Told(c)', Alive(v)'
               PROVE  c \in missed' \/ c \in Kept(proc'[v])
    BY DEF Known
  <2>1. c \in missed \/ c \in Kept(proc[v])
    BY <1>2, <1>3, <1>4 DEF TreeInv, Known
  <2>2. CASE v = w
    <3>1. p.pc # "ended"
      BY <1>2, <2>2 DEF Alive
    <3>2. c \notin pending'
      BY DEF Told
    <3> QED BY <1>2, <1>3, <2>1, <2>2, <3>1, <3>2 DEF Keeps, Moves
  <2> QED BY <1>2, <2>1, <2>2 DEF Moves
<1>9. LastTold'
  BY <1>3, <1>4 DEF LastTold, Moves, TreeInv
<1>10. OneTree'
  BY <1>2, <1>3, <1>4 DEF OneTree, Moves, TreeInv
<1>11. Escapes'
  <2> SUFFICES ASSUME NEW v \in Watcher, NEW c \in Watcher,
                      proc'[c].parent = v, Alive(c)', ~Told(c)',
                      proc'[v].pc = "ended" \/ ~proc'[v].flag_end
               PROVE  c \in missed'
    BY DEF Escapes
  <2>1. proc[c].parent = v /\ Alive(c) /\ ~Told(c)
    BY <1>2, <1>3, <1>4
  <2>2. proc[v].pc = "ended" \/ ~proc[v].flag_end => c \in missed'
    BY <2>1 DEF TreeInv, Escapes, Moves
  <2>3. proc[v].pc \notin Young
    BY <2>1 DEF TreeInv, Ordered
  <2>4. CASE v = w
    BY <1>2, <2>1, <2>2, <2>3, <2>4 DEF Moves, Successor, Keeps
  <2> QED BY <1>2, <2>2, <2>4
<1> QED BY <1>5, <1>7, <1>8, <1>9, <1>10, <1>11, <1>12 DEF TreeInv

\* It keeps the types, too, if the variables that are not of the tree keep theirs.
LEMMA MovesTypes ==
  ASSUME TypeOK, NEW w \in Watcher, NEW p, Moves(w, p),
         UNCHANGED <<clientVars, fifoVars, names>>, deletes' \in 0 .. MaxDeletes,
         pending' \subseteq Watcher, missed' \subseteq Watcher
  PROVE  TypeOK'
<1>1. proc' \in [Watcher -> Process] /\ proc'[w] = p
      /\ \A c \in Watcher : c # w => proc'[c] = proc[c]
  BY DEF TypeOK, Moves, Successor
<1>2. \A c \in Watcher : proc'[c].pc \in {"event", "record", "delete", "swap", "stuck"} => proc'[c].left > 0
  BY <1>1 DEF TypeOK, Moves, Successor, Working
<1>3. used' \in 0 .. MaxWatchers /\ last_aim' \in {FIRST_AIM} \cup Watcher
  BY DEF Moves, TypeOK
<1>4. dpc' \in {"num", "len_in", "in", "len_out", "out", "add", "stopped", "aborted", "killed"}
  BY DEF Moves, TypeOK
<1> QED BY <1>1, <1>2, <1>3, <1>4 DEF TypeOK, clientVars, fifoVars

\* A step in which a watcher changes nothing but itself.
LEMMA BecomesInv ==
  ASSUME TypeOK, TreeInv, NEW w \in Watcher, NEW p, Becomes(w, p), Alive(w),
         Successor(w, p),
         p.pc # "ended" => Kept(proc[w]) \subseteq Kept(p),
         p.pc = "ended" => proc[w].pc \in Young \cup Starting \/ ~proc[w].flag_end
  PROVE  TypeOK' /\ TreeInv'
<1>1. Moves(w, p)
  BY DEF Becomes, Moves, daemonVars, signals
<1>2. Keeps(w, p)
  <2>1. proc[w].pc \in Starting => {c \in Watcher : proc[c].parent = w} \subseteq missed'
    BY DEF TreeInv, Strayed, Becomes, signals
  <2> QED BY <2>1 DEF Keeps
<1>3. TypeOK'
  BY <1>1, MovesTypes DEF Becomes, TypeOK, signals, daemonVars
<1> QED BY <1>1, <1>2, <1>3, MovesTree

\* What the type invariant says of a watcher that is alive.
LEMMA WatcherFacts ==
  ASSUME TypeOK, TreeInv, NEW w \in Watcher
  PROVE  /\ proc[w] \in Process /\ Shaped(proc[w])
         /\ proc[w].pc \in Working => proc[w].left > 0
  BY DEF TypeOK, TreeInv, Working

\* The beginning of a watcher (ResCop.c:277-291).
LEMMA BeginInv ==
  ASSUME TypeOK, TreeInv, NEW w \in Watcher,
         ClearTable(w) \/ SetHandler(w) \/ StrayEnds(w) \/ Setup(w)
  PROVE  TypeOK' /\ TreeInv'
<1>0. proc[w] \in Process /\ Shaped(proc[w])
  BY WatcherFacts
<1>1. CASE ClearTable(w)
  <2> DEFINE p == [proc[w] EXCEPT !.pc = "cleared", !.table = <<>>]
  <2>1. p \in Process /\ p.pc = "cleared" /\ p.child = proc[w].child /\ p.flag_end = proc[w].flag_end
        /\ p.parent = proc[w].parent
    <3>1. <<>> \in Seq(Pid) /\ "cleared" \in State
      BY EmptySeq DEF State
    <3> QED BY <1>0, <3>1 DEF Process
  <2>2. proc[w].pc = "forked" /\ Becomes(w, p)
    BY <1>1 DEF ClearTable
  <2> HIDE DEF p
  <2>3. Alive(w) /\ Successor(w, p)
    BY <1>0, <2>1, <2>2 DEF Alive, Successor, Shaped, Young, Starting, Working
  <2>4. \A c \in Watcher : proc[c].parent # w
    BY <2>2 DEF TreeInv, Ordered, Young
  <2>5. Moves(w, p) /\ Keeps(w, p)
    BY <2>1, <2>2, <2>3, <2>4 DEF Becomes, Moves, Keeps, daemonVars, signals
  <2>6. TypeOK'
    BY <2>2, <2>5, MovesTypes DEF Becomes, TypeOK, signals, daemonVars
  <2> QED BY <2>5, <2>6, MovesTree
<1>2. CASE SetHandler(w)
  <2> DEFINE p == [proc[w] EXCEPT !.pc = "check", !.handler = TRUE]
  <2>1. p \in Process /\ p.pc = "check" /\ p.child = proc[w].child /\ p.flag_end = proc[w].flag_end
        /\ p.parent = proc[w].parent /\ p.table = proc[w].table /\ p.handler
    BY <1>0 DEF Process, State
  <2>2. proc[w].pc = "cleared" /\ Becomes(w, p)
    BY <1>2 DEF SetHandler
  <2> HIDE DEF p
  <2>3. Alive(w) /\ Successor(w, p)
    BY <1>0, <2>1, <2>2 DEF Alive, Successor, Shaped, Young, Starting, Working
  <2>4. Kept(proc[w]) \subseteq Kept(p)
    BY <2>1, <2>2 DEF Kept
  <2> QED BY <2>1, <2>2, <2>3, <2>4, BecomesInv
<1>3. CASE Setup(w)
  <2> DEFINE p == [proc[w] EXCEPT !.pc = "read"]
  <2>1. p \in Process /\ p.pc = "read" /\ p.child = proc[w].child /\ p.flag_end = proc[w].flag_end
        /\ p.parent = proc[w].parent /\ p.table = proc[w].table /\ p.handler = proc[w].handler
    BY <1>0 DEF Process, State
  <2>2. proc[w].pc \in {"check", "copy", "setup"} /\ (Becomes(w, Gone(w)) \/ Becomes(w, p))
    BY <1>3 DEF Setup
  <2> HIDE DEF p
  <2>3. Alive(w) /\ Successor(w, p)
    BY <1>0, <2>1, <2>2 DEF Alive, Successor, Shaped, Young, Starting, Working
  <2>4. Kept(proc[w]) \subseteq Kept(p)
    BY <2>1, <2>2 DEF Kept
  <2>5. CASE Becomes(w, p)
    BY <2>1, <2>3, <2>4, <2>5, BecomesInv
  <2>6. CASE Becomes(w, Gone(w))
    BY <2>2, <2>3, <2>6, BecomesInv, GoneFacts DEF Young, Starting
  <2> QED BY <2>2, <2>5, <2>6
<1>4. CASE StrayEnds(w)
  <2> DEFINE p == [proc[w] EXCEPT !.pc = "copy"]
  <2>1. p \in Process /\ p.pc = "copy" /\ p.child = proc[w].child /\ p.flag_end = proc[w].flag_end
        /\ p.parent = proc[w].parent /\ p.table = proc[w].table /\ p.handler = proc[w].handler
    BY <1>0 DEF Process, State
  <2>2. proc[w].pc = "wait" /\ Becomes(w, p)
    BY <1>4 DEF StrayEnds
  <2> HIDE DEF p
  <2>3. Alive(w) /\ Successor(w, p)
    BY <1>0, <2>1, <2>2 DEF Alive, Successor, Shaped, Young, Starting, Working
  <2>4. Kept(proc[w]) \subseteq Kept(p)
    BY <2>1, <2>2 DEF Kept
  <2> QED BY <2>1, <2>2, <2>3, <2>4, BecomesInv
<1> QED BY <1>1, <1>2, <1>3, <1>4

\* Waiting for events, and the end (ResCop.c:294-325).
LEMMA WaitInv ==
  ASSUME TypeOK, TreeInv, NEW w \in Watcher,
         Wake(w) \/ Leave(w) \/ FileEvent(w) \/ Stick(w) \/ Unstick(w)
  PROVE  TypeOK' /\ TreeInv'
<1>0. proc[w] \in Process /\ Shaped(proc[w])
  BY WatcherFacts
<1>1. CASE Wake(w)
  <2>0. PICK n \in 1 .. MaxBatch : Becomes(w, [proc[w] EXCEPT !.pc = "event", !.left = n])
    BY <1>1 DEF Wake
  <2> DEFINE p == [proc[w] EXCEPT !.pc = "event", !.left = n]
  <2>1. p \in Process /\ p.pc = "event" /\ p.child = proc[w].child /\ p.flag_end = proc[w].flag_end
        /\ p.parent = proc[w].parent /\ p.table = proc[w].table /\ p.handler = proc[w].handler
        /\ p.left > 0
    <3>1. n \in 0 .. MaxBatch /\ n > 0 /\ "event" \in State
      BY DEF State
    <3> QED BY <1>0, <3>1 DEF Process
  <2>2. proc[w].pc = "read" /\ Becomes(w, p)
    BY <1>1, <2>0 DEF Wake
  <2> HIDE DEF p
  <2>3. Alive(w) /\ Successor(w, p)
    BY <1>0, <2>1, <2>2 DEF Alive, Successor, Shaped, Young, Starting, Working
  <2>4. Kept(proc[w]) \subseteq Kept(p)
    BY <2>1, <2>2 DEF Kept
  <2> QED BY <2>1, <2>2, <2>3, <2>4, BecomesInv
<1>2. CASE Leave(w)
  BY <1>2, BecomesInv, GoneFacts DEF Leave, Alive
<1>3. CASE FileEvent(w) \/ Unstick(w)
  <2>1. proc[w].pc \in {"event", "stuck"} /\ Becomes(w, AfterEvent(w, proc[w]))
    BY <1>3 DEF FileEvent, Unstick
  <2>2. proc[w].left > 0 /\ proc[w].child = 0 /\ proc[w].handler /\ Alive(w)
    BY <1>0, <2>1, WatcherFacts DEF Shaped, Working, Alive
  <2> QED BY <1>0, <2>1, <2>2, AfterEventFacts, BecomesInv
<1>4. CASE Stick(w)
  <2> DEFINE p == [proc[w] EXCEPT !.pc = "stuck"]
  <2>1. p \in Process /\ p.pc = "stuck" /\ p.child = proc[w].child /\ p.flag_end = proc[w].flag_end
        /\ p.parent = proc[w].parent /\ p.table = proc[w].table /\ p.handler = proc[w].handler
        /\ p.left = proc[w].left
    BY <1>0 DEF Process, State
  <2>2. proc[w].pc = "event" /\ Becomes(w, p) /\ proc[w].left > 0
    BY <1>4, WatcherFacts DEF Stick, Working
  <2> HIDE DEF p
  <2>3. Alive(w) /\ Successor(w, p)
    BY <1>0, <2>1, <2>2 DEF Alive, Successor, Shaped, Young, Starting, Working
  <2>4. Kept(proc[w]) \subseteq Kept(p)
    BY <2>1, <2>2 DEF Kept
  <2> QED BY <2>1, <2>2, <2>3, <2>4, BecomesInv
<1> QED BY <1>1, <1>2, <1>3, <1>4

\* A watcher that aborts leaves its children behind (safe_ops.c:14-21).
LEMMA AbortInv ==
  ASSUME TypeOK, TreeInv, NEW w \in Watcher, Abort(w)
  PROVE  TypeOK' /\ TreeInv'
<1>1. Moves(w, Gone(w))
  BY GoneFacts DEF Abort, Moves, Alive, daemonVars
<1>2. Keeps(w, Gone(w))
  BY GoneFacts DEF Keeps, Abort
<1>3. TypeOK'
  BY <1>1, MovesTypes, GoneFacts DEF Abort, TypeOK, daemonVars
<1> QED BY <1>1, <1>2, <1>3, MovesTree, GoneFacts

\* A child is entered in the table (ResCop.c:271-273).
LEMMA RecordInv ==
  ASSUME TypeOK, TreeInv, NEW w \in Watcher, Record(w)
  PROVE  TypeOK' /\ TreeInv'
<1> DEFINE q == [proc[w] EXCEPT !.table = Append(@, proc[w].child), !.child = 0]
<1>0. proc[w] \in Process /\ Shaped(proc[w]) /\ proc[w].pc = "record"
  BY WatcherFacts DEF Record
<1>1. proc[w].table \in Seq(Pid) /\ proc[w].child \in Pid
  BY <1>0 DEF Process, Shaped
<1>2. /\ Append(proc[w].table, proc[w].child) \in Seq(Pid)
      /\ Len(Append(proc[w].table, proc[w].child)) = Len(proc[w].table) + 1
      /\ Len(proc[w].table) \in Nat
      /\ Append(proc[w].table, proc[w].child)[Len(proc[w].table) + 1] = proc[w].child
      /\ \A i \in 1 .. Len(proc[w].table) :
           Append(proc[w].table, proc[w].child)[i] = proc[w].table[i]
  BY <1>1, LenProperties, AppendProperties
<1>3. q \in Process /\ q.pc = "record" /\ q.child = 0 /\ q.flag_end = proc[w].flag_end
      /\ q.parent = proc[w].parent /\ q.handler /\ q.left > 0
      /\ q.table = Append(proc[w].table, proc[w].child)
  BY <1>0, <1>2, WatcherFacts DEF Process, Shaped, Working
<1>4. Becomes(w, AfterEvent(w, q)) /\ Alive(w)
  BY <1>0 DEF Record, Alive
<1> HIDE DEF q
<1>5. \A c \in Kept(proc[w]) : c # 0 => c \in Kept(q)
  BY <1>0, <1>2, <1>3 DEF Kept
<1>6. 0 \in Kept(q)
  BY <1>3 DEF Kept
<1> QED BY <1>3, <1>4, <1>5, <1>6, AfterEventFacts, BecomesInv

\* A folder is gone: the watcher is to go through its table (ResCop.c:133-137).
LEMMA DeleteFolderInv ==
  ASSUME TypeOK, TreeInv, NEW w \in Watcher, DeleteFolder(w)
  PROVE  TypeOK' /\ TreeInv'
<1> DEFINE p == [proc[w] EXCEPT !.pc = "delete", !.at = 1]
<1>0. proc[w] \in Process /\ Shaped(proc[w]) /\ proc[w].pc = "event" /\ proc \in [Watcher -> Process]
  BY WatcherFacts DEF DeleteFolder, TypeOK
<1>1. proc' = [proc EXCEPT ![w] = p]
  BY <1>0 DEF DeleteFolder
<1>2. p \in Process /\ p.pc = "delete" /\ p.child = proc[w].child /\ p.flag_end = proc[w].flag_end
      /\ p.parent = proc[w].parent /\ p.table = proc[w].table /\ p.handler = proc[w].handler
      /\ p.left = proc[w].left /\ p.at = 1
  BY <1>0 DEF Process, State
<1> HIDE DEF p
<1>3. proc[w].left > 0
  BY <1>0, WatcherFacts DEF Working
<1>4. Moves(w, p)
  <2>1. Shaped(p) /\ Successor(w, p) /\ Alive(w)
    BY <1>0, <1>2, <1>3 DEF Shaped, Successor, Young, Starting, Working, Alive
  <2>2. UNCHANGED <<pending, missed, used, last_aim, dpc>>
    BY DEF DeleteFolder, daemonVars, signals
  <2> QED BY <1>1, <2>1, <2>2 DEF Moves
<1>5. Keeps(w, p)
  BY <1>0, <1>2 DEF Keeps, Kept
<1>6. deletes' \in 0 .. MaxDeletes
  BY DEF DeleteFolder, MayDelete, TypeOK
<1>7. TypeOK'
  BY <1>4, <1>6, MovesTypes DEF DeleteFolder, daemonVars, signals, TypeOK
<1> QED BY <1>4, <1>5, <1>7, MovesTree

\* An entry seems to match: its watcher is told, and its place is free (ResCop.c:139-150).
LEMMA MatchesInv ==
  ASSUME TypeOK, TreeInv, NEW w \in Watcher, Matches(w)
  PROVE  TypeOK' /\ TreeInv'
<1> DEFINE t == proc[w].table
           n == Len(proc[w].table)
           p == [proc[w] EXCEPT !.pc = "swap", !.table = SubSeq(@, 1, n - 1),
                                !.child = IF proc[w].at = n THEN 0 ELSE t[n]]
<1>0. /\ proc[w] \in Process /\ Shaped(proc[w]) /\ proc[w].pc = "delete" /\ proc[w].left > 0
      /\ proc \in [Watcher -> Process]
  BY WatcherFacts DEF Matches, TypeOK, Working
<1>1. t \in Seq(Pid) /\ n \in Nat /\ proc[w].at \in 1 .. n
  BY <1>0, LenProperties DEF Matches, Process, Shaped
<1>2. /\ SubSeq(t, 1, n - 1) \in Seq(Pid) /\ Len(SubSeq(t, 1, n - 1)) = n - 1
      /\ \A i \in 1 .. n - 1 : SubSeq(t, 1, n - 1)[i] = t[i]
      /\ t[n] \in Pid
  BY <1>1, SubSeqProperties, ElementOfSeq
<1>3. proc' = [proc EXCEPT ![w] = p]
  BY <1>0 DEF Matches
<1>4. /\ p \in Process /\ p.pc = "swap" /\ p.flag_end = proc[w].flag_end
      /\ p.parent = proc[w].parent /\ p.handler = proc[w].handler
      /\ p.left = proc[w].left /\ p.at = proc[w].at
      /\ p.table = SubSeq(t, 1, n - 1)
      /\ p.child = IF proc[w].at = n THEN 0 ELSE t[n]
  BY <1>0, <1>2 DEF Process, State
<1>5. /\ pending' = pending \cup (Hit({t[proc[w].at]}) \ {w})
      /\ dpc' = DaemonHit({t[proc[w].at]})
  BY DEF Matches
<1>6. /\ pending \subseteq pending' /\ pending' \subseteq Watcher
      /\ dpc' \in {dpc, "killed"}
  BY <1>5 DEF Hit, DaemonHit, TypeOK
<1>7. proc[w].child = 0
  BY <1>0 DEF Shaped
<1> HIDE DEF p
<1>8. Moves(w, p)
  <2>1. Shaped(p)
    BY <1>0, <1>1, <1>2, <1>4 DEF Shaped
  <2> QED BY <1>0, <1>3, <1>4, <1>6, <2>1
          DEF Matches, Moves, Alive, Successor, Young, Starting, Working
<1>9. Keeps(w, p)
  <2> SUFFICES ASSUME NEW c \in Watcher, c \in Kept(proc[w]), proc[c].parent = w, Alive(c)
               PROVE  c \in Kept(p) \/ c \in pending'
    BY <1>4 DEF Keeps
  <2>1. PICK i \in 1 .. n : c = t[i]
    BY <1>0, <1>7 DEF Kept, Watcher
  <2>2. CASE i = proc[w].at
    <3>1. c # w
      BY DEF TreeInv, Ordered, Watcher
    <3> QED BY <1>5, <2>1, <2>2, <3>1 DEF Hit
  <2>3. CASE i # proc[w].at /\ i = n
    BY <1>4, <2>1, <2>3 DEF Kept
  <2>4. CASE i # proc[w].at /\ i < n
    <3>1. i \in 1 .. Len(p.table) /\ p.table[i] = c
      BY <1>1, <1>2, <1>4, <2>1, <2>4
    <3> QED BY <1>4, <2>4, <3>1 DEF Kept
  <2> QED BY <1>1, <2>2, <2>3, <2>4
<1>10. TypeOK'
  BY <1>6, <1>8, MovesTypes DEF Matches, TypeOK
<1> QED BY <1>8, <1>9, <1>10, MovesTree

\* The last entry takes the place of the one removed (ResCop.c:145-150).
LEMMA SwapInv ==
  ASSUME TypeOK, TreeInv, NEW w \in Watcher, Swap(w)
  PROVE  TypeOK' /\ TreeInv'
<1> DEFINE k == proc[w].at
           t == IF proc[w].child = 0 THEN proc[w].table
                ELSE [proc[w].table EXCEPT ![k] = proc[w].child]
           p == [proc[w] EXCEPT !.pc = "delete", !.at = @ + 1, !.child = 0, !.table = t]
<1>0. proc[w] \in Process /\ Shaped(proc[w]) /\ proc[w].pc = "swap" /\ proc[w].left > 0
  BY WatcherFacts DEF Swap, Working
<1>1. proc[w].table \in Seq(Pid) /\ Len(proc[w].table) \in Nat /\ k \in Nat /\ k >= 1
  BY <1>0, LenProperties DEF Process, Shaped
<1>2. /\ t \in Seq(Pid) /\ Len(t) = Len(proc[w].table)
      /\ \A i \in 1 .. Len(t) : i # k => t[i] = proc[w].table[i]
      /\ proc[w].child # 0 => k \in 1 .. Len(t) /\ t[k] = proc[w].child
  <2>1. CASE proc[w].child = 0
    BY <1>1, <2>1
  <2>2. CASE proc[w].child # 0
    <3>1. proc[w].child \in Pid /\ k \in 1 .. Len(proc[w].table)
      BY <1>0, <1>1, <2>2 DEF Process, Shaped
    <3> HIDE DEF k
    <3> QED BY <1>1, <2>2, <3>1, ExceptSeq
  <2> QED BY <2>1, <2>2
<1>3. Becomes(w, p) /\ Alive(w)
  BY <1>0 DEF Swap, Alive
<1> HIDE DEF t
<1>4. /\ p \in Process /\ p.pc = "delete" /\ p.flag_end = proc[w].flag_end
      /\ p.parent = proc[w].parent /\ p.handler = proc[w].handler
      /\ p.left = proc[w].left /\ p.at = k + 1 /\ p.child = 0 /\ p.table = t
  <2>1. t \in Seq(Pid) /\ k + 1 \in Nat /\ "delete" \in State
    BY <1>1, <1>2 DEF State
  <2> QED BY <1>0, <2>1 DEF Process
<1> HIDE DEF p
<1>5. Successor(w, p)
  BY <1>0, <1>1, <1>4 DEF Successor, Shaped, Young, Starting, Working
<1>6. Kept(proc[w]) \subseteq Kept(p)
  <2> SUFFICES ASSUME NEW c \in Kept(proc[w])
               PROVE  c \in Kept(p)
    OBVIOUS
  <2>1. CASE c = proc[w].child
    BY <1>2, <1>4, <2>1 DEF Kept
  <2>2. CASE c # proc[w].child
    <3>1. PICK i \in 1 .. Len(proc[w].table) : i # k /\ c = proc[w].table[i]
      BY <1>0, <2>2 DEF Kept
    <3> QED BY <1>2, <1>4, <3>1 DEF Kept
  <2> QED BY <2>1, <2>2
<1> QED BY <1>3, <1>4, <1>5, <1>6, BecomesInv

\* An entry does not match, or there is none left (ResCop.c:137-152).
LEMMA DiffersInv ==
  ASSUME TypeOK, TreeInv, NEW w \in Watcher, Differs(w)
  PROVE  TypeOK' /\ TreeInv'
<1>0. proc[w] \in Process /\ Shaped(proc[w]) /\ proc[w].pc = "delete" /\ proc[w].left > 0
      /\ Alive(w)
  BY WatcherFacts DEF Differs, Working, Alive
<1>1. CASE proc[w].at <= Len(proc[w].table)
  <2> DEFINE p == [proc[w] EXCEPT !.at = @ + 1]
  <2>1. Becomes(w, p)
    BY <1>1 DEF Differs
  <2>2. /\ p \in Process /\ p.pc = "delete" /\ p.flag_end = proc[w].flag_end
        /\ p.parent = proc[w].parent /\ p.handler = proc[w].handler
        /\ p.left = proc[w].left /\ p.at >= 1 /\ p.child = 0 /\ p.table = proc[w].table
    <3>1. proc[w].at \in Nat /\ proc[w].at >= 1 /\ proc[w].child = 0
      BY <1>0 DEF Process, Shaped
    <3>2. proc[w].at + 1 \in Nat /\ proc[w].at + 1 >= 1
      BY <3>1
    <3> QED BY <1>0, <3>1, <3>2 DEF Process
  <2> HIDE DEF p
  <2>3. Successor(w, p)
    BY <1>0, <2>2 DEF Successor, Shaped, Young, Starting, Working
  <2>4. Kept(proc[w]) \subseteq Kept(p)
    BY <1>0, <2>2 DEF Kept, Shaped
  <2> QED BY <1>0, <2>1, <2>2, <2>3, <2>4, BecomesInv
<1>2. CASE ~(proc[w].at <= Len(proc[w].table))
  <2> DEFINE q == [proc[w] EXCEPT !.at = 0]
  <2>1. Becomes(w, AfterEvent(w, q))
    BY <1>2 DEF Differs
  <2>2. /\ q \in Process /\ q.pc = "delete" /\ q.flag_end = proc[w].flag_end
        /\ q.parent = proc[w].parent /\ q.handler
        /\ q.left > 0 /\ q.child = 0 /\ q.table = proc[w].table
    BY <1>0 DEF Process, Shaped
  <2> HIDE DEF q
  <2>3. Kept(proc[w]) \subseteq Kept(q)
    BY <1>0, <2>2 DEF Kept, Shaped
  <2> QED BY <1>0, <2>1, <2>2, <2>3, AfterEventFacts, BecomesInv
<1> QED BY <1>1, <1>2

\* The handler of SIGUSR1 tells the table (SIG_USR2, ResCop.c:329-342).
LEMMA HandleInv ==
  ASSUME TypeOK, TreeInv, NEW w \in Watcher, Alive(w), Handle(w)
  PROVE  TypeOK' /\ TreeInv'
<1>0. /\ proc \in [Watcher -> Process] /\ proc[w] \in Process /\ Shaped(proc[w])
      /\ Alive(w) /\ pending \subseteq Watcher /\ missed \subseteq Watcher
  BY WatcherFacts DEF TypeOK
<1> DEFINE p == [proc[w] EXCEPT !.flag_end = FALSE]
<1>1. /\ proc' = [proc EXCEPT ![w] = p]
      /\ pending' = (pending \cup Hit(Listed(w))) \ {w}
      /\ missed' = missed \cup ({proc[w].child} \cap Watcher)
      /\ dpc' = DaemonHit(Listed(w))
      /\ UNCHANGED <<clientVars, fifoVars, names, last_aim, used, deletes>>
  BY <1>0 DEF Handle
<1>2. /\ p \in Process /\ p.pc = proc[w].pc /\ ~p.flag_end /\ p.child = proc[w].child
      /\ p.parent = proc[w].parent /\ p.table = proc[w].table /\ p.handler = proc[w].handler
      /\ p.left = proc[w].left /\ p.at = proc[w].at
  BY <1>0 DEF Process
<1> HIDE DEF p
<1>3. /\ proc' \in [Watcher -> Process] /\ proc'[w] = p
      /\ \A c \in Watcher : c # w => proc'[c] = proc[c]
      /\ \A c \in Watcher : proc'[c].parent = proc[c].parent /\ proc'[c].pc = proc[c].pc
                            /\ proc'[c].left = proc[c].left
  BY <1>0, <1>1, <1>2
<1>4. \A c \in Watcher : Alive(c)' <=> Alive(c)
  BY <1>3 DEF Alive
<1>5. \A c \in Watcher : Told(c) => Told(c)'
  BY <1>1, <1>2, <1>3 DEF Told
<1>6. Told(w)'
  BY <1>2, <1>3 DEF Told
<1>7. pending' \subseteq Watcher /\ missed' \subseteq Watcher /\ missed \subseteq missed'
      /\ dpc' \in {dpc, "killed"}
  BY <1>0, <1>1 DEF Hit, DaemonHit
<1>8. \A c \in Watcher : Kept(proc'[c]) = Kept(proc[c])
  BY <1>2, <1>3 DEF Kept
<1>9. (\A c \in Watcher : Shaped(proc[c]))'
  BY <1>0, <1>2, <1>3 DEF Shaped, TreeInv
<1>10. Ordered'
  <2>1. w <= used
    BY <1>0 DEF Alive, TreeInv, Ordered, Nobody, Watcher, TypeOK
  <2>2. \A c \in Watcher : c > used' => proc'[c] = Nobody
    BY <1>1, <1>3, <2>1 DEF TreeInv, Ordered, Watcher, TypeOK
  <2>3. last_aim' <= used'
    BY <1>1 DEF TreeInv, Ordered
  <2>4. \A v, c \in Watcher : proc'[c].parent = v => v < c /\ proc'[v].pc \notin Young
    BY <1>3 DEF TreeInv, Ordered
  <2> QED BY <2>2, <2>3, <2>4 DEF Ordered
<1>11. ASSUME NEW c \in Watcher, proc[c].parent = w, Alive(c), ~Told(c)'
       PROVE  c \in missed'
  <2>1. c # w
    BY <1>6, <1>11
  <2>2. c \in missed \/ c \in Kept(proc[w])
    BY <1>0, <1>5, <1>11 DEF TreeInv, Known
  <2>3. CASE c \in Kept(proc[w]) /\ c # proc[w].child
    <3>1. c \in Listed(w)
      BY <2>3 DEF Kept, Listed, Process
    <3>2. c \in pending'
      BY <1>1, <1>11, <2>1, <3>1 DEF Hit
    <3> QED BY <1>11, <3>2 DEF Told
  <2> QED BY <1>1, <1>7, <2>2, <2>3
<1>12. Known' /\ Strayed'
  BY <1>3, <1>4, <1>5, <1>7, <1>8 DEF TreeInv, Known, Strayed
<1>13. Escapes'
  <2> SUFFICES ASSUME NEW v \in Watcher, NEW c \in Watcher,
                      proc'[c].parent = v, Alive(c)', ~Told(c)',
                      proc'[v].pc = "ended" \/ ~proc'[v].flag_end
               PROVE  c \in missed'
    BY DEF Escapes
  <2>1. CASE v = w
    BY <1>3, <1>4, <1>11, <2>1
  <2>2. CASE v # w
    BY <1>3, <1>4, <1>5, <1>7, <2>2 DEF TreeInv, Escapes
  <2> QED BY <2>1, <2>2
<1>14. LastTold' /\ OneTree'
  <2>1. LastTold'
    BY <1>1, <1>4, <1>5, <1>7 DEF TreeInv, LastTold
  <2>2. OneTree'
    BY <1>1, <1>3, <1>4, <1>5 DEF TreeInv, OneTree
  <2> QED BY <2>1, <2>2
<1>15. TreeInv'
  BY <1>9, <1>10, <1>12, <1>13, <1>14 DEF TreeInv
<1>16. TypeOK'
  BY <1>1, <1>3, <1>7 DEF TypeOK, clientVars, fifoVars
<1> QED BY <1>15, <1>16

\* A watcher gets SIGUSR1, or signals itself (ResCop.c:189).
LEMMA DeliverInv ==
  ASSUME TypeOK, TreeInv, NEW w \in Watcher, Deliver(w) \/ RaiseSelf(w)
  PROVE  TypeOK' /\ TreeInv'
<1>1. CASE Handle(w)
  <2>1. Alive(w)
    BY DEF Deliver, RaiseSelf, Alive
  <2> QED BY <1>1, <2>1, HandleInv
<1>2. CASE ~Handle(w)
  <2>0. /\ proc \in [Watcher -> Process] /\ proc[w] \in Process /\ Shaped(proc[w])
        /\ Alive(w) /\ pending \subseteq Watcher /\ missed \subseteq Watcher /\ ~proc[w].handler
    BY <1>2, WatcherFacts DEF Deliver, RaiseSelf, TypeOK
  <2>1. /\ pending' = pending \ {w} /\ proc' = [proc EXCEPT ![w] = Gone(w)]
        /\ UNCHANGED <<dpc, missed, clientVars, fifoVars, names, last_aim, used, deletes>>
    BY <1>2 DEF Deliver, RaiseSelf, daemonVars
  <2>2. proc[w].pc \in Young
    BY <2>0 DEF Shaped, Alive, Young
  <2>3. /\ proc' \in [Watcher -> Process] /\ proc'[w] = Gone(w)
        /\ \A c \in Watcher : c # w => proc'[c] = proc[c]
        /\ \A c \in Watcher : proc'[c].parent = proc[c].parent
    BY <2>0, <2>1, GoneFacts
  <2>4. /\ ~Alive(w)' /\ Gone(w).pc = "ended"
        /\ \A c \in Watcher : c # w => (Alive(c)' <=> Alive(c)) /\ (Told(c)' <=> Told(c))
    BY <2>1, <2>3, GoneFacts DEF Alive, Told
  <2>5. \A c \in Watcher : proc[c].parent # w
    BY <2>2 DEF TreeInv, Ordered
  <2>6. (\A c \in Watcher : Shaped(proc[c]))'
    BY <2>3, GoneFacts DEF TreeInv
  <2>7. Ordered'
    <3>1. w <= used
      BY <2>0 DEF Alive, TreeInv, Ordered, Nobody, Watcher, TypeOK
    <3>2. \A c \in Watcher : c > used' => proc'[c] = Nobody
      BY <2>1, <2>3, <3>1 DEF TreeInv, Ordered, Watcher, TypeOK
    <3>3. \A v, c \in Watcher : proc'[c].parent = v => v < c /\ proc'[v].pc \notin Young
      BY <2>3, <2>5 DEF TreeInv, Ordered
    <3> QED BY <2>1, <3>2, <3>3 DEF Ordered, TreeInv
  <2>13. Strayed'
    BY <2>1, <2>3, <2>5 DEF Strayed, TreeInv
  <2>8. Known'
    BY <2>1, <2>3, <2>4, <2>5 DEF Known, TreeInv
  <2>9. Escapes'
    BY <2>1, <2>3, <2>4, <2>5 DEF Escapes, TreeInv
  <2>10. LastTold'
    BY <2>1, <2>4 DEF LastTold, TreeInv
  <2>11. OneTree'
    BY <2>1, <2>3, <2>4 DEF OneTree, TreeInv
  <2>12. TypeOK'
    <3>1. \A c \in Watcher : proc'[c].pc \in {"event", "record", "delete", "swap", "stuck"}
                               => proc'[c].left > 0
      BY <2>3, <2>4 DEF TypeOK
    <3> QED BY <2>0, <2>1, <2>3, <3>1 DEF TypeOK, clientVars, fifoVars
  <2> QED BY <2>6, <2>7, <2>8, <2>9, <2>10, <2>11, <2>12, <2>13 DEF TreeInv
<1> QED BY <1>1, <1>2

\* Watcher w becomes p and forks new, whom it knows or who is missed: the tree stays together.
LEMMA ForkedInv ==
  ASSUME TypeOK, TreeInv, NEW w \in Watcher, Alive(w), MayFork, NEW p, NEW new,
         used' = used + 1, proc' = [proc EXCEPT ![w] = p, ![used + 1] = new],
         UNCHANGED <<clientVars, fifoVars, daemonVars, deletes, pending>>,
         missed \subseteq missed', missed' \subseteq Watcher,
         p \in Process, Shaped(p), p.pc \notin Young \cup {"ended"}, p.parent = proc[w].parent,
         p.flag_end = proc[w].flag_end, p.pc \in Working => p.left > 0,
         p.pc \in Starting => used + 1 \in missed' /\ proc[w].pc \in Young \cup Starting,
         Kept(proc[w]) \ {0} \subseteq Kept(p), used + 1 \in Kept(p) \cup missed',
         new \in Process, Shaped(new), new.pc \in {"forked"} \cup Starting, new.parent = w,
         new.flag_end = proc[w].flag_end
  PROVE  TypeOK' /\ TreeInv'
<1> DEFINE k == used + 1
<1>0. /\ proc \in [Watcher -> Process] /\ pending \subseteq Watcher /\ missed \subseteq Watcher
      /\ used \in 0 .. MaxWatchers /\ used' = k /\ Alive(w)
      /\ k \in Watcher /\ w <= used /\ w # k /\ proc[k] = Nobody /\ k \in Int
      /\ UNCHANGED <<clientVars, fifoVars, daemonVars, deletes, pending>>
      /\ missed \subseteq missed' /\ missed' \subseteq Watcher
  <2>1. used \in 0 .. MaxWatchers /\ used < MaxWatchers
    BY DEF TypeOK, MayFork
  <2>2. k \in Watcher /\ k > used /\ k \in Int
    BY <2>1 DEF Watcher
  <2>3. w <= used
    BY <2>1 DEF TreeInv, Ordered, Nobody, Watcher, Alive
  <2>4. proc[k] = Nobody
    BY <2>2 DEF TreeInv, Ordered
  <2>5. w # k
    BY <2>1, <2>3 DEF Watcher
  <2> QED BY <2>1, <2>2, <2>3, <2>4, <2>5 DEF TypeOK
<1>1. proc'[w] = p /\ proc'[k] = new /\ proc' = [proc EXCEPT ![w] = p, ![k] = new]
  BY <1>0
<1>2. /\ p \in Process /\ p.pc \notin Young /\ p.pc # "ended" /\ (p.pc \in Working => p.left > 0)
      /\ p.parent = proc[w].parent /\ p.flag_end = proc[w].flag_end /\ Shaped(p)
      /\ Kept(proc[w]) \ {0} \subseteq Kept(p) /\ k \in Kept(p) \cup missed'
      /\ p.pc \in Starting => k \in missed' /\ proc[w].pc \in Young \cup Starting
  OBVIOUS
<1>3. /\ new \in Process /\ Shaped(new) /\ new.pc \in {"forked"} \cup Starting /\ new.parent = w
      /\ new.flag_end = proc[w].flag_end
  OBVIOUS
<1> HIDE DEF k
<1>4. /\ proc' \in [Watcher -> Process]
      /\ \A c \in Watcher : c # w /\ c # k => proc'[c] = proc[c]
      /\ \A c \in Watcher : c # k => proc'[c].parent = proc[c].parent
  BY <1>0, <1>1, <1>2, <1>3
<1>5. \A c \in Watcher : c # k => (Alive(c)' <=> Alive(c)) /\ (Told(c)' <=> Told(c))
  BY <1>0, <1>1, <1>2, <1>4 DEF Alive, Told, signals, Young
<1>6. \A c \in Watcher : proc'[c].parent # k
  <2>1. \A c \in Watcher : proc[c].parent # k
    BY <1>0 DEF TreeInv, Ordered, Nobody, Young
  <2> QED BY <1>0, <1>1, <1>3, <1>4, <2>1
<1>7. (\A c \in Watcher : Shaped(proc[c]))'
  BY <1>1, <1>2, <1>3, <1>4 DEF TreeInv
<1>8. Ordered'
  <2>1. \A c \in Watcher : c > used' => proc'[c] = Nobody
    BY <1>0, <1>4 DEF TreeInv, Ordered, Watcher, k
  <2>2. last_aim' <= used'
    BY <1>0 DEF TreeInv, Ordered, daemonVars, TypeOK, Watcher, FIRST_AIM, k
  <2>3. w < k
    BY <1>0 DEF k, Watcher
  <2>4. \A v, c \in Watcher : proc'[c].parent = v => v < c /\ proc'[v].pc \notin Young
    BY <1>1, <1>2, <1>3, <1>4, <1>6, <2>3 DEF TreeInv, Ordered
  <2> QED BY <2>1, <2>2, <2>4 DEF Ordered
<1>15. Strayed'
  BY <1>0, <1>1, <1>2, <1>3, <1>4, <1>6 DEF TreeInv, Strayed, Ordered
<1>9. Known'
  <2> SUFFICES ASSUME NEW v \in Watcher, NEW c \in Watcher,
                      proc'[c].parent = v, Alive(c)', ~Told(c)', Alive(v)'
               PROVE  c \in missed' \/ c \in Kept(proc'[v])
    BY DEF Known
  <2>1. CASE c = k
    BY <1>1, <1>2, <1>3, <2>1
  <2>2. CASE c # k
    <3>1. c \in missed \/ c \in Kept(proc[v])
      BY <1>4, <1>5, <1>6, <2>2 DEF TreeInv, Known
    <3>2. c # 0
      BY DEF Watcher
    <3> QED BY <1>0, <1>1, <1>2, <1>4, <1>6, <2>2, <3>1, <3>2 DEF signals
  <2> QED BY <2>1, <2>2
<1>10. Escapes'
  <2> SUFFICES ASSUME NEW v \in Watcher, NEW c \in Watcher,
                      proc'[c].parent = v, Alive(c)', ~Told(c)',
                      proc'[v].pc = "ended" \/ ~proc'[v].flag_end
               PROVE  c \in missed'
    BY DEF Escapes
  <2>1. CASE c = k
    BY <1>1, <1>2, <1>3, <2>1 DEF Told
  <2>2. CASE c # k
    <3>1. proc[c].parent = v /\ Alive(c) /\ ~Told(c) /\ v # k
      BY <1>4, <1>5, <1>6, <2>2
    <3>2. proc[v].pc = "ended" \/ ~proc[v].flag_end
      BY <1>1, <1>2, <1>4, <3>1
    <3> QED BY <1>0, <3>1, <3>2 DEF TreeInv, Escapes, signals
  <2> QED BY <2>1, <2>2
<1>11. last_aim # k
  BY <1>0 DEF TreeInv, Ordered, k
<1>12. LastTold'
  BY <1>0, <1>5, <1>11 DEF TreeInv, LastTold, daemonVars
<1>13. OneTree'
  <2>1. w # 0
    BY DEF Watcher
  <2> QED BY <1>0, <1>1, <1>3, <1>4, <1>5, <2>1 DEF TreeInv, OneTree, daemonVars
<1>14. TypeOK'
  <2>1. \A c \in Watcher : proc'[c].pc \in {"event", "record", "delete", "swap", "stuck"}
                             => proc'[c].left > 0
    BY <1>1, <1>2, <1>3, <1>4 DEF TypeOK, Working, Starting
  <2>2. used' \in 0 .. MaxWatchers
    BY <1>0 DEF Watcher
  <2> QED BY <1>0, <1>4, <2>1, <2>2 DEF TypeOK, clientVars, fifoVars, daemonVars, signals
<1> QED BY <1>7, <1>8, <1>9, <1>10, <1>12, <1>13, <1>14, <1>15 DEF TreeInv

\* A watcher forks one for a new folder, which has everything that it has but pending
\* signals (ResCop.c:95-115, 266-279).
LEMMA ForkInv ==
  ASSUME TypeOK, TreeInv, NEW w \in Watcher, ForkWatcher(w)
  PROVE  TypeOK' /\ TreeInv'
<1> DEFINE k == used + 1
           new == [proc[w] EXCEPT !.pc = "forked", !.parent = w]
<1>0. /\ proc \in [Watcher -> Process] /\ proc[w] \in Process /\ Shaped(proc[w])
      /\ proc[w].pc = "event" /\ proc[w].left > 0 /\ proc[w].child = 0 /\ proc[w].handler
      /\ pending \subseteq Watcher /\ missed \subseteq Watcher /\ used \in 0 .. MaxWatchers
  BY WatcherFacts DEF ForkWatcher, TypeOK, Working, Shaped
<1>1. k \in Watcher /\ w <= used /\ w # k /\ proc[k] = Nobody /\ k \in Int
  <2>1. used < MaxWatchers
    BY <1>0 DEF ForkWatcher, MayFork
  <2>2. k \in Watcher /\ k > used
    BY <1>0, <2>1 DEF Watcher
  <2>3. w <= used
    BY <1>0 DEF TreeInv, Ordered, Nobody, Watcher
  <2> QED BY <1>0, <2>2, <2>3 DEF TreeInv, Ordered, Watcher
<1>2. /\ used' = k
      /\ UNCHANGED <<clientVars, fifoVars, daemonVars, deletes, signals>>
  BY DEF ForkWatcher
<1>3. ASSUME NEW child \in {-1, k}, NEW p,
             p = [proc[w] EXCEPT !.pc = "record", !.child = child]
      PROVE  /\ p \in Process /\ p.pc = "record" /\ p.child = child /\ p.left > 0
             /\ p.parent = proc[w].parent /\ p.flag_end = proc[w].flag_end
             /\ p.table = proc[w].table /\ Shaped(p)
             /\ Kept(proc[w]) \ {0} \subseteq Kept(p) /\ child \in Kept(p)
  <2>1. child \in Pid /\ child # 0 /\ "record" \in State
    BY <1>0, <1>1, <1>3 DEF Pid, State, Watcher
  <2>2. /\ p \in Process /\ p.pc = "record" /\ p.child = child /\ p.left = proc[w].left
        /\ p.parent = proc[w].parent /\ p.flag_end = proc[w].flag_end
        /\ p.table = proc[w].table /\ p.handler = proc[w].handler
    BY <1>0, <1>3, <2>1 DEF Process
  <2> QED BY <1>0, <2>1, <2>2 DEF Shaped, Kept
<1>4. CASE proc' = [proc EXCEPT ![w].pc = "record", ![w].child = -1]
  <2> DEFINE p == [proc[w] EXCEPT !.pc = "record", !.child = -1]
  <2>1. proc' = [proc EXCEPT ![w] = p]
    BY <1>0, <1>4
  <2>2. /\ p \in Process /\ p.pc = "record" /\ p.left > 0
        /\ p.parent = proc[w].parent /\ p.flag_end = proc[w].flag_end
        /\ Shaped(p) /\ Kept(proc[w]) \ {0} \subseteq Kept(p)
    BY <1>3
  <2> HIDE DEF p
  <2>3. /\ proc' \in [Watcher -> Process] /\ proc'[w] = p
        /\ \A c \in Watcher : c # w => proc'[c] = proc[c]
        /\ \A c \in Watcher : proc'[c].parent = proc[c].parent
    BY <1>0, <2>1, <2>2
  <2>4. \A c \in Watcher : (Alive(c)' <=> Alive(c)) /\ (Told(c)' <=> Told(c))
    BY <1>0, <1>2, <2>2, <2>3 DEF Alive, Told, signals
  <2>5. (\A c \in Watcher : Shaped(proc[c]))'
    BY <2>2, <2>3 DEF TreeInv
  <2>6. Ordered'
    <3>1. \A c \in Watcher : c > used' => proc'[c] = Nobody
      BY <1>0, <1>1, <1>2, <2>3 DEF TreeInv, Ordered, Watcher
    <3>2. last_aim' <= used'
      BY <1>0, <1>2 DEF TreeInv, Ordered, daemonVars, TypeOK, Watcher, FIRST_AIM
    <3>3. \A v, c \in Watcher : proc'[c].parent = v => v < c /\ proc'[v].pc \notin Young
      BY <2>2, <2>3 DEF TreeInv, Ordered, Young
    <3> QED BY <3>1, <3>2, <3>3 DEF Ordered
  <2>11. Strayed'
    BY <1>2, <2>2, <2>3 DEF TreeInv, Strayed, Starting, signals
  <2>7. Known'
    <3> SUFFICES ASSUME NEW v \in Watcher, NEW c \in Watcher,
                        proc[c].parent = v, Alive(c), ~Told(c), Alive(v)
                 PROVE  c \in missed' \/ c \in Kept(proc'[v])
      BY <2>3, <2>4 DEF Known
    <3>1. c \in missed \/ c \in Kept(proc[v])
      BY DEF TreeInv, Known
    <3>2. c # 0
      BY DEF Watcher
    <3> QED BY <1>2, <2>2, <2>3, <3>1, <3>2 DEF signals
  <2>8. Escapes'
    BY <1>0, <1>2, <2>2, <2>3, <2>4 DEF TreeInv, Escapes, signals
  <2>9. LastTold' /\ OneTree'
    BY <1>2, <2>3, <2>4 DEF TreeInv, LastTold, OneTree, daemonVars
  <2>10. TypeOK'
    <3>1. \A c \in Watcher : proc'[c].pc \in {"event", "record", "delete", "swap", "stuck"}
                               => proc'[c].left > 0
      BY <2>2, <2>3 DEF TypeOK
    <3>2. used' \in 0 .. MaxWatchers
      BY <1>1, <1>2 DEF Watcher
    <3> QED BY <1>2, <2>3, <3>1, <3>2 DEF TypeOK, clientVars, fifoVars, daemonVars, signals
  <2> QED BY <2>5, <2>6, <2>7, <2>8, <2>9, <2>10, <2>11 DEF TreeInv
<1>5. CASE proc' = [proc EXCEPT ![w].pc = "record", ![w].child = k, ![k] = new]
  <2> DEFINE p == [proc[w] EXCEPT !.pc = "record", !.child = k]
  <2>1. proc' = [proc EXCEPT ![w] = p, ![k] = new]
    BY <1>0, <1>1, <1>5
  <2>2. /\ p \in Process /\ p.pc = "record" /\ p.left > 0
        /\ p.parent = proc[w].parent /\ p.flag_end = proc[w].flag_end
        /\ Shaped(p) /\ Kept(proc[w]) \ {0} \subseteq Kept(p) /\ k \in Kept(p)
    BY <1>3
  <2>3. /\ new \in Process /\ new.pc = "forked" /\ new.parent = w /\ new.child = 0
        /\ new.flag_end = proc[w].flag_end
    <3>1. "forked" \in State /\ w \in 0 .. MaxWatchers
      BY DEF State, Watcher
    <3> QED BY <1>0, <3>1 DEF Process
  <2> HIDE DEF p, new
  <2>4. Shaped(new) /\ Alive(w) /\ MayFork /\ missed' = missed
    BY <1>0, <2>3 DEF Shaped, Alive, ForkWatcher, signals
  <2>5. UNCHANGED <<clientVars, fifoVars, daemonVars, deletes, pending>>
    BY <1>2 DEF signals
  <2>6. p.pc \notin Young \cup Starting \cup {"ended"}
    BY <2>2 DEF Young, Starting
  <2> QED BY <1>0, <1>2, <2>1, <2>2, <2>3, <2>4, <2>5, <2>6, ForkedInv
<1> QED BY <1>0, <1>1, <1>4, <1>5 DEF ForkWatcher

\* A child whose execlp fails in CheckFolder goes on as a watcher (ResCop.c:33-34, 39-44).
LEMMA StrayInv ==
  ASSUME TypeOK, TreeInv, NEW w \in Watcher, RemoveStrays(w) \/ CopyStrays(w)
  PROVE  TypeOK' /\ TreeInv'
<1> DEFINE k == used + 1
<1>0. /\ proc \in [Watcher -> Process] /\ proc[w] \in Process /\ Shaped(proc[w])
      /\ proc[w].pc \in {"check", "copy"} /\ missed \subseteq Watcher /\ used \in 0 .. MaxWatchers
  BY WatcherFacts DEF RemoveStrays, CopyStrays, TypeOK
<1>1. PICK pc \in {"wait", "setup"}, its \in {"copy", "setup"} : Strays(w, pc, its)
  BY DEF RemoveStrays, CopyStrays
<1> DEFINE p   == [proc[w] EXCEPT !.pc = pc]
           new == [proc[w] EXCEPT !.pc = its, !.parent = w]
<1>2. k \in Watcher /\ w # k
  <2>1. used < MaxWatchers
    BY <1>0, <1>1 DEF Strays, MayFork
  <2>2. w <= used
    BY <1>0 DEF TreeInv, Ordered, Nobody, Watcher
  <2> QED BY <1>0, <2>1, <2>2 DEF Watcher
<1>3. proc' = [proc EXCEPT ![w] = p, ![k] = new]
  BY <1>0, <1>1, <1>2 DEF Strays
<1>4. pc \in State /\ its \in State /\ w \in 0 .. MaxWatchers
  BY DEF State, Watcher
<1>5. /\ p \in Process /\ p.pc = pc /\ p.parent = proc[w].parent /\ p.child = proc[w].child
      /\ p.flag_end = proc[w].flag_end /\ p.table = proc[w].table /\ p.handler = proc[w].handler
  BY <1>0, <1>4 DEF Process
<1>6. /\ new \in Process /\ new.pc = its /\ new.parent = w /\ new.child = proc[w].child
      /\ new.flag_end = proc[w].flag_end /\ new.handler = proc[w].handler
  BY <1>0, <1>4 DEF Process
<1> HIDE DEF p, new
<1>7. Shaped(p) /\ Shaped(new)
  BY <1>0, <1>5, <1>6 DEF Shaped
<1>8. Kept(proc[w]) \subseteq Kept(p)
  BY <1>0, <1>5 DEF Kept
<1>9. /\ p.pc \notin Young \cup {"ended"} \cup Working /\ p.pc \in Starting /\ new.pc \in Starting
      /\ proc[w].pc \in Young \cup Starting /\ Alive(w)
  BY <1>0, <1>5, <1>6 DEF Young, Starting, Working, Alive
<1>10. /\ MayFork /\ used' = k /\ missed' = missed \cup {k}
       /\ UNCHANGED <<clientVars, fifoVars, daemonVars, deletes, pending>>
  BY <1>1 DEF Strays
<1>11. missed \subseteq missed' /\ missed' \subseteq Watcher /\ k \in missed'
  BY <1>0, <1>2, <1>10
<1> QED BY <1>3, <1>5, <1>6, <1>7, <1>8, <1>9, <1>10, <1>11, ForkedInv

\* Every step of a watcher keeps the tree together.
LEMMA WatcherInv ==
  ASSUME TypeOK, TreeInv, NEW w \in Watcher,
         WatcherStep(w) \/ WatcherEvent(w)
  PROVE  TypeOK' /\ TreeInv'
BY BeginInv, StrayInv, WaitInv, AbortInv, RecordInv, DeleteFolderInv, MatchesInv, SwapInv,
   DiffersInv, DeliverInv, ForkInv DEF WatcherStep, WatcherEvent

-----------------------------------------------------------------------------
(* The daemon and the clients. *)

\* A step in which no watcher changes, and signals are only sent.
LEMMA QuietTree ==
  ASSUME TypeOK, TreeInv, UNCHANGED <<used, proc, last_aim, missed>>,
         pending \subseteq pending', LastTold'
  PROVE  TreeInv'
<1>1. \A w \in Watcher : (Alive(w)' <=> Alive(w)) /\ (Told(w) => Told(w)')
  BY DEF Alive, Told
<1>2. Ordered' /\ (\A w \in Watcher : Shaped(proc[w]))'
  BY DEF TreeInv, Ordered
<1>3. Known' /\ Strayed'
  BY <1>1 DEF TreeInv, Known, Strayed
<1>4. OneTree' /\ Escapes'
  BY <1>1 DEF TreeInv, OneTree, Escapes
<1> QED BY <1>2, <1>3, <1>4 DEF TreeInv

\* What is left in the FIFO after a read.
LEMMA RestOfFifo ==
  ASSUME TypeOK, fifo # <<>>
  PROVE  /\ Tail(fifo) \in Seq(Message) /\ Head(fifo) \in Message
         /\ Swallow => fifo' \in Seq(Message)
<1>1. fifo \in Seq(Message)
  BY DEF TypeOK
<1>2. ASSUME NEW n \in 2 .. (Len(fifo) + 1)
      PROVE  SubSeq(fifo, n, Len(fifo)) \in Seq(Message)
  <2>1. Len(fifo) \in Nat /\ \A i \in 1 .. Len(fifo) : fifo[i] \in Message
    BY <1>1, ElementOfSeq, LenProperties
  <2>2. n \in Int /\ Len(fifo) \in Int /\ \A i \in n .. Len(fifo) : fifo[i] \in Message
    BY <1>1, <2>1
  <2> QED BY <2>2, SubSeqProperties
<1> QED BY <1>1, <1>2, HeadTailProperties DEF Swallow

\* The daemon reads a number (main.c:37-67).
LEMMA ReadNumInv ==
  ASSUME TypeOK, TreeInv, ReadNum
  PROVE  TypeOK' /\ TreeInv'
<1>1. /\ UNCHANGED <<clientVars, astray, names, last_aim, treeVars, missed>>
      /\ fifo' = Tail(fifo) \/ Swallow
      /\ NumZero \/ NumStop \/ NumOther
      /\ fifo # <<>>
  BY DEF ReadNum
<1>2. pending \subseteq pending' /\ pending' \subseteq Watcher
  BY <1>1 DEF NumZero, NumStop, NumOther, TellLast, Hit, TypeOK
<1>3. LastTold'
  <2>1. CASE NumZero
    <3> SUFFICES ASSUME last_aim \in Watcher, Alive(last_aim)
                 PROVE  last_aim \in pending'
      BY <1>1 DEF LastTold, Alive, Told, treeVars
    <3>1. last_aim # FIRST_AIM
      BY DEF Watcher, FIRST_AIM
    <3> QED BY <2>1, <3>1 DEF NumZero, TellLast, Hit
  <2>2. CASE NumStop \/ NumOther
    BY <2>2 DEF NumStop, NumOther, LastTold
  <2> QED BY <1>1, <2>1, <2>2
<1>4. TreeInv'
  BY <1>1, <1>2, <1>3, QuietTree DEF treeVars
<1>5. dpc' \in {"len_in", "stopped", "aborted"}
  BY <1>1 DEF NumZero, NumStop, NumOther
<1>6. fifo' \in Seq(Message)
  BY <1>1, RestOfFifo
<1> QED BY <1>1, <1>2, <1>4, <1>5, <1>6 DEF TypeOK, clientVars, treeVars

\* The daemon reads a name (ReadNameFile, main.c:85-94).
LEMMA ReadNamesInv ==
  ASSUME TypeOK, TreeInv, ReadNames
  PROVE  TypeOK' /\ TreeInv'
<1>0. TypeOK
  OBVIOUS
<1>1. ASSUME NEW len \in {"len_in", "len_out"}, NEW which \in {"in", "out"},
             NEW next \in {"len_out", "add"}, ReadLength(len, which, next)
      PROVE  TypeOK' /\ TreeInv'
  <2>1. /\ UNCHANGED <<clientVars, last_aim, treeVars, signals>> /\ dpc = len
        /\ dpc' \in {which, next}
        /\ names' \in {names, [names EXCEPT ![which] = NoClient]}
        /\ astray' \in {astray, TRUE}
        /\ fifo' = fifo \/ (fifo # <<>> /\ (fifo' = Tail(fifo) \/ Swallow))
    BY <1>1 DEF ReadLength, Expects
  <2>2. LastTold'
    BY <2>1 DEF LastTold, TreeInv, Alive, Told, treeVars, signals
  <2>3. TreeInv'
    BY <2>1, <2>2, QuietTree DEF treeVars, signals
  <2>4. fifo' \in Seq(Message)
    BY <2>1, RestOfFifo DEF TypeOK
  <2>5. names' \in [{"in", "out"} -> Client \cup {NoClient}] /\ astray' \in BOOLEAN
    BY <2>1 DEF TypeOK
  <2>6. dpc' \in {"in", "out", "len_out", "add"}
    BY <2>1
  <2> QED BY <2>1, <2>3, <2>4, <2>5, <2>6 DEF TypeOK, clientVars, treeVars, signals
<1>2. ASSUME NEW which \in {"in", "out"}, NEW next \in {"len_out", "add"},
             ReadText(which, next)
      PROVE  TypeOK' /\ TreeInv'
  <2>1. /\ UNCHANGED <<clientVars, last_aim, treeVars, signals>> /\ dpc = which
        /\ dpc' = next
        /\ \/ names' = [names EXCEPT ![which] = NoClient]
           \/ names' = [names EXCEPT ![which] = Head(fifo).by] /\ fifo # <<>>
        /\ astray' \in {astray, TRUE}
        /\ fifo' = fifo \/ (fifo # <<>> /\ (fifo' = Tail(fifo) \/ Swallow))
    BY <1>2 DEF ReadText, Expects, fifoVars
  <2>2. LastTold'
    BY <2>1 DEF LastTold, TreeInv, Alive, Told, treeVars, signals
  <2>3. TreeInv'
    BY <2>1, <2>2, QuietTree DEF treeVars, signals
  <2>4. fifo' \in Seq(Message)
    BY <2>1, RestOfFifo DEF TypeOK
  <2>5. fifo # <<>> => Head(fifo).by \in Client
    BY RestOfFifo DEF Message
  <2>6. names' \in [{"in", "out"} -> Client \cup {NoClient}] /\ astray' \in BOOLEAN
    BY <2>1, <2>5 DEF TypeOK
  <2> QED BY <2>1, <2>3, <2>4, <2>6 DEF TypeOK, clientVars, treeVars, signals
<1> QED BY <1>1, <1>2 DEF ReadNames

\* The daemon starts a watcher (main.c:56-58); it has told the one before.
LEMMA StartInv ==
  ASSUME TypeOK, TreeInv, Start
  PROVE  TypeOK' /\ TreeInv'
<1> DEFINE k == used + 1
           new == [proc[k] EXCEPT !.pc = "forked"]
<1>0. /\ proc \in [Watcher -> Process] /\ used \in 0 .. MaxWatchers /\ dpc = "add"
      /\ used' = k /\ dpc' = "num"
      /\ UNCHANGED <<clientVars, fifoVars, names, deletes, signals>>
  BY DEF Start, TypeOK
<1>1. k \in Watcher /\ proc[k] = Nobody
  <2>1. used < MaxWatchers
    BY <1>0 DEF Start, MayFork
  <2>2. k \in Watcher /\ k > used
    BY <1>0, <2>1 DEF Watcher
  <2> QED BY <2>2 DEF TreeInv, Ordered
<1>2. LastTold'
  BY <1>0 DEF LastTold
<1>3. \A w \in Watcher : Alive(w) /\ proc[w].parent = 0 => Told(w)
  <2>1. last_aim \in Watcher => (Alive(last_aim) => Told(last_aim))
    BY <1>0 DEF TreeInv, LastTold
  <2> QED BY <2>1 DEF TreeInv, OneTree
<1>4. CASE last_aim' = FIRST_AIM /\ UNCHANGED proc
  <2>1. \A w \in Watcher : (Alive(w)' <=> Alive(w)) /\ (Told(w)' <=> Told(w))
    BY <1>0, <1>4 DEF Alive, Told, signals
  <2>2. Ordered'
    BY <1>0, <1>4 DEF TreeInv, Ordered, Watcher, FIRST_AIM
  <2>3. Known' /\ Escapes'
    BY <1>0, <1>4, <2>1 DEF TreeInv, Known, Escapes, signals
  <2>4. OneTree'
    BY <1>3, <1>4, <2>1 DEF OneTree
  <2>5. (\A w \in Watcher : Shaped(proc[w]))' /\ Strayed'
    BY <1>0, <1>4 DEF TreeInv, Strayed, signals
  <2>6. TypeOK'
    BY <1>0, <1>1, <1>4 DEF TypeOK, clientVars, fifoVars, signals, Watcher
  <2> QED BY <1>2, <2>2, <2>3, <2>4, <2>5, <2>6 DEF TreeInv
<1>5. CASE last_aim' = k /\ proc' = [proc EXCEPT ![k].pc = "forked"]
  <2>1. /\ new \in Process /\ new.pc = "forked" /\ new.parent = 0 /\ new.child = 0
    <3>1. proc[k] \in Process /\ "forked" \in State /\ proc[k].parent = 0 /\ proc[k].child = 0
      BY <1>0, <1>1 DEF State, Nobody
    <3> HIDE DEF k
    <3> QED BY <3>1 DEF Process
  <2> HIDE DEF k, new
  <2>2. /\ proc' \in [Watcher -> Process] /\ proc'[k] = new
        /\ \A w \in Watcher : w # k => proc'[w] = proc[w]
        /\ \A w \in Watcher : proc'[w].parent = proc[w].parent
    BY <1>0, <1>1, <1>5, <2>1 DEF new, Nobody
  <2>3. \A w \in Watcher : w # k => (Alive(w)' <=> Alive(w)) /\ (Told(w)' <=> Told(w))
    BY <1>0, <2>2 DEF Alive, Told, signals
  <2>4. \A w \in Watcher : proc[w].parent # k
    BY <1>1 DEF TreeInv, Ordered, Nobody, Young
  <2>5. proc[k].parent = 0 /\ \A w \in Watcher : w # 0
    BY <1>1 DEF Nobody, Watcher
  <2>6. (\A w \in Watcher : Shaped(proc[w]))'
    BY <2>1, <2>2 DEF TreeInv, Shaped
  <2>7. Ordered'
    <3>1. \A c \in Watcher : c > used' => proc'[c] = Nobody
      BY <1>0, <1>1, <2>2 DEF TreeInv, Ordered, Watcher, k
    <3>2. last_aim' <= used'
      BY <1>0, <1>1, <1>5 DEF k, Watcher
    <3>3. \A v, c \in Watcher : proc'[c].parent = v => v < c /\ proc'[v].pc \notin Young
      BY <2>2, <2>4 DEF TreeInv, Ordered
    <3> QED BY <3>1, <3>2, <3>3 DEF Ordered
  <2>12. Strayed'
    BY <1>0, <2>1, <2>2, <2>4 DEF TreeInv, Strayed, signals
  <2>8. Known'
    BY <1>0, <2>2, <2>3, <2>4, <2>5 DEF TreeInv, Known, signals
  <2>9. Escapes'
    BY <1>0, <2>2, <2>3, <2>4, <2>5 DEF TreeInv, Escapes, signals
  <2>10. OneTree'
    BY <1>3, <1>5, <2>2, <2>3 DEF OneTree
  <2>11. TypeOK'
    <3>1. \A c \in Watcher : proc'[c].pc \in {"event", "record", "delete", "swap", "stuck"}
                               => proc'[c].left > 0
      BY <2>1, <2>2 DEF TypeOK
    <3>2. used' \in 0 .. MaxWatchers
      BY <1>0, <1>1 DEF Watcher
    <3> QED BY <1>0, <1>1, <1>5, <2>2, <3>1, <3>2 DEF TypeOK, clientVars, fifoVars, signals
  <2> QED BY <1>2, <2>6, <2>7, <2>8, <2>9, <2>10, <2>11, <2>12 DEF TreeInv
<1> QED BY <1>4, <1>5 DEF Start

\* What a client writes.
LEMMA WritesFacts ==
  ASSUME TypeOK, NEW c \in Client
  PROVE  /\ Len(Writes(c)) \in 1 .. 5
         /\ \A i \in 1 .. Len(Writes(c)) :
              Writes(c)[i] \in {"stop", "zero", "len_in", "in", "len_out", "out"}
BY DEF Writes

\* The clients (change.c:8-37).
LEMMA ClientInv ==
  ASSUME TypeOK, TreeInv, NEW c \in Client, ClientStep(c)
  PROVE  TypeOK' /\ TreeInv'
<1>1. UNCHANGED <<wish, careful, astray, daemonVars, treeVars, signals>>
  BY DEF ClientStep, Open, Write, Close, Die, fifoVars
<1>2. TreeInv'
  <2>1. LastTold'
    BY <1>1 DEF TreeInv, LastTold, Alive, Told, daemonVars, treeVars, signals
  <2> QED BY <1>1, <2>1, QuietTree DEF daemonVars, treeVars, signals
<1>3. wrote' \in [Client -> 0 .. 5] /\ fifo' \in Seq(Message)
  <2>1. CASE Write(c)
    <3> DEFINE m == [by |-> c, what |-> Writes(c)[wrote[c] + 1]]
    <3>1. wrote[c] \in 0 .. 5 /\ wrote[c] < Len(Writes(c)) /\ Len(Writes(c)) \in 1 .. 5
      BY <2>1, WritesFacts DEF TypeOK, Write
    <3>2. m \in Message
      BY <3>1, WritesFacts DEF Message
    <3>3. fifo' = Append(fifo, m) /\ wrote' = [wrote EXCEPT ![c] = @ + 1]
      BY <2>1 DEF Write
    <3> HIDE DEF m
    <3>4. fifo' \in Seq(Message)
      BY <3>2, <3>3, AppendProperties DEF TypeOK
    <3>5. wrote[c] + 1 \in 0 .. 5
      <4>1. \A x, n : x \in 0 .. 5 /\ n \in 1 .. 5 /\ x < n => x + 1 \in 0 .. 5
        OBVIOUS
      <4> QED BY <3>1, <4>1
    <3>6. wrote \in [Client -> 0 .. 5]
      BY DEF TypeOK
    <3> QED BY <3>3, <3>4, <3>5, <3>6
  <2>2. CASE Open(c) \/ Close(c) \/ Die(c)
    BY <2>2 DEF Open, Close, Die, fifoVars, TypeOK
  <2> QED BY <2>1, <2>2 DEF ClientStep
<1>4. cpc' \in [Client -> {"idle", "open", "closed", "dead"}]
  BY DEF ClientStep, Open, Write, Close, Die, TypeOK
<1> QED BY <1>1, <1>2, <1>3, <1>4 DEF TypeOK, daemonVars, treeVars, signals

-----------------------------------------------------------------------------
(* Theorems about the tree. *)

\* The types and the tree are right at the beginning.
LEMMA InitTree ==
  ASSUME Init
  PROVE  TypeOK /\ TreeInv
<1>1. <<>> \in Seq(Pid) /\ <<>> \in Seq(Message)
  BY EmptySeq
<1>2. Nobody \in Process
  BY <1>1 DEF Nobody, Process, State, Watcher
<1>3. \A w \in Watcher : proc[w] = Nobody
  BY DEF Init
<1>4. TypeOK
  <2>1. \A w \in Watcher : proc[w].pc = "none"
    BY <1>3 DEF Nobody
  <2>2. /\ wish \in [Client -> {"change", "stop"}] /\ careful \in BOOLEAN
        /\ cpc \in [Client -> {"idle", "open", "closed", "dead"}]
        /\ wrote \in [Client -> 0 .. 5]
        /\ names \in [{"in", "out"} -> Client \cup {NoClient}]
    BY DEF Init
  <2>3. /\ fifo \in Seq(Message) /\ astray \in BOOLEAN /\ dpc = "num" /\ last_aim = FIRST_AIM
        /\ pending \subseteq Watcher /\ missed \subseteq Watcher
    BY <1>1 DEF Init
  <2>5. used \in 0 .. MaxWatchers /\ deletes \in 0 .. MaxDeletes
    <3>1. used = 0 /\ deletes = 0
      BY DEF Init
    <3> QED BY <3>1
  <2>4. proc \in [Watcher -> Process]
    BY <1>2 DEF Init
  <2> QED BY <2>1, <2>2, <2>3, <2>4, <2>5 DEF TypeOK
<1>5. \A w \in Watcher : ~Alive(w)
  BY <1>3 DEF Alive, Nobody
<1>6. \A w \in Watcher : Shaped(proc[w])
  BY <1>3 DEF Shaped, Nobody
<1>7. Ordered
  BY <1>3 DEF Ordered, Init, Nobody, Watcher, FIRST_AIM
<1>8. Strayed
  BY <1>3 DEF Strayed, Nobody, Watcher
<1> QED BY <1>4, <1>5, <1>6, <1>7, <1>8 DEF TreeInv, Known, LastTold, OneTree, Escapes

\* They stay so.
LEMMA NextTree ==
  ASSUME TypeOK, TreeInv, [Next]_vars
  PROVE  TypeOK' /\ TreeInv'
<1>1. CASE UNCHANGED vars
  <2>1. UNCHANGED <<wish, cpc, wrote, careful, fifo, astray, dpc, names, last_aim, used, proc,
                    deletes, pending, missed>>
    BY <1>1 DEF vars, clientVars, fifoVars, daemonVars, treeVars, signals
  <2>2. LastTold'
    BY <2>1 DEF TreeInv, LastTold, Alive, Told
  <2>3. TreeInv'
    BY <2>1, <2>2, QuietTree
  <2> QED BY <2>1, <2>3 DEF TypeOK
<1>2. CASE Next
  BY <1>2, ClientInv, ReadNumInv, ReadNamesInv, StartInv, WatcherInv DEF Next, DaemonStep
<1> QED BY <1>1, <1>2

\* The invariant of the tree holds always.
LEMMA TreeStays == Spec => [](TypeOK /\ TreeInv)
<1>1. Init => TypeOK /\ TreeInv
  BY InitTree
<1>2. TypeOK /\ TreeInv /\ [Next]_vars => (TypeOK /\ TreeInv)'
  BY NextTree
<1> QED BY <1>1, <1>2, PTL DEF Spec

\* The variables of daemon, clients and watchers keep their types, and a watcher processes no
\* more events than it has read (ResCop.c:294-304).
THEOREM TypeCorrect == Spec => []TypeOK
BY TreeStays, PTL

\* There is one tree of watchers, whatever is read from the FIFO, whoever forks in between, and
\* whatever the kernel's order of signals: the daemon tells its last watcher before it starts
\* another (main.c:47-58).
THEOREM SingleTree == Spec => []OneTree
<1>1. TreeInv => OneTree
  BY DEF TreeInv
<1> QED BY <1>1, TreeStays, PTL

\* A watcher that is told tells every child that it has in its table; those who go on without a
\* word were in no entry of it at that moment or never in any, or their parent has aborted
\* (ResCop.c:33-44, 137-150, 268-274, 329-342, safe_ops.c:14-21). This is for as many forks as
\* TABLE has entries (CopyAssumption); beyond, an entry is written behind its end.
THEOREM EscapesKnown == Spec => []Escapes
<1>1. TreeInv => Escapes
  BY DEF TreeInv
<1> QED BY <1>1, TreeStays, PTL

-----------------------------------------------------------------------------
(* Orders. *)

Ends == {"stop", "out"}

\* The messages, and what stands for the last one before there is any.
Read == Message \cup {[by |-> NoClient, what |-> "stop"]}

\* The place of a message in its order, and the message after it (change.c:8-37).
Place(what) ==
  CASE what \in {"stop", "zero"} -> 1 [] what = "len_in" -> 2 [] what = "in" -> 3
    [] what = "len_out" -> 4 [] what = "out" -> 5

Follows(m, n) ==
  IF m.what \in Ends THEN n.what \in {"stop", "zero"}
  ELSE n.by = m.by /\ n.what # "stop" /\ Place(n.what) = Place(m.what) + 1

\* m is the message that the daemon has read last.
Reads(m) ==
  /\ dpc = "num" => m.what \in Ends
  /\ dpc = "len_in" => m.what = "zero"
  /\ dpc = "in" => m.what = "len_in"
  /\ dpc = "len_out" => m.what = "in" /\ names["in"] = m.by
  /\ dpc = "out" => m.what = "len_out" /\ names["in"] = m.by
  /\ dpc = "add" => m.what = "out" /\ names["in"] = m.by /\ names["out"] = m.by

\* m is the message that was written last: the one client that writes is after it.
Written(m) ==
  /\ \A c \in Client : cpc[c] = "open" =>
       IF m.what \in Ends THEN wrote[c] \in {0, Len(Writes(c))}
       ELSE c = m.by /\ wish[c] = "change" /\ wrote[c] = Place(m.what)
  /\ m.what \notin Ends => cpc[m.by] = "open"

LastWritten(m) == IF fifo = <<>> THEN m ELSE fifo[Len(fifo)]

\* Orders come whole and one after the other.
Chain(m) ==
  /\ fifo # <<>> => Follows(m, fifo[1])
  /\ \A i \in 1 .. Len(fifo) - 1 : Follows(fifo[i], fifo[i + 1])
  /\ Written(LastWritten(m))

Stream(m) == Reads(m) /\ Chain(m)

OrderInv ==
  /\ \A c \in Client : cpc[c] = "idle" => wrote[c] = 0
  /\ careful /\ DaemonRuns =>
       /\ ~astray
       /\ \A c, d \in Client : cpc[c] = "open" /\ cpc[d] = "open" => c = d
       /\ \E m \in Read : Stream(m)

\* The order that a client writes, by place.
LEMMA WritesPlaces ==
  ASSUME TypeOK, NEW c \in Client
  PROVE  /\ wish[c] = "stop" => Len(Writes(c)) = 1 /\ Writes(c)[1] = "stop"
         /\ wish[c] # "stop" => /\ wish[c] = "change" /\ Len(Writes(c)) = 5
                                /\ \A i \in 1 .. 5 : Place(Writes(c)[i]) = i
                                                     /\ Writes(c)[i] # "stop"
                                                     /\ (Writes(c)[i] \in Ends <=> i = 5)
                                /\ Writes(c)[1] = "zero"
<1>1. wish[c] \in {"change", "stop"}
  BY DEF TypeOK
<1>2. CASE wish[c] = "stop"
  BY <1>2 DEF Writes
<1>3. CASE wish[c] # "stop"
  <2>1. Writes(c) = <<"zero", "len_in", "in", "len_out", "out">>
    BY <1>3 DEF Writes
  <2>2. \A i \in 1 .. 5 : i = 1 \/ i = 2 \/ i = 3 \/ i = 4 \/ i = 5
    OBVIOUS
  <2>3. /\ Place("zero") = 1 /\ Place("len_in") = 2 /\ Place("in") = 3
        /\ Place("len_out") = 4 /\ Place("out") = 5
    BY DEF Place
  <2> QED BY <1>1, <1>3, <2>1, <2>2, <2>3 DEF Ends
<1> QED BY <1>2, <1>3

\* The message written last is one.
LEMMA LastTyped ==
  ASSUME TypeOK, NEW m \in Read
  PROVE  LastWritten(m) \in Read
<1>1. fifo \in Seq(Message)
  BY DEF TypeOK
<1>2. fifo # <<>> => fifo[Len(fifo)] \in Message
  BY <1>1, EmptySeq, ElementOfSeq, LenProperties
<1> QED BY <1>2 DEF LastWritten, Read

\* When the daemon takes a message it is the last one read, and those behind it go on from it.
LEMMA ChainTail ==
  ASSUME TypeOK, fifo # <<>>, fifo' = Tail(fifo), UNCHANGED <<wish, cpc, wrote>>,
         NEW m \in Read, Chain(m), NEW h, h = Head(fifo)
  PROVE  h \in Message /\ Follows(m, h) /\ Chain(h)'
<1> DEFINE s == Tail(fifo)
<1>1. fifo \in Seq(Message)
  BY DEF TypeOK
<1>2. /\ h = fifo[1] /\ h \in Message
      /\ s \in Seq(Message) /\ Len(fifo) \in Nat \ {0} /\ Len(s) = Len(fifo) - 1
      /\ \A i \in 1 .. Len(s) : s[i] = fifo[i + 1]
  BY <1>1, HeadTailProperties, EmptySeq
<1>3. fifo' = s
  OBVIOUS
<1> HIDE DEF s
<1>4. s # <<>> <=> Len(s) > 0
  BY <1>2, EmptySeq
<1>5. Follows(m, h)
  BY <1>2 DEF Chain
<1>6. \A a, b : Follows(a, b)' <=> Follows(a, b)
  OBVIOUS
<1>7. s # <<>> => Follows(h, s[1])
  BY <1>2, <1>4 DEF Chain
<1>8. \A i \in 1 .. Len(s) - 1 : Follows(s[i], s[i + 1])
  <2> SUFFICES ASSUME NEW i \in 1 .. Len(s) - 1
               PROVE  Follows(s[i], s[i + 1])
    OBVIOUS
  <2>1. i + 1 \in 1 .. Len(fifo) - 1 /\ i \in 1 .. Len(s) /\ i + 1 \in 1 .. Len(s)
    BY <1>2
  <2>2. Follows(fifo[i + 1], fifo[(i + 1) + 1])
    BY <2>1 DEF Chain
  <2> QED BY <1>2, <2>1, <2>2
<1>9. LastWritten(h)' = LastWritten(m)
  <2>1. s = <<>> => Len(fifo) = 1
    BY <1>2, <1>4
  <2>2. s # <<>> => s[Len(s)] = fifo[Len(fifo)]
    BY <1>2, <1>4
  <2> QED BY <1>2, <1>3, <2>1, <2>2 DEF LastWritten
<1>10. Written(LastWritten(h))'
  <2>1. Written(LastWritten(m))
    BY DEF Chain
  <2> QED BY <1>9, <2>1 DEF Written, Writes
<1> QED BY <1>2, <1>3, <1>5, <1>7, <1>8, <1>10 DEF Chain

\* What a client writes goes on from the message written last.
LEMMA ChainAppend ==
  ASSUME TypeOK, NEW m \in Read, Chain(m), NEW n \in Message, fifo' = Append(fifo, n),
         Follows(LastWritten(m), n), Written(n)'
  PROVE  Chain(m)'
<1> DEFINE s == Append(fifo, n)
<1>1. fifo \in Seq(Message)
  BY DEF TypeOK
<1>2. /\ Len(fifo) \in Nat /\ s \in Seq(Message) /\ Len(s) = Len(fifo) + 1
      /\ s[Len(fifo) + 1] = n /\ \A i \in 1 .. Len(fifo) : s[i] = fifo[i]
  BY <1>1, AppendProperties, LenProperties
<1>3. fifo = <<>> <=> Len(fifo) = 0
  BY <1>1, EmptySeq
<1>4. fifo' = s
  OBVIOUS
<1> HIDE DEF s
<1>5. s # <<>> /\ s[Len(s)] = n
  BY <1>2, EmptySeq
<1>6. Follows(m, s[1])
  <2>1. CASE fifo = <<>>
    BY <1>2, <1>3, <2>1 DEF LastWritten
  <2>2. CASE fifo # <<>>
    <3>1. 1 \in 1 .. Len(fifo)
      BY <1>2, <1>3, <2>2
    <3> QED BY <1>2, <2>2, <3>1 DEF Chain
  <2> QED BY <2>1, <2>2
<1>7. ASSUME NEW i \in 1 .. Len(s) - 1
      PROVE  Follows(s[i], s[i + 1])
  <2>1. CASE i = Len(fifo)
    <3>1. fifo # <<>> /\ s[i] = fifo[i]
      BY <1>2, <1>3, <2>1
    <3> QED BY <1>2, <2>1, <3>1 DEF LastWritten
  <2>2. CASE i # Len(fifo)
    <3>1. i \in 1 .. Len(fifo) - 1 /\ s[i] = fifo[i] /\ s[i + 1] = fifo[i + 1]
      BY <1>2, <2>2
    <3> QED BY <3>1 DEF Chain
  <2> QED BY <2>1, <2>2
<1>8. LastWritten(m)' = n
  BY <1>4, <1>5 DEF LastWritten
<1>9. Written(LastWritten(m))'
  BY <1>8 DEF Written
<1> QED BY <1>4, <1>6, <1>7, <1>9 DEF Chain

\* The clients' part of the invariant (change.c:8-37).
LEMMA ClientOrders ==
  ASSUME TypeOK, OrderInv, NEW c \in Client, ClientStep(c)
  PROVE  OrderInv'
<1>0. /\ wrote \in [Client -> 0 .. 5] /\ cpc \in [Client -> {"idle", "open", "closed", "dead"}]
      /\ \A d \in Client : Len(Writes(d)) \in 1 .. 5
  BY WritesFacts DEF TypeOK
<1>1. UNCHANGED <<wish, careful, astray, dpc, names>>
  BY DEF ClientStep, Open, Write, Close, Die, fifoVars, daemonVars
<1>2. (\A d \in Client : cpc[d] = "idle" => wrote[d] = 0)'
  <2>1. \A d \in Client : cpc'[d] = "idle" => cpc[d] = "idle" /\ wrote'[d] = wrote[d]
    BY <1>0 DEF ClientStep, Open, Write, Close, Die
  <2> QED BY <2>1 DEF OrderInv
<1>3. SUFFICES ASSUME careful, DaemonRuns
               PROVE  /\ ~astray
                      /\ (\A a, b \in Client : cpc[a] = "open" /\ cpc[b] = "open" => a = b)'
                      /\ \E m \in Read : Stream(m)'
  BY <1>1, <1>2 DEF OrderInv, DaemonRuns
<1>4. /\ ~astray
      /\ \A a, b \in Client : cpc[a] = "open" /\ cpc[b] = "open" => a = b
  BY <1>3 DEF OrderInv
<1>5. PICK m \in Read : Stream(m)
  BY <1>3 DEF OrderInv
<1>6. Reads(m)'
  BY <1>1, <1>5 DEF Stream, Reads
<1>7. Chain(m) /\ Written(LastWritten(m))
  BY <1>5 DEF Stream, Chain
<1>9. ASSUME UNCHANGED fifo, Written(LastWritten(m))'
      PROVE  Stream(m)'
  BY <1>6, <1>7, <1>9 DEF Stream, Chain
<1>10. UNCHANGED fifo => LastWritten(m)' = LastWritten(m)
  BY DEF LastWritten
<1>11. CASE Open(c)
  <2>1. /\ UNCHANGED <<fifo, wrote>> /\ cpc' = [cpc EXCEPT ![c] = "open"]
        /\ cpc[c] = "idle" /\ \A d \in Client : cpc[d] # "open"
    BY <1>3, <1>11 DEF Open, fifoVars
  <2>2. wrote[c] = 0
    BY <2>1 DEF OrderInv
  <2>3. LastWritten(m).what \in Ends
    <3>1. LastWritten(m).what \notin Ends => cpc[LastWritten(m).by] = "open"
      BY <1>7 DEF Written
    <3>2. LastWritten(m).what \notin Ends => LastWritten(m).by \in Client
      BY LastTyped DEF Read, Message, Ends
    <3> QED BY <2>1, <3>1, <3>2
  <2>4. Written(LastWritten(m))'
    BY <1>0, <1>10, <2>1, <2>2, <2>3 DEF Written, Ends
  <2> QED BY <1>0, <1>4, <1>9, <2>1, <2>4
<1>12. CASE Write(c)
  <2> DEFINE l == LastWritten(m)
  <2>0. PICK n : n = [by |-> c, what |-> Writes(c)[wrote[c] + 1]]
    OBVIOUS
  <2>1. /\ cpc[c] = "open" /\ wrote[c] < Len(Writes(c)) /\ UNCHANGED cpc
        /\ fifo' = Append(fifo, n) /\ wrote' = [wrote EXCEPT ![c] = @ + 1]
    BY <1>12, <2>0 DEF Write
  <2>2. n \in Message /\ n.by = c /\ n.what = Writes(c)[wrote[c] + 1]
    <3>1. wrote[c] + 1 \in 1 .. Len(Writes(c))
      BY <1>0, <2>1
    <3> QED BY <2>0, <3>1, WritesFacts DEF Message
  <2>3. IF l.what \in Ends THEN wrote[c] = 0
        ELSE c = l.by /\ wish[c] = "change" /\ wrote[c] = Place(l.what)
    BY <1>0, <1>7, <2>1 DEF Written
  <2> HIDE DEF l
  <2>4. Follows(l, n)
    <3>1. CASE l.what \in Ends
      BY <2>2, <2>3, <3>1, WritesPlaces DEF Follows
    <3>2. CASE l.what \notin Ends
      <4>1. l.what \in {"zero", "len_in", "in", "len_out"}
        BY <3>2, LastTyped DEF Read, Message, Ends, l
      <4>2. Place(l.what) \in 1 .. 4
        BY <4>1 DEF Place
      <4>3. wrote[c] + 1 \in 1 .. 5 /\ wish[c] # "stop"
        BY <2>3, <3>2, <4>2
      <4> QED BY <2>2, <2>3, <3>2, <4>3, WritesPlaces DEF Follows
    <3> QED BY <3>1, <3>2
  <2>5. Written(n)'
    <3>1. wrote'[c] = wrote[c] + 1 /\ wrote[c] + 1 \in 1 .. Len(Writes(c))
      BY <1>0, <2>1
    <3>2. IF n.what \in Ends THEN wrote'[c] = Len(Writes(c))
          ELSE wish[c] = "change" /\ wrote'[c] = Place(n.what)
      <4>1. CASE wish[c] = "stop"
        <5>1. Len(Writes(c)) = 1 /\ Writes(c)[1] = "stop"
          BY <4>1, WritesPlaces
        <5>2. wrote[c] + 1 = 1
          BY <3>1, <5>1
        <5> QED BY <2>2, <3>1, <5>1, <5>2 DEF Ends
      <4>2. CASE wish[c] # "stop"
        <5> DEFINE i == wrote[c] + 1
        <5>1. /\ wish[c] = "change" /\ Len(Writes(c)) = 5
              /\ \A j \in 1 .. 5 : Place(Writes(c)[j]) = j /\ (Writes(c)[j] \in Ends <=> j = 5)
          BY <4>2, WritesPlaces
        <5>2. i \in 1 .. 5 /\ wrote'[c] = i /\ n.what = Writes(c)[i]
          BY <2>2, <3>1, <5>1
        <5> HIDE DEF i
        <5> QED BY <5>1, <5>2
      <4> QED BY <4>1, <4>2
    <3>3. \A d \in Client : cpc'[d] = "open" => d = c
      BY <1>4, <2>1
    <3>4. Writes(c)' = Writes(c)
      BY <1>1 DEF Writes
    <3> QED BY <1>1, <2>1, <2>2, <3>2, <3>3, <3>4 DEF Written
  <2>6. Chain(m)'
    BY <1>7, <2>1, <2>2, <2>4, <2>5, ChainAppend DEF l
  <2>7. Stream(m)'
    BY <1>6, <2>6 DEF Stream
  <2> QED BY <1>4, <2>1, <2>7
<1>13. CASE Close(c)
  <2>1. /\ UNCHANGED <<fifo, wrote>> /\ cpc' = [cpc EXCEPT ![c] = "closed"]
        /\ cpc[c] = "open" /\ wrote[c] = Len(Writes(c))
    BY <1>13 DEF Close, fifoVars
  <2>2. LastWritten(m).what \in Ends
    <3> SUFFICES ASSUME LastWritten(m).what \notin Ends
                 PROVE  FALSE
      OBVIOUS
    <3>1. wish[c] = "change" /\ wrote[c] = Place(LastWritten(m).what)
      BY <1>7, <2>1 DEF Written
    <3>2. Place(LastWritten(m).what) = 5
      BY <2>1, <3>1, WritesPlaces
    <3>3. LastWritten(m).what \in {"zero", "len_in", "in", "len_out"}
      BY LastTyped DEF Read, Message, Ends
    <3> QED BY <3>2, <3>3 DEF Place
  <2>3. \A d \in Client : cpc'[d] # "open"
    BY <1>0, <1>4, <2>1
  <2>4. Written(LastWritten(m))'
    BY <1>10, <2>1, <2>2, <2>3 DEF Written
  <2> QED BY <1>4, <1>9, <2>1, <2>3, <2>4
<1>14. CASE Die(c)
  BY <1>3, <1>14 DEF Die, Readers
<1> QED BY <1>11, <1>12, <1>13, <1>14, <1>4 DEF ClientStep
\* The daemon's part: it reads an order whole (main.c:37-94).
LEMMA DaemonOrders ==
  ASSUME TypeOK, OrderInv, DaemonStep
  PROVE  OrderInv'
<1>1. UNCHANGED <<wish, cpc, wrote, careful>>
  BY DEF DaemonStep, ReadNum, ReadNames, ReadLength, ReadText, Start, clientVars
<1>2. (\A d \in Client : cpc[d] = "idle" => wrote[d] = 0)'
  BY <1>1 DEF OrderInv
<1>3. SUFFICES ASSUME careful, DaemonRuns, DaemonRuns'
               PROVE  ~astray' /\ \E m \in Read : Stream(m)'
  <2>1. dpc \in {"num", "len_in", "in", "len_out", "out", "add"}
    BY DEF DaemonStep, ReadNum, ReadNames, ReadLength, ReadText, Start
  <2>2. DaemonRuns
    BY <2>1 DEF DaemonRuns
  <2> QED BY <1>1, <1>2, <2>2 DEF OrderInv
<1>4. PICK m \in Read : Stream(m)
  BY <1>3 DEF OrderInv
<1>5. ~astray /\ Reads(m) /\ Chain(m)
  BY <1>3, <1>4 DEF OrderInv, Stream
<1>6. fifo # <<>> => Head(fifo) \in Message
  BY RestOfFifo
<1>8. fifo # <<>> => Follows(m, Head(fifo))
  <2>1. fifo \in Seq(Message)
    BY DEF TypeOK
  <2> QED BY <1>5, <2>1, HeadTailProperties DEF Chain
<1>9. m.what \notin Ends => ~AtEnd
  <2>1. ASSUME m.what \notin Ends, fifo = <<>>
        PROVE  cpc[m.by] = "open" /\ m.by \in Client
    <3>1. m.by \in Client
      BY <2>1 DEF Read, Message, Ends
    <3> QED BY <1>5, <2>1, <3>1 DEF Chain, Written, LastWritten
  <2> QED BY <2>1 DEF AtEnd
<1>10. ASSUME NEW h, h = Head(fifo), fifo # <<>>, fifo' = Tail(fifo), astray' = astray, Reads(h)'
       PROVE  ~astray' /\ \E x \in Read : Stream(x)'
  BY <1>1, <1>5, <1>10, ChainTail DEF Stream, Read
<1>11. CASE ReadNum
  <2>1. PICK h : h = Head(fifo)
    OBVIOUS
  <2>2. /\ dpc = "num" /\ fifo # <<>> /\ fifo' = Tail(fifo) /\ astray' = astray
        /\ CASE h.what = "zero" -> NumZero [] h.what = "stop" -> NumStop [] OTHER -> NumOther
    BY <1>5, <1>11, <2>1 DEF ReadNum
  <2>3. h.what \in {"stop", "zero"}
    BY <1>5, <1>8, <2>1, <2>2 DEF Reads, Follows
  <2>4. h.what = "zero" /\ dpc' = "len_in"
    BY <1>3, <2>2, <2>3 DEF NumZero, NumStop, DaemonRuns
  <2>5. Reads(h)'
    BY <2>4 DEF Reads
  <2> QED BY <1>10, <2>1, <2>2, <2>5
<1>12. ASSUME NEW len, NEW which, NEW next, ReadLength(len, which, next),
              \/ len = "len_in" /\ which = "in"
              \/ len = "len_out" /\ which = "out"
       PROVE  ~astray' /\ \E x \in Read : Stream(x)'
  <2>1. PICK h : h = Head(fifo)
    OBVIOUS
  <2>2. dpc = len /\ m.what \notin Ends
        /\ m.what = IF len = "len_in" THEN "zero" ELSE "in"
    BY <1>5, <1>12 DEF ReadLength, Reads, Ends
  <2>3. fifo # <<>> /\ ~AtEnd
    BY <1>9, <1>12, <2>2 DEF ReadLength, Expects
  <2>4. h.by = m.by /\ h.what = len /\ h \in Message
    <3>1. h \in Message /\ h.by = m.by /\ h.what # "stop" /\ Place(h.what) = Place(m.what) + 1
      BY <1>6, <1>8, <2>1, <2>2, <2>3 DEF Follows
    <3>2. /\ Place("zero") = 1 /\ Place("len_in") = 2 /\ Place("in") = 3
          /\ Place("len_out") = 4 /\ Place("out") = 5
      BY DEF Place
    <3>3. h.what \in {"stop", "zero", "len_in", "in", "len_out", "out"}
      BY <3>1 DEF Message
    <3> QED BY <1>12, <2>2, <3>1, <3>2, <3>3
  <2>5. Expects(len) /\ ~Expects("zero")
    BY <1>5, <1>12, <2>1, <2>3, <2>4 DEF Expects
  <2>6. fifo' = Tail(fifo) /\ dpc' = which /\ UNCHANGED <<astray, names>>
    BY <1>12, <2>3, <2>5 DEF ReadLength
  <2>7. Reads(h)'
    BY <1>5, <1>12, <2>2, <2>4, <2>6 DEF Reads
  <2> QED BY <1>10, <2>1, <2>3, <2>6, <2>7
<1>13. ASSUME NEW which, NEW next, ReadText(which, next),
              \/ which = "in" /\ next = "len_out"
              \/ which = "out" /\ next = "add"
       PROVE  ~astray' /\ \E x \in Read : Stream(x)'
  <2>1. PICK h : h = Head(fifo)
    OBVIOUS
  <2>2. dpc = which /\ m.what \notin Ends
        /\ m.what = IF which = "in" THEN "len_in" ELSE "len_out"
    BY <1>5, <1>13 DEF ReadText, Reads, Ends
  <2>3. fifo # <<>> /\ ~AtEnd
    BY <1>9, <1>13, <2>2 DEF ReadText, Expects
  <2>4. h.by = m.by /\ h.what = which /\ h \in Message
    <3>1. h \in Message /\ h.by = m.by /\ h.what # "stop" /\ Place(h.what) = Place(m.what) + 1
      BY <1>6, <1>8, <2>1, <2>2, <2>3 DEF Follows
    <3>2. /\ Place("zero") = 1 /\ Place("len_in") = 2 /\ Place("in") = 3
          /\ Place("len_out") = 4 /\ Place("out") = 5
      BY DEF Place
    <3>3. h.what \in {"stop", "zero", "len_in", "in", "len_out", "out"}
      BY <3>1 DEF Message
    <3> QED BY <1>13, <2>2, <3>1, <3>2, <3>3
  <2>5. Expects(which)
    BY <1>5, <1>13, <2>1, <2>3, <2>4 DEF Expects
  <2>6. /\ fifo' = Tail(fifo) /\ dpc' = next /\ UNCHANGED astray
        /\ names' = [names EXCEPT ![which] = h.by]
    BY <1>13, <2>1, <2>3, <2>5 DEF ReadText
  <2>7. names'[which] = h.by /\ (which = "out" => names'["in"] = names["in"])
    BY <1>13, <2>6 DEF TypeOK
  <2>8. which = "out" => names["in"] = m.by
    BY <1>5, <2>2 DEF Reads
  <2>9. Reads(h)'
    BY <1>13, <2>4, <2>6, <2>7, <2>8 DEF Reads
  <2> QED BY <1>10, <2>1, <2>3, <2>6, <2>9
<1>14. CASE Start
  <2>1. dpc = "add" /\ dpc' = "num" /\ UNCHANGED <<fifo, astray, names>>
    BY <1>14 DEF Start, fifoVars
  <2>2. m.what \in Ends
    BY <1>5, <2>1 DEF Reads, Ends
  <2>3. Reads(m)'
    BY <2>1, <2>2 DEF Reads
  <2>4. Chain(m)'
    BY <1>1, <1>5, <2>1 DEF Chain, Written, LastWritten, Writes
  <2> QED BY <1>5, <2>1, <2>3, <2>4 DEF Stream
<1> QED BY <1>11, <1>12, <1>13, <1>14 DEF DaemonStep, ReadNames

\* The watchers take no part in it, unless they kill the daemon.
LEMMA WatcherOrders ==
  ASSUME OrderInv, UNCHANGED <<clientVars, fifoVars, names>>, dpc' \in {dpc, "killed"}
  PROVE  OrderInv'
<1>1. UNCHANGED <<wish, cpc, wrote, careful, fifo, astray, names>>
  BY DEF clientVars, fifoVars
<1>2. CASE dpc' = dpc
  <2>1. \A m : Stream(m)' <=> Stream(m)
    BY <1>1, <1>2 DEF Stream, Reads, Chain, Written, LastWritten, Writes
  <2> QED BY <1>1, <1>2, <2>1 DEF OrderInv, DaemonRuns
<1>3. CASE dpc' = "killed"
  BY <1>1, <1>3 DEF OrderInv, DaemonRuns
<1> QED BY <1>2, <1>3

\* Every step keeps the order of the messages.
LEMMA NextOrders ==
  ASSUME TypeOK, OrderInv, [Next]_vars
  PROVE  OrderInv'
<1>1. CASE UNCHANGED vars
  BY <1>1, WatcherOrders DEF vars, daemonVars
<1>2. ASSUME NEW w \in Watcher, WatcherStep(w) \/ WatcherEvent(w)
      PROVE  OrderInv'
  <2>1. UNCHANGED <<clientVars, fifoVars, names>> /\ dpc' \in {dpc, "killed"}
    BY <1>2 DEF WatcherStep, ClearTable, SetHandler, RemoveStrays, CopyStrays, Strays, StrayEnds,
                Setup, Leave, FileEvent, ForkWatcher, Record, DeleteFolder, Matches, Swap,
                Differs, WatcherEvent, Deliver, Wake, Stick, Unstick, RaiseSelf, Handle, Abort,
                Becomes, daemonVars, DaemonHit
  <2> QED BY <2>1, WatcherOrders
<1> QED BY <1>1, <1>2, ClientOrders, DaemonOrders DEF Next

\* No message, no client.
LEMMA InitOrders ==
  ASSUME Init
  PROVE  OrderInv
<1> DEFINE m == [by |-> NoClient, what |-> "stop"]
<1>1. m \in Read
  BY DEF Read
<1>2. Reads(m) /\ m.what \in Ends
  BY DEF Init, Reads, Ends
<1>3. fifo = <<>> /\ \A c \in Client : cpc[c] = "idle"
  BY DEF Init
<1>4. Chain(m)
  <2>1. Len(fifo) = 0
    BY <1>3
  <2> QED BY <1>2, <1>3, <2>1 DEF Chain, Written, LastWritten
<1> QED BY <1>1, <1>2, <1>3, <1>4 DEF Init, OrderInv, Stream

\* Orders reach the daemon as they were given, folder and backup of one client, while users give
\* one order at a time and no client dies (change.c:26-37, main.c:37-94): the five writes of an
\* order are read as they were written, with nothing between them.
THEOREM WholeOrders == Spec => []OrdersWhole
<1>1. Init => OrderInv
  BY InitOrders
<1>2. OrderInv /\ TypeOK /\ [Next]_vars => OrderInv'
  BY NextOrders
<1>3. OrderInv => OrdersWhole
  <2> SUFFICES ASSUME OrderInv, dpc = "add", careful
               PROVE  names["in"] = names["out"] /\ names["in"] # NoClient
    BY DEF OrdersWhole
  <2>1. PICK m \in Read : Stream(m)
    BY DEF OrderInv, DaemonRuns
  <2>2. m.what = "out" /\ names["in"] = m.by /\ names["out"] = m.by
    BY <2>1 DEF Stream, Reads
  <2>3. m.by \in Client
    BY <2>2 DEF Read, Message
  <2> QED BY <2>2, <2>3
<1> QED BY <1>1, <1>2, <1>3, TypeCorrect, PTL DEF Spec
=============================================================================
