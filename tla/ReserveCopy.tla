---------------------------- MODULE ReserveCopy ----------------------------
(***************************************************************************)
(* The reserve copy, Res_copy of C_3_sem: the daemon (main.c), the program *)
(* that gives it orders (change.c), and the tree of watchers               *)
(* (Libraries/ResCop.c).                                                   *)
(*                                                                         *)
(* An order is one write into a FIFO, or five: 0, the length and text of   *)
(* the folder, the length and text of the backup.  The daemon forks one    *)
(* watcher for the folder, which forks one for each folder created in it.  *)
(* Each keeps its children in TABLE; SIGUSR1 ends a watcher, and its       *)
(* handler passes the signal on to the table.                              *)
(*                                                                         *)
(* What a watcher does with files is BackupWatch.  Bounds: one order for   *)
(* each client, FifoSize messages in the FIFO, MaxWatchers forks (process  *)
(* ids are not used twice), CarelessForks of them when users are careless, *)
(* MaxDeletes deleted folders (none when users are careless), MaxBatch     *)
(* events in a read, and texts of at least four bytes.  No more watchers   *)
(* are forked than TABLE_SIZE, so that no TABLE overflows: each process    *)
(* writes an entry of its own for a fork, the daemon as well, and what a   *)
(* hundred and first entry overwrites is not modelled.                     *)
(***************************************************************************)
EXTENDS Integers, Sequences, FiniteSets

CONSTANTS Client, NoClient, FifoSize, MaxWatchers, CarelessForks, MaxDeletes, MaxBatch

\* The entries of TABLE.
TABLE_SIZE == 100

ASSUME CopyAssumption ==
  /\ NoClient \notin Client
  /\ FifoSize \in Nat \ {0} /\ MaxBatch \in Nat \ {0}
  /\ MaxWatchers \in Nat \ {0} /\ MaxWatchers <= TABLE_SIZE
  /\ CarelessForks \in 0..MaxWatchers
  /\ MaxDeletes \in Nat

VARIABLES
  wish,     \* the order of each client: "change" or "stop"
  cpc,      \* each client: "idle", "open", "closed" or "dead"
  wrote,    \* how often it has written
  careful,  \* whether the users give one order at a time and never kill a client
  fifo,
  astray,   \* whether the daemon has taken some bytes for others
  dpc,      \* where the daemon is
  names,    \* whose folder ("in") and whose backup ("out") it has read
  last_aim, \* its watcher, or FIRST_AIM
  used,     \* how many forks there were
  proc,     \* the watchers
  deletes,  \* how many folders were deleted
  pending,  \* the watchers for which a SIGUSR1 is pending
  missed    \* those that their parent has left out when it told its children, or has left
            \* behind without a word when it aborted, and those that it has never entered
            \* in its table, since they were to be cp or rm

clientVars == <<wish, cpc, wrote, careful>>
daemonVars == <<dpc, names, last_aim>>
fifoVars   == <<fifo, astray>>
treeVars   == <<used, proc, deletes>>
signals    == <<pending, missed>>
vars == <<clientVars, fifoVars, daemonVars, treeVars, signals>>

Watcher   == 1..MaxWatchers
FIRST_AIM == -1
Pid       == {-1} \cup Watcher

\* A watcher: where it is, its parent (0 is the daemon), whether it handles SIGUSR1 and
\* flag_end, which is FALSE once it has; the CUR_NODE entries of its TABLE that count, and
\* a child that is in none of them at the moment; the entry that DeleteFolder looks at;
\* how many events are left of those it has read.
State == {"none", "forked", "cleared", "check", "wait", "copy", "setup", "read", "event",
          "record", "delete", "swap", "stuck", "ended"}
Process == [pc : State, parent : 0..MaxWatchers, handler : BOOLEAN, flag_end : BOOLEAN,
            table : Seq(Pid), child : {0} \cup Pid, at : Nat, left : 0..MaxBatch]

\* Before its fork, and after its end.
Nobody == [pc |-> "none", parent |-> 0, handler |-> FALSE, flag_end |-> TRUE,
           table |-> <<>>, child |-> 0, at |-> 0, left |-> 0]
Gone(w) == [Nobody EXCEPT !.pc = "ended", !.parent = proc[w].parent]

\* Fault: the length of the backup's name is not written.
WritesShort(c) == IF wish[c] = "stop" THEN <<"stop">> ELSE <<"zero", "len_in", "in", "out">>

\* What a client writes, one after the other.
Writes(c) == IF wish[c] = "stop" THEN <<"stop">>
                                 ELSE <<"zero", "len_in", "in", "len_out", "out">>

Message == [by : Client, what : {"stop", "zero", "len_in", "in", "len_out", "out"}]

Init ==
  /\ wish \in [Client -> {"change", "stop"}]
  /\ cpc = [c \in Client |-> "idle"] /\ wrote = [c \in Client |-> 0]
  /\ careful \in BOOLEAN
  /\ fifo = <<>> /\ astray = FALSE
  /\ dpc = "num" /\ names = [which \in {"in", "out"} |-> NoClient] /\ last_aim = FIRST_AIM
  /\ used = 0 /\ proc = [w \in Watcher |-> Nobody] /\ deletes = 0
  /\ pending = {} /\ missed = {}

-----------------------------------------------------------------------------
(* The clients: change.c. *)

DaemonRuns == dpc \notin {"stopped", "aborted", "killed"}

Alive(w) == proc[w].pc \notin {"none", "ended"}

\* The FIFO has a reader: the watchers inherit the daemon's end and never close it.
Readers == DaemonRuns \/ \E w \in Watcher : Alive(w)

Open(c) ==
  /\ cpc[c] = "idle" /\ Readers
  /\ cpc' = [cpc EXCEPT ![c] = "open"]
  /\ careful => \A d \in Client : cpc[d] # "open"
  /\ UNCHANGED <<wish, wrote, careful, fifoVars, daemonVars, treeVars, signals>>

Write(c) ==
  /\ cpc[c] = "open" /\ wrote[c] < Len(Writes(c))
  /\ Readers /\ Len(fifo) < FifoSize
  /\ fifo' = Append(fifo, [by |-> c, what |-> Writes(c)[wrote[c] + 1]])
  /\ wrote' = [wrote EXCEPT ![c] = @ + 1]
  /\ UNCHANGED <<wish, cpc, careful, astray, daemonVars, treeVars, signals>>

Close(c) ==
  /\ cpc[c] = "open" /\ wrote[c] = Len(Writes(c))
  /\ cpc' = [cpc EXCEPT ![c] = "closed"]
  /\ UNCHANGED <<wish, wrote, careful, fifoVars, daemonVars, treeVars, signals>>

\* A client is killed, by SIGPIPE when nobody can read what it writes or by the user.
Die(c) ==
  /\ cpc[c] = "open" /\ wrote[c] < Len(Writes(c))
  /\ Readers => ~careful
  /\ cpc' = [cpc EXCEPT ![c] = "dead"]
  /\ UNCHANGED <<wish, wrote, careful, fifoVars, daemonVars, treeVars, signals>>

-----------------------------------------------------------------------------
(* Signals. *)

Told(w)  == w \in pending \/ ~proc[w].flag_end

\* kill: -1, which a failed fork leaves in a table, is everybody but the caller. (That
\* clients are hit, too, is left to Die.)
Hit(pids) == {w \in Watcher : Alive(w) /\ (w \in pids \/ -1 \in pids)}

DaemonHit(pids) == IF -1 \in pids /\ DaemonRuns THEN "killed" ELSE dpc

Listed(w) == {proc[w].table[i] : i \in DOMAIN proc[w].table}

\* SIG_USR2.
Handle(w) ==
  /\ pending' = (pending \cup Hit(Listed(w))) \ {w}
  /\ dpc' = DaemonHit(Listed(w))
  /\ proc' = [proc EXCEPT ![w].flag_end = FALSE]
  /\ missed' = missed \cup ({proc[w].child} \cap Watcher)
  /\ UNCHANGED <<clientVars, fifoVars, names, last_aim, used, deletes>>

\* Before signal is called for the first time, the default action.
Deliver(w) ==
  /\ w \in pending /\ Alive(w)
  /\ \/ proc[w].handler /\ Handle(w)
     \/ /\ ~proc[w].handler
        /\ pending' = pending \ {w}
        /\ proc' = [proc EXCEPT ![w] = Gone(w)]
        /\ UNCHANGED <<clientVars, fifoVars, daemonVars, used, deletes, missed>>

-----------------------------------------------------------------------------
(* The daemon: main.c. *)

\* The next message is as expected.
Expects(what) == ~astray /\ fifo # <<>> /\ Head(fifo).what = what

\* Nobody has the FIFO open, so that read returns 0.
AtEnd == fifo = <<>> /\ \A c \in Client : cpc[c] # "open"

\* A read that takes the wrong bytes may end anywhere; what it takes can be anything.
Swallow == fifo' \in {SubSeq(fifo, n, Len(fifo)) : n \in 2..(Len(fifo) + 1)}

TellLast ==
  pending' = pending \cup (IF last_aim = FIRST_AIM THEN {} ELSE Hit({last_aim}))

\* Fault: the tree is not told when the folder changes.
NumZeroQuiet == UNCHANGED pending /\ dpc' = "len_in"

NumZero == TellLast /\ dpc' = "len_in"

\* Fault: the tree is not told at the end.
NumStopQuiet == UNCHANGED pending /\ dpc' = "stopped"

NumStop == TellLast /\ dpc' = "stopped"

\* Here kill is called with FIRST_AIM, too, and then hits everybody.
NumOther == pending' = pending \cup Hit({last_aim}) /\ dpc' = "aborted"

\* The loop of main reads a number again and again until it has one.
ReadNum ==
  /\ dpc = "num" /\ fifo # <<>>
  /\ \/ /\ ~astray /\ fifo' = Tail(fifo)
        /\ CASE Head(fifo).what = "zero" -> NumZero
             [] Head(fifo).what = "stop" -> NumStop
             [] OTHER -> NumOther
     \/ astray /\ Swallow /\ (NumZero \/ NumStop \/ NumOther)
  /\ UNCHANGED <<clientVars, astray, names, last_aim, treeVars, missed>>

\* ReadNameFile, the length: 0, as at the end of the FIFO, makes an empty name, and any
\* other number a name of whatever follows.
ReadLength(len, which, next) ==
  /\ dpc = len
  /\ \/ /\ Expects(len)
        /\ fifo' = Tail(fifo) /\ dpc' = which
        /\ UNCHANGED <<astray, names>>
     \/ /\ AtEnd \/ Expects("zero")
        /\ fifo' = IF AtEnd THEN fifo ELSE Tail(fifo)
        /\ dpc' = next /\ names' = [names EXCEPT ![which] = NoClient]
        /\ UNCHANGED astray
     \/ /\ fifo # <<>> /\ ~Expects(len) /\ ~Expects("zero")
        /\ Swallow /\ astray' = TRUE
        /\ dpc' = next /\ names' = [names EXCEPT ![which] = NoClient]
  /\ UNCHANGED <<clientVars, last_aim, treeVars, signals>>

\* ReadNameFile, the text.
ReadText(which, next) ==
  /\ dpc = which
  /\ \/ /\ Expects(which)
        /\ fifo' = Tail(fifo) /\ names' = [names EXCEPT ![which] = Head(fifo).by]
        /\ UNCHANGED astray
     \/ /\ AtEnd
        /\ names' = [names EXCEPT ![which] = NoClient]
        /\ UNCHANGED fifoVars
     \/ /\ fifo # <<>> /\ ~Expects(which)
        /\ Swallow /\ astray' = TRUE
        /\ names' = [names EXCEPT ![which] = NoClient]
  /\ dpc' = next
  /\ UNCHANGED <<clientVars, last_aim, treeVars, signals>>

ReadNames ==
  \/ ReadLength("len_in", "in", "len_out") \/ ReadText("in", "len_out")
  \/ ReadLength("len_out", "out", "add")   \/ ReadText("out", "add")

-----------------------------------------------------------------------------
(* The watchers: AddWatch, CopyFolders, DeleteFolder. *)

\* The bounds on forks and deleted folders.
MayFork   == used < (IF careful THEN MaxWatchers ELSE CarelessForks)
MayDelete == careful /\ deletes < MaxDeletes

\* The daemon's AddWatch. A failed fork returns -1, which is FIRST_AIM.
Start ==
  /\ dpc = "add" /\ MayFork
  /\ used' = used + 1
  /\ \/ last_aim' = FIRST_AIM /\ UNCHANGED proc
     \/ /\ last_aim' = used + 1
        /\ proc' = [proc EXCEPT ![used + 1].pc = "forked"]
  /\ dpc' = "num"
  /\ UNCHANGED <<clientVars, fifoVars, names, deletes, signals>>

\* A step of watcher w that makes it p and touches nothing else.
Becomes(w, p) ==
  /\ proc' = [proc EXCEPT ![w] = p]
  /\ UNCHANGED <<clientVars, fifoVars, daemonVars, used, deletes, signals>>

\* CUR_NODE = 0: until then a child has the table of its parent.
ClearTable(w) ==
  /\ proc[w].pc = "forked"
  /\ Becomes(w, [proc[w] EXCEPT !.pc = "cleared", !.table = <<>>])

SetHandler(w) ==
  /\ proc[w].pc = "cleared"
  /\ Becomes(w, [proc[w] EXCEPT !.pc = "check", !.handler = TRUE])

\* A child that CheckFolder has forked for rm or cp, and whose execlp fails, returns from
\* CheckFolder and goes on as a watcher of the same folder, which is in nobody's table.
\* Watcher w is then at pc and the child at its.
Strays(w, pc, its) ==
  /\ MayFork
  /\ used' = used + 1
  /\ proc' = [proc EXCEPT ![w].pc = pc,
                          ![used + 1] = [proc[w] EXCEPT !.pc = its, !.parent = w]]
  /\ missed' = missed \cup {used + 1}
  /\ UNCHANGED <<clientVars, fifoVars, daemonVars, deletes, pending>>

\* The child that was to be rm has none to wait for and goes on to the first copy; the
\* watcher waits for it.
RemoveStrays(w) == proc[w].pc = "check" /\ Strays(w, "wait", "copy")

CopyStrays(w) == proc[w].pc \in {"check", "copy"} /\ Strays(w, "setup", "setup")

\* waitpid returns.
StrayEnds(w) ==
  /\ proc[w].pc = "wait" /\ \A c \in Watcher : proc[c].parent = w => ~Alive(c)
  /\ Becomes(w, [proc[w] EXCEPT !.pc = "copy"])

\* What is left of CheckFolder, whose programs start or whose forks fail, inotify_init and
\* CreateWatch, which aborts when the folder is gone.
Setup(w) ==
  /\ proc[w].pc \in {"check", "copy", "setup"}
  /\ \/ Becomes(w, Gone(w))
     \/ proc[w].flag_end /\ Becomes(w, [proc[w] EXCEPT !.pc = "read"])

\* Something has happened in the folder.
Wake(w) ==
  /\ proc[w].pc = "read" /\ proc[w].flag_end
  /\ \E n \in 1..MaxBatch : Becomes(w, [proc[w] EXCEPT !.pc = "event", !.left = n])

\* read fails, because the handler has closed the descriptor.
Leave(w) ==
  /\ proc[w].pc = "read" /\ ~proc[w].flag_end
  /\ Becomes(w, Gone(w))

\* Fault: the loop over the events goes on for one more.
AfterEventLate(w, p) ==
  IF p.left > 0 THEN [p EXCEPT !.pc = "event", !.left = @ - 1]
  ELSE IF p.flag_end THEN [p EXCEPT !.pc = "read", !.left = @ - 1] ELSE Gone(w)

\* What p, watcher w at the end of an event, becomes.
AfterEvent(w, p) ==
  IF p.left > 1 THEN [p EXCEPT !.pc = "event", !.left = @ - 1]
  ELSE IF p.flag_end THEN [p EXCEPT !.pc = "read", !.left = @ - 1] ELSE Gone(w)

\* An event of a file.
FileEvent(w) ==
  /\ proc[w].pc = "event"
  /\ Becomes(w, AfterEvent(w, proc[w]))

\* The file is a named pipe, and cp opens it.
Stick(w) ==
  /\ proc[w].pc = "event"
  /\ Becomes(w, [proc[w] EXCEPT !.pc = "stuck"])

\* Somebody has written into the pipe and closed it.
Unstick(w) ==
  /\ proc[w].pc = "stuck"
  /\ Becomes(w, AfterEvent(w, proc[w]))

\* A name that is taken for an event (see BackupWatch) may make the watcher signal itself.
RaiseSelf(w) == proc[w].pc = "event" /\ Handle(w)

\* fork_s fails on an event, before the table is touched or after DeleteFolder is through
\* with it, which aborts the watcher.
Abort(w) ==
  /\ \/ proc[w].pc = "event"
     \/ proc[w].pc = "delete" /\ proc[w].at > Len(proc[w].table)
  /\ proc' = [proc EXCEPT ![w] = Gone(w)]
  /\ missed' = missed \cup {c \in Watcher : proc[c].parent = w}
  /\ UNCHANGED <<clientVars, fifoVars, daemonVars, used, deletes, pending>>

\* A new folder: CopyFolders, and the fork of its AddWatch. The child has everything that
\* the parent has, but no pending signal.
ForkWatcher(w) ==
  /\ proc[w].pc = "event" /\ MayFork
  /\ used' = used + 1
  /\ proc' = [proc EXCEPT ![w].pc = "record", ![w].child = -1]
     \/ proc' = [proc EXCEPT ![w].pc = "record", ![w].child = used + 1,
                             ![used + 1] = [proc[w] EXCEPT !.pc = "forked", !.parent = w]]
  /\ UNCHANGED <<clientVars, fifoVars, daemonVars, deletes, signals>>

Record(w) ==
  /\ proc[w].pc = "record"
  /\ Becomes(w, AfterEvent(w, [proc[w] EXCEPT !.table = Append(@, proc[w].child),
                                              !.child = 0]))

\* A folder is gone: DeleteFolder goes through the table.
DeleteFolder(w) ==
  /\ proc[w].pc = "event" /\ MayDelete
  /\ deletes' = deletes + 1
  /\ proc' = [proc EXCEPT ![w].pc = "delete", ![w].at = 1]
  /\ UNCHANGED <<clientVars, fifoVars, daemonVars, used, signals>>

\* The names in the table were freed when they were entered: any may seem to match. The
\* watcher is told, and the last entry, no longer counted, is to replace it.
Matches(w) ==
  LET p == proc[w]
      n == Len(p.table)
  IN /\ p.pc = "delete" /\ p.at <= n
     /\ pending' = pending \cup (Hit({p.table[p.at]}) \ {w})
     /\ dpc' = DaemonHit({p.table[p.at]})
     /\ proc' = [proc EXCEPT ![w].pc = "swap", ![w].table = SubSeq(@, 1, n - 1),
                             ![w].child = IF p.at = n THEN 0 ELSE p.table[n]]
     /\ UNCHANGED <<clientVars, fifoVars, names, last_aim, used, deletes, missed>>

\* Fault: the last entry is not moved to the place of the one removed.
SwapNothing(w) ==
  /\ proc[w].pc = "swap"
  /\ Becomes(w, [proc[w] EXCEPT !.pc = "delete", !.at = @ + 1, !.child = 0])

Swap(w) ==
  /\ proc[w].pc = "swap"
  /\ Becomes(w, [proc[w] EXCEPT !.pc = "delete", !.at = @ + 1, !.child = 0,
                                !.table = IF proc[w].child = 0 THEN @
                                          ELSE [@ EXCEPT ![proc[w].at] = proc[w].child]])

Differs(w) ==
  /\ proc[w].pc = "delete"
  /\ Becomes(w, IF proc[w].at <= Len(proc[w].table)
                  THEN [proc[w] EXCEPT !.at = @ + 1]
                  ELSE AfterEvent(w, [proc[w] EXCEPT !.at = 0]))

-----------------------------------------------------------------------------
ClientStep(c) == Open(c) \/ Write(c) \/ Close(c) \/ Die(c)

DaemonStep == ReadNum \/ ReadNames \/ Start

\* What a watcher does by itself, as long as the programs that it waits for end.
WatcherStep(w) ==
  \/ ClearTable(w) \/ SetHandler(w) \/ RemoveStrays(w) \/ CopyStrays(w) \/ StrayEnds(w)
  \/ Setup(w) \/ Leave(w) \/ FileEvent(w)
  \/ ForkWatcher(w) \/ Record(w) \/ DeleteFolder(w) \/ Matches(w) \/ Swap(w) \/ Differs(w)

\* What happens to it.
WatcherEvent(w) ==
  Deliver(w) \/ Wake(w) \/ Stick(w) \/ Unstick(w) \/ RaiseSelf(w) \/ Abort(w)

Next ==
  \/ \E c \in Client : ClientStep(c)
  \/ DaemonStep
  \/ \E w \in Watcher : WatcherStep(w) \/ WatcherEvent(w)

Spec == Init /\ [][Next]_vars

\* Watchers run when they can and signals are delivered. Nothing need happen in a folder, and
\* nobody need write into a pipe that cp has opened.
FairSpec ==
  /\ Spec
  /\ \A w \in Watcher : WF_vars(WatcherStep(w)) /\ WF_vars(Deliver(w))

-----------------------------------------------------------------------------
(* Properties. *)

\* The types of all variables, and that a watcher processes only events it has read.
TypeOK ==
  /\ wish \in [Client -> {"change", "stop"}]
  /\ cpc \in [Client -> {"idle", "open", "closed", "dead"}] /\ wrote \in [Client -> 0..5]
  /\ careful \in BOOLEAN
  /\ fifo \in Seq(Message) /\ astray \in BOOLEAN
  /\ dpc \in {"num", "len_in", "in", "len_out", "out", "add", "stopped", "aborted", "killed"}
  /\ names \in [{"in", "out"} -> Client \cup {NoClient}]
  /\ last_aim \in {FIRST_AIM} \cup Watcher
  /\ used \in 0..MaxWatchers /\ proc \in [Watcher -> Process]
  /\ deletes \in 0..MaxDeletes
  /\ pending \subseteq Watcher /\ missed \subseteq Watcher
  /\ \A w \in Watcher : proc[w].pc \in {"event", "record", "delete", "swap", "stuck"}
                          => proc[w].left > 0

\* There is one tree of watchers: those that the daemon has started before its last one
\* have ended or been told to, whatever it has read from the FIFO.
OneTree ==
  \A w \in Watcher : Alive(w) /\ proc[w].parent = 0 /\ w # last_aim => Told(w)

\* An order is carried out as it was given, folder and backup of one client, unless two
\* clients write at once (the five writes of an order are not tied together) or one dies
\* in the middle (the end of the FIFO is taken for a name).
OrdersWhole ==
  dpc = "add" /\ careful =>
    names["in"] = names["out"] /\ names["in"] # NoClient

\* A watcher that is told tells its children: a child that goes on without a word, while
\* its parent has been told or is gone, was outside the parent's table at that moment (just
\* forked, or being moved by DeleteFolder), was never in it (a cp or rm whose execlp has
\* failed in CheckFolder), or the parent has aborted.
Escapes ==
  \A w, c \in Watcher :
    /\ proc[c].parent = w /\ Alive(c) /\ ~Told(c)
    /\ proc[w].pc = "ended" \/ ~proc[w].flag_end
    => c \in missed

\* Once the daemon has ended, all watchers end but those that wait for a cp that does not,
\* and these tell their children all the same, unless one has escaped so.
StopEndsAll ==
  dpc \in {"stopped", "aborted"} ~>
    missed # {} \/ \A w \in Watcher : Alive(w) => proc[w].pc = "stuck"

=============================================================================
