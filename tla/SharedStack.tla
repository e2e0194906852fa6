----------------------------- MODULE SharedStack -----------------------------
(***************************************************************************)
(* The stack in System V shared memory of C_3_sem/Stack: Stack/stack.c.    *)
(*                                                                         *)
(* Several processes attach one segment, whose first three words are the   *)
(* header (owner_[0] the size, owner_[1] the capacity, owner_[2] the       *)
(* semaphore id), and push, pop, dump, detach and destroy it.  A step is   *)
(* one access to the shared segment or one system call; whatever a process *)
(* does between two of them is part of the step.                           *)
(*                                                                         *)
(* Bound OneGeneration: a key is used for one segment.  After mark_destruct*)
(* the real key may be created again; here nobody attaches any more.       *)
(***************************************************************************)
EXTENDS Integers, FiniteSets

CONSTANTS
  Proc,       \* the processes that use the key
  Cap,        \* the size every process gives to attach_stack
  Val,        \* the pointers pushed
  Nil,        \* what an unwritten slot, or a word that is no pointer, holds
  Garbage,    \* a capacity read out of an overwritten header
  Modes,      \* the arguments processes give to set_wait
  Pushers, Poppers, Dumpers,  \* who calls push, pop and dump
  Mortal      \* who may exit or be killed, at any point

ASSUME ConstantsAssumption ==
  /\ IsFiniteSet(Proc)
  /\ Cap \in Nat \ {0}
  /\ Nil \notin Val \cup Int \cup {Garbage}
  /\ Garbage \notin Int
  /\ Modes \subseteq {"NO_WAIT", "WAIT_INF", "WAIT_TIME"}
  /\ Pushers \subseteq Proc /\ Pushers # {}
  /\ Poppers \subseteq Proc /\ Poppers # {}
  /\ Dumpers \subseteq Proc
  /\ Mortal \subseteq Proc

VARIABLES
  seg,     \* the segment under the key: "absent", "present", "removed"
  header,  \* owner_[1] and owner_[2]: "zero", "cap", "ready", "clobbered"
  size,    \* owner_[0]
  mem,     \* mem_, from index 0
  semset,  \* the semaphore set: "absent", "present", "removed"
  semval,  \* the value of its semaphore
  undo,    \* the kernel's SEM_UNDO adjustment of each process
  pc,      \* where each process is
  cap,     \* cap_ of each process's handle, Nil before it has one
  semok,   \* whether sem_ of its handle is the id of the semaphore set
  mode,    \* wait_param, a global of each process
  undoOn,  \* whether its struct sembuf has SEM_UNDO set
  reg,     \* the size it has loaded, until it is stored back
  val      \* the value it pushes, or the one pop got, until the call returns

shared == <<seg, header, size, mem, semset, semval>>
locals == <<cap, semok, mode, undoOn, reg, val>>
vars   == <<shared, undo, pc, locals>>

\* Slots that can be reached: those of the block and, the segment being rounded
\* up to a page, those that racing pushes write above them.
Slot == 0 .. Cap + Cardinality(Proc)

WaitPC     == {"push_wait", "pop_wait", "dump_wait"}
PushPC     == {"push_store", "push_load", "push_inc"}
PopPC      == {"pop_load", "pop_dec", "pop_read"}
PostPC     == {"push_post", "pop_post", "dump_post"}
CriticalPC == PushPC \cup PopPC \cup PostPC
CreatePC   == {"a_semget", "a_cap", "a_sem", "a_post"}
AttachPC   == {"a_find", "a_rdcap", "a_rdsem"}
DestroyPC  == {"d_sem", "d_shm"}

Critical(p) == pc[p] \in CriticalPC

Init ==
  /\ seg = "absent" /\ header = "zero" /\ size = 0
  /\ mem = [i \in Slot |-> Nil]
  /\ semset = "absent" /\ semval = 0
  /\ undo = [p \in Proc |-> 0]
  /\ pc = [p \in Proc |-> "away"]
  /\ cap = [p \in Proc |-> Nil]
  /\ semok = [p \in Proc |-> FALSE]
  /\ mode = [p \in Proc |-> "WAIT_INF"]
  \* A process may come from a parent that had called set_wait or had
  \* initialised the library, and inherits its static struct sembuf.
  /\ undoOn \in [Proc -> BOOLEAN]
  /\ reg = [p \in Proc |-> 0]
  /\ val = [p \in Proc |-> Nil]

Goto(p, l) == pc' = [pc EXCEPT ![p] = l]

-----------------------------------------------------------------------------
(* The semaphore. *)

SemUsable(p) == semok[p] /\ semset = "present"

\* semop with SEM_UNDO keeps the opposite of what it did for the process's exit.
Adjust(p, op) ==
  /\ semval' = semval + op
  /\ undo' = IF undoOn[p] THEN [undo EXCEPT ![p] = @ - op] ELSE undo

\* Fault: an adjustment that may take the semaphore below zero.
DieUnclamped(p) ==
  /\ Goto(p, "dead")
  /\ undo' = [undo EXCEPT ![p] = 0]
  /\ semval' = IF semset = "present" THEN semval + undo[p] ELSE semval
  /\ UNCHANGED <<seg, header, size, mem, semset, locals>>

\* The end of a process: exit, a signal, or abort() in errror.  The kernel adds
\* the process's adjustment to the semaphore, which stops at zero, and its
\* memory is gone.
Die(p) ==
  /\ Goto(p, "dead")
  /\ undo' = [undo EXCEPT ![p] = 0]
  /\ semval' = IF semset # "present" THEN semval
               ELSE IF semval + undo[p] < 0 THEN 0 ELSE semval + undo[p]
  /\ cap' = [cap EXCEPT ![p] = Nil]
  /\ semok' = [semok EXCEPT ![p] = FALSE]
  /\ mode' = [mode EXCEPT ![p] = "WAIT_INF"]
  /\ undoOn' = [undoOn EXCEPT ![p] = FALSE]
  /\ reg' = [reg EXCEPT ![p] = 0]
  /\ val' = [val EXCEPT ![p] = Nil]
  /\ UNCHANGED <<seg, header, size, mem, semset>>

Kill(p) == p \in Mortal /\ pc[p] # "dead" /\ Die(p)

AfterDecrease == [push_wait |-> "push_store", pop_wait |-> "pop_load",
                  dump_wait |-> "dump_post"]

\* sem_decrease returns 0.
Decrease(p) ==
  /\ pc[p] \in WaitPC /\ SemUsable(p) /\ semval > 0
  /\ Adjust(p, -1)
  /\ Goto(p, AfterDecrease[pc[p]])
  /\ UNCHANGED <<seg, header, size, mem, semset, locals>>

\* sem_decrease fails with EAGAIN: IPC_NOWAIT, or the time is up.  push and pop
\* return -1, dump goes on as if it had the semaphore.
DecreaseAgain(p) ==
  /\ pc[p] \in WaitPC /\ SemUsable(p) /\ semval = 0
  /\ mode[p] # "WAIT_INF"
  /\ Goto(p, IF pc[p] = "dump_wait" THEN "dump_post" ELSE "idle")
  /\ val' = [val EXCEPT ![p] = Nil]
  /\ UNCHANGED <<shared, undo, cap, semok, mode, undoOn, reg>>

\* Fault: sem_decrease tried again for ever instead of ERROR.
DecreaseRetry(p) == pc[p] \in WaitPC /\ ~SemUsable(p) /\ UNCHANGED vars

\* EINVAL or EIDRM: no such semaphore, or it was removed while we waited.
DecreaseError(p) == pc[p] \in WaitPC /\ ~SemUsable(p) /\ Die(p)

\* Fault: the call returns without sem_increase.
ReturnWithoutIncrease(p) ==
  /\ pc[p] \in PostPC /\ SemUsable(p)
  /\ Goto(p, "idle")
  /\ val' = [val EXCEPT ![p] = Nil]
  /\ UNCHANGED <<shared, undo, cap, semok, mode, undoOn, reg>>

Increase(p) ==
  /\ pc[p] \in PostPC /\ SemUsable(p)
  /\ Adjust(p, 1)
  /\ Goto(p, "idle")
  /\ val' = [val EXCEPT ![p] = Nil]
  /\ UNCHANGED <<seg, header, size, mem, semset, cap, semok, mode, undoOn, reg>>

IncreaseError(p) == pc[p] \in PostPC /\ ~SemUsable(p) /\ Die(p)

SetWait(p, m) ==
  /\ pc[p] \in {"away", "idle"}
  /\ mode' = [mode EXCEPT ![p] = m]
  /\ undoOn' = [undoOn EXCEPT ![p] = TRUE]
  /\ UNCHANGED <<shared, undo, pc, cap, semok, reg, val>>

-----------------------------------------------------------------------------
(* attach_stack. *)

\* Fault: shmget without IPC_EXCL, so that every process initialises.
ShmgetNoExcl(p) ==
  /\ pc[p] = "away" /\ seg # "removed"
  /\ seg' = "present" /\ Goto(p, "a_semget")
  /\ UNCHANGED <<header, size, mem, semset, semval, undo, locals>>

\* shmget(IPC_CREAT | IPC_EXCL) makes the zeroed segment or fails with EEXIST.
Shmget(p) ==
  /\ pc[p] = "away"
  /\ \/ seg = "absent" /\ seg' = "present" /\ Goto(p, "a_semget")
     \/ seg = "present" /\ seg' = seg /\ Goto(p, "a_find")
  /\ UNCHANGED <<header, size, mem, semset, semval, undo, locals>>

\* Fault: the semaphore is created with its unit.
SemgetWithUnit(p) ==
  /\ pc[p] = "a_semget"
  /\ semset' = "present" /\ semval' = 1
  /\ undoOn' = [undoOn EXCEPT ![p] = TRUE]
  /\ Goto(p, "a_cap")
  /\ UNCHANGED <<seg, header, size, mem, undo, cap, semok, mode, reg, val>>

\* semget and initialize_semaphors_for_library(0).
Semget(p) ==
  /\ pc[p] = "a_semget"
  /\ semset' = "present"
  /\ undoOn' = [undoOn EXCEPT ![p] = TRUE]
  /\ Goto(p, "a_cap")
  /\ UNCHANGED <<seg, header, size, mem, semval, undo, cap, semok, mode, reg, val>>

SetCap(p) ==
  /\ pc[p] = "a_cap"
  /\ size' = 0 /\ header' = "cap"
  /\ Goto(p, "a_sem")
  /\ UNCHANGED <<seg, mem, semset, semval, undo, locals>>

SetSem(p) ==
  /\ pc[p] = "a_sem"
  /\ header' = "ready"
  /\ Goto(p, "a_post")
  /\ UNCHANGED <<seg, size, mem, semset, semval, undo, locals>>

\* The creator gives the semaphore its first unit; the result is not tested.
FirstIncrease(p) ==
  /\ pc[p] = "a_post"
  /\ IF semset = "present" THEN Adjust(p, 1) ELSE UNCHANGED <<semval, undo>>
  /\ Goto(p, "a_rdcap")
  /\ UNCHANGED <<seg, header, size, mem, semset, locals>>

\* The second shmget and shmat; the segment may be gone by now.
Find(p) ==
  /\ pc[p] = "a_find"
  /\ \/ /\ seg = "present" /\ Goto(p, "a_rdcap")
        /\ UNCHANGED <<shared, undo, locals>>
     \/ seg = "removed" /\ Die(p)

ReadCap(p) ==
  /\ pc[p] = "a_rdcap"
  /\ cap' = [cap EXCEPT ![p] = CASE header = "zero" -> 0
                                 [] header = "clobbered" -> Garbage
                                 [] OTHER -> Cap]
  /\ Goto(p, "a_rdsem")
  /\ UNCHANGED <<shared, undo, semok, mode, undoOn, reg, val>>

ReadSem(p) ==
  /\ pc[p] = "a_rdsem"
  /\ semok' = [semok EXCEPT ![p] = (header = "ready")]
  /\ Goto(p, "idle")
  /\ UNCHANGED <<shared, undo, cap, mode, undoOn, reg, val>>

-----------------------------------------------------------------------------
(* push, pop, dump.  A push or pop refused by its first test changes nothing. *)

\* Fault: > for >= in the test of push.
PushCheckOffByOne(p, v) ==
  /\ pc[p] = "idle" /\ p \in Pushers
  /\ IF cap[p] = Garbage THEN TRUE ELSE size <= cap[p]
  /\ val' = [val EXCEPT ![p] = v]
  /\ Goto(p, "push_wait")
  /\ UNCHANGED <<shared, undo, cap, semok, mode, undoOn, reg>>

\* The test of the size against the capacity, before the critical section.
\* A garbage capacity lets a push through or not.
PushCheck(p, v) ==
  /\ pc[p] = "idle" /\ p \in Pushers
  /\ IF cap[p] = Garbage THEN TRUE ELSE size < cap[p]
  /\ val' = [val EXCEPT ![p] = v]
  /\ Goto(p, "push_wait")
  /\ UNCHANGED <<shared, undo, cap, semok, mode, undoOn, reg>>

\* mem_[owner_[0]] = val.  Slot -1 is the words of the capacity and of the
\* semaphore id; a slot below it lies before the segment and faults.
PushStore(p) ==
  /\ pc[p] = "push_store"
  /\ \/ /\ size >= -1
        /\ mem' = IF size \in Slot THEN [mem EXCEPT ![size] = val[p]] ELSE mem
        /\ header' = IF size = -1 THEN "clobbered" ELSE header
        /\ Goto(p, "push_load")
        /\ UNCHANGED <<seg, size, semset, semval, undo, locals>>
     \/ size < -1 /\ Die(p)

Load(p) ==
  /\ pc[p] \in {"push_load", "pop_load"}
  /\ reg' = [reg EXCEPT ![p] = size]
  /\ Goto(p, IF pc[p] = "push_load" THEN "push_inc" ELSE "pop_dec")
  /\ UNCHANGED <<shared, undo, cap, semok, mode, undoOn, val>>

PushInc(p) ==
  /\ pc[p] = "push_inc"
  /\ size' = reg[p] + 1
  /\ reg' = [reg EXCEPT ![p] = 0]
  /\ Goto(p, "push_post")
  /\ UNCHANGED <<seg, header, mem, semset, semval, undo, cap, semok, mode, undoOn, val>>

\* Fault: < for <= in the test of pop.
PopCheckOffByOne(p) ==
  /\ pc[p] = "idle" /\ p \in Poppers
  /\ size >= 0
  /\ Goto(p, "pop_wait")
  /\ UNCHANGED <<shared, undo, locals>>

PopCheck(p) ==
  /\ pc[p] = "idle" /\ p \in Poppers
  /\ size > 0
  /\ Goto(p, "pop_wait")
  /\ UNCHANGED <<shared, undo, locals>>

PopDec(p) ==
  /\ pc[p] = "pop_dec"
  /\ size' = reg[p] - 1
  /\ reg' = [reg EXCEPT ![p] = 0]
  /\ Goto(p, "pop_read")
  /\ UNCHANGED <<seg, header, mem, semset, semval, undo, cap, semok, mode, undoOn, val>>

\* Fault: pop reads the slot above the one it freed.
PopReadAbove(p) ==
  /\ pc[p] = "pop_read"
  /\ \/ /\ size >= -1
        /\ val' = [val EXCEPT ![p] = IF size + 1 \in Slot THEN mem[size + 1] ELSE Nil]
        /\ Goto(p, "pop_post")
        /\ UNCHANGED <<shared, undo, cap, semok, mode, undoOn, reg>>
     \/ size < -1 /\ Die(p)

PopRead(p) ==
  /\ pc[p] = "pop_read"
  /\ \/ /\ size >= -1
        /\ val' = [val EXCEPT ![p] = IF size \in Slot THEN mem[size] ELSE Nil]
        /\ Goto(p, "pop_post")
        /\ UNCHANGED <<shared, undo, cap, semok, mode, undoOn, reg>>
     \/ size < -1 /\ Die(p)

Dump(p) ==
  /\ pc[p] = "idle" /\ p \in Dumpers
  /\ Goto(p, "dump_wait")
  /\ UNCHANGED <<shared, undo, locals>>

-----------------------------------------------------------------------------
(* detach_stack and mark_destruct. *)

Detach(p) ==
  /\ pc[p] = "idle"
  /\ Goto(p, "away")
  /\ UNCHANGED <<shared, undo, locals>>

\* mark_destruct looks the segment up by its key; the tests call it after
\* detach_stack, and so does the model.
MarkDestruct(p) ==
  /\ pc[p] = "away" /\ cap[p] # Nil
  /\ \/ /\ seg = "present" /\ Goto(p, "d_sem")
        /\ UNCHANGED <<shared, undo, locals>>
     \/ seg = "removed" /\ Die(p)

RemoveSem(p) ==
  /\ pc[p] = "d_sem"
  /\ \/ /\ SemUsable(p)
        /\ semset' = "removed"
        /\ Goto(p, "d_shm")
        /\ UNCHANGED <<seg, header, size, mem, semval, undo, locals>>
     \/ ~SemUsable(p) /\ Die(p)

RemoveShm(p) ==
  /\ pc[p] = "d_shm"
  /\ seg' = "removed"
  /\ Goto(p, "away")
  /\ UNCHANGED <<header, size, mem, semset, semval, undo, locals>>

-----------------------------------------------------------------------------
\* The steps of a call that has begun.
Attaching(p) ==
  \/ Semget(p) \/ SetCap(p) \/ SetSem(p) \/ FirstIncrease(p)
  \/ Find(p) \/ ReadCap(p) \/ ReadSem(p)

InCall(p) ==
  \/ Attaching(p)
  \/ DecreaseAgain(p) \/ DecreaseError(p)
  \/ PushStore(p) \/ Load(p) \/ PushInc(p)
  \/ PopDec(p) \/ PopRead(p)
  \/ Increase(p) \/ IncreaseError(p)
  \/ RemoveSem(p) \/ RemoveShm(p)

\* The beginning of a call.
Call(p) ==
  \/ Shmget(p) \/ PopCheck(p) \/ Dump(p) \/ Detach(p) \/ MarkDestruct(p)
  \/ \E v \in Val : PushCheck(p, v)
  \/ \E m \in Modes : SetWait(p, m)

Next == \E p \in Proc : Call(p) \/ InCall(p) \/ Decrease(p) \/ Kill(p)

Spec == Init /\ [][Next]_vars

\* A process in a call keeps running unless it blocks, and the kernel serves
\* the processes that wait for a semaphore in the order of their semop calls.
Fairness == \A p \in Proc : WF_vars(InCall(p)) /\ SF_vars(Decrease(p))

FairSpec == Spec /\ Fairness

-----------------------------------------------------------------------------
(* Properties. *)

TypeOK ==
  /\ seg \in {"absent", "present", "removed"}
  /\ header \in {"zero", "cap", "ready", "clobbered"}
  /\ size \in Int
  /\ mem \in [Slot -> Val \cup {Nil}]
  /\ semset \in {"absent", "present", "removed"}
  /\ semval \in Nat
  /\ undo \in [Proc -> Int]
  /\ pc \in [Proc -> {"away", "idle", "dead"} \cup WaitPC \cup CriticalPC
                       \cup CreatePC \cup AttachPC \cup DestroyPC]
  /\ cap \in [Proc -> {0, Cap, Garbage, Nil}]
  /\ semok \in [Proc -> BOOLEAN]
  /\ mode \in [Proc -> {"NO_WAIT", "WAIT_INF", "WAIT_TIME"}]
  /\ undoOn \in [Proc -> BOOLEAN]
  /\ reg \in [Proc -> Int]
  /\ val \in [Proc -> Val \cup {Nil}]

\* The semaphore admits one process at a time to the body of push, pop or dump,
\* whoever is killed and wherever (stack.c:111-122, 140-150, 194-204).  It needs
\* processes that either always wait for the semaphore or never dump.
MutualExclusion ==
  \A p, q \in Proc : Critical(p) /\ Critical(q) => p = q

\* The tests of the size come before the critical section (stack.c:106, 133), so
\* the size can pass both ends, but by less than one for each racing process.
BoundedOvershoot ==
  /\ size < Cap + Cardinality(Pushers)
  /\ size > 0 - Cardinality(Poppers)

\* The semaphore gets its first unit when the header is complete (stack.c:40-44), so that
\* nobody is inside and the stack is untouched as long as an attaching process can find
\* zeros for the capacity or the semaphore: it gets a bad handle, but sees no torn stack.
EntryAfterSetup ==
  header \in {"zero", "cap"} =>
    semval = 0 /\ size = 0 /\ \A p \in Proc : ~Critical(p)

\* The header survives when a single process pops: it takes a size of -1 for
\* push to write its value over the capacity and the semaphore id.
HeaderIntact == Cardinality(Poppers) = 1 => header # "clobbered"

\* The semaphore has no unit left and nobody is going to give one back.
Orphaned ==
  /\ semset = "present" /\ semval = 0
  /\ \A p \in Proc : ~Critical(p) /\ pc[p] \notin CreatePC

\* SEM_UNDO gives the semaphore back when a process dies in the critical section
\* (the comment at stack.c:118).  The unit is lost for good in one way only: the
\* death of a process whose adjustment does not cover what it holds, that is of
\* the creator, whose first sem_increase is undone too, or of a process whose
\* struct sembuf was never initialised.
UnitLostOnlyByDeath ==
  [][~Orphaned /\ Orphaned' =>
       \E p \in Proc : /\ pc[p] # "dead" /\ pc'[p] = "dead"
                       /\ undo[p] < (IF Critical(p) THEN 1 ELSE 0)
                            \/ pc[p] \in CreatePC]_vars

\* Every call comes to an end, by returning or by killing its process, unless
\* the semaphore has been orphaned.
CallsReturn ==
  \A p \in Proc : [](pc[p] \notin {"away", "idle", "dead"}
                       => <>(pc[p] \in {"away", "idle", "dead"} \/ Orphaned))

\* The stack that users see, when one process pops and each dump has the
\* semaphore: the slots below the size and, while a pop has lowered the size but
\* not yet read its slot, that slot too.
Reading == {p \in Proc : pc[p] = "pop_read"}
Abstract == INSTANCE BoundedStack WITH
  stack <- [i \in 1 .. size + Cardinality(Reading) |-> mem[i - 1]],
  got   <- [p \in Proc |-> IF pc[p] = "pop_post" THEN val[p] ELSE Nil],
  Bound <- Cap + Cardinality(Pushers) - 1

\* push and pop are atomic and last-in first-out whatever the interleaving and
\* whoever dies, on a stack that racing pushes make that much larger
\* (stack.c:104-158): the critical section does what README.md says of TEST2.
AtomicStack == Abstract!Spec
=============================================================================
