--------------------------- MODULE SharedStackProofs ---------------------------
(***************************************************************************)
(* Proofs about SharedStack: type correctness, mutual exclusion, the bound *)
(* on the size, what can lose the semaphore's unit, and that it implements *)
(* BoundedStack, for any number of processes.                              *)
(***************************************************************************)
EXTENDS SharedStack, FiniteSetTheorems, SequenceTheorems, TLAPS

USE ConstantsAssumption

PCs == {"away", "idle", "dead"} \cup WaitPC \cup CriticalPC
         \cup CreatePC \cup AttachPC \cup DestroyPC

\* Every step keeps the types: the values a step writes are in the sets TypeOK
\* names, for the steps of stack.c:14-206 and the death of a process.
LEMMA TypeStep == TypeOK /\ [Next]_vars => TypeOK'
<1> USE DEF WaitPC, PushPC, PopPC, PostPC, CriticalPC, CreatePC, AttachPC, DestroyPC
<1> SUFFICES ASSUME TypeOK, [Next]_vars PROVE TypeOK'
  OBVIOUS
<1> USE DEF TypeOK, Goto, shared, locals
<1>1. CASE UNCHANGED vars
  BY <1>1 DEF vars
<1>2. ASSUME NEW p \in Proc, Die(p) PROVE TypeOK'
  BY <1>2 DEF Die
<1>3. ASSUME NEW p \in Proc, Call(p) PROVE TypeOK'
  <2>1. CASE Shmget(p) BY <2>1 DEF Shmget
  <2>2. CASE PopCheck(p) BY <2>2 DEF PopCheck
  <2>3. CASE Dump(p) BY <2>3 DEF Dump
  <2>4. CASE Detach(p) BY <2>4 DEF Detach
  <2>5. CASE MarkDestruct(p) BY <2>5, <1>2 DEF MarkDestruct
  <2>6. ASSUME NEW v \in Val, PushCheck(p, v) PROVE TypeOK'
    BY <2>6 DEF PushCheck
  <2>7. ASSUME NEW m \in Modes, SetWait(p, m) PROVE TypeOK'
    BY <2>7 DEF SetWait
  <2> QED BY <1>3, <2>1, <2>2, <2>3, <2>4, <2>5, <2>6, <2>7 DEF Call
<1>4. ASSUME NEW p \in Proc, Attaching(p) PROVE TypeOK'
  <2>1. CASE Semget(p) BY <2>1 DEF Semget
  <2>2. CASE SetCap(p) BY <2>2 DEF SetCap
  <2>3. CASE SetSem(p) BY <2>3 DEF SetSem
  <2>4. CASE FirstIncrease(p) BY <2>4 DEF FirstIncrease, Adjust
  <2>5. CASE Find(p) BY <2>5, <1>2 DEF Find
  <2>6. CASE ReadCap(p) BY <2>6 DEF ReadCap
  <2>7. CASE ReadSem(p) BY <2>7 DEF ReadSem
  <2> QED BY <1>4, <2>1, <2>2, <2>3, <2>4, <2>5, <2>6, <2>7 DEF Attaching
<1>5. ASSUME NEW p \in Proc, InCall(p) PROVE TypeOK'
  <2>1. CASE DecreaseAgain(p) BY <2>1 DEF DecreaseAgain
  <2>2. CASE DecreaseError(p) BY <2>2, <1>2 DEF DecreaseError
  <2>3. CASE PushStore(p) BY <2>3, <1>2 DEF PushStore
  <2>4. CASE Load(p) BY <2>4 DEF Load
  <2>5. CASE PushInc(p) BY <2>5 DEF PushInc
  <2>6. CASE PopDec(p) BY <2>6 DEF PopDec
  <2>7. CASE PopRead(p) BY <2>7, <1>2 DEF PopRead
  <2>8. CASE Increase(p) BY <2>8 DEF Increase, Adjust
  <2>9. CASE IncreaseError(p) BY <2>9, <1>2 DEF IncreaseError
  <2>10. CASE RemoveSem(p) BY <2>10, <1>2 DEF RemoveSem
  <2>11. CASE RemoveShm(p) BY <2>11 DEF RemoveShm
  <2> QED
    BY <1>5, <1>4, <2>1, <2>2, <2>3, <2>4, <2>5, <2>6, <2>7, <2>8, <2>9, <2>10, <2>11
       DEF InCall
<1>6. ASSUME NEW p \in Proc, Decrease(p) PROVE TypeOK'
  BY <1>6 DEF Decrease, Adjust, AfterDecrease
<1>7. ASSUME NEW p \in Proc, Kill(p) PROVE TypeOK'
  BY <1>7, <1>2 DEF Kill
<1> QED BY <1>1, <1>3, <1>5, <1>6, <1>7 DEF Next

\* Type correctness of the stack.
THEOREM TypeCorrect == Spec => []TypeOK
<1>1. Init => TypeOK
  BY DEF Init, TypeOK, WaitPC, CriticalPC, CreatePC, AttachPC, DestroyPC
<1> QED BY <1>1, TypeStep, PTL DEF Spec

-----------------------------------------------------------------------------
(* Mutual exclusion.  The unit of the semaphore is in the semaphore, with one *)
(* process in a critical section, with the creator that has not yet put it    *)
(* into the semaphore, or lost.                                               *)

\* dump without the semaphore, the one way into a critical section that does not
\* take the unit, cannot happen.
DumpsWait == Modes \subseteq {"WAIT_INF"} \/ Dumpers = {}

HasUnit(p) == Critical(p) \/ pc[p] \in CreatePC

LockInv ==
  /\ semval \in {0, 1}
  /\ \A p \in Proc : HasUnit(p) => semval = 0
  /\ \A p, q \in Proc : HasUnit(p) /\ HasUnit(q) => p = q
  /\ seg = "absent" => semval = 0 /\ \A p \in Proc : ~HasUnit(p)
  /\ \A p \in Proc : undo[p] <= (IF Critical(p) THEN 1 ELSE 0)
  /\ \A p \in Proc : ~undoOn[p] => undo[p] <= 0
  /\ \A p \in Proc : mode[p] \in Modes \cup {"WAIT_INF"}
  /\ \A p \in Proc : pc[p] = "dump_wait" => p \in Dumpers

\* A death takes the unit away or gives it back, never a second one.
LEMMA DieKeepsLock ==
  ASSUME TypeOK, LockInv, NEW p \in Proc, Die(p)
  PROVE  LockInv'
<1> USE DEF WaitPC, PushPC, PopPC, PostPC, CriticalPC, CreatePC, AttachPC, DestroyPC
<1> USE DEF TypeOK, LockInv, HasUnit, Critical, Goto, Die
<1>1. \A q \in Proc : HasUnit(q)' => q # p /\ HasUnit(q)
  OBVIOUS
<1>2. semval' \in {0, 1} /\ \A q \in Proc : HasUnit(q)' => semval' = 0
  OBVIOUS
<1> QED BY <1>1, <1>2

\* Every step of the stack keeps the unit where LockInv says it can be.
LEMMA LockStep == DumpsWait /\ TypeOK /\ LockInv /\ [Next]_vars => LockInv'
<1> USE DEF WaitPC, PushPC, PopPC, PostPC, CriticalPC, CreatePC, AttachPC, DestroyPC
<1> SUFFICES ASSUME DumpsWait, TypeOK, LockInv, [Next]_vars PROVE LockInv'
  OBVIOUS
<1> USE DEF TypeOK, LockInv, HasUnit, Critical, Goto, shared, locals
<1>1. CASE UNCHANGED vars
  BY <1>1 DEF vars
<1>2. ASSUME NEW p \in Proc, Die(p) PROVE LockInv'
  BY <1>2, DieKeepsLock
<1>3. ASSUME NEW p \in Proc, Call(p) PROVE LockInv'
  <2>1. CASE Shmget(p) BY <2>1 DEF Shmget
  <2>2. CASE PopCheck(p) BY <2>2 DEF PopCheck
  <2>3. CASE Dump(p) BY <2>3 DEF Dump
  <2>4. CASE Detach(p) BY <2>4 DEF Detach
  <2>5. CASE MarkDestruct(p) BY <2>5, <1>2 DEF MarkDestruct
  <2>6. ASSUME NEW v \in Val, PushCheck(p, v) PROVE LockInv'
    BY <2>6 DEF PushCheck
  <2>7. ASSUME NEW m \in Modes, SetWait(p, m) PROVE LockInv'
    BY <2>7 DEF SetWait
  <2> QED BY <1>3, <2>1, <2>2, <2>3, <2>4, <2>5, <2>6, <2>7 DEF Call
<1>4. ASSUME NEW p \in Proc, Attaching(p) PROVE LockInv'
  <2>1. CASE Semget(p) BY <2>1 DEF Semget
  <2>2. CASE SetCap(p) BY <2>2 DEF SetCap
  <2>3. CASE SetSem(p) BY <2>3 DEF SetSem
  <2>4. CASE FirstIncrease(p) BY <2>4 DEF FirstIncrease, Adjust
  <2>5. CASE Find(p) BY <2>5, <1>2 DEF Find
  <2>6. CASE ReadCap(p) BY <2>6 DEF ReadCap
  <2>7. CASE ReadSem(p) BY <2>7 DEF ReadSem
  <2> QED BY <1>4, <2>1, <2>2, <2>3, <2>4, <2>5, <2>6, <2>7 DEF Attaching
<1>5. ASSUME NEW p \in Proc, InCall(p) PROVE LockInv'
  <2>1. CASE DecreaseAgain(p)
    <3>1. pc[p] # "dump_wait"
      BY <2>1 DEF DecreaseAgain, DumpsWait
    <3> QED BY <2>1, <3>1 DEF DecreaseAgain
  <2>2. CASE DecreaseError(p) BY <2>2, <1>2 DEF DecreaseError
  <2>3. CASE PushStore(p) BY <2>3, <1>2 DEF PushStore
  <2>4. CASE Load(p) BY <2>4 DEF Load
  <2>5. CASE PushInc(p) BY <2>5 DEF PushInc
  <2>6. CASE PopDec(p) BY <2>6 DEF PopDec
  <2>7. CASE PopRead(p) BY <2>7, <1>2 DEF PopRead
  <2>8. CASE Increase(p) BY <2>8 DEF Increase, Adjust
  <2>9. CASE IncreaseError(p) BY <2>9, <1>2 DEF IncreaseError
  <2>10. CASE RemoveSem(p) BY <2>10, <1>2 DEF RemoveSem
  <2>11. CASE RemoveShm(p) BY <2>11 DEF RemoveShm
  <2> QED
    BY <1>5, <1>4, <2>1, <2>2, <2>3, <2>4, <2>5, <2>6, <2>7, <2>8, <2>9, <2>10, <2>11
       DEF InCall
<1>6. ASSUME NEW p \in Proc, Decrease(p) PROVE LockInv'
  BY <1>6 DEF Decrease, Adjust, AfterDecrease
<1>7. ASSUME NEW p \in Proc, Kill(p) PROVE LockInv'
  BY <1>7, <1>2 DEF Kill
<1> QED BY <1>1, <1>3, <1>5, <1>6, <1>7 DEF Next

\* LockInv holds in every behaviour in which dumps wait.
LEMMA LockInvariant == DumpsWait => (Spec => []LockInv)
<1>1. Init => LockInv
  BY DEF Init, LockInv, HasUnit, Critical, CriticalPC, PushPC, PopPC, PostPC, CreatePC
<1> SUFFICES ASSUME DumpsWait PROVE Spec => []LockInv
  OBVIOUS
<1>2. TypeOK /\ LockInv /\ [Next]_vars => LockInv'
  BY LockStep
<1> QED BY <1>1, <1>2, TypeCorrect, PTL DEF Spec

\* At most one process is in the body of push, pop or dump, for any number of
\* processes, whoever dies and wherever, as long as processes that dump always
\* wait for the semaphore.
THEOREM Exclusion == DumpsWait => (Spec => []MutualExclusion)
<1>1. LockInv => MutualExclusion
  BY DEF LockInv, MutualExclusion, HasUnit
<1> QED BY <1>1, LockInvariant, PTL

-----------------------------------------------------------------------------
(* The handle.  A process whose handle has the semaphore has the capacity too. *)

HandleInv ==
  /\ seg = "absent" => header = "zero" /\ size = 0
  /\ \A p \in Proc : pc[p] \in CreatePC => header # "clobbered" /\ size = 0
  /\ \A p \in Proc : pc[p] = "a_rdsem" /\ cap[p] = Garbage => header = "clobbered"
  /\ \A p \in Proc : semok[p] /\ cap[p] = Garbage => pc[p] = "a_rdsem"
  /\ \A p \in Proc : pc[p] \in {"a_rdsem", "idle"} \cup WaitPC \cup CriticalPC
                       => cap[p] # Nil
  /\ \A p \in Proc : Critical(p) => semok[p]

\* Every step keeps HandleInv (attach_stack, stack.c:14-68): only a process in the critical section can
\* overwrite the header, and then nobody is creating the stack.
LEMMA HandleStep == TypeOK /\ LockInv /\ HandleInv /\ [Next]_vars => HandleInv'
<1> USE DEF WaitPC, PushPC, PopPC, PostPC, CriticalPC, CreatePC, AttachPC, DestroyPC
<1> SUFFICES ASSUME TypeOK, LockInv, HandleInv, [Next]_vars PROVE HandleInv'
  OBVIOUS
<1> USE DEF TypeOK, HandleInv, Goto, shared, locals
<1>0. /\ \A p, q \in Proc : Critical(p) /\ pc[q] \in CreatePC => p = q
      /\ seg = "absent" => \A p \in Proc : ~Critical(p) /\ pc[p] \notin CreatePC
  BY DEF LockInv, HasUnit
<1> USE DEF Critical, SemUsable
<1>1. CASE UNCHANGED vars
  BY <1>1 DEF vars
<1>2. ASSUME NEW p \in Proc, Die(p) PROVE HandleInv'
  BY <1>2 DEF Die
<1>3. ASSUME NEW p \in Proc, Call(p) PROVE HandleInv'
  <2>1. CASE Shmget(p) BY <2>1, <1>0 DEF Shmget
  <2>2. CASE PopCheck(p) BY <2>2 DEF PopCheck
  <2>3. CASE Dump(p) BY <2>3 DEF Dump
  <2>4. CASE Detach(p) BY <2>4 DEF Detach
  <2>5. CASE MarkDestruct(p) BY <2>5, <1>2 DEF MarkDestruct
  <2>6. ASSUME NEW v \in Val, PushCheck(p, v) PROVE HandleInv'
    BY <2>6 DEF PushCheck
  <2>7. ASSUME NEW m \in Modes, SetWait(p, m) PROVE HandleInv'
    BY <2>7 DEF SetWait
  <2> QED BY <1>3, <2>1, <2>2, <2>3, <2>4, <2>5, <2>6, <2>7 DEF Call
<1>4. ASSUME NEW p \in Proc, Attaching(p) PROVE HandleInv'
  <2>1. CASE Semget(p) BY <2>1 DEF Semget
  <2>2. CASE SetCap(p) BY <2>2, <1>0 DEF SetCap
  <2>3. CASE SetSem(p) BY <2>3, <1>0 DEF SetSem
  <2>4. CASE FirstIncrease(p) BY <2>4 DEF FirstIncrease, Adjust
  <2>5. CASE Find(p) BY <2>5, <1>2 DEF Find
  <2>6. CASE ReadCap(p) BY <2>6 DEF ReadCap
  <2>7. CASE ReadSem(p) BY <2>7 DEF ReadSem
  <2> QED BY <1>4, <2>1, <2>2, <2>3, <2>4, <2>5, <2>6, <2>7 DEF Attaching
<1>5. ASSUME NEW p \in Proc, InCall(p) PROVE HandleInv'
  <2>1. CASE DecreaseAgain(p) BY <2>1 DEF DecreaseAgain
  <2>2. CASE DecreaseError(p) BY <2>2, <1>2 DEF DecreaseError
  <2>3. CASE PushStore(p) BY <2>3, <1>2, <1>0 DEF PushStore
  <2>4. CASE Load(p) BY <2>4 DEF Load
  <2>5. CASE PushInc(p) BY <2>5, <1>0 DEF PushInc
  <2>6. CASE PopDec(p) BY <2>6, <1>0 DEF PopDec
  <2>7. CASE PopRead(p) BY <2>7, <1>2 DEF PopRead
  <2>8. CASE Increase(p) BY <2>8 DEF Increase, Adjust
  <2>9. CASE IncreaseError(p) BY <2>9, <1>2 DEF IncreaseError
  <2>10. CASE RemoveSem(p) BY <2>10, <1>2 DEF RemoveSem
  <2>11. CASE RemoveShm(p) BY <2>11 DEF RemoveShm
  <2> QED
    BY <1>5, <1>4, <2>1, <2>2, <2>3, <2>4, <2>5, <2>6, <2>7, <2>8, <2>9, <2>10, <2>11
       DEF InCall
<1>6. ASSUME NEW p \in Proc, Decrease(p) PROVE HandleInv'
  BY <1>6 DEF Decrease, Adjust, AfterDecrease
<1>7. ASSUME NEW p \in Proc, Kill(p) PROVE HandleInv'
  BY <1>7, <1>2 DEF Kill
<1> QED BY <1>1, <1>3, <1>5, <1>6, <1>7 DEF Next

-----------------------------------------------------------------------------
(* The size.  Between its test of the size and its change of the size a push  *)
(* is worth one more element than the size shows, a pop one less.             *)

Pushing == {p \in Proc : /\ pc[p] \in {"push_wait", "push_store", "push_load", "push_inc"}
                         /\ semok[p]}
Popping == {p \in Proc : pc[p] \in {"pop_wait", "pop_load", "pop_dec"}}

SizeInv ==
  /\ size + Cardinality(Pushing) < Cap + Cardinality(Pushers)
  /\ size - Cardinality(Popping) > 0 - Cardinality(Poppers)
  /\ Pushing \subseteq Pushers
  /\ Popping \subseteq Poppers
  /\ \A p \in Proc : pc[p] \in {"push_inc", "pop_dec"} => reg[p] = size

\* Finite sets of processes: their sizes are numbers, a subset is no larger, and
\* removing a member makes a set smaller by one.
LEMMA Sizes ==
  /\ \A S \in SUBSET Proc : Cardinality(S) \in Nat
  /\ \A S, T \in SUBSET Proc : S \subseteq T => Cardinality(S) <= Cardinality(T)
  /\ \A S \in SUBSET Proc, p \in Proc :
       p \in S => Cardinality(S \ {p}) = Cardinality(S) - 1
<1>1. \A S \in SUBSET Proc : IsFiniteSet(S)
  BY FS_Subset
<1>2. \A S \in SUBSET Proc : Cardinality(S) \in Nat
  BY <1>1, FS_CardinalityType
<1>3. \A S, T \in SUBSET Proc : S \subseteq T => Cardinality(S) <= Cardinality(T)
  BY <1>1, FS_Subset
<1>4. \A S \in SUBSET Proc, p \in Proc :
        p \in S => Cardinality(S \ {p}) = Cardinality(S) - 1
  BY <1>1, FS_RemoveElement
<1> QED BY <1>2, <1>3, <1>4

\* What a step can do to the bounds: nothing; let a process past one of the two
\* tests; or change the size, by a process past its test.
Quiet == size' = size /\ Pushing' \subseteq Pushing /\ Popping' \subseteq Popping
AdmitPush(p) == /\ p \in Pushers /\ size < Cap /\ size' = size
                /\ Pushing' \subseteq Pushing \cup {p} /\ Popping' \subseteq Popping
AdmitPop(p) == /\ p \in Poppers /\ size > 0 /\ size' = size
               /\ Pushing' \subseteq Pushing /\ Popping' \subseteq Popping \cup {p}
Grow(p) == /\ p \in Pushing /\ size' = size + 1
           /\ Pushing' \subseteq Pushing \ {p} /\ Popping' \subseteq Popping
Shrink(p) == /\ p \in Popping /\ size' = size - 1
             /\ Pushing' \subseteq Pushing /\ Popping' \subseteq Popping \ {p}

Kind == Quiet \/ \E p \in Proc : AdmitPush(p) \/ AdmitPop(p) \/ Grow(p) \/ Shrink(p)

\* Every step is of one of these kinds; that the size changes by exactly one
\* needs mutual exclusion, the load and the store being two steps.
LEMMA StepKinds == TypeOK /\ LockInv /\ HandleInv /\ SizeInv /\ [Next]_vars => Kind
<1> USE DEF WaitPC, PushPC, PopPC, PostPC, CriticalPC, CreatePC, AttachPC, DestroyPC
<1> SUFFICES ASSUME TypeOK, LockInv, HandleInv, SizeInv, [Next]_vars PROVE Kind
  OBVIOUS
<1> USE DEF TypeOK, Goto, shared, locals, Pushing, Popping
<1>0. /\ \A p \in Proc : pc[p] \in {"push_inc", "pop_dec"} => reg[p] = size /\ semok[p]
      /\ \A p \in Proc : pc[p] \in CreatePC => size = 0
      /\ \A p \in Proc : pc[p] = "idle" => cap[p] # Nil /\ (semok[p] => cap[p] # Garbage)
  BY DEF SizeInv, HandleInv, Critical
<1>1. CASE UNCHANGED vars
  <2>1. Quiet BY <1>1 DEF vars, Quiet
  <2> QED BY <2>1 DEF Kind
<1>2. ASSUME NEW p \in Proc, Die(p) PROVE Quiet
  BY <1>2 DEF Die, Quiet
<1>3. ASSUME NEW p \in Proc, Call(p) PROVE Kind
  <2>1. CASE Shmget(p)
    <3>1. Quiet BY <2>1 DEF Shmget, Quiet
    <3> QED BY <3>1 DEF Kind
  <2>2. CASE PopCheck(p)
    <3>1. AdmitPop(p) BY <2>2, <1>0 DEF PopCheck, AdmitPop
    <3> QED BY <3>1 DEF Kind
  <2>3. CASE Dump(p)
    <3>1. Quiet BY <2>3 DEF Dump, Quiet
    <3> QED BY <3>1 DEF Kind
  <2>4. CASE Detach(p)
    <3>1. Quiet BY <2>4 DEF Detach, Quiet
    <3> QED BY <3>1 DEF Kind
  <2>5. CASE MarkDestruct(p)
    <3>1. Quiet BY <2>5, <1>2 DEF MarkDestruct, Quiet
    <3> QED BY <3>1 DEF Kind
  <2>6. ASSUME NEW v \in Val, PushCheck(p, v) PROVE Kind
    <3>1. CASE semok[p]
      <4>1. AdmitPush(p) BY <2>6, <3>1, <1>0 DEF PushCheck, AdmitPush
      <4> QED BY <4>1 DEF Kind
    <3>2. CASE ~semok[p]
      <4>1. Quiet BY <2>6, <3>2 DEF PushCheck, Quiet
      <4> QED BY <4>1 DEF Kind
    <3> QED BY <3>1, <3>2
  <2>7. ASSUME NEW m \in Modes, SetWait(p, m) PROVE Kind
    <3>1. Quiet BY <2>7 DEF SetWait, Quiet
    <3> QED BY <3>1 DEF Kind
  <2> QED BY <1>3, <2>1, <2>2, <2>3, <2>4, <2>5, <2>6, <2>7 DEF Call
<1>4. ASSUME NEW p \in Proc, Attaching(p) PROVE Kind
  <2>1. CASE Semget(p)
    <3>1. Quiet BY <2>1 DEF Semget, Quiet
    <3> QED BY <3>1 DEF Kind
  <2>2. CASE SetCap(p)
    <3>1. Quiet BY <2>2, <1>0 DEF SetCap, Quiet
    <3> QED BY <3>1 DEF Kind
  <2>3. CASE SetSem(p)
    <3>1. Quiet BY <2>3 DEF SetSem, Quiet
    <3> QED BY <3>1 DEF Kind
  <2>4. CASE FirstIncrease(p)
    <3>1. Quiet BY <2>4 DEF FirstIncrease, Adjust, Quiet
    <3> QED BY <3>1 DEF Kind
  <2>5. CASE Find(p)
    <3>1. Quiet BY <2>5, <1>2 DEF Find, Quiet
    <3> QED BY <3>1 DEF Kind
  <2>6. CASE ReadCap(p)
    <3>1. Quiet BY <2>6 DEF ReadCap, Quiet
    <3> QED BY <3>1 DEF Kind
  <2>7. CASE ReadSem(p)
    <3>1. Quiet BY <2>7 DEF ReadSem, Quiet
    <3> QED BY <3>1 DEF Kind
  <2> QED BY <1>4, <2>1, <2>2, <2>3, <2>4, <2>5, <2>6, <2>7 DEF Attaching
<1>5. ASSUME NEW p \in Proc, InCall(p) PROVE Kind
  <2>1. CASE DecreaseAgain(p)
    <3>1. Quiet BY <2>1 DEF DecreaseAgain, Quiet
    <3> QED BY <3>1 DEF Kind
  <2>2. CASE DecreaseError(p)
    <3>1. Quiet BY <2>2, <1>2 DEF DecreaseError, Quiet
    <3> QED BY <3>1 DEF Kind
  <2>3. CASE PushStore(p)
    <3>1. Quiet BY <2>3, <1>2 DEF PushStore, Quiet
    <3> QED BY <3>1 DEF Kind
  <2>4. CASE Load(p)
    <3>1. Quiet BY <2>4 DEF Load, Quiet
    <3> QED BY <3>1 DEF Kind
  <2>5. CASE PushInc(p)
    <3>1. Grow(p) BY <2>5, <1>0 DEF PushInc, Grow
    <3> QED BY <3>1 DEF Kind
  <2>6. CASE PopDec(p)
    <3>1. Shrink(p) BY <2>6, <1>0 DEF PopDec, Shrink
    <3> QED BY <3>1 DEF Kind
  <2>7. CASE PopRead(p)
    <3>1. Quiet BY <2>7, <1>2 DEF PopRead, Quiet
    <3> QED BY <3>1 DEF Kind
  <2>8. CASE Increase(p)
    <3>1. Quiet BY <2>8 DEF Increase, Adjust, Quiet
    <3> QED BY <3>1 DEF Kind
  <2>9. CASE IncreaseError(p)
    <3>1. Quiet BY <2>9, <1>2 DEF IncreaseError, Quiet
    <3> QED BY <3>1 DEF Kind
  <2>10. CASE RemoveSem(p)
    <3>1. Quiet BY <2>10, <1>2 DEF RemoveSem, Quiet
    <3> QED BY <3>1 DEF Kind
  <2>11. CASE RemoveShm(p)
    <3>1. Quiet BY <2>11 DEF RemoveShm, Quiet
    <3> QED BY <3>1 DEF Kind
  <2> QED
    BY <1>5, <1>4, <2>1, <2>2, <2>3, <2>4, <2>5, <2>6, <2>7, <2>8, <2>9, <2>10, <2>11
       DEF InCall
<1>6. ASSUME NEW p \in Proc, Decrease(p) PROVE Kind
  <2>1. Quiet BY <1>6 DEF Decrease, Adjust, AfterDecrease, Quiet
  <2> QED BY <2>1 DEF Kind
<1>7. ASSUME NEW p \in Proc, Kill(p) PROVE Kind
  BY <1>7, <1>2 DEF Kill, Kind
<1> QED BY <1>1, <1>3, <1>5, <1>6, <1>7 DEF Next

\* The size a process has loaded is the size until it stores it back.
Loaded == \A p \in Proc : pc[p] \in {"push_inc", "pop_dec"} => reg[p] = size

\* Nobody else changes the size in between: push (stack.c:119-120) and pop
\* (stack.c:147) lose no update.
LEMMA LoadedStep == TypeOK /\ LockInv /\ HandleInv /\ Loaded /\ [Next]_vars => Loaded'
<1> USE DEF WaitPC, PushPC, PopPC, PostPC, CriticalPC, CreatePC, AttachPC, DestroyPC
<1> SUFFICES ASSUME TypeOK, LockInv, HandleInv, Loaded, [Next]_vars PROVE Loaded'
  OBVIOUS
<1> USE DEF TypeOK, Loaded, Goto, shared, locals
<1>0. /\ \A p, q \in Proc : Critical(p) /\ Critical(q) => p = q
      /\ \A p \in Proc : pc[p] \in CreatePC => size = 0
  BY DEF LockInv, HasUnit, HandleInv
<1>1. CASE UNCHANGED vars
  BY <1>1 DEF vars
<1>2. ASSUME NEW p \in Proc, Die(p) PROVE Loaded'
  BY <1>2 DEF Die
<1>3. ASSUME NEW p \in Proc, Call(p) PROVE Loaded'
  <2>1. CASE Shmget(p) BY <2>1 DEF Shmget
  <2>2. CASE PopCheck(p) BY <2>2 DEF PopCheck
  <2>3. CASE Dump(p) BY <2>3 DEF Dump
  <2>4. CASE Detach(p) BY <2>4 DEF Detach
  <2>5. CASE MarkDestruct(p) BY <2>5, <1>2 DEF MarkDestruct
  <2>6. ASSUME NEW v \in Val, PushCheck(p, v) PROVE Loaded'
    BY <2>6 DEF PushCheck
  <2>7. ASSUME NEW m \in Modes, SetWait(p, m) PROVE Loaded'
    BY <2>7 DEF SetWait
  <2> QED BY <1>3, <2>1, <2>2, <2>3, <2>4, <2>5, <2>6, <2>7 DEF Call
<1>4. ASSUME NEW p \in Proc, Attaching(p) PROVE Loaded'
  <2>1. CASE Semget(p) BY <2>1 DEF Semget
  <2>2. CASE SetCap(p) BY <2>2, <1>0 DEF SetCap
  <2>3. CASE SetSem(p) BY <2>3 DEF SetSem
  <2>4. CASE FirstIncrease(p) BY <2>4 DEF FirstIncrease, Adjust
  <2>5. CASE Find(p) BY <2>5, <1>2 DEF Find
  <2>6. CASE ReadCap(p) BY <2>6 DEF ReadCap
  <2>7. CASE ReadSem(p) BY <2>7 DEF ReadSem
  <2> QED BY <1>4, <2>1, <2>2, <2>3, <2>4, <2>5, <2>6, <2>7 DEF Attaching
<1>5. ASSUME NEW p \in Proc, InCall(p) PROVE Loaded'
  <2>1. CASE DecreaseAgain(p) BY <2>1 DEF DecreaseAgain
  <2>2. CASE DecreaseError(p) BY <2>2, <1>2 DEF DecreaseError
  <2>3. CASE PushStore(p) BY <2>3, <1>2 DEF PushStore
  <2>4. CASE Load(p) BY <2>4 DEF Load
  <2>5. CASE PushInc(p) BY <2>5, <1>0 DEF PushInc, Critical
  <2>6. CASE PopDec(p) BY <2>6, <1>0 DEF PopDec, Critical
  <2>7. CASE PopRead(p) BY <2>7, <1>2 DEF PopRead
  <2>8. CASE Increase(p) BY <2>8 DEF Increase, Adjust
  <2>9. CASE IncreaseError(p) BY <2>9, <1>2 DEF IncreaseError
  <2>10. CASE RemoveSem(p) BY <2>10, <1>2 DEF RemoveSem
  <2>11. CASE RemoveShm(p) BY <2>11 DEF RemoveShm
  <2> QED
    BY <1>5, <1>4, <2>1, <2>2, <2>3, <2>4, <2>5, <2>6, <2>7, <2>8, <2>9, <2>10, <2>11
       DEF InCall
<1>6. ASSUME NEW p \in Proc, Decrease(p) PROVE Loaded'
  BY <1>6 DEF Decrease, Adjust, AfterDecrease
<1>7. ASSUME NEW p \in Proc, Kill(p) PROVE Loaded'
  BY <1>7, <1>2 DEF Kill
<1> QED BY <1>1, <1>3, <1>5, <1>6, <1>7 DEF Next

\* A step of any kind keeps the bounds on the size.
LEMMA KindKeepsBounds == TypeOK /\ SizeInv /\ Kind /\ Loaded' => SizeInv'
<1> SUFFICES ASSUME TypeOK, SizeInv, Kind, Loaded' PROVE SizeInv'
  OBVIOUS
<1>1. /\ Pushing \in SUBSET Proc /\ Popping \in SUBSET Proc
      /\ Pushing' \in SUBSET Proc /\ Popping' \in SUBSET Proc
  BY DEF Pushing, Popping
<1>2. /\ Pushing \subseteq Pushers /\ Popping \subseteq Poppers /\ size \in Int
      /\ size + Cardinality(Pushing) < Cap + Cardinality(Pushers)
      /\ size - Cardinality(Popping) > 0 - Cardinality(Poppers)
  BY DEF SizeInv, TypeOK
<1>3. Pushing' \subseteq Pushers /\ Popping' \subseteq Poppers
  BY <1>2 DEF Kind, Quiet, AdmitPush, AdmitPop, Grow, Shrink
<1>4. /\ Cardinality(Pushing) \in Nat /\ Cardinality(Popping) \in Nat
      /\ Cardinality(Pushing') \in Nat /\ Cardinality(Popping') \in Nat
      /\ Cardinality(Pushers) \in Nat /\ Cardinality(Poppers) \in Nat
      /\ Cardinality(Pushing') <= Cardinality(Pushers)
      /\ Cardinality(Popping') <= Cardinality(Poppers)
  BY <1>1, <1>3, Sizes
<1>5. /\ Pushing' \subseteq Pushing => Cardinality(Pushing') <= Cardinality(Pushing)
      /\ Popping' \subseteq Popping => Cardinality(Popping') <= Cardinality(Popping)
  BY <1>1, Sizes
<1>6. /\ size' + Cardinality(Pushing') < Cap + Cardinality(Pushers)
      /\ size' - Cardinality(Popping') > 0 - Cardinality(Poppers)
  <2>1. CASE Quiet
    BY <2>1, <1>2, <1>4, <1>5 DEF Quiet
  <2>2. ASSUME NEW p \in Proc, AdmitPush(p) PROVE <1>6!1 /\ <1>6!2
    BY <2>2, <1>2, <1>4, <1>5 DEF AdmitPush
  <2>3. ASSUME NEW p \in Proc, AdmitPop(p) PROVE <1>6!1 /\ <1>6!2
    BY <2>3, <1>2, <1>4, <1>5 DEF AdmitPop
  <2>4. ASSUME NEW p \in Proc, Grow(p) PROVE <1>6!1 /\ <1>6!2
    <3>1. Cardinality(Pushing') <= Cardinality(Pushing) - 1
      <4>1. /\ Pushing \ {p} \in SUBSET Proc /\ p \in Pushing
            /\ Pushing' \subseteq Pushing \ {p}
        BY <1>1, <2>4 DEF Grow
      <4>2. Cardinality(Pushing \ {p}) = Cardinality(Pushing) - 1
        BY <1>1, <4>1, Sizes
      <4>3. Cardinality(Pushing') <= Cardinality(Pushing \ {p})
        BY <1>1, <4>1, Sizes
      <4> QED BY <4>2, <4>3
    <3> QED BY <2>4, <3>1, <1>2, <1>4, <1>5 DEF Grow
  <2>5. ASSUME NEW p \in Proc, Shrink(p) PROVE <1>6!1 /\ <1>6!2
    <3>1. Cardinality(Popping') <= Cardinality(Popping) - 1
      <4>1. /\ Popping \ {p} \in SUBSET Proc /\ p \in Popping
            /\ Popping' \subseteq Popping \ {p}
        BY <1>1, <2>5 DEF Shrink
      <4>2. Cardinality(Popping \ {p}) = Cardinality(Popping) - 1
        BY <1>1, <4>1, Sizes
      <4>3. Cardinality(Popping') <= Cardinality(Popping \ {p})
        BY <1>1, <4>1, Sizes
      <4> QED BY <4>2, <4>3
    <3> QED BY <2>5, <3>1, <1>2, <1>4, <1>5 DEF Shrink
  <2> QED BY <2>1, <2>2, <2>3, <2>4, <2>5 DEF Kind
<1> QED BY <1>3, <1>6 DEF SizeInv, Loaded

\* The inductive invariant of the stack, and that it is one.
StackInv == TypeOK /\ LockInv /\ HandleInv /\ SizeInv

\* StackInv holds at the start and no step breaks it, when dumps wait.
LEMMA StackInvariant == DumpsWait => (Spec => []StackInv)
<1> SUFFICES ASSUME DumpsWait PROVE Spec => []StackInv
  OBVIOUS
<1>1. Init => StackInv
  <2> SUFFICES ASSUME Init PROVE StackInv
    OBVIOUS
  <2>1. TypeOK
    BY DEF Init, TypeOK, WaitPC, CriticalPC, CreatePC, AttachPC, DestroyPC
  <2>2. LockInv
    BY DEF Init, LockInv, HasUnit, Critical, CriticalPC, PushPC, PopPC, PostPC, CreatePC
  <2>3. HandleInv
    BY DEF Init, HandleInv, Critical, WaitPC, CriticalPC, PushPC, PopPC, PostPC, CreatePC
  <2>4. SizeInv
    <3>1. Pushing = {} /\ Popping = {} /\ Loaded
      BY DEF Init, Pushing, Popping, Loaded
    <3>2. Cardinality({}) = 0
      BY FS_EmptySet
    <3>3. \A S \in SUBSET Proc : S # {} => Cardinality(S) > 0
      BY FS_Subset, FS_EmptySet, FS_CardinalityType
    <3>4. Cardinality(Pushers) > 0 /\ Cardinality(Poppers) > 0
      BY <3>3
    <3>5. Cardinality(Pushers) \in Nat /\ Cardinality(Poppers) \in Nat
      BY Sizes
    <3> QED BY <3>1, <3>2, <3>4, <3>5 DEF Init, SizeInv, Loaded
  <2> QED BY <2>1, <2>2, <2>3, <2>4 DEF StackInv
<1>2. StackInv /\ [Next]_vars => StackInv'
  <2> SUFFICES ASSUME StackInv, [Next]_vars PROVE StackInv'
    OBVIOUS
  <2> USE DEF StackInv
  <2>1. TypeOK' BY TypeStep
  <2>2. LockInv' BY LockStep
  <2>3. HandleInv' BY HandleStep
  <2>4. Loaded' BY LoadedStep DEF SizeInv, Loaded
  <2>5. SizeInv' BY <2>4, StepKinds, KindKeepsBounds
  <2> QED BY <2>1, <2>2, <2>3, <2>5
<1> QED BY <1>1, <1>2, PTL DEF Spec

\* The size passes either end of the stack by less than one for each process
\* that pushes, respectively pops: the price of testing the size before the
\* critical section (stack.c:106, 133).
THEOREM Overshoot == DumpsWait => (Spec => []BoundedOvershoot)
<1>1. StackInv => BoundedOvershoot
  <2> SUFFICES ASSUME StackInv PROVE BoundedOvershoot
    OBVIOUS
  <2>1. Cardinality(Pushing) \in Nat /\ Cardinality(Popping) \in Nat
    BY Sizes DEF Pushing, Popping
  <2>2. Cardinality(Pushers) \in Nat /\ Cardinality(Poppers) \in Nat
    BY Sizes
  <2> QED BY <2>1, <2>2 DEF StackInv, SizeInv, TypeOK, BoundedOvershoot
<1> QED BY <1>1, StackInvariant, PTL

\* Only a push onto a size of -1 overwrites the header.
LEMMA HeaderStep ==
  [Next]_vars /\ size >= 0 /\ size \in Int /\ header # "clobbered" => header' # "clobbered"
<1> SUFFICES ASSUME [Next]_vars, size >= 0, size \in Int, header # "clobbered"
             PROVE  header' # "clobbered"
  OBVIOUS
<1> USE DEF shared, locals
<1>1. CASE UNCHANGED vars BY <1>1 DEF vars
<1>2. ASSUME NEW p \in Proc, Die(p) PROVE header' = header
  BY <1>2 DEF Die
<1>3. ASSUME NEW p \in Proc, Call(p) PROVE header' = header
  BY <1>3, <1>2 DEF Call, Shmget, PopCheck, Dump, Detach, MarkDestruct, PushCheck, SetWait
<1>4. ASSUME NEW p \in Proc, Attaching(p) PROVE header' # "clobbered"
  BY <1>4, <1>2 DEF Attaching, Semget, SetCap, SetSem, FirstIncrease, Find, ReadCap, ReadSem
<1>5. ASSUME NEW p \in Proc, PushStore(p) PROVE header' # "clobbered"
  BY <1>5, <1>2 DEF PushStore
<1>6. ASSUME NEW p \in Proc, InCall(p) PROVE header' # "clobbered"
  BY <1>6, <1>2, <1>4, <1>5
     DEF InCall, DecreaseAgain, DecreaseError, Load, PushInc, PopDec, PopRead, Increase,
         IncreaseError, RemoveSem, RemoveShm
<1>7. ASSUME NEW p \in Proc, Decrease(p) \/ Kill(p) PROVE header' = header
  BY <1>7, <1>2 DEF Decrease, Kill
<1> QED BY <1>1, <1>3, <1>6, <1>7 DEF Next

\* With one process that pops, the size never goes below zero and nothing is ever
\* written over the capacity and the semaphore id (stack.c:119, 133).
THEOREM HeaderSafe == DumpsWait => (Spec => []HeaderIntact)
<1> SUFFICES ASSUME DumpsWait PROVE Spec => []HeaderIntact
  OBVIOUS
<1>1. Init => HeaderIntact
  BY DEF Init, HeaderIntact
<1>2. StackInv /\ BoundedOvershoot /\ HeaderIntact /\ [Next]_vars => HeaderIntact'
  BY HeaderStep DEF HeaderIntact, BoundedOvershoot, StackInv, TypeOK
<1> QED BY <1>1, <1>2, StackInvariant, Overshoot, PTL DEF Spec

-----------------------------------------------------------------------------
(* Setting up. *)

\* FirstIncrease comes after the header.
SetupInv ==
  /\ EntryAfterSetup
  /\ \A p \in Proc : pc[p] = "a_post" => header \notin {"zero", "cap"}

\* Every step of attach_stack, push, pop and dump keeps SetupInv (stack.c:23-44): what
\* changes the size or gives a unit back is inside or the creator.
LEMMA SetupStep ==
  DumpsWait /\ TypeOK /\ LockInv /\ HandleInv /\ SetupInv /\ [Next]_vars => SetupInv'
<1> USE DEF WaitPC, PushPC, PopPC, PostPC, CriticalPC, CreatePC, AttachPC, DestroyPC
<1> SUFFICES ASSUME DumpsWait, TypeOK, LockInv, HandleInv, SetupInv, [Next]_vars
             PROVE  SetupInv'
  OBVIOUS
<1> USE DEF SetupInv, EntryAfterSetup, TypeOK, Goto, shared, locals
<1>0. /\ \A p, q \in Proc : HasUnit(p) /\ HasUnit(q) => p = q
      /\ \A p \in Proc : HasUnit(p) => semval = 0
      /\ \A p \in Proc : undo[p] <= (IF Critical(p) THEN 1 ELSE 0)
      /\ \A p \in Proc : pc[p] \in CreatePC => size = 0
  BY DEF LockInv, HandleInv
<1> USE DEF Critical, HasUnit
<1>1. CASE UNCHANGED vars
  BY <1>1 DEF vars
<1>2. ASSUME NEW p \in Proc, Die(p) PROVE SetupInv'
  BY <1>0, <1>2 DEF Die
<1>3. ASSUME NEW p \in Proc, Call(p) PROVE SetupInv'
  <2>1. CASE Shmget(p) BY <2>1 DEF Shmget
  <2>2. CASE PopCheck(p) BY <2>2 DEF PopCheck
  <2>3. CASE Dump(p) BY <2>3 DEF Dump
  <2>4. CASE Detach(p) BY <2>4 DEF Detach
  <2>5. CASE MarkDestruct(p) BY <2>5, <1>2 DEF MarkDestruct
  <2>6. ASSUME NEW v \in Val, PushCheck(p, v) PROVE SetupInv'
    BY <2>6 DEF PushCheck
  <2>7. ASSUME NEW m \in Modes, SetWait(p, m) PROVE SetupInv'
    BY <2>7 DEF SetWait
  <2> QED BY <1>3, <2>1, <2>2, <2>3, <2>4, <2>5, <2>6, <2>7 DEF Call
<1>4. ASSUME NEW p \in Proc, Attaching(p) PROVE SetupInv'
  <2>1. CASE Semget(p) BY <2>1 DEF Semget
  <2>2. CASE SetCap(p) BY <2>2, <1>0 DEF SetCap
  <2>3. CASE SetSem(p) BY <2>3 DEF SetSem
  <2>4. CASE FirstIncrease(p) BY <2>4 DEF FirstIncrease, Adjust
  <2>5. CASE Find(p) BY <2>5, <1>2 DEF Find
  <2>6. CASE ReadCap(p) BY <2>6 DEF ReadCap
  <2>7. CASE ReadSem(p) BY <2>7 DEF ReadSem
  <2> QED BY <1>4, <2>1, <2>2, <2>3, <2>4, <2>5, <2>6, <2>7 DEF Attaching
<1>5. ASSUME NEW p \in Proc, InCall(p) PROVE SetupInv'
  <2>1. CASE DecreaseAgain(p)
    <3>1. pc[p] # "dump_wait"
      BY <2>1 DEF DecreaseAgain, DumpsWait, LockInv
    <3> QED BY <2>1, <3>1 DEF DecreaseAgain
  <2>2. CASE DecreaseError(p) BY <2>2, <1>2 DEF DecreaseError
  <2>3. CASE PushStore(p) BY <2>3, <1>2 DEF PushStore
  <2>4. CASE Load(p) BY <2>4 DEF Load
  <2>5. CASE PushInc(p) BY <2>5 DEF PushInc
  <2>6. CASE PopDec(p) BY <2>6 DEF PopDec
  <2>7. CASE PopRead(p) BY <2>7, <1>2 DEF PopRead
  <2>8. CASE Increase(p) BY <2>8 DEF Increase, Adjust
  <2>9. CASE IncreaseError(p) BY <2>9, <1>2 DEF IncreaseError
  <2>10. CASE RemoveSem(p) BY <2>10, <1>2 DEF RemoveSem
  <2>11. CASE RemoveShm(p) BY <2>11 DEF RemoveShm
  <2> QED
    BY <1>5, <1>4, <2>1, <2>2, <2>3, <2>4, <2>5, <2>6, <2>7, <2>8, <2>9, <2>10, <2>11
       DEF InCall
<1>6. ASSUME NEW p \in Proc, Decrease(p) PROVE SetupInv'
  BY <1>6 DEF Decrease, Adjust, AfterDecrease
<1>7. ASSUME NEW p \in Proc, Kill(p) PROVE SetupInv'
  BY <1>7, <1>2 DEF Kill
<1> QED BY <1>1, <1>3, <1>5, <1>6, <1>7 DEF Next

\* The semaphore is given its first unit after the header is complete (stack.c:40-44): a
\* process that finds zeros in the header finds a stack in which nobody has been.
THEOREM SetUpFirst == DumpsWait => (Spec => []EntryAfterSetup)
<1> SUFFICES ASSUME DumpsWait PROVE Spec => []EntryAfterSetup
  OBVIOUS
<1>1. Init => SetupInv
  BY DEF Init, SetupInv, EntryAfterSetup, Critical, CriticalPC, PushPC, PopPC, PostPC
<1>2. StackInv => TypeOK /\ LockInv /\ HandleInv
  BY DEF StackInv
<1>3. SetupInv => EntryAfterSetup
  BY DEF SetupInv
<1>4. TypeOK /\ LockInv /\ HandleInv /\ SetupInv /\ [Next]_vars => SetupInv'
  BY SetupStep
<1> QED BY <1>1, <1>2, <1>3, <1>4, StackInvariant, PTL DEF Spec
-----------------------------------------------------------------------------
(* The stack that users see. Push writes a slot above the stack and makes it *)
(* a part of it by storing the size; pop takes it away when it has read it.  *)

OnePopper == Cardinality(Poppers) = 1

\* A push in the critical section has its pointer, and after mem_[owner_[0]] = val (stack.c:119)
\* the pointer is in the slot at the size.
Filled ==
  /\ \A p \in Proc : pc[p] \in {"push_wait", "push_store", "push_load", "push_inc"}
                       => val[p] \in Val
  /\ \A p \in Proc : pc[p] \in {"push_load", "push_inc"} => mem[size] = val[p]

\* With one process that pops the size is that of a stack, and one that can be written to.
LEMMA SizeInSlots ==
  ASSUME StackInv, OnePopper
  PROVE  size \in Nat /\ size \in Slot
<1>1. /\ Cardinality(Pushing) \in Nat /\ Cardinality(Popping) \in Nat
      /\ Cardinality(Pushers) \in Nat /\ Cardinality(Proc) \in Nat
      /\ Cardinality(Pushers) <= Cardinality(Proc)
  BY Sizes DEF Pushing, Popping
<1>2. /\ size \in Int /\ size + Cardinality(Pushing) < Cap + Cardinality(Pushers)
      /\ size - Cardinality(Popping) > 0 - 1
  BY DEF StackInv, SizeInv, TypeOK, OnePopper
<1> QED BY <1>1, <1>2 DEF Slot

\* Nobody else writes to the slot or changes the size (stack.c:104-158).
LEMMA FilledStep ==
  ASSUME StackInv, OnePopper, Filled, [Next]_vars
  PROVE  Filled'
<1> USE DEF WaitPC, PushPC, PopPC, PostPC, CriticalPC, CreatePC, AttachPC, DestroyPC
<1>0. /\ \A p, q \in Proc : Critical(p) /\ Critical(q) => p = q
      /\ \A p, q \in Proc : Critical(p) => pc[q] \notin CreatePC
      /\ size \in Slot /\ size >= 0 /\ TypeOK
  BY SizeInSlots DEF StackInv, LockInv, HasUnit, Critical
<1> USE DEF TypeOK, Filled, Goto, shared, locals
<1>1. CASE UNCHANGED vars
  BY <1>1 DEF vars
<1>2. ASSUME NEW p \in Proc, Die(p) PROVE Filled'
  BY <1>0, <1>2 DEF Die
<1>3. ASSUME NEW p \in Proc, Call(p) PROVE Filled'
  <2>1. CASE Shmget(p) BY <1>0, <2>1 DEF Shmget
  <2>2. CASE PopCheck(p) BY <1>0, <2>2 DEF PopCheck
  <2>3. CASE Dump(p) BY <1>0, <2>3 DEF Dump
  <2>4. CASE Detach(p) BY <1>0, <2>4 DEF Detach
  <2>5. CASE MarkDestruct(p) BY <1>0, <2>5, <1>2 DEF MarkDestruct
  <2>6. ASSUME NEW v \in Val, PushCheck(p, v) PROVE Filled'
    BY <1>0, <2>6 DEF PushCheck
  <2>7. ASSUME NEW m \in Modes, SetWait(p, m) PROVE Filled'
    BY <1>0, <2>7 DEF SetWait
  <2> QED BY <1>3, <2>1, <2>2, <2>3, <2>4, <2>5, <2>6, <2>7 DEF Call
<1>4. ASSUME NEW p \in Proc, Attaching(p) PROVE Filled'
  <2>1. CASE Semget(p) BY <1>0, <2>1 DEF Semget
  <2>2. CASE SetCap(p) BY <1>0, <2>2 DEF SetCap, Critical
  <2>3. CASE SetSem(p) BY <1>0, <2>3 DEF SetSem
  <2>4. CASE FirstIncrease(p) BY <1>0, <2>4 DEF FirstIncrease, Adjust
  <2>5. CASE Find(p) BY <1>0, <2>5, <1>2 DEF Find
  <2>6. CASE ReadCap(p) BY <1>0, <2>6 DEF ReadCap
  <2>7. CASE ReadSem(p) BY <1>0, <2>7 DEF ReadSem
  <2> QED BY <1>4, <2>1, <2>2, <2>3, <2>4, <2>5, <2>6, <2>7 DEF Attaching
<1>5. ASSUME NEW p \in Proc, InCall(p) PROVE Filled'
  <2>1. CASE DecreaseAgain(p) BY <1>0, <2>1 DEF DecreaseAgain
  <2>2. CASE DecreaseError(p) BY <2>2, <1>2 DEF DecreaseError
  <2>3. CASE PushStore(p)
    <3>1. mem' = [mem EXCEPT ![size] = val[p]] /\ size' = size /\ val' = val
          /\ pc' = [pc EXCEPT ![p] = "push_load"] /\ pc[p] = "push_store"
      BY <1>0, <2>3 DEF PushStore
    <3>2. mem'[size] = val[p]
      BY <1>0, <3>1
    <3>3. \A q \in Proc : q # p => pc[q] \notin {"push_load", "push_inc"}
      BY <1>0, <3>1 DEF Critical
    <3> QED BY <1>0, <3>1, <3>2, <3>3
  <2>4. CASE Load(p) BY <1>0, <2>4 DEF Load
  <2>5. CASE PushInc(p) BY <1>0, <2>5 DEF PushInc, Critical
  <2>6. CASE PopDec(p) BY <1>0, <2>6 DEF PopDec, Critical
  <2>7. CASE PopRead(p) BY <1>0, <2>7, <1>2 DEF PopRead
  <2>8. CASE Increase(p) BY <1>0, <2>8 DEF Increase, Adjust
  <2>9. CASE IncreaseError(p) BY <2>9, <1>2 DEF IncreaseError
  <2>10. CASE RemoveSem(p) BY <1>0, <2>10, <1>2 DEF RemoveSem
  <2>11. CASE RemoveShm(p) BY <1>0, <2>11 DEF RemoveShm
  <2> QED
    BY <1>5, <1>4, <2>1, <2>2, <2>3, <2>4, <2>5, <2>6, <2>7, <2>8, <2>9, <2>10, <2>11
       DEF InCall
<1>6. ASSUME NEW p \in Proc, Decrease(p) PROVE Filled'
  BY <1>0, <1>6 DEF Decrease, Adjust, AfterDecrease
<1>7. ASSUME NEW p \in Proc, Kill(p) PROVE Filled'
  BY <1>7, <1>2 DEF Kill
<1> QED BY <1>1, <1>3, <1>5, <1>6, <1>7 DEF Next

\* The refinement mapping of SharedStack.
StackView == [i \in 1 .. size + Cardinality(Reading) |-> mem[i - 1]]
GotView == [p \in Proc |-> IF pc[p] = "pop_post" THEN val[p] ELSE Nil]

\* The stack that users see has the size for length, and one more while a pop reads its slot.
LEMMA ViewTypes ==
  ASSUME StackInv, OnePopper
  PROVE  /\ Reading = {} \/ \E p \in Proc : Reading = {p}
         /\ Reading = {} => Cardinality(Reading) = 0
         /\ \A p \in Proc : p \in Reading => Cardinality(Reading) = 1
         /\ size + Cardinality(Reading) \in Nat
         /\ StackView \in Seq(Val \cup {Nil})
         /\ Len(StackView) = size + Cardinality(Reading)
         /\ \A i \in 1 .. Len(StackView) : StackView[i] = mem[i - 1]
<1> DEFINE n == size + Cardinality(Reading)
<1>1. \A p, q \in Reading : p = q
  BY DEF StackInv, LockInv, HasUnit, Critical, CriticalPC, PopPC, Reading
<1>2. Reading = {} \/ \E p \in Proc : Reading = {p}
  BY <1>1 DEF Reading
<1>3. /\ Reading = {} => Cardinality(Reading) = 0
      /\ \A p \in Proc : p \in Reading => Cardinality(Reading) = 1
  <2>1. ASSUME NEW p \in Proc, p \in Reading PROVE Reading = {p}
    BY <1>2, <2>1
  <2> QED BY <2>1, FS_EmptySet, FS_Singleton
<1>4. size \in Nat /\ size \in Slot
  BY SizeInSlots
<1>5. n \in Nat /\ n <= size + 1
  BY <1>2, <1>3, <1>4
<1>6. \A i \in 1 .. n : i - 1 \in Slot
  <2>1. Cardinality(Proc) \in Nat
    BY Sizes
  <2> QED BY <1>4, <1>5, <2>1 DEF Slot
<1> HIDE DEF n
<1>7. \A i \in 1 .. n : mem[i - 1] \in Val \cup {Nil}
  BY <1>6 DEF StackInv, TypeOK
<1>8. StackView = [i \in 1 .. n |-> mem[i - 1]]
  BY DEF StackView, n
<1>9. StackView \in [1 .. n -> Val \cup {Nil}]
  BY <1>7, <1>8
<1>10. StackView \in Seq(Val \cup {Nil})
  BY <1>5, <1>9, SeqDef
<1>11. Len(StackView) = n
  BY <1>5, <1>9, <1>10, LenProperties
<1> QED BY <1>2, <1>3, <1>5, <1>8, <1>10, <1>11 DEF n

\* The slots below a size, as a sequence.
LEMMA SlotSeq ==
  ASSUME NEW n \in Nat, NEW m, NEW S, \A i \in 1 .. n : m[i - 1] \in S,
         NEW s, s = [i \in 1 .. n |-> m[i - 1]]
  PROVE  s \in Seq(S) /\ Len(s) = n /\ \A i \in 1 .. n : s[i] = m[i - 1]
<1>1. s \in [1 .. n -> S]
  OBVIOUS
<1>2. s \in Seq(S)
  BY <1>1, SeqDef
<1>3. Len(s) = n
  BY <1>1, <1>2, LenProperties
<1> QED BY <1>2, <1>3

\* A step that changes nothing of what users see.
Silent ==
  /\ size' = size /\ mem' = mem
  /\ \A p \in Proc : /\ pc'[p] = "pop_read" <=> pc[p] = "pop_read"
                     /\ pc'[p] = "pop_post" <=> pc[p] = "pop_post"
                     /\ pc[p] = "pop_post" => val'[p] = val[p]

\* A step that changes none of the variables below is a stutter of the abstract stack.
LEMMA SilentView ==
  ASSUME Silent
  PROVE  UNCHANGED <<StackView, GotView>>
<1>1. Reading' = Reading
  BY DEF Silent, Reading
<1>2. StackView' = StackView
  BY <1>1 DEF Silent, StackView
<1>3. GotView' = GotView
  BY DEF Silent, GotView
<1> QED BY <1>2, <1>3

\* Only p moves.
Moved(p) == \A q \in Proc : q # p => pc'[q] = pc[q] /\ val'[q] = val[q]

\* Storing the raised size pushes the pointer (stack.c:120).
LEMMA IncPushes ==
  ASSUME StackInv, OnePopper, Filled, NEW p \in Proc, PushInc(p), NEW v, v = val[p]
  PROVE  v \in Val /\ Abstract!Push(v)
<1> USE DEF WaitPC, PushPC, PopPC, PostPC, CriticalPC, CreatePC, AttachPC, DestroyPC
<1>1. /\ pc[p] = "push_inc" /\ size' = reg[p] + 1 /\ mem' = mem /\ val' = val
      /\ pc' = [pc EXCEPT ![p] = "push_post"] /\ pc \in [Proc -> PCs]
  BY DEF PushInc, Goto, shared, StackInv, TypeOK, PCs
<1>2. reg[p] = size /\ mem[size] = val[p] /\ val[p] \in Val
  BY <1>1 DEF StackInv, SizeInv, Filled
<1>3. Reading = {} /\ Reading' = {}
  BY <1>1 DEF StackInv, LockInv, HasUnit, Critical, Reading
<1>4. Cardinality(Reading) = 0 /\ Cardinality(Reading)' = 0
  BY <1>3, FS_EmptySet
<1>5. size \in Nat
  BY SizeInSlots
<1>6. StackView' = [i \in 1 .. size + 1 |-> mem[i - 1]]
  BY <1>1, <1>2, <1>4, <1>5 DEF StackView
<1>7. /\ StackView \in Seq(Val \cup {Nil}) /\ Len(StackView) = size
      /\ \A i \in 1 .. size : StackView[i] = mem[i - 1]
  BY <1>4, <1>5, ViewTypes
<1>8. \A i \in 1 .. size + 1 : mem[i - 1] \in Val \cup {Nil}
  <2>1. \A i \in 1 .. size : StackView[i] \in Val \cup {Nil}
    BY <1>7, ElementOfSeq
  <2>2. ASSUME NEW i \in 1 .. size + 1 PROVE i \in 1 .. size \/ i - 1 = size
    BY <1>5
  <2>3. \A i \in 1 .. size : mem[i - 1] \in Val \cup {Nil}
    BY <1>7, <2>1
  <2> QED BY <1>2, <2>2, <2>3
<1>9. /\ StackView' \in Seq(Val \cup {Nil}) /\ Len(StackView') = size + 1
      /\ \A i \in 1 .. size + 1 : StackView'[i] = mem[i - 1]
  BY <1>5, <1>6, <1>8, SlotSeq
<1>10. StackView' = Append(StackView, val[p])
  <2> DEFINE t == Append(StackView, val[p])
  <2>1. /\ t \in Seq(Val \cup {Nil}) /\ Len(t) = size + 1 /\ t[size + 1] = val[p]
        /\ \A i \in 1 .. size : t[i] = StackView[i]
    BY <1>2, <1>7, AppendProperties
  <2> HIDE DEF t
  <2>2. \A i \in 1 .. size + 1 : StackView'[i] = t[i]
    <3>1. ASSUME NEW i \in 1 .. size + 1
          PROVE  i \in 1 .. size \/ (i = size + 1 /\ i - 1 = size)
      BY <1>5
    <3>2. \A i \in 1 .. size : t[i] = mem[i - 1]
      BY <1>7, <2>1
    <3> QED BY <1>2, <1>9, <2>1, <3>1, <3>2
  <2>3. StackView' = t
    BY <1>9, <2>1, <2>2, SeqEqual
  <2> QED BY <2>3 DEF t
<1>11. size < Cap + Cardinality(Pushers) - 1
  <2>1. p \in Pushing
    <3>1. semok[p]
      BY <1>1 DEF StackInv, HandleInv, Critical
    <3> QED BY <1>1, <3>1 DEF Pushing
  <2>2. Pushing \in SUBSET Proc
    BY DEF Pushing
  <2>3. Cardinality(Pushing \ {p}) = Cardinality(Pushing) - 1 /\ Cardinality(Pushing \ {p}) \in Nat
        /\ Cardinality(Pushing) \in Nat /\ Cardinality(Pushers) \in Nat
    BY <2>1, <2>2, Sizes
  <2> QED BY <1>5, <2>3 DEF StackInv, SizeInv
<1>12. GotView' = GotView
  BY <1>1 DEF GotView
<1>13. Len(StackView) < Cap + Cardinality(Pushers) - 1
  BY <1>7, <1>11
<1> QED BY <1>2, <1>10, <1>12, <1>13 DEF Abstract!Push, StackView, GotView

\* Lowering the size changes nothing, since its slot counts until it is read (stack.c:147).
LEMMA DecSilent ==
  ASSUME StackInv, OnePopper, NEW p \in Proc, PopDec(p)
  PROVE  UNCHANGED <<StackView, GotView>>
<1> USE DEF WaitPC, PushPC, PopPC, PostPC, CriticalPC, CreatePC, AttachPC, DestroyPC
<1>1. /\ pc[p] = "pop_dec" /\ size' = reg[p] - 1 /\ mem' = mem /\ val' = val
      /\ pc' = [pc EXCEPT ![p] = "pop_read"] /\ pc \in [Proc -> PCs]
  BY DEF PopDec, Goto, shared, StackInv, TypeOK, PCs
<1>2. reg[p] = size
  BY <1>1 DEF StackInv, SizeInv
<1>3. Reading = {} /\ Reading' = {p}
  BY <1>1 DEF StackInv, LockInv, HasUnit, Critical, Reading
<1>4. Cardinality(Reading) = 0 /\ Cardinality(Reading)' = 1
  BY <1>3, FS_EmptySet, FS_Singleton
<1>5. size \in Nat
  BY SizeInSlots
<1>6. size' + Cardinality(Reading)' = size + Cardinality(Reading)
  BY <1>1, <1>2, <1>4, <1>5
<1>7. StackView' = StackView
  BY <1>1, <1>6 DEF StackView
<1>8. GotView' = GotView
  BY <1>1 DEF GotView
<1> QED BY <1>7, <1>8

\* Writing above the stack changes nothing (stack.c:119).
LEMMA StoreSilent ==
  ASSUME StackInv, OnePopper, NEW p \in Proc, PushStore(p)
  PROVE  UNCHANGED <<StackView, GotView>>
<1> USE DEF WaitPC, PushPC, PopPC, PostPC, CriticalPC, CreatePC, AttachPC, DestroyPC
<1>0. size \in Nat /\ size \in Slot /\ mem \in [Slot -> Val \cup {Nil}]
  BY SizeInSlots DEF StackInv, TypeOK
<1>1. /\ pc[p] = "push_store" /\ size' = size /\ mem' = [mem EXCEPT ![size] = val[p]]
      /\ val' = val /\ pc' = [pc EXCEPT ![p] = "push_load"] /\ pc \in [Proc -> PCs]
  BY <1>0 DEF PushStore, Goto, shared, locals, StackInv, TypeOK, PCs
<1>2. Reading = {} /\ Reading' = {}
  BY <1>1 DEF StackInv, LockInv, HasUnit, Critical, Reading
<1>3. Cardinality(Reading) = 0 /\ Cardinality(Reading)' = 0
  BY <1>2, FS_EmptySet
<1>4. \A i \in 1 .. size : mem'[i - 1] = mem[i - 1]
  <2>1. \A j \in 0 .. size - 1 : mem'[j] = mem[j]
    BY <1>0, <1>1
  <2> QED BY <1>0, <2>1
<1>5. StackView' = StackView
  <2>1. StackView = [i \in 1 .. size |-> mem[i - 1]]
    BY <1>0, <1>3 DEF StackView
  <2>2. StackView' = [i \in 1 .. size |-> mem'[i - 1]]
    BY <1>0, <1>1, <1>3 DEF StackView
  <2> QED BY <1>4, <2>1, <2>2
<1>6. GotView' = GotView
  BY <1>1 DEF GotView
<1> QED BY <1>5, <1>6

\* A process that leaves pop_read takes the slot that it was to read out of the stack.
LEMMA LeaveRead ==
  ASSUME StackInv, OnePopper, NEW p \in Proc, pc[p] = "pop_read", pc'[p] # "pop_read",
         \A q \in Proc : q # p => pc'[q] = pc[q], size' = size, mem' = mem
  PROVE  /\ StackView' = SubSeq(StackView, 1, Len(StackView) - 1)
         /\ StackView # <<>> /\ StackView[Len(StackView)] = mem[size]
<1> USE DEF WaitPC, PushPC, PopPC, PostPC, CriticalPC, CreatePC, AttachPC, DestroyPC
<1>1. Reading = {p} /\ Reading' = {}
  BY DEF StackInv, LockInv, HasUnit, Critical, Reading
<1>2. Cardinality(Reading) = 1 /\ Cardinality(Reading)' = 0
  BY <1>1, FS_EmptySet, FS_Singleton
<1>3. size \in Nat
  BY SizeInSlots
<1>4. /\ StackView \in Seq(Val \cup {Nil}) /\ Len(StackView) = size + 1
      /\ \A i \in 1 .. size + 1 : StackView[i] = mem[i - 1]
  BY <1>2, <1>3, ViewTypes
<1>5. StackView' = [i \in 1 .. size |-> mem[i - 1]]
  BY <1>2, <1>3 DEF StackView
<1>6. \A i \in 1 .. size + 1 : mem[i - 1] \in Val \cup {Nil} /\ StackView[i] \in Val \cup {Nil}
  <2>1. \A i \in 1 .. size + 1 : StackView[i] \in Val \cup {Nil}
    BY <1>4, ElementOfSeq
  <2> QED BY <1>4, <2>1
<1>7. /\ StackView' \in Seq(Val \cup {Nil}) /\ Len(StackView') = size
      /\ \A i \in 1 .. size : StackView'[i] = mem[i - 1]
  <2>1. \A i \in 1 .. size : mem[i - 1] \in Val \cup {Nil}
    BY <1>3, <1>6
  <2> QED BY <1>3, <1>5, <2>1, SlotSeq
<1>8. StackView' = SubSeq(StackView, 1, size)
  <2> DEFINE t == SubSeq(StackView, 1, size)
  <2>1. \A i \in 1 .. size : StackView[i] \in Val \cup {Nil}
    BY <1>3, <1>6
  <2>2. t \in Seq(Val \cup {Nil}) /\ Len(t) = size /\ \A i \in 1 .. size : t[i] = StackView[i]
    BY <1>3, <2>1, SubSeqProperties
  <2> HIDE DEF t
  <2>3. \A i \in 1 .. size : StackView'[i] = t[i]
    <3>1. \A i \in 1 .. size : i \in 1 .. size + 1
      BY <1>3
    <3>2. \A i \in 1 .. size : t[i] = mem[i - 1]
      BY <1>4, <2>2, <3>1
    <3> QED BY <1>7, <3>2
  <2>4. StackView' = t
    BY <1>7, <2>2, <2>3, SeqEqual
  <2> QED BY <2>4 DEF t
<1>9. StackView # <<>> /\ StackView[size + 1] = mem[size]
  <2>1. StackView # <<>>
    BY <1>3, <1>4, EmptySeq
  <2>2. size + 1 \in 1 .. size + 1 /\ (size + 1) - 1 = size
    BY <1>3
  <2> QED BY <1>4, <2>1, <2>2
<1>10. Len(StackView) - 1 = size
  BY <1>3, <1>4
<1> QED BY <1>4, <1>8, <1>9, <1>10

\* Reading the slot below the old size pops its pointer (stack.c:149).
LEMMA ReadPops ==
  ASSUME StackInv, OnePopper, NEW p \in Proc, PopRead(p)
  PROVE  Abstract!Pop(p)
<1> USE DEF WaitPC, PushPC, PopPC, PostPC, CriticalPC, CreatePC, AttachPC, DestroyPC
<1>0. size \in Nat /\ size \in Slot
  BY SizeInSlots
<1>1. /\ pc[p] = "pop_read" /\ size' = size /\ mem' = mem /\ val' = [val EXCEPT ![p] = mem[size]]
      /\ pc' = [pc EXCEPT ![p] = "pop_post"]
      /\ pc \in [Proc -> PCs] /\ val \in [Proc -> Val \cup {Nil}]
  BY <1>0 DEF PopRead, Goto, shared, StackInv, TypeOK, PCs
<1>2. /\ StackView' = SubSeq(StackView, 1, Len(StackView) - 1)
      /\ StackView # <<>> /\ StackView[Len(StackView)] = mem[size]
  BY <1>1, LeaveRead
<1>3. GotView[p] = Nil
  BY <1>1 DEF GotView
<1>4. GotView' = [GotView EXCEPT ![p] = mem[size]]
  BY <1>1 DEF GotView
<1>5. GotView' = [GotView EXCEPT ![p] = StackView[Len(StackView)]]
  BY <1>2, <1>4
<1> QED BY <1>2, <1>3, <1>5 DEF Abstract!Pop, Abstract!Top, Abstract!Rest, StackView, GotView

\* A process that leaves pop_post is done with its pointer, if it has one (stack.c:150-157).
LEMMA ReturnsOrSilent ==
  ASSUME StackInv, NEW p \in Proc, NEW l \in {"idle", "dead"}, pc[p] = "pop_post",
         pc' = [pc EXCEPT ![p] = l], val' = [val EXCEPT ![p] = Nil], size' = size, mem' = mem
  PROVE  Abstract!Return(p) \/ UNCHANGED <<StackView, GotView>>
<1>1. pc \in [Proc -> PCs] /\ val \in [Proc -> Val \cup {Nil}]
  BY DEF StackInv, TypeOK, PCs
<1>2. Reading' = Reading
  BY <1>1 DEF Reading
<1>3. StackView' = StackView
  BY <1>2 DEF StackView
<1>4. GotView' = [GotView EXCEPT ![p] = Nil]
  BY <1>1 DEF GotView
<1>5. CASE GotView[p] # Nil
  BY <1>3, <1>4, <1>5 DEF Abstract!Return, StackView, GotView
<1>6. CASE GotView[p] = Nil
  <2>1. GotView' = GotView
    BY <1>4, <1>6 DEF GotView
  <2> QED BY <1>3, <2>1
<1> QED BY <1>5, <1>6

\* A process that dies before it has read its slot takes the pointer with it.
LEMMA DieLoses ==
  ASSUME StackInv, OnePopper, NEW p \in Proc, Die(p), pc[p] # "dead"
  PROVE  Abstract!Lose \/ Abstract!Return(p) \/ UNCHANGED <<StackView, GotView>>
<1>1. /\ size' = size /\ mem' = mem /\ pc' = [pc EXCEPT ![p] = "dead"]
      /\ val' = [val EXCEPT ![p] = Nil]
      /\ pc \in [Proc -> PCs] /\ val \in [Proc -> Val \cup {Nil}]
  BY DEF Die, Goto, StackInv, TypeOK, PCs
<1>2. CASE pc[p] = "pop_read"
  <2>1. /\ StackView' = SubSeq(StackView, 1, Len(StackView) - 1) /\ StackView # <<>>
    BY <1>1, <1>2, LeaveRead
  <2>2. GotView' = GotView
    BY <1>1, <1>2 DEF GotView
  <2>3. Abstract!Lose
    BY <2>1, <2>2 DEF Abstract!Lose, Abstract!Rest, StackView, GotView
  <2> QED BY <2>3
<1>3. CASE pc[p] = "pop_post"
  BY <1>1, <1>3, ReturnsOrSilent
<1>4. CASE pc[p] \notin {"pop_read", "pop_post"}
  <2>1. Silent
    BY <1>1, <1>4 DEF Silent
  <2> QED BY <2>1, SilentView
<1> QED BY <1>2, <1>3, <1>4

\* Every step of the shared memory is a step of the stack that users see, or none.
LEMMA ViewStep ==
  ASSUME StackInv, OnePopper, Filled, [Next]_vars
  PROVE  [Abstract!Next]_<<StackView, GotView>>
<1> USE DEF WaitPC, PushPC, PopPC, PostPC, CriticalPC, CreatePC, AttachPC, DestroyPC
<1> DEFINE Goal == [Abstract!Next]_<<StackView, GotView>>
<1>0. /\ \A p \in Proc : pc[p] \in CreatePC => size = 0
      /\ pc \in [Proc -> PCs] /\ val \in [Proc -> Val \cup {Nil}] /\ size \in Nat
  BY SizeInSlots DEF StackInv, HandleInv, TypeOK, PCs
<1>a. Silent => Goal
  BY SilentView
<1>b. UNCHANGED <<StackView, GotView>> => Goal
  OBVIOUS
<1>1. ASSUME UNCHANGED vars PROVE Goal
  <2>1. Silent
    BY <1>1 DEF vars, shared, locals, Silent
  <2> QED BY <1>a, <2>1
<1>2. ASSUME NEW p \in Proc, Die(p), pc[p] # "dead" PROVE Goal
  <2>1. Abstract!Lose \/ Abstract!Return(p) \/ UNCHANGED <<StackView, GotView>>
    BY <1>2, DieLoses
  <2> QED BY <1>b, <2>1 DEF Abstract!Next
<1> USE DEF Goto, shared, locals, Silent
<1>3. ASSUME NEW p \in Proc, Call(p) PROVE Goal
  <2>1. CASE Shmget(p)
    <3>1. Silent BY <1>0, <2>1 DEF Shmget
    <3> QED BY <1>a, <3>1
  <2>2. CASE PopCheck(p)
    <3>1. Silent BY <1>0, <2>2 DEF PopCheck
    <3> QED BY <1>a, <3>1
  <2>3. CASE Dump(p)
    <3>1. Silent BY <1>0, <2>3 DEF Dump
    <3> QED BY <1>a, <3>1
  <2>4. CASE Detach(p)
    <3>1. Silent BY <1>0, <2>4 DEF Detach
    <3> QED BY <1>a, <3>1
  <2>5. CASE MarkDestruct(p)
    <3>1. Silent \/ (Die(p) /\ pc[p] # "dead") BY <1>0, <2>5 DEF MarkDestruct
    <3> QED BY <1>a, <1>2, <3>1
  <2>6. ASSUME NEW v \in Val, PushCheck(p, v) PROVE Goal
    <3>1. Silent BY <1>0, <2>6 DEF PushCheck
    <3> QED BY <1>a, <3>1
  <2>7. ASSUME NEW m \in Modes, SetWait(p, m) PROVE Goal
    <3>1. Silent BY <1>0, <2>7 DEF SetWait
    <3> QED BY <1>a, <3>1
  <2> HIDE DEF Goal
  <2> QED BY <1>3, <2>1, <2>2, <2>3, <2>4, <2>5, <2>6, <2>7 DEF Call
<1>4. ASSUME NEW p \in Proc, Attaching(p) PROVE Goal
  <2>1. CASE Find(p)
    <3>1. Silent \/ (Die(p) /\ pc[p] # "dead") BY <1>0, <2>1 DEF Find
    <3> QED BY <1>a, <1>2, <3>1
  <2>2. CASE SetCap(p)
    <3>1. Silent BY <1>0, <2>2 DEF SetCap
    <3> QED BY <1>a, <3>1
  <2>3. CASE Semget(p) \/ SetSem(p) \/ FirstIncrease(p) \/ ReadCap(p) \/ ReadSem(p)
    <3>1. Silent BY <1>0, <2>3 DEF Semget, SetSem, FirstIncrease, ReadCap, ReadSem, Adjust
    <3> QED BY <1>a, <3>1
  <2> HIDE DEF Goal
  <2> QED BY <1>4, <2>1, <2>2, <2>3 DEF Attaching
<1>5. ASSUME NEW p \in Proc, InCall(p) PROVE Goal
  <2>1. CASE DecreaseAgain(p) \/ Load(p)
    <3>1. Silent BY <1>0, <2>1 DEF DecreaseAgain, Load
    <3> QED BY <1>a, <3>1
  <2>2. CASE DecreaseError(p) \/ IncreaseError(p)
    <3>1. Die(p) /\ pc[p] # "dead" BY <2>2 DEF DecreaseError, IncreaseError
    <3> QED BY <1>2, <3>1
  <2>3. CASE PushStore(p)
    BY <1>b, <2>3, StoreSilent
  <2>4. CASE PushInc(p)
    <3>1. PICK v : v = val[p]
      OBVIOUS
    <3>2. v \in Val /\ Abstract!Push(v)
      BY <2>4, <3>1, IncPushes
    <3>3. Abstract!Next
      BY <3>2 DEF Abstract!Next
    <3> QED BY <3>3
  <2>5. CASE PopDec(p)
    BY <1>b, <2>5, DecSilent
  <2>6. CASE PopRead(p)
    <3>1. Abstract!Pop(p)
      BY <2>6, ReadPops
    <3>2. \E q \in Proc : Abstract!Pop(q) \/ Abstract!Return(q)
      BY <3>1
    <3>3. Abstract!Next
      BY <3>2 DEF Abstract!Next
    <3> QED BY <3>3
  <2>7. CASE Increase(p)
    <3>1. /\ size' = size /\ mem' = mem /\ pc' = [pc EXCEPT ![p] = "idle"]
          /\ val' = [val EXCEPT ![p] = Nil] /\ pc[p] \in PostPC
      BY <2>7 DEF Increase
    <3>2. CASE pc[p] = "pop_post"
      <4>1. Abstract!Return(p) \/ UNCHANGED <<StackView, GotView>>
        BY <1>0, <3>1, <3>2, ReturnsOrSilent
      <4> QED BY <1>b, <4>1 DEF Abstract!Next
    <3>3. CASE pc[p] # "pop_post"
      <4>1. Silent BY <1>0, <3>1, <3>3
      <4> QED BY <1>a, <4>1
    <3> QED BY <3>2, <3>3
  <2>8. CASE RemoveSem(p)
    <3>1. Silent \/ (Die(p) /\ pc[p] # "dead") BY <1>0, <2>8 DEF RemoveSem
    <3> QED BY <1>a, <1>2, <3>1
  <2>9. CASE RemoveShm(p)
    <3>1. Silent BY <1>0, <2>9 DEF RemoveShm
    <3> QED BY <1>a, <3>1
  <2> HIDE DEF Goal
  <2> QED
    BY <1>5, <1>4, <2>1, <2>2, <2>3, <2>4, <2>5, <2>6, <2>7, <2>8, <2>9 DEF InCall
<1>6. ASSUME NEW p \in Proc, Decrease(p) PROVE Goal
  <2>1. Silent BY <1>0, <1>6 DEF Decrease, Adjust, AfterDecrease
  <2> QED BY <1>a, <2>1
<1>7. ASSUME NEW p \in Proc, Kill(p) PROVE Goal
  BY <1>7, <1>2 DEF Kill
<1> HIDE DEF Goal
<1>8. Goal
  <2>1. CASE Next
    <3>1. PICK p \in Proc : Call(p) \/ InCall(p) \/ Decrease(p) \/ Kill(p)
      BY <2>1 DEF Next
    <3> QED BY <3>1, <1>3, <1>5, <1>6, <1>7
  <2> QED BY <1>1, <2>1
<1> QED BY <1>8 DEF Goal

\* push and pop are atomic and last-in first-out, whatever the interleaving of the accesses to the
\* shared memory and whoever dies, if one process pops, and processes wait for the semaphore or
\* do not dump (stack.c:104-158): Spec implements BoundedStack.
THEOREM Refines == DumpsWait /\ OnePopper => (Spec => AtomicStack)
<1> SUFFICES ASSUME DumpsWait, OnePopper PROVE Spec => AtomicStack
  OBVIOUS
<1>1. Init => Abstract!Init
  <2> SUFFICES ASSUME Init PROVE Abstract!Init
    OBVIOUS
  <2>1. \A p \in Proc : pc[p] = "away"
    BY DEF Init
  <2>2. Reading = {}
    BY <2>1 DEF Reading
  <2>3. size + Cardinality(Reading) = 0
    BY <2>2, FS_EmptySet DEF Init
  <2>4. [i \in 1 .. size + Cardinality(Reading) |-> mem[i - 1]] = <<>>
    BY <2>3
  <2>5. [p \in Proc |-> IF pc[p] = "pop_post" THEN val[p] ELSE Nil] = [p \in Proc |-> Nil]
    BY <2>1
  <2> QED BY <2>4, <2>5 DEF Abstract!Init
<1>2. Init => Filled
  BY DEF Init, Filled
<1>3. StackInv /\ Filled /\ [Next]_vars => Filled'
  BY FilledStep
<1>4. StackInv /\ Filled /\ [Next]_vars => [Abstract!Next]_<<StackView, GotView>>
  BY ViewStep
<1> QED BY <1>1, <1>2, <1>3, <1>4, StackInvariant, PTL DEF Spec, AtomicStack, Abstract!Spec, StackView, GotView

-----------------------------------------------------------------------------
(* Who can lose the semaphore's unit. *)

LostByDeath ==
  \E p \in Proc : /\ pc[p] # "dead" /\ pc'[p] = "dead"
                  /\ undo[p] < (IF Critical(p) THEN 1 ELSE 0) \/ pc[p] \in CreatePC

\* A death orphans the semaphore only if the adjustment does not cover what the process holds.
LEMMA DieLosesUnit ==
  ASSUME TypeOK, NEW p \in Proc, Die(p), pc[p] # "dead", ~Orphaned, Orphaned'
  PROVE  LostByDeath
<1> SUFFICES ASSUME undo[p] >= (IF Critical(p) THEN 1 ELSE 0), pc[p] \notin CreatePC
             PROVE  FALSE
  BY DEF LostByDeath, TypeOK, Die, Goto
<1>1. /\ semset' = semset /\ semval \in Nat /\ undo[p] \in Int
      /\ pc' = [pc EXCEPT ![p] = "dead"] /\ semset = "present" /\ semval' = 0
      /\ semval' = IF semval + undo[p] < 0 THEN 0 ELSE semval + undo[p]
      /\ \A q \in Proc : q # p => pc'[q] = pc[q]
  BY DEF Die, Goto, TypeOK, Orphaned
<1>2. semval = 0 /\ ~Critical(p)
  BY <1>1
<1>3. \A q \in Proc : ~Critical(q) /\ pc[q] \notin CreatePC
  BY <1>1, <1>2 DEF Orphaned, Critical
<1> QED BY <1>1, <1>2, <1>3 DEF Orphaned

\* No other step orphans it: the unit goes from the semaphore to a process, and back.
LEMMA UnitStep ==
  ASSUME TypeOK, [Next]_vars, ~Orphaned, Orphaned'
  PROVE  LostByDeath
<1> USE DEF WaitPC, PushPC, PopPC, PostPC, CriticalPC, CreatePC, AttachPC, DestroyPC
<1>1. CASE UNCHANGED vars
  BY <1>1 DEF vars, shared, locals, Orphaned, Critical
<1>2. ASSUME NEW p \in Proc, Die(p), pc[p] # "dead" PROVE LostByDeath
  BY <1>2, DieLosesUnit
<1>0. /\ pc \in [Proc -> PCs] /\ semval \in Nat
      /\ semset' = "present" /\ semval' = 0
      /\ \A q \in Proc : pc'[q] \notin CriticalPC \cup CreatePC
      /\ semset = "present" /\ semval = 0 => \E q \in Proc : pc[q] \in CriticalPC \cup CreatePC
  BY DEF TypeOK, PCs, Orphaned, Critical
<1> USE DEF Goto, shared, locals
<1>3. ASSUME NEW p \in Proc, Call(p) PROVE LostByDeath
  <2>1. CASE MarkDestruct(p) BY <1>0, <1>2, <2>1 DEF MarkDestruct
  <2>2. CASE Shmget(p) BY <1>0, <2>2 DEF Shmget
  <2>3. CASE ~(MarkDestruct(p) \/ Shmget(p))
    BY <1>0, <1>3, <2>3 DEF Call, PopCheck, Dump, Detach, PushCheck, SetWait
  <2> QED BY <2>1, <2>2, <2>3
<1>4. ASSUME NEW p \in Proc, Attaching(p) PROVE LostByDeath
  <2>1. CASE Semget(p) BY <1>0, <2>1 DEF Semget
  <2>2. CASE SetCap(p) BY <1>0, <2>2 DEF SetCap
  <2>3. CASE SetSem(p) BY <1>0, <2>3 DEF SetSem
  <2>4. CASE FirstIncrease(p) BY <1>0, <2>4 DEF FirstIncrease, Adjust
  <2>5. CASE Find(p) BY <1>0, <2>5, <1>2 DEF Find
  <2>6. CASE ReadCap(p) BY <1>0, <2>6 DEF ReadCap
  <2>7. CASE ReadSem(p) BY <1>0, <2>7 DEF ReadSem
  <2> QED BY <1>4, <2>1, <2>2, <2>3, <2>4, <2>5, <2>6, <2>7 DEF Attaching
<1>5. ASSUME NEW p \in Proc, InCall(p) PROVE LostByDeath
  <2>1. CASE DecreaseAgain(p) BY <1>0, <2>1 DEF DecreaseAgain
  <2>2. CASE DecreaseError(p) BY <2>2, <1>2 DEF DecreaseError
  <2>3. CASE PushStore(p) BY <1>0, <2>3, <1>2 DEF PushStore
  <2>4. CASE Load(p) BY <1>0, <2>4 DEF Load
  <2>5. CASE PushInc(p) BY <1>0, <2>5 DEF PushInc
  <2>6. CASE PopDec(p) BY <1>0, <2>6 DEF PopDec
  <2>7. CASE PopRead(p) BY <1>0, <2>7, <1>2 DEF PopRead
  <2>8. CASE Increase(p) BY <1>0, <2>8 DEF Increase, Adjust
  <2>9. CASE IncreaseError(p) BY <2>9, <1>2 DEF IncreaseError
  <2>10. CASE RemoveSem(p) BY <1>0, <2>10, <1>2 DEF RemoveSem
  <2>11. CASE RemoveShm(p) BY <1>0, <2>11 DEF RemoveShm
  <2> QED
    BY <1>5, <1>4, <2>1, <2>2, <2>3, <2>4, <2>5, <2>6, <2>7, <2>8, <2>9, <2>10, <2>11
       DEF InCall
<1>6. ASSUME NEW p \in Proc, Decrease(p) PROVE LostByDeath
  BY <1>0, <1>6 DEF Decrease, Adjust, AfterDecrease
<1>7. ASSUME NEW p \in Proc, Kill(p) PROVE LostByDeath
  BY <1>7, <1>2 DEF Kill
<1> QED BY <1>1, <1>3, <1>5, <1>6, <1>7 DEF Next

\* SEM_UNDO gives the semaphore back when a process dies with it (the comment at stack.c:118),
\* unless the process is the creator or its adjustment does not cover the unit: whatever the waiting
\* mode, nothing else leaves the semaphore without its unit.
THEOREM UnitLost == Spec => UnitLostOnlyByDeath
<1>1. TypeOK /\ [Next]_vars => [~Orphaned /\ Orphaned' => LostByDeath]_vars
  BY UnitStep
<1> QED BY <1>1, TypeCorrect, PTL DEF Spec, UnitLostOnlyByDeath, LostByDeath
=============================================================================
