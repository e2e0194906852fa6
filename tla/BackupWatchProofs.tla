-------------------------- MODULE BackupWatchProofs --------------------------
(***************************************************************************)
(* Proofs about BackupWatch: type correctness, and that the backup is the  *)
(* folder when a watcher has nothing left to do, for any files, any number *)
(* of changes and any size of the queue and of what is read from it.       *)
(***************************************************************************)
EXTENDS BackupWatch, SequenceTheorems, TLAPS

USE WatchAssumption

\* A version in the watcher's hand is one that it is about to write, and it writes or
\* removes what the event at hand says (ResCop.c:216-264); the first copy comes after the old
\* backup (ResCop.c:28-48).
Hands ==
  /\ hand # -1 => wpc \in {"cp", "stuck"}
  /\ slots = <<>> /\ wpc \in {"cp", "stuck"} =>
       Head(batch).mask \in {"IN_CREATE", "IN_MODIFY", "IN_MOVED_TO"}
  /\ slots = <<>> /\ wpc = "rm" => Head(batch).mask \in {"IN_DELETE", "IN_MOVED_FROM"}
  /\ wpc \in {"check", "clear", "wait", "first"} => cp = "none"

TypeInv == TypeOK /\ Hands

\* The next event, or slot, leaves the types: it is taken from what is left (ResCop.c:304-319).
LEMMA NextTypes ==
  ASSUME TypeInv, batch # <<>> \/ slots # <<>>, NextEvent
  PROVE  /\ batch' \in Seq(Event) /\ Len(batch') <= MaxBatch
         /\ slots' \in Seq(Misread)
         /\ wpc' \in {"event", "read", "ended"}
         /\ wpc' = "event" <=> batch' # <<>> \/ slots' # <<>>
<1>1. batch \in Seq(Event) /\ Len(batch) <= MaxBatch /\ slots \in Seq(Misread)
  BY DEF TypeInv, TypeOK
<1>2. /\ wpc' = IF slots' # <<>> \/ batch' # <<>> THEN "event"
                ELSE IF flag_end' THEN "read" ELSE "ended"
  BY DEF NextEvent
<1>3. CASE slots # <<>>
  <2>1. Tail(slots) \in Seq(Misread)
    BY <1>1, <1>3, HeadTailProperties
  <2>2. slots' = Tail(slots) /\ batch' = batch
    BY <1>3 DEF NextEvent
  <2> QED BY <1>1, <1>2, <2>1, <2>2
<1>4. CASE slots = <<>>
  <2> DEFINE f == Head(batch).file
  <2>1. batch # <<>> /\ batch' = Tail(batch)
        /\ slots' = IF Len(batch) > 1 THEN naming.inner[f] \o naming.last[f]
                     ELSE naming.inner[f]
    BY <1>4 DEF NextEvent
  <2>2. /\ Tail(batch) \in Seq(Event) /\ Len(Tail(batch)) = Len(batch) - 1
        /\ Len(batch) \in Nat \ {0} /\ Head(batch) \in Event
    BY <1>1, <2>1, HeadTailProperties, EmptySeq
  <2>3. f \in File
    BY <2>2 DEF Event
  <2> HIDE DEF f
  <2>4. naming.inner[f] \in Seq(Misread) /\ naming.last[f] \in Seq(Misread)
    BY <2>3 DEF TypeInv, TypeOK, Naming
  <2>5. naming.inner[f] \o naming.last[f] \in Seq(Misread)
    BY <2>4, ConcatProperties
  <2> QED BY <1>1, <1>2, <2>1, <2>2, <2>4, <2>5
<1> QED BY <1>3, <1>4

\* The kernel's queue keeps its type and its bound.
LEMMA NotifyTypes ==
  ASSUME TypeInv, NEW f \in File, NEW mask \in Mask, Notify(f, mask)
  PROVE  /\ queue' \in Seq(Event) /\ Len(queue') <= QueueSize /\ lost' \in BOOLEAN
<1> DEFINE e == [file |-> f, mask |-> mask]
<1>1. queue \in Seq(Event) /\ Len(queue) <= QueueSize /\ lost \in BOOLEAN /\ e \in Event
  BY DEF TypeInv, TypeOK, Event
<1>2. Len(queue) \in Nat /\ Append(queue, e) \in Seq(Event)
      /\ Len(Append(queue, e)) = Len(queue) + 1
  <2> HIDE DEF e
  <2> QED BY <1>1, LenProperties, AppendProperties
<1>3. \/ queue' = queue
      \/ queue' = Append(queue, e) /\ ~(Len(queue) >= QueueSize)
  BY DEF Notify, kernel
<1>4. lost' \in BOOLEAN
  BY <1>1 DEF Notify, kernel
<1> QED BY <1>1, <1>2, <1>3, <1>4

\* A change of the user keeps the types.
LEMMA UserTypes ==
  ASSUME TypeInv, User
  PROVE  TypeInv'
<1>1. ASSUME NEW f \in File, NEW version \in Version, NEW mask \in Mask,
             Change(f, version, mask)
      PROVE  TypeInv'
  <2>1. queue' \in Seq(Event) /\ Len(queue') <= QueueSize /\ lost' \in BOOLEAN
    BY <1>1, NotifyTypes DEF Change
  <2>2. changes' \in 0 .. MaxChanges /\ early' \in BOOLEAN /\ src' \in [File -> Version]
      /\ naming' \in Naming
    BY <1>1 DEF Change, TypeInv, TypeOK
  <2>3. UNCHANGED <<backupVars, watchVars, copyVars>>
    BY <1>1 DEF Change
  <2> QED BY <2>1, <2>2, <2>3 DEF TypeInv, TypeOK, Hands, backupVars, watchVars, copyVars
<1>2. PICK f \in File : \/ Create(f) \/ Modify(f) \/ Touch(f)
                        \/ Delete(f) \/ MoveOut(f) \/ MoveIn(f)
  BY DEF User
<1>3. 0 \in Version /\ src[f] \in Version
  BY DEF TypeInv, TypeOK, Version
<1>4. changes < MaxChanges => New \in Version
  BY DEF New, Version, TypeInv, TypeOK
<1>5. {"IN_CREATE", "IN_MODIFY", "IN_ATTRIB", "IN_DELETE", "IN_MOVED_FROM", "IN_MOVED_TO"} \subseteq Mask
  BY DEF Mask
<1>6. \E version, mask : Change(f, version, mask) /\ changes < MaxChanges
                        /\ version \in {0, New, src[f]} /\ mask \in Mask
  BY <1>2, <1>5 DEF Create, Modify, Touch, Delete, MoveOut, MoveIn, Change
<1> QED BY <1>1, <1>3, <1>4, <1>6

\* The first copy keeps the types.
LEMMA CopierTypes ==
  ASSUME TypeInv, Copier
  PROVE  TypeInv'
<1> USE DEF TypeInv, TypeOK, Hands, userVars, kernel, backupVars, watchVars
<1>1. CASE CopyStart
  BY <1>1 DEF CopyStart
<1>2. ASSUME NEW f \in File, CopyRead(f) PROVE TypeInv'
  BY <1>2 DEF CopyRead
<1>3. CASE CopyWrite
  <2>1. cpHand \in File \X Version
    BY <1>3 DEF CopyWrite
  <2>2. dst' \in [File -> Version]
    BY <1>3, <2>1 DEF CopyWrite
  <2> QED BY <1>3, <2>2 DEF CopyWrite
<1>4. CASE CopyEnd
  BY <1>4 DEF CopyEnd
<1> QED BY <1>1, <1>2, <1>3, <1>4 DEF Copier

\* The file at hand is one, of the event or of the slot that is taken for one.
LEMMA AtHandFile ==
  ASSUME TypeInv, batch # <<>> \/ slots # <<>>
  PROVE  AtHand \in File
<1>1. batch \in Seq(Event) /\ slots \in Seq(Misread)
  BY DEF TypeInv, TypeOK
<1>2. CASE slots # <<>>
  <2>1. Head(slots) \in Misread
    BY <1>1, <1>2, HeadTailProperties
  <2> QED BY <1>2, <2>1 DEF AtHand, Misread
<1>3. CASE slots = <<>>
  <2>1. Head(batch) \in Event
    BY <1>1, <1>3, HeadTailProperties
  <2> QED BY <1>3, <2>1 DEF AtHand, Event
<1> QED BY <1>2, <1>3

\* The watcher keeps the types.
LEMMA WatcherTypes ==
  ASSUME TypeInv, Watcher
  PROVE  TypeInv'
<1> USE DEF TypeInv, TypeOK, Hands, userVars, kernel, backupVars, watchVars, copyVars
<1>0. /\ batch # <<>> => Head(batch) \in Event
      /\ 0 \in Version
  BY HeadTailProperties DEF Version
<1>1. CASE CheckFolder
  BY <1>1 DEF CheckFolder
<1>2. CASE Clear
  BY <1>0, <1>2 DEF Clear
<1>3. CASE FirstCopy \/ CreateWatch
  BY <1>3 DEF FirstCopy, CreateWatch
<1>4. CASE Read
  <2>0. hand = -1 /\ batch = <<>> /\ slots = <<>> /\ slots' = slots
    BY <1>4 DEF Read
  <2>1. CASE ~flag_end
    BY <1>4, <2>0, <2>1 DEF Read
  <2>2. CASE flag_end
    <3> DEFINE n == Smaller(MaxBatch, Len(queue))
    <3>1. /\ queue # <<>> /\ wpc' = "event"
          /\ batch' = SubSeq(queue, 1, n) /\ queue' = SubSeq(queue, n + 1, Len(queue))
      BY <1>4, <2>2 DEF Read
    <3>2. Len(queue) \in Nat \ {0}
      BY <3>1, EmptySeq
    <3>3. n \in 1 .. Len(queue) /\ n <= MaxBatch
      BY <3>2 DEF Smaller
    <3> HIDE DEF n
    <3>4. \A i \in 1 .. Len(queue) : queue[i] \in Event
      BY ElementOfSeq
    <3> DEFINE taken == SubSeq(queue, 1, n)
               left == SubSeq(queue, n + 1, Len(queue))
    <3>5. taken \in Seq(Event) /\ Len(taken) = n
      BY <3>2, <3>3, <3>4, SubSeqProperties
    <3>6. left \in Seq(Event) /\ Len(left) <= Len(queue)
      BY <3>2, <3>3, <3>4, SubSeqProperties
    <3>7. batch' = taken /\ queue' = left
      BY <3>1
    <3> HIDE DEF taken, left
    <3>8. taken # <<>>
      BY <3>3, <3>5, EmptySeq
    <3>9. UNCHANGED <<userVars, lost, backupVars, flag_end, hand, copyVars>>
      BY <1>4 DEF Read
    <3>10. /\ queue' \in Seq(Event) /\ Len(queue') <= QueueSize
           /\ batch' \in Seq(Event) /\ Len(batch') <= MaxBatch /\ batch' # <<>>
           /\ slots' = <<>> /\ hand' = -1 /\ wpc' = "event"
      BY <2>0, <3>1, <3>2, <3>3, <3>5, <3>6, <3>7, <3>8, <3>9
    <3>11. TypeOK'
      BY <2>0, <3>9, <3>10
    <3>12. Hands'
      BY <3>10
    <3> QED BY <3>11, <3>12
  <2> QED BY <2>1, <2>2
<1>5. CASE ProcessFile
  <2>1. slots = <<>> /\ batch # <<>> /\ Head(batch).mask \in Mask /\ hand = -1
    BY <1>0, <1>5 DEF ProcessFile, Event
  <2>2. CASE NextEvent
    BY <1>5, <2>1, <2>2, NextTypes DEF ProcessFile
  <2>3. CASE /\ wpc' = "cp" /\ UNCHANGED <<batch, slots>>
             /\ Head(batch).mask \in {"IN_CREATE", "IN_MODIFY", "IN_MOVED_TO"}
    BY <1>5, <2>1, <2>3 DEF ProcessFile
  <2>4. CASE /\ wpc' = "rm" /\ UNCHANGED <<batch, slots>>
             /\ Head(batch).mask \in {"IN_DELETE", "IN_MOVED_FROM"}
    BY <1>5, <2>1, <2>4 DEF ProcessFile
  <2> QED BY <1>5, <2>1, <2>2, <2>3, <2>4 DEF ProcessFile, Mask
<1>6. CASE CopyFilesRead
  <2>1. (batch # <<>> \/ slots # <<>>) /\ AtHand \in File
    BY <1>6, AtHandFile DEF CopyFilesRead
  <2>2. CASE src[AtHand] # 0
    BY <1>6, <2>1, <2>2 DEF CopyFilesRead
  <2>3. CASE src[AtHand] = 0
    BY <1>6, <2>1, <2>3, NextTypes DEF CopyFilesRead
  <2> QED BY <2>2, <2>3
<1>7. CASE CopyFilesWrite
  <2>1. (batch # <<>> \/ slots # <<>>) /\ AtHand \in File /\ hand \in Version
    BY <1>7, AtHandFile DEF CopyFilesWrite
  <2>2. dst' \in [File -> Version]
    BY <1>7, <2>1 DEF CopyFilesWrite
  <2> QED BY <1>7, <2>1, <2>2, NextTypes DEF CopyFilesWrite
<1>8. CASE DeleteFile
  <2>1. (batch # <<>> \/ slots # <<>>) /\ hand = -1
    BY <1>8 DEF DeleteFile
  <2>2. dst' \in [File -> Version]
    BY <1>0, <1>8 DEF DeleteFile
  <2> QED BY <1>8, <2>1, <2>2, NextTypes DEF DeleteFile, Removed
<1>9. ASSUME NEW do \in {"cp", "rm"}, MisreadFile(do) PROVE TypeInv'
  BY <1>9 DEF MisreadFile, Slot
<1>10. ASSUME NEW do, Slot(do)
       PROVE  wpc = "event" /\ slots # <<>> /\ hand = -1
  BY <1>10 DEF Slot
<1>11. CASE RaiseSelf
  <2>1. slots # <<>> /\ hand = -1 /\ NextEvent
    BY <1>10, <1>11 DEF RaiseSelf
  <2> QED BY <1>11, <2>1, NextTypes DEF RaiseSelf
<1>12. CASE RemoveBackup
  <2>1. slots # <<>> /\ hand = -1 /\ NextEvent
    BY <1>10, <1>12 DEF RemoveBackup
  <2>2. dst' \in [File -> Version] /\ backup' \in BOOLEAN
    BY <1>0, <1>12 DEF RemoveBackup
  <2> QED BY <1>12, <2>1, <2>2, NextTypes DEF RemoveBackup, Removed
<1>13. CASE WatchAgain
  <2>1. slots # <<>> /\ hand = -1 /\ NextEvent
    BY <1>10, <1>13 DEF WatchAgain
  <2>2. dst' \in [File -> Version]
    BY <1>13 DEF WatchAgain
  <2> QED BY <1>13, <2>1, <2>2, NextTypes DEF WatchAgain
<1> QED BY <1>1, <1>2, <1>3, <1>4, <1>5, <1>6, <1>7, <1>8, <1>9, <1>11, <1>12, <1>13 DEF Watcher

\* So do a failure of the watcher or of its copies, a signal, a child that ends, a pipe and
\* a second watcher.
LEMMA OtherTypes ==
  ASSUME TypeInv, Fails \/ Told \/ WaitEnds \/ PipeWritten \/ Twin
  PROVE  TypeInv'
<1>6. CASE Told
  <2>0. TypeOK
    BY DEF TypeInv
  <2>1. /\ naming' = naming /\ src' = src /\ changes' = changes /\ early' = early
        /\ queue' = queue
        /\ lost' = lost /\ backup' = backup /\ dst' = dst /\ harm' = harm
        /\ wpc' = wpc /\ flag_end' \in BOOLEAN /\ batch' = batch /\ slots' = slots
        /\ hand' = hand /\ cp' = cp /\ todo' = todo /\ cpHand' = cpHand
    BY <1>6 DEF Told, userVars, kernel, backupVars, copyVars
  <2>2. TypeOK'
    BY <2>0, <2>1 DEF TypeOK
  <2>3. Hands'
    BY <2>1, Zenon DEF TypeInv, Hands
  <2> QED BY <2>2, <2>3 DEF TypeInv
<1> USE DEF TypeInv, TypeOK, Hands, userVars, kernel, backupVars, watchVars, copyVars
<1>0. 0 \in Version /\ <<>> \in Seq(Event) /\ <<>> \in Seq(Misread) /\ Len(<<>>) = 0
  BY EmptySeq DEF Version
<1>1. CASE ClearFails
  <2>1. dst' \in [File -> Version]
    BY <1>0, <1>1 DEF ClearFails
  <2> QED BY <1>1, <2>1 DEF ClearFails
<1>2. CASE FirstCopyFails
  BY <1>2 DEF FirstCopyFails
<1>3. CASE CopyFails
  BY <1>3 DEF CopyFails
<1>4. CASE EventFails
  <2>1. batch # <<>> \/ slots # <<>>
    BY <1>4 DEF EventFails
  <2> QED BY <1>4, <2>1, NextTypes DEF EventFails
<1>5. CASE ForkFails
  <2>1. hand = -1
    BY <1>5 DEF ForkFails, Slot
  <2> QED BY <1>0, <1>5, <2>1 DEF ForkFails
<1>7. CASE WaitEnds
  BY <1>7 DEF WaitEnds
<1>8. CASE PipeWritten
  BY <1>8 DEF PipeWritten
<1>9. CASE Twin
  <2>1. dst' \in [File -> Version] /\ backup' \in BOOLEAN
    BY <1>0, <1>9 DEF Twin
  <2> QED BY <1>9, <2>1 DEF Twin
<1> QED BY <1>1, <1>2, <1>3, <1>4, <1>5, <1>6, <1>7, <1>8, <1>9 DEF Fails

\* The invariant of the first part holds always.
LEMMA TypeInvariant == Spec => []TypeInv
<1>1. Init => TypeInv
  <2> SUFFICES ASSUME Init PROVE TypeInv
    OBVIOUS
  <2>1. 0 \in Version /\ 1 \in Version
    BY DEF Version
  <2>2. src \in [File -> Version] /\ dst \in [File -> Version]
    BY <2>1 DEF Init
  <2>3. <<>> \in Seq(Event) /\ Len(<<>>) = 0
    BY EmptySeq
  <2>4. queue \in Seq(Event) /\ Len(queue) <= QueueSize
        /\ batch \in Seq(Event) /\ Len(batch) <= MaxBatch /\ slots \in Seq(Misread)
    BY <2>3, EmptySeq DEF Init
  <2>5. changes \in 0 .. MaxChanges /\ hand = -1 /\ wpc = "check" /\ batch = <<>>
        /\ slots = <<>> /\ cp = "none" /\ naming \in Naming
    BY NameAssumption DEF Init
  <2>6. Hands
    BY <2>5 DEF Hands
  <2>7. TypeOK
    BY <2>2, <2>4, <2>5 DEF Init, TypeOK
  <2> QED BY <2>6, <2>7 DEF TypeInv
<1>2. TypeInv /\ [Next]_vars => TypeInv'
  <2>1. ASSUME TypeInv, UNCHANGED vars PROVE TypeInv'
    BY <2>1 DEF vars, userVars, kernel, backupVars, watchVars, copyVars, TypeInv, TypeOK, Hands
  <2> QED BY <2>1, UserTypes, CopierTypes, WatcherTypes, OtherTypes DEF Next
<1> QED BY <1>1, <1>2, PTL DEF Spec

\* The types of all variables of a watcher, its first copy and its user, and that there
\* is nothing left of what was read exactly when the watcher has no event at hand
\* (ResCop.c:266-327).
THEOREM TypeCorrect == Spec => []TypeOK
<1>1. TypeInv => TypeOK
  BY DEF TypeInv
<1> QED BY <1>1, TypeInvariant, PTL

-----------------------------------------------------------------------------
(* Which events decide about a file. *)

\* Event i of r says whether there is a file f.
Tells(r, f, i) == r[i].file = f /\ r[i].mask # "IN_ATTRIB"

LastTold(r, f, i) == Tells(r, f, i) /\ \A j \in 1 .. Len(r) : j > i => ~Tells(r, f, j)

Copies(e) == e.mask \in {"IN_CREATE", "IN_MODIFY", "IN_MOVED_TO"}

\* With the events r before it, the first of them half done with version h in hand, the
\* watcher will make d, the copy of f, what f is: the last event about f is of the right
\* kind, and if there is none d is right already.
Synced(r, f, s, d, h) ==
  /\ (\A i \in 1 .. Len(r) : ~Tells(r, f, i)) => d = s
  /\ \A i \in 1 .. Len(r) : LastTold(r, f, i) =>
       /\ s # 0 <=> Copies(r[i])
       /\ i = 1 /\ h # -1 => h = s

\* The events that the watcher has still to carry out.
Rest == batch \o queue

\* Before the folder is watched and copied: no events, and what cp -r has not brought to the
\* backup it has still to read or to write.
Copying ==
  /\ batch = <<>> /\ queue = <<>> /\ slots = <<>>
  /\ wpc \in {"check", "clear", "wait", "first"} <=> cp = "none"
  /\ cp \in {"none", "start"} /\ ~backup => dst = [f \in File |-> 0]
  /\ cp \in {"run", "ended"} => backup
  /\ cp = "run" => \A f \in File :
       /\ dst[f] = src[f] \/ f \in todo \/ cpHand = <<f, src[f]>>
       /\ f \in todo => src[f] # 0
  /\ cp # "run" => cpHand = Nothing
  /\ cpHand # Nothing => cpHand[2] = src[cpHand[1]]
  /\ cp = "ended" => dst = src

\* The version that the watcher has read for the first event.
EventHand == IF slots = <<>> THEN hand ELSE -1

\* Nothing that the properties except has happened.
Good == ~early /\ ~lost /\ harm = "none" /\ wpc # "ended" /\ cp \notin {"failed", "inside"}

\* Then every copy will be what its file is, and what the watcher has read for a slot of a
\* name may take the place of the copy.
SyncInv ==
  Good =>
    IF Ready THEN /\ backup
                  /\ \A f \in File : Synced(Rest, f, src[f], dst[f], EventHand)
                  /\ slots # <<>> /\ hand # -1 =>
                       Synced(Rest, AtHand, src[AtHand], hand, -1)
             ELSE Copying

\* An event that is carried out: the copy is d2 then.
LEMMA Drop ==
  ASSUME NEW r \in Seq(Event), r # <<>>, NEW f, NEW s, NEW d, NEW d2, NEW h,
         Synced(r, f, s, d, h),
         LastTold(r, f, 1) => d2 = s,
         Tells(r, f, 1) \/ d2 = d
  PROVE  Synced(Tail(r), f, s, d2, -1)
<1> DEFINE t == Tail(r)
           n == Len(r)
<1>1. /\ n \in Nat \ {0} /\ Len(t) = n - 1
      /\ \A i \in 1 .. n - 1 : t[i] = r[i + 1]
  BY HeadTailProperties, EmptySeq
<1> HIDE DEF t, n
<1>2. \A i \in 1 .. n - 1 : Tells(t, f, i) <=> Tells(r, f, i + 1)
  BY <1>1 DEF Tells
<1>3. ASSUME NEW i \in 1 .. n - 1, LastTold(t, f, i) PROVE LastTold(r, f, i + 1)
  <2>1. Tells(r, f, i + 1)
    BY <1>2, <1>3 DEF LastTold
  <2>2. ASSUME NEW j \in 1 .. n, j > i + 1 PROVE ~Tells(r, f, j)
    <3>1. j - 1 \in 1 .. n - 1 /\ j - 1 > i /\ (j - 1) + 1 = j
      BY <1>1, <2>2
    <3>2. ~Tells(t, f, j - 1)
      BY <1>1, <1>3, <3>1 DEF LastTold
    <3> QED BY <1>2, <3>1, <3>2
  <2> QED BY <2>1, <2>2 DEF LastTold, n
<1>4. ASSUME NEW i \in 1 .. n - 1, LastTold(t, f, i) PROVE s # 0 <=> Copies(t[i])
  <2>1. LastTold(r, f, i + 1) /\ i + 1 \in 1 .. n /\ t[i] = r[i + 1]
    BY <1>1, <1>3, <1>4
  <2> QED BY <2>1 DEF Synced, n
<1>5. ASSUME \A i \in 1 .. n - 1 : ~Tells(t, f, i) PROVE d2 = s
  <2>1. ASSUME NEW j \in 1 .. n, j > 1 PROVE ~Tells(r, f, j)
    <3>1. j - 1 \in 1 .. n - 1 /\ (j - 1) + 1 = j
      BY <1>1, <2>1
    <3> QED BY <1>2, <1>5, <3>1
  <2>2. CASE Tells(r, f, 1)
    BY <2>1, <2>2 DEF LastTold, n
  <2>3. CASE ~Tells(r, f, 1)
    <3>1. \A j \in 1 .. n : ~Tells(r, f, j)
      <4>1. \A j \in 1 .. n : j = 1 \/ j > 1
        BY <1>1
      <4> QED BY <2>1, <2>3, <4>1
    <3> QED BY <2>3, <3>1 DEF Synced, n
  <2> QED BY <2>2, <2>3
<1> QED BY <1>1, <1>4, <1>5 DEF Synced, t

\* An event that comes, about a change that makes f what s2 says.
LEMMA Add ==
  ASSUME NEW r \in Seq(Event), NEW e \in Event, NEW f, NEW s, NEW s2, NEW d, NEW h,
         Synced(r, f, s, d, h), h # -1 => r # <<>>,
         IF e.file = f /\ e.mask # "IN_ATTRIB" THEN s2 # 0 <=> Copies(e) ELSE s2 = s
  PROVE  Synced(Append(r, e), f, s2, d, h)
<1> DEFINE t == Append(r, e)
           n == Len(r)
<1>1. /\ n \in Nat /\ (r # <<>> => n > 0) /\ Len(t) = n + 1
      /\ t[n + 1] = e /\ \A i \in 1 .. n : t[i] = r[i]
  BY AppendProperties, EmptySeq, LenProperties
<1> HIDE DEF t, n
<1>2. /\ \A i \in 1 .. n : Tells(t, f, i) <=> Tells(r, f, i)
      /\ Tells(t, f, n + 1) <=> e.file = f /\ e.mask # "IN_ATTRIB"
  BY <1>1 DEF Tells
<1>3. CASE Tells(t, f, n + 1)
  <2>1. s2 # 0 <=> Copies(e)
    BY <1>2, <1>3
  <2>2. \A i \in 1 .. n + 1 : LastTold(t, f, i) => i = n + 1
    BY <1>1, <1>3 DEF LastTold
  <2>3. h # -1 => n + 1 # 1
    BY <1>1
  <2>4. n + 1 \in 1 .. Len(t)
    BY <1>1
  <2> QED BY <1>1, <1>3, <2>1, <2>2, <2>3, <2>4 DEF Synced, t
<1>4. CASE ~Tells(t, f, n + 1)
  <2>1. s2 = s
    BY <1>2, <1>4
  <2>2. \A i \in 1 .. n + 1 : LastTold(t, f, i) => i \in 1 .. n /\ LastTold(r, f, i)
    BY <1>1, <1>2, <1>4 DEF LastTold, n
  <2>3. (\A i \in 1 .. n + 1 : ~Tells(t, f, i)) => \A i \in 1 .. n : ~Tells(r, f, i)
    BY <1>1, <1>2
  <2> QED BY <1>1, <2>1, <2>2, <2>3 DEF Synced, t, n
<1> QED BY <1>3, <1>4

\* An event that comes and is left out because it repeats the last one.
LEMMA Repeat ==
  ASSUME NEW r \in Seq(Event), r # <<>>, NEW e, e = r[Len(r)],
         NEW f, NEW s, NEW s2, NEW d, NEW h,
         Synced(r, f, s, d, h), h # -1 => Len(r) > 1,
         IF e.file = f /\ e.mask # "IN_ATTRIB" THEN s2 # 0 <=> Copies(e) ELSE s2 = s
  PROVE  Synced(r, f, s2, d, h)
<1> DEFINE n == Len(r)
<1>1. n \in Nat \ {0}
  BY EmptySeq
<1> HIDE DEF n
<1>2. CASE Tells(r, f, n)
  <2>1. s2 # 0 <=> Copies(e)
    BY <1>2 DEF Tells, n
  <2>2. \A i \in 1 .. n : LastTold(r, f, i) => i = n
    BY <1>1, <1>2 DEF LastTold, n
  <2>3. h # -1 => n # 1
    BY <1>1 DEF n
  <2> QED BY <1>1, <1>2, <2>1, <2>2, <2>3 DEF Synced, n
<1>3. CASE ~Tells(r, f, n)
  BY <1>3 DEF Tells, n
<1> QED BY <1>2, <1>3

\* What is left when the event at hand is carried out (ResCop.c:304-319).
LEMMA RestTail ==
  ASSUME TypeInv, batch # <<>>
  PROVE  /\ Rest \in Seq(Event) /\ Rest # <<>> /\ Rest[1] = Head(batch)
         /\ hand # -1 /\ queue # <<>> => Len(Rest) > 1
         /\ Tail(batch) \o queue = Tail(Rest)
<1> DEFINE b == batch
           q == queue
           r == b \o q
           tl == Tail(b) \o q
<1>1. b \in Seq(Event) /\ q \in Seq(Event) /\ b # <<>>
  BY DEF TypeInv, TypeOK
<1> HIDE DEF b, q
<1>2. /\ Len(b) \in Nat \ {0} /\ Len(q) \in Nat /\ (q # <<>> => Len(q) > 0)
      /\ Tail(b) \in Seq(Event) /\ Len(Tail(b)) = Len(b) - 1
      /\ \A i \in 1 .. Len(b) - 1 : Tail(b)[i] = b[i + 1]
      /\ Head(b) = b[1]
  BY <1>1, HeadTailProperties, EmptySeq, LenProperties
<1>3. /\ r \in Seq(Event) /\ Len(r) = Len(b) + Len(q)
      /\ \A i \in 1 .. Len(b) + Len(q) : r[i] = IF i <= Len(b) THEN b[i] ELSE q[i - Len(b)]
  BY <1>1, ConcatProperties
<1>4. /\ tl \in Seq(Event) /\ Len(tl) = Len(b) - 1 + Len(q)
      /\ \A i \in 1 .. Len(b) - 1 + Len(q) :
           tl[i] = IF i <= Len(b) - 1 THEN Tail(b)[i] ELSE q[i - (Len(b) - 1)]
  BY <1>1, <1>2, ConcatProperties
<1> HIDE DEF r, tl
<1>5. r # <<>>
  BY <1>2, <1>3, EmptySeq
<1>6. /\ Tail(r) \in Seq(Event) /\ Len(Tail(r)) = Len(b) + Len(q) - 1
      /\ \A i \in 1 .. Len(b) + Len(q) - 1 : Tail(r)[i] = r[i + 1]
  BY <1>3, <1>5, HeadTailProperties
<1>7. ASSUME NEW i \in 1 .. Len(tl) PROVE tl[i] = Tail(r)[i]
  <2>1. i \in 1 .. Len(b) - 1 + Len(q) /\ i + 1 \in 1 .. Len(b) + Len(q)
    BY <1>2, <1>4
  <2>2. Tail(r)[i] = r[i + 1]
    BY <1>2, <1>6, <2>1
  <2>3. CASE i <= Len(b) - 1
    <3>1. i + 1 <= Len(b) /\ i \in 1 .. Len(b) - 1
      BY <1>2, <2>1, <2>3
    <3> QED BY <1>2, <1>3, <1>4, <2>1, <2>2, <2>3, <3>1
  <2>4. CASE ~(i <= Len(b) - 1)
    <3>1. ~(i + 1 <= Len(b)) /\ i + 1 - Len(b) = i - (Len(b) - 1)
      BY <1>2, <2>1, <2>4
    <3>2. r[i + 1] = q[i + 1 - Len(b)] /\ tl[i] = q[i - (Len(b) - 1)]
      BY <1>3, <1>4, <2>1, <2>4, <3>1, SMTT(30)
    <3> QED BY <2>2, <3>1, <3>2
  <2> QED BY <2>3, <2>4
<1>8. tl = Tail(r)
  <2>1. Len(tl) = Len(Tail(r))
    BY <1>2, <1>4, <1>6
  <2> QED BY <1>4, <1>6, <1>7, <2>1, SeqEqual
<1>9. r[1] = Head(b) /\ (q # <<>> => Len(r) > 1)
  BY <1>2, <1>3
<1> QED BY <1>3, <1>5, <1>8, <1>9 DEF Rest, r, tl, b, q

-----------------------------------------------------------------------------
(* The steps. *)

\* What the user changes is told by the last event that comes or has come.
LEMMA UserSync ==
  ASSUME TypeInv, SyncInv, User
  PROVE  SyncInv'
<1>1. PICK f \in File : \/ Create(f) \/ Modify(f) \/ Touch(f)
                        \/ Delete(f) \/ MoveOut(f) \/ MoveIn(f)
  BY DEF User
<1>2. PICK version, mask :
        /\ Change(f, version, mask) /\ mask \in Mask
        /\ IF mask = "IN_ATTRIB" THEN version = src[f]
           ELSE version # 0 <=> mask \in {"IN_CREATE", "IN_MODIFY", "IN_MOVED_TO"}
  <2>1. New # 0 /\ 0 = 0
    BY DEF New, TypeInv, TypeOK
  <2> USE DEF Mask
  <2>2. CASE Create(f) BY <2>1, <2>2 DEF Create
  <2>3. CASE Modify(f) BY <2>1, <2>3 DEF Modify
  <2>4. CASE Touch(f) BY <2>4 DEF Touch
  <2>5. CASE Delete(f) BY <2>5 DEF Delete
  <2>6. CASE MoveOut(f) BY <2>6 DEF MoveOut
  <2>7. CASE MoveIn(f) BY <2>1, <2>7 DEF MoveIn
  <2> QED BY <1>1, <2>2, <2>3, <2>4, <2>5, <2>6, <2>7
<1>3. /\ UNCHANGED <<backup, dst, harm, wpc, batch, slots, hand, cp>>
      /\ early' = (early \/ ~Ready) /\ src' = [src EXCEPT ![f] = version]
      /\ Notify(f, mask)
  BY <1>2 DEF Change, backupVars, watchVars, copyVars
<1> SUFFICES ASSUME Good' PROVE SyncInv'
  BY DEF SyncInv
<1>4. Ready /\ Ready' /\ ~early /\ Good' /\ ~lost'
  BY <1>3 DEF Ready, Watching, Good
<1> DEFINE e == [file |-> f, mask |-> mask]
<1>5. e \in Event /\ queue \in Seq(Event) /\ batch \in Seq(Event)
  BY <1>2 DEF Event, TypeInv, TypeOK
<1>6. ~lost /\ \/ queue' = Append(queue, e)
               \/ queue' = queue /\ queue # <<>> /\ queue[Len(queue)] = e
  BY <1>3, <1>4 DEF Notify, Ready, Good
<1>7. /\ backup /\ \A g \in File : Synced(Rest, g, src[g], dst[g], EventHand)
      /\ slots # <<>> /\ hand # -1 => Synced(Rest, AtHand, src[AtHand], hand, -1)
  BY <1>3, <1>4, <1>6 DEF SyncInv, Good
<1>8. /\ Rest \in Seq(Event) /\ EventHand' = EventHand /\ AtHand' = AtHand
      /\ hand # -1 => AtHand \in File
  <2>1. hand # -1 => batch # <<>> \/ slots # <<>>
    BY DEF TypeInv, TypeOK, Hands
  <2> QED BY <1>3, <1>5, <2>1, ConcatProperties, AtHandFile DEF Rest, EventHand, AtHand
<1>9. ASSUME EventHand # -1 PROVE Rest # <<>> /\ (queue # <<>> => Len(Rest) > 1)
  <2>1. batch # <<>>
    BY <1>9 DEF EventHand, TypeInv, TypeOK, Hands
  <2> QED BY <1>9, <2>1, RestTail DEF EventHand
<1>10. ASSUME NEW g \in File
       PROVE  IF e.file = g /\ e.mask # "IN_ATTRIB" THEN src'[g] # 0 <=> Copies(e)
              ELSE src'[g] = src[g]
  BY <1>2, <1>3 DEF Copies, TypeInv, TypeOK
<1> HIDE DEF e
<1>11. CASE queue' = Append(queue, e)
  <2>1. Rest' = Append(Rest, e)
    <3>1. Rest' = batch \o (queue \o <<e>>)
      BY <1>3, <1>5, <1>11, AppendIsConcat DEF Rest
    <3>2. <<e>> \in Seq(Event)
      BY <1>5
    <3>3. Rest' = Rest \o <<e>>
      BY <1>5, <3>1, <3>2, ConcatAssociative DEF Rest
    <3> QED BY <1>5, <1>8, <3>3, AppendIsConcat
  <2>2. \A g \in File : Synced(Append(Rest, e), g, src'[g], dst[g], EventHand)
    BY <1>5, <1>7, <1>8, <1>9, <1>10, Add
  <2>3. slots # <<>> /\ hand # -1 => Synced(Append(Rest, e), AtHand, src'[AtHand], hand, -1)
    BY <1>5, <1>7, <1>8, <1>10, Add
  <2> QED BY <1>3, <1>4, <1>7, <1>8, <2>1, <2>2, <2>3 DEF SyncInv
<1>12. CASE queue' = queue /\ queue # <<>> /\ queue[Len(queue)] = e
  <2>1. Rest # <<>> /\ Rest[Len(Rest)] = e
    <3>1. Len(queue) \in Nat \ {0} /\ Len(batch) \in Nat
      BY <1>5, <1>12, EmptySeq, LenProperties
    <3>2. Len(batch \o queue) = Len(batch) + Len(queue)
          /\ \A i \in 1 .. Len(batch) + Len(queue) :
               (batch \o queue)[i] = IF i <= Len(batch) THEN batch[i] ELSE queue[i - Len(batch)]
      BY <1>5, ConcatProperties
    <3>3. Len(Rest) = Len(batch) + Len(queue) /\ Rest[Len(batch) + Len(queue)] = queue[Len(queue)]
      BY <3>1, <3>2 DEF Rest
    <3>4. Rest # <<>>
      BY <1>8, <3>1, <3>3, EmptySeq
    <3> QED BY <1>12, <3>3, <3>4
  <2>2. \A g \in File : Synced(Rest, g, src'[g], dst[g], EventHand)
    BY <1>7, <1>8, <1>9, <1>10, <1>12, <2>1, Repeat
  <2>3. slots # <<>> /\ hand # -1 => Synced(Rest, AtHand, src'[AtHand], hand, -1)
    BY <1>7, <1>8, <1>10, <2>1, Repeat
  <2>4. Rest' = Rest
    BY <1>3, <1>12 DEF Rest
  <2> QED BY <1>3, <1>4, <1>7, <1>8, <2>2, <2>3, <2>4 DEF SyncInv
<1> QED BY <1>6, <1>11, <1>12

\* When nothing is left to do and the copy is right, every file is synced.
LEMMA SyncedEmpty ==
  ASSUME TypeInv, batch' = <<>>, queue' = <<>>, slots' = <<>>, dst' = src', backup'
  PROVE  SyncInv' \/ ~Ready'
<1>1. Len(Rest') = 0
  <2>1. Rest' = <<>>
    BY ConcatEmptySeq, EmptySeq DEF Rest
  <2> QED BY <2>1, EmptySeq
<1>2. \A f \in File : Synced(Rest', f, src'[f], dst'[f], EventHand')
  BY <1>1 DEF Synced
<1> QED BY <1>2 DEF SyncInv

\* cp -r brings over what there is; no event comes in the meantime.
LEMMA CopierSync ==
  ASSUME TypeInv, SyncInv, Copier
  PROVE  SyncInv'
<1>1. cp # "ended" /\ UNCHANGED <<userVars, kernel, harm, watchVars>>
  BY DEF Copier, CopyStart, CopyRead, CopyWrite, CopyEnd, backupVars
<1>2. UNCHANGED <<src, early, queue, lost, harm, wpc, batch, slots, hand>>
  BY <1>1 DEF userVars, kernel, watchVars
<1> SUFFICES ASSUME Good' PROVE SyncInv'
  BY DEF SyncInv
<1>3. Copying
  <2>1. cp \notin {"failed", "inside"}
    BY DEF Copier, CopyStart, CopyRead, CopyWrite, CopyEnd
  <2>2. Good
    BY <1>2, <2>1 DEF Good
  <2> QED BY <1>1, <2>2 DEF SyncInv, Ready
<1> USE DEF TypeInv, TypeOK, backupVars
<1>4. CASE CopyStart
  <2>1. ~backup
    BY <1>4 DEF CopyStart, Good
  <2>2. cp' = "run" /\ backup' /\ todo' = {f \in File : src[f] # 0}
        /\ UNCHANGED <<dst, cpHand>> /\ dst = [f \in File |-> 0]
    BY <1>3, <1>4, <2>1 DEF CopyStart, Copying
  <2>3. ~Ready'
    BY <2>2 DEF Ready
  <2>4. cpHand = Nothing
    BY <1>3, <1>4 DEF CopyStart, Copying
  <2>5. Copying'
    BY <1>2, <1>3, <1>4, <2>2, <2>4 DEF Copying, CopyStart
  <2> QED BY <2>3, <2>5 DEF SyncInv
<1>5. ASSUME NEW f \in File, CopyRead(f) PROVE SyncInv'
  <2>1. ~Ready'
    BY <1>5 DEF Ready, CopyRead
  <2>2. Copying'
    BY <1>2, <1>3, <1>5 DEF Copying, CopyRead, Nothing
  <2> QED BY <2>1, <2>2 DEF SyncInv
<1>6. CASE CopyWrite
  <2>1. ~Ready'
    BY <1>6 DEF Ready, CopyWrite
  <2>2. cpHand \in File \X Version /\ cpHand[2] = src[cpHand[1]]
    BY <1>3, <1>6 DEF CopyWrite, Copying
  <2>3. Copying'
    <3>1. backup
      BY <1>3, <1>6 DEF CopyWrite, Copying
    <3> QED BY <1>2, <1>3, <1>6, <2>2, <3>1 DEF Copying, CopyWrite
  <2> QED BY <2>1, <2>3 DEF SyncInv
<1>7. CASE CopyEnd
  <2>1. /\ cp = "run" /\ cpHand = Nothing /\ todo = {} /\ cp' = "ended"
        /\ UNCHANGED <<backup, dst, cpHand>>
    BY <1>7 DEF CopyEnd
  <2>2. \A f \in File : dst[f] = src[f]
    BY <1>3, <2>1 DEF Copying, Nothing
  <2>3. dst' = src' /\ dst = src
    BY <1>2, <2>1, <2>2
  <2>4. batch' = <<>> /\ queue' = <<>> /\ slots' = <<>> /\ backup'
    BY <1>2, <1>3, <2>1 DEF Copying
  <2>5. CASE Ready'
    BY <2>3, <2>4, <2>5, SyncedEmpty
  <2>6. CASE ~Ready'
    <3>1. Copying'
      BY <1>2, <1>3, <2>1, <2>3 DEF Copying
    <3> QED BY <2>6, <3>1 DEF SyncInv
  <2> QED BY <2>5, <2>6
<1> QED BY <1>4, <1>5, <1>6, <1>7 DEF Copier

\* When a slot of a name has been carried out, a copy may be another if it was as good.
LEMMA NextSlot ==
  ASSUME TypeInv, SyncInv, Good, Good', NextEvent, slots # <<>>,
         wpc \in {"event", "cp", "rm"}, hand' = -1,
         UNCHANGED <<src, queue, backup, cp>>,
         Ready =>
           \A f \in File : Synced(Rest, f, src[f], dst[f], -1) => Synced(Rest, f, src[f], dst'[f], -1)
  PROVE  SyncInv'
<1>1. Ready
  BY DEF SyncInv, Copying
<1>2. backup /\ \A f \in File : Synced(Rest, f, src[f], dst[f], -1)
  BY <1>1 DEF SyncInv, EventHand
<1>3. batch' = batch /\ wpc' \in {"event", "read"}
  BY DEF NextEvent, Good
<1>4. Rest' = Rest /\ EventHand' = -1 /\ Ready'
  BY <1>1, <1>3 DEF Rest, EventHand, Ready, Watching
<1> QED BY <1>1, <1>2, <1>4 DEF SyncInv

\* The watcher carries out the events one after the other, and what it has not carried out
\* is in its batch or in the queue.
LEMMA WatcherSync ==
  ASSUME TypeInv, SyncInv, Watcher
  PROVE  SyncInv'
<1>1. /\ UNCHANGED <<src, early, lost>>
      /\ wpc # "ended"
      /\ harm' = "none" => harm = "none"
      /\ cp' = cp \/ cp = "none"
  <2> USE DEF userVars, kernel, backupVars, copyVars
  <2>1. CASE CheckFolder \/ Clear
    BY <2>1 DEF CheckFolder, Clear
  <2>7. CASE FirstCopy
    BY <2>7 DEF FirstCopy, TypeInv, Hands
  <2>8. CASE CreateWatch
    BY <2>8 DEF CreateWatch
  <2>6. CASE Read
    BY <2>6 DEF Read
  <2>2. CASE ProcessFile \/ CopyFilesRead \/ CopyFilesWrite
    BY <2>2 DEF ProcessFile, CopyFilesRead, CopyFilesWrite
  <2>3. CASE DeleteFile
    BY <2>3 DEF DeleteFile, Removed
  <2>4. CASE MisreadFile("cp") \/ MisreadFile("rm") \/ RaiseSelf
    BY <2>4 DEF MisreadFile, RaiseSelf, Slot
  <2>5. CASE RemoveBackup \/ WatchAgain
    BY <2>5 DEF RemoveBackup, WatchAgain, Removed, Slot
  <2> QED BY <2>1, <2>2, <2>3, <2>4, <2>5, <2>6, <2>7, <2>8 DEF Watcher
<1> SUFFICES ASSUME Good' PROVE SyncInv'
  BY DEF SyncInv
<1>a. Good
  BY <1>1 DEF Good
<1>2. IF Ready THEN /\ backup
                    /\ \A f \in File : Synced(Rest, f, src[f], dst[f], EventHand)
                    /\ slots # <<>> /\ hand # -1 =>
                         Synced(Rest, AtHand, src[AtHand], hand, -1)
      ELSE Copying
  BY <1>a DEF SyncInv
<1>3. CASE CheckFolder \/ Clear \/ FirstCopy
  <2>1. Copying /\ UNCHANGED <<src, batch, slots, queue, todo, cpHand>>
    BY <1>2, <1>3 DEF CheckFolder, Clear, FirstCopy, Ready, Watching, userVars, kernel, copyVars
  <2>2. ~Ready'
    BY <1>3, <2>1 DEF CheckFolder, Clear, FirstCopy, Ready, Watching, copyVars
  <2>3. Copying'
    BY <1>3, <2>1 DEF CheckFolder, Clear, FirstCopy, Copying, backupVars, copyVars
  <2> QED BY <2>2, <2>3 DEF SyncInv
<1>5. CASE CreateWatch
  <2>1. /\ Copying /\ wpc = "watch" /\ wpc' = "read"
        /\ UNCHANGED <<src, batch, slots, queue, backup, dst, hand, cp, todo, cpHand>>
    BY <1>2, <1>5 DEF CreateWatch, Ready, Watching, Good, userVars, kernel, backupVars, copyVars
  <2>2. CASE cp = "ended"
    <3>1. batch' = <<>> /\ queue' = <<>> /\ slots' = <<>> /\ dst' = src' /\ backup'
      BY <2>1, <2>2 DEF Copying
    <3>2. Ready'
      BY <2>1, <2>2 DEF Ready, Watching
    <3> QED BY <3>1, <3>2, SyncedEmpty
  <2>3. CASE cp # "ended"
    <3>1. ~Ready'
      BY <2>1, <2>3 DEF Ready
    <3>2. Copying'
      BY <2>1 DEF Copying
    <3> QED BY <3>1, <3>2 DEF SyncInv
  <2> QED BY <2>2, <2>3
<1> DEFINE Working == /\ wpc \in {"read", "event", "cp", "rm"}
                      /\ wpc' \in {"read", "event", "cp", "stuck", "rm"}
                      /\ cp' = cp /\ backup' = backup
<1>6. ASSUME Working, wpc # "read" \/ queue # <<>>
      PROVE  /\ Ready /\ Ready' /\ backup'
             /\ \A f \in File : Synced(Rest, f, src[f], dst[f], EventHand)
             /\ slots # <<>> /\ hand # -1 => Synced(Rest, AtHand, src[AtHand], hand, -1)
  <2>1. ~Copying
    BY <1>6 DEF Copying, TypeInv, TypeOK
  <2>2. Ready
    BY <1>2, <2>1
  <2> QED BY <1>2, <1>6, <2>2 DEF Ready, Watching
<1>7. CASE Read
  <2>1. /\ flag_end /\ queue # <<>> /\ wpc = "read" /\ wpc' = "event"
        /\ UNCHANGED <<backup, dst, hand, slots, cp>> /\ hand = -1 /\ slots = <<>>
    BY <1>7 DEF Read, copyVars, backupVars, Good, TypeInv, TypeOK, Hands
  <2>2. Rest' = Rest
    <3> DEFINE n == Smaller(MaxBatch, Len(queue))
    <3>1. queue \in Seq(Event) /\ batch = <<>>
      BY <2>1 DEF TypeInv, TypeOK
    <3>2. Len(queue) \in Nat \ {0}
      BY <2>1, <3>1, EmptySeq
    <3>3. n \in 1 .. Len(queue)
      BY <3>2 DEF Smaller
    <3>4. batch' = SubSeq(queue, 1, n) /\ queue' = SubSeq(queue, n + 1, Len(queue))
      BY <1>7, <2>1 DEF Read
    <3> HIDE DEF n
    <3>5. batch' \o queue' = SubSeq(queue, 1, Len(queue))
      BY <3>1, <3>2, <3>3, <3>4, ConcatAdjacentSubSeq
    <3>6. batch' \o queue' = queue /\ batch \o queue = queue
      BY <3>1, <3>5, SubSeqFull, ConcatEmptySeq
    <3> QED BY <3>6 DEF Rest
  <2> QED BY <1>1, <1>6, <2>1, <2>2 DEF SyncInv, EventHand
\* The event at hand is carried out.
<1>8. ASSUME NextEvent, slots = <<>>, batch # <<>>, queue' = queue, hand' = -1, cp' = cp,
             backup' = backup, wpc \in {"event", "cp", "rm"},
             \A f \in File : Synced(Rest, f, src[f], dst[f], hand) =>
               /\ LastTold(Rest, f, 1) => dst'[f] = src[f]
               /\ Tells(Rest, f, 1) \/ dst'[f] = dst[f]
      PROVE  SyncInv'
  <2>1. wpc' \in {"event", "read"}
    BY <1>8 DEF NextEvent, Good
  <2>2. /\ Ready' /\ backup'
        /\ \A f \in File : Synced(Rest, f, src[f], dst[f], hand)
    BY <1>6, <1>8, <2>1 DEF EventHand
  <2>3. Rest' = Tail(Rest) /\ Rest \in Seq(Event) /\ Rest # <<>>
    BY <1>8, RestTail DEF NextEvent, Rest
  <2>4. \A f \in File : Synced(Tail(Rest), f, src[f], dst'[f], -1)
    BY <1>8, <2>2, <2>3, Drop
  <2>5. EventHand' = -1
    BY <1>8 DEF EventHand
  <2> QED BY <1>1, <1>8, <2>2, <2>3, <2>4, <2>5 DEF SyncInv
<1>9. batch # <<>> => /\ Head(batch) \in Event /\ Rest[1] = Head(batch)
                      /\ Rest \in Seq(Event) /\ Rest # <<>>
  <2>1. batch \in Seq(Event)
    BY DEF TypeInv, TypeOK
  <2> QED BY <2>1, RestTail, HeadTailProperties
<1>10. CASE ProcessFile
  <2>1. wpc = "event" /\ slots = <<>> /\ batch # <<>> /\ hand = -1
        /\ UNCHANGED <<backup, dst, hand, cp, queue>>
    BY <1>10 DEF ProcessFile, kernel, backupVars, copyVars, TypeInv, TypeOK, Hands
  <2>2. CASE Head(batch).mask = "IN_ATTRIB"
    <3>1. NextEvent
      BY <1>10, <2>2 DEF ProcessFile
    <3>2. \A f \in File : ~Tells(Rest, f, 1)
      BY <1>9, <2>1, <2>2 DEF Tells
    <3> QED BY <1>8, <2>1, <3>1, <3>2 DEF LastTold
  <2>3. CASE Head(batch).mask # "IN_ATTRIB"
    <3>1. wpc' \in {"cp", "rm"} /\ batch' = batch /\ slots' = slots
      BY <1>9, <1>10, <2>1, <2>3 DEF ProcessFile, Event, Mask
    <3>2. Rest' = Rest /\ EventHand' = EventHand
      BY <2>1, <3>1 DEF Rest, EventHand
    <3> QED BY <1>1, <1>6, <2>1, <3>1, <3>2 DEF SyncInv
  <2> QED BY <2>2, <2>3
<1>11. CASE CopyFilesRead
  <2>1. wpc = "cp" /\ (batch # <<>> \/ slots # <<>>) /\ hand = -1
        /\ (slots = <<>> => Copies(Head(batch)) /\ AtHand = Head(batch).file)
        /\ AtHand \in File /\ UNCHANGED <<backup, dst, cp, queue>>
    BY <1>11, AtHandFile
    DEF CopyFilesRead, kernel, backupVars, copyVars, TypeInv, TypeOK, Hands, Copies, AtHand
  <2>2. slots = <<>> => Len(Rest) \in Nat \ {0}
    BY <1>9, <2>1, EmptySeq
  <2>3. CASE src[AtHand] = 0
    <3>1. NextEvent /\ hand' = -1
      BY <1>11, <2>1, <2>3 DEF CopyFilesRead
    <3>2. CASE slots = <<>>
      <4>1. ASSUME NEW f \in File, Synced(Rest, f, src[f], dst[f], hand)
            PROVE  ~LastTold(Rest, f, 1)
        BY <1>9, <2>1, <2>2, <2>3, <3>2, <4>1 DEF Synced, LastTold, Tells
      <4> QED BY <1>8, <2>1, <3>1, <3>2, <4>1
    <3>3. CASE slots # <<>>
      BY <1>1, <1>a, <2>1, <3>1, <3>3, NextSlot
    <3> QED BY <3>2, <3>3
  <2>4. CASE src[AtHand] # 0
    <3>1. hand' = src[AtHand] /\ wpc' \in {"cp", "stuck"} /\ UNCHANGED <<batch, slots>>
      BY <1>11, <2>4 DEF CopyFilesRead
    <3>2. Rest' = Rest /\ AtHand' = AtHand /\ Ready' /\ backup'
          /\ \A f \in File : Synced(Rest, f, src[f], dst[f], EventHand)
      BY <1>6, <2>1, <3>1 DEF Rest, AtHand
    <3>3. CASE slots = <<>>
      <4>1. EventHand = -1 /\ EventHand' = src[AtHand]
        BY <2>1, <3>1, <3>3 DEF EventHand
      <4>2. \A f \in File : Synced(Rest, f, src[f], dst[f], src[AtHand])
        BY <1>9, <2>1, <2>2, <3>2, <3>3, <4>1 DEF Synced, LastTold, Tells
      <4> QED BY <1>1, <2>1, <3>1, <3>2, <3>3, <4>1, <4>2 DEF SyncInv
    <3>4. CASE slots # <<>>
      <4>1. EventHand' = EventHand /\ EventHand = -1
        BY <3>1, <3>4 DEF EventHand
      <4>2. Synced(Rest, AtHand, src[AtHand], src[AtHand], -1)
        BY <2>1, <3>2, <4>1 DEF Synced
      <4> QED BY <1>1, <2>1, <3>1, <3>2, <3>4, <4>1, <4>2 DEF SyncInv
    <3> QED BY <3>3, <3>4
  <2> QED BY <2>3, <2>4
<1>12. CASE CopyFilesWrite
  <2>1. wpc = "cp" /\ (batch # <<>> \/ slots # <<>>) /\ hand # -1 /\ hand' = -1 /\ NextEvent
        /\ AtHand \in File /\ UNCHANGED <<backup, cp, queue>>
    BY <1>12, AtHandFile DEF CopyFilesWrite, kernel, copyVars, TypeInv, TypeOK, Hands
  <2>2. backup /\ Ready /\ (slots # <<>> => Synced(Rest, AtHand, src[AtHand], hand, -1))
    <3>1. wpc' \in {"event", "read"}
      BY <2>1 DEF NextEvent, Good
    <3> QED BY <1>6, <2>1, <3>1
  <2>3. dst' = [dst EXCEPT ![AtHand] = hand]
    BY <1>12, <2>2 DEF CopyFilesWrite
  <2>4. CASE slots = <<>>
    <3>1. /\ batch # <<>> /\ AtHand = Head(batch).file
          /\ Len(Rest) \in Nat \ {0} /\ Head(batch).mask # "IN_ATTRIB"
      BY <1>9, <2>1, <2>4, EmptySeq DEF TypeInv, Hands, AtHand
    <3>2. ASSUME NEW f \in File, Synced(Rest, f, src[f], dst[f], hand)
          PROVE  /\ LastTold(Rest, f, 1) => dst'[f] = src[f]
                 /\ Tells(Rest, f, 1) \/ dst'[f] = dst[f]
      BY <1>9, <2>1, <2>3, <3>1, <3>2 DEF Synced, LastTold, Tells, TypeInv, TypeOK
    <3> QED BY <1>8, <2>1, <2>4, <3>1, <3>2
  <2>5. CASE slots # <<>>
    <3>1. \A f \in File : dst'[f] = IF f = AtHand THEN hand ELSE dst[f]
      BY <2>1, <2>3 DEF TypeInv, TypeOK
    <3> QED BY <1>1, <1>a, <2>1, <2>2, <2>5, <3>1, NextSlot
  <2> QED BY <2>4, <2>5
<1>13. CASE DeleteFile
  <2>1. wpc = "rm" /\ (batch # <<>> \/ slots # <<>>) /\ hand = -1 /\ hand' = -1 /\ NextEvent
        /\ AtHand \in File /\ UNCHANGED <<backup, cp, queue>>
        /\ dst' = [dst EXCEPT ![AtHand] = 0]
    BY <1>13, AtHandFile DEF DeleteFile, kernel, copyVars, TypeInv, TypeOK, Hands
  <2>2. CASE slots = <<>>
    <3>1. /\ batch # <<>> /\ AtHand = Head(batch).file /\ Len(Rest) \in Nat \ {0}
          /\ Head(batch).mask # "IN_ATTRIB" /\ ~Copies(Head(batch))
      BY <1>9, <2>1, <2>2, EmptySeq DEF TypeInv, Hands, Copies, AtHand
    <3>2. ASSUME NEW f \in File, Synced(Rest, f, src[f], dst[f], hand)
          PROVE  /\ LastTold(Rest, f, 1) => dst'[f] = src[f]
                 /\ Tells(Rest, f, 1) \/ dst'[f] = dst[f]
      BY <1>9, <2>1, <3>1, <3>2, SMTT(30) DEF Synced, LastTold, Tells, TypeInv, TypeOK
    <3> QED BY <1>8, <2>1, <2>2, <3>1, <3>2
  <2>3. CASE slots # <<>>
    <3>1. dst[AtHand] = 0
      BY <1>13, <2>3 DEF DeleteFile, Removed, Good
    <3>2. \A f \in File : dst'[f] = dst[f]
      BY <2>1, <3>1 DEF TypeInv, TypeOK
    <3> QED BY <1>1, <1>a, <2>1, <2>3, <3>2, NextSlot
  <2> QED BY <2>2, <2>3
<1>14. ASSUME NEW do \in {"cp", "rm"}, MisreadFile(do) PROVE SyncInv'
  <2>1. /\ wpc = "event" /\ wpc' \in {"cp", "rm"}
        /\ UNCHANGED <<backup, dst, hand, cp, queue, batch, slots>>
    BY <1>14 DEF MisreadFile, Slot, kernel, backupVars, copyVars
  <2>2. Rest' = Rest /\ EventHand' = EventHand /\ AtHand' = AtHand
    BY <2>1 DEF Rest, EventHand, AtHand
  <2> QED BY <1>1, <1>6, <2>1, <2>2 DEF SyncInv
<1>15. CASE RaiseSelf
  <2>1. /\ wpc = "event" /\ slots # <<>> /\ hand' = -1 /\ NextEvent
        /\ UNCHANGED <<queue, backup, dst, cp>>
    BY <1>15 DEF RaiseSelf, Slot, kernel, backupVars, copyVars, TypeInv, Hands
  <2> QED BY <1>1, <1>a, <2>1, NextSlot
<1>16. CASE RemoveBackup \/ WatchAgain
  BY <1>16 DEF RemoveBackup, WatchAgain, Removed, Good
<1> QED BY <1>3, <1>5, <1>7, <1>10, <1>11, <1>12, <1>13, <1>14, <1>15, <1>16 DEF Watcher

\* What fails is an exception or happens to a slot, and so is a second watcher; a signal, a
\* child that ends or a pipe leaves the copies as they are.
LEMMA OtherSync ==
  ASSUME TypeInv, SyncInv, Fails \/ Told \/ WaitEnds \/ PipeWritten \/ Twin
  PROVE  SyncInv'
<1> SUFFICES ASSUME Good' PROVE SyncInv'
  BY DEF SyncInv
<1>1. CASE ClearFails
  <2>1. /\ wpc = "clear" /\ wpc' = "first"
        /\ \E kept \in SUBSET File : dst' = [f \in File |-> IF f \in kept THEN dst[f] ELSE 0]
        /\ UNCHANGED <<src, early, queue, lost, backup, harm, batch, slots, cp, todo, cpHand>>
    BY <1>1 DEF ClearFails, Good, userVars, kernel, copyVars
  <2>2. Copying
    BY <2>1 DEF SyncInv, Good, Ready, Watching
  <2>3. ~Ready' /\ Copying'
    BY <2>1, <2>2 DEF Ready, Watching, Copying
  <2> QED BY <2>3 DEF SyncInv
<1>2. CASE EventFails
  <2>1. /\ slots # <<>> /\ wpc \in {"cp", "rm"} /\ hand' = -1 /\ NextEvent
        /\ UNCHANGED <<src, early, lost, harm, queue, backup, dst, cp>>
    BY <1>2 DEF EventFails, Good, userVars, backupVars, copyVars, TypeInv, TypeOK
  <2>2. Good
    BY <2>1 DEF Good
  <2> QED BY <2>1, <2>2, NextSlot
<1>3. CASE FirstCopyFails \/ CopyFails \/ ForkFails \/ PipeWritten \/ Twin
  BY <1>3 DEF FirstCopyFails, CopyFails, ForkFails, PipeWritten, Twin, Good
<1>4. CASE Told \/ WaitEnds
  <2>1. /\ UNCHANGED <<src, early, queue, lost, backup, dst, harm, batch, slots, hand, cp, todo, cpHand>>
        /\ wpc' = wpc \/ (wpc = "wait" /\ wpc' = "first")
    BY <1>4 DEF Told, WaitEnds, userVars, kernel, backupVars, copyVars
  <2>2. Good /\ Rest' = Rest /\ EventHand' = EventHand /\ AtHand' = AtHand /\ (Ready' <=> Ready)
    BY <2>1 DEF Good, Rest, EventHand, AtHand, Ready, Watching
  <2>3. Copying => Copying'
    BY <2>1 DEF Copying
  <2> QED BY <2>1, <2>2, <2>3 DEF SyncInv
<1> QED BY <1>1, <1>2, <1>3, <1>4 DEF Fails

\* The backup is the folder when a watcher waits and there is no event, however the user's
\* changes, the events and the copies interleave, whatever fails and whatever names the files
\* have, if no change came before the watch was set and the first copy complete, no event was
\* lost, no name has removed a copy and the folder has one watcher (ResCop.c:28-48, 216-327).
THEOREM BackupInSync == Spec => []InSync
<1>1. Init => SyncInv
  BY DEF Init, SyncInv, Ready, Watching, Copying
<1>2. TypeInv /\ SyncInv /\ [Next]_vars => SyncInv'
  <2>1. ASSUME TypeInv, SyncInv, UNCHANGED vars PROVE SyncInv'
    BY <2>1 DEF vars, userVars, kernel, backupVars, watchVars, copyVars, SyncInv, Good, Ready,
                Watching, Copying, Rest, EventHand, AtHand
  <2> QED BY <2>1, UserSync, CopierSync, WatcherSync, OtherSync DEF Next
<1>3. TypeInv /\ SyncInv => InSync
  <2> SUFFICES ASSUME TypeInv, SyncInv, wpc = "read", queue = <<>>, Ready, ~early, ~lost,
                      harm = "none"
               PROVE  dst = src
    BY DEF InSync
  <2>1. batch = <<>>
    BY DEF TypeInv, TypeOK
  <2>2. Len(Rest) = 0
    BY <2>1, ConcatEmptySeq, EmptySeq DEF Rest
  <2>3. \A f \in File : Synced(Rest, f, src[f], dst[f], EventHand)
    BY DEF SyncInv, Good, Ready
  <2>4. ASSUME NEW f \in File PROVE dst[f] = src[f]
    <3>1. \A i \in 1 .. Len(Rest) : ~Tells(Rest, f, i)
      BY <2>2
    <3> QED BY <2>3, <3>1 DEF Synced
  <2> QED BY <2>4 DEF TypeInv, TypeOK
<1> QED BY <1>1, <1>2, <1>3, TypeInvariant, PTL DEF Spec
=============================================================================
