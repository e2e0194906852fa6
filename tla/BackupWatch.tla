---------------------------- MODULE BackupWatch ----------------------------
(***************************************************************************)
(* One watcher of the reserve copy, Res_copy/Libraries/ResCop.c of         *)
(* C_3_sem: the process that AddWatch forks for a folder and its backup.   *)
(* It clears the old backup, starts cp -r, watches the folder and repeats  *)
(* on the backup what inotify reports.  The user changes the folder at any *)
(* time, cp takes its time (it reads a file and writes it later), and      *)
(* fork, exec, cp and rm may fail.                                         *)
(*                                                                         *)
(* A file is a version, 0 if there is none; every change gives a new one.  *)
(* Folders in the folder are left to ReserveCopy, as is everything about   *)
(* signals but their effect; the folder itself stays where it is.          *)
(*                                                                         *)
(* read gives slots of 16 bytes, one for an event and one for every 16     *)
(* bytes of its name, and the loop takes all of them but the last one for  *)
(* events.  What a slot of a name does then is a matter of its letters:    *)
(* letters 5 to 8 are the mask (less than 8 letters do nothing), and the   *)
(* file is the rest of the name, or no file for the last slot.             *)
(*                                                                         *)
(* Bounds: MaxChanges of the user, QueueSize events in the kernel          *)
(* (max_queued_events), MaxBatch events in a read (MAX_SIZE slots).        *)
(***************************************************************************)
EXTENDS Integers, Sequences

CONSTANTS
  File,
  Namings,  \* what names the files may have and which of them may be pipes
  MaxChanges, QueueSize, MaxBatch

\* A slot copies or removes another file, whose name is the rest of this one; without a
\* rest it removes the whole backup or watches the folder a second time.
Misread == [do : {"cp", "rm", "raise", "remove", "watch"}, file : File]

\* The files that are named pipes, and what the slots of a name do when they are taken for
\* events: those that another slot of the name follows (it has more than 15 letters), and
\* the last one, which can only raise SIGUSR1.
Naming == [fifo : SUBSET File, inner : [File -> Seq(Misread)], last : [File -> Seq(Misread)]]

ASSUME NameAssumption == Namings \subseteq Naming

ASSUME WatchAssumption ==
  MaxChanges \in Nat /\ QueueSize \in Nat /\ MaxBatch \in Nat \ {0}

VARIABLES
  naming,    \* the names of the files
  src,       \* the folder
  changes,   \* how often the user has changed it
  early,     \* whether once before the watcher was ready
  queue,     \* the events that the kernel keeps
  lost,      \* whether it has dropped one, or the cp or rm of one has failed
  backup,    \* whether the folder of the backup exists
  dst,       \* the backup
  harm,      \* "removed" once a slot of a name has removed a copy, "twin" once the folder
             \* has a second watcher; "none" before
  wpc,       \* where the watcher is
  flag_end,  \* FALSE once it has got SIGUSR1
  batch,     \* the events it has read
  slots,     \* the slots of the name of the last event it has carried out
  hand,      \* the version that its cp has read, -1 if none
  cp,        \* the first copy, cp -r: "none", "start", "run" and "ended"; "failed"; or "inside",
             \* when it makes a folder in the old backup
  todo,      \* the files it has still to copy
  cpHand     \* the file and version that it has read

userVars  == <<naming, src, changes, early>>
kernel    == <<queue, lost>>
backupVars == <<backup, dst, harm>>
watchVars == <<wpc, flag_end, batch, slots, hand>>
copyVars  == <<cp, todo, cpHand>>
vars == <<userVars, kernel, backupVars, watchVars, copyVars>>

Mask == {"IN_CREATE", "IN_MODIFY", "IN_ATTRIB", "IN_DELETE", "IN_MOVED_FROM", "IN_MOVED_TO"}
Event == [file : File, mask : Mask]
Version == 0..(MaxChanges + 1)
Nothing == <<>>

\* What the backup holds before is of no interest but for being there.
Init ==
  /\ naming \in Namings
  /\ src \in [File -> {0, 1}] /\ changes = 0 /\ early = FALSE
  /\ queue = <<>> /\ lost = FALSE
  /\ backup \in BOOLEAN
  /\ dst \in [File -> IF backup THEN {0, 1} ELSE {0}] /\ harm = "none"
  /\ wpc = "check" /\ flag_end = TRUE /\ batch = <<>> /\ slots = <<>> /\ hand = -1
  /\ cp = "none" /\ todo = {} /\ cpHand = Nothing

-----------------------------------------------------------------------------
(* The user and inotify. *)

Watching == wpc \notin {"check", "clear", "wait", "first", "watch"}
Ready == Watching /\ cp = "ended"

\* The kernel drops an event that repeats the last one, or that finds the queue full.
Notify(f, mask) ==
  LET e == [file |-> f, mask |-> mask]
      repeats == queue # <<>> /\ queue[Len(queue)] = e
      full == Len(queue) >= QueueSize
  IN IF Watching /\ wpc # "ended"
       THEN /\ queue' = IF repeats \/ full THEN queue ELSE Append(queue, e)
            /\ lost' = (lost \/ (full /\ ~repeats))
       ELSE UNCHANGED kernel

Change(f, version, mask) ==
  /\ changes < MaxChanges
  /\ changes' = changes + 1
  /\ early' = (early \/ ~Ready)
  /\ src' = [src EXCEPT ![f] = version]
  /\ Notify(f, mask)
  /\ UNCHANGED <<naming, backupVars, watchVars, copyVars>>

\* The version that a change gives; 1 is that of the files there are at first.
New == changes + 2

Create(f)  == src[f] = 0 /\ Change(f, New, "IN_CREATE")
Modify(f)  == src[f] # 0 /\ Change(f, New, "IN_MODIFY")
Touch(f)   == src[f] # 0 /\ Change(f, src[f], "IN_ATTRIB")
Delete(f)  == src[f] # 0 /\ Change(f, 0, "IN_DELETE")
MoveOut(f) == src[f] # 0 /\ Change(f, 0, "IN_MOVED_FROM")
MoveIn(f)  == Change(f, New, "IN_MOVED_TO")

User == \E f \in File : \/ Create(f) \/ Modify(f) \/ Touch(f)
                        \/ Delete(f) \/ MoveOut(f) \/ MoveIn(f)

-----------------------------------------------------------------------------
(* The first copy: CheckFolder, and the cp -r that it does not wait for. *)

CheckFolder ==
  /\ wpc = "check"
  /\ wpc' = IF backup THEN "clear" ELSE "first"
  /\ UNCHANGED <<userVars, kernel, backupVars, flag_end, batch, slots, hand, copyVars>>

\* Fault: cp -r is started only when there was no backup.
ClearOnly ==
  /\ wpc = "clear"
  /\ backup' = FALSE /\ dst' = [f \in File |-> 0]
  /\ wpc' = "watch"
  /\ UNCHANGED <<userVars, kernel, harm, flag_end, batch, slots, hand, copyVars>>

\* rm -r of the old backup, which CheckFolder waits for.
Clear ==
  /\ wpc = "clear"
  /\ backup' = FALSE /\ dst' = [f \in File |-> 0]
  /\ wpc' = "first"
  /\ UNCHANGED <<userVars, kernel, harm, flag_end, batch, slots, hand, copyVars>>

\* No result is looked at: rm fails somewhere, or its fork does; or its exec fails, and
\* the child goes on from there as a watcher of the same folder, until it ends.
ClearFails ==
  /\ wpc = "clear"
  /\ \/ /\ \E kept \in SUBSET File : dst' = [f \in File |-> IF f \in kept THEN dst[f] ELSE 0]
        /\ wpc' = "first" /\ UNCHANGED harm
     \/ wpc' = "wait" /\ harm' = "twin" /\ UNCHANGED dst
  /\ UNCHANGED <<userVars, kernel, backup, flag_end, batch, slots, hand, copyVars>>

WaitEnds ==
  /\ wpc = "wait"
  /\ wpc' = "first"
  /\ UNCHANGED <<userVars, kernel, backupVars, flag_end, batch, slots, hand, copyVars>>

FirstCopy ==
  /\ wpc = "first"
  /\ wpc' = "watch" /\ cp' = "start"
  /\ UNCHANGED <<userVars, kernel, backupVars, flag_end, batch, slots, hand, todo, cpHand>>

\* As with rm, but cp is not waited for.
FirstCopyFails ==
  /\ wpc = "first"
  /\ wpc' = "watch" /\ cp' = "failed"
  /\ harm' \in {harm, "twin"}
  /\ UNCHANGED <<userVars, kernel, backup, dst, flag_end, batch, slots, hand, todo, cpHand>>

CopyStart ==
  /\ cp = "start"
  /\ backup' = TRUE
  /\ IF backup THEN cp' = "inside" /\ UNCHANGED todo
               ELSE cp' = "run" /\ todo' = {f \in File : src[f] # 0}
  /\ UNCHANGED <<userVars, kernel, dst, harm, watchVars, cpHand>>

CopyRead(f) ==
  /\ cp = "run" /\ cpHand = Nothing /\ f \in todo
  /\ todo' = todo \ {f}
  /\ cpHand' = IF src[f] = 0 THEN Nothing ELSE <<f, src[f]>>
  /\ UNCHANGED <<userVars, kernel, backupVars, watchVars, cp>>

CopyWrite ==
  /\ cp = "run" /\ cpHand # Nothing
  /\ IF backup THEN dst' = [dst EXCEPT ![cpHand[1]] = cpHand[2]] ELSE UNCHANGED dst
  /\ cpHand' = Nothing
  /\ UNCHANGED <<userVars, kernel, backup, harm, watchVars, cp, todo>>

CopyEnd ==
  /\ cp = "run" /\ cpHand = Nothing /\ todo = {}
  /\ cp' = "ended"
  /\ UNCHANGED <<userVars, kernel, backupVars, watchVars, todo, cpHand>>

CopyFails ==
  /\ cp = "run"
  /\ cp' = "failed" /\ todo' = {} /\ cpHand' = Nothing
  /\ UNCHANGED <<userVars, kernel, backupVars, watchVars>>

Copier == CopyStart \/ (\E f \in File : CopyRead(f)) \/ CopyWrite \/ CopyEnd

-----------------------------------------------------------------------------
(* The watcher: the loop of AddWatch, ProcessFile, CopyFiles, DeleteFile. *)

\* inotify_init and CreateWatch, which abort when they fail.
CreateWatch ==
  /\ wpc = "watch"
  /\ wpc' \in {"read", "ended"}
  /\ UNCHANGED <<userVars, kernel, backupVars, flag_end, batch, slots, hand, copyVars>>

\* SIGUSR1 from the daemon or from another watcher.
Told ==
  /\ wpc # "ended" /\ flag_end
  /\ flag_end' = FALSE
  /\ UNCHANGED <<userVars, kernel, backupVars, wpc, batch, slots, hand, copyVars>>

\* read returns what is there, as much as has room; it fails after the signal, whose
\* handler closes the descriptor.
Smaller(m, n) == IF m < n THEN m ELSE n

Read ==
  /\ wpc = "read"
  /\ IF flag_end
       THEN LET n == Smaller(MaxBatch, Len(queue)) IN
            /\ queue # <<>>
            /\ batch' = SubSeq(queue, 1, n)
            /\ queue' = SubSeq(queue, n + 1, Len(queue))
            /\ wpc' = "event"
       ELSE wpc' = "ended" /\ UNCHANGED <<batch, queue>>
  /\ UNCHANGED <<userVars, lost, backupVars, flag_end, slots, hand, copyVars>>

\* Fault: the loop ends one event early.
NextEventShort ==
  /\ batch' = Tail(batch) /\ slots' = <<>>
  /\ wpc' = IF Len(batch) > 2 THEN "event" ELSE IF flag_end' THEN "read" ELSE "ended"

\* Fault: after a name of more than 15 letters the loop leaves out an event.
NextEventSkip ==
  /\ batch' = IF Len(batch) > 1 /\ naming.inner[Head(batch).file] # <<>> THEN Tail(Tail(batch))
              ELSE Tail(batch)
  /\ slots' = <<>>
  /\ wpc' = IF batch' # <<>> THEN "event" ELSE IF flag_end' THEN "read" ELSE "ended"

\* The slots of the name at hand, but for the last slot of all, then the next event.
NextEvent ==
  /\ IF slots # <<>>
       THEN slots' = Tail(slots) /\ batch' = batch
       ELSE LET f == Head(batch).file IN
            /\ slots' = IF Len(batch) > 1 THEN naming.inner[f] \o naming.last[f]
                         ELSE naming.inner[f]
            /\ batch' = Tail(batch)
  /\ wpc' = IF slots' # <<>> \/ batch' # <<>> THEN "event"
            ELSE IF flag_end' THEN "read" ELSE "ended"

\* The file of the event or of the slot that is taken for one.
AtHand == IF slots # <<>> THEN Head(slots).file ELSE Head(batch).file

ProcessFile ==
  /\ wpc = "event" /\ slots = <<>>
  /\ UNCHANGED flag_end
  /\ CASE Head(batch).mask \in {"IN_CREATE", "IN_MODIFY", "IN_MOVED_TO"} ->
            wpc' = "cp" /\ UNCHANGED <<batch, slots>>
       [] Head(batch).mask \in {"IN_DELETE", "IN_MOVED_FROM"} ->
            wpc' = "rm" /\ UNCHANGED <<batch, slots>>
       [] Head(batch).mask = "IN_ATTRIB" -> NextEvent
  /\ UNCHANGED <<userVars, kernel, backupVars, hand, copyVars>>

\* cp: of a file that is gone it fails, and so it does when there is no folder to copy to;
\* it waits for somebody to write to a named pipe.
CopyFilesRead ==
  /\ wpc = "cp" /\ hand = -1
  /\ UNCHANGED flag_end
  /\ IF src[AtHand] # 0
       THEN /\ hand' = src[AtHand]
            /\ wpc' = IF AtHand \in naming.fifo THEN "stuck" ELSE "cp"
            /\ UNCHANGED <<batch, slots>>
       ELSE NextEvent /\ UNCHANGED hand
  /\ UNCHANGED <<userVars, kernel, backupVars, copyVars>>

\* The copy is then a file with what was written, and no pipe.
PipeWritten ==
  /\ wpc = "stuck"
  /\ wpc' = "cp" /\ lost' = TRUE
  /\ UNCHANGED <<userVars, queue, backupVars, flag_end, batch, slots, hand, copyVars>>

CopyFilesWrite ==
  /\ wpc = "cp" /\ hand # -1
  /\ IF backup THEN dst' = [dst EXCEPT ![AtHand] = hand] ELSE UNCHANGED dst
  /\ hand' = -1
  /\ UNCHANGED flag_end
  /\ NextEvent
  /\ UNCHANGED <<userVars, kernel, backup, harm, copyVars>>

Removed == IF harm = "none" THEN "removed" ELSE harm

DeleteFile ==
  /\ wpc = "rm"
  /\ dst' = [dst EXCEPT ![AtHand] = 0]
  /\ harm' = IF slots # <<>> /\ dst[AtHand] # 0 THEN Removed ELSE harm
  /\ UNCHANGED flag_end
  /\ NextEvent
  /\ UNCHANGED <<userVars, kernel, backup, hand, copyVars>>

\* exec fails, or cp or rm does; an event is lost then.
EventFails ==
  /\ wpc \in {"cp", "rm"}
  /\ lost' = (lost \/ slots = <<>>) /\ hand' = -1
  /\ UNCHANGED flag_end
  /\ NextEvent
  /\ UNCHANGED <<userVars, queue, backupVars, copyVars>>

-----------------------------------------------------------------------------
(* A slot of a name that is taken for an event: ProcessFile and ProcessFolder. *)

Slot(do) == wpc = "event" /\ slots # <<>> /\ Head(slots).do = do

MisreadFile(do) ==
  /\ Slot(do)
  /\ wpc' = do
  /\ UNCHANGED <<userVars, kernel, backupVars, flag_end, batch, slots, hand, copyVars>>

RaiseSelf ==
  /\ Slot("raise")
  /\ flag_end' = FALSE
  /\ NextEvent
  /\ UNCHANGED <<userVars, kernel, backupVars, hand, copyVars>>

\* DeleteFolder of the backup; what cp -r writes meanwhile may keep it.
RemoveBackup ==
  /\ Slot("remove")
  /\ \E kept \in SUBSET File :
       /\ cp # "run" => kept = {}
       /\ dst' = [f \in File |-> IF f \in kept THEN dst[f] ELSE 0]
       /\ backup' = (backup /\ kept # {})
  /\ harm' = Removed
  /\ UNCHANGED flag_end
  /\ NextEvent
  /\ UNCHANGED <<userVars, kernel, hand, copyVars>>

\* CopyFolders: cp -r makes the backup, or a folder in it, and AddWatch a second watcher.
WatchAgain ==
  /\ Slot("watch")
  /\ backup' = TRUE /\ dst' = IF backup THEN dst ELSE src
  /\ harm' = "twin"
  /\ UNCHANGED flag_end
  /\ NextEvent
  /\ UNCHANGED <<userVars, kernel, hand, copyVars>>

\* fork_s ends the watcher when it fails.
ForkFails ==
  /\ \/ wpc \in {"cp", "rm"} /\ hand = -1
     \/ Slot("remove") \/ Slot("watch")
  /\ wpc' = "ended" /\ batch' = <<>> /\ slots' = <<>>
  /\ UNCHANGED <<userVars, kernel, backupVars, flag_end, hand, copyVars>>

Watcher ==
  \/ CheckFolder \/ Clear \/ FirstCopy \/ CreateWatch \/ Read \/ ProcessFile
  \/ CopyFilesRead \/ CopyFilesWrite \/ DeleteFile
  \/ MisreadFile("cp") \/ MisreadFile("rm") \/ RaiseSelf \/ RemoveBackup \/ WatchAgain

Fails == ClearFails \/ FirstCopyFails \/ CopyFails \/ EventFails \/ ForkFails

\* A second watcher clears the backup and makes a first copy too, and copies and removes
\* what it likes of it later.
Twin ==
  /\ harm = "twin"
  /\ \/ backup' = FALSE /\ dst' = [f \in File |-> 0]
     \/ backup' = TRUE /\ UNCHANGED dst
     \/ /\ backup /\ UNCHANGED backup
        /\ \E f \in File, version \in Version : dst' = [dst EXCEPT ![f] = version]
  /\ UNCHANGED <<userVars, kernel, harm, watchVars, copyVars>>

-----------------------------------------------------------------------------
Next == User \/ Copier \/ Watcher \/ Told \/ Fails \/ WaitEnds \/ PipeWritten \/ Twin

Spec == Init /\ [][Next]_vars

\* The watcher and its copies run when they can; the user need not. Nobody need write to
\* a pipe or end a second watcher.
FairSpec == Spec /\ WF_vars(Copier) /\ WF_vars(Watcher)

-----------------------------------------------------------------------------
(* Properties. *)

\* The types of all variables.
TypeOK ==
  /\ naming \in Naming
  /\ src \in [File -> Version] /\ changes \in 0..MaxChanges /\ early \in BOOLEAN
  /\ queue \in Seq(Event) /\ Len(queue) <= QueueSize /\ lost \in BOOLEAN
  /\ backup \in BOOLEAN /\ dst \in [File -> Version] /\ harm \in {"none", "removed", "twin"}
  /\ wpc \in {"check", "clear", "wait", "first", "watch", "read", "event", "cp", "stuck", "rm", "ended"}
  /\ flag_end \in BOOLEAN
  /\ batch \in Seq(Event) /\ Len(batch) <= MaxBatch
  /\ slots \in Seq(Misread)
  /\ wpc \in {"event", "cp", "stuck", "rm"} <=> batch # <<>> \/ slots # <<>>
  /\ hand \in {-1} \cup Version
  /\ cp \in {"none", "start", "run", "ended", "failed", "inside"}
  /\ todo \subseteq File /\ cpHand \in {Nothing} \cup (File \X Version)

\* When the watcher waits for an event and there is none, the backup is the folder. It
\* may be wrong only if the folder was changed before the watch was set and the first
\* copy complete (nothing orders the two, and cp -r is not waited for), if events were
\* dropped or their cp or rm has failed, or if a name of more than 15 letters has removed a
\* copy or the folder has two watchers; the events may come in any batches and lag behind
\* the folder, and a copy may be of a later version than its event, of another file than
\* the user has changed, or of a file that is gone.
InSync ==
  wpc = "read" /\ flag_end /\ queue = <<>> /\ Ready /\ ~early /\ ~lost /\ harm = "none"
    => dst = src

\* And it comes to that: once the user stops, the backup becomes the folder for good, with
\* the same exceptions, unless there never is a first copy, or the watcher ends or waits
\* for a cp that waits for a named pipe.
Converges ==
  <>[](early \/ lost \/ harm # "none" \/ cp \in {"failed", "inside"}
       \/ ~flag_end \/ wpc \in {"ended", "stuck"} \/ dst = src)

=============================================================================
