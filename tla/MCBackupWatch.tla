---------------------------- MODULE MCBackupWatch ----------------------------
(* Constants for model checking BackupWatch: what the letters of names do.  *)
EXTENDS BackupWatch

CONSTANTS f1, f2

Do(do, f) == <<[do |-> do, file |-> f]>>
Names(x, y) == [f \in {f1, f2} |-> IF f = f1 THEN x ELSE y]

\* Names of less than 16 letters; that of f2 has those of IN_ISDIR and IN_DELETE_SELF.
MCShort == [fifo |-> {}, inner |-> Names(<<>>, <<>>), last |-> Names(<<>>, Do("raise", f2))]

\* f1 is 16 letters, two masks among them, with the name of f2, a pipe, behind them.
MCRest == [fifo  |-> {f2},
           inner |-> Names(Do("cp", f2) \o Do("rm", f2), <<>>),
           last  |-> Names(Do("raise", f2), Do("raise", f2))]

\* f1 is 16 letters with nothing behind them.
MCNoRest == [fifo  |-> {},
             inner |-> Names(Do("watch", f1) \o Do("remove", f1), <<>>),
             last  |-> Names(<<>>, <<>>)]

MCNamings == {MCShort, MCRest, MCNoRest}

\* Names of more than 15 letters are followed through fewer changes, and so is what the
\* properties say nothing of any more: a change that comes too early, a second watcher.
MCFewerChanges ==
  /\ naming # MCShort => changes < MaxChanges
  /\ early \/ harm = "twin" => changes <= 1
=============================================================================
