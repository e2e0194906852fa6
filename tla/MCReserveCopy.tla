--------------------------- MODULE MCReserveCopy ---------------------------
\* ReserveCopy for TLC.
EXTENDS ReserveCopy

CONSTANTS a, b

\* The users are alike: a is the first.
MCInOrder == cpc[b] # "idle" => cpc[a] # "idle"

\* What seldom happens does not happen together: a folder that is deleted (in a tree that
\* is told by a stop), a watcher that escapes (from a tree of two), a cp that waits.
MCOneMishap ==
  /\ deletes > 0 => missed = {} /\ wish[b] = "stop"
  /\ missed # {} => used < MaxWatchers
  /\ \A w \in Watcher : proc[w].pc = "stuck" => missed = {} /\ deletes = 0

\* With careless users both watchers are the daemon's.
MCTwoTrees == ~careful /\ used = 2 => proc[2].parent = 0
=============================================================================
