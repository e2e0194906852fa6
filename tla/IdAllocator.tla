----------------------------- MODULE IdAllocator -----------------------------
(***************************************************************************)
(* What ID/ID.c of C_4_Sockets promises the server: an id names one pipe,  *)
(* from the moment a client gets it until the client leaves, and no other  *)
(* client gets that id in between.                                         *)
(***************************************************************************)
CONSTANTS Ids, Fd

VARIABLE live   \* the pipe of every id that a client holds

Init == live = [i \in {} |-> {}]

Held == DOMAIN live

Allocate(i, fd) ==
  /\ i \in Ids \ Held
  /\ \A j \in Held : live[j] # fd
  /\ live' = [j \in Held \cup {i} |-> IF j = i THEN fd ELSE live[j]]

Release(i) ==
  /\ i \in Held
  /\ live' = [j \in Held \ {i} |-> live[j]]

Next == \E i \in Ids : Release(i) \/ \E fd \in Fd : Allocate(i, fd)

Spec == Init /\ [][Next]_live
=============================================================================
