------------------------------- MODULE IDTable -------------------------------
(***************************************************************************)
(* The table of clients of the UDP server: C_4_Sockets/ID/ID.c, and the    *)
(* descriptors that server/server.c spends on each client.                 *)
(*                                                                         *)
(* IDS maps an id to the write end of the pipe to the client's slave, or   *)
(* -1.  Ids are given out in order and, once given back, from the stack    *)
(* NOT_USED_IDS, whose top is last_used_ip.                                *)
(***************************************************************************)
EXTENDS Integers, FiniteSets

CONSTANTS
  BUFSZ,    \* the length of both arrays (const.h)
  Fd,       \* the descriptors that can be write ends of pipes
  FdBase,   \* the descriptors the server holds without any client
  FdLimit   \* the most it may hold, RLIMIT_NOFILE

\* Neither array is ever tested for being full.  With the default limit of 1024
\* descriptors and BUFSZ = 512 the descriptors run out first.
ASSUME TableAssumption ==
  /\ BUFSZ \in Nat \ {0}
  /\ Fd \subseteq Nat
  /\ FdBase \in Nat /\ FdLimit \in Nat
  /\ FdLimit <= FdBase + 2 * BUFSZ + 1

VARIABLES
  IDS, NOT_USED_IDS, last_data_fork, last_used_ip,
  nfd   \* how many descriptors the server holds

table == <<IDS, NOT_USED_IDS, last_data_fork, last_used_ip, nfd>>

Index == 0 .. BUFSZ - 1

\* Of an array initialised with { -1 } only the first element is -1.
TableInit ==
  /\ IDS = [i \in Index |-> IF i = 0 THEN -1 ELSE 0]
  /\ NOT_USED_IDS = [i \in Index |-> IF i = 0 THEN -1 ELSE 0]
  /\ last_data_fork = 0
  /\ last_used_ip = -1
  /\ nfd = FdBase

\* Fault: the descriptor of the newest client, whatever the id.
GetFDNewest(id) ==
  IF id < 0 \/ id >= last_data_fork THEN -1 ELSE IDS[last_data_fork - 1]

\* M_GetFD_FromID.
GetFD(id) == IF id < 0 \/ id >= last_data_fork THEN -1 ELSE IDS[id]

Live == {i \in Index : i < last_data_fork /\ IDS[i] # -1}

\* The id M_CreateID_FromFD is about to return.
NewID == IF last_used_ip = -1 THEN last_data_fork ELSE NOT_USED_IDS[last_used_ip]

CanPipe == nfd + 2 <= FdLimit

\* Fault: the id is taken from the stack and left on top of it.
CreateKeepingTop(fd) ==
  /\ CanPipe
  /\ \A i \in Live : IDS[i] # fd
  /\ IDS' = [IDS EXCEPT ![NewID] = fd]
  /\ nfd' = nfd + 2
  /\ last_data_fork' = IF last_used_ip = -1 THEN last_data_fork + 1 ELSE last_data_fork
  /\ UNCHANGED <<NOT_USED_IDS, last_used_ip>>

\* pipe() and M_CreateID_FromFD, in CreateNewClient.  The server keeps both ends
\* of the pipe; the kernel gives it a write end that is not in use.
Create(fd) ==
  /\ CanPipe
  /\ \A i \in Live : IDS[i] # fd
  /\ IDS' = [IDS EXCEPT ![NewID] = fd]
  /\ nfd' = nfd + 2
  /\ IF last_used_ip = -1
       THEN /\ last_data_fork' = last_data_fork + 1
            /\ UNCHANGED last_used_ip
       ELSE /\ last_used_ip' = last_used_ip - 1
            /\ UNCHANGED last_data_fork
  /\ UNCHANGED NOT_USED_IDS

\* Fault: the slot of the id that is given back keeps its descriptor.
DeleteKeepingSlot(id) ==
  /\ nfd' = nfd - 1
  /\ last_used_ip' = last_used_ip + 1
  /\ NOT_USED_IDS' = [NOT_USED_IDS EXCEPT ![last_used_ip + 1] = id]
  /\ UNCHANGED <<IDS, last_data_fork>>

\* Fault (in the count): as if both ends of the pipe were closed.
DeleteBothEnds(id) ==
  /\ nfd' = nfd - 2
  /\ IDS' = [IDS EXCEPT ![id] = -1]
  /\ last_used_ip' = last_used_ip + 1
  /\ NOT_USED_IDS' = [NOT_USED_IDS EXCEPT ![last_used_ip + 1] = id]
  /\ UNCHANGED last_data_fork

\* M_DeleteID; it closes the write end only.
Delete(id) ==
  /\ nfd' = nfd - 1
  /\ IDS' = [IDS EXCEPT ![id] = -1]
  /\ last_used_ip' = last_used_ip + 1
  /\ NOT_USED_IDS' = [NOT_USED_IDS EXCEPT ![last_used_ip + 1] = id]
  /\ UNCHANGED last_data_fork

\* The server deletes only an id it has just written to, which GetFD knows.
TableNext ==
  \/ \E fd \in Fd : Create(fd)
  \/ \E id \in Index : GetFD(id) # -1 /\ Delete(id)

TableSpec == TableInit /\ [][TableNext]_table

-----------------------------------------------------------------------------
(* Properties. *)

TableTypeOK ==
  /\ IDS \in [Index -> Fd \cup {-1, 0}]
  /\ NOT_USED_IDS \in [Index -> Index \cup {-1}]
  /\ last_data_fork \in 0 .. BUFSZ
  /\ last_used_ip \in -1 .. BUFSZ - 1
  /\ nfd \in Nat

\* The stack of free ids holds each id below last_data_fork that has no pipe, and
\* holds it once (ID.c:22-28, 39-42).
FreeListExact ==
  /\ \A i, j \in 0 .. last_used_ip : NOT_USED_IDS[i] = NOT_USED_IDS[j] => i = j
  /\ {NOT_USED_IDS[i] : i \in 0 .. last_used_ip}
       = {id \in Index : id < last_data_fork /\ IDS[id] = -1}

\* Both arrays are long enough, although nothing tests it (ID.c:17-18, 41-42):
\* the read end of every pipe is never closed (server.c:93-113), so the server is
\* out of descriptors before it is out of ids.
TableBounded ==
  /\ last_data_fork <= BUFSZ
  /\ last_used_ip < BUFSZ
  /\ nfd >= FdBase + last_data_fork + Cardinality(Live)

Allocator == INSTANCE IdAllocator WITH
  Ids <- Index, live <- [i \in Live |-> IDS[i]]

\* No id is given to a client while another holds it (ID.c:10-43).
IdsAreExclusive == Allocator!Spec
=============================================================================
