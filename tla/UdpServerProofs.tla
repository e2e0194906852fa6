--------------------------- MODULE UdpServerProofs ---------------------------
(***************************************************************************)
(* Theorems about the UDP server, for any number of clients.               *)
(*                                                                         *)
(* The first part is about the table of clients alone, for arrays of any   *)
(* length and any limit on descriptors that satisfies TableAssumption.     *)
(*                                                                         *)
(* The second part holds whatever the network loses or interleaves: the    *)
(* table is only ever used as the table's own specification says, so that  *)
(* what the first part proves of the table holds in the server, and its    *)
(* end reaches every slave.                                                *)
(*                                                                         *)
(* The third part is about clients that take turns on a network that       *)
(* loses nothing.  Its invariant TurnsInv follows a packet from its sender *)
(* through the socket and the server to a slave: the socket holds whole    *)
(* packets (NetInv), a client has no replies before its slave (Beginners), *)
(* an id leads to its slave until the exit of its client has been read     *)
(* (Slaves), and a client's first reply is its id (IdFirst).               *)
(***************************************************************************)
EXTENDS UdpServer, FiniteSetTheorems, SequenceTheorems, TLAPS

-----------------------------------------------------------------------------
(* The table of clients. *)

\* The ids that were given out and given back.
Dead == {id \in Index : id < last_data_fork /\ IDS[id] = -1}

\* Every id ever given out is either live or on the stack of free ids, and the
\* server has spent one descriptor on each and another on each live one.
Counted ==
  /\ last_used_ip + 1 + Cardinality(Live) = last_data_fork
  /\ nfd >= FdBase + last_data_fork + Cardinality(Live)

\* FreeListExact with the values spelled out, as the steps use it.
Stacked ==
  /\ \A i \in 0 .. last_used_ip : NOT_USED_IDS[i] \in Dead
  /\ \A i, j \in 0 .. last_used_ip : NOT_USED_IDS[i] = NOT_USED_IDS[j] => i = j
  /\ \A id \in Dead : \E i \in 0 .. last_used_ip : NOT_USED_IDS[i] = id

TableInv == TableTypeOK /\ Counted /\ Stacked

-----------------------------------------------------------------------------
\* The live ids can be counted: they are fewer than the slots of the array.
LEMMA LiveFinite ==
  ASSUME TableTypeOK
  PROVE  IsFiniteSet(Live) /\ Cardinality(Live) \in Nat
<1>1. IsFiniteSet(Index)
  BY FS_Interval, TableAssumption DEF Index
<1>2. Live \subseteq Index
  BY DEF Live
<1> QED BY <1>1, <1>2, FS_Subset, FS_CardinalityType

\* M_CreateID_FromFD returns an id inside the array that no client holds, and one
\* that has never been given out only when every id below it is live; then the
\* descriptors guarantee that the array has room for it.
LEMMA FreshID ==
  ASSUME TableInv, CanPipe
  PROVE  /\ NewID \in Index \ Live
         /\ last_used_ip = -1 => last_data_fork < BUFSZ
<1>0. Cardinality(Live) \in Nat
  BY LiveFinite DEF TableInv
<1>1. ASSUME last_used_ip = -1 PROVE last_data_fork < BUFSZ
  BY <1>0, <1>1, TableAssumption DEF TableInv, TableTypeOK, Counted, CanPipe
<1>2. CASE last_used_ip = -1
  BY <1>1, <1>2, TableAssumption DEF TableInv, TableTypeOK, NewID, Index, Live
<1>3. CASE last_used_ip # -1
  <2>1. last_used_ip \in 0 .. last_used_ip
    BY <1>3 DEF TableInv, TableTypeOK
  <2>2. NewID \in Dead
    BY <1>3, <2>1 DEF TableInv, Stacked, NewID
  <2> QED BY <1>3, <2>2 DEF Dead, Live
<1> QED BY <1>1, <1>2, <1>3

\* A step of CreateNewClient makes the new id live and leaves every other id as it
\* was.
LEMMA CreateLive ==
  ASSUME TableInv, NEW fd \in Fd, Create(fd)
  PROVE  /\ Live' = Live \cup {NewID}
         /\ NewID \in Index \ Live
         /\ Cardinality(Live') = Cardinality(Live) + 1
<1>1. NewID \in Index \ Live /\ (last_used_ip = -1 => last_data_fork < BUFSZ)
  BY FreshID DEF Create
<1>2. NewID < last_data_fork'
  <2>1. CASE last_used_ip = -1
    BY <2>1 DEF Create, NewID, TableInv, TableTypeOK
  <2>2. CASE last_used_ip # -1
    <3>1. last_used_ip \in 0 .. last_used_ip
      BY <2>2 DEF TableInv, TableTypeOK
    <3>2. NewID \in Dead
      BY <2>2, <3>1 DEF TableInv, Stacked, NewID
    <3> QED BY <2>2, <3>2 DEF Dead, Create
  <2> QED BY <2>1, <2>2
<1>3. \A i \in Index \ {NewID} : i < last_data_fork' <=> i < last_data_fork
  BY DEF Create, NewID, Index, TableInv, TableTypeOK
<1>4. \A i \in Index : IDS'[i] = IF i = NewID THEN fd ELSE IDS[i]
  BY DEF Create, TableInv, TableTypeOK
<1>5. fd # -1
  BY TableAssumption
<1>6. Live' = Live \cup {NewID}
  BY <1>1, <1>2, <1>3, <1>4, <1>5 DEF Live, Index
<1> QED BY <1>1, <1>6, LiveFinite, FS_AddElement DEF TableInv

\* A step of M_DeleteID takes one id out of the live ones and leaves the others as
\* they were.
LEMMA DeleteLive ==
  ASSUME TableInv, NEW id \in Index, GetFD(id) # -1, Delete(id)
  PROVE  /\ id \in Live
         /\ Live' = Live \ {id}
         /\ Cardinality(Live') = Cardinality(Live) - 1
         /\ Cardinality(Live) >= 1
<1>1. id \in Live
  BY DEF GetFD, Live, Index, TableInv, TableTypeOK
<1>2. Live' = Live \ {id}
  BY DEF Delete, Live, Index, TableInv, TableTypeOK
<1>3. Cardinality(Live') = Cardinality(Live) - 1
  BY <1>1, <1>2, LiveFinite, FS_RemoveElement DEF TableInv
<1>4. Cardinality(Live) # 0
  BY <1>1, LiveFinite, FS_EmptySet DEF TableInv
<1> QED BY <1>1, <1>2, <1>3, <1>4, LiveFinite DEF TableInv

-----------------------------------------------------------------------------
\* The invariant survives CreateNewClient: the id on top of the stack leaves it,
\* or all ids are live and the next one is taken.
LEMMA CreateStep ==
  ASSUME TableInv, NEW fd \in Fd, Create(fd)
  PROVE  TableInv'
<1>1. /\ Live' = Live \cup {NewID} /\ NewID \in Index \ Live
      /\ Cardinality(Live') = Cardinality(Live) + 1
  BY CreateLive
<1>2. last_used_ip = -1 => last_data_fork < BUFSZ
  BY FreshID DEF Create
<1>3. Cardinality(Live) \in Nat
  BY LiveFinite DEF TableInv
<1>4. TableTypeOK'
  BY <1>1, <1>2, TableAssumption DEF TableInv, TableTypeOK, Create, Index
<1>5. Counted'
  BY <1>1, <1>3, TableAssumption DEF TableInv, TableTypeOK, Counted, Create
<1>6. Dead' = Dead \ {NewID}
  BY <1>1, <1>2, TableAssumption
     DEF TableInv, TableTypeOK, Create, Dead, Index, NewID
<1>7. Stacked'
  <2>1. CASE last_used_ip = -1
    <3>1. last_used_ip' = -1 /\ 0 .. last_used_ip = {} /\ 0 .. last_used_ip' = {}
      BY <2>1 DEF Create
    <3>2. Dead' = {}
      BY <1>6, <3>1 DEF TableInv, Stacked
    <3> QED BY <3>1, <3>2 DEF Stacked
  <2>2. CASE last_used_ip # -1
    <3>1. /\ last_used_ip \in Nat /\ last_used_ip' = last_used_ip - 1
          /\ NOT_USED_IDS' = NOT_USED_IDS
          /\ NewID = NOT_USED_IDS[last_used_ip]
      BY <2>2 DEF Create, NewID, TableInv, TableTypeOK
    <3>2. 0 .. last_used_ip' = (0 .. last_used_ip) \ {last_used_ip}
      BY <3>1
    <3> QED BY <1>6, <3>1, <3>2 DEF TableInv, Stacked
  <2> QED BY <2>1, <2>2
<1> QED BY <1>4, <1>5, <1>7 DEF TableInv

\* The invariant survives M_DeleteID: the stack has room, since the id given back
\* was live, and the id was not on it.
LEMMA DeleteStep ==
  ASSUME TableInv, NEW id \in Index, GetFD(id) # -1, Delete(id)
  PROVE  TableInv'
<1>1. /\ id \in Live /\ Live' = Live \ {id}
      /\ Cardinality(Live') = Cardinality(Live) - 1 /\ Cardinality(Live) >= 1
  BY DeleteLive
<1>2. Cardinality(Live) \in Nat
  BY LiveFinite DEF TableInv
<1> DEFINE top == last_used_ip + 1
<1>3. top \in Index /\ last_used_ip' = top /\ last_data_fork' = last_data_fork
  BY <1>1, <1>2, TableAssumption
     DEF TableInv, TableTypeOK, Counted, Delete, Index
<1>4. NOT_USED_IDS' = [NOT_USED_IDS EXCEPT ![top] = id]
  BY DEF Delete
<1>5. nfd' \in Nat
  BY <1>1, <1>2, TableAssumption DEF TableInv, TableTypeOK, Counted, Delete
<1>6. TableTypeOK'
  BY <1>3, <1>4, <1>5, TableAssumption DEF TableInv, TableTypeOK, Delete, Index
<1>7. Counted'
  BY <1>1, <1>2, <1>3, TableAssumption DEF TableInv, TableTypeOK, Counted, Delete
<1>8. Dead' = Dead \cup {id} /\ id \notin Dead
  BY <1>1, <1>3 DEF TableInv, TableTypeOK, Delete, Dead, Live, Index
<1>9. Stacked'
  <2>1. 0 .. top = (0 .. last_used_ip) \cup {top} /\ top \notin 0 .. last_used_ip
    BY <1>3 DEF TableInv, TableTypeOK
  <2>2. 0 .. last_used_ip \subseteq Index
    BY TableAssumption DEF TableInv, TableTypeOK, Index
  <2>3. /\ NOT_USED_IDS'[top] = id
        /\ \A i \in 0 .. last_used_ip : NOT_USED_IDS'[i] = NOT_USED_IDS[i]
    BY <1>3, <1>4, <2>1, <2>2 DEF TableInv, TableTypeOK
  <2> QED BY <1>3, <1>8, <2>1, <2>3 DEF TableInv, Stacked
<1> QED BY <1>6, <1>7, <1>9 DEF TableInv

\* The invariant holds of the empty table.
LEMMA TableStart == TableInit => TableInv
<1> SUFFICES ASSUME TableInit PROVE TableInv
  OBVIOUS
<1>1. Live = {} /\ Dead = {} /\ 0 .. last_used_ip = {}
  BY DEF TableInit, Live, Dead, Index
<1>2. Cardinality(Live) = 0
  BY <1>1, FS_EmptySet
<1>3. TableTypeOK
  BY TableAssumption DEF TableInit, TableTypeOK, Index
<1>4. Counted
  BY <1>2, TableAssumption DEF TableInit, Counted
<1>5. Stacked
  BY <1>1 DEF Stacked
<1> QED BY <1>3, <1>4, <1>5 DEF TableInv

\* Every step keeps the invariant.
LEMMA TableStep == TableInv /\ [TableNext]_table => TableInv'
<1> SUFFICES ASSUME TableInv, [TableNext]_table PROVE TableInv'
  OBVIOUS
<1>1. ASSUME NEW fd \in Fd, Create(fd) PROVE TableInv'
  BY <1>1, CreateStep
<1>2. ASSUME NEW id \in Index, GetFD(id) # -1, Delete(id) PROVE TableInv'
  BY <1>2, DeleteStep
<1>3. CASE UNCHANGED table
  BY <1>3 DEF table, TableInv, TableTypeOK, Counted, Stacked, Dead, Live
<1> QED BY <1>1, <1>2, <1>3 DEF TableNext

\* TableInv is inductive.
LEMMA TableInvariant == TableSpec => []TableInv
BY TableStart, TableStep, PTL DEF TableSpec

-----------------------------------------------------------------------------
\* Both arrays are long enough for every client the descriptors allow, and the
\* server spends the descriptors it is said to (ID.c:17-18, 41-42, server.c:93-113).
THEOREM Bounded == TableSpec => []TableBounded
<1>1. TableInv => TableBounded
  BY TableAssumption DEF TableInv, TableTypeOK, Counted, TableBounded
<1> QED BY <1>1, TableInvariant, PTL

\* The stack of free ids is exactly the ids that were given back, each of them once
\* (ID.c:22-28, 39-42).
THEOREM FreeList == TableSpec => []FreeListExact
<1>1. TableInv => FreeListExact
  BY DEF TableInv, Stacked, FreeListExact, Dead
<1> QED BY <1>1, TableInvariant, PTL

\* The table implements the allocator of ids: M_CreateID_FromFD never returns an id
\* that a client holds, and an id keeps its pipe until M_DeleteID (ID.c:10-43).
THEOREM Exclusive == TableSpec => IdsAreExclusive
<1> DEFINE pipes == [i \in Live |-> IDS[i]]
<1>1. TableInit => Allocator!Init
  <2> SUFFICES ASSUME TableInit PROVE Allocator!Init
    OBVIOUS
  <2>1. Live = {}
    BY DEF TableInit, Live, Index
  <2> QED BY <2>1 DEF Allocator!Init
<1>2. TableInv /\ [TableNext]_table => [Allocator!Next]_pipes
  <2> SUFFICES ASSUME TableInv, [TableNext]_table PROVE [Allocator!Next]_pipes
    OBVIOUS
  <2>1. ASSUME NEW fd \in Fd, Create(fd) PROVE Allocator!Next
    <3>1. Live' = Live \cup {NewID} /\ NewID \in Index \ Live
      BY <2>1, CreateLive
    <3>2. \A i \in Index : IDS'[i] = IF i = NewID THEN fd ELSE IDS[i]
      BY <2>1 DEF Create, TableInv, TableTypeOK
    <3>3. Live \subseteq Index
      BY DEF Live
    <3>4. pipes' = [j \in Live \cup {NewID} |-> IF j = NewID THEN fd ELSE pipes[j]]
      BY <3>1, <3>2, <3>3
    <3>5. \A j \in Live : pipes[j] # fd
      BY <2>1 DEF Create
    <3>6. Allocator!Allocate(NewID, fd)
      BY <3>1, <3>4, <3>5 DEF Allocator!Allocate, Allocator!Held
    <3> QED BY <3>1, <3>6 DEF Allocator!Next
  <2>2. ASSUME NEW id \in Index, GetFD(id) # -1, Delete(id) PROVE Allocator!Next
    <3>1. id \in Live /\ Live' = Live \ {id}
      BY <2>2, DeleteLive
    <3>2. \A i \in Live \ {id} : IDS'[i] = IDS[i]
      BY <2>2 DEF Delete, Live, TableInv, TableTypeOK
    <3>3. pipes' = [j \in Live \ {id} |-> pipes[j]]
      BY <3>1, <3>2
    <3>4. Allocator!Release(id)
      BY <3>1, <3>3 DEF Allocator!Release, Allocator!Held
    <3> QED BY <3>4 DEF Allocator!Next
  <2>3. CASE UNCHANGED table
    <3>1. Live' = Live /\ IDS' = IDS
      BY <2>3 DEF table, Live
    <3> QED BY <3>1
  <2> QED BY <2>1, <2>2, <2>3 DEF TableNext
<1> QED BY <1>1, <1>2, TableInvariant, PTL
        DEF TableSpec, IdsAreExclusive, Allocator!Spec

-----------------------------------------------------------------------------
(* The server. *)

\* The types of all variables and what keeps the table in order.
TypeInv == TypeOK /\ TableInv

-----------------------------------------------------------------------------
\* sendto leaves datagrams in the socket.
LEMMA SendToType ==
  ASSUME NetTypeOK, NEW c \in Client, NEW kind \in {"id", "size", "data"},
         NEW id \in Index \cup {-1}, cmd'[c] \in Payload, SendTo(c, kind, id)
  PROVE  sock' \in Seq(Datagram) /\ lost' \in 0 .. MaxLoss
<1> DEFINE d == [from |-> c, kind |-> kind, id |-> id, what |-> cmd'[c]]
<1>1. d \in Datagram
  BY DEF Datagram
<1>2. CASE sock' = Append(sock, d) /\ UNCHANGED lost
  BY <1>1, <1>2, AppendProperties DEF NetTypeOK
<1>3. CASE lost < MaxLoss /\ lost' = lost + 1 /\ UNCHANGED sock
  BY <1>3, UdpAssumption DEF NetTypeOK
<1> QED BY <1>2, <1>3 DEF SendTo

\* A slave's replies are answers in the client's socket.
LEMMA ReplyType ==
  ASSUME NetTypeOK, NEW fd \in Fd, NEW rs \in Seq(Answer), Reply(fd, rs)
  PROVE  inbox' \in [Client -> Seq(Answer)]
<1>1. CASE inbox' = inbox
  BY <1>1 DEF NetTypeOK
<1>2. CASE inbox' = [inbox EXCEPT ![addr[fd]] = @ \o rs]
  <2>1. \A c \in Client : inbox[c] \o rs \in Seq(Answer)
    BY ConcatProperties DEF NetTypeOK
  <2> QED BY <1>2, <2>1 DEF NetTypeOK
<1> QED BY <1>1, <1>2 DEF Reply

\* The replies that are not ids.
LEMMA LiteralType ==
  /\ Text \in Answer /\ Half \in Answer
  /\ <<Text>> \in Seq(Answer) /\ <<Half>> \in Seq(Answer) /\ <<>> \in Seq(Answer)
  /\ <<Text>> \o <<>> \in Seq(Answer) /\ <<Text>> \o <<Text>> \in Seq(Answer)
<1>1. 0 \in Index
  BY TableAssumption DEF Index
<1>2. Text \in Answer /\ Half \in Answer
  BY <1>1 DEF Text, Half, Answer
<1>3. /\ <<Text>> \in Seq(Answer) /\ <<Half>> \in Seq(Answer)
      /\ <<>> \in Seq(Answer)
  BY <1>2
<1> QED BY <1>2, <1>3, ConcatProperties

\* The end of the server leaves messages in the pipes.
LEMMA StopType ==
  ASSUME SlaveTypeOK, NEW reason, Stop(reason)
  PROVE  SlaveTypeOK' /\ UNCHANGED table
<1>1. Order \in Passed
  BY DEF Passed, Payload, Commands, Order
<1>2. \A fd \in Fd : Append(pipe[fd], Order) \in Seq(Passed)
  BY <1>1, AppendProperties DEF SlaveTypeOK
<1>3. pipe' \in [Fd -> Seq(Passed)]
  BY <1>2 DEF Stop, SlaveTypeOK
<1> QED BY <1>3 DEF Stop, SlaveTypeOK

\* A slave that takes a message leaves messages in its pipe.
LEMMA TakeType ==
  ASSUME SlaveTypeOK, NEW fd \in Fd, Take(fd)
  PROVE  pipe' \in [Fd -> Seq(Passed)] /\ told' \subseteq Fd
<1>1. Tail(pipe[fd]) \in Seq(Passed)
  BY HeadTailProperties DEF Take, SlaveTypeOK
<1> QED BY <1>1 DEF Take, SlaveTypeOK

\* recvfrom gives the server a datagram and its sender.
LEMMA RecvType ==
  ASSUME NetTypeOK, NEW at, Recv(at)
  PROVE  Head(sock) \in Datagram /\ sock' \in Seq(Datagram) /\ name' \in Client
<1>1. Head(sock) \in Datagram /\ Tail(sock) \in Seq(Datagram)
  BY HeadTailProperties DEF Recv, NetTypeOK
<1> QED BY <1>1 DEF Recv, Datagram

-----------------------------------------------------------------------------
\* The clients keep the types and leave the table alone.
LEMMA ClientTypes ==
  ASSUME TypeInv, NEW c \in Client, User(c) \/ ClientStep(c)
  PROVE  TypeOK' /\ UNCHANGED table
<1> USE DEF TypeInv
<1>a. TableTypeOK /\ NetTypeOK /\ ClientTypeOK /\ ServerTypeOK /\ SlaveTypeOK
  BY DEF TypeOK
<1>b. 0 \in Index \cup {-1} /\ -1 \in Index \cup {-1}
  BY TableAssumption DEF Index
<1>c. ASSUME UNCHANGED <<table, serverVars, slaveVars>>
      PROVE  TableTypeOK' /\ ServerTypeOK' /\ SlaveTypeOK'
  BY <1>a, <1>c
     DEF table, serverVars, slaveVars, TableTypeOK, ServerTypeOK, SlaveTypeOK
<1>d. ASSUME UNCHANGED cmd, NEW kind \in {"id", "size", "data"},
             NEW id \in Index \cup {-1}, SendTo(c, kind, id)
      PROVE  sock' \in Seq(Datagram) /\ lost' \in 0 .. MaxLoss
  <2>1. cmd'[c] \in Payload
    BY <1>a, <1>d DEF ClientTypeOK
  <2> QED BY <1>a, <1>d, <2>1, SendToType
<1>1. CASE GetID(c)
  <2>1. sock' \in Seq(Datagram) /\ lost' \in 0 .. MaxLoss
    BY <1>1, <1>b, <1>d DEF GetID
  <2> QED BY <1>a, <1>c, <1>1, <2>1
          DEF TypeOK, GetID, NetTypeOK, ClientTypeOK
<1>2. ASSUME NEW w \in Typed, Type(c, w) PROVE TypeOK' /\ UNCHANGED table
  <2>1. w \in Payload
    BY UdpAssumption DEF Payload
  <2>2. cmd' \in [Client -> Payload] /\ sent' \in [Client -> 0 .. MaxSends]
    BY <1>a, <1>2, <2>1, UdpAssumption DEF Type, ClientTypeOK
  <2>3. cid[c] \in Index \cup {-1}
    BY <1>a DEF ClientTypeOK
  <2>4. sock' \in Seq(Datagram) /\ lost' \in 0 .. MaxLoss
    BY <1>a, <1>2, <2>2, <2>3, SendToType DEF Type
  <2> QED BY <1>a, <1>c, <1>2, <2>2, <2>4
          DEF TypeOK, Type, NetTypeOK, ClientTypeOK
<1>3. CASE SendSize(c)
  <2>1. sock' \in Seq(Datagram) /\ lost' \in 0 .. MaxLoss
    BY <1>3, <1>b, <1>d DEF SendSize
  <2> QED BY <1>a, <1>c, <1>3, <2>1
          DEF TypeOK, SendSize, NetTypeOK, ClientTypeOK
<1>4. CASE SendData(c)
  <2>1. sock' \in Seq(Datagram) /\ lost' \in 0 .. MaxLoss
    BY <1>4, <1>b, <1>d DEF SendData
  <2>2. inbox' \in [Client -> Seq(Answer)]
    BY <1>a, <1>4, LiteralType DEF SendData, NetTypeOK
  <2> QED BY <1>a, <1>c, <1>4, <2>1, <2>2
          DEF TypeOK, SendData, NetTypeOK, ClientTypeOK
<1>5. CASE Receive(c)
  <2>1. Head(inbox[c]) \in Answer /\ Tail(inbox[c]) \in Seq(Answer)
    BY <1>a, <1>5, HeadTailProperties DEF Receive, NetTypeOK
  <2>2. Head(inbox[c]).id \in Index
    BY <2>1 DEF Answer
  <2> QED BY <1>a, <1>c, <1>5, <2>1, <2>2
          DEF TypeOK, Receive, NetTypeOK, ClientTypeOK
<1>6. CASE EndOfInput(c)
  <2>1. inbox' \in [Client -> Seq(Answer)]
    BY <1>a, <1>6, LiteralType DEF EndOfInput, NetTypeOK
  <2> QED BY <1>a, <1>c, <1>6, <2>1
          DEF TypeOK, EndOfInput, NetTypeOK, ClientTypeOK
<1> QED BY <1>1, <1>2, <1>3, <1>4, <1>5, <1>6 DEF User, ClientStep

\* The server keeps the types and uses the table as the table allows: a client is
\* created with an unused pipe, and an id is deleted after GetFD has found it.
LEMMA ServerTypes ==
  ASSUME TypeInv, ServerStep
  PROVE  TypeOK' /\ [TableNext]_table
<1> USE DEF TypeInv
<1>a. TableTypeOK /\ NetTypeOK /\ ClientTypeOK /\ ServerTypeOK /\ SlaveTypeOK
  BY DEF TypeOK
<1>b. ASSUME UNCHANGED <<lost, clientVars, inbox>>, sock' \in Seq(Datagram)
      PROVE  NetTypeOK' /\ ClientTypeOK'
  BY <1>a, <1>b DEF clientVars, NetTypeOK, ClientTypeOK
<1>c. ASSUME UNCHANGED table PROVE TableTypeOK'
  BY <1>a, <1>c DEF table, TableTypeOK
<1>d. ASSUME UNCHANGED slaveVars PROVE SlaveTypeOK'
  BY <1>a, <1>d DEF slaveVars, SlaveTypeOK
<1>e. ASSUME Running PROVE NetTypeOK' /\ ClientTypeOK'
  BY <1>a, <1>b, <1>e DEF Running, NetTypeOK
<1>f. ASSUME Running, spc' \in {"id", "dead"},
             why' \in {"none", "asked", "misframed", "descriptors", "unknown id"}
      PROVE  ServerTypeOK'
  BY <1>a, <1>f DEF Running, ServerTypeOK
<1>1. CASE ReadId
  <2>1. Head(sock) \in Datagram /\ sock' \in Seq(Datagram) /\ name' \in Client
    BY <1>a, <1>1, RecvType DEF ReadId
  <2>2. in' \in [id : -1 .. BUFSZ, what : Payload]
    <3>1. PICK i \in IF Head(sock).kind = "id" THEN {Head(sock).id} ELSE 0 .. BUFSZ :
            in' = [id |-> i, what |-> "junk"]
      BY <1>1 DEF ReadId
    <3>2. i \in -1 .. BUFSZ
      BY <2>1, <3>1, TableAssumption DEF Datagram, Index
    <3> QED BY <3>1, <3>2 DEF Payload
  <2>3. ServerTypeOK'
    BY <1>a, <1>1, <2>1, <2>2 DEF ReadId, ServerTypeOK
  <2> QED BY <1>b, <1>c, <1>d, <1>1, <2>1, <2>3 DEF ReadId, TypeOK
<1>2. CASE ReadSize
  <2>1. Head(sock) \in Datagram /\ sock' \in Seq(Datagram) /\ name' \in Client
    BY <1>a, <1>2, RecvType DEF ReadSize
  <2>2. NetTypeOK' /\ ClientTypeOK'
    BY <1>b, <1>2, <2>1 DEF ReadSize
  <2>3. CASE /\ in' = [in EXCEPT !.what = IF Head(sock).kind = "size"
                                          THEN Head(sock).what ELSE "junk"]
             /\ spc' = "data"
             /\ UNCHANGED <<table, why, slaveVars>>
    <3>1. in' \in [id : -1 .. BUFSZ, what : Payload]
      BY <1>a, <2>1, <2>3 DEF ServerTypeOK, Datagram, Payload
    <3>2. ServerTypeOK'
      BY <1>a, <2>1, <2>3, <3>1 DEF ServerTypeOK
    <3> QED BY <1>c, <1>d, <2>2, <2>3, <3>2 DEF TypeOK
  <2>4. CASE UNCHANGED in /\ Stop("misframed")
    <3>1. SlaveTypeOK' /\ UNCHANGED table
      BY <1>a, <2>4, StopType
    <3>2. ServerTypeOK'
      BY <1>a, <2>1, <2>4 DEF ServerTypeOK, Stop
    <3> QED BY <1>c, <2>2, <3>1, <3>2 DEF TypeOK
  <2> QED BY <1>2, <2>3, <2>4 DEF ReadSize
<1>3. CASE ReadData
  <2>1. Head(sock) \in Datagram /\ sock' \in Seq(Datagram) /\ name' \in Client
    BY <1>a, <1>3, RecvType DEF ReadData
  <2>2. in' \in [id : -1 .. BUFSZ, what : Payload]
    <3>1. PICK w \in {"junk", Head(sock).what} : in' = [in EXCEPT !.what = w]
      BY <1>3 DEF ReadData
    <3>2. w \in Payload
      BY <2>1, <3>1 DEF Datagram, Payload
    <3> QED BY <1>a, <3>1, <3>2 DEF ServerTypeOK
  <2>3. ServerTypeOK'
    BY <1>a, <1>3, <2>1, <2>2 DEF ReadData, ServerTypeOK
  <2> QED BY <1>b, <1>c, <1>d, <1>3, <2>1, <2>3 DEF ReadData, TypeOK
<1>4. ASSUME NEW reason \in {"asked", "descriptors", "unknown id"},
             Running, Stop(reason)
      PROVE  TypeOK' /\ UNCHANGED table
  <2>1. SlaveTypeOK' /\ UNCHANGED table
    BY <1>a, <1>4, StopType
  <2>2. ServerTypeOK'
    BY <1>f, <1>4 DEF Stop
  <2> QED BY <1>c, <1>e, <1>4, <2>1, <2>2 DEF TypeOK
<1>5. CASE CloseServer
  BY <1>4, <1>5 DEF CloseServer
<1>6. CASE NewClient
  <2>1. CASE ~CanPipe /\ Stop("descriptors")
    BY <1>4, <1>6, <2>1 DEF NewClient
  <2>2. ASSUME NEW fd \in Fd, Create(fd),
               \E s \in {"start", "dead"} : slave' = [slave EXCEPT ![fd] = s],
               addr' = [addr EXCEPT ![fd] = name],
               sid' = [sid EXCEPT ![fd] = NewID],
               spc' = "id", UNCHANGED <<why, pipe, told>>
        PROVE  TypeOK' /\ [TableNext]_table
    <3>1. TableNext
      BY <2>2 DEF TableNext
    <3>2. TableTypeOK'
      BY <3>1, TableStep DEF TableInv
    <3>3. NewID \in Index
      BY <2>2, CreateLive
    <3>4. SlaveTypeOK'
      BY <1>a, <2>2, <3>3 DEF SlaveTypeOK, ServerTypeOK
    <3>5. ServerTypeOK'
      BY <1>a, <1>6, <2>2 DEF ServerTypeOK, NewClient, Running
    <3>6. Running
      BY <1>6 DEF NewClient
    <3> QED BY <1>e, <3>1, <3>2, <3>4, <3>5, <3>6 DEF TypeOK
  <2> QED BY <1>6, <2>1, <2>2 DEF NewClient
<1>7. CASE WriteMessage
  <2>1. Running
    BY <1>7 DEF WriteMessage
  <2>2. [TableNext]_table
    <3>1. CASE UNCHANGED table
      BY <3>1
    <3>2. CASE Delete(in.id)
      <4>1. in.id \in Index
        <5>0. in.id \in -1 .. BUFSZ
          BY <1>a DEF ServerTypeOK
        <5>1. in.id \in Int /\ GetFD(in.id) # -1
          BY <1>7, <5>0, TableAssumption DEF WriteMessage
        <5>2. 0 <= in.id /\ in.id < last_data_fork
          BY <1>a, <5>1, TableAssumption DEF GetFD, TableTypeOK
        <5> QED BY <1>a, <5>1, <5>2, TableAssumption DEF TableTypeOK, Index
      <4> QED BY <1>7, <3>2, <4>1 DEF WriteMessage, TableNext
    <3> QED BY <1>7, <3>1, <3>2 DEF WriteMessage
  <2>3. TableTypeOK'
    BY <2>2, TableStep DEF TableInv
  <2>4. ASSUME NEW fd, NEW w \in Payload, Write(fd, w)
        PROVE  pipe' \in [Fd -> Seq(Passed)]
    <3>1. [from |-> name, what |-> w] \in Passed
      BY <1>a DEF Passed, ServerTypeOK
    <3>2. \A f \in Fd :
            Append(pipe[f], [from |-> name, what |-> w]) \in Seq(Passed)
      BY <1>a, <3>1, AppendProperties DEF SlaveTypeOK
    <3> QED BY <1>a, <2>4, <3>2 DEF Write, SlaveTypeOK
  <2>5. What \in Payload /\ "CLOSE_SERVER" \in Payload
    BY <1>a DEF ServerTypeOK, What, Payload, Commands
  <2>6. pipe' \in [Fd -> Seq(Passed)]
    BY <1>7, <2>4, <2>5 DEF WriteMessage
  <2>7. SlaveTypeOK' /\ ServerTypeOK'
    BY <1>a, <1>7, <2>1, <2>6 DEF WriteMessage, Running, SlaveTypeOK, ServerTypeOK
  <2> QED BY <1>e, <2>1, <2>2, <2>3, <2>7 DEF TypeOK
<1>8. CASE UnknownID
  BY <1>4, <1>8 DEF UnknownID
<1> QED BY <1>1, <1>2, <1>3, <1>5, <1>6, <1>7, <1>8 DEF ServerStep

\* The slaves keep the types and know nothing of the table.
LEMMA SlaveTypes ==
  ASSUME TypeInv, NEW fd \in Fd, SlaveStep(fd) \/ SlaveEndOfPipe(fd)
  PROVE  TypeOK' /\ UNCHANGED table
<1> USE DEF TypeInv
<1>a. TableTypeOK /\ NetTypeOK /\ ClientTypeOK /\ ServerTypeOK /\ SlaveTypeOK
  BY DEF TypeOK
<1>b. UNCHANGED <<table, sock, lost, clientVars, serverVars, addr, sid>>
  BY DEF SlaveStep, SlaveStart, SlaveClose, SlaveCommand, SlaveBash, SlaveShell,
         SlaveEndOfPipe, Take
<1>c. TableTypeOK' /\ ClientTypeOK' /\ ServerTypeOK'
  BY <1>a, <1>b DEF table, clientVars, serverVars, TableTypeOK, ClientTypeOK,
                    ServerTypeOK
<1>d. pipe' \in [Fd -> Seq(Passed)] /\ told' \subseteq Fd
  <2>1. CASE UNCHANGED <<pipe, told>>
    BY <1>a, <2>1 DEF SlaveTypeOK
  <2>2. CASE Take(fd)
    BY <1>a, <2>2, TakeType
  <2> QED BY <2>1, <2>2 DEF SlaveStep, SlaveStart, SlaveClose, SlaveCommand,
                            SlaveBash, SlaveShell, SlaveEndOfPipe
<1>e. slave' \in [Fd -> {"none", "start", "loop", "bash", "spin", "hung", "dead"}]
  BY <1>a DEF SlaveTypeOK, SlaveStep, SlaveStart, SlaveClose, SlaveCommand,
              SlaveBash, SlaveShell, SlaveEndOfPipe, ReplyLiteral, Becomes, ShellOutcome
<1>f. inbox' \in [Client -> Seq(Answer)]
  <2>1. CASE UNCHANGED inbox
    BY <1>a, <2>1 DEF NetTypeOK
  <2>2. CASE SlaveStart(fd)
    <3>1. <<[kind |-> "id", id |-> sid[fd]]>> \in Seq(Answer)
      BY <1>a DEF SlaveTypeOK, Answer
    <3> QED BY <1>a, <2>2, <3>1, ReplyType DEF SlaveStart
  <2>3. ASSUME NEW rs \in {<<Text>>, <<Half>>, <<Text>> \o <<>>,
                           <<Text>> \o <<Text>>}, Reply(fd, rs)
        PROVE  inbox' \in [Client -> Seq(Answer)]
    BY <1>a, <2>3, ReplyType, LiteralType
  <2> QED BY <2>1, <2>2, <2>3 DEF SlaveStep, SlaveClose, SlaveCommand, SlaveBash,
                                  SlaveShell, SlaveEndOfPipe, ReplyLiteral
<1> QED BY <1>a, <1>b, <1>c, <1>d, <1>e, <1>f DEF TypeOK, NetTypeOK, SlaveTypeOK

-----------------------------------------------------------------------------
\* Every step keeps the types and is a step of the table or leaves it alone.
LEMMA TypeStep ==
  TypeInv /\ [Next]_vars => TypeInv' /\ [TableNext]_table
<1> SUFFICES ASSUME TypeInv, [Next]_vars PROVE TypeOK' /\ [TableNext]_table
  BY TableStep DEF TypeInv
<1>1. CASE UNCHANGED vars
  BY <1>1 DEF TypeInv, vars, table, clientVars, serverVars, slaveVars, TypeOK,
              TableTypeOK, NetTypeOK, ClientTypeOK, ServerTypeOK, SlaveTypeOK
<1> QED BY <1>1, ClientTypes, ServerTypes, SlaveTypes DEF Next

\* The server starts with values of the types.
LEMMA TypeStart == Init => TypeInv
<1> SUFFICES ASSUME Init PROVE TypeInv
  OBVIOUS
<1>1. TableInv
  BY TableStart DEF Init
<1>2. 0 \in Index /\ 0 \in 0 .. MaxLoss /\ 0 \in 0 .. MaxSends
  BY TableAssumption, UdpAssumption DEF Index
<1>3. NetTypeOK /\ ClientTypeOK
  BY <1>2 DEF Init, NetTypeOK, ClientTypeOK, Payload
<1>4. ServerTypeOK
  BY TableAssumption DEF Init, ServerTypeOK, Payload
<1>5. SlaveTypeOK
  BY <1>2 DEF Init, SlaveTypeOK
<1> QED BY <1>1, <1>3, <1>4, <1>5 DEF TypeInv, TypeOK, TableInv

\* TypeInv is inductive.
LEMMA TypeInvariant == Spec => []TypeInv
BY TypeStart, TypeStep, PTL DEF Spec

\* Every variable of the server, its clients and its slaves keeps its type.
THEOREM TypeCorrect == Spec => []TypeOK
<1>1. TypeInv => TypeOK
  BY DEF TypeInv
<1> QED BY <1>1, TypeInvariant, PTL

\* The server uses the table of clients as the specification of the table allows,
\* whatever arrives in its socket (server.c:91-145).
THEOREM UsesTable == Spec => TableSpec
<1>1. Init => TableInit
  BY DEF Init
<1> QED BY <1>1, TypeStart, TypeStep, PTL DEF Spec, TableSpec

\* In the server, too, the free ids are exactly those given back.
THEOREM ServerFreeList == Spec => []FreeListExact
BY UsesTable, FreeList, PTL

\* In the server, too, neither array of the table overflows.
THEOREM ServerBounded == Spec => []TableBounded
BY UsesTable, Bounded, PTL

\* In the server, too, no id is given to a client while another holds it.
THEOREM ServerExclusive == Spec => IdsAreExclusive
BY UsesTable, Exclusive

-----------------------------------------------------------------------------
\* A pipe in the table has a slave, or had one.
Started == \A i \in Live : IDS[i] \in Fd /\ slave[IDS[i]] # "none"

\* While the server runs, nobody has its order to close: what it passes on is from a client.
NoOrder ==
  /\ spc # "dead" => told = {} /\ \A fd \in Fd : \A k \in DOMAIN pipe[fd] : pipe[fd][k] # Order
  /\ spc \in {"size", "data", "run"} => name \in Client

ShutdownInv == TypeInv /\ Started /\ NoOrder /\ ShutdownReachesSlaves

\* When the server stops, the order to close is the last message in the pipe of
\* every client in the table.
LEMMA StopReaches ==
  ASSUME ShutdownInv, NEW reason, Stop(reason)
  PROVE  Started' /\ NoOrder' /\ ShutdownReachesSlaves'
<1>1. /\ Live' = Live /\ IDS' = IDS /\ slave' = slave /\ spc' = "dead"
      /\ \A fd \in Fd : pipe[fd] \in Seq(Passed)
  BY DEF Stop, table, Live, ShutdownInv, TypeInv, TypeOK, SlaveTypeOK
<1>2. Started' /\ NoOrder'
  BY <1>1 DEF ShutdownInv, Started, NoOrder
<1>3. Order \in Passed
  BY DEF Passed, Payload, Commands, Order
<1>4. ASSUME NEW i \in Live
      PROVE  pipe'[IDS[i]] # <<>> /\ pipe'[IDS[i]][Len(pipe'[IDS[i]])] = Order
  <2> DEFINE fd == IDS[i]
  <2>1. fd \in Fd
    BY DEF ShutdownInv, Started
  <2>2. pipe'[fd] = Append(pipe[fd], Order)
    BY <2>1 DEF Stop
  <2>3. /\ Len(pipe'[fd]) = Len(pipe[fd]) + 1 /\ Len(pipe[fd]) \in Nat
        /\ pipe'[fd][Len(pipe[fd]) + 1] = Order /\ pipe'[fd] \in Seq(Passed)
    BY <1>1, <1>3, <2>1, <2>2, AppendProperties, LenProperties
  <2>4. pipe'[fd] # <<>>
    BY <2>3, EmptySeq
  <2> QED BY <2>3, <2>4
<1>5. Order' = Order
  BY DEF Order
<1> QED BY <1>1, <1>2, <1>4, <1>5 DEF ShutdownReachesSlaves

\* What the server passes on is not its order.
LEMMA WriteNoOrder ==
  ASSUME ShutdownInv, spc = "run", NEW fd \in Fd, NEW w \in Payload, Write(fd, w)
  PROVE  \A f \in Fd : \A k \in DOMAIN pipe'[f] : pipe'[f][k] # Order
<1> DEFINE m == [from |-> name, what |-> w]
<1>1. /\ pipe \in [Fd -> Seq(Passed)] /\ name \in Client
      /\ \A f \in Fd : \A k \in DOMAIN pipe[f] : pipe[f][k] # Order
  BY DEF ShutdownInv, TypeInv, TypeOK, SlaveTypeOK, NoOrder
<1>2. m \in Passed /\ m # Order
  <2>1. name # NoClient
    BY <1>1, UdpAssumption
  <2>2. m.from = name /\ Order.from = NoClient
    BY DEF Order
  <2> QED BY <1>1, <2>1, <2>2 DEF Passed
<1>3. ASSUME NEW k \in DOMAIN pipe'[fd] PROVE pipe'[fd][k] # Order
  <2> DEFINE q == pipe[fd]
  <2>1. q \in Seq(Passed) /\ pipe'[fd] = Append(q, m)
    BY <1>1 DEF Write
  <2>2. /\ k \in 1 .. Len(q) + 1 /\ Len(q) \in Nat /\ Append(q, m)[Len(q) + 1] = m
        /\ \A i \in 1 .. Len(q) : Append(q, m)[i] = q[i]
    BY <1>2, <1>3, <2>1, AppendProperties, LenProperties
  <2>3. \A i \in 1 .. Len(q) : q[i] # Order
    BY <1>1, <2>1
  <2> QED BY <1>2, <2>1, <2>2, <2>3
<1>4. \A f \in Fd \ {fd} : pipe'[f] = pipe[f]
  BY <1>1 DEF Write
<1> QED BY <1>1, <1>3, <1>4

\* Only a server that runs takes steps, and it either stops or runs on.
LEMMA ServerReaches ==
  ASSUME ShutdownInv, ServerStep
  PROVE  Started' /\ NoOrder' /\ ShutdownReachesSlaves'
<1>1. CASE \E reason : Stop(reason)
  BY <1>1, StopReaches
<1>0. spc # "dead" /\ told = {} /\ Order' = Order
      /\ \A fd \in Fd : \A k \in DOMAIN pipe[fd] : pipe[fd][k] # Order
  <2>1. spc # "dead"
    BY DEF ServerStep, ReadId, ReadSize, ReadData, Recv, CloseServer, NewClient, WriteMessage,
           UnknownID, Running
  <2> QED BY <2>1 DEF ShutdownInv, NoOrder, Order
<1>3. CASE ReadId \/ ReadSize \/ ReadData
  <2>1. spc' # "dead" => UNCHANGED <<table, slaveVars>>
    BY <1>3 DEF ReadId, ReadSize, ReadData, Stop
  <2>2. name' \in Client
    BY <1>3, RecvType DEF ReadId, ReadSize, ReadData, ShutdownInv, TypeInv, TypeOK
  <2>3. spc' # "dead" => Started' /\ NoOrder' /\ ShutdownReachesSlaves'
    <3> SUFFICES ASSUME spc' # "dead" PROVE Started' /\ NoOrder' /\ ShutdownReachesSlaves'
      OBVIOUS
    <3>1. /\ slave' = slave /\ pipe' = pipe /\ told' = told /\ IDS' = IDS /\ Live' = Live
      BY <2>1 DEF slaveVars, table, Live
    <3>2. Started'
      BY <3>1 DEF ShutdownInv, Started
    <3>3. NoOrder'
      BY <1>0, <2>2, <3>1 DEF NoOrder
    <3> QED BY <1>0, <3>1, <3>2, <3>3 DEF ShutdownReachesSlaves
  <2>4. spc' = "dead" => \E reason : Stop(reason)
    BY <1>3 DEF ReadId, ReadSize, ReadData
  <2> QED BY <1>1, <2>3, <2>4
<1>4. CASE CloseServer \/ UnknownID
  BY <1>1, <1>4 DEF CloseServer, UnknownID
<1>5. CASE NewClient
  <2>1. ASSUME NEW fd \in Fd, Create(fd),
               \E s \in {"start", "dead"} : slave' = [slave EXCEPT ![fd] = s],
               spc' = "id", UNCHANGED <<pipe, told>>
        PROVE  Started' /\ NoOrder' /\ ShutdownReachesSlaves'
    <3>1. Live' = Live \cup {NewID} /\ NewID \in Index \ Live
      BY <2>1, CreateLive DEF ShutdownInv, TypeInv
    <3>2. \A i \in Index : IDS'[i] = IF i = NewID THEN fd ELSE IDS[i]
      BY <2>1 DEF Create, ShutdownInv, TypeInv, TableInv, TableTypeOK
    <3>3. \A f \in Fd : slave[f] # "none" \/ f = fd => slave'[f] # "none"
      BY <2>1 DEF ShutdownInv, TypeInv, TypeOK, SlaveTypeOK
    <3>4. Live \subseteq Index
      BY DEF Live
    <3>5. Started'
      BY <2>1, <3>1, <3>2, <3>3, <3>4 DEF ShutdownInv, Started
    <3>6. NoOrder'
      BY <1>0, <2>1 DEF NoOrder
    <3> QED BY <1>0, <2>1, <3>5, <3>6 DEF ShutdownReachesSlaves
  <2> QED BY <1>1, <1>5, <2>1 DEF NewClient
<1>6. CASE WriteMessage
  <2>1. spc' = "id" /\ slave' = slave /\ told' = told /\ spc = "run"
    BY <1>6 DEF WriteMessage, Running
  <2>2. Live' \subseteq Live /\ \A i \in Live' : IDS'[i] = IDS[i]
    <3>1. CASE UNCHANGED table
      BY <3>1 DEF table, Live
    <3>2. CASE Delete(in.id)
      BY <3>2 DEF Delete, Live, ShutdownInv, TypeInv, TableInv, TableTypeOK
    <3> QED BY <1>6, <3>1, <3>2 DEF WriteMessage
  <2>3. Started'
    BY <2>1, <2>2 DEF ShutdownInv, Started
  <2>4. \A fd \in Fd : \A k \in DOMAIN pipe'[fd] : pipe'[fd][k] # Order
    <3>1. GetFD(in.id) \in Fd
      <4>0. in.id \in -1 .. BUFSZ /\ last_data_fork \in 0 .. BUFSZ
        BY DEF ShutdownInv, TypeInv, TableInv, TableTypeOK, TypeOK, ServerTypeOK
      <4>1. in.id \in Int /\ last_data_fork \in 0 .. BUFSZ /\ BUFSZ \in Nat
        BY <4>0, TableAssumption
      <4>2. GetFD(in.id) # -1
        BY <1>6 DEF WriteMessage
      <4>3. 0 <= in.id /\ in.id < last_data_fork
        BY <4>1, <4>2 DEF GetFD
      <4>4. in.id \in Index
        BY <4>1, <4>3, TableAssumption DEF Index
      <4>5. GetFD(in.id) = IDS[in.id]
        BY <4>1, <4>3 DEF GetFD
      <4>6. in.id \in Live
        BY <4>2, <4>3, <4>4, <4>5 DEF Live
      <4> QED BY <4>5, <4>6 DEF ShutdownInv, Started
    <3>2. \E w \in Payload : Write(GetFD(in.id), w)
      BY <1>6 DEF WriteMessage, What, ShutdownInv, TypeInv, TypeOK, ServerTypeOK, Payload, Commands
    <3> QED BY <2>1, <3>1, <3>2, WriteNoOrder
  <2>5. NoOrder'
    BY <1>0, <2>1, <2>4 DEF NoOrder
  <2> QED BY <1>0, <2>1, <2>3, <2>5 DEF ShutdownReachesSlaves
<1> QED BY <1>3, <1>4, <1>5, <1>6 DEF ServerStep

\* What is last in a queue stays last while others are taken.
LEMMA LastOfTail ==
  ASSUME NEW S, NEW s \in Seq(S), s # <<>>, Tail(s) # <<>>
  PROVE  Tail(s)[Len(Tail(s))] = s[Len(s)]
<1> DEFINE n == Len(s)
<1>1. /\ Tail(s) \in Seq(S) /\ Len(Tail(s)) = n - 1
      /\ \A i \in 1 .. Len(Tail(s)) : Tail(s)[i] = s[i + 1]
  BY HeadTailProperties
<1>2. n \in Nat /\ Len(Tail(s)) \in Nat \ {0}
  BY <1>1, EmptySeq, LenProperties
<1>3. n - 1 \in 1 .. Len(Tail(s)) /\ (n - 1) + 1 = n
  BY <1>1, <1>2
<1>4. Tail(s)[n - 1] = s[(n - 1) + 1]
  BY <1>1, <1>3
<1> QED BY <1>1, <1>3, <1>4

\* A slave takes the messages of its pipe in order, and the order to close stays
\* the last one until it is taken.
LEMMA SlaveReaches ==
  ASSUME ShutdownInv, NEW fd \in Fd, SlaveStep(fd) \/ SlaveEndOfPipe(fd)
  PROVE  Started' /\ NoOrder' /\ ShutdownReachesSlaves'
<1>1. UNCHANGED <<table, spc, name>> /\ Live' = Live /\ IDS' = IDS /\ Order' = Order
  BY DEF SlaveStep, SlaveStart, SlaveClose, SlaveCommand, SlaveBash, SlaveShell,
         SlaveEndOfPipe, Take, table, serverVars, Live, Order
<1>2. /\ slave \in [Fd -> {"none", "start", "loop", "bash", "spin", "hung", "dead"}]
      /\ pipe \in [Fd -> Seq(Passed)] /\ slave[fd] # "dead"
  BY DEF ShutdownInv, TypeInv, TypeOK, SlaveTypeOK, SlaveStep, SlaveStart, SlaveClose,
         SlaveCommand, SlaveBash, SlaveShell, SlaveEndOfPipe
<1>3. \A f \in Fd \ {fd} : slave'[f] = slave[f] /\ pipe'[f] = pipe[f]
  BY <1>2 DEF SlaveStep, SlaveStart, SlaveClose, SlaveCommand, SlaveBash,
              SlaveShell, SlaveEndOfPipe, Take, ReplyLiteral, Becomes, ShellOutcome
<1>4. slave'[fd] \in {"loop", "bash", "spin", "hung", "dead"}
  BY <1>2 DEF SlaveStep, SlaveStart, SlaveClose, SlaveCommand, SlaveBash,
              SlaveShell, SlaveEndOfPipe, Take, ReplyLiteral, Becomes, ShellOutcome
<1>5. \/ pipe'[fd] = pipe[fd] /\ told' = told
      \/ /\ pipe[fd] # <<>> /\ pipe'[fd] = Tail(pipe[fd])
         /\ told' = IF Head(pipe[fd]) = Order THEN told \cup {fd} ELSE told
  BY <1>2 DEF SlaveStep, SlaveStart, SlaveClose, SlaveCommand, SlaveBash,
              SlaveShell, SlaveEndOfPipe, Take
<1>6. Started'
  BY <1>1, <1>3, <1>4 DEF ShutdownInv, Started
<1>7. ASSUME pipe[fd] # <<>>, pipe'[fd] = Tail(pipe[fd])
      PROVE  /\ pipe'[fd] # <<>> => pipe'[fd][Len(pipe'[fd])] = pipe[fd][Len(pipe[fd])]
             /\ pipe'[fd] = <<>> => Head(pipe[fd]) = pipe[fd][Len(pipe[fd])]
             /\ Head(pipe[fd]) = pipe[fd][1] /\ 1 \in DOMAIN pipe[fd]
             /\ \A k \in DOMAIN pipe'[fd] : \E l \in DOMAIN pipe[fd] : pipe'[fd][k] = pipe[fd][l]
  <2> DEFINE q == pipe[fd]
  <2>1. q \in Seq(Passed) /\ q # <<>>
    BY <1>2, <1>7
  <2>2. pipe'[fd] # <<>> => pipe'[fd][Len(pipe'[fd])] = pipe[fd][Len(pipe[fd])]
    BY <1>7, <2>1, LastOfTail
  <2>3. /\ Tail(q) \in Seq(Passed) /\ Len(Tail(q)) = Len(q) - 1 /\ Len(q) \in Nat \ {0}
        /\ Head(q) = q[1] /\ \A k \in 1 .. Len(Tail(q)) : Tail(q)[k] = q[k + 1]
    BY <2>1, HeadTailProperties, LenProperties, EmptySeq
  <2>4. pipe'[fd] = <<>> => Len(q) = 1
    <3> SUFFICES ASSUME pipe'[fd] = <<>> PROVE Len(q) = 1
      OBVIOUS
    <3>1. Len(Tail(q)) = 0
      BY <1>7, EmptySeq
    <3> QED BY <2>3, <3>1
  <2>5. ASSUME NEW k \in DOMAIN pipe'[fd]
        PROVE  \E l \in DOMAIN pipe[fd] : pipe'[fd][k] = pipe[fd][l]
    <3>1. k \in 1 .. Len(q) - 1
      BY <1>7, <2>3, <2>5
    <3>2. k + 1 \in 1 .. Len(q) /\ DOMAIN q = 1 .. Len(q)
      BY <2>1, <2>3, <3>1
    <3> QED BY <1>7, <2>3, <3>1, <3>2
  <2> QED BY <2>1, <2>2, <2>3, <2>4, <2>5
<1>8. ASSUME spc = "dead", NEW i \in Live
      PROVE  \/ slave'[IDS[i]] = "dead" \/ IDS[i] \in told'
             \/ pipe'[IDS[i]] # <<>> /\ pipe'[IDS[i]][Len(pipe'[IDS[i]])] = Order
  <2>0. /\ IDS[i] \in Fd /\ told \subseteq told'
        /\ \/ slave[IDS[i]] = "dead" \/ IDS[i] \in told
           \/ pipe[IDS[i]] # <<>> /\ pipe[IDS[i]][Len(pipe[IDS[i]])] = Order
    BY <1>5, <1>8 DEF ShutdownInv, Started, ShutdownReachesSlaves
  <2>1. CASE IDS[i] = fd
    BY <1>2, <1>5, <1>7, <2>0, <2>1
  <2>2. CASE IDS[i] # fd
    BY <1>3, <2>0, <2>2
  <2> QED BY <2>1, <2>2
<1>9. NoOrder' /\ (spc # "dead" => told' = {})
  <2>1. ASSUME spc # "dead"
        PROVE  told' = {} /\ \A f \in Fd : \A k \in DOMAIN pipe'[f] : pipe'[f][k] # Order
    <3>1. told = {} /\ \A f \in Fd : \A k \in DOMAIN pipe[f] : pipe[f][k] # Order
      BY <2>1 DEF ShutdownInv, NoOrder
    <3>2. told' = {}
      BY <1>5, <1>7, <3>1
    <3>3. \A k \in DOMAIN pipe'[fd] : pipe'[fd][k] # Order
      BY <1>5, <1>7, <3>1
    <3> QED BY <1>3, <3>1, <3>2, <3>3
  <2> QED BY <1>1, <2>1 DEF ShutdownInv, NoOrder
<1> QED BY <1>1, <1>6, <1>8, <1>9 DEF ShutdownReachesSlaves

\* ShutdownInv is inductive.
LEMMA ShutdownInvariant == Spec => []ShutdownInv
<1>1. Init => ShutdownInv
  <2> SUFFICES ASSUME Init PROVE ShutdownInv
    OBVIOUS
  <2>1. Live = {} /\ spc = "id" /\ told = {} /\ \A fd \in Fd : pipe[fd] = <<>>
    BY DEF Init, TableInit, Live, Index
  <2>2. NoOrder
    BY <2>1 DEF NoOrder
  <2> QED BY <2>1, <2>2, TypeStart DEF ShutdownInv, Started, ShutdownReachesSlaves
<1>2. ShutdownInv /\ [Next]_vars => ShutdownInv'
  <2> SUFFICES ASSUME ShutdownInv, [Next]_vars
               PROVE  Started' /\ NoOrder' /\ ShutdownReachesSlaves'
    BY TypeStep DEF ShutdownInv
  <2>1. ASSUME UNCHANGED <<table, spc, name, slaveVars>>
        PROVE  Started' /\ NoOrder' /\ ShutdownReachesSlaves'
    <3>1. /\ slave' = slave /\ pipe' = pipe /\ told' = told /\ IDS' = IDS /\ Live' = Live
          /\ spc' = spc /\ name' = name /\ Order' = Order
      BY <2>1 DEF slaveVars, table, Live, Order
    <3> QED BY <3>1 DEF ShutdownInv, Started, NoOrder, ShutdownReachesSlaves
  <2>2. CASE UNCHANGED vars
    BY <2>1, <2>2 DEF vars, serverVars
  <2>3. ASSUME NEW c \in Client, User(c) \/ ClientStep(c)
        PROVE  Started' /\ NoOrder' /\ ShutdownReachesSlaves'
    BY <2>1, <2>3 DEF User, ClientStep, GetID, Type, SendSize, SendData, Receive,
                      EndOfInput, serverVars
  <2> QED BY <2>2, <2>3, ServerReaches, SlaveReaches DEF Next
<1> QED BY <1>1, <1>2, PTL DEF Spec

\* When StartServer has returned, for whatever reason and whatever it has misread, each
\* slave of a client in the table is dead, has taken the order to close, or will find it as
\* the last message of its pipe; no slave gets it before (ID.c:58-79).  It is not said that a
\* slave recognises the order, whose terminating zero is missing.
THEOREM Shutdown == Spec => []ShutdownReachesSlaves
<1>1. ShutdownInv => ShutdownReachesSlaves
  BY DEF ShutdownInv
<1> QED BY <1>1, ShutdownInvariant, PTL

-----------------------------------------------------------------------------
(* Clients that take turns on a network that loses nothing. *)

Orderly == TakeTurns /\ MaxLoss = 0

AtSize == {"g_size", "s_size"}
AtData == {"g_data", "s_data"}
Early  == {"new", "g_size", "g_data", "waitid"}

\* The server is reading a packet or acting on it.
Held == spc \in {"size", "data", "run"}

\* Something of client c is in the socket or in the server's hands.
Outstanding(c) ==
  (\E k \in 1 .. Len(sock) : sock[k].from = c) \/ (Held /\ name = c)

\* No slave answers c; one does, and c holds its id.
Stranger(c) == \A fd \in Fd : addr[fd] # c
Member(c)   == \E fd \in Fd : addr[fd] = c /\ sid[fd] = cid[c]

\* Client c may send this id: it asks for one, or it is its own.
Rightful(c, id) ==
  IF id = -1 THEN Stranger(c) /\ cpc[c] \in {"g_size", "g_data", "waitid"}
  ELSE id = cid[c] /\ Member(c)

\* Datagram e may come after d, and after what the server has read.
Follows(d, e) ==
  /\ d.kind = "id"   => e.kind = "size" /\ e.from = d.from
  /\ d.kind = "size" => e.kind = "data" /\ e.from = d.from /\ e.what = d.what
  /\ d.kind = "data" => e.kind = "id"
Expected(e) ==
  /\ spc \in {"id", "run"} => e.kind = "id"
  /\ spc = "size" => e.kind = "size" /\ e.from = name
  /\ spc = "data" => e.kind = "data" /\ e.from = name /\ e.what = in.what

\* The datagrams are whole packets, one after the other.
Framed ==
  /\ \A k \in 1 .. Len(sock) - 1 : Follows(sock[k], sock[k + 1])
  /\ sock # <<>> => Expected(sock[1])

\* Only the sender of the last datagram may be in the middle of a packet.
OpenAfter(d) ==
  /\ \A c \in Client : /\ cpc[c] \in AtSize <=> (d.kind = "id" /\ d.from = c)
                       /\ cpc[c] \in AtData <=> (d.kind = "size" /\ d.from = c)
  /\ d.kind = "size" => d.what = cmd[d.from]
OpenInServer ==
  /\ \A c \in Client : /\ cpc[c] \in AtSize <=> (spc = "size" /\ name = c)
                       /\ cpc[c] \in AtData <=> (spc = "data" /\ name = c)
  /\ spc = "data" => in.what = cmd[name]
Open ==
  /\ sock # <<>> => OpenAfter(sock[Len(sock)])
  /\ sock = <<>> => OpenInServer

\* What follows exit comes from others, the sender having left.
Farewell ==
  /\ \A j \in 1 .. Len(sock) : sock[j].what = "exit" =>
       /\ sock[j].kind = "size" =>
            /\ cmd[sock[j].from] = "exit" /\ cpc[sock[j].from] \in {"s_data", "gone"}
            /\ \A k \in j + 2 .. Len(sock) : sock[k].from # sock[j].from
       /\ sock[j].kind = "data" =>
            /\ cpc[sock[j].from] = "gone"
            /\ \A k \in j + 1 .. Len(sock) : sock[k].from # sock[j].from
  /\ spc = "data" /\ in.what = "exit" =>
       /\ cmd[name] = "exit" /\ cpc[name] \in {"s_data", "gone"}
       /\ \A k \in 2 .. Len(sock) : sock[k].from # name
  /\ spc = "run" /\ in.what = "exit" =>
       cpc[name] = "gone" /\ \A k \in 1 .. Len(sock) : sock[k].from # name

\* Each id comes from the client it leads to, and a client asks for one once.
Ids ==
  /\ \A k \in 1 .. Len(sock) :
       sock[k].kind = "id" => Rightful(sock[k].from, sock[k].id)
  /\ \A j, k \in 1 .. Len(sock) :
       sock[j].kind = "id" /\ sock[k].kind = "id" /\ sock[j].id = -1
         /\ sock[k].from = sock[j].from => k = j
  /\ Held => /\ name \in Client /\ Rightful(name, in.id)
             /\ in.id = -1 => \A k \in 1 .. Len(sock) :
                                sock[k].kind = "id" => sock[k].from # name

NetInv == Framed /\ Open /\ Farewell /\ Ids

\* A client has neither replies nor an id before it has a slave.
Beginners ==
  \A c \in Client :
    /\ cpc[c] \in {"new", "g_size", "g_data"} => Stranger(c) /\ cmd[c] = "GETID"
    /\ Stranger(c) => inbox[c] = <<>>
    /\ IF cpc[c] \in Early THEN cid[c] = -1 ELSE Member(c)

\* Each client has one slave, to which its id leads until the server has read its
\* exit.
Slaves ==
  /\ \A fd \in Fd : slave[fd] = "none" => addr[fd] = NoClient /\ pipe[fd] = <<>>
  /\ \A f, g \in Fd : addr[f] = addr[g] /\ addr[f] # NoClient => f = g
  /\ \A fd \in Fd : addr[fd] # NoClient =>
       \/ sid[fd] \in Live /\ IDS[sid[fd]] = fd
       \/ cpc[addr[fd]] = "gone" /\ ~Outstanding(addr[fd])

\* The first reply a client gets is its id.
IdFirst ==
  \A fd \in Fd : addr[fd] # NoClient /\ cpc[addr[fd]] = "waitid" =>
    /\ slave[fd] = "start" => inbox[addr[fd]] = <<>>
    /\ slave[fd] \notin {"start", "dead"} => inbox[addr[fd]] # <<>>
    /\ inbox[addr[fd]] # <<>> =>
         inbox[addr[fd]][1] = [kind |-> "id", id |-> sid[fd]]

TurnsInv ==
  /\ spc # "dead" => NetInv
  /\ Beginners /\ Slaves /\ IdFirst /\ Isolated /\ StopsOnRequest

-----------------------------------------------------------------------------
\* Where the datagrams are after the server has taken the first one.
LEMMA SockTail ==
  ASSUME NetTypeOK, sock # <<>>, sock' = Tail(sock)
  PROVE  /\ Len(sock) \in Nat \ {0} /\ Len(sock') = Len(sock) - 1
         /\ Head(sock) = sock[1]
         /\ \A k \in 1 .. Len(sock') : sock'[k] = sock[k + 1]
         /\ \A k \in 1 .. Len(sock) : sock[k] \in Datagram
         /\ sock' = <<>> <=> Len(sock) = 1
<1>1. sock \in Seq(Datagram) /\ sock' \in Seq(Datagram) /\ Len(sock') = Len(sock) - 1
      /\ \A k \in 1 .. Len(sock') : sock'[k] = sock[k + 1]
  BY HeadTailProperties DEF NetTypeOK
<1>2. Len(sock) \in Nat \ {0} /\ Len(sock') \in Nat
  BY <1>1, EmptySeq, LenProperties
<1>3. \A k \in 1 .. Len(sock) : sock[k] \in Datagram
  BY <1>1, LenProperties
<1>4. sock' = <<>> <=> Len(sock') = 0
  BY <1>1, EmptySeq
<1> QED BY <1>1, <1>2, <1>3, <1>4

\* Where they are after a client has sent one.
LEMMA SockAppend ==
  ASSUME NetTypeOK, NEW e \in Datagram, sock' = Append(sock, e)
  PROVE  /\ Len(sock) \in Nat /\ Len(sock') = Len(sock) + 1 /\ sock' # <<>>
         /\ \A k \in 1 .. Len(sock) : sock'[k] = sock[k] /\ sock[k] \in Datagram
         /\ sock'[Len(sock) + 1] = e
         /\ sock = <<>> <=> Len(sock) = 0
<1>1. sock \in Seq(Datagram)
  BY DEF NetTypeOK
<1>2. /\ Len(sock') = Len(sock) + 1 /\ sock' # <<>> /\ sock'[Len(sock) + 1] = e
      /\ \A k \in 1 .. Len(sock) : sock'[k] = sock[k]
  BY <1>1, AppendProperties
<1>3. Len(sock) \in Nat /\ \A k \in 1 .. Len(sock) : sock[k] \in Datagram
  BY <1>1, LenProperties
<1>4. sock = <<>> <=> Len(sock) = 0
  BY <1>1, EmptySeq
<1> QED BY <1>2, <1>3, <1>4

-----------------------------------------------------------------------------
(* A client sends a datagram. *)

Fresh(c, kind, id) == [from |-> c, kind |-> kind, id |-> id, what |-> cmd'[c]]

\* Client c sends the datagram kind of a packet, and the rest of the system stands
\* still (client.c:70-97, 109-123).
Sends(c, kind, id) ==
  /\ sock' = Append(sock, Fresh(c, kind, id))
  /\ UNCHANGED <<table, cid, serverVars, slaveVars>>
  /\ \A d \in Client \ {c} :
       cpc'[d] = cpc[d] /\ cmd'[d] = cmd[d] /\ inbox'[d] = inbox[d]
  /\ kind = "id" =>
       /\ \A d \in Client : ~Sending(d)
       /\ \/ cpc[c] = "new" /\ cpc'[c] = "g_size" /\ id = -1 /\ cmd'[c] = cmd[c]
          \/ cpc[c] = "prompt" /\ cpc'[c] = "s_size" /\ id = cid[c]
       /\ inbox'[c] = inbox[c]
  /\ kind = "size" =>
       /\ \/ cpc[c] = "g_size" /\ cpc'[c] = "g_data"
          \/ cpc[c] = "s_size" /\ cpc'[c] = "s_data"
       /\ cmd'[c] = cmd[c] /\ inbox'[c] = inbox[c]
  /\ kind = "data" =>
       /\ \/ cpc[c] = "g_data" /\ cpc'[c] = "waitid" /\ inbox'[c] = inbox[c]
          \/ cpc[c] = "s_data" /\ cmd[c] \in Leaving /\ cpc'[c] = "gone" /\ inbox'[c] = <<>>
          \/ cpc[c] = "s_data" /\ cmd[c] \notin Leaving /\ cpc'[c] = "wait"
               /\ inbox'[c] = inbox[c]
       /\ cmd'[c] = cmd[c]

\* The four steps of a client that send.
LEMMA ClientSends ==
  ASSUME Orderly, TypeOK, TypeOK', NEW c \in Client,
         \/ GetID(c) \/ SendSize(c) \/ SendData(c) \/ \E w \in Typed : Type(c, w)
  PROVE  \E kind \in {"id", "size", "data"} :
           \E id \in Index \cup {-1} : Sends(c, kind, id) /\ Fresh(c, kind, id) \in Datagram
<1>a. /\ cpc \in [Client -> {"new", "g_size", "g_data", "waitid", "prompt", "s_size",
                             "s_data", "wait", "gone", "stuck"}]
      /\ cmd \in [Client -> Payload] /\ cmd' \in [Client -> Payload]
      /\ cid \in [Client -> Index \cup {-1}] /\ inbox \in [Client -> Seq(Answer)]
      /\ lost = 0
  BY DEF TypeOK, ClientTypeOK, NetTypeOK, Orderly
<1>b. 0 \in Index
  BY TableAssumption DEF Index
<1>c. \A kind \in {"id", "size", "data"}, id \in Index \cup {-1} :
        /\ Fresh(c, kind, id) \in Datagram
        /\ SendTo(c, kind, id) => sock' = Append(sock, Fresh(c, kind, id))
  BY <1>a DEF Fresh, Datagram, SendTo, Orderly
<1>d. MayStart(c) => \A d \in Client \ {c} : ~Sending(d)
  BY DEF MayStart, Orderly
<1>1. CASE GetID(c)
  <2>1. Sends(c, "id", -1)
    BY <1>1, <1>a, <1>b, <1>c, <1>d DEF GetID, Sends, Sending
  <2> QED BY <2>1, <1>c
<1>2. CASE SendSize(c)
  <2>1. Sends(c, "size", 0)
    BY <1>2, <1>a, <1>b, <1>c DEF SendSize, Sends
  <2> QED BY <2>1, <1>c, <1>b
<1>3. CASE SendData(c)
  <2>1. Sends(c, "data", 0)
    BY <1>3, <1>a, <1>b, <1>c DEF SendData, Sends
  <2> QED BY <2>1, <1>c, <1>b
<1>4. ASSUME NEW w \in Typed, Type(c, w)
      PROVE  Sends(c, "id", cid[c]) /\ cid[c] \in Index \cup {-1}
  BY <1>4, <1>a, <1>c, <1>d DEF Type, Sends, Sending
<1> QED BY <1>1, <1>2, <1>3, <1>4, <1>c

\* What a client sends fits behind the last datagram, or what the server has read.
LEMMA SendsFits ==
  ASSUME TypeOK, NetInv, spc # "dead", NEW c \in Client,
         NEW kind \in {"id", "size", "data"}, NEW id, Sends(c, kind, id)
  PROVE  /\ sock # <<>> => Follows(sock[Len(sock)], Fresh(c, kind, id))
         /\ sock = <<>> => Expected(Fresh(c, kind, id))
<1>a. spc \in {"id", "size", "data", "run"} /\ (Held => name \in Client)
  BY DEF TypeOK, ServerTypeOK, NetInv, Ids
<1>b. sock # <<>> => sock[Len(sock)] \in Datagram
  BY EmptySeq, LenProperties DEF TypeOK, NetTypeOK
<1>c. kind \in {"size", "data"} => cmd'[c] = cmd[c]
  BY DEF Sends
<1>1. CASE kind = "id"
  <2>1. \A d \in Client : cpc[d] \notin AtSize \cup AtData
    BY <1>1 DEF Sends, Sending, AtSize, AtData
  <2>2. ASSUME sock # <<>> PROVE sock[Len(sock)].kind = "data"
    BY <1>b, <2>1, <2>2 DEF NetInv, Open, OpenAfter, Datagram
  <2>3. ASSUME sock = <<>> PROVE spc \notin {"size", "data"}
    BY <1>a, <2>1, <2>3 DEF NetInv, Open, OpenInServer, Held
  <2> QED BY <1>1, <1>a, <2>2, <2>3 DEF Follows, Expected, Fresh
<1>2. CASE kind = "size"
  <2>1. cpc[c] \in AtSize
    BY <1>2 DEF Sends, AtSize
  <2>2. ASSUME sock # <<>>
        PROVE  sock[Len(sock)].kind = "id" /\ sock[Len(sock)].from = c
    BY <2>1, <2>2 DEF NetInv, Open, OpenAfter
  <2>3. ASSUME sock = <<>> PROVE spc = "size" /\ name = c
    BY <2>1, <2>3 DEF NetInv, Open, OpenInServer
  <2> QED BY <1>2, <2>2, <2>3 DEF Follows, Expected, Fresh
<1>3. CASE kind = "data"
  <2>1. cpc[c] \in AtData
    BY <1>3 DEF Sends, AtData
  <2>2. ASSUME sock # <<>>
        PROVE  /\ sock[Len(sock)].kind = "size" /\ sock[Len(sock)].from = c
               /\ sock[Len(sock)].what = cmd[c]
    BY <2>1, <2>2 DEF NetInv, Open, OpenAfter
  <2>3. ASSUME sock = <<>> PROVE spc = "data" /\ name = c /\ in.what = cmd[c]
    BY <2>1, <2>3 DEF NetInv, Open, OpenInServer
  <2> QED BY <1>3, <1>c, <2>2, <2>3 DEF Follows, Expected, Fresh
<1> QED BY <1>1, <1>2, <1>3

\* Sending keeps the packets whole.
LEMMA SendsFramed ==
  ASSUME TypeOK, NetInv, spc # "dead", NEW c \in Client,
         NEW kind \in {"id", "size", "data"}, NEW id, Sends(c, kind, id),
         Fresh(c, kind, id) \in Datagram
  PROVE  Framed'
<1>0. PICK e \in Datagram : e = Fresh(c, kind, id)
  OBVIOUS
<1>1. sock' = Append(sock, e) /\ UNCHANGED <<spc, name, in>>
  BY <1>0 DEF Sends, serverVars
<1>2. /\ Len(sock) \in Nat /\ Len(sock') = Len(sock) + 1 /\ sock' # <<>>
      /\ \A k \in 1 .. Len(sock) : sock'[k] = sock[k]
      /\ sock'[Len(sock) + 1] = e
      /\ sock = <<>> <=> Len(sock) = 0
  BY <1>1, SockAppend DEF TypeOK
<1>3. /\ sock # <<>> => Follows(sock[Len(sock)], e)
      /\ sock = <<>> => Expected(e)
  BY <1>0, SendsFits
<1>4. ASSUME NEW k \in 1 .. Len(sock') - 1 PROVE Follows(sock'[k], sock'[k + 1])
  <2>1. CASE k = Len(sock)
    BY <1>2, <1>3, <2>1
  <2>2. CASE k # Len(sock)
    <3>1. k \in 1 .. Len(sock) - 1 /\ k + 1 \in 1 .. Len(sock) /\ k \in 1 .. Len(sock)
      BY <1>2, <2>2
    <3> QED BY <1>2, <3>1 DEF NetInv, Framed
  <2> QED BY <2>1, <2>2
<1>5. sock'[1] = IF sock = <<>> THEN e ELSE sock[1]
  BY <1>2
<1>6. PICK d : d = sock'[1]
  OBVIOUS
<1>7. Expected(d)
  BY <1>3, <1>5, <1>6 DEF NetInv, Framed
<1>8. Expected(d)'
  BY <1>1, <1>7 DEF Expected
<1>9. Expected(sock[1])'
  BY <1>6, <1>8 DEF Expected
<1> QED BY <1>4, <1>9 DEF Framed, Follows

\* The sender of the last datagram is the one in the middle of a packet.
LEMMA SendsOpen ==
  ASSUME TypeOK, NetInv, spc # "dead", NEW c \in Client,
         NEW kind \in {"id", "size", "data"}, NEW id, Sends(c, kind, id),
         Fresh(c, kind, id) \in Datagram
  PROVE  Open'
<1>0. PICK e \in Datagram : e = Fresh(c, kind, id)
  OBVIOUS
<1>1. sock' = Append(sock, e)
  BY <1>0 DEF Sends
<1>2. Len(sock') = Len(sock) + 1 /\ sock' # <<>> /\ sock'[Len(sock) + 1] = e
  BY <1>1, SockAppend DEF TypeOK
<1>3. e.kind = kind /\ e.from = c /\ e.what = cmd'[c]
  BY <1>0 DEF Fresh
<1>4. ASSUME NEW d \in Client \ {c} PROVE cpc[d] \notin AtSize \cup AtData
  <2>1. CASE kind = "id"
    BY <1>4, <2>1 DEF Sends, Sending, AtSize, AtData
  <2>2. CASE kind # "id"
    <3>1. cpc[c] \in AtSize \cup AtData
      BY <2>2 DEF Sends, AtSize, AtData
    <3>2. CASE sock # <<>>
      BY <1>4, <3>1, <3>2 DEF NetInv, Open, OpenAfter
    <3>3. CASE sock = <<>>
      BY <1>4, <3>1, <3>3 DEF NetInv, Open, OpenInServer
    <3> QED BY <3>2, <3>3
  <2> QED BY <2>1, <2>2
<1>5. \A d \in Client \ {c} : cpc'[d] \notin AtSize \cup AtData
  BY <1>4 DEF Sends
<1>6. /\ cpc'[c] \in AtSize <=> kind = "id"
      /\ cpc'[c] \in AtData <=> kind = "size"
  BY DEF Sends, AtSize, AtData
<1>7. OpenAfter(e)'
  BY <1>0, <1>3, <1>5, <1>6 DEF OpenAfter, Fresh
<1>8. sock'[Len(sock')] = e
  BY <1>2
<1> QED BY <1>2, <1>3, <1>5, <1>6, <1>8 DEF Open, OpenAfter

\* A client that says exit leaves with the last datagram of it (client.c:89-97).
LEMMA SendsFarewell ==
  ASSUME TypeOK, NetInv, Beginners, spc # "dead", NEW c \in Client,
         NEW kind \in {"id", "size", "data"}, NEW id, Sends(c, kind, id),
         Fresh(c, kind, id) \in Datagram
  PROVE  Farewell'
<1>0. PICK e \in Datagram : e = Fresh(c, kind, id)
  OBVIOUS
<1>1. sock' = Append(sock, e) /\ UNCHANGED <<spc, name, in>>
  BY <1>0 DEF Sends, serverVars
<1>2. /\ Len(sock) \in Nat /\ Len(sock') = Len(sock) + 1 /\ sock' # <<>>
      /\ \A k \in 1 .. Len(sock) : sock'[k] = sock[k] /\ sock[k] \in Datagram
      /\ sock'[Len(sock) + 1] = e
      /\ sock = <<>> <=> Len(sock) = 0
  BY <1>1, SockAppend DEF TypeOK
<1>3. e.kind = kind /\ e.from = c /\ e.what = cmd'[c]
  BY <1>0 DEF Fresh
<1>4. cpc[c] # "gone" /\ (cpc[c] = "s_data" => kind = "data")
  BY DEF Sends
<1>5. ASSUME NEW d \in Client, cmd[d] = "exit", cpc[d] \in {"s_data", "gone"}
      PROVE  cmd'[d] = "exit" /\ cpc'[d] \in {"s_data", "gone"}
  BY <1>4, <1>5 DEF Sends, Leaving
<1>6. ASSUME NEW d \in Client, cpc[d] = "gone"
      PROVE  cpc'[d] = "gone" /\ d # c
  BY <1>4, <1>6 DEF Sends
<1>7. ASSUME kind = "data", sock # <<>>
      PROVE  sock[Len(sock)].kind = "size" /\ sock[Len(sock)].from = c
  BY <1>7 DEF NetInv, Open, OpenAfter, Sends, AtData
<1>8. ASSUME NEW j \in 1 .. Len(sock), sock[j].what = "exit"
      PROVE  /\ sock[j].kind = "size" =>
                  /\ cmd'[sock[j].from] = "exit" /\ cpc'[sock[j].from] \in {"s_data", "gone"}
                  /\ \A k \in j + 2 .. Len(sock') : sock'[k].from # sock[j].from
             /\ sock[j].kind = "data" =>
                  /\ cpc'[sock[j].from] = "gone"
                  /\ \A k \in j + 1 .. Len(sock') : sock'[k].from # sock[j].from
  <2>0. sock[j].from \in Client
    BY <1>2 DEF Datagram
  <2>1. CASE sock[j].kind = "size"
    <3>1. /\ cmd[sock[j].from] = "exit" /\ cpc[sock[j].from] \in {"s_data", "gone"}
          /\ \A k \in j + 2 .. Len(sock) : sock[k].from # sock[j].from
      BY <1>8, <2>1 DEF NetInv, Farewell
    <3>2. cmd'[sock[j].from] = "exit" /\ cpc'[sock[j].from] \in {"s_data", "gone"}
      BY <1>5, <2>0, <3>1
    <3>3. ASSUME NEW k \in j + 2 .. Len(sock') PROVE sock'[k].from # sock[j].from
      <4>1. CASE k \in j + 2 .. Len(sock)
        <5>1. sock'[k] = sock[k]
          BY <1>2, <4>1
        <5> QED BY <3>1, <4>1, <5>1
      <4>2. CASE k = Len(sock) + 1
        <5>1. SUFFICES ASSUME sock[j].from = c PROVE FALSE
          BY <1>2, <1>3, <4>2
        <5>2. kind = "data" /\ sock # <<>>
          BY <1>2, <1>4, <3>1, <5>1
        <5>3. sock[Len(sock)].kind = "size" /\ sock[Len(sock)].from = c
          BY <1>7, <5>2
        <5>4. Len(sock) = j + 1 /\ j \in 1 .. Len(sock) - 1
          <6>1. j + 1 <= Len(sock) /\ ~(j + 2 <= Len(sock))
            BY <1>2, <3>1, <4>2, <5>1, <5>3
          <6> QED BY <1>2, <6>1
        <5>5. Follows(sock[j], sock[j + 1])
          BY <5>4 DEF NetInv, Framed
        <5> QED BY <2>1, <5>3, <5>4, <5>5 DEF Follows
      <4>3. k \in j + 2 .. Len(sock) \/ k = Len(sock) + 1
        BY <1>2
      <4> QED BY <4>1, <4>2, <4>3
    <3> QED BY <2>1, <3>2, <3>3
  <2>2. CASE sock[j].kind = "data"
    <3>1. /\ cpc[sock[j].from] = "gone"
          /\ \A k \in j + 1 .. Len(sock) : sock[k].from # sock[j].from
      BY <1>8, <2>2 DEF NetInv, Farewell
    <3>2. cpc'[sock[j].from] = "gone" /\ sock[j].from # c
      BY <1>6, <2>0, <3>1
    <3>3. ASSUME NEW k \in j + 1 .. Len(sock') PROVE sock'[k].from # sock[j].from
      <4>1. CASE k \in j + 1 .. Len(sock)
        <5>1. sock'[k] = sock[k]
          BY <1>2, <4>1
        <5> QED BY <3>1, <4>1, <5>1
      <4>2. k \in j + 1 .. Len(sock) \/ k = Len(sock) + 1
        BY <1>2
      <4> QED BY <1>2, <1>3, <3>2, <4>1, <4>2
    <3> QED BY <2>2, <3>2, <3>3
  <2> QED BY <2>1, <2>2
<1>9. ASSUME e.what = "exit"
      PROVE  /\ kind = "size" => cmd'[c] = "exit" /\ cpc'[c] = "s_data"
             /\ kind = "data" => cpc'[c] = "gone"
  BY <1>3, <1>9 DEF Beginners, Sends, Leaving
<1>10. ASSUME NEW j \in 1 .. Len(sock'), sock'[j].what = "exit"
       PROVE  /\ sock'[j].kind = "size" =>
                   /\ cmd'[sock'[j].from] = "exit" /\ cpc'[sock'[j].from] \in {"s_data", "gone"}
                   /\ \A k \in j + 2 .. Len(sock') : sock'[k].from # sock'[j].from
              /\ sock'[j].kind = "data" =>
                   /\ cpc'[sock'[j].from] = "gone"
                   /\ \A k \in j + 1 .. Len(sock') : sock'[k].from # sock'[j].from
  <2>1. CASE j \in 1 .. Len(sock)
    <3>1. sock'[j] = sock[j]
      BY <1>2, <2>1
    <3> QED BY <1>8, <1>10, <2>1, <3>1
  <2>2. CASE j = Len(sock) + 1
    <3>1. j + 1 .. Len(sock') = {} /\ j + 2 .. Len(sock') = {}
      BY <1>2, <2>2
    <3> QED BY <1>2, <1>3, <1>9, <1>10, <2>2, <3>1
  <2> QED BY <1>2, <2>1, <2>2
<1>11. ASSUME spc = "data", in.what = "exit"
       PROVE  /\ cmd'[name] = "exit" /\ cpc'[name] \in {"s_data", "gone"}
              /\ \A k \in 2 .. Len(sock') : sock'[k].from # name
  <2>1. /\ name \in Client
        /\ cmd[name] = "exit" /\ cpc[name] \in {"s_data", "gone"}
        /\ \A k \in 2 .. Len(sock) : sock[k].from # name
    BY <1>11 DEF NetInv, Ids, Held, Farewell
  <2>2. ASSUME NEW k \in 2 .. Len(sock') PROVE sock'[k].from # name
    <3>1. CASE k \in 2 .. Len(sock)
      <4>1. sock'[k] = sock[k]
        BY <1>2, <3>1
      <4> QED BY <2>1, <3>1, <4>1
    <3>2. CASE k = Len(sock) + 1
      <4>1. SUFFICES ASSUME name = c PROVE FALSE
        BY <1>2, <1>3, <3>2
      <4>2. kind = "data" /\ sock # <<>> /\ Len(sock) >= 1
        BY <1>2, <1>4, <2>1, <3>2, <4>1
      <4>3. sock[Len(sock)].kind = "size" /\ sock[Len(sock)].from = c
        BY <1>7, <4>2
      <4>4. Len(sock) = 1
        <5>1. ~(Len(sock) \in 2 .. Len(sock))
          BY <2>1, <4>1, <4>3
        <5>2. \A n \in Nat : n >= 1 /\ ~(n \in 2 .. n) => n = 1
          OBVIOUS
        <5> QED BY <1>2, <4>2, <5>1, <5>2
      <4>5. sock[1].kind = "data"
        BY <1>11, <4>2 DEF NetInv, Framed, Expected
      <4> QED BY <4>3, <4>4, <4>5
    <3> QED BY <1>2, <3>1, <3>2
  <2> QED BY <1>5, <2>1, <2>2
<1>12. ASSUME spc = "run", in.what = "exit"
       PROVE  cpc'[name] = "gone" /\ \A k \in 1 .. Len(sock') : sock'[k].from # name
  <2>1. /\ name \in Client /\ cpc[name] = "gone"
        /\ \A k \in 1 .. Len(sock) : sock[k].from # name
    BY <1>12 DEF NetInv, Ids, Held, Farewell
  <2>2. cpc'[name] = "gone" /\ name # c
    BY <1>6, <2>1
  <2>3. ASSUME NEW k \in 1 .. Len(sock') PROVE sock'[k].from # name
    <3>1. CASE k \in 1 .. Len(sock)
      BY <1>2, <2>1, <3>1
    <3>2. CASE k = Len(sock) + 1
      BY <1>2, <1>3, <2>2, <3>2
    <3> QED BY <1>2, <3>1, <3>2
  <2> QED BY <2>2, <2>3
<1> QED BY <1>1, <1>10, <1>11, <1>12 DEF Farewell

\* What may be sent with an id stays so while clients send.
LEMMA SendsRightful ==
  ASSUME NEW c \in Client, NEW kind \in {"id", "size", "data"}, NEW id,
         Sends(c, kind, id), NEW d \in Client, NEW i, Rightful(d, i)
  PROVE  Rightful(d, i)'
<1>1. UNCHANGED <<addr, sid, cid>>
  BY DEF Sends, slaveVars
<1>2. Stranger(d) => Stranger(d)'
  BY <1>1 DEF Stranger
<1>3. Member(d) => Member(d)'
  BY <1>1 DEF Member
<1>4. cpc[d] \in {"g_size", "g_data", "waitid"} => cpc'[d] \in {"g_size", "g_data", "waitid"}
  BY DEF Sends
<1> QED BY <1>1, <1>2, <1>3, <1>4 DEF Rightful

\* The id in a packet is the sender's.
LEMMA SendsIds ==
  ASSUME TypeOK, NetInv, Beginners, spc # "dead", NEW c \in Client,
         NEW kind \in {"id", "size", "data"}, NEW id, Sends(c, kind, id),
         Fresh(c, kind, id) \in Datagram
  PROVE  Ids'
<1>0. PICK e \in Datagram : e = Fresh(c, kind, id)
  OBVIOUS
<1>1. sock' = Append(sock, e) /\ UNCHANGED <<spc, name, in, addr, sid, cid>>
  BY <1>0 DEF Sends, serverVars, slaveVars
<1>2. /\ Len(sock) \in Nat /\ Len(sock') = Len(sock) + 1
      /\ \A k \in 1 .. Len(sock) : sock'[k] = sock[k] /\ sock[k] \in Datagram
      /\ sock'[Len(sock) + 1] = e
  BY <1>1, SockAppend DEF TypeOK
<1>3. e.kind = kind /\ e.from = c /\ e.id = id
  BY <1>0 DEF Fresh
<1>4. ASSUME kind = "id"
      PROVE  /\ cpc[c] \notin {"g_size", "g_data", "waitid"}
             /\ id = -1 => Stranger(c) /\ cpc'[c] = "g_size"
             /\ id # -1 => id = cid[c] /\ Member(c)
  <2>1. CASE cpc[c] = "new" /\ cpc'[c] = "g_size" /\ id = -1
    BY <2>1 DEF Beginners
  <2>2. CASE cpc[c] = "prompt" /\ id = cid[c]
    <3>1. Member(c)
      BY <2>2 DEF Beginners, Early
    <3>2. cid[c] \in Index
      BY <3>1 DEF Member, TypeOK, SlaveTypeOK
    <3>3. cid[c] # -1
      BY <3>2, TableAssumption DEF Index
    <3> QED BY <2>2, <3>1, <3>3
  <2> QED BY <1>4, <2>1, <2>2 DEF Sends
<1>5. ASSUME kind = "id" PROVE Rightful(c, id)'
  <2>1. Stranger(c) => Stranger(c)'
    BY <1>1 DEF Stranger
  <2>2. Member(c) => Member(c)'
    BY <1>1 DEF Member
  <2> QED BY <1>1, <1>4, <1>5, <2>1, <2>2 DEF Rightful
<1>6. ASSUME NEW k \in 1 .. Len(sock'), sock'[k].kind = "id"
      PROVE  Rightful(sock[k].from, sock[k].id)'
  <2>1. CASE k \in 1 .. Len(sock)
    <3>1. PICK d, i : d \in Client /\ d = sock[k].from /\ i = sock[k].id
      BY <1>2, <2>1 DEF Datagram
    <3>2. sock'[k] = sock[k]
      BY <1>2, <2>1
    <3>3. Rightful(d, i)
      BY <1>6, <2>1, <3>1, <3>2 DEF NetInv, Ids
    <3>4. Rightful(d, i)'
      BY <3>1, <3>3, SendsRightful
    <3>5. sock'[k].from = d /\ sock'[k].id = i
      BY <3>1, <3>2
    <3> QED BY <3>4, <3>5 DEF Rightful, Stranger, Member
  <2>2. CASE k = Len(sock) + 1
    <3>1. sock'[k].from = c /\ sock'[k].id = id /\ kind = "id"
      BY <1>2, <1>3, <1>6, <2>2
    <3> QED BY <1>5, <3>1 DEF Rightful, Stranger, Member
  <2> QED BY <1>2, <2>1, <2>2
<1>7. ASSUME NEW k \in 1 .. Len(sock), sock[k].kind = "id", kind = "id",
             sock[k].id = -1 \/ id = -1
      PROVE  sock[k].from # c
  <2>1. Rightful(sock[k].from, sock[k].id)
    BY <1>7 DEF NetInv, Ids
  <2> QED BY <1>4, <1>7, <2>1 DEF Rightful, Stranger, Member
<1>8. ASSUME NEW j \in 1 .. Len(sock'), NEW k \in 1 .. Len(sock'),
             sock'[j].kind = "id", sock'[k].kind = "id", sock'[j].id = -1,
             sock'[k].from = sock'[j].from
      PROVE  k = j
  <2>1. CASE j \in 1 .. Len(sock) /\ k \in 1 .. Len(sock)
    BY <1>2, <1>8, <2>1 DEF NetInv, Ids
  <2>2. CASE j \in 1 .. Len(sock) /\ k = Len(sock) + 1
    BY <1>2, <1>3, <1>7, <1>8, <2>2
  <2>3. CASE j = Len(sock) + 1 /\ k \in 1 .. Len(sock)
    BY <1>2, <1>3, <1>7, <1>8, <2>3
  <2> QED BY <1>2, <2>1, <2>2, <2>3
<1>9. ASSUME Held
      PROVE  /\ name \in Client
             /\ in.id = -1 => \A k \in 1 .. Len(sock') :
                                sock'[k].kind = "id" => sock'[k].from # name
  <2>1. /\ name \in Client /\ Rightful(name, in.id)
        /\ in.id = -1 => \A k \in 1 .. Len(sock) :
                           sock[k].kind = "id" => sock[k].from # name
    BY <1>9 DEF NetInv, Ids
  <2>2. ASSUME in.id = -1, NEW k \in 1 .. Len(sock'), sock'[k].kind = "id"
        PROVE  sock'[k].from # name
    <3>1. CASE k \in 1 .. Len(sock)
      BY <1>2, <2>1, <2>2, <3>1
    <3>2. CASE k = Len(sock) + 1
      BY <1>2, <1>3, <1>4, <2>1, <2>2, <3>2 DEF Rightful
    <3> QED BY <1>2, <3>1, <3>2
  <2> QED BY <2>1, <2>2
<1>10. ASSUME Held PROVE Rightful(name, in.id)'
  <2>1. PICK d, i : d \in Client /\ d = name /\ i = in.id /\ Rightful(d, i)
    BY <1>10 DEF NetInv, Ids
  <2>2. Rightful(d, i)'
    BY <2>1, SendsRightful
  <2>3. name' = d /\ in'.id = i
    BY <1>1, <2>1
  <2> QED BY <2>2, <2>3 DEF Rightful, Stranger, Member
<1> QED BY <1>1, <1>6, <1>8, <1>9, <1>10 DEF Ids, Held

\* Sending keeps what is known of the socket.
LEMMA SendsNet ==
  ASSUME TypeOK, NetInv, Beginners, spc # "dead", NEW c \in Client,
         NEW kind \in {"id", "size", "data"}, NEW id, Sends(c, kind, id),
         Fresh(c, kind, id) \in Datagram
  PROVE  NetInv'
BY SendsFramed, SendsOpen, SendsFarewell, SendsIds DEF NetInv

\* A client that sends is not a client that has left, nor one that waits for its id.
LEMMA SendsTurns ==
  ASSUME TypeOK, TurnsInv, NEW c \in Client,
         NEW kind \in {"id", "size", "data"}, NEW id, Sends(c, kind, id),
         Fresh(c, kind, id) \in Datagram
  PROVE  TurnsInv'
<1>1. UNCHANGED <<table, spc, name, in, why, slave, addr, sid, pipe, cid>>
  BY DEF Sends, serverVars, slaveVars
<1>2. spc' # "dead" => NetInv'
  BY <1>1, SendsNet DEF TurnsInv
<1>3. Isolated' /\ StopsOnRequest'
  BY <1>1 DEF TurnsInv, Isolated, StopsOnRequest
<1>4. cpc[c] \notin {"gone", "waitid"}
  BY DEF Sends
<1>5. ASSUME NEW d \in Client
      PROVE  /\ cpc'[d] \in {"new", "g_size", "g_data"} =>
                  Stranger(d)' /\ cmd'[d] = "GETID"
             /\ Stranger(d)' => inbox'[d] = <<>>
             /\ IF cpc'[d] \in Early THEN cid'[d] = -1 ELSE Member(d)'
  <2>1. Stranger(d)' = Stranger(d) /\ Member(d)' = Member(d)
    BY <1>1 DEF Stranger, Member
  <2>2. CASE d # c
    <3>1. cpc'[d] = cpc[d] /\ cmd'[d] = cmd[d] /\ inbox'[d] = inbox[d]
      BY <2>2 DEF Sends
    <3> QED BY <1>1, <2>1, <3>1 DEF TurnsInv, Beginners
  <2>3. CASE d = c
    <3>1. /\ cpc'[c] \in {"new", "g_size", "g_data"} =>
                cpc[c] \in {"new", "g_size", "g_data"} /\ cmd'[c] = cmd[c]
          /\ cpc'[c] \in Early <=> cpc[c] \in Early
          /\ inbox'[c] \in {inbox[c], <<>>}
      BY DEF Sends, Early
    <3> QED BY <1>1, <2>1, <2>3, <3>1 DEF TurnsInv, Beginners
  <2> QED BY <2>2, <2>3
<1>6. Beginners'
  BY <1>5 DEF Beginners
<1>7. ASSUME NEW d \in Client, cpc[d] = "gone", ~Outstanding(d)
      PROVE  cpc'[d] = "gone" /\ ~Outstanding(d)'
  <2>0. PICK e \in Datagram : e = Fresh(c, kind, id)
    OBVIOUS
  <2>1. /\ Len(sock) \in Nat /\ Len(sock') = Len(sock) + 1
        /\ \A k \in 1 .. Len(sock) : sock'[k] = sock[k]
        /\ sock'[Len(sock) + 1] = e
    BY <2>0, SockAppend DEF TypeOK, Sends
  <2>2. d # c /\ cpc'[d] = "gone" /\ e.from = c
    BY <1>4, <1>7, <2>0 DEF Sends, Fresh
  <2>3. ASSUME NEW k \in 1 .. Len(sock') PROVE sock'[k].from # d
    <3>1. CASE k \in 1 .. Len(sock)
      BY <1>7, <2>1, <3>1 DEF Outstanding
    <3>2. CASE k = Len(sock) + 1
      BY <2>1, <2>2, <3>2
    <3> QED BY <2>1, <3>1, <3>2
  <2> QED BY <1>1, <1>7, <2>2, <2>3 DEF Outstanding, Held
<1>8. Slaves'
  <2>1. ASSUME NEW fd \in Fd, addr[fd] # NoClient
        PROVE  \/ sid[fd] \in Live /\ IDS[sid[fd]] = fd
               \/ cpc'[addr[fd]] = "gone" /\ ~Outstanding(addr[fd])'
    <3>1. addr[fd] \in Client
      BY <2>1 DEF TypeOK, SlaveTypeOK
    <3>2. \/ sid[fd] \in Live /\ IDS[sid[fd]] = fd
          \/ cpc[addr[fd]] = "gone" /\ ~Outstanding(addr[fd])
      BY <2>1 DEF TurnsInv, Slaves
    <3>3. PICK d \in Client : d = addr[fd]
      BY <3>1
    <3>4. cpc[d] = "gone" /\ ~Outstanding(d) => cpc'[d] = "gone" /\ ~Outstanding(d)'
      BY <1>7
    <3>5. Outstanding(addr[fd])' = Outstanding(d)'
      BY <1>1, <3>3 DEF Outstanding
    <3>6. Outstanding(addr[fd]) = Outstanding(d)
      BY <3>3 DEF Outstanding
    <3> QED BY <3>2, <3>3, <3>4, <3>5, <3>6
  <2>2. Live' = Live /\ IDS' = IDS
    BY <1>1 DEF Live, table
  <2> QED BY <1>1, <2>1, <2>2 DEF TurnsInv, Slaves, Outstanding
<1>9. IdFirst'
  <2>1. ASSUME NEW fd \in Fd, addr[fd] # NoClient, cpc'[addr[fd]] = "waitid"
        PROVE  cpc[addr[fd]] = "waitid" /\ inbox'[addr[fd]] = inbox[addr[fd]]
    <3>1. addr[fd] \in Client
      BY <2>1 DEF TypeOK, SlaveTypeOK
    <3>2. CASE addr[fd] = c
      <4>1. cpc[c] = "g_data"
        BY <2>1, <3>2 DEF Sends
      <4>2. Stranger(c)
        BY <4>1 DEF TurnsInv, Beginners
      <4> QED BY <3>2, <4>2 DEF Stranger
    <3>3. CASE addr[fd] # c
      BY <2>1, <3>1, <3>3 DEF Sends
    <3> QED BY <3>2, <3>3
  <2> QED BY <1>1, <2>1 DEF TurnsInv, IdFirst
<1> QED BY <1>2, <1>3, <1>6, <1>8, <1>9 DEF TurnsInv

-----------------------------------------------------------------------------
(* A client gets a reply or leaves. *)

\* Client c gets a reply or leaves, and the rest of the system stands still: its
\* first reply is its id (client.c:75-80, 99-133).
Turns(c) ==
  /\ UNCHANGED <<table, sock, cmd, serverVars, slaveVars>>
  /\ cpc[c] \in {"waitid", "wait", "prompt"}
  /\ cpc'[c] \in {"prompt", "stuck", "gone"}
  /\ IF cpc[c] = "waitid" THEN Member(c)' ELSE cid'[c] = cid[c]
  /\ \A d \in Client \ {c} :
       cpc'[d] = cpc[d] /\ cid'[d] = cid[d] /\ inbox'[d] = inbox[d]

\* Receiving and leaving are such steps.
LEMMA ClientTurns ==
  ASSUME TypeOK, TurnsInv, NEW c \in Client, Receive(c) \/ EndOfInput(c)
  PROVE  Turns(c)
<1>a. /\ cpc \in [Client -> {"new", "g_size", "g_data", "waitid", "prompt", "s_size",
                             "s_data", "wait", "gone", "stuck"}]
      /\ cid \in [Client -> Index \cup {-1}] /\ inbox \in [Client -> Seq(Answer)]
  BY DEF TypeOK, ClientTypeOK, NetTypeOK
<1>1. CASE EndOfInput(c)
  BY <1>1, <1>a DEF EndOfInput, Turns
<1>2. CASE Receive(c) /\ cpc[c] # "waitid"
  BY <1>2, <1>a DEF Receive, Turns
<1>3. CASE Receive(c) /\ cpc[c] = "waitid"
  <2>1. inbox[c] # <<>>
    BY <1>3 DEF Receive
  <2>2. PICK fd \in Fd : addr[fd] = c
    BY <2>1 DEF TurnsInv, Beginners, Stranger
  <2>3. addr[fd] # NoClient
    BY <2>2, UdpAssumption
  <2>4. inbox[c][1] = [kind |-> "id", id |-> sid[fd]]
    BY <1>3, <2>1, <2>2, <2>3 DEF TurnsInv, IdFirst
  <2>5. Head(inbox[c]) = inbox[c][1]
    BY <2>1, <1>a
  <2>6. cpc' = [cpc EXCEPT ![c] = "prompt"] /\ cid' = [cid EXCEPT ![c] = sid[fd]]
    <3>1. Head(inbox[c]).kind = "id" /\ Head(inbox[c]).id = sid[fd]
      BY <2>4, <2>5
    <3>2. Head(inbox[c]).kind # "half"
      BY <3>1
    <3>3. cpc' = [cpc EXCEPT ![c] = IF Head(inbox[c]).kind = "half" THEN "stuck" ELSE "prompt"]
      BY <1>3 DEF Receive
    <3>4. cid' = [cid EXCEPT ![c] = Head(inbox[c]).id]
      BY <1>3, <3>2 DEF Receive
    <3> QED BY <3>1, <3>2, <3>3, <3>4
  <2>7. Member(c)'
    BY <1>3, <1>a, <2>2, <2>6 DEF Receive, Member, slaveVars
  <2> QED BY <1>3, <1>a, <2>6, <2>7 DEF Receive, Turns
<1> QED BY <1>1, <1>2, <1>3

\* Such a step leaves the packets that are under way as they are.
LEMMA TurnsNet ==
  ASSUME TypeOK, NetInv, Beginners, NEW c \in Client, Turns(c)
  PROVE  NetInv'
<1>1. UNCHANGED <<sock, spc, name, in, addr, sid, cmd>>
  BY DEF Turns, serverVars, slaveVars
<1>2. \A k \in 1 .. Len(sock) : sock[k] \in Datagram
  BY LenProperties DEF TypeOK, NetTypeOK
<1>3. Framed'
  BY <1>1 DEF NetInv, Framed, Follows, Expected
<1>4. \A d \in Client : /\ cpc'[d] \in AtSize <=> cpc[d] \in AtSize
                        /\ cpc'[d] \in AtData <=> cpc[d] \in AtData
                        /\ cpc[d] \in {"s_data", "gone"} => cpc'[d] = cpc[d]
  BY DEF Turns, AtSize, AtData
<1>5. Open'
  BY <1>1, <1>4 DEF NetInv, Open, OpenAfter, OpenInServer
<1>6. Farewell'
  <2>1. Held => name \in Client
    BY DEF NetInv, Ids
  <2>2. \A k \in 1 .. Len(sock) : sock[k].from \in Client
    BY <1>2 DEF Datagram
  <2> QED BY <1>1, <1>4, <2>1, <2>2 DEF NetInv, Farewell, Held
<1>7. ASSUME NEW d \in Client, NEW i, Rightful(d, i) PROVE Rightful(d, i)'
  <2>1. Stranger(d)' = Stranger(d)
    BY <1>1 DEF Stranger
  <2>2. CASE d # c
    <3>1. cpc'[d] = cpc[d] /\ cid'[d] = cid[d]
      BY <2>2 DEF Turns
    <3> QED BY <1>1, <1>7, <2>1, <3>1 DEF Rightful, Member
  <2>3. CASE d = c
    <3>1. ~(cpc[c] = "waitid" /\ Stranger(c))
      BY <1>1 DEF Turns, Member, Stranger
    <3>2. cpc[c] # "g_size" /\ cpc[c] # "g_data"
      BY DEF Turns
    <3>3. i # -1 /\ i = cid[c] /\ Member(c)
      BY <1>7, <2>3, <3>1, <3>2 DEF Rightful
    <3>4. cpc[c] # "waitid"
      BY <3>3 DEF Beginners, Early
    <3>5. cid'[c] = cid[c]
      BY <3>4 DEF Turns
    <3> QED BY <1>1, <2>3, <3>3, <3>5 DEF Rightful, Member
  <2> QED BY <2>2, <2>3
<1>8. Ids'
  <2>1. ASSUME NEW k \in 1 .. Len(sock), sock[k].kind = "id"
        PROVE  Rightful(sock[k].from, sock[k].id)'
    <3>1. PICK d, i : d \in Client /\ d = sock[k].from /\ i = sock[k].id
      BY <1>2 DEF Datagram
    <3>2. Rightful(d, i)
      BY <2>1, <3>1 DEF NetInv, Ids
    <3>3. Rightful(d, i)'
      BY <3>1, <3>2, <1>7
    <3> QED BY <1>1, <3>1, <3>3 DEF Rightful, Stranger, Member
  <2>2. ASSUME Held PROVE name \in Client /\ Rightful(name, in.id)'
    <3>1. PICK d, i : d \in Client /\ d = name /\ i = in.id /\ Rightful(d, i)
      BY <2>2 DEF NetInv, Ids
    <3>2. Rightful(d, i)'
      BY <3>1, <1>7
    <3> QED BY <1>1, <3>1, <3>2 DEF Rightful, Stranger, Member
  <2> QED BY <1>1, <2>1, <2>2 DEF NetInv, Ids, Held
<1> QED BY <1>3, <1>5, <1>6, <1>8 DEF NetInv

\* Such a step keeps what is known of the system.
LEMMA TurnsTurns ==
  ASSUME TypeOK, TurnsInv, NEW c \in Client, Turns(c)
  PROVE  TurnsInv'
<1>1. UNCHANGED <<table, sock, spc, name, why, slave, addr, sid, pipe, cmd>>
  BY DEF Turns, serverVars, slaveVars
<1>2. spc' # "dead" => NetInv'
  BY <1>1, TurnsNet DEF TurnsInv
<1>3. Isolated' /\ StopsOnRequest'
  BY <1>1 DEF TurnsInv, Isolated, StopsOnRequest
<1>4. ASSUME NEW d \in Client
      PROVE  /\ cpc'[d] \in {"new", "g_size", "g_data"} =>
                  Stranger(d)' /\ cmd'[d] = "GETID"
             /\ Stranger(d)' => inbox'[d] = <<>>
             /\ IF cpc'[d] \in Early THEN cid'[d] = -1 ELSE Member(d)'
  <2>1. Stranger(d)' = Stranger(d)
    BY <1>1 DEF Stranger
  <2>2. CASE d # c
    <3>1. cpc'[d] = cpc[d] /\ cid'[d] = cid[d] /\ inbox'[d] = inbox[d]
      BY <2>2 DEF Turns
    <3>2. Member(d)' = Member(d)
      BY <1>1, <3>1 DEF Member
    <3> QED BY <1>1, <2>1, <3>1, <3>2 DEF TurnsInv, Beginners
  <2>3. CASE d = c
    <3>1. cpc'[c] \notin Early
      BY DEF Turns, Early
    <3>2. Member(c)'
      <4>1. CASE cpc[c] = "waitid"
        BY <4>1 DEF Turns
      <4>2. CASE cpc[c] # "waitid"
        <5>1. Member(c) /\ cid'[c] = cid[c]
          BY <4>2 DEF Turns, TurnsInv, Beginners, Early
        <5> QED BY <1>1, <5>1 DEF Member
      <4> QED BY <4>1, <4>2
    <3>3. ~Stranger(c)'
      BY <1>1, <3>2 DEF Stranger, Member
    <3> QED BY <2>3, <3>1, <3>2, <3>3 DEF Early
  <2> QED BY <2>2, <2>3
<1>5. Beginners'
  BY <1>4 DEF Beginners
<1>6. \A d \in Client : cpc[d] = "gone" => cpc'[d] = "gone"
  BY DEF Turns
<1>7. \A fd \in Fd : addr[fd] # NoClient => addr[fd] \in Client
  BY DEF TypeOK, SlaveTypeOK
<1>8. Slaves'
  BY <1>1, <1>6, <1>7 DEF TurnsInv, Slaves, Outstanding, Held, Live, table
<1>9. IdFirst'
  <2>1. \A d \in Client : cpc'[d] = "waitid" => cpc[d] = "waitid" /\ inbox'[d] = inbox[d]
    BY DEF Turns
  <2> QED BY <1>1, <1>7, <2>1 DEF TurnsInv, IdFirst
<1> QED BY <1>2, <1>3, <1>5, <1>8, <1>9 DEF TurnsInv

\* The clients keep what is known of the system.
LEMMA ClientsTurns ==
  ASSUME Orderly, TypeOK, TypeOK', TurnsInv, NEW c \in Client, User(c) \/ ClientStep(c)
  PROVE  TurnsInv'
<1>1. CASE \/ GetID(c) \/ SendSize(c) \/ SendData(c) \/ \E w \in Typed : Type(c, w)
  BY <1>1, ClientSends, SendsTurns
<1>2. CASE Receive(c) \/ EndOfInput(c)
  BY <1>2, ClientTurns, TurnsTurns
<1> QED BY <1>1, <1>2 DEF User, ClientStep

-----------------------------------------------------------------------------
(* The slaves. *)

\* A reply comes behind those that are already in the client's socket.
LEMMA ReplyBehind ==
  ASSUME NetTypeOK, NEW fd \in Fd, NEW rs \in Seq(Answer), Reply(fd, rs)
  PROVE  \A d \in Client :
           /\ d # addr[fd] => inbox'[d] = inbox[d]
           /\ inbox[d] # <<>> => inbox'[d] # <<>> /\ inbox'[d][1] = inbox[d][1]
<1> SUFFICES ASSUME NEW d \in Client
             PROVE  /\ d # addr[fd] => inbox'[d] = inbox[d]
                    /\ inbox[d] # <<>> => inbox'[d] # <<>> /\ inbox'[d][1] = inbox[d][1]
  OBVIOUS
<1>1. inbox'[d] = inbox[d] \/ (d = addr[fd] /\ inbox'[d] = inbox[d] \o rs)
  BY DEF Reply, NetTypeOK
<1>2. ASSUME inbox[d] # <<>>, inbox'[d] = inbox[d] \o rs
      PROVE  inbox'[d] # <<>> /\ inbox'[d][1] = inbox[d][1]
  <2>1. inbox[d] \in Seq(Answer)
    BY DEF NetTypeOK
  <2>2. Len(inbox[d]) \in Nat \ {0} /\ Len(rs) \in Nat
    BY <1>2, <2>1, EmptySeq, LenProperties
  <2>3. /\ Len(inbox'[d]) = Len(inbox[d]) + Len(rs)
        /\ \A i \in 1 .. Len(inbox[d]) : inbox'[d][i] = inbox[d][i]
    BY <1>2, <2>1, ConcatProperties
  <2>4. Len(inbox'[d]) # 0 /\ 1 \in 1 .. Len(inbox[d])
    BY <2>2, <2>3
  <2>5. Len(<<>>) = 0
    BY EmptySeq
  <2> QED BY <2>3, <2>4, <2>5
<1> QED BY <1>1, <1>2

\* What a slave does to the system: it answers its client, and its first answer is
\* the id (server_slave.c:46-97).
LEMMA SlaveTurn ==
  ASSUME TypeOK, TurnsInv, NEW fd \in Fd, SlaveStep(fd) \/ SlaveEndOfPipe(fd)
  PROVE  /\ UNCHANGED <<table, sock, lost, clientVars, serverVars, addr, sid>>
         /\ pipe' = pipe \/ (pipe[fd] # <<>> /\ pipe' = [pipe EXCEPT ![fd] = Tail(@)])
         /\ \A f \in Fd \ {fd} : slave'[f] = slave[f]
         /\ slave[fd] # "none" /\ slave'[fd] \notin {"none", "start"}
         /\ \A d \in Client :
              /\ d # addr[fd] => inbox'[d] = inbox[d]
              /\ inbox[d] # <<>> => inbox'[d] # <<>> /\ inbox'[d][1] = inbox[d][1]
         /\ slave[fd] = "start" /\ addr[fd] \in Client /\ cpc[addr[fd]] = "waitid" =>
              inbox'[addr[fd]] = <<[kind |-> "id", id |-> sid[fd]]>>
         /\ slave[fd] # "dead"
<1>a. NetTypeOK /\ SlaveTypeOK
  BY DEF TypeOK
<1>1. UNCHANGED <<table, sock, lost, clientVars, serverVars, addr, sid>>
  BY DEF SlaveStep, SlaveStart, SlaveClose, SlaveCommand, SlaveBash, SlaveShell,
         SlaveEndOfPipe, Take
<1>2. pipe' = pipe \/ (pipe[fd] # <<>> /\ pipe' = [pipe EXCEPT ![fd] = Tail(@)])
  BY DEF SlaveStep, SlaveStart, SlaveClose, SlaveCommand, SlaveBash, SlaveShell,
         SlaveEndOfPipe, Take
<1>3. /\ \A f \in Fd \ {fd} : slave'[f] = slave[f]
      /\ slave[fd] \in {"start", "loop", "bash"} /\ slave'[fd] \notin {"none", "start"}
  BY <1>a DEF SlaveTypeOK, SlaveStep, SlaveStart, SlaveClose, SlaveCommand, SlaveBash,
     SlaveShell, SlaveEndOfPipe, Take, ReplyLiteral, Becomes, ShellOutcome
<1>4. \E rs \in Seq(Answer) : inbox' = inbox \/ Reply(fd, rs)
  <2>1. CASE UNCHANGED inbox
    BY <2>1, LiteralType
  <2>2. CASE SlaveStart(fd)
    <3>1. <<[kind |-> "id", id |-> sid[fd]]>> \in Seq(Answer)
      BY <1>a DEF SlaveTypeOK, Answer
    <3> QED BY <2>2, <3>1 DEF SlaveStart
  <2>3. CASE \E rs \in {<<Text>>, <<Half>>, <<Text>> \o <<>>, <<Text>> \o <<Text>>} :
               Reply(fd, rs)
    BY <2>3, LiteralType
  <2> QED BY <2>1, <2>2, <2>3 DEF SlaveStep, SlaveClose, SlaveCommand, SlaveBash,
                                  SlaveShell, SlaveEndOfPipe, ReplyLiteral
<1>5. \A d \in Client :
        /\ d # addr[fd] => inbox'[d] = inbox[d]
        /\ inbox[d] # <<>> => inbox'[d] # <<>> /\ inbox'[d][1] = inbox[d][1]
  BY <1>a, <1>4, ReplyBehind
<1>6. ASSUME slave[fd] = "start", addr[fd] \in Client, cpc[addr[fd]] = "waitid"
      PROVE  inbox'[addr[fd]] = <<[kind |-> "id", id |-> sid[fd]]>>
  <2>1. SlaveStart(fd)
    BY <1>6 DEF SlaveStep, SlaveClose, SlaveCommand, SlaveBash, SlaveShell, SlaveEndOfPipe
  <2>2. inbox[addr[fd]] = <<>>
    BY <1>6, UdpAssumption DEF TurnsInv, IdFirst
  <2>3. PICK rs \in Seq(Answer) : rs = <<[kind |-> "id", id |-> sid[fd]]>>
    <3>1. <<[kind |-> "id", id |-> sid[fd]]>> \in Seq(Answer)
      BY <1>a DEF SlaveTypeOK, Answer
    <3> QED BY <3>1
  <2>4. inbox'[addr[fd]] = inbox[addr[fd]] \o rs
    BY <1>a, <1>6, <2>1, <2>3 DEF SlaveStart, Reply, NetTypeOK
  <2> QED BY <2>2, <2>3, <2>4, ConcatEmptySeq
<1> QED BY <1>1, <1>2, <1>3, <1>5, <1>6

\* The slaves keep what is known of the system.
LEMMA SlavesTurns ==
  ASSUME TypeOK, TurnsInv, NEW fd \in Fd, SlaveStep(fd) \/ SlaveEndOfPipe(fd)
  PROVE  TurnsInv'
<1>0. NetTypeOK /\ SlaveTypeOK
  BY DEF TypeOK
<1>1. UNCHANGED <<table, sock, cpc, cid, cmd, spc, in, name, why, addr, sid>>
  BY SlaveTurn DEF clientVars, serverVars
<1>2. spc' # "dead" => NetInv'
  BY <1>1 DEF TurnsInv, NetInv, Framed, Follows, Expected, Open, OpenAfter, OpenInServer,
              Farewell, Ids, Rightful, Held, Stranger, Member
<1>3. StopsOnRequest'
  BY <1>1 DEF TurnsInv, StopsOnRequest
<1>4. Beginners'
  <2>1. \A d \in Client : Stranger(d) => inbox'[d] = inbox[d]
    BY SlaveTurn DEF Stranger
  <2> QED BY <1>1, <2>1 DEF TurnsInv, Beginners, Stranger, Member
<1>5. pipe' = pipe \/ (pipe[fd] # <<>> /\ pipe' = [pipe EXCEPT ![fd] = Tail(@)])
  BY SlaveTurn
<1>6. Slaves'
  <2>1. \A f \in Fd : slave'[f] = "none" => slave[f] = "none" /\ pipe'[f] = pipe[f]
    BY <1>0, <1>5, SlaveTurn DEF SlaveTypeOK
  <2> QED BY <1>1, <2>1 DEF TurnsInv, Slaves, Outstanding, Held, Live, table
<1>7. Isolated'
  <2>1. ASSUME NEW f \in Fd, NEW i \in DOMAIN pipe'[f]
        PROVE  pipe'[f][i].from \in {addr[f], NoClient}
    <3>1. CASE pipe'[f] = pipe[f]
      BY <2>1, <3>1 DEF TurnsInv, Isolated
    <3>2. CASE pipe[f] # <<>> /\ pipe'[f] = Tail(pipe[f])
      <4>1. /\ pipe[f] \in Seq(Passed) /\ pipe'[f] \in Seq(Passed)
            /\ Len(pipe'[f]) = Len(pipe[f]) - 1
            /\ \A k \in 1 .. Len(pipe'[f]) : pipe'[f][k] = pipe[f][k + 1]
        BY <1>0, <3>2, HeadTailProperties DEF SlaveTypeOK
      <4>2. /\ DOMAIN pipe'[f] = 1 .. Len(pipe'[f]) /\ DOMAIN pipe[f] = 1 .. Len(pipe[f])
            /\ Len(pipe[f]) \in Nat
        BY <4>1, LenProperties
      <4>3. i + 1 \in DOMAIN pipe[f] /\ pipe'[f][i] = pipe[f][i + 1]
        BY <2>1, <4>1, <4>2
      <4> QED BY <4>3 DEF TurnsInv, Isolated
    <3> QED BY <1>0, <1>5, <3>1, <3>2 DEF SlaveTypeOK
  <2> QED BY <1>1, <2>1 DEF Isolated
<1>8. IdFirst'
  <2>1. ASSUME NEW f \in Fd, addr[f] # NoClient, cpc[addr[f]] = "waitid"
        PROVE  /\ slave'[f] = "start" => inbox'[addr[f]] = <<>>
               /\ slave'[f] \notin {"start", "dead"} => inbox'[addr[f]] # <<>>
               /\ inbox'[addr[f]] # <<>> =>
                    inbox'[addr[f]][1] = [kind |-> "id", id |-> sid[f]]
    <3>0. addr[f] \in Client
      BY <1>0, <2>1 DEF SlaveTypeOK
    <3>1. /\ slave[f] = "start" => inbox[addr[f]] = <<>>
          /\ slave[f] \notin {"start", "dead"} => inbox[addr[f]] # <<>>
          /\ inbox[addr[f]] # <<>> =>
               inbox[addr[f]][1] = [kind |-> "id", id |-> sid[f]]
      BY <2>1 DEF TurnsInv, IdFirst
    <3>2. CASE f # fd
      <4>1. addr[f] # addr[fd]
        BY <2>1, <3>2 DEF TurnsInv, Slaves
      <4>2. slave'[f] = slave[f] /\ inbox'[addr[f]] = inbox[addr[f]]
        BY <3>0, <3>2, <4>1, SlaveTurn
      <4> QED BY <3>1, <4>2
    <3>3. CASE f = fd /\ slave[f] = "start"
      <4>1. inbox'[addr[f]] = <<[kind |-> "id", id |-> sid[f]]>>
        BY <2>1, <3>0, <3>3, SlaveTurn
      <4>2. slave'[f] # "start"
        BY <3>3, SlaveTurn
      <4>3. <<[kind |-> "id", id |-> sid[f]]>> # <<>>
        OBVIOUS
      <4> QED BY <4>1, <4>2, <4>3
    <3>4. CASE f = fd /\ slave[f] # "start"
      <4>1. slave[f] # "dead" /\ slave'[f] # "start"
        BY <3>4, SlaveTurn
      <4>2. inbox[addr[f]] # <<>>
        BY <3>1, <3>4, <4>1
      <4>3. inbox'[addr[f]] # <<>> /\ inbox'[addr[f]][1] = inbox[addr[f]][1]
        BY <3>0, <4>2, SlaveTurn
      <4> QED BY <3>1, <4>1, <4>2, <4>3
    <3> QED BY <3>2, <3>3, <3>4
  <2> QED BY <1>1, <2>1 DEF IdFirst
<1> QED BY <1>2, <1>3, <1>4, <1>6, <1>7, <1>8 DEF TurnsInv

-----------------------------------------------------------------------------
(* The server reads a datagram. *)

\* The server takes the datagram it waits for, and the rest of the system stands
\* still (packet.c, M_ReadPack_Named).
Reads ==
  /\ sock # <<>> /\ sock' = Tail(sock) /\ name' = sock[1].from
  /\ \/ spc = "id" /\ sock[1].kind = "id" /\ spc' = "size" /\ in'.id = sock[1].id
     \/ /\ spc = "size" /\ sock[1].kind = "size" /\ sock[1].from = name
        /\ spc' = "data" /\ in'.id = in.id /\ in'.what = sock[1].what
     \/ /\ spc = "data" /\ sock[1].kind = "data" /\ sock[1].from = name
        /\ spc' = "run" /\ in'.id = in.id /\ in'.what = in.what /\ sock[1].what = in.what
  /\ UNCHANGED <<table, clientVars, inbox, why, slaveVars>>

\* While clients take turns no datagram is taken for another.
LEMMA ServerReads ==
  ASSUME TypeOK, NetInv, ReadId \/ ReadSize \/ ReadData
  PROVE  Reads
<1>1. sock # <<>> /\ spc \in {"id", "size", "data"}
  BY DEF ReadId, ReadSize, ReadData, Recv
<1>2. Expected(sock[1]) /\ Head(sock) = sock[1]
  BY <1>1 DEF NetInv, Framed, TypeOK, NetTypeOK
<1>3. in \in [id : -1 .. BUFSZ, what : Payload]
  BY DEF TypeOK, ServerTypeOK
<1>4. CASE ReadId
  BY <1>1, <1>2, <1>4 DEF ReadId, Recv, Reads, Expected
<1>5. CASE ReadSize
  <2>1. spc = "size" /\ sock[1].kind = "size" /\ sock[1].from = name
    BY <1>2, <1>5 DEF ReadSize, Recv, Expected
  <2>2. in' = [in EXCEPT !.what = sock[1].what] /\ spc' = "data"
        /\ UNCHANGED <<table, why, slaveVars>>
    BY <1>2, <1>5, <2>1 DEF ReadSize
  <2>3. in'.id = in.id /\ in'.what = sock[1].what
    BY <1>3, <2>2
  <2> QED BY <1>1, <1>2, <1>5, <2>1, <2>2, <2>3 DEF ReadSize, Recv, Reads
<1>6. CASE ReadData
  <2>1. /\ spc = "data" /\ sock[1].kind = "data" /\ sock[1].from = name
        /\ sock[1].what = in.what
    BY <1>2, <1>6 DEF ReadData, Recv, Expected
  <2>2. in' = [in EXCEPT !.what = sock[1].what] /\ spc' = "run"
    BY <1>2, <1>6, <2>1 DEF ReadData
  <2>3. in'.id = in.id /\ in'.what = in.what
    BY <1>3, <2>1, <2>2
  <2> QED BY <1>1, <1>2, <1>6, <2>1, <2>2, <2>3 DEF ReadData, Recv, Reads
<1> QED BY <1>4, <1>5, <1>6

\* What is behind the datagram that is read is what the server then waits for.
LEMMA ReadsFramed ==
  ASSUME TypeOK, NetInv, Reads
  PROVE  Framed'
<1>1. /\ Len(sock) \in Nat \ {0} /\ Len(sock') = Len(sock) - 1
      /\ \A k \in 1 .. Len(sock') : sock'[k] = sock[k + 1]
      /\ sock' = <<>> <=> Len(sock) = 1
  BY SockTail DEF Reads, TypeOK
<1>2. ASSUME NEW k \in 1 .. Len(sock') - 1 PROVE Follows(sock'[k], sock'[k + 1])
  <2>1. /\ k \in 1 .. Len(sock') /\ k + 1 \in 1 .. Len(sock')
        /\ k + 1 \in 1 .. Len(sock) - 1
    BY <1>1
  <2>2. Follows(sock[k + 1], sock[k + 1 + 1])
    BY <2>1 DEF NetInv, Framed
  <2> QED BY <1>1, <2>1, <2>2
<1>3. ASSUME sock' # <<>> PROVE Expected(sock[1])'
  <2>1. 1 \in 1 .. Len(sock') /\ 1 \in 1 .. Len(sock) - 1
    BY <1>1, <1>3
  <2>2. sock'[1] = sock[2] /\ Follows(sock[1], sock[2])
    BY <1>1, <2>1 DEF NetInv, Framed
  <2>3. PICK d : d = sock[2]
    OBVIOUS
  <2>4. Expected(d)'
    BY <2>2, <2>3 DEF Reads, Follows, Expected
  <2> QED BY <2>2, <2>3, <2>4 DEF Expected
<1> QED BY <1>2, <1>3 DEF Framed, Follows

\* Reading changes nothing about who is in the middle of a packet.
LEMMA ReadsOpen ==
  ASSUME TypeOK, NetInv, Reads
  PROVE  Open'
<1>1. /\ Len(sock) \in Nat \ {0} /\ Len(sock') = Len(sock) - 1
      /\ \A k \in 1 .. Len(sock') : sock'[k] = sock[k + 1]
      /\ sock' = <<>> <=> Len(sock) = 1
  BY SockTail DEF Reads, TypeOK
<1>2. OpenAfter(sock[Len(sock)]) /\ UNCHANGED <<cpc, cmd>>
  BY DEF NetInv, Open, Reads, clientVars
<1>3. ASSUME sock' # <<>> PROVE OpenAfter(sock[Len(sock)])'
  <2>1. sock'[Len(sock')] = sock[Len(sock)]
    <3>1. Len(sock') \in 1 .. Len(sock') /\ Len(sock') + 1 = Len(sock)
      BY <1>1, <1>3
    <3> QED BY <1>1, <3>1
  <2> QED BY <1>2, <2>1 DEF OpenAfter
<1>4. ASSUME sock' = <<>> PROVE OpenInServer'
  <2>1. OpenAfter(sock[1])
    BY <1>1, <1>2, <1>4
  <2> QED BY <1>2, <2>1 DEF OpenAfter, OpenInServer, Reads
<1> QED BY <1>3, <1>4 DEF Open

\* Nothing comes from a client behind its exit.
LEMMA ReadsFarewell ==
  ASSUME TypeOK, NetInv, Reads
  PROVE  Farewell'
<1>1. /\ Len(sock) \in Nat \ {0} /\ Len(sock') = Len(sock) - 1
      /\ \A k \in 1 .. Len(sock') : sock'[k] = sock[k + 1]
  BY SockTail DEF Reads, TypeOK
<1>2. UNCHANGED <<cpc, cmd>>
  BY DEF Reads, clientVars
<1>3. ASSUME NEW j \in 1 .. Len(sock'), sock'[j].what = "exit"
      PROVE  /\ sock'[j].kind = "size" =>
                  /\ cmd[sock'[j].from] = "exit" /\ cpc[sock'[j].from] \in {"s_data", "gone"}
                  /\ \A k \in j + 2 .. Len(sock') : sock'[k].from # sock'[j].from
             /\ sock'[j].kind = "data" =>
                  /\ cpc[sock'[j].from] = "gone"
                  /\ \A k \in j + 1 .. Len(sock') : sock'[k].from # sock'[j].from
  <2>1. j + 1 \in 1 .. Len(sock) /\ sock'[j] = sock[j + 1]
    BY <1>1
  <2>2. PICK i \in 1 .. Len(sock) : i = j + 1
    BY <2>1
  <2>3. /\ sock[i].kind = "size" =>
             /\ cmd[sock[i].from] = "exit" /\ cpc[sock[i].from] \in {"s_data", "gone"}
             /\ \A k \in i + 2 .. Len(sock) : sock[k].from # sock[i].from
        /\ sock[i].kind = "data" =>
             /\ cpc[sock[i].from] = "gone"
             /\ \A k \in i + 1 .. Len(sock) : sock[k].from # sock[i].from
    BY <1>3, <2>1, <2>2 DEF NetInv, Farewell
  <2>4. \A k \in j + 2 .. Len(sock') : k + 1 \in i + 2 .. Len(sock) /\ sock'[k] = sock[k + 1]
    BY <1>1, <2>2
  <2>5. \A k \in j + 1 .. Len(sock') : k + 1 \in i + 1 .. Len(sock) /\ sock'[k] = sock[k + 1]
    BY <1>1, <2>2
  <2> QED BY <2>1, <2>2, <2>3, <2>4, <2>5
<1>4. 1 \in 1 .. Len(sock)
  BY <1>1
<1>5. ASSUME spc' = "data", in'.what = "exit"
      PROVE  /\ cmd[name'] = "exit" /\ cpc[name'] \in {"s_data", "gone"}
             /\ \A k \in 2 .. Len(sock') : sock'[k].from # name'
  <2>1. sock[1].kind = "size" /\ sock[1].what = "exit" /\ sock[1].from = name'
    BY <1>5 DEF Reads
  <2>2. /\ cmd[name'] = "exit" /\ cpc[name'] \in {"s_data", "gone"}
        /\ \A k \in 1 + 2 .. Len(sock) : sock[k].from # name'
    BY <1>4, <2>1 DEF NetInv, Farewell
  <2>3. \A k \in 2 .. Len(sock') : k + 1 \in 1 + 2 .. Len(sock) /\ sock'[k] = sock[k + 1]
    BY <1>1
  <2> QED BY <2>2, <2>3
<1>6. ASSUME spc' = "run", in'.what = "exit"
      PROVE  cpc[name'] = "gone" /\ \A k \in 1 .. Len(sock') : sock'[k].from # name'
  <2>1. sock[1].kind = "data" /\ sock[1].what = "exit" /\ sock[1].from = name'
    BY <1>6 DEF Reads
  <2>2. /\ cpc[name'] = "gone"
        /\ \A k \in 1 + 1 .. Len(sock) : sock[k].from # name'
    BY <1>4, <2>1 DEF NetInv, Farewell
  <2>3. \A k \in 1 .. Len(sock') : k + 1 \in 1 + 1 .. Len(sock) /\ sock'[k] = sock[k + 1]
    BY <1>1
  <2> QED BY <2>2, <2>3
<1> QED BY <1>2, <1>3, <1>5, <1>6 DEF Farewell

\* The id that is read is the sender's.
LEMMA ReadsIds ==
  ASSUME TypeOK, NetInv, Reads
  PROVE  Ids'
<1>1. /\ Len(sock) \in Nat \ {0} /\ Len(sock') = Len(sock) - 1
      /\ \A k \in 1 .. Len(sock') : sock'[k] = sock[k + 1]
      /\ \A k \in 1 .. Len(sock) : sock[k] \in Datagram
  BY SockTail DEF Reads, TypeOK
<1>2. UNCHANGED <<cpc, cid, addr, sid>>
  BY DEF Reads, clientVars, slaveVars
<1>3. \A k \in 1 .. Len(sock') : k + 1 \in 1 .. Len(sock) /\ sock'[k] = sock[k + 1]
  BY <1>1
<1>4. ASSUME NEW d, NEW i, Rightful(d, i) PROVE Rightful(d, i)'
  BY <1>2, <1>4 DEF Rightful, Stranger, Member
<1>5. ASSUME NEW k \in 1 .. Len(sock'), sock'[k].kind = "id"
      PROVE  Rightful(sock[k].from, sock[k].id)'
  <2>1. PICK d, i : d = sock'[k].from /\ i = sock'[k].id
    OBVIOUS
  <2>2. Rightful(d, i)
    BY <1>3, <1>5, <2>1 DEF NetInv, Ids
  <2>3. Rightful(d, i)'
    BY <1>4, <2>2
  <2> QED BY <2>1, <2>3 DEF Rightful, Stranger, Member
<1>6. ASSUME NEW j \in 1 .. Len(sock'), NEW k \in 1 .. Len(sock'),
             sock'[j].kind = "id", sock'[k].kind = "id", sock'[j].id = -1,
             sock'[k].from = sock'[j].from
      PROVE  k = j
  <2>1. k + 1 = j + 1
    BY <1>3, <1>6 DEF NetInv, Ids
  <2> QED BY <2>1
<1>7. /\ name' \in Client /\ Rightful(name, in.id)'
      /\ in'.id = -1 => \A k \in 1 .. Len(sock') :
                          sock'[k].kind = "id" => sock'[k].from # name'
  <2>1. PICK d, i : d = name' /\ i = in'.id
    OBVIOUS
  <2>2. CASE spc = "id"
    <3>1. /\ 1 \in 1 .. Len(sock) /\ sock[1].kind = "id"
          /\ d = sock[1].from /\ i = sock[1].id /\ d \in Client
      BY <1>1, <2>1, <2>2 DEF Reads, Datagram
    <3>2. Rightful(d, i)
      BY <3>1 DEF NetInv, Ids
    <3>3. Rightful(d, i)'
      BY <1>4, <3>2
    <3>4. ASSUME i = -1, NEW k \in 1 .. Len(sock'), sock'[k].kind = "id"
          PROVE  sock'[k].from # d
      <4>1. k + 1 \in 1 .. Len(sock) /\ sock'[k] = sock[k + 1] /\ k + 1 # 1
        BY <1>3
      <4> QED BY <3>1, <3>4, <4>1 DEF NetInv, Ids
    <3> QED BY <2>1, <3>1, <3>3, <3>4 DEF Rightful, Stranger, Member
  <2>3. CASE spc # "id"
    <3>1. Held /\ d = name /\ i = in.id
      BY <2>1, <2>3 DEF Reads, Held
    <3>2. /\ d \in Client /\ Rightful(d, i)
          /\ i = -1 => \A k \in 1 .. Len(sock) : sock[k].kind = "id" => sock[k].from # d
      BY <3>1 DEF NetInv, Ids
    <3>3. Rightful(d, i)'
      BY <1>4, <3>2
    <3> QED BY <1>3, <2>1, <3>2, <3>3 DEF Rightful, Stranger, Member
  <2> QED BY <2>2, <2>3
<1> QED BY <1>5, <1>6, <1>7 DEF Ids

\* Reading keeps what is known of the system.
LEMMA ReadsTurns ==
  ASSUME TypeOK, TurnsInv, spc # "dead", Reads
  PROVE  TurnsInv'
<1>1. UNCHANGED <<table, cpc, cid, cmd, inbox, why, slave, addr, sid, pipe>>
  BY DEF Reads, clientVars, slaveVars
<1>2. NetInv'
  BY ReadsFramed, ReadsOpen, ReadsFarewell, ReadsIds DEF TurnsInv, NetInv
<1>3. Beginners' /\ IdFirst' /\ Isolated' /\ StopsOnRequest'
  BY <1>1 DEF TurnsInv, Beginners, Stranger, Member, IdFirst, Isolated, StopsOnRequest
<1>4. ASSUME NEW d, ~Outstanding(d) PROVE ~Outstanding(d)'
  <2>1. /\ Len(sock) \in Nat \ {0} /\ Len(sock') = Len(sock) - 1
        /\ \A k \in 1 .. Len(sock') : sock'[k] = sock[k + 1]
    BY SockTail DEF Reads, TypeOK
  <2>2. \A k \in 1 .. Len(sock') : k + 1 \in 1 .. Len(sock)
    BY <2>1
  <2>3. name' # d
    BY <1>4, <2>1 DEF Outstanding, Reads
  <2> QED BY <1>4, <2>1, <2>2, <2>3 DEF Outstanding
<1>5. ASSUME NEW fd \in Fd, ~Outstanding(addr[fd]) PROVE ~Outstanding(addr[fd])'
  <2>1. PICK d : d = addr[fd]
    OBVIOUS
  <2>2. ~Outstanding(d)
    BY <1>5, <2>1
  <2>3. ~Outstanding(d)'
    BY <1>4, <2>2
  <2> QED BY <1>1, <2>1, <2>3 DEF Outstanding, Held
<1>6. Slaves'
  BY <1>1, <1>5 DEF TurnsInv, Slaves, Live, table
<1> QED BY <1>2, <1>3, <1>6 DEF TurnsInv

-----------------------------------------------------------------------------
(* The server acts on a packet. *)

\* A server that has done with a packet waits for the id of the next.
LEMMA ActsNet ==
  ASSUME TypeOK, NetInv, spc = "run", spc' = "id",
         UNCHANGED <<sock, clientVars, in, name>>,
         \A d \in Client : Member(d) => Member(d)',
         \A d \in Client : Stranger(d) /\ ~(in.id = -1 /\ d = name) => Stranger(d)'
  PROVE  NetInv'
<1>1. UNCHANGED <<sock, cpc, cid, cmd, in, name>>
  BY DEF clientVars
<1>2. \A k \in 1 .. Len(sock) : sock[k] \in Datagram
  BY LenProperties DEF TypeOK, NetTypeOK
<1>3. Framed' /\ Open' /\ Farewell'
  BY <1>1 DEF NetInv, Framed, Follows, Expected, Open, OpenAfter, OpenInServer, Farewell
<1>4. ASSUME NEW k \in 1 .. Len(sock), sock[k].kind = "id"
      PROVE  Rightful(sock[k].from, sock[k].id)'
  <2>1. PICK d, i : d \in Client /\ d = sock[k].from /\ i = sock[k].id
    BY <1>2 DEF Datagram
  <2>2. Rightful(d, i)
    BY <1>4, <2>1 DEF NetInv, Ids
  <2>3. ~(in.id = -1 /\ d = name)
    BY <1>4, <2>1 DEF NetInv, Ids, Held
  <2>4. Rightful(d, i)'
    BY <1>1, <2>1, <2>2, <2>3 DEF Rightful
  <2> QED BY <1>1, <2>1, <2>4 DEF Rightful, Stranger, Member
<1> QED BY <1>1, <1>3, <1>4 DEF NetInv, Ids, Held

\* A client whose request for an id the server acts on has sent the whole of it.
LEMMA Asked ==
  ASSUME TypeOK, NetInv, spc = "run", in.id = -1
  PROVE  /\ name \in Client /\ Stranger(name) /\ cpc[name] = "waitid"
<1>1. /\ name \in Client /\ Stranger(name)
      /\ cpc[name] \in {"g_size", "g_data", "waitid"}
      /\ \A k \in 1 .. Len(sock) : sock[k].kind = "id" => sock[k].from # name
  BY DEF NetInv, Ids, Held, Rightful
<1>2. CASE sock = <<>>
  BY <1>1, <1>2 DEF NetInv, Open, OpenInServer, AtSize, AtData
<1>3. CASE sock # <<>>
  <2>1. /\ Len(sock) \in Nat \ {0}
        /\ \A k \in 1 .. Len(sock) : sock[k] \in Datagram
    BY <1>3, EmptySeq, LenProperties DEF TypeOK, NetTypeOK
  <2>2. Len(sock) \in 1 .. Len(sock)
    BY <2>1
  <2>3. cpc[name] # "g_size"
    BY <1>1, <1>3, <2>2 DEF NetInv, Open, OpenAfter, AtSize
  <2>4. ASSUME cpc[name] = "g_data" PROVE FALSE
    <3>1. sock[Len(sock)].kind = "size" /\ sock[Len(sock)].from = name
      BY <1>1, <1>3, <2>4 DEF NetInv, Open, OpenAfter, AtData
    <3>2. sock[1].kind = "id"
      <4>1. Expected(sock[1])
        BY <1>3, Zenon DEF NetInv, Framed
      <4> QED
        BY <4>1 DEF Expected
    <3>3. PICK k \in 1 .. Len(sock) - 1 : k + 1 = Len(sock)
      <4>1. Len(sock) # 1
        BY <3>1, <3>2
      <4>2. Len(sock) - 1 \in 1 .. Len(sock) - 1 /\ Len(sock) - 1 + 1 = Len(sock)
        BY <2>1, <4>1
      <4> QED BY <4>2
    <3>4. Follows(sock[k], sock[Len(sock)]) /\ sock[k] \in Datagram
      BY <2>1, <3>3 DEF NetInv, Framed
    <3>5. sock[k].kind = "id" /\ sock[k].from = name
      BY <3>1, <3>4 DEF Follows, Datagram
    <3> QED BY <1>1, <2>1, <3>3, <3>5
  <2> QED BY <1>1, <2>3, <2>4
<1> QED BY <1>2, <1>3

\* The id of a member's packet leads to the slave that answers it.
LEMMA Leads ==
  ASSUME TypeOK, TurnsInv, spc = "run", in.id # -1
  PROVE  /\ name \in Client /\ in.id \in Live /\ GetFD(in.id) = IDS[in.id]
         /\ GetFD(in.id) \in Fd /\ addr[GetFD(in.id)] = name
         /\ sid[GetFD(in.id)] = in.id /\ GetFD(in.id) # -1
<1>1. /\ name \in Client /\ in.id = cid[name] /\ Member(name)
  BY DEF TurnsInv, NetInv, Ids, Held, Rightful
<1>2. PICK fd \in Fd : addr[fd] = name /\ sid[fd] = in.id
  BY <1>1 DEF Member
<1>3. addr[fd] # NoClient /\ Outstanding(name)
  BY <1>1, <1>2, UdpAssumption DEF Outstanding, Held
<1>4. Outstanding(addr[fd])
  BY <1>2, <1>3
<1>5. in.id \in Live /\ IDS[in.id] = fd
  BY <1>2, <1>3, <1>4 DEF TurnsInv, Slaves
<1>6. GetFD(in.id) = fd
  BY <1>5, TableAssumption DEF GetFD, Live, Index, TypeOK, TableTypeOK
<1>7. fd # -1
  BY TableAssumption
<1> QED BY <1>1, <1>2, <1>5, <1>6, <1>7

\* The server stops for want of descriptors or because it was asked to.
LEMMA StopTurns ==
  ASSUME TypeOK, Started, TurnsInv, Running, NEW reason \in {"asked", "descriptors"},
         Stop(reason)
  PROVE  TurnsInv'
<1>1. /\ UNCHANGED <<table, sock, cpc, cid, cmd, inbox, name, slave, addr, sid>>
      /\ spc' = "dead" /\ why' = reason
  BY DEF Running, Stop, clientVars
<1>2. Beginners' /\ IdFirst' /\ StopsOnRequest'
  BY <1>1 DEF TurnsInv, Beginners, Stranger, Member, IdFirst, StopsOnRequest
<1>3. \A fd \in Fd : slave[fd] = "none" => pipe'[fd] = pipe[fd]
  BY DEF Stop, Started
<1>4. \A fd \in Fd : ~Outstanding(addr[fd]) => ~Outstanding(addr[fd])'
  BY <1>1 DEF Outstanding, Held
<1>5. Slaves'
  BY <1>1, <1>3, <1>4 DEF TurnsInv, Slaves, Live, table
<1>6. Isolated'
  <2>1. ASSUME NEW fd \in Fd, NEW i \in DOMAIN pipe'[fd]
        PROVE  pipe'[fd][i].from \in {addr[fd], NoClient}
    <3>0. PICK m \in Passed : m = [from |-> NoClient, what |-> "CLOSE_SERVER"]
      BY DEF Passed, Payload, Commands
    <3>1. CASE pipe'[fd] = pipe[fd]
      BY <2>1, <3>1 DEF TurnsInv, Isolated
    <3>2. CASE pipe'[fd] = Append(pipe[fd], m)
      <4>1. pipe[fd] \in Seq(Passed) /\ pipe'[fd] \in Seq(Passed)
            /\ Len(pipe'[fd]) = Len(pipe[fd]) + 1
            /\ (\A k \in 1 .. Len(pipe[fd]) : pipe'[fd][k] = pipe[fd][k])
            /\ pipe'[fd][Len(pipe[fd]) + 1] = m
        BY <3>2, AppendProperties DEF TypeOK, SlaveTypeOK
      <4>2. /\ DOMAIN pipe'[fd] = 1 .. Len(pipe'[fd])
            /\ DOMAIN pipe[fd] = 1 .. Len(pipe[fd]) /\ Len(pipe[fd]) \in Nat
        BY <4>1, LenProperties
      <4>3. i \in 1 .. Len(pipe[fd]) \/ i = Len(pipe[fd]) + 1
        BY <2>1, <4>1, <4>2
      <4> QED BY <3>0, <4>1, <4>2, <4>3 DEF TurnsInv, Isolated
    <3> QED BY <3>0, <3>1, <3>2 DEF Stop, Order
  <2> QED BY <1>1, <2>1 DEF Isolated
<1> QED BY <1>1, <1>2, <1>5, <1>6 DEF TurnsInv

\* A new slave answers the client that asked for it, and nobody else has its id.
LEMMA CreateTurns ==
  ASSUME TypeInv, TurnsInv, Running, in.id = -1, NEW fd \in Fd, slave[fd] = "none",
         Create(fd), NEW s \in {"start", "dead"}, slave' = [slave EXCEPT ![fd] = s],
         addr' = [addr EXCEPT ![fd] = name], sid' = [sid EXCEPT ![fd] = NewID],
         spc' = "id", UNCHANGED <<why, pipe>>
  PROVE  TurnsInv'
<1>0. TypeOK /\ SlaveTypeOK
  BY DEF TypeInv, TypeOK
<1>1. UNCHANGED <<sock, cpc, cid, cmd, inbox, in, name, why, pipe>> /\ spc = "run"
  BY DEF Running, clientVars
<1>2. /\ name \in Client /\ Stranger(name) /\ cpc[name] = "waitid"
  BY <1>0, <1>1, Asked DEF TurnsInv
<1>3. addr[fd] = NoClient /\ pipe[fd] = <<>> /\ name # NoClient
  BY <1>2, UdpAssumption DEF TurnsInv, Slaves
<1>4. \A f \in Fd : /\ addr'[f] = IF f = fd THEN name ELSE addr[f]
                    /\ sid'[f] = IF f = fd THEN NewID ELSE sid[f]
                    /\ slave'[f] = IF f = fd THEN s ELSE slave[f]
  BY <1>0 DEF SlaveTypeOK
<1>5. \A d \in Client : Member(d) => Member(d)'
  <2>1. ASSUME NEW d \in Client, NEW f \in Fd, addr[f] = d, sid[f] = cid[d]
        PROVE  addr'[f] = d /\ sid'[f] = cid'[d]
    BY <1>1, <1>3, <1>4, <2>1, UdpAssumption
  <2> QED BY <2>1 DEF Member
<1>6. \A d \in Client : d # name => (Stranger(d) <=> Stranger(d)')
  BY <1>3, <1>4, UdpAssumption DEF Stranger
<1>7. ~Stranger(name)'
  BY <1>1, <1>4 DEF Stranger
<1>8. NetInv'
  <2>1. NetInv /\ UNCHANGED <<sock, clientVars, in, name>>
    BY <1>1 DEF TurnsInv, Running
  <2>2. \A d \in Client : Stranger(d) /\ ~(in.id = -1 /\ d = name) => Stranger(d)'
    BY <1>6
  <2> QED BY <1>0, <1>1, <1>5, <2>1, <2>2, ActsNet
<1>9. Beginners'
  <2>1. cpc[name] \in Early /\ cpc[name] \notin {"new", "g_size", "g_data"}
    BY <1>2 DEF Early
  <2>2. ASSUME NEW d \in Client
        PROVE  /\ cpc'[d] \in {"new", "g_size", "g_data"} =>
                    Stranger(d)' /\ cmd'[d] = "GETID"
               /\ Stranger(d)' => inbox'[d] = <<>>
               /\ IF cpc'[d] \in Early THEN cid'[d] = -1 ELSE Member(d)'
    <3>1. /\ cpc[d] \in {"new", "g_size", "g_data"} => Stranger(d) /\ cmd[d] = "GETID"
          /\ Stranger(d) => inbox[d] = <<>>
          /\ IF cpc[d] \in Early THEN cid[d] = -1 ELSE Member(d)
      BY DEF TurnsInv, Beginners
    <3>2. CASE d # name
      BY <1>1, <1>5, <1>6, <3>1, <3>2
    <3>3. CASE d = name
      <4>1. ~Stranger(d)'
        BY <1>1, <1>7, <3>3 DEF Stranger
      <4> QED BY <1>1, <2>1, <3>1, <3>3, <4>1
    <3> QED BY <3>2, <3>3
  <2> QED BY <2>2 DEF Beginners
<1>10. /\ Live' = Live \cup {NewID} /\ NewID \in Index \ Live
       /\ \A i \in Index : IDS'[i] = IF i = NewID THEN fd ELSE IDS[i]
  <2>1. Live' = Live \cup {NewID} /\ NewID \in Index \ Live
    BY CreateLive DEF TypeInv
  <2>2. \A i \in Index : IDS'[i] = IF i = NewID THEN fd ELSE IDS[i]
    BY DEF Create, TypeInv, TableInv, TableTypeOK
  <2> QED BY <2>1, <2>2
<1>11. Slaves'
  <2>1. \A f \in Fd : slave'[f] = "none" => addr'[f] = NoClient /\ pipe'[f] = <<>>
    BY <1>1, <1>4 DEF TurnsInv, Slaves
  <2>2. \A f, g \in Fd : addr'[f] = addr'[g] /\ addr'[f] # NoClient => f = g
    BY <1>2, <1>4 DEF TurnsInv, Slaves, Stranger
  <2>3. ASSUME NEW f \in Fd, addr'[f] # NoClient
        PROVE  \/ sid'[f] \in Live' /\ IDS'[sid'[f]] = f
               \/ cpc'[addr'[f]] = "gone" /\ ~Outstanding(addr[f])'
    <3>1. CASE f = fd
      <4>1. sid'[f] = NewID
        BY <1>4, <3>1
      <4> QED BY <1>10, <3>1, <4>1
    <3>2. CASE f # fd
      <4>1. addr'[f] = addr[f] /\ sid'[f] = sid[f] /\ sid[f] \in Index
        BY <1>0, <1>4, <3>2 DEF SlaveTypeOK
      <4>2. CASE sid[f] \in Live /\ IDS[sid[f]] = f
        <5>1. sid[f] \in Live' /\ sid[f] # NewID
          BY <1>10, <4>2
        <5>2. IDS'[sid[f]] = f
          BY <1>10, <4>1, <4>2, <5>1
        <5> QED BY <4>1, <5>1, <5>2
      <4>3. CASE cpc[addr[f]] = "gone" /\ ~Outstanding(addr[f])
        BY <1>1, <4>1, <4>3 DEF Outstanding, Held
      <4> QED BY <2>3, <4>1, <4>2, <4>3 DEF TurnsInv, Slaves
    <3> QED BY <3>1, <3>2
  <2> QED BY <2>1, <2>2, <2>3 DEF Slaves
<1>12. IdFirst'
  <2>1. inbox[name] = <<>>
    BY <1>2 DEF TurnsInv, Beginners
  <2>2. ASSUME NEW f \in Fd, addr'[f] # NoClient, cpc[addr'[f]] = "waitid"
        PROVE  /\ slave'[f] = "start" => inbox[addr'[f]] = <<>>
               /\ slave'[f] \notin {"start", "dead"} => inbox[addr'[f]] # <<>>
               /\ inbox[addr'[f]] # <<>> =>
                    inbox[addr'[f]][1] = [kind |-> "id", id |-> sid'[f]]
    <3>1. CASE f = fd
      <4>1. addr'[f] = name /\ slave'[f] = s
        BY <1>4, <3>1
      <4> QED BY <2>1, <4>1
    <3>2. CASE f # fd
      <4>1. addr'[f] = addr[f] /\ slave'[f] = slave[f] /\ sid'[f] = sid[f]
        BY <1>4, <3>2
      <4> QED BY <2>2, <4>1 DEF TurnsInv, IdFirst
    <3> QED BY <3>1, <3>2
  <2> QED BY <1>1, <2>2 DEF IdFirst
<1>13. Isolated'
  <2>1. ASSUME NEW f \in Fd, NEW i \in DOMAIN pipe[f]
        PROVE  pipe[f][i].from \in {addr'[f], NoClient}
    <3>1. CASE f = fd
      <4>1. pipe[f] \in Seq(Passed)
        BY <1>0 DEF SlaveTypeOK
      <4>2. DOMAIN pipe[f] = 1 .. 0
        BY <1>3, <3>1, <4>1, EmptySeq, LenProperties
      <4> QED BY <2>1, <4>2
    <3>2. CASE f # fd
      <4>1. addr'[f] = addr[f]
        BY <1>4, <3>2
      <4> QED BY <2>1, <4>1 DEF TurnsInv, Isolated
    <3> QED BY <3>1, <3>2
  <2> QED BY <1>1, <2>1 DEF Isolated
<1>14. StopsOnRequest'
  BY <1>1 DEF TurnsInv, StopsOnRequest
<1> QED BY <1>8, <1>9, <1>11, <1>12, <1>13, <1>14 DEF TurnsInv

\* What a client sends is passed to its slave, and its exit ends the slave's place
\* in the table.
LEMMA WriteTurns ==
  ASSUME TypeInv, TurnsInv, WriteMessage
  PROVE  TurnsInv'
<1>0. TypeOK /\ SlaveTypeOK /\ spc = "run" /\ in.id # -1
  BY DEF TypeInv, TypeOK, WriteMessage, Running
<1>1. /\ UNCHANGED <<sock, cpc, cid, cmd, inbox, in, name, why, slave, addr, sid>>
      /\ spc' = "id"
  BY DEF WriteMessage, Running, clientVars
<1>2. PICK fd \in Fd : /\ fd = GetFD(in.id) /\ name \in Client /\ addr[fd] = name
                       /\ in.id \in Live /\ IDS[in.id] = fd /\ sid[fd] = in.id
  BY <1>0, Leads
<1>3. fd # -1 /\ addr[fd] # NoClient
  BY <1>2, TableAssumption, UdpAssumption
<1>4. NetInv'
  <2>1. NetInv /\ UNCHANGED <<sock, clientVars, in, name>>
    BY <1>0 DEF TurnsInv, WriteMessage, Running
  <2>2. \A d \in Client : (Member(d) => Member(d)') /\ (Stranger(d) => Stranger(d)')
    BY <1>1 DEF Member, Stranger
  <2> QED BY <1>0, <1>1, <2>1, <2>2, ActsNet
<1>5. Beginners' /\ IdFirst' /\ StopsOnRequest'
  BY <1>1 DEF TurnsInv, Beginners, Stranger, Member, IdFirst, StopsOnRequest
<1>6. PICK m \in Passed : m.from = name /\ pipe' = [pipe EXCEPT ![fd] = Append(@, m)]
  <2>1. PICK w \in Payload : Write(fd, w)
    <3>1. What \in Payload /\ "CLOSE_SERVER" \in Payload
      BY <1>0 DEF TypeOK, ServerTypeOK, What, Payload, Commands
    <3> QED BY <1>2, <3>1 DEF WriteMessage
  <2>2. [from |-> name, what |-> w] \in Passed
    BY <1>2 DEF Passed
  <2> QED BY <2>1, <2>2 DEF Write
<1>7. \A f \in Fd : pipe'[f] = IF f = fd THEN Append(pipe[f], m) ELSE pipe[f]
  BY <1>0, <1>6 DEF SlaveTypeOK
<1>8. Isolated'
  <2>1. ASSUME NEW f \in Fd, NEW i \in DOMAIN pipe'[f]
        PROVE  pipe'[f][i].from \in {addr[f], NoClient}
    <3>1. CASE f # fd
      <4>1. pipe'[f] = pipe[f]
        BY <1>7, <3>1
      <4> QED BY <2>1, <4>1 DEF TurnsInv, Isolated
    <3>2. CASE f = fd
      <4>0. pipe[f] \in Seq(Passed) /\ pipe'[f] = Append(pipe[f], m)
        BY <1>0, <1>7, <3>2 DEF SlaveTypeOK
      <4>1. pipe[f] \in Seq(Passed) /\ pipe'[f] \in Seq(Passed)
            /\ Len(pipe'[f]) = Len(pipe[f]) + 1
            /\ (\A k \in 1 .. Len(pipe[f]) : pipe'[f][k] = pipe[f][k])
            /\ pipe'[f][Len(pipe[f]) + 1] = m
        BY <1>6, <4>0, AppendProperties
      <4>2. /\ DOMAIN pipe'[f] = 1 .. Len(pipe'[f])
            /\ DOMAIN pipe[f] = 1 .. Len(pipe[f]) /\ Len(pipe[f]) \in Nat
        BY <4>1, LenProperties
      <4>3. i \in 1 .. Len(pipe[f]) \/ i = Len(pipe[f]) + 1
        BY <2>1, <4>1, <4>2
      <4> QED BY <1>2, <1>6, <3>2, <4>1, <4>2, <4>3 DEF TurnsInv, Isolated
    <3> QED BY <3>1, <3>2
  <2> QED BY <1>1, <2>1 DEF Isolated
<1>9. ASSUME NEW f \in Fd, ~Outstanding(addr[f]) PROVE ~Outstanding(addr[f])'
  BY <1>1, <1>9 DEF Outstanding, Held
<1>10. \/ UNCHANGED table
       \/ What = "exit" /\ Delete(in.id)
  BY DEF WriteMessage
<1>11. ASSUME NEW f \in Fd, addr[f] # NoClient
       PROVE  \/ sid[f] \in Live' /\ IDS'[sid[f]] = f
              \/ cpc[addr[f]] = "gone" /\ ~Outstanding(addr[f])'
  <2>1. \/ sid[f] \in Live /\ IDS[sid[f]] = f
        \/ cpc[addr[f]] = "gone" /\ ~Outstanding(addr[f])
    BY <1>11 DEF TurnsInv, Slaves
  <2>2. CASE UNCHANGED table
    BY <1>9, <2>1, <2>2 DEF table, Live
  <2>3. CASE f # fd /\ Delete(in.id) /\ sid[f] \in Live /\ IDS[sid[f]] = f
    <3>1. sid[f] # in.id
      BY <1>2, <2>3
    <3>2. Live' = Live \ {in.id}
      BY <1>2, <1>3, <2>3, DeleteLive DEF TypeInv, Live
    <3>3. IDS'[sid[f]] = IDS[sid[f]]
      BY <1>2, <2>3, <3>1 DEF Delete, TypeInv, TableInv, TableTypeOK, Live
    <3> QED BY <2>3, <3>1, <3>2, <3>3
  <2>4. CASE f = fd /\ What = "exit"
    <3>1. cpc[name] = "gone" /\ \A k \in 1 .. Len(sock) : sock[k].from # name
      BY <1>0, <2>4 DEF TurnsInv, NetInv, Farewell, What
    <3> QED BY <1>1, <1>2, <2>4, <3>1 DEF Outstanding, Held
  <2> QED BY <1>9, <1>10, <2>1, <2>2, <2>3, <2>4
<1>12. Slaves'
  <2>1. \A f \in Fd : slave[f] = "none" => pipe'[f] = pipe[f]
    BY <1>3, <1>7 DEF TurnsInv, Slaves
  <2> QED BY <1>1, <1>11, <2>1 DEF TurnsInv, Slaves, Outstanding
<1> QED BY <1>4, <1>5, <1>8, <1>12 DEF TurnsInv

\* The server keeps what is known of the system.
LEMMA ServerTurns ==
  ASSUME TypeInv, Started, TurnsInv, ServerStep
  PROVE  TurnsInv'
<1>0. TypeOK
  BY DEF TypeInv
<1>1. CASE ReadId \/ ReadSize \/ ReadData
  <2>1. spc # "dead"
    BY <1>1 DEF ReadId, ReadSize, ReadData, Recv
  <2> QED BY <1>0, <1>1, <2>1, ServerReads, ReadsTurns DEF TurnsInv
<1>2. CASE CloseServer
  BY <1>0, <1>2, StopTurns DEF CloseServer
<1>3. CASE NewClient
  <2>1. CASE Stop("descriptors")
    BY <1>0, <1>3, <2>1, StopTurns DEF NewClient
  <2>2. ASSUME NEW fd \in Fd, slave[fd] = "none", Create(fd),
               NEW s \in {"start", "dead"}, slave' = [slave EXCEPT ![fd] = s],
               addr' = [addr EXCEPT ![fd] = name], sid' = [sid EXCEPT ![fd] = NewID],
               spc' = "id", UNCHANGED <<why, pipe>>
        PROVE  TurnsInv'
    <3>1. Running /\ in.id = -1
      BY <1>3 DEF NewClient
    <3> QED BY <2>2, <3>1, CreateTurns
  <2> QED BY <1>3, <2>1, <2>2 DEF NewClient
<1>4. CASE WriteMessage
  BY <1>4, WriteTurns
<1>5. CASE UnknownID
  BY <1>0, <1>5, Leads DEF UnknownID, Running
<1> QED BY <1>1, <1>2, <1>3, <1>4, <1>5 DEF ServerStep

-----------------------------------------------------------------------------
\* Before anyone has sent anything there is nothing to keep apart.
LEMMA TurnsStart == Init => TurnsInv
<1> SUFFICES ASSUME Init PROVE TurnsInv
  OBVIOUS
<1>1. sock = <<>> /\ Len(sock) = 0 /\ 1 .. Len(sock) = {} /\ 1 .. Len(sock) - 1 = {}
  BY EmptySeq DEF Init
<1>2. spc = "id" /\ why = "none"
  BY DEF Init
<1>3. \A c \in Client : /\ cpc[c] = "new" /\ cid[c] = -1 /\ cmd[c] = "GETID"
                        /\ inbox[c] = <<>>
  BY DEF Init
<1>4. \A fd \in Fd : slave[fd] = "none" /\ addr[fd] = NoClient /\ pipe[fd] = <<>>
  BY DEF Init
<1>5. \A c \in Client : Stranger(c)
  BY <1>4, UdpAssumption DEF Stranger
<1>6. NetInv
  BY <1>1, <1>2, <1>3
     DEF NetInv, Framed, Open, OpenInServer, Farewell, Ids, Held, AtSize, AtData
<1>7. Beginners /\ Slaves /\ IdFirst /\ StopsOnRequest
  BY <1>2, <1>3, <1>4, <1>5 DEF Beginners, Early, Slaves, IdFirst, StopsOnRequest
<1>8. Isolated
  <2>1. \A fd \in Fd : DOMAIN pipe[fd] = {}
    BY <1>4
  <2> QED BY <2>1 DEF Isolated
<1> QED BY <1>6, <1>7, <1>8 DEF TurnsInv

\* TurnsInv is inductive.
LEMMA TurnsInvariant == Orderly => (Spec => [](TypeOK /\ TurnsInv))
<1> SUFFICES ASSUME Orderly PROVE Spec => [](TypeOK /\ TurnsInv)
  OBVIOUS
<1>1. /\ TurnsInv /\ ShutdownInv /\ ShutdownInv' /\ [Next]_vars => TurnsInv'
  <2> SUFFICES ASSUME TurnsInv, ShutdownInv, ShutdownInv', [Next]_vars PROVE TurnsInv'
    OBVIOUS
  <2>1. TypeInv /\ TypeOK /\ TypeOK' /\ Started
    BY DEF ShutdownInv, TypeInv
  <2>2. CASE UNCHANGED vars
    BY <2>2 DEF TurnsInv, NetInv, Framed, Follows, Expected, Open, OpenAfter,
       OpenInServer, Farewell, Ids, Rightful, Held, Stranger, Member, Beginners, Slaves,
       Outstanding, IdFirst, Isolated, StopsOnRequest, Live, vars, table, clientVars,
       serverVars, slaveVars
  <2>3. ASSUME NEW c \in Client, User(c) \/ ClientStep(c) PROVE TurnsInv'
    BY <2>1, <2>3, ClientsTurns
  <2>4. ASSUME NEW fd \in Fd, SlaveStep(fd) \/ SlaveEndOfPipe(fd) PROVE TurnsInv'
    BY <2>1, <2>4, SlavesTurns
  <2>5. CASE ServerStep
    BY <2>1, <2>5, ServerTurns
  <2> QED BY <2>2, <2>3, <2>4, <2>5 DEF Next
<1>2. ShutdownInv => TypeOK
  BY DEF ShutdownInv, TypeInv
<1> QED BY <1>1, <1>2, TurnsStart, ShutdownInvariant, PTL DEF Spec

\* While clients take turns and the network loses nothing, a slave is passed only
\* what its own client has sent (server.c:58-84, 116-145).
THEOREM Isolation == Orderly => (Spec => []Isolated)
<1>1. TurnsInv => Isolated
  BY DEF TurnsInv
<1> QED BY <1>1, TurnsInvariant, PTL

\* While clients take turns and the network loses nothing, the id of a client leads
\* to the slave that answers it, ids being given back and given out again as they
\* may (client.c:55-63, ID.c:10-56).
THEOREM Routing == Orderly => (Spec => []Routed)
<1>1. TypeOK /\ TurnsInv => Routed
  <2> SUFFICES ASSUME TypeOK, TurnsInv, NEW c \in Client, InServer(c)
               PROVE  GetFD(cid[c]) # -1 /\ addr[GetFD(cid[c])] = c
    BY DEF Routed
  <2>1. cpc[c] \notin Early /\ cpc[c] # "gone"
    BY DEF InServer, Early
  <2>2. PICK fd \in Fd : addr[fd] = c /\ sid[fd] = cid[c]
    BY <2>1 DEF TurnsInv, Beginners, Member
  <2>3. addr[fd] # NoClient
    BY <2>2, UdpAssumption
  <2>4. cid[c] \in Live /\ IDS[cid[c]] = fd
    BY <2>1, <2>2, <2>3 DEF TurnsInv, Slaves
  <2>5. GetFD(cid[c]) = fd
    BY <2>4, TableAssumption DEF GetFD, Live, Index, TypeOK, TableTypeOK
  <2> QED BY <2>2, <2>5, TableAssumption
<1> QED BY <1>1, TurnsInvariant, PTL

\* While clients take turns and the network loses nothing, the server ends because
\* it is asked to or is out of descriptors, never over a packet (server.c:60-84).
THEOREM OnRequest == Orderly => (Spec => []StopsOnRequest)
<1>1. TurnsInv => StopsOnRequest
  BY DEF TurnsInv
<1> QED BY <1>1, TurnsInvariant, PTL
=============================================================================
