--------------------------- MODULE TcpServerProofs ---------------------------
(***************************************************************************)
(* Proofs about TcpServer: type correctness, whom slaves belong to, and    *)
(* which command an answer is to, for any number of clients, commands and  *)
(* servers one after the other.                                            *)
(***************************************************************************)
EXTENDS TcpServer, SequenceTheorems, FiniteSetTheorems, TLAPS

USE TcpAssumption

States == {"none", "greet", "loop", "shell", "hung", "dead"}

\* A slave cannot have read more than its client has typed, as long as the client is there
\* (client_TCP.c:63-71): Send counts the commands that were read.
Count(c) == cpc[c] # "gone" => Len(toSlave[c]) <= Len(typed[c])

TypeInv == TypeOK /\ \A c \in Client : Count(c)

\* A sequence of replies is a sequence of packets (server_slave.c:434-463).
LEMMA Replies ==
  ASSUME NEW kinds \in Seq({"text", "long", "half"}), NEW k \in Nat
  PROVE  [i \in DOMAIN kinds |-> [kind |-> kinds[i], of |-> k]] \in Seq(Answer)
<1> DEFINE replies == [i \in 1 .. Len(kinds) |-> [kind |-> kinds[i], of |-> k]]
<1>1. /\ Len(kinds) \in Nat
      /\ kinds \in [1 .. Len(kinds) -> {"text", "long", "half"}]
      /\ DOMAIN kinds = 1 .. Len(kinds)
  BY LenProperties
<1>2. \A i \in 1 .. Len(kinds) : kinds[i] \in {"text", "long", "half"}
  BY <1>1
<1>3. \A i \in 1 .. Len(kinds) : [kind |-> kinds[i], of |-> k] \in Answer
  BY <1>2 DEF Answer
<1>4. replies \in [1 .. Len(kinds) -> Answer]
  BY <1>3
<1>5. [1 .. Len(kinds) -> Answer] \subseteq Seq(Answer)
  BY <1>1, SeqDef
<1> QED BY <1>1, <1>4, <1>5

\* Taking a command leaves the types and the count (server_slave.c:85-89).
LEMMA TakeTypes ==
  ASSUME TypeInv, NEW c \in Client, NEW states, Take(c, states)
  PROVE  /\ slave[c] \in states
         /\ toSlave' \in [Client -> Seq(Commands)]
         /\ Len(toSlave'[c]) \in Nat
         /\ cpc[c] # "gone" => Len(toSlave'[c]) < Len(typed[c])
         /\ \A d \in Client : Count(d)'
<1> USE DEF TypeInv, TypeOK, Count, Take
<1>1. toSlave[c] \in Seq(Commands) /\ toSlave[c] # <<>>
  OBVIOUS
<1>2. /\ Tail(toSlave[c]) \in Seq(Commands)
      /\ Len(Tail(toSlave[c])) = Len(toSlave[c]) - 1
  BY <1>1, HeadTailProperties
<1>3. Len(toSlave[c]) \in Nat \ {0}
  BY <1>1, EmptySeq
<1>4. toSlave'[c] = Tail(toSlave[c]) /\ UNCHANGED <<cpc, typed>>
  BY DEF clientVars
<1>5. toSlave' \in [Client -> Seq(Commands)]
  BY <1>2
<1>6. \A d \in Client : d # c => toSlave'[d] = toSlave[d]
  OBVIOUS
<1>7. Len(typed[c]) \in Nat
  BY LenProperties
<1> QED BY <1>2, <1>3, <1>4, <1>5, <1>6, <1>7

\* Sending replies leaves the types (server_slave.c:434-463).
LEMMA SendTypes ==
  ASSUME TypeInv, NEW c \in Client, NEW kinds \in Seq({"text", "long", "half"}),
         NEW s \in States,
         cpc[c] # "gone" => Len(toSlave'[c]) <= Len(typed[c]),
         Len(toSlave'[c]) \in Nat,
         Send(c, kinds, s)
  PROVE  /\ slave' \in [Client -> States]
         /\ toClient' \in [Client -> Seq(Answer)]
<1> USE DEF TypeInv, TypeOK, States
<1>1. slave' \in [Client -> States]
  BY DEF Send, Becomes
<1>2. CASE cpc[c] = "gone"
  BY <1>1, <1>2 DEF Send
<1>3. CASE cpc[c] # "gone"
  <2> DEFINE k == Len(typed[c]) - Len(toSlave'[c])
             replies == [i \in DOMAIN kinds |-> [kind |-> kinds[i], of |-> k]]
  <2>1. k \in Nat
    <3>1. Len(typed[c]) \in Nat
      BY LenProperties
    <3> QED BY <3>1, <1>3
  <2>2. replies \in Seq(Answer)
    BY <2>1, Replies
  <2>3. toClient' = [toClient EXCEPT ![c] = @ \o replies]
    BY <1>3 DEF Send
  <2> HIDE DEF replies
  <2>4. toClient[c] \o replies \in Seq(Answer)
    BY <2>2, ConcatProperties
  <2> QED BY <1>1, <2>3, <2>4
<1> QED BY <1>2, <1>3

\* A client that leaves takes its count along.
LEMMA LeaveTypes ==
  ASSUME TypeInv, NEW c \in Client, Leave(c)
  PROVE  /\ cpc' \in [Client -> {"new", "greet", "prompt", "wait", "gone"}]
         /\ toClient' \in [Client -> Seq(Answer)]
         /\ typed' \in [Client -> Seq(Commands)]
         /\ shown' \in [Client -> Nat]
         /\ astray' \in [Client -> BOOLEAN]
         /\ cpc'[c] = "gone"
         /\ \A d \in Client : d # c => cpc'[d] = cpc[d] /\ typed'[d] = typed[d]
<1> USE DEF TypeInv, TypeOK, Leave
<1>1. <<>> \in Seq(Answer) /\ <<>> \in Seq(Commands)
  BY EmptySeq
<1> QED BY <1>1

-----------------------------------------------------------------------------
\* The steps of the server keep the types (server.c:47-99).
LEMMA ServerTypes ==
  ASSUME TypeInv, ServerStep \/ AcceptFails \/ Start
  PROVE  TypeInv'
<1> USE DEF TypeInv, TypeOK, Count, slaveVars, clientVars
<1>1. CASE Accept
  <2>1. Head(backlog) \in Client /\ Tail(backlog) \in Seq(Client)
    BY <1>1, HeadTailProperties DEF Accept
  <2> QED BY <1>1, <2>1 DEF Accept
<1>2. CASE CreateNewClient
  BY <1>2 DEF CreateNewClient
<1>3. CASE CloseConnection
  BY <1>3 DEF CloseConnection
<1>4. CASE AcceptFails
  BY <1>4 DEF AcceptFails
<1>5. CASE Start
  <2>1. <<>> \in Seq(Client)
    BY EmptySeq
  <2> QED BY <1>5, <2>1 DEF Start
<1> QED BY <1>1, <1>2, <1>3, <1>4, <1>5 DEF ServerStep

\* The steps of a slave keep the types (server_slave.c:42-432).
LEMMA SlaveTypes ==
  ASSUME TypeInv, NEW c \in Client, SlaveStep(c)
  PROVE  TypeInv'
<1>0. /\ <<"text">> \in Seq({"text", "long", "half"})
      /\ <<"half">> \in Seq({"text", "long", "half"})
      /\ <<"long">> \in Seq({"text", "long", "half"})
      /\ <<"text", "text">> \in Seq({"text", "long", "half"})
  OBVIOUS
<1>1. ASSUME slave' \in [Client -> States], toClient' \in [Client -> Seq(Answer)],
             toSlave' \in [Client -> Seq(Commands)], \A d \in Client : Count(d)',
             shells' \subseteq Client,
             UNCHANGED <<writable, serverVars, parent, clientVars>>
      PROVE  TypeInv'
  BY <1>1 DEF TypeInv, TypeOK, States, serverVars, clientVars
<1>2. ASSUME NEW s \in States, Becomes(c, s) PROVE slave' \in [Client -> States]
  BY <1>2 DEF Becomes, TypeInv, TypeOK, States
<1>3. ASSUME NEW states, Take(c, states), UNCHANGED serverVars, shells' \subseteq Client,
             NEW s \in States, Becomes(c, s) /\ UNCHANGED toClient
      PROVE  TypeInv'
  BY <1>1, <1>2, <1>3, TakeTypes DEF Take, TypeInv, TypeOK
<1>4. ASSUME NEW states, Take(c, states), UNCHANGED serverVars, shells' \subseteq Client,
             NEW s \in States, NEW kinds \in Seq({"text", "long", "half"}), Send(c, kinds, s)
      PROVE  TypeInv'
  <2>1. /\ toSlave' \in [Client -> Seq(Commands)] /\ Len(toSlave'[c]) \in Nat
        /\ cpc[c] # "gone" => Len(toSlave'[c]) < Len(typed[c])
        /\ \A d \in Client : Count(d)'
    BY <1>4, TakeTypes
  <2>2. Len(typed[c]) \in Nat
    BY LenProperties DEF TypeInv, TypeOK
  <2>3. slave' \in [Client -> States] /\ toClient' \in [Client -> Seq(Answer)]
    BY <1>4, <2>1, <2>2, SendTypes
  <2> QED BY <1>1, <1>4, <2>1, <2>3 DEF Take
<1>a. shells \subseteq Client
  BY DEF TypeInv, TypeOK
<1> USE DEF States
<1>5. CASE Greet(c)
  <2>1. Len(toSlave'[c]) \in Nat /\ (cpc[c] # "gone" => Len(toSlave'[c]) <= Len(typed[c]))
    BY <1>5, LenProperties DEF Greet, TypeInv, TypeOK, Count
  <2>2. slave' \in [Client -> States] /\ toClient' \in [Client -> Seq(Answer)]
    BY <1>0, <1>5, <2>1, SendTypes DEF Greet
  <2> QED BY <1>1, <1>5, <2>2 DEF Greet, TypeInv, TypeOK, Count, clientVars
<1>6. CASE Exit(c)
  BY <1>a, <1>3, <1>6 DEF Exit
<1>7. CASE CloseServer(c)
  BY <1>2, <1>7, TakeTypes DEF CloseServer, Take, TypeInv, TypeOK, clientVars
<1>8. CASE AnswerOnce(c)
  BY <1>a, <1>0, <1>4, <1>8 DEF AnswerOnce
<1>9. CASE BadCD(c)
  BY <1>a, <1>0, <1>4, <1>9 DEF BadCD
<1>10. CASE MakeLs(c)
  BY <1>a, <1>0, <1>3, <1>4, <1>10 DEF MakeLs
<1>11. CASE CreateBash(c)
  BY <1>a, <1>0, <1>3, <1>4, <1>11 DEF CreateBash
<1>12. CASE Shell(c)
  BY <1>a, <1>0, <1>3, <1>4, <1>12 DEF Shell
<1>13. CASE EndOfStream(c)
  <2>1. slave' \in [Client -> States]
    BY <1>2, <1>13 DEF EndOfStream
  <2> QED BY <1>1, <1>13, <2>1 DEF EndOfStream, TypeInv, TypeOK, Count, clientVars
<1> QED BY <1>5, <1>6, <1>7, <1>8, <1>9, <1>10, <1>11, <1>12, <1>13 DEF SlaveStep

\* What ends in a shell leaves the types.
LEMMA ShellTypes ==
  ASSUME TypeInv, NEW c \in Client, ShellEnds(c)
  PROVE  TypeInv'
BY DEF ShellEnds, TypeInv, TypeOK, Count, serverVars, clientVars

\* The steps of a client and its user keep the types (client_TCP.c:11-84).
LEMMA ClientTypes ==
  ASSUME TypeInv, NEW c \in Client, ClientStep(c) \/ User(c)
  PROVE  TypeInv'
<1> USE DEF TypeInv, TypeOK, Count, serverVars, slaveVars
<1>0. /\ Len(typed[c]) \in Nat /\ Len(toSlave[c]) \in Nat
      /\ <<>> \in Seq(Answer)
  BY LenProperties, EmptySeq
<1>1. CASE Connect(c)
  <2>1. Append(backlog, c) \in Seq(Client)
    BY AppendProperties
  <2> QED BY <1>1, <2>1 DEF Connect
<1>2. CASE Killed(c)
  BY <1>2, LeaveTypes DEF Killed
<1>3. ASSUME NEW w \in Typed, Type(c, w) PROVE TypeInv'
  <2>1. w \in Commands
    OBVIOUS
  <2>2. /\ Append(toSlave[c], w) \in Seq(Commands)
        /\ Len(Append(toSlave[c], w)) = Len(toSlave[c]) + 1
        /\ Append(typed[c], w) \in Seq(Commands)
        /\ Len(Append(typed[c], w)) = Len(typed[c]) + 1
    BY <2>1, AppendProperties
  <2>3. toSlave' \in [Client -> Seq(Commands)]
    BY <1>3, <2>2 DEF Type
  <2>4. \A d \in Client : d # c => toSlave'[d] = toSlave[d]
    BY <1>3 DEF Type
  <2>5. CASE w \in Leaving \/ ~Connected(c)
    BY <1>3, <2>3, <2>4, <2>5, LeaveTypes DEF Type
  <2>6. CASE ~(w \in Leaving \/ ~Connected(c))
    <3>1. /\ toSlave' = [toSlave EXCEPT ![c] = Append(toSlave[c], w)]
          /\ cpc' = [cpc EXCEPT ![c] = "wait"]
          /\ typed' = [typed EXCEPT ![c] = Append(typed[c], w)]
          /\ UNCHANGED <<writable, serverVars, slaveVars, toClient, shown, astray>>
      BY <1>3, <2>6 DEF Type
    <3>2. Len(toSlave[c]) <= Len(typed[c])
      BY <1>3 DEF Type
    <3>3. Len(toSlave'[c]) <= Len(typed'[c])
      BY <1>0, <2>2, <3>1, <3>2
    <3>4. \A d \in Client : d # c => typed'[d] = typed[d] /\ cpc'[d] = cpc[d]
      BY <3>1
    <3>5. \A d \in Client : Count(d)'
      BY <2>4, <3>3, <3>4
    <3>6. TypeOK'
      BY <2>2, <2>3, <3>1
    <3> QED BY <3>5, <3>6
  <2> QED BY <2>5, <2>6
<1>4. CASE Receive(c)
  <2>1. toClient[c] \in Seq(Answer) /\ toClient[c] # <<>>
    BY <1>4 DEF Receive
  <2>2. /\ Head(toClient[c]) \in Answer /\ Tail(toClient[c]) \in Seq(Answer)
        /\ 1 \in 1 .. Len(toClient[c]) /\ toClient[c][1] \in Answer
    BY <2>1, HeadTailProperties, EmptySeq, ElementOfSeq
  <2>3. Head(toClient[c]).of \in Nat /\ [toClient[c][1] EXCEPT !.kind = "rest"] \in Answer
    BY <2>2 DEF Answer
  <2>4. [toClient[c] EXCEPT ![1] = [toClient[c][1] EXCEPT !.kind = "rest"]] \in Seq(Answer)
    BY <2>1, <2>2, <2>3, ExceptSeq
  <2>5. toClient' \in [Client -> Seq(Answer)]
    BY <1>4, <2>2, <2>4 DEF Receive
  <2> QED BY <1>4, <2>3, <2>5 DEF Receive, Waiting
<1>5. ASSUME NEW left \in Seq(Answer), Waiting(c), ShowGarbage(c, left),
             UNCHANGED <<writable, serverVars, slaveVars, toSlave>>
      PROVE  TypeInv'
  BY <1>5, <1>0 DEF ShowGarbage, Waiting
<1>6. ASSUME Leave(c), UNCHANGED <<writable, serverVars, slaveVars, toSlave>>
      PROVE  TypeInv'
  BY <1>6, LeaveTypes
<1>7. CASE ReceiveRest(c)
  BY <1>0, <1>5, <1>6, <1>7 DEF ReceiveRest
<1>8. CASE ReceiveEnd(c)
  BY <1>0, <1>5, <1>6, <1>8 DEF ReceiveEnd
<1> QED BY <1>1, <1>2, <1>3, <1>4, <1>7, <1>8 DEF ClientStep, User

\* TypeInv holds in every behaviour.
LEMMA TypeInvariant == Spec => []TypeInv
<1>1. Init => TypeInv
  BY EmptySeq DEF Init, TypeInv, TypeOK, Count
<1>2. TypeInv /\ [Next]_vars => TypeInv'
  <2>1. ASSUME TypeInv, UNCHANGED vars PROVE TypeInv'
    BY <2>1 DEF vars, serverVars, slaveVars, clientVars, TypeInv, TypeOK, Count
  <2> QED BY <2>1, ServerTypes, SlaveTypes, ShellTypes, ClientTypes DEF Next
<1> QED BY <1>1, <1>2, PTL DEF Spec

\* The types of all variables of server, slaves and clients (server.c, server_slave.c,
\* client_TCP.c).
THEOREM TypeCorrect == Spec => []TypeOK
<1>1. TypeInv => TypeOK
  BY DEF TypeInv
<1> QED BY <1>1, TypeInvariant, PTL

-----------------------------------------------------------------------------
(* Whom slaves belong to. *)

\* A slave stays with the server that forked it: a new server starts only when no slave
\* is alive (server.c:32, 78).
LEMMA OwnStep == TypeInv /\ OwnServer /\ [Next]_vars => OwnServer'
<1> SUFFICES ASSUME TypeInv, OwnServer, [Next]_vars PROVE OwnServer'
  OBVIOUS
<1> USE DEF TypeInv, TypeOK, OwnServer, Alive
<1>1. CASE UNCHANGED vars
  BY <1>1 DEF vars, serverVars, slaveVars
<1>2. CASE ServerStep
  <2>1. CASE Accept BY <2>1 DEF Accept, slaveVars
  <2>2. CASE CreateNewClient BY <2>2 DEF CreateNewClient
  <2>3. CASE CloseConnection BY <2>3 DEF CloseConnection, slaveVars
  <2> QED BY <1>2, <2>1, <2>2, <2>3 DEF ServerStep
<1>3. CASE AcceptFails
  BY <1>3 DEF AcceptFails
<1>4. CASE Start
  BY <1>4 DEF Start, PortTaken, slaveVars
<1>5. ASSUME NEW c \in Client, SlaveStep(c) PROVE OwnServer'
  <2>1. ASSUME NEW s, Alive(c), slave' = [slave EXCEPT ![c] = s],
               UNCHANGED <<run, parent>>, srv' # "down" => srv # "down"
        PROVE  OwnServer'
    BY <2>1
  <2>2. ASSUME NEW states \in SUBSET {"loop", "shell"}, Take(c, states)
        PROVE  Alive(c) /\ parent' = parent
    BY <2>2 DEF Take
  <2>3. /\ {"loop"} \in SUBSET {"loop", "shell"} /\ {"shell"} \in SUBSET {"loop", "shell"}
        /\ {"loop", "shell"} \in SUBSET {"loop", "shell"}
    OBVIOUS
  <2> HIDE DEF Alive, OwnServer
  <2> USE DEF Becomes, Send, serverVars
  <2>4. CASE Greet(c)
    BY <2>1, <2>4 DEF Greet, Alive
  <2>5. CASE Exit(c)
    BY <2>1, <2>2, <2>3, <2>5 DEF Exit
  <2>6. CASE CloseServer(c)
    BY <2>1, <2>2, <2>3, <2>6 DEF CloseServer
  <2>7. CASE AnswerOnce(c)
    BY <2>1, <2>2, <2>3, <2>7 DEF AnswerOnce
  <2>8. CASE BadCD(c)
    BY <2>1, <2>2, <2>3, <2>8 DEF BadCD
  <2>9. CASE MakeLs(c)
    BY <2>1, <2>2, <2>3, <2>9 DEF MakeLs
  <2>10. CASE CreateBash(c)
    BY <2>1, <2>2, <2>3, <2>10 DEF CreateBash
  <2>11. CASE Shell(c)
    BY <2>1, <2>2, <2>3, <2>11 DEF Shell
  <2>12. CASE EndOfStream(c)
    BY <2>1, <2>12 DEF EndOfStream, Alive
  <2> QED
    BY <1>5, <2>4, <2>5, <2>6, <2>7, <2>8, <2>9, <2>10, <2>11, <2>12 DEF SlaveStep
<1>6. ASSUME NEW c \in Client, ClientStep(c) \/ User(c) PROVE OwnServer'
  BY <1>6 DEF ClientStep, User, Receive, ReceiveRest, ReceiveEnd, Connect, Killed, Type,
              serverVars, slaveVars
<1>7. ASSUME NEW c \in Client, ShellEnds(c) PROVE OwnServer'
  BY <1>7 DEF ShellEnds, serverVars
<1> QED BY <1>1, <1>2, <1>3, <1>4, <1>5, <1>6, <1>7 DEF Next

\* While a server runs, all slaves are its own, so that none kills a server that is not its
\* parent, with any number of servers one after the other (server_slave.c:97-108).
THEOREM OwnServers == Spec => []OwnServer
<1>1. Init => OwnServer
  BY DEF Init, OwnServer, Alive
<1> QED BY <1>1, OwnStep, TypeInvariant, PTL DEF Spec

-----------------------------------------------------------------------------
(* Which command an answer is to. *)

\* How many answers the client has shown, with the greeting.
Received(c) ==
  IF cpc[c] \in {"new", "greet"} THEN 0
  ELSE IF cpc[c] = "wait" THEN Len(typed[c]) ELSE Len(typed[c]) + 1

\* How many commands the slave has read.
ReadBy(c) == Len(typed[c]) - Len(toSlave[c])

\* Answer number g, the greeting being number 0, may be to command k.
InPlace(c, g, k) ==
  /\ k <= Len(typed[c]) /\ k <= g /\ g <= k + Extra(c, k)
  /\ k > 0 => g > k - 1 + Extra(c, k - 1)

\* No reply has been read in part.
Whole(c) == toClient[c] = <<>> \/ toClient[c][1].kind # "rest"

\* How many answers the slave has sent, with the greeting.
SentBy(c) ==
  IF slave[c] \in {"none", "greet"} THEN 0 ELSE 1 + ReadBy(c) + Extra(c, ReadBy(c))

Flow(c) ==
  /\ cpc[c] \in {"new", "greet"} => typed[c] = <<>>
  /\ cpc[c] = "wait" => typed[c] # <<>>
  /\ slave[c] \in {"none", "greet"} => toClient[c] = <<>>
  /\ \A i \in 1 .. Len(toSlave[c]) : toSlave[c][i] = typed[c][ReadBy(c) + i]
  /\ slave[c] = "loop" => \A j \in 1 .. ReadBy(c) : typed[c][j] # "bash"
  /\ slave[c] = "shell" => \E j \in 1 .. ReadBy(c) : typed[c][j] = "bash"
  /\ Whole(c) /\ slave[c] \notin {"hung", "dead"} => Received(c) + Len(toClient[c]) = SentBy(c)
  /\ Whole(c) => \A i \in 1 .. Len(toClient[c]) :
                    InPlace(c, Received(c) + i - 1, toClient[c][i].of)
  /\ cpc[c] = "prompt" => InPlace(c, Len(typed[c]), shown[c])

StepInv == \A c \in Client : cpc[c] # "gone" /\ ~astray[c] => Flow(c)

\* A further command adds one answer if it is a cd that fails outside the shell, and else
\* none (server_slave.c:322-340).
LEMMA ExtraStep ==
  ASSUME NEW c \in Client, NEW k \in Nat
  PROVE  /\ Extra(c, k) \in Nat
         /\ Extra(c, 0) = 0
         /\ Extra(c, k + 1) =
              IF typed[c][k + 1] = "badcd" /\ \A j \in 1 .. k + 1 : typed[c][j] # "bash"
              THEN Extra(c, k) + 1 ELSE Extra(c, k)
<1> DEFINE Is(i) == typed[c][i] = "badcd" /\ \A j \in 1 .. i : typed[c][j] # "bash"
           Bad(m) == {i \in 1 .. m : Is(i)}
<1>1. \A m \in Nat : Extra(c, m) = Cardinality(Bad(m))
  BY DEF Extra
<1>2. \A m \in Nat : IsFiniteSet(Bad(m)) /\ Cardinality(Bad(m)) \in Nat
  <2> SUFFICES ASSUME NEW m \in Nat PROVE IsFiniteSet(Bad(m)) /\ Cardinality(Bad(m)) \in Nat
    OBVIOUS
  <2>1. IsFiniteSet(1 .. m)
    BY FS_Interval
  <2>2. Bad(m) \in SUBSET (1 .. m)
    OBVIOUS
  <2>3. IsFiniteSet(Bad(m))
    BY <2>1, <2>2, FS_Subset
  <2> QED BY <2>3, FS_CardinalityType
<1>3. Bad(0) = {}
  OBVIOUS
<1>4. Cardinality(Bad(0)) = 0
  BY <1>3, FS_EmptySet
<1>5. Bad(k + 1) = IF Is(k + 1) THEN Bad(k) \cup {k + 1} ELSE Bad(k)
  <2> HIDE DEF Is
  <2> QED OBVIOUS
<1>6. k + 1 \notin Bad(k)
  OBVIOUS
<1>7. Cardinality(Bad(k) \cup {k + 1}) = Cardinality(Bad(k)) + 1
  <2> HIDE DEF Bad
  <2> QED BY <1>2, <1>6, FS_AddElement
<1>8. Cardinality(Bad(k + 1)) =
        IF Is(k + 1) THEN Cardinality(Bad(k)) + 1 ELSE Cardinality(Bad(k))
  <2> HIDE DEF Bad, Is
  <2> QED BY <1>5, <1>7
<1>9. Extra(c, k + 1) = IF Is(k + 1) THEN Extra(c, k) + 1 ELSE Extra(c, k)
  <2> HIDE DEF Bad, Is
  <2> QED BY <1>1, <1>8
<1>10. Extra(c, k) \in Nat /\ Extra(c, 0) = 0
  <2> HIDE DEF Bad, Is
  <2> QED BY <1>1, <1>2, <1>4
<1> QED BY <1>9, <1>10

\* The commands up to number k decide how many answers there are to them.
LEMMA ExtraSame ==
  ASSUME NEW c \in Client, NEW k \in Nat, \A i \in 1 .. k : typed'[c][i] = typed[c][i]
  PROVE  Extra(c, k)' = Extra(c, k)
<1>1. {i \in 1 .. k : /\ typed'[c][i] = "badcd" /\ \A j \in 1 .. i : typed'[c][j] # "bash"} =
      {i \in 1 .. k : /\ typed[c][i] = "badcd" /\ \A j \in 1 .. i : typed[c][j] # "bash"}
  OBVIOUS
<1> QED BY <1>1 DEF Extra

\* What others do leaves a client's answers where they are, and so does a slave that begins
\* or fails.
LEMMA FlowStays ==
  ASSUME TypeInv, NEW c \in Client, Flow(c),
         UNCHANGED <<cpc[c], typed[c], toSlave[c], toClient[c], shown[c]>>,
         \/ slave'[c] = slave[c]
         \/ slave'[c] \in {"hung", "dead"}
         \/ slave[c] = "none" /\ slave'[c] = "greet"
  PROVE  Flow(c)'
<1>1. \A k : Extra(c, k)' = Extra(c, k)
  BY DEF Extra
<1>2. Received(c)' = Received(c) /\ ReadBy(c)' = ReadBy(c) /\ Whole(c)' = Whole(c)
  BY DEF Received, ReadBy, Whole
<1>3. \A g, k : InPlace(c, g, k)' = InPlace(c, g, k)
  BY <1>1 DEF InPlace
<1>4. slave'[c] \notin {"hung", "dead"} =>
        SentBy(c)' = SentBy(c) /\ slave[c] \notin {"hung", "dead"}
  BY <1>1, <1>2 DEF SentBy
<1> QED BY <1>2, <1>3, <1>4 DEF Flow

\* The slave takes the next command: everything but the answers.
LEMMA TakeFlow ==
  ASSUME TypeInv, NEW c \in Client, Flow(c), cpc[c] # "gone", NEW states, Take(c, states)
  PROVE  /\ ReadBy(c) \in Nat /\ ReadBy(c)' = ReadBy(c) + 1
         /\ ReadBy(c) + 1 <= Len(typed[c])
         /\ Command(c) = typed[c][ReadBy(c) + 1]
         /\ \A i \in 1 .. Len(toSlave[c])' : toSlave[c]'[i] = typed[c][ReadBy(c)' + i]
         /\ UNCHANGED <<cpc, typed, shown>>
         /\ Received(c)' = Received(c)
         /\ \A k : Extra(c, k)' = Extra(c, k)
         /\ \A g, k : InPlace(c, g, k)' = InPlace(c, g, k)
<1> DEFINE q == toSlave[c]
<1>1. q \in Seq(Commands) /\ q # <<>> /\ Len(typed[c]) \in Nat
  BY LenProperties DEF Take, TypeInv, TypeOK
<1>2. /\ Len(q) \in Nat \ {0} /\ Len(Tail(q)) = Len(q) - 1 /\ Head(q) = q[1]
      /\ \A i \in 1 .. Len(Tail(q)) : Tail(q)[i] = q[i + 1]
  BY <1>1, HeadTailProperties, EmptySeq
<1>3. toSlave'[c] = Tail(q) /\ UNCHANGED <<cpc, typed, shown>>
  BY DEF Take, TypeInv, TypeOK, clientVars
<1>4. Len(q) <= Len(typed[c])
  BY DEF TypeInv, Count
<1>5. \A i \in 1 .. Len(q) : q[i] = typed[c][ReadBy(c) + i]
  BY DEF Flow
<1>6. ReadBy(c) \in Nat /\ ReadBy(c)' = ReadBy(c) + 1 /\ ReadBy(c) + 1 <= Len(typed[c])
  <2>1. ReadBy(c) = Len(typed[c]) - Len(q) /\ ReadBy(c)' = Len(typed[c]) - Len(Tail(q))
    BY <1>3 DEF ReadBy
  <2> HIDE DEF q
  <2> QED BY <1>1, <1>2, <1>4, <2>1
<1>7. Command(c) = typed[c][ReadBy(c) + 1]
  BY <1>2, <1>5 DEF Command
<1>8. \A i \in 1 .. Len(Tail(q)) : Tail(q)[i] = typed[c][ReadBy(c) + 1 + i]
  <2> SUFFICES ASSUME NEW i \in 1 .. Len(Tail(q))
               PROVE  Tail(q)[i] = typed[c][ReadBy(c) + 1 + i]
    OBVIOUS
  <2>1. i + 1 \in 1 .. Len(q) /\ Tail(q)[i] = q[i + 1]
    BY <1>2
  <2>2. ReadBy(c) + (i + 1) = ReadBy(c) + 1 + i
    BY <1>6
  <2> QED BY <1>5, <2>1, <2>2
<1>9. Received(c)' = Received(c) /\ \A k : Extra(c, k)' = Extra(c, k)
  BY <1>3 DEF Received, Extra
<1>10. \A g, k : InPlace(c, g, k)' = InPlace(c, g, k)
  BY <1>3, <1>9 DEF InPlace
<1> QED BY <1>3, <1>6, <1>7, <1>8, <1>9, <1>10

\* The slave takes a command, answers it as often as Extra counts, and goes on or fails.
LEMMA AnswerFlow ==
  ASSUME TypeInv, NEW c \in Client, Flow(c), cpc[c] # "gone",
         NEW states, Take(c, states), slave[c] \in {"loop", "shell"},
         NEW kinds \in Seq({"text", "long", "half"}), kinds # <<>>,
         NEW s \in {"loop", "shell", "hung", "dead"}, Send(c, kinds, s),
         Len(kinds) = 1 + Extra(c, ReadBy(c) + 1) - Extra(c, ReadBy(c)),
         s = "loop" => slave[c] = "loop" /\ Command(c) # "bash",
         s = "shell" => slave[c] = "shell" \/ Command(c) = "bash"
  PROVE  Flow(c)'
<1> DEFINE k == ReadBy(c) + 1
           t == toClient[c]
           new == [i \in DOMAIN kinds |-> [kind |-> kinds[i], of |-> k]]
<1>1. /\ ReadBy(c) \in Nat /\ ReadBy(c)' = k /\ k <= Len(typed[c])
      /\ Command(c) = typed[c][k]
      /\ \A i \in 1 .. Len(toSlave[c])' : toSlave[c]'[i] = typed[c][ReadBy(c)' + i]
      /\ UNCHANGED <<cpc, typed, shown>>
      /\ Received(c)' = Received(c)
      /\ \A m : Extra(c, m)' = Extra(c, m)
      /\ \A g, m : InPlace(c, g, m)' = InPlace(c, g, m)
  BY TakeFlow
<1>2. k \in Nat /\ Extra(c, k) \in Nat /\ Extra(c, ReadBy(c)) \in Nat /\ k - 1 = ReadBy(c)
  <2>1. k \in Nat /\ k - 1 = ReadBy(c)
    BY <1>1
  <2>2. Extra(c, ReadBy(c)) \in Nat
    BY <1>1, ExtraStep
  <2>3. Extra(c, k) \in Nat
    <3> HIDE DEF k
    <3> QED BY <2>1, ExtraStep
  <2> QED BY <2>1, <2>2, <2>3
<1>3. /\ Len(kinds) \in Nat \ {0} /\ DOMAIN kinds = 1 .. Len(kinds)
      /\ \A i \in 1 .. Len(kinds) : kinds[i] \in {"text", "long", "half"}
  BY LenProperties, EmptySeq, ElementOfSeq
<1>4. k = Len(typed[c]) - Len(toSlave'[c])
  BY <1>1 DEF ReadBy
<1>5. slave'[c] = s /\ toClient'[c] = t \o new
  BY <1>4 DEF Send, Becomes, TypeInv, TypeOK
<1>6. t \in Seq(Answer) /\ new \in Seq(Answer) /\ Len(t) \in Nat
  <2>1. t \in Seq(Answer)
    BY DEF TypeInv, TypeOK
  <2>2. new \in Seq(Answer)
    BY <1>2, Replies
  <2> QED BY <2>1, <2>2, LenProperties
<1>7. Len(new) = Len(kinds) /\ \A i \in 1 .. Len(kinds) : new[i] = [kind |-> kinds[i], of |-> k]
  BY <1>3, <1>6, LenProperties
<1> HIDE DEF new
<1>8. /\ Len(t \o new) = Len(t) + Len(kinds)
      /\ \A i \in 1 .. Len(t) + Len(kinds) :
           (t \o new)[i] = IF i <= Len(t) THEN t[i] ELSE new[i - Len(t)]
  <2>1. /\ Len(t \o new) = Len(t) + Len(new)
        /\ \A i \in 1 .. Len(t) + Len(new) :
             (t \o new)[i] = IF i <= Len(t) THEN t[i] ELSE new[i - Len(t)]
    <3> HIDE DEF t
    <3> QED BY <1>6, ConcatProperties
  <2> QED BY <1>7, <2>1
<1>9. Whole(c)' => Whole(c)
  <2> SUFFICES ASSUME t # <<>> PROVE (t \o new)[1] = t[1] /\ t \o new # <<>>
    BY <1>5 DEF Whole
  <2>1. Len(t) \in Nat \ {0}
    BY <1>6, EmptySeq
  <2> QED BY <1>3, <1>8, <2>1, EmptySeq
<1>10. Received(c) \in Nat
  <2>1. Len(typed[c]) \in Nat
    BY LenProperties DEF TypeInv, TypeOK
  <2> QED BY <2>1 DEF Received
<1>11. Whole(c) => Received(c) + Len(t) = k + Extra(c, ReadBy(c))
  BY <1>1 DEF Flow, SentBy
<1>12. ASSUME Whole(c), NEW i \in 1 .. Len(toClient'[c])
       PROVE  InPlace(c, Received(c) + i - 1, toClient'[c][i].of)
  <2>1. CASE i <= Len(t)
    <3>1. toClient'[c][i] = t[i] /\ i \in 1 .. Len(t)
      BY <1>5, <1>6, <1>8, <2>1
    <3> QED BY <3>1, <1>12 DEF Flow
  <2>2. CASE ~(i <= Len(t))
    <3> DEFINE j == i - Len(t)
               g == Received(c) + i - 1
    <3>1. i \in Nat /\ j \in 1 .. Len(kinds)
      BY <1>3, <1>5, <1>6, <1>8, <2>2
    <3>2. toClient'[c][i].of = k
      BY <1>5, <1>7, <1>8, <2>2, <3>1
    <3>3. g = k + Extra(c, ReadBy(c)) + j - 1
      <4> HIDE DEF k, t
      <4> QED BY <1>2, <1>6, <1>10, <1>11, <1>12, <3>1
    <3>4. j <= 1 + Extra(c, k) - Extra(c, ReadBy(c)) /\ j >= 1
      BY <3>1
    <3> HIDE DEF j, g
    <3>5. j \in Nat
      BY <3>1
    <3>6. k <= g /\ g <= k + Extra(c, k) /\ g > k - 1 + Extra(c, k - 1)
      <4> HIDE DEF k
      <4> QED BY <1>2, <3>3, <3>4, <3>5
    <3>7. InPlace(c, g, k)
      BY <1>1, <3>6 DEF InPlace
    <3> QED BY <3>2, <3>7 DEF g
  <2> QED BY <2>1, <2>2
<1>13. Whole(c)' /\ slave'[c] \notin {"hung", "dead"} =>
         Received(c)' + Len(toClient[c])' = SentBy(c)'
  <2> SUFFICES ASSUME Whole(c), s \in {"loop", "shell"}
               PROVE  Received(c) + Len(t \o new) = 1 + k + Extra(c, k)
    BY <1>1, <1>5, <1>9 DEF SentBy
  <2>1. Len(kinds) = 1 + Extra(c, k) - Extra(c, ReadBy(c))
    OBVIOUS
  <2>2. Received(c) + Len(t) = k + Extra(c, ReadBy(c))
    BY <1>11
  <2>3. Len(t \o new) = Len(t) + Len(kinds)
    BY <1>8
  <2> DEFINE before == Extra(c, ReadBy(c))
             after == Extra(c, k)
             r == Received(c)
             lt == Len(t)
             ln == Len(t \o new)
  <2>4. r \in Nat /\ lt \in Nat /\ before \in Nat /\ after \in Nat /\ k \in Nat
    BY <1>2, <1>6, <1>10
  <2>5. ln = lt + (1 + after - before) /\ r + lt = k + before
    BY <2>1, <2>2, <2>3
  <2>6. r + ln = 1 + k + after
    <3> HIDE DEF before, after, r, lt, ln, k
    <3> QED BY <2>4, <2>5
  <2> QED BY <2>6
<1>14. Whole(c)' => \A i \in 1 .. Len(toClient[c])' :
                      InPlace(c, Received(c) + i - 1, toClient[c][i].of)'
  BY <1>1, <1>9, <1>12
<1>15. cpc'[c] = "prompt" => InPlace(c, Len(typed[c]), shown[c])'
  BY <1>1 DEF Flow
<1>16. slave'[c] = "loop" => \A j \in 1 .. ReadBy(c)' : typed'[c][j] # "bash"
  <2> SUFFICES ASSUME s = "loop", NEW j \in 1 .. k PROVE typed[c][j] # "bash"
    BY <1>1, <1>5
  <2>1. j \in 1 .. ReadBy(c) \/ j = k
    BY <1>1
  <2> QED BY <1>1, <2>1 DEF Flow
<1>17. slave'[c] = "shell" => \E j \in 1 .. ReadBy(c)' : typed'[c][j] = "bash"
  <2> SUFFICES ASSUME s = "shell" PROVE \E j \in 1 .. k : typed[c][j] = "bash"
    BY <1>1, <1>5
  <2>1. CASE slave[c] = "shell"
    <3>1. PICK j \in 1 .. ReadBy(c) : typed[c][j] = "bash"
      BY <2>1 DEF Flow
    <3>2. j \in 1 .. k
      BY <1>1
    <3> QED BY <3>1, <3>2
  <2>2. CASE Command(c) = "bash"
    <3>1. k \in 1 .. k
      BY <1>2, <1>1
    <3> QED BY <1>1, <2>2, <3>1
  <2> QED BY <2>1, <2>2
<1>18. /\ cpc'[c] \in {"new", "greet"} => typed'[c] = <<>>
       /\ cpc'[c] = "wait" => typed'[c] # <<>>
       /\ slave'[c] \notin {"none", "greet"}
  BY <1>1, <1>5 DEF Flow
<1> QED BY <1>1, <1>13, <1>14, <1>15, <1>16, <1>17, <1>18 DEF Flow

\* A slave that fails on a command has answered it or not, and answers no more.
LEMMA FailFlow ==
  ASSUME TypeInv, NEW c \in Client, Flow(c), cpc[c] # "gone", NEW states, Take(c, states),
         NEW s \in {"hung", "dead"}, Becomes(c, s), UNCHANGED toClient
  PROVE  Flow(c)'
<1>1. /\ \A i \in 1 .. Len(toSlave[c])' : toSlave[c]'[i] = typed[c][ReadBy(c)' + i]
      /\ UNCHANGED <<cpc, typed, shown>>
      /\ Received(c)' = Received(c)
      /\ \A g, m : InPlace(c, g, m)' = InPlace(c, g, m)
  BY TakeFlow
<1>2. slave'[c] = s
  BY DEF Becomes, TypeInv, TypeOK
<1>3. Whole(c)' = Whole(c)
  BY DEF Whole
<1> QED BY <1>1, <1>2, <1>3 DEF Flow

\* The greeting is answer number 0 (server_slave.c:52).
LEMMA GreetFlow ==
  ASSUME TypeInv, NEW c \in Client, Flow(c), cpc[c] # "gone", Greet(c)
  PROVE  Flow(c)'
<1>1. toClient[c] = <<>> /\ Received(c) = 0
  <2>1. toClient[c] = <<>>
    BY DEF Flow, Greet
  <2>2. Whole(c) /\ SentBy(c) = 0 /\ slave[c] \notin {"hung", "dead"}
    BY <2>1 DEF Whole, SentBy, Greet
  <2>3. Received(c) + Len(toClient[c]) = 0
    BY <2>2 DEF Flow
  <2> QED BY <2>1, <2>3 DEF Received, TypeInv, TypeOK
<1>2. typed[c] = <<>> /\ Len(typed[c]) = 0
  <2>1. typed[c] \in Seq(Commands)
    BY DEF TypeInv, TypeOK
  <2>2. typed[c] # <<>> => Len(typed[c]) \in Nat \ {0}
    BY <2>1, EmptySeq
  <2>3. typed[c] = <<>>
    BY <1>1, <2>2 DEF Received, Flow, TypeInv, TypeOK
  <2> QED BY <2>3, EmptySeq
<1>3. Len(toSlave[c]) = 0 /\ ReadBy(c) = 0
  <2>1. Len(toSlave[c]) \in Nat /\ Len(toSlave[c]) <= Len(typed[c])
    BY LenProperties DEF TypeInv, TypeOK, Count
  <2> QED BY <1>2, <2>1 DEF ReadBy
<1>4. UNCHANGED <<cpc, typed, toSlave, shown>>
  BY DEF Greet, clientVars
<1>5. Len(toClient'[c]) = 1 /\ toClient'[c][1].of = 0 /\ slave'[c] \in {"loop", "dead"}
  <2>1. Len(typed[c]) - Len(toSlave'[c]) = 0
    BY <1>2, <1>3, <1>4
  <2>2. ASSUME NEW kind \in {"text", "half"}, NEW s \in {"loop", "dead"}, Send(c, <<kind>>, s)
        PROVE  Len(toClient'[c]) = 1 /\ toClient'[c][1].of = 0 /\ slave'[c] = s
    <3> DEFINE kinds == <<kind>>
               new == [i \in DOMAIN kinds |-> [kind |-> kinds[i], of |-> 0]]
    <3>1. slave'[c] = s
      BY <2>2 DEF Send, Becomes, TypeInv, TypeOK
    <3>2. toClient' = [toClient EXCEPT ![c] = @ \o new]
      BY <2>1, <2>2 DEF Send
    <3>3. kinds \in Seq({"text", "long", "half"}) /\ Len(kinds) = 1 /\ DOMAIN kinds = 1 .. 1
      BY LenProperties
    <3>4. new \in Seq(Answer)
      <4> HIDE DEF kinds
      <4> QED BY <3>3, Replies
    <3>5. Len(new) = 1 /\ new[1].of = 0
      <4> HIDE DEF kinds
      <4>1. DOMAIN new = 1 .. 1 /\ new[1] = [kind |-> kinds[1], of |-> 0]
        BY <3>3
      <4> QED BY <3>4, <4>1, LenProperties
    <3> HIDE DEF new
    <3>6. <<>> \o new = new
      BY <3>4, ConcatEmptySeq
    <3>7. toClient'[c] = toClient[c] \o new
      BY <3>2 DEF TypeInv, TypeOK
    <3> QED BY <1>1, <3>1, <3>5, <3>6, <3>7
  <2>3. Send(c, <<"text">>, "loop") \/ Send(c, <<"half">>, "dead")
    BY DEF Greet
  <2> QED BY <2>2, <2>3
<1>6. Extra(c, 0) = 0 /\ Extra(c, 0)' = 0
  <2>1. Extra(c, 0) = 0
    BY ExtraStep
  <2>2. Extra(c, 0)' = Extra(c, 0)
    BY <1>4 DEF Extra
  <2> QED BY <2>1, <2>2
<1>7. Received(c)' = 0 /\ ReadBy(c)' = 0 /\ Len(typed'[c]) = 0 /\ Len(toSlave'[c]) = 0
  BY <1>1, <1>2, <1>3, <1>4 DEF Received, ReadBy
<1>8. Len(toClient'[c]) = 1 /\ toClient'[c][1].of = 0
  BY <1>5
<1>9. InPlace(c, 0, 0)'
  BY <1>6, <1>7 DEF InPlace
<1>10. cpc'[c] # "prompt"
  BY <1>1, <1>2, <1>4 DEF Received
<1>11. ASSUME NEW i \in 1 .. Len(toClient'[c])
       PROVE  InPlace(c, Received(c) + i - 1, toClient[c][i].of)'
  <2>1. i = 1
    BY <1>8
  <2>2. Received(c)' + i - 1 = 0 /\ toClient'[c][i].of = 0
    BY <1>7, <1>8, <2>1
  <2> QED BY <1>9, <2>2
<1>12. slave'[c] \notin {"hung", "dead"} => Received(c)' + Len(toClient'[c]) = SentBy(c)'
  BY <1>5, <1>6, <1>7, <1>8 DEF SentBy
<1>13. slave'[c] \notin {"none", "greet", "shell"}
  BY <1>5
<1>14. cpc'[c] \in {"new", "greet"} => typed'[c] = <<>>
  BY <1>2, <1>4
<1>15. cpc'[c] # "wait"
  BY <1>2, <1>4 DEF Flow
<1> QED BY <1>7, <1>10, <1>11, <1>12, <1>13, <1>14, <1>15 DEF Flow

\* A slave keeps its client's answers in place and touches those of no other.
LEMMA SlaveFlow ==
  ASSUME TypeInv, StepInv, NEW c \in Client, SlaveStep(c)
  PROVE  StepInv'
<1>0. /\ <<"text">> \in Seq({"text", "long", "half"})
      /\ <<"long">> \in Seq({"text", "long", "half"})
      /\ <<"text", "text">> \in Seq({"text", "long", "half"})
      /\ Len(<<"text">>) = 1 /\ Len(<<"long">>) = 1 /\ Len(<<"text", "text">>) = 2
      /\ <<"text">> # <<>> /\ <<"long">> # <<>> /\ <<"text", "text">> # <<>>
  OBVIOUS
<1>1. /\ UNCHANGED <<cpc, typed, shown, astray>>
      /\ \A d \in Client \ {c} :
           UNCHANGED <<toSlave[d], toClient[d], slave[d]>>
  <2> USE DEF Take, Send, Becomes, clientVars, TypeInv, TypeOK
  <2>1. CASE Greet(c) BY <2>1 DEF Greet
  <2>2. CASE Exit(c) BY <2>2 DEF Exit
  <2>3. CASE CloseServer(c) BY <2>3 DEF CloseServer
  <2>4. CASE AnswerOnce(c) BY <2>4 DEF AnswerOnce
  <2>5. CASE BadCD(c) BY <2>5 DEF BadCD
  <2>6. CASE MakeLs(c) BY <2>6 DEF MakeLs
  <2>7. CASE CreateBash(c) BY <2>7 DEF CreateBash
  <2>8. CASE Shell(c) BY <2>8 DEF Shell
  <2>9. CASE EndOfStream(c) BY <2>9 DEF EndOfStream
  <2> QED BY <2>1, <2>2, <2>3, <2>4, <2>5, <2>6, <2>7, <2>8, <2>9 DEF SlaveStep
<1>2. ASSUME NEW d \in Client \ {c}, cpc'[d] # "gone", ~astray'[d] PROVE Flow(d)'
  BY <1>1, <1>2, FlowStays DEF StepInv
<1> SUFFICES ASSUME cpc[c] # "gone", ~astray[c] PROVE Flow(c)'
  BY <1>1, <1>2 DEF StepInv
<1>3. Flow(c)
  BY DEF StepInv
<1>4. ASSUME NEW states, Take(c, states), NEW s \in {"hung", "dead"},
             Becomes(c, s) /\ UNCHANGED toClient
      PROVE  Flow(c)'
  BY <1>3, <1>4, FailFlow
<1> DEFINE k == ReadBy(c) + 1
<1>5. ASSUME NEW states, Take(c, states)
      PROVE  /\ Command(c) = typed[c][k] /\ slave[c] \in states
             /\ Extra(c, ReadBy(c)) \in Nat
             /\ Extra(c, k) = IF Command(c) = "badcd" /\ \A j \in 1 .. k : typed[c][j] # "bash"
                              THEN Extra(c, ReadBy(c)) + 1 ELSE Extra(c, ReadBy(c))
  <2>1. ReadBy(c) \in Nat /\ Command(c) = typed[c][k]
    BY <1>3, <1>5, TakeFlow
  <2>2. slave[c] \in states
    BY <1>5 DEF Take
  <2> QED BY <2>1, <2>2, ExtraStep
<1> HIDE DEF k
<1>6. CASE Greet(c)
  BY <1>3, <1>6, GreetFlow
<1>7. CASE Exit(c) \/ CloseServer(c)
  BY <1>4, <1>7 DEF Exit, CloseServer
<1>8. CASE AnswerOnce(c)
  <2>1. Take(c, {"loop"}) /\ Command(c) = "print" /\ Send(c, <<"text">>, "loop")
    BY <1>8 DEF AnswerOnce
  <2>2. slave[c] = "loop" /\ 1 = 1 + Extra(c, k) - Extra(c, ReadBy(c))
    BY <1>5, <2>1
  <2> QED BY <1>0, <1>3, <2>1, <2>2, AnswerFlow DEF k
<1>9. CASE BadCD(c)
  <2>1. Take(c, {"loop"}) /\ Command(c) = "badcd" /\ Send(c, <<"text", "text">>, "loop")
    BY <1>9 DEF BadCD
  <2>2. slave[c] = "loop" /\ Command(c) = typed[c][k] /\ ReadBy(c) \in Nat
    BY <1>3, <1>5, <2>1, TakeFlow
  <2>3. \A j \in 1 .. k : typed[c][j] # "bash"
    <3>1. \A j \in 1 .. ReadBy(c) : typed[c][j] # "bash"
      BY <1>3, <2>2 DEF Flow
    <3>2. \A j \in 1 .. k : j \in 1 .. ReadBy(c) \/ j = k
      BY <2>2 DEF k
    <3> QED BY <2>1, <2>2, <3>1, <3>2
  <2>4. 2 = 1 + Extra(c, k) - Extra(c, ReadBy(c))
    BY <1>5, <2>1, <2>3
  <2> QED BY <1>0, <1>3, <2>1, <2>2, <2>4, AnswerFlow DEF k
<1>10. CASE MakeLs(c)
  <2>1. Take(c, {"loop"}) /\ Command(c) = "ls"
    BY <1>10 DEF MakeLs
  <2>2. slave[c] = "loop" /\ 1 = 1 + Extra(c, k) - Extra(c, ReadBy(c))
    BY <1>5, <2>1
  <2>3. CASE Send(c, <<"text">>, "loop")
    BY <1>0, <1>3, <2>1, <2>2, <2>3, AnswerFlow DEF k
  <2> QED BY <1>4, <1>10, <2>1, <2>3 DEF MakeLs
<1>11. CASE CreateBash(c)
  <2>1. Take(c, {"loop"}) /\ Command(c) = "bash"
    BY <1>11 DEF CreateBash
  <2>2. slave[c] = "loop" /\ 1 = 1 + Extra(c, k) - Extra(c, ReadBy(c))
    BY <1>5, <2>1
  <2>3. ASSUME NEW s \in {"shell", "hung", "dead"}, Send(c, <<"text">>, s)
        PROVE  Flow(c)'
    BY <1>0, <1>3, <2>1, <2>2, <2>3, AnswerFlow DEF k
  <2> QED BY <1>4, <1>11, <2>1, <2>3 DEF CreateBash
<1>12. CASE Shell(c)
  <2>1. Take(c, {"shell"})
    BY <1>12 DEF Shell
  <2>2. slave[c] = "shell" /\ ReadBy(c) \in Nat
    BY <1>3, <1>5, <2>1, TakeFlow
  <2>3. \E j \in 1 .. k : typed[c][j] = "bash"
    <3>1. PICK j \in 1 .. ReadBy(c) : typed[c][j] = "bash"
      BY <1>3, <2>2 DEF Flow
    <3>2. j \in 1 .. k
      BY <2>2 DEF k
    <3> QED BY <3>1, <3>2
  <2>4. 1 = 1 + Extra(c, k) - Extra(c, ReadBy(c))
    BY <1>5, <2>1, <2>3
  <2>5. ASSUME NEW kind \in {"text", "long"}, Send(c, <<kind>>, "shell") PROVE Flow(c)'
    BY <1>0, <1>3, <2>1, <2>2, <2>4, <2>5, AnswerFlow DEF k
  <2> QED BY <1>4, <1>12, <2>1, <2>5 DEF Shell
<1>13. CASE EndOfStream(c)
  BY <1>13 DEF EndOfStream
<1> QED BY <1>6, <1>7, <1>8, <1>9, <1>10, <1>11, <1>12, <1>13 DEF SlaveStep

\* What ends in a shell leaves all streams alone.
LEMMA ShellFlow ==
  ASSUME TypeInv, StepInv, NEW c \in Client, ShellEnds(c)
  PROVE  StepInv'
<1>1. UNCHANGED <<slave, toSlave, toClient, cpc, typed, shown, astray>>
  BY DEF ShellEnds, clientVars
<1>2. ASSUME NEW d \in Client, Flow(d) PROVE Flow(d)'
  BY <1>1, <1>2, FlowStays
<1> QED BY <1>1, <1>2 DEF StepInv

\* The server leaves all streams alone; a slave that it forks has sent nothing.
LEMMA ServerFlow ==
  ASSUME TypeInv, StepInv, ServerStep \/ AcceptFails \/ Start
  PROVE  StepInv'
<1>1. /\ UNCHANGED <<toSlave, toClient, cpc, typed, shown, astray>>
      /\ \A d \in Client : \/ slave'[d] = slave[d]
                           \/ slave[d] = "none" /\ slave'[d] \in {"greet", "dead"}
  <2> USE DEF slaveVars, clientVars, TypeInv, TypeOK
  <2>1. CASE Accept BY <2>1 DEF Accept
  <2>2. CASE CreateNewClient BY <2>2 DEF CreateNewClient
  <2>3. CASE CloseConnection BY <2>3 DEF CloseConnection
  <2>4. CASE AcceptFails BY <2>4 DEF AcceptFails
  <2>5. CASE Start BY <2>5 DEF Start
  <2> QED BY <2>1, <2>2, <2>3, <2>4, <2>5 DEF ServerStep
<1>2. ASSUME NEW d \in Client, Flow(d) PROVE Flow(d)'
  BY <1>1, <1>2, FlowStays
<1> QED BY <1>1, <1>2 DEF StepInv

\* A command that is typed follows all others, and the answer awaited is the next
\* (client_TCP.c:63-71).
LEMMA TypeFlow ==
  ASSUME TypeInv, NEW c \in Client, Flow(c), NEW w \in Commands, cpc[c] = "prompt",
         cpc'[c] = "wait",
         toSlave'[c] = Append(toSlave[c], w), typed'[c] = Append(typed[c], w),
         UNCHANGED <<slave, toClient, shown>>
  PROVE  Flow(c)'
<1> DEFINE n == Len(typed[c])
           m == Len(toSlave[c])
<1>1. typed[c] \in Seq(Commands) /\ toSlave[c] \in Seq(Commands)
  BY DEF TypeInv, TypeOK
<1>2. n \in Nat /\ m \in Nat /\ m <= n
  BY <1>1, LenProperties DEF TypeInv, Count
<1>3. /\ Len(typed'[c]) = n + 1 /\ typed'[c][n + 1] = w
      /\ \A i \in 1 .. n : typed'[c][i] = typed[c][i]
  BY <1>1, AppendProperties
<1>4. /\ Len(toSlave'[c]) = m + 1 /\ toSlave'[c][m + 1] = w
      /\ \A i \in 1 .. m : toSlave'[c][i] = toSlave[c][i]
  BY <1>1, AppendProperties
<1>5. Received(c) = n + 1 /\ Received(c)' = n + 1
  BY <1>3 DEF Received
<1>6. ReadBy(c) = n - m /\ ReadBy(c)' = n - m
  <2>1. ReadBy(c)' = (n + 1) - (m + 1)
    BY <1>3, <1>4 DEF ReadBy
  <2>2. ReadBy(c) = n - m
    BY DEF ReadBy
  <2> HIDE DEF n, m
  <2> QED BY <1>2, <2>1, <2>2
<1> HIDE DEF n, m
<1>7. \A k \in Nat : k <= n => Extra(c, k)' = Extra(c, k)
  <2> SUFFICES ASSUME NEW k \in Nat, k <= n PROVE Extra(c, k)' = Extra(c, k)
    OBVIOUS
  <2>1. \A i \in 1 .. k : typed'[c][i] = typed[c][i]
    BY <1>2, <1>3
  <2> QED BY <2>1, ExtraSame
<1>8. \A g : \A k \in Nat : InPlace(c, g, k) => InPlace(c, g, k)'
  <2> SUFFICES ASSUME NEW g, NEW k \in Nat, InPlace(c, g, k) PROVE InPlace(c, g, k)'
    OBVIOUS
  <2>1. k <= n /\ k <= n + 1
    BY <1>2 DEF InPlace, n
  <2>2. Extra(c, k)' = Extra(c, k)
    BY <1>7, <2>1
  <2>3. k > 0 => k - 1 \in Nat /\ k - 1 <= n
    BY <1>2, <2>1
  <2>4. k > 0 => Extra(c, k - 1)' = Extra(c, k - 1)
    BY <1>7, <2>3
  <2> QED BY <1>3, <2>1, <2>2, <2>4 DEF InPlace
<1>9. Whole(c)' = Whole(c)
  BY DEF Whole
<1>10. SentBy(c)' = SentBy(c)
  <2>1. n - m \in Nat /\ n - m <= n
    BY <1>2
  <2> QED BY <1>6, <1>7, <2>1 DEF SentBy
<1>11. ASSUME NEW i \in 1 .. Len(toSlave'[c])
       PROVE  toSlave'[c][i] = typed'[c][ReadBy(c)' + i]
  <2>1. CASE i = m + 1
    <3>1. n - m + i = n + 1
      BY <1>2, <2>1
    <3> QED BY <1>3, <1>4, <1>6, <2>1, <3>1
  <2>2. CASE i # m + 1
    <3>1. i \in 1 .. m /\ n - m + i \in 1 .. n
      BY <1>2, <1>4, <2>2
    <3>2. toSlave[c][i] = typed[c][n - m + i]
      BY <1>6, <3>1 DEF Flow, m
    <3> QED BY <1>3, <1>4, <1>6, <3>1, <3>2
  <2> QED BY <2>1, <2>2
<1>12. ASSUME NEW j \in 1 .. n - m PROVE typed'[c][j] = typed[c][j]
  <2>1. j \in 1 .. n
    BY <1>2
  <2> QED BY <1>3, <2>1
<1>13. /\ slave'[c] = "loop" => \A j \in 1 .. ReadBy(c)' : typed'[c][j] # "bash"
       /\ slave'[c] = "shell" => \E j \in 1 .. ReadBy(c)' : typed'[c][j] = "bash"
  <2>1. slave[c] = "loop" => \A j \in 1 .. n - m : typed[c][j] # "bash"
    BY <1>6 DEF Flow
  <2>2. slave[c] = "shell" => \E j \in 1 .. n - m : typed[c][j] = "bash"
    BY <1>6 DEF Flow
  <2> QED BY <1>6, <1>12, <2>1, <2>2
<1>14. Whole(c)' => \A i \in 1 .. Len(toClient'[c]) :
                      InPlace(c, Received(c) + i - 1, toClient[c][i].of)'
  <2> SUFFICES ASSUME Whole(c), NEW i \in 1 .. Len(toClient[c])
               PROVE  InPlace(c, Received(c) + i - 1, toClient[c][i].of)'
    BY <1>9
  <2>1. InPlace(c, Received(c) + i - 1, toClient[c][i].of)
    BY DEF Flow
  <2>2. toClient[c] \in Seq(Answer)
    BY DEF TypeInv, TypeOK
  <2>3. toClient[c][i] \in Answer
    BY <2>2, ElementOfSeq
  <2>4. toClient[c][i].of \in Nat
    BY <2>3 DEF Answer
  <2>5. toClient'[c][i] = toClient[c][i] /\ Received(c)' = Received(c)
    BY <1>5
  <2> QED BY <1>8, <2>1, <2>4, <2>5
<1>15. /\ slave'[c] \in {"none", "greet"} => toClient'[c] = <<>>
       /\ Whole(c)' /\ slave'[c] \notin {"hung", "dead"} =>
            Received(c)' + Len(toClient'[c]) = SentBy(c)'
  BY <1>5, <1>9, <1>10 DEF Flow
<1>16. typed'[c] # <<>>
  BY <1>1, AppendProperties
<1> QED BY <1>11, <1>13, <1>14, <1>15, <1>16 DEF Flow

\* The client shows the reply at the head of its stream, and it is the one whose turn it
\* is (client_TCP.c:72-80).
LEMMA ReceiveFlow ==
  ASSUME TypeInv, NEW c \in Client, Flow(c), Receive(c)
  PROVE  Flow(c)'
<1> DEFINE t == toClient[c]
<1>1. t \in Seq(Answer) /\ t # <<>> /\ Len(typed[c]) \in Nat
  BY LenProperties DEF Receive, TypeInv, TypeOK
<1>2. /\ Len(t) \in Nat \ {0} /\ Head(t) = t[1]
      /\ Len(Tail(t)) = Len(t) - 1
      /\ \A i \in 1 .. Len(Tail(t)) : Tail(t)[i] = t[i + 1]
  <2> HIDE DEF t
  <2> QED BY <1>1, HeadTailProperties, EmptySeq
<1>3. Whole(c)
  BY <1>2 DEF Whole, Receive
<1>4. Received(c) = Len(typed[c])
  <2>1. cpc[c] = "greet" => Len(typed[c]) = 0
    BY EmptySeq DEF Flow
  <2> QED BY <2>1 DEF Received, Receive, Waiting
<1>5. cpc'[c] = "prompt" /\ shown'[c] = t[1].of
  BY <1>2 DEF Receive, TypeInv, TypeOK
<1>6. UNCHANGED <<slave, toSlave, typed>>
  BY DEF Receive, slaveVars
<1>7. Received(c)' = Received(c) + 1
  BY <1>4, <1>5, <1>6 DEF Received
<1>8. /\ ReadBy(c)' = ReadBy(c)
      /\ \A k : Extra(c, k)' = Extra(c, k)
  BY <1>6 DEF ReadBy, Extra
<1>9. SentBy(c)' = SentBy(c) /\ \A g, k : InPlace(c, g, k)' = InPlace(c, g, k)
  BY <1>6, <1>8 DEF SentBy, InPlace
<1>10. InPlace(c, Len(typed[c]), shown[c])'
  <2>1. InPlace(c, Received(c) + 1 - 1, t[1].of)
    BY <1>2, <1>3 DEF Flow
  <2>2. InPlace(c, Len(typed[c]), t[1].of)
    BY <1>1, <1>4, <2>1
  <2> QED BY <1>5, <1>6, <1>9, <2>2
<1>11. slave[c] \notin {"none", "greet"}
  BY <1>1 DEF Flow
<1>12. CASE toClient' = [toClient EXCEPT ![c] = Tail(@)]
  <2>1. toClient'[c] = Tail(t)
    BY <1>12 DEF TypeInv, TypeOK
  <2>2. slave[c] \notin {"hung", "dead"} => Received(c) + Len(t) = SentBy(c)
    BY <1>3 DEF Flow
  <2>3. slave[c] \notin {"hung", "dead"} => Received(c)' + Len(toClient'[c]) = SentBy(c)'
    <3>1. Len(toClient'[c]) = Len(t) - 1
      BY <1>2, <2>1
    <3>2. Received(c) \in Nat
      BY <1>1, <1>4
    <3>3. Received(c)' + Len(toClient'[c]) = Received(c) + Len(t)
      BY <1>2, <1>7, <3>1, <3>2
    <3> QED BY <1>9, <2>2, <3>3
  <2>4. ASSUME NEW i \in 1 .. Len(toClient'[c])
        PROVE  InPlace(c, Received(c) + i - 1, toClient[c][i].of)'
    <3>1. i + 1 \in 1 .. Len(t) /\ toClient'[c][i] = t[i + 1]
      BY <1>2, <2>1
    <3>2. InPlace(c, Received(c) + (i + 1) - 1, t[i + 1].of)
      BY <1>3, <3>1 DEF Flow
    <3>3. Received(c)' + i - 1 = Received(c) + (i + 1) - 1
      BY <1>1, <1>4, <1>7
    <3> QED BY <1>9, <3>1, <3>2, <3>3
  <2> QED BY <1>5, <1>6, <1>8, <1>10, <1>11, <2>3, <2>4 DEF Flow
<1>13. CASE toClient' = [toClient EXCEPT ![c][1].kind = "rest"]
  <2>1. toClient'[c] = [t EXCEPT ![1] = [t[1] EXCEPT !.kind = "rest"]]
    BY <1>13 DEF TypeInv, TypeOK
  <2>2. 1 \in 1 .. Len(t) /\ t[1] \in Answer
    <3> HIDE DEF t
    <3> QED BY <1>1, <1>2, ElementOfSeq
  <2>3. /\ toClient'[c] \in Seq(Answer) /\ Len(toClient'[c]) = Len(t)
        /\ toClient'[c][1] = [t[1] EXCEPT !.kind = "rest"]
    <3>1. [t[1] EXCEPT !.kind = "rest"] \in Answer
      BY <2>2 DEF Answer
    <3> DEFINE rest == [t[1] EXCEPT !.kind = "rest"]
    <3> HIDE DEF t, rest
    <3>2. rest \in Answer /\ toClient'[c] = [t EXCEPT ![1] = rest]
      BY <2>1, <3>1 DEF rest
    <3>3. /\ [t EXCEPT ![1] = rest] \in Seq(Answer)
          /\ Len([t EXCEPT ![1] = rest]) = Len(t)
          /\ [t EXCEPT ![1] = rest][1] = rest
      BY <1>1, <2>2, <3>2, ExceptSeq
    <3> QED BY <3>2, <3>3 DEF rest
  <2>4. toClient'[c] # <<>>
    BY <1>2, <2>3, EmptySeq
  <2>5. toClient'[c][1].kind = "rest"
    BY <2>2, <2>3 DEF Answer
  <2>6. ~Whole(c)'
    BY <2>4, <2>5 DEF Whole
  <2> QED BY <1>5, <1>6, <1>8, <1>10, <1>11, <2>6 DEF Flow
<1> QED BY <1>12, <1>13 DEF Receive

\* A client and its user keep the answers in place.
LEMMA ClientFlow ==
  ASSUME TypeInv, StepInv, NEW c \in Client, ClientStep(c) \/ User(c)
  PROVE  StepInv'
<1>1. /\ UNCHANGED slave
      /\ \A d \in Client \ {c} :
           UNCHANGED <<cpc[d], typed[d], toSlave[d], toClient[d], shown[d], astray[d]>>
  <2> USE DEF slaveVars, TypeInv, TypeOK, Leave, ShowGarbage
  <2>1. CASE Connect(c) BY <2>1 DEF Connect
  <2>2. CASE Killed(c) BY <2>2 DEF Killed
  <2>3. ASSUME NEW w \in Typed, Type(c, w)
        PROVE  /\ UNCHANGED slave
               /\ \A d \in Client \ {c} :
                    UNCHANGED <<cpc[d], typed[d], toSlave[d], toClient[d], shown[d], astray[d]>>
    BY <2>3 DEF Type
  <2>4. CASE Receive(c) BY <2>4 DEF Receive
  <2>5. CASE ReceiveRest(c) BY <2>5 DEF ReceiveRest
  <2>6. CASE ReceiveEnd(c) BY <2>6 DEF ReceiveEnd
  <2> QED BY <2>1, <2>2, <2>3, <2>4, <2>5, <2>6 DEF ClientStep, User
<1>2. ASSUME NEW d \in Client \ {c}, cpc'[d] # "gone", ~astray'[d] PROVE Flow(d)'
  BY <1>1, <1>2, FlowStays DEF StepInv
<1> SUFFICES ASSUME cpc'[c] # "gone", ~astray'[c] PROVE Flow(c)'
  BY <1>1, <1>2 DEF StepInv
<1> USE DEF TypeInv, TypeOK
<1>3. ~Leave(c) /\ \A left : ~ShowGarbage(c, left)
  BY DEF Leave, ShowGarbage
<1>4. CASE Connect(c)
  <2>1. /\ cpc[c] = "new" /\ cpc'[c] = "greet" /\ ~astray[c]
        /\ UNCHANGED <<typed, toSlave, toClient, shown>>
    BY <1>4 DEF Connect
  <2>2. Flow(c)
    BY <2>1 DEF StepInv
  <2>3. \A k : Extra(c, k)' = Extra(c, k)
    BY <2>1 DEF Extra
  <2>4. Received(c)' = Received(c) /\ ReadBy(c)' = ReadBy(c) /\ Whole(c)' = Whole(c)
    BY <2>1 DEF Received, ReadBy, Whole
  <2>5. SentBy(c)' = SentBy(c) /\ \A g, k : InPlace(c, g, k)' = InPlace(c, g, k)
    BY <1>1, <2>1, <2>3, <2>4 DEF SentBy, InPlace
  <2> HIDE DEF TypeInv, TypeOK
  <2> QED BY <1>1, <2>1, <2>2, <2>4, <2>5 DEF Flow
<1>5. CASE Killed(c)
  BY <1>3, <1>5 DEF Killed
<1>6. ASSUME NEW w \in Typed, Type(c, w) PROVE Flow(c)'
  <2>1. ~(w \in Leaving \/ ~Connected(c))
    BY <1>3, <1>6 DEF Type
  <2>2. /\ cpc[c] = "prompt" /\ cpc'[c] = "wait" /\ w \in Commands
        /\ toSlave'[c] = Append(toSlave[c], w) /\ typed'[c] = Append(typed[c], w)
        /\ UNCHANGED <<slave, toClient, shown, astray>>
    BY <1>6, <2>1 DEF Type, slaveVars
  <2>3. Flow(c)
    BY <2>2 DEF StepInv
  <2> HIDE DEF TypeInv, TypeOK
  <2> QED BY <2>2, <2>3, TypeFlow
<1>7. CASE Receive(c)
  <2>1. cpc[c] # "gone" /\ astray' = astray
    BY <1>7 DEF Receive, Waiting
  <2>2. Flow(c)
    BY <2>1 DEF StepInv
  <2> HIDE DEF TypeInv, TypeOK
  <2> QED BY <1>7, <2>2, ReceiveFlow
<1>8. CASE ReceiveRest(c)
  BY <1>3, <1>8 DEF ReceiveRest
<1>9. CASE ReceiveEnd(c)
  BY <1>3, <1>9 DEF ReceiveEnd
<1> QED BY <1>4, <1>5, <1>6, <1>7, <1>8, <1>9 DEF ClientStep, User

\* A client shows each answer at the command it belongs to, late by one for every cd that
\* failed before, for any number of clients and commands (server_slave.c:285-340,
\* client_TCP.c:68-80).
THEOREM AnswersInStep == Spec => []InStep
<1>1. Init => StepInv
  <2> SUFFICES ASSUME Init, NEW c \in Client PROVE Flow(c)
    BY DEF StepInv
  <2>1. /\ cpc[c] = "new" /\ slave[c] = "none"
        /\ typed[c] = <<>> /\ toSlave[c] = <<>> /\ toClient[c] = <<>>
    BY DEF Init
  <2>2. Len(toSlave[c]) = 0 /\ Len(toClient[c]) = 0
    BY <2>1, EmptySeq
  <2>3. Received(c) = 0 /\ SentBy(c) = 0
    BY <2>1 DEF Received, SentBy
  <2> QED BY <2>1, <2>2, <2>3 DEF Flow
<1>2. TypeInv /\ StepInv /\ [Next]_vars => StepInv'
  <2>1. ASSUME TypeInv, StepInv, UNCHANGED vars PROVE StepInv'
    <3>1. ASSUME NEW d \in Client, Flow(d) PROVE Flow(d)'
      BY <2>1, <3>1, FlowStays DEF vars, slaveVars, clientVars
    <3> QED BY <2>1, <3>1 DEF StepInv, vars, clientVars
  <2> QED BY <2>1, ServerFlow, SlaveFlow, ShellFlow, ClientFlow DEF Next
<1>3. StepInv => InStep
  BY DEF StepInv, Flow, InPlace, InStep
<1> QED BY <1>1, <1>2, <1>3, TypeInvariant, PTL DEF Spec
=============================================================================
