------------------------------ MODULE TcpServer ------------------------------
(***************************************************************************)
(* The TCP server of C_4_Sockets, server_TCP/server.c, with its slaves,    *)
(* server_TCP/server_slave.c, and its clients, client/client_TCP.c.        *)
(*                                                                         *)
(* The server accepts a connection, forks a child that executes the slave, *)
(* and closes its own copy of the connection.  The slave talks to the      *)
(* client; it has inherited the listening socket too, and the shell that   *)
(* it starts inherits both.  CLOSE_SERVER makes the slave kill the server  *)
(* by the process id that it was given.                                    *)
(*                                                                         *)
(* A client is a process and connects once, so that a client also names    *)
(* its connection and its slave.  A stream is a sequence of packets; the   *)
(* last may be half a packet.  Bounds: MaxSends[c] commands of client c,   *)
(* MaxRuns servers, one after the other.                                   *)
(***************************************************************************)
EXTENDS Naturals, Sequences, FiniteSets

CONSTANTS
  Client,
  Typed,      \* the commands that users type
  MaxSends,   \* how many commands each client's user types
  MaxRuns

\* What a client can type.  "print" is any command that is answered once, "badcd" a
\* cd that fails.
Commands == {"print", "badcd", "ls", "bash", "exit", "CLOSE_SERVER"}
Leaving  == {"exit", "CLOSE_SERVER"}

ASSUME TcpAssumption ==
  /\ Typed \subseteq Commands
  /\ MaxSends \in [Client -> Nat] /\ MaxRuns \in Nat

VARIABLES
  writable,  \* whether this build can write to string literals
  srv,       \* where the server is: "down", "listen", "accepted" or "forked"
  run,       \* how many servers there have been
  backlog,   \* the clients that are connected and not accepted
  held,      \* the connections that the server has open
  slave,     \* "none", "greet", "loop", "shell", "hung" or "dead"
  parent,    \* the server that forked it
  shells,    \* the clients of whose shells something still runs
  toSlave, toClient,  \* the two directions of each connection
  cpc,       \* where each client is: "new", "greet", "prompt", "wait" or "gone"
  typed,     \* what its user has typed
  shown,     \* the command whose answer it showed last, 0 for the greeting
  astray     \* whether it has read something that was no packet

serverVars == <<srv, run, backlog, held>>
slaveVars  == <<slave, parent, shells>>
clientVars == <<cpc, typed, shown, astray>>
vars == <<writable, serverVars, slaveVars, toSlave, toClient, clientVars>>

\* A reply to command "of"; "rest" is what a short read has left of one.
Answer == [kind : {"text", "long", "half", "rest"}, of : Nat]

Alive(c) == slave[c] \notin {"none", "dead"}

\* Fault: the slave does not inherit the listening socket.
PortOfServer == srv # "down"

\* The port is taken as long as the server, a slave or a shell has the listening socket,
\* which they all inherit.
PortTaken == srv # "down" \/ shells # {} \/ \E c \in Client : Alive(c)

Queued(c) == \E i \in DOMAIN backlog : backlog[i] = c

\* Someone has the other end of the connection: the server before it closes its copy, the
\* slave, what runs in its shell, or the queue of the listening socket.
Connected(c) == c \in held \/ Alive(c) \/ c \in shells \/ (Queued(c) /\ PortTaken)

Init ==
  /\ writable \in BOOLEAN
  /\ srv = "listen" /\ run = 1 /\ backlog = <<>> /\ held = {}
  /\ slave = [c \in Client |-> "none"]
  /\ parent = [c \in Client |-> 0]
  /\ shells = {}
  /\ toSlave = [c \in Client |-> <<>>]
  /\ toClient = [c \in Client |-> <<>>]
  /\ cpc = [c \in Client |-> "new"]
  /\ typed = [c \in Client |-> <<>>]
  /\ shown = [c \in Client |-> 0]
  /\ astray = [c \in Client |-> FALSE]

-----------------------------------------------------------------------------
(* The server. *)

Accept ==
  /\ srv = "listen" /\ backlog # <<>>
  /\ held' = held \cup {Head(backlog)}
  /\ backlog' = Tail(backlog)
  /\ srv' = "accepted"
  /\ UNCHANGED <<writable, run, slaveVars, toSlave, toClient, clientVars>>

\* A failed accept ends StartServer, and with it the server.
AcceptFails ==
  /\ srv = "listen" /\ backlog # <<>>
  /\ srv' = "down"
  /\ UNCHANGED <<writable, run, backlog, held, slaveVars, toSlave, toClient, clientVars>>

\* Fault: the child asks for the process id itself and passes on its own.
CreateWithOwnPid ==
  /\ srv = "accepted"
  /\ \E c \in held :
       /\ slave[c] = "none"
       /\ \E s \in {"greet", "dead"} : slave' = [slave EXCEPT ![c] = s]
       /\ parent' = [parent EXCEPT ![c] = c]
  /\ srv' = "forked"
  /\ UNCHANGED <<writable, run, backlog, held, shells, toSlave, toClient, clientVars>>

\* CreateNewClient.  A fork that fails is not noticed; a child whose exec fails
\* returns from StartServer and closes nothing but its own copies.
CreateNewClient ==
  /\ srv = "accepted"
  /\ \E c \in held :
       /\ slave[c] = "none"
       /\ \E s \in {"greet", "dead"} : slave' = [slave EXCEPT ![c] = s]
       /\ parent' = [parent EXCEPT ![c] = run]
  /\ srv' = "forked"
  /\ UNCHANGED <<writable, run, backlog, held, shells, toSlave, toClient, clientVars>>

\* Fault: the server keeps its copy of the connection.
KeepConnection ==
  /\ srv = "forked"
  /\ srv' = "listen"
  /\ UNCHANGED <<writable, run, backlog, held, slaveVars, toSlave, toClient, clientVars>>

CloseConnection ==
  /\ srv = "forked"
  /\ held' = {}
  /\ srv' = "listen"
  /\ UNCHANGED <<writable, run, backlog, slaveVars, toSlave, toClient, clientVars>>

\* Somebody starts a server again; bind fails while the port is taken.  The kernel has
\* reset the connections that nobody had accepted.
Start ==
  /\ ~PortTaken /\ run < MaxRuns
  /\ srv' = "listen" /\ run' = run + 1 /\ backlog' = <<>>
  /\ UNCHANGED <<writable, held, slaveVars, toSlave, toClient, clientVars>>

-----------------------------------------------------------------------------
(* The slaves. *)

Becomes(c, s) == slave' = [slave EXCEPT ![c] = s]

\* SendMessage: three writes, of which the second kills the slave if the client has gone.
\* The answers are to the command read last, which is the one before those that wait.
Send(c, kinds, s) ==
  IF cpc[c] = "gone" THEN Becomes(c, "dead") /\ UNCHANGED toClient
  ELSE /\ Becomes(c, s)
       /\ LET k == Len(typed[c]) - Len(toSlave'[c]) IN
          toClient' = [toClient EXCEPT ![c] =
                         @ \o [i \in DOMAIN kinds |-> [kind |-> kinds[i], of |-> k]]]

\* The greeting is a string literal, which M_EncryptString changes in place: where that
\* cannot be done the slave dies of it, with the id and the size sent.
Greet(c) ==
  /\ slave[c] = "greet"
  /\ UNCHANGED toSlave
  /\ IF writable THEN Send(c, <<"text">>, "loop") ELSE Send(c, <<"half">>, "dead")
  /\ UNCHANGED <<writable, serverVars, parent, shells, clientVars>>

Take(c, states) ==
  /\ slave[c] \in states /\ toSlave[c] # <<>>
  /\ toSlave' = [toSlave EXCEPT ![c] = Tail(@)]
  /\ UNCHANGED <<writable, parent, clientVars>>

Command(c) == Head(toSlave[c])

Exit(c) ==
  /\ Take(c, {"loop", "shell"}) /\ Command(c) = "exit"
  /\ Becomes(c, "dead")
  /\ UNCHANGED <<serverVars, shells, toClient>>

\* kill with the id of the parent.  If that server has ended, a later one may have
\* been given its id.
CloseServer(c) ==
  /\ Take(c, {"loop", "shell"}) /\ Command(c) = "CLOSE_SERVER"
  /\ Becomes(c, "dead")
  /\ \/ srv' = "down" /\ held' = {}
     \/ parent[c] # run /\ UNCHANGED <<srv, held>>
  /\ UNCHANGED <<run, backlog, shells, toClient>>

\* Fault: a command that works is answered twice.
AnswerTwice(c) ==
  /\ Take(c, {"loop"}) /\ Command(c) = "print"
  /\ Send(c, <<"text", "text">>, "loop")
  /\ UNCHANGED <<serverVars, shells>>

\* CheckBuffer with a command that is answered from the slave itself.
AnswerOnce(c) ==
  /\ Take(c, {"loop"}) /\ Command(c) = "print"
  /\ Send(c, <<"text">>, "loop")
  /\ UNCHANGED <<serverVars, shells>>

\* MakeCD reports the failure, and then the directory.
BadCD(c) ==
  /\ Take(c, {"loop"}) /\ Command(c) = "badcd"
  /\ Send(c, <<"text", "text">>, "loop")
  /\ UNCHANGED <<serverVars, shells>>

\* MakeLs waits for ls before it reads the pipe, so that a folder whose names do not fit
\* into the pipe blocks both.  It may also fail, which ends the slave.
MakeLs(c) ==
  /\ Take(c, {"loop"}) /\ Command(c) = "ls"
  /\ \/ Send(c, <<"text">>, "loop")
     \/ \E s \in {"hung", "dead"} : Becomes(c, s) /\ UNCHANGED toClient
  /\ UNCHANGED <<serverVars, shells>>

\* CreateBash and PrintFirstCommand.  The pseudo terminal may fail to open, memory for the
\* message to be there, and WriteIntoBash to end; the fork of the shell is not checked.  A
\* shell inherits the connection and the listening socket.
CreateBash(c) ==
  /\ Take(c, {"loop"}) /\ Command(c) = "bash"
  /\ \/ Becomes(c, "dead") /\ UNCHANGED toClient
     \/ \E s \in {"shell", "hung", "dead"} : Send(c, <<"text">>, s)
  /\ shells' \in {shells, shells \cup {c}}
  /\ UNCHANGED serverVars

\* The loop of CheckBash: the shell's answer may be long, or WriteIntoBash fail or not end.
Shell(c) ==
  /\ Take(c, {"shell"}) /\ Command(c) \notin Leaving
  /\ \/ \E kind \in {"text", "long"} : Send(c, <<kind>>, "shell")
     \/ \E s \in {"hung", "dead"} : Becomes(c, s) /\ UNCHANGED toClient
  /\ UNCHANGED <<serverVars, shells>>

\* The end of the stream is not recognised: M_ReadPack_Named makes a packet of a size it
\* has not read.  Either there is no memory for that much, or the slave answers the packet
\* and dies of SIGPIPE; in the shell it may also spin.
EndOfStream(c) ==
  /\ slave[c] \in {"loop", "shell"} /\ toSlave[c] = <<>> /\ cpc[c] = "gone"
  /\ \E s \in IF slave[c] = "shell" THEN {"dead", "hung"} ELSE {"dead"} : Becomes(c, s)
  /\ UNCHANGED <<writable, serverVars, parent, shells, toSlave, toClient, clientVars>>

\* The shell ends, or what it still ran when the slave closed its terminal.  The slave does
\* not notice: it has the other side of the terminal open as well.
ShellEnds(c) ==
  /\ c \in shells
  /\ shells' = shells \ {c}
  /\ UNCHANGED <<writable, serverVars, slave, parent, toSlave, toClient, clientVars>>

-----------------------------------------------------------------------------
(* The clients. *)

\* Nothing is in the way of a client that leaves: SetSignalHandle is called only if the
\* log file could not be opened, so that a signal ends it anywhere.
Leave(c) ==
  /\ cpc' = [cpc EXCEPT ![c] = "gone"]
  /\ toClient' = [toClient EXCEPT ![c] = <<>>]
  /\ typed' = [typed EXCEPT ![c] = <<>>]
  /\ shown' = [shown EXCEPT ![c] = 0]
  /\ astray' = [astray EXCEPT ![c] = FALSE]

Connect(c) ==
  /\ cpc[c] = "new"
  /\ IF PortTaken THEN /\ cpc' = [cpc EXCEPT ![c] = "greet"]
                       /\ backlog' = Append(backlog, c)
     ELSE cpc' = [cpc EXCEPT ![c] = "gone"] /\ UNCHANGED backlog
  /\ UNCHANGED <<writable, srv, run, held, slaveVars, toSlave, toClient, typed, shown, astray>>

Killed(c) ==
  /\ cpc[c] \notin {"new", "gone"}
  /\ Leave(c)
  /\ UNCHANGED <<writable, serverVars, slaveVars, toSlave>>

\* Writing to a connection that nobody has open ends in SIGPIPE.
Type(c, w) ==
  /\ cpc[c] = "prompt" /\ Len(typed[c]) < MaxSends[c]
  /\ toSlave' = [toSlave EXCEPT ![c] = IF Connected(c) THEN Append(@, w) ELSE @]
  /\ IF w \in Leaving \/ ~Connected(c) THEN Leave(c)
     ELSE /\ cpc' = [cpc EXCEPT ![c] = "wait"]
          /\ typed' = [typed EXCEPT ![c] = Append(@, w)]
          /\ UNCHANGED <<toClient, shown, astray>>
  /\ UNCHANGED <<writable, serverVars, slaveVars>>

Waiting(c) == cpc[c] \in {"greet", "wait"}

\* M_ReadPack_Named and what it returns are shown.  recvfrom may return less than a long
\* reply.
Receive(c) ==
  /\ Waiting(c) /\ toClient[c] # <<>> /\ Head(toClient[c]).kind \in {"text", "long"}
  /\ \/ toClient' = [toClient EXCEPT ![c] = Tail(@)]
     \/ /\ Head(toClient[c]).kind = "long"
        /\ toClient' = [toClient EXCEPT ![c][1].kind = "rest"]
  /\ shown' = [shown EXCEPT ![c] = Head(toClient[c]).of]
  /\ cpc' = [cpc EXCEPT ![c] = "prompt"]
  /\ UNCHANGED <<writable, serverVars, slaveVars, toSlave, typed, astray>>

ShowGarbage(c, left) ==
  /\ cpc' = [cpc EXCEPT ![c] = "prompt"]
  /\ astray' = [astray EXCEPT ![c] = TRUE]
  /\ toClient' = [toClient EXCEPT ![c] = left]
  /\ UNCHANGED <<typed, shown>>

\* What is left of a reply is read as the id and the size of a packet.  There is no memory
\* for such a size, of which the client dies since it tests the wrong pointer, or it
\* shows what there is.
ReceiveRest(c) ==
  /\ Waiting(c) /\ toClient[c] # <<>> /\ Head(toClient[c]).kind = "rest"
  /\ \/ Leave(c)
     \/ \E left \in {<<>>, toClient[c]} : ShowGarbage(c, left)
  /\ UNCHANGED <<writable, serverVars, slaveVars, toSlave>>

\* Nor does a client recognise the end of the stream.
ReceiveEnd(c) ==
  /\ Waiting(c) /\ ~Connected(c)
  /\ toClient[c] # <<>> => Head(toClient[c]).kind = "half"
  /\ Leave(c) \/ ShowGarbage(c, <<>>)
  /\ UNCHANGED <<writable, serverVars, slaveVars, toSlave>>

-----------------------------------------------------------------------------
ServerStep == Accept \/ CreateNewClient \/ CloseConnection
SlaveStep(c) ==
  \/ Greet(c) \/ Exit(c) \/ CloseServer(c) \/ AnswerOnce(c) \/ BadCD(c) \/ MakeLs(c)
  \/ CreateBash(c) \/ Shell(c) \/ EndOfStream(c)
ClientStep(c) == Receive(c) \/ ReceiveRest(c) \/ ReceiveEnd(c)
User(c) == Connect(c) \/ Killed(c) \/ \E w \in Typed : Type(c, w)

Next ==
  \/ ServerStep \/ AcceptFails \/ Start
  \/ \E c \in Client : SlaveStep(c) \/ ShellEnds(c) \/ ClientStep(c) \/ User(c)

Spec == Init /\ [][Next]_vars

\* Processes that can go on do.  Nobody has to type, to kill or to start a server, and
\* what runs in a shell need not end.
Fairness ==
  /\ WF_vars(ServerStep)
  /\ \A c \in Client : WF_vars(SlaveStep(c)) /\ WF_vars(ClientStep(c))

FairSpec == Spec /\ Fairness

-----------------------------------------------------------------------------
(* Properties. *)

TypeOK ==
  /\ writable \in BOOLEAN
  /\ srv \in {"down", "listen", "accepted", "forked"}
  /\ run \in Nat
  /\ backlog \in Seq(Client)
  /\ held \subseteq Client
  /\ slave \in [Client -> {"none", "greet", "loop", "shell", "hung", "dead"}]
  /\ parent \in [Client -> Nat]
  /\ shells \subseteq Client
  /\ toSlave \in [Client -> Seq(Commands)]
  /\ toClient \in [Client -> Seq(Answer)]
  /\ cpc \in [Client -> {"new", "greet", "prompt", "wait", "gone"}]
  /\ typed \in [Client -> Seq(Commands)]
  /\ shown \in [Client -> Nat]
  /\ astray \in [Client -> BOOLEAN]

\* A cd that fails is answered twice, but not in the shell.
Extra(c, k) ==
  Cardinality({i \in 1 .. k : /\ typed[c][i] = "badcd"
                              /\ \A j \in 1 .. i : typed[c][j] # "bash"})

\* The n-th answer that a client shows is to the command it would be to if every command
\* was answered once and every cd that failed twice: answers come late by one for each cd
\* that failed before, and else in step (server_slave.c:285-340, client_TCP.c:68-80).
InStep ==
  \A c \in Client :
    cpc[c] = "prompt" /\ ~astray[c] =>
      LET n == Len(typed[c])
          k == shown[c]
      IN k <= n /\ n <= k + Extra(c, k) /\ (k > 0 => n > k - 1 + Extra(c, k - 1))

\* While a server runs every slave is its own, although slaves outlive their server: a
\* later server cannot bind the port before they have ended.  Hence no slave kills a
\* server that is not its parent (server.c:32, server_slave.c:97-108).
OwnServer ==
  srv # "down" => \A c \in Client : Alive(c) => parent[c] = run

\* Who is left alone by everybody: by a slave that hangs, by a slave that has ended while
\* something in its shell goes on and keeps the connection, or by a server that has ended
\* while others keep its port.
Unserved(c) ==
  \/ slave[c] = "hung"
  \/ slave[c] = "dead" /\ c \in shells
  \/ Queued(c) /\ srv = "down"

\* A client that waits gets an answer or the end of the stream, since the server and the
\* dead slave have closed it, unless it is left alone in one of these three ways; and a
\* slave whose client has gone ends or hangs (server.c:64-67, server_slave.c:57, 156).
NobodyLeftWaiting ==
  \A c \in Client :
    /\ Waiting(c) ~> ~Waiting(c) \/ Unserved(c)
    /\ cpc[c] = "gone" /\ Alive(c) ~> ~Alive(c) \/ slave[c] = "hung"
=============================================================================
