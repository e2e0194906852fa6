------------------------------ MODULE UdpServer ------------------------------
(***************************************************************************)
(* The UDP server of C_4_Sockets with its clients and slaves:              *)
(* server/server.c, packet/packet.c, client/client.c and the control of    *)
(* server/server_slave.c; the table of clients is IDTable.                 *)
(*                                                                         *)
(* A named packet is three datagrams: id, size, data.  All clients send    *)
(* them to the one socket of the server, which reads three at a time and   *)
(* passes the data to the slave of the id through a pipe.  The slave       *)
(* answers the address the server had read when it created the slave.      *)
(*                                                                         *)
(* A write end stands for its pipe and for the slave that reads it, so     *)
(* none is used twice.  Bounds: MaxSends commands for each client, MaxLoss *)
(* lost datagrams, one process for each client, and Fd slaves.  A reply is *)
(* one message, its three datagrams having one sender, except for the half *)
(* of a reply that a dying slave leaves.  Pipes do not fill up.  The server *)
(* is not killed from outside, which would leave its slaves untold.        *)
(***************************************************************************)
EXTENDS IDTable, Sequences

CONSTANTS
  Client,     \* the clients, that is their addresses
  NoClient,   \* the sender of what the server itself writes
  Typed,      \* the commands that users type
  MaxSends, MaxLoss,
  TakeTurns   \* whether a client starts to send only when no other is sending

\* What a client can type.  "cd2" is a cd that fails, "bad" any command that is
\* answered with a string literal, "leaver" a word that only begins like exit or
\* CLOSE_SERVER, so that the client leaves and the server forwards it.
Commands == {"cmd", "cd2", "bad", "bash", "exit", "leaver", "CLOSE_SERVER"}
Leaving  == {"exit", "leaver", "CLOSE_SERVER"}
Payload  == Commands \cup {"GETID", "junk"}

ASSUME UdpAssumption ==
  /\ NoClient \notin Client
  /\ Typed \subseteq Commands
  /\ MaxSends \in Nat /\ MaxLoss \in Nat
  /\ TakeTurns \in BOOLEAN

VARIABLES
  sock,     \* the datagrams in the socket of the server
  lost,     \* how many were lost
  cpc,      \* where each client is
  cid,      \* its id
  cmd,      \* what it sends
  sent,     \* how many commands it has typed
  inbox,    \* the replies in the socket of each client
  spc,      \* where the server is: the datagram it reads, "run" or "dead"
  in,       \* the packet it is reading: the id and what is known of the data
  name,     \* the sender of the last datagram
  why,      \* why it has stopped
  slave,    \* each slave: "none", "start", "loop", "bash", "spin", "hung", "dead"
  addr,     \* the client it answers
  sid,      \* the id it was given
  pipe,     \* the messages in its pipe
  told      \* history: the slaves that have taken the order of a server that ends

clientVars == <<cpc, cid, cmd, sent>>
serverVars == <<spc, in, name, why>>
slaveVars  == <<slave, addr, sid, pipe, told>>
vars == <<table, sock, lost, clientVars, inbox, serverVars, slaveVars>>

\* What is in the socket of the server, in that of a client and in a pipe.
Datagram == [from : Client, kind : {"id", "size", "data"},
             id : Index \cup {-1}, what : Payload]
Answer == [kind : {"id", "text", "half"}, id : Index]
Passed == [from : Client \cup {NoClient}, what : Payload]

Sending(c) == cpc[c] \in {"g_size", "g_data", "s_size", "s_data"}

Init ==
  /\ TableInit
  /\ sock = <<>> /\ lost = 0
  /\ cpc = [c \in Client |-> "new"]
  /\ cid = [c \in Client |-> -1]
  /\ cmd = [c \in Client |-> "GETID"]
  /\ sent = [c \in Client |-> 0]
  /\ inbox = [c \in Client |-> <<>>]
  /\ spc = "id" /\ name = NoClient /\ why = "none"
  /\ in = [id |-> -1, what |-> "junk"]
  /\ slave = [fd \in Fd |-> "none"]
  /\ addr = [fd \in Fd |-> NoClient]
  /\ sid = [fd \in Fd |-> 0]
  /\ pipe = [fd \in Fd |-> <<>>]
  /\ told = {}

-----------------------------------------------------------------------------
(* The clients. *)

\* sendto: the datagram gets into the socket of the server, or is lost.
SendTo(c, kind, id) ==
  \/ /\ sock' = Append(sock, [from |-> c, kind |-> kind, id |-> id, what |-> cmd'[c]])
     /\ UNCHANGED lost
  \/ lost < MaxLoss /\ lost' = lost + 1 /\ UNCHANGED sock

MayStart(c) == TakeTurns => \A d \in Client \ {c} : ~Sending(d)

\* GetIDFromServer sends the id -1.
GetID(c) ==
  /\ cpc[c] = "new" /\ MayStart(c)
  /\ UNCHANGED <<cmd, cid, sent>>
  /\ SendTo(c, "id", -1)
  /\ cpc' = [cpc EXCEPT ![c] = "g_size"]
  /\ UNCHANGED <<table, inbox, serverVars, slaveVars>>

Type(c, w) ==
  /\ cpc[c] = "prompt" /\ MayStart(c) /\ sent[c] < MaxSends
  /\ cmd' = [cmd EXCEPT ![c] = w]
  /\ sent' = [sent EXCEPT ![c] = @ + 1]
  /\ SendTo(c, "id", cid[c])
  /\ cpc' = [cpc EXCEPT ![c] = "s_size"]
  /\ UNCHANGED <<table, cid, inbox, serverVars, slaveVars>>

SendSize(c) ==
  /\ cpc[c] \in {"g_size", "s_size"}
  /\ UNCHANGED <<cmd, cid, sent>>
  /\ SendTo(c, "size", 0)
  /\ cpc' = [cpc EXCEPT ![c] = IF @ = "g_size" THEN "g_data" ELSE "s_data"]
  /\ UNCHANGED <<table, inbox, serverVars, slaveVars>>

\* Fault: the client stays after exit.
SendDataStaying(c) ==
  /\ cpc[c] \in {"g_data", "s_data"}
  /\ UNCHANGED <<cmd, cid, sent>>
  /\ SendTo(c, "data", 0)
  /\ cpc' = [cpc EXCEPT ![c] = IF @ = "g_data" THEN "waitid"
                               ELSE IF cmd[c] \in Leaving THEN "prompt" ELSE "wait"]
  /\ UNCHANGED <<table, inbox, serverVars, slaveVars>>

\* The client leaves after exit and CLOSE_SERVER and words that begin so.
SendData(c) ==
  /\ cpc[c] \in {"g_data", "s_data"}
  /\ UNCHANGED <<cmd, cid, sent>>
  /\ SendTo(c, "data", 0)
  /\ cpc' = [cpc EXCEPT ![c] = IF @ = "g_data" THEN "waitid"
                               ELSE IF cmd[c] \in Leaving THEN "gone" ELSE "wait"]
  /\ inbox' = IF cpc'[c] = "gone" THEN [inbox EXCEPT ![c] = <<>>] ELSE inbox
  /\ UNCHANGED <<table, serverVars, slaveVars>>

\* Fault: the client does not keep the id.
ReceiveWithoutId(c) ==
  /\ cpc[c] \in {"waitid", "wait"} /\ inbox[c] # <<>>
  /\ cpc' = [cpc EXCEPT ![c] = IF Head(inbox[c]).kind = "half" THEN "stuck" ELSE "prompt"]
  /\ inbox' = [inbox EXCEPT ![c] = Tail(@)]
  /\ UNCHANGED <<table, sock, lost, cid, cmd, sent, serverVars, slaveVars>>

\* The client gets a reply: its id, which is atoi of the text (0 for text that is
\* no number), or the answer.  Half a reply leaves it in recvfrom.
Receive(c) ==
  /\ cpc[c] \in {"waitid", "wait"} /\ inbox[c] # <<>>
  /\ LET r == Head(inbox[c]) IN
     /\ cpc' = [cpc EXCEPT ![c] = IF r.kind = "half" THEN "stuck" ELSE "prompt"]
     /\ cid' = IF cpc[c] = "waitid" /\ r.kind # "half"
               THEN [cid EXCEPT ![c] = r.id] ELSE cid
  /\ inbox' = [inbox EXCEPT ![c] = Tail(@)]
  /\ UNCHANGED <<table, sock, lost, cmd, sent, serverVars, slaveVars>>

\* fgets fails at the end of the input: the client leaves without a word.
EndOfInput(c) ==
  /\ cpc[c] = "prompt"
  /\ cpc' = [cpc EXCEPT ![c] = "gone"]
  /\ inbox' = [inbox EXCEPT ![c] = <<>>]
  /\ UNCHANGED <<table, sock, lost, cid, cmd, sent, serverVars, slaveVars>>

-----------------------------------------------------------------------------
(* The server: M_ReadPack_Named, one recvfrom at a time. *)

Order == [from |-> NoClient, what |-> "CLOSE_SERVER"]

\* Fault: the slave of the first id is forgotten.
StopFromOne(reason) ==
  /\ spc' = "dead" /\ why' = reason
  /\ pipe' = [fd \in Fd |-> IF \E i \in Live : i > 0 /\ IDS[i] = fd
                            THEN Append(pipe[fd], Order)
                            ELSE pipe[fd]]
  /\ UNCHANGED <<table, slave, addr, sid, told>>

\* The end of StartServer and M_Close_IDS, which tells every slave in the table.
Stop(reason) ==
  /\ spc' = "dead" /\ why' = reason
  /\ pipe' = [fd \in Fd |-> IF \E i \in Live : IDS[i] = fd
                            THEN Append(pipe[fd], Order)
                            ELSE pipe[fd]]
  /\ UNCHANGED <<table, slave, addr, sid, told>>

Recv(at) == spc = at /\ sock # <<>> /\ sock' = Tail(sock) /\ name' = Head(sock).from

\* A size or a piece of data read as an id is some number, never -1: sizes are
\* positive, and encrypted data has no byte of -1.
ReadId ==
  /\ Recv("id")
  /\ \E i \in IF Head(sock).kind = "id" THEN {Head(sock).id} ELSE 0 .. BUFSZ :
       in' = [id |-> i, what |-> "junk"]
  /\ spc' = "size"
  /\ UNCHANGED <<table, lost, clientVars, inbox, why, slaveVars>>

\* A size tells which data it belongs to.  Anything else read as a size may be too
\* much for malloc.
ReadSize ==
  /\ Recv("size")
  /\ UNCHANGED <<lost, clientVars, inbox>>
  /\ \/ /\ in' = [in EXCEPT !.what = IF Head(sock).kind = "size"
                                     THEN Head(sock).what ELSE "junk"]
        /\ spc' = "data"
        /\ UNCHANGED <<table, why, slaveVars>>
     \/ Head(sock).kind # "size" /\ UNCHANGED in /\ Stop("misframed")

\* The data is what was sent if the size was its own; with another size it may
\* have been cut.
ReadData ==
  /\ Recv("data")
  /\ \E w \in IF Head(sock).kind # "data" THEN {"junk"}
              ELSE IF in.what = Head(sock).what THEN {Head(sock).what}
              ELSE {Head(sock).what, "junk"} :
       in' = [in EXCEPT !.what = w]
  /\ spc' = "run"
  /\ UNCHANGED <<table, lost, clientVars, inbox, why, slaveVars>>

\* The data of the packet StartServer acts on.
What == in.what

Running == spc = "run" /\ UNCHANGED <<sock, lost, clientVars, inbox, in, name>>

CloseServer == Running /\ What = "CLOSE_SERVER" /\ Stop("asked")

\* CreateNewClient; a fork that fails is not noticed.
NewClient ==
  /\ Running /\ What # "CLOSE_SERVER" /\ in.id = -1
  /\ \/ /\ \E fd \in Fd :
             /\ slave[fd] = "none" /\ Create(fd)
             /\ \E s \in {"start", "dead"} : slave' = [slave EXCEPT ![fd] = s]
             /\ addr' = [addr EXCEPT ![fd] = name]
             /\ sid' = [sid EXCEPT ![fd] = NewID]
        /\ spc' = "id"
        /\ UNCHANGED <<why, pipe, told>>
     \/ ~CanPipe /\ Stop("descriptors")

Write(fd, w) ==
  pipe' = [pipe EXCEPT ![fd] = Append(@, [from |-> name, what |-> w])]

\* WriteMessage: exit closes the slave and frees the id, all else is passed on.
WriteMessage ==
  /\ Running /\ What # "CLOSE_SERVER" /\ in.id # -1
  /\ GetFD(in.id) # -1
  /\ IF What = "exit"
       THEN Write(GetFD(in.id), "CLOSE_SERVER") /\ Delete(in.id)
       ELSE Write(GetFD(in.id), What) /\ UNCHANGED table
  /\ spc' = "id"
  /\ UNCHANGED <<why, slave, addr, sid, told>>

\* Any id the table does not know ends the server.
UnknownID ==
  /\ Running /\ What # "CLOSE_SERVER" /\ in.id # -1
  /\ GetFD(in.id) = -1
  /\ Stop("unknown id")

-----------------------------------------------------------------------------
(* The slaves. *)

\* A reply to a client that has left is dropped with its socket.
Reply(fd, replies) ==
  inbox' = IF cpc[addr[fd]] = "gone" THEN inbox
           ELSE [inbox EXCEPT ![addr[fd]] = @ \o replies]
Text == [kind |-> "text", id |-> 0]
Half == [kind |-> "half", id |-> 0]

Becomes(fd, s) == slave' = [slave EXCEPT ![fd] = s]

\* Fault: the slave sends its descriptor for its id.
SlaveStartWithFd(fd) ==
  /\ slave[fd] = "start"
  /\ Reply(fd, <<[kind |-> "id", id |-> fd]>>)
  /\ Becomes(fd, "loop")
  /\ UNCHANGED <<table, sock, lost, clientVars, serverVars, addr, sid, pipe, told>>

\* Start sends the client its id.
SlaveStart(fd) ==
  /\ slave[fd] = "start"
  /\ Reply(fd, <<[kind |-> "id", id |-> sid[fd]]>>)
  /\ Becomes(fd, "loop")
  /\ UNCHANGED <<table, sock, lost, clientVars, serverVars, addr, sid, pipe, told>>

Take(fd) ==
  /\ pipe[fd] # <<>>
  /\ pipe' = [pipe EXCEPT ![fd] = Tail(@)]
  /\ told' = IF Head(pipe[fd]) = Order THEN told \cup {fd} ELSE told
  /\ UNCHANGED <<table, sock, lost, clientVars, serverVars, addr, sid>>

Message(fd) == Head(pipe[fd]).what

\* M_EncryptString works in place.  Where literals are read-only, a reply that is
\* one kills the slave with two datagrams sent; elsewhere it goes out.
ReplyLiteral(fd, more) ==
  \/ Reply(fd, <<Half>>) /\ Becomes(fd, "dead")
  \/ Reply(fd, <<Text>> \o more) /\ UNCHANGED slave

\* CLOSE_SERVER arrives without its final zero and may not be recognised.
SlaveClose(fd) ==
  /\ slave[fd] = "loop" /\ Take(fd) /\ Message(fd) = "CLOSE_SERVER"
  /\ \/ Becomes(fd, "dead") /\ UNCHANGED inbox
     \/ ReplyLiteral(fd, <<>>)

\* Fault: a command is carried out and not answered.
SlaveCommandSilent(fd) ==
  /\ slave[fd] = "loop" /\ Take(fd)
  /\ Message(fd) \notin {"CLOSE_SERVER", "bash"}
  /\ UNCHANGED <<slave, inbox>>

\* CheckBuffer.  MakeLs waits for ls before it reads the pipe that ls writes to.
SlaveCommand(fd) ==
  /\ slave[fd] = "loop" /\ Take(fd)
  /\ Message(fd) \notin {"CLOSE_SERVER", "bash"}
  /\ \/ /\ Message(fd) = "cmd"
        /\ \/ Reply(fd, <<Text>>) /\ UNCHANGED slave
           \/ \E s \in {"dead", "hung"} : Becomes(fd, s) /\ UNCHANGED inbox
     \/ Message(fd) = "cd2" /\ ReplyLiteral(fd, <<Text>>)
     \/ Message(fd) \notin {"cmd", "cd2"} /\ ReplyLiteral(fd, <<>>)

\* WriteIntoBash and CheckPoll, which never ends once the shell has filled
\* big_buffer.
ShellOutcome == {"bash", "spin", "dead"}

\* CreateBash.
SlaveBash(fd) ==
  /\ slave[fd] = "loop" /\ Take(fd) /\ Message(fd) = "bash"
  /\ \/ Becomes(fd, "dead") /\ UNCHANGED inbox
     \/ Reply(fd, <<Half>>) /\ Becomes(fd, "dead")
     \/ Reply(fd, <<Text>>) /\ \E s \in ShellOutcome : Becomes(fd, s)

\* CheckBash; a CLOSE_SERVER that is not recognised goes to the shell.
SlaveShell(fd) ==
  /\ slave[fd] = "bash" /\ Take(fd)
  /\ \E s \in ShellOutcome :
       /\ Becomes(fd, s)
       /\ IF s = "bash" THEN Reply(fd, <<Text>>) ELSE UNCHANGED inbox

\* A slave that outlives the write end of its pipe: M_ReadPack_Unnamed takes the
\* end of the file for a packet whose size it has not read.  The slave dies of it
\* or answers again and again, of which the model keeps the first answer.  Later
\* slaves hold copies of the write end, so that the end may never come.
SlaveEndOfPipe(fd) ==
  /\ slave[fd] \in {"loop", "bash"} /\ pipe[fd] = <<>>
  /\ spc = "dead" \/ \A i \in Live : IDS[i] # fd
  /\ \/ Becomes(fd, "dead") /\ UNCHANGED inbox
     \/ Reply(fd, <<Half>>) /\ Becomes(fd, "dead")
     \/ Reply(fd, <<Text>>) /\ Becomes(fd, "spin")
  /\ UNCHANGED <<table, sock, lost, clientVars, serverVars, addr, sid, pipe, told>>

-----------------------------------------------------------------------------
ClientStep(c) == SendSize(c) \/ SendData(c) \/ Receive(c)
User(c) == GetID(c) \/ EndOfInput(c) \/ \E w \in Typed : Type(c, w)
ServerStep ==
  \/ ReadId \/ ReadSize \/ ReadData
  \/ CloseServer \/ NewClient \/ WriteMessage \/ UnknownID
SlaveStep(fd) ==
  \/ SlaveStart(fd) \/ SlaveClose(fd) \/ SlaveCommand(fd)
  \/ SlaveBash(fd) \/ SlaveShell(fd)

Next ==
  \/ ServerStep
  \/ \E c \in Client : User(c) \/ ClientStep(c)
  \/ \E fd \in Fd : SlaveStep(fd) \/ SlaveEndOfPipe(fd)

Spec == Init /\ [][Next]_vars

\* Every process that can go on does.  Nobody has to type, and nothing says when
\* the last write end of a pipe is closed.
Fairness ==
  /\ WF_vars(ServerStep)
  /\ \A c \in Client : WF_vars(ClientStep(c))
  /\ \A fd \in Fd : WF_vars(SlaveStep(fd))

FairSpec == Spec /\ Fairness

-----------------------------------------------------------------------------
(* Properties. *)

NetTypeOK ==
  /\ sock \in Seq(Datagram)
  /\ lost \in 0 .. MaxLoss
  /\ inbox \in [Client -> Seq(Answer)]

ClientTypeOK ==
  /\ cpc \in [Client -> {"new", "g_size", "g_data", "waitid", "prompt", "s_size",
                         "s_data", "wait", "gone", "stuck"}]
  /\ cid \in [Client -> Index \cup {-1}]
  /\ cmd \in [Client -> Payload]
  /\ sent \in [Client -> 0 .. MaxSends]

ServerTypeOK ==
  /\ spc \in {"id", "size", "data", "run", "dead"}
  /\ in \in [id : -1 .. BUFSZ, what : Payload]
  /\ name \in Client \cup {NoClient}
  /\ why \in {"none", "asked", "misframed", "descriptors", "unknown id"}

SlaveTypeOK ==
  /\ slave \in [Fd -> {"none", "start", "loop", "bash", "spin", "hung", "dead"}]
  /\ addr \in [Fd -> Client \cup {NoClient}]
  /\ sid \in [Fd -> Index]
  /\ pipe \in [Fd -> Seq(Passed)]
  /\ told \subseteq Fd

TypeOK == TableTypeOK /\ NetTypeOK /\ ClientTypeOK /\ ServerTypeOK /\ SlaveTypeOK

InServer(c) == cpc[c] \in {"prompt", "s_size", "s_data", "wait"}

\* Requirement 5 of README.md, isolation: a slave is only ever passed what the
\* client it answers has sent (server.c:58-84).
Isolated ==
  \A fd \in Fd : \A i \in DOMAIN pipe[fd] :
    pipe[fd][i].from \in {addr[fd], NoClient}

\* The id that a client holds leads to the slave that answers this client, from
\* the moment it has it until it leaves (client.c:55-63, ID.c:46-56).
Routed ==
  spc # "dead" => \A c \in Client : InServer(c) =>
    /\ GetFD(cid[c]) # -1
    /\ addr[GetFD(cid[c])] = c

\* Errors end the server in one way only if nothing is lost or interleaved: it
\* runs out of descriptors (server.c:93-98).
StopsOnRequest == why \in {"none", "asked", "descriptors"}

\* A client that waits for an answer gets one, or its slave is gone, or hangs in
\* the shell (CheckPoll) or in ls (MakeLs), or the server has stopped.
Answered ==
  \A c \in Client :
    cpc[c] = "wait" ~> \/ cpc[c] # "wait" \/ spc = "dead"
                       \/ \E fd \in Fd : addr[fd] = c /\ slave[fd] \in {"dead", "spin", "hung"}

\* When StartServer has returned, asked or by an error, whatever it has misread,
\* every slave that it has in its table is dead, or has taken the order to close
\* from its pipe, or will find it there as the last message; and no slave has got
\* the order before (ID.c:58-79).
ShutdownReachesSlaves ==
  IF spc = "dead"
    THEN \A i \in Live : LET fd == IDS[i] IN
           \/ slave[fd] = "dead" \/ fd \in told
           \/ pipe[fd] # <<>> /\ pipe[fd][Len(pipe[fd])] = Order
    ELSE told = {}
=============================================================================
