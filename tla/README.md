# Verification of 2nd_grade

The repository holds independent programs of a course on system programming.
Five of them carry the concurrency worth specifying: the **stack in shared memory**
(`C_3_sem/Stack`), the **UDP server** and the **TCP server with remote shells**
(`C_4_Sockets`), the **shell of pipelines** (`C_3_sem/grep`) and the **reserve copy**
(`C_3_sem/Res_copy`). Two pure functions are specified too, the encryption of packets and
**BizzBuzz**. The others are listed below.

Specifications are checked with TLC, theorems with TLAPS. `PROJECT.json` lists the
runs, the theorems, the hazards with the properties that address them, and maps
each definition to the lines of source it stands for.

## 1. The system

### Shared stack: `C_3_sem/Stack/Stack/stack.c`

*State.* One System V segment: three words of header (`owner_[0]` the size,
`owner_[1]` the capacity, `owner_[2]` the semaphore id) and the slots; one
semaphore set; in the kernel one undo adjustment per process; in each process a
handle (`cap_`, `sem_`), `wait_param` and a static `struct sembuf`.

*Operations.* `attach_stack` creates the segment or finds it, `detach_stack`,
`mark_destruct`, `push`, `pop`, `dump`, `set_wait`.

*Interaction.* Processes share the segment and the semaphore and nothing else.

*Hard.* The size is tested before the semaphore is taken; a process may be killed
between any two accesses, and `SEM_UNDO` must put the semaphore right; attaching
races creating; destroying races everything.

*Correct when* one process at a time is inside, no push or pop is lost or doubled,
the damage that racing tests of the size can do is bounded, calls come to an end.

### UDP server: `C_4_Sockets`

| part | source | state | operations |
|---|---|---|---|
| table of clients | `ID/ID.c` | `IDS`, `NOT_USED_IDS`, two counters | create, delete, look up, close all |
| packets | `packet/packet.c` | none | named: id, size, data as three datagrams; unnamed: size and data in a pipe |
| server | `server/server.c` | the socket, the table, the sender of the last datagram | read a packet; create a client; pass a message; close |
| slave | `server/server_slave.c` | its pipe, the client's address, a shell or none | send the id; answer commands; run a shell; close |
| client | `client/client.c` | its id, its socket | ask for an id; send; receive |
| cryptography | `crypto/crypto.c` | none | encrypt and decrypt a byte, in place |
| log | `Com_libs/log.c` | a buffer and a position | format and write |

*Interaction.* All clients send to one socket of the server. The server keeps the
write end of one pipe per client and passes data to the slave, a forked child that
answers the client itself.

*Hard.* Three datagrams per packet from many senders on one socket, with loss; the
sender's address read apart from the packet it belongs to; ids that are reused;
descriptors that run out; slaves that die in the middle of an answer; shutdown.

*Correct when* an id leads to its client's slave and to nobody else's, clients are
isolated, the table is exact and within its arrays, commands are answered, errors
of one client do not end the server, the end of the server reaches the slaves.

### TCP server: `C_4_Sockets/server_TCP`, `client/client_TCP.c`

| part | source | state | operations |
|---|---|---|---|
| server | `server.c` | the listening socket, the connection just accepted | accept, fork and execute a slave, close its copy |
| slave | `server_slave.c` | its connection, the process id of its parent, `big_buffer` | greet; answer commands; run a shell; kill the server |
| client | `client_TCP.c` | its connection | connect; show the greeting; send a line, show a reply |

*Interaction.* Server and slaves share sockets by `fork`: a slave has the connection of its
client and, unknowingly, the listening socket, and so has every shell that a slave starts. Slave and client talk in packets over a
stream; slave and shell talk over a pseudo terminal, where only silence ends an answer.

*Hard.* `fork` and `exec` that fail unnoticed; slaves and shells that outlive the server and
keep its port; shells that outlive their slave and keep its connection; a process id kept after its process; streams that end or break off inside a packet;
replies that are one too many; output that comes after the silence.

*Correct when* every wait ends with an answer or the end of the stream, as long as nobody else
keeps the connection or the port, answers belong to
their commands, no slave kills a server that is not its parent, and what the shell wrote
arrives in order and in full.

### Pipeline: `C_3_sem/grep/first.c`

*State.* The pipe of the lines; the pipes between the commands of a line; in each
process, the ends of pipes it has open.

*Operations.* `print_command_to_pipe` writes each line as a length and a text, and a
zero; a worker reads a line, forks the next worker and runs `do_command`, which
becomes the only command (`do_ordinary_command`) or makes the pipes and forks the
commands (`do_grep_command`).

*Interaction.* Everything inherits everything through `fork`; nobody waits for anybody,
so that a pipeline ends by end of file and `SIGPIPE` alone.

*Hard.* Which process holds which end of which pipe, and for how long; several readers
of one pipe.

*Correct when* each worker runs its own line, items pass unchanged and in full, and
pipelines and workers end.

### Reserve copy: `C_3_sem/Res_copy`

| part | source | state | operations |
|---|---|---|---|
| client | `change.c` | its place in the order | write an order, in one or five writes |
| daemon | `main.c` | the names, the last watcher it has started | read an order; end the tree; start a watcher |
| watcher | `Libraries/ResCop.c` | `TABLE`, `CUR_NODE`, `flag_end`, the batch of events | first copy; watch; copy, delete; fork a watcher for a folder; pass the signal on |

*Interaction.* Clients share a FIFO with the daemon; the daemon and the watchers share
only signals; a watcher's child starts with a copy of the table; `cp` and `rm` run beside
the watcher and the user.

*Hard.* Orders of several writes; a table whose names are freed; signals that arrive
between a `fork` and the entry in the table; a first copy that nobody waits for.

*Correct when* there is one tree at a time, it carries out an order as given, the end of
the daemon ends it, and the backup becomes the folder when changes stop.

### The other programs

* **BizzBuzz** (`C_3_sem/BIZZBUZZ_09/file.c`): a pure function over a text, which is a file
  mapped into memory. *Hard:* signs, numbers at the end, and what is behind the end.
* `Common_libs` (wrappers that abort on failure), `Directories`, `Fcntl`, `13.11`,
  `Cheking files`, `Linker`, `GDB`: single-process exercises, not modelled.

## 2. Plan

1. *Done.* `SharedStack`, `BoundedStack` which it implements, and its proofs.
2. *Done.* `IDTable`, `IdAllocator` which it implements, and its proofs.
3. *Done.* `UdpServer`, which uses `IDTable`, and first proofs.
4. *Done.* `Pipeline`, the processes and the ends of pipes they hold, and first proofs.
5. *Done.* `BackupWatch`, one watcher with its copies against a user, and `ReserveCopy`,
   the orders and the tree of watchers.
6. *Done.* `Crypto`: which bytes survive a packet, in the copy and in the original.
7. *Done.* `BashSession`: `WriteIntoBash` and `CheckPoll` against a shell; termination.
8. *Done.* `TcpServer`: accept, fork, exec, the closing signal, streams, and its proofs.
9. *Done.* `BizzBuzz`, the program against a definition on the whole text.
10. *Done.* Proofs: that `SharedStack` implements `BoundedStack`; `UnitLostOnlyByDeath`; that
    `UdpServer` isolates and routes when clients take turns and nothing is lost;
    `NothingLost` of `Pipeline`; `InSync` of `BackupWatch`; `OneTree`, `OrdersWhole` and
    `Escapes` of `ReserveCopy`; `Answers` of `BashSession`; that a packet carries its bytes and
    BizzBuzz translates texts of any length. What is left to TLC, and why, is
    at the end of section 5.

Modules that are proved about use no recursive operator.

## 3. The modules

### `SharedStack`, `BoundedStack`, `MCSharedStack`

A step is one access to the segment or one system call.

| action | code |
|---|---|
| `Shmget`, `Semget`, `SetCap`, `SetSem`, `FirstIncrease` | `attach_stack` of the creator, 23-44 |
| `Find` | `attach_stack` of the others, 46-60 |
| `ReadCap`, `ReadSem` | both, 62-65 |
| `PushCheck`, `PopCheck` | the tests before the semaphore, 106 and 133 |
| `Decrease`, `DecreaseAgain`, `DecreaseError` | `sem_decrease`: taken, `EAGAIN`, any other error |
| `PushStore`, `Load`, `PushInc` | 119-120; `owner_[0]++` is a load and a store |
| `Load`, `PopDec`, `PopRead` | 147-148 |
| `Dump` | 192-206: `dump_wait`, then `dump_post` |
| `Increase`, `IncreaseError` | `sem_increase` |
| `Detach`, `MarkDestruct`, `RemoveSem`, `RemoveShm` | 70-94 |
| `SetWait` | 161-189 |
| `Kill` | a death from outside; `Die` is also what `errror` does |

The kernel's part is `Adjust` and `Die`: `semop` with `SEM_UNDO` adds the opposite to
the process's adjustment, which the kernel applies at its death, not below zero.
A process starts with or without `SEM_UNDO` in its static `struct sembuf`
(`undoOn`): a process that only attaches, and whose parent never initialised the
library, has none.

Memory beyond the block: slots are modelled up to `Cap + |Proc|`, since racing
pushes write above the block (the segment is rounded up to a page); slot -1 is the
capacity and semaphore id, which a push at size -1 overwrites (`header =
"clobbered"`), and below it the access faults.

`BoundedStack` is what users are promised: a sequence, `Push`, `Pop`, and `Lose` for
the element that a dying pop takes along. In the refinement (`AtomicStack`) the
abstract stack is the slots below the size, plus the slot a pop is about to read.

### `IDTable`, `IdAllocator`

`IDTable` is `ID.c` with the count of the server's descriptors: `Create` is `pipe` and
`M_CreateID_FromFD`, two descriptors more; `Delete` is `M_DeleteID`, one less, because
the read end stays open in the server. Arrays initialised with `{ -1 }` hold -1 in
their first element only, as in C. `IdAllocator` is the promise: an id is held by
one client at a time and names one pipe while it is held.

`TableAssumption` says that the descriptors run out first: `FdLimit <= FdBase +
2 * BUFSZ + 1`. With `BUFSZ = 512` and the usual limit of 1024 descriptors it holds;
with a larger limit the arrays, which are not tested, overflow.

### `UdpServer`, `MCUdpServer`

`UdpServer` extends `IDTable`. Clients send three datagrams (`GetID` or `Type`,
`SendSize`, `SendData`) that land in one queue; the server reads three (`ReadId`,
`ReadSize`, `ReadData`), whoever sent them and whatever they are, and then takes one
of `CloseServer`, `NewClient`, `WriteMessage`, `UnknownID` (`StartServer`, 60-84). Each
ends in `Stop` where the code returns -1 or 0 from `StartServer`: `Stop` includes
`M_Close_IDS`. A slave is identified with the write end of its pipe. `SlaveStart`,
`SlaveClose`, `SlaveCommand`, `SlaveBash`, `SlaveShell` and `SlaveEndOfPipe` are the
rounds of its loop.

What a misread datagram can be is a choice: a size or data read as an id is any
number except -1 (sizes are positive, and bytes after encryption are 0..122); an id
or data read as a size may make `malloc` fail, which ends the server.

Undefined behaviour is a choice too: `CLOSE_SERVER` is passed without its zero and
may not be recognised (`SlaveClose`); string literals are encrypted in place, which
kills the slave or works (`ReplyLiteral`); a packet read at the end of a pipe has a
size that was never read (`SlaveEndOfPipe`).

The data are reduced to what properties distinguish: `"cmd"` is any command answered
from a buffer, `"cd2"` a `cd` that fails and is answered twice, `"bad"` any command
answered with a literal, `"leaver"` a word that only begins with `exit` or
`CLOSE_SERVER`, after which the client leaves but keeps its slot, `"junk"` anything else.
Among the commands answered from a buffer is `ls`, for which the slave waits before it reads
the pipe that `ls` writes to (`MakeLs`, `"hung"`). `told` is a history variable: the slaves
that have taken the order of a server that ends.

### `TcpServer`, `MCTcpServer`

| action | code |
|---|---|
| `Accept`, `AcceptFails` | `StartServer`, 57-62 |
| `CreateNewClient`, `CloseConnection` | `CreateNewClient` and 64-67 |
| `Start` | `main` of a server that somebody starts again |
| `Greet` | `main` of the slave |
| `Exit`, `CloseServer` | `StartSlave` 91-92, 97-108, and the same commands in `CheckBash` |
| `AnswerOnce`, `BadCD`, `MakeLs` | `CheckBuffer` and what it calls |
| `CreateBash`, `Shell` | `CreateBash` with `PrintFirstCommand`, and a round of `CheckBash` |
| `ShellEnds` | the shell, with all that it has started, ends (external) |
| `EndOfStream` | `M_ReadPack_Named` at the end of the stream |
| `Connect`, `Type`, `Killed` | `main` and `StartClient` of the client, and its user |
| `Receive`, `ReceiveRest`, `ReceiveEnd` | `M_ReadPack_Named` in the client: a packet, the rest of one, the end |

A client connects once and names its connection and its slave. `run` counts the servers and
`parent` is the one that forked a slave, which stands for the process id that the slave was
given; `shells` are the clients of whose shell something still runs, whether their slave is
alive or not; `Connected` says who has the other end of a connection: the server (`held`), a
slave, what runs in a shell, or the kernel while the connection waits to be accepted and somebody has the listening
socket. `writable` is a property of the build: whether string literals, which are encrypted
where they are, can be written to. `shown` and `typed` relate answers to commands: a reply
carries the command that it answers (`of`).

Choices: any call that may fail; a shell that never stops writing or a folder that `ls`
cannot write into the pipe (`"hung"`); a `recvfrom` that returns less than a long reply, the
`"rest"` of which is read as a packet later and from then on `astray` holds.

### `BashSession`, `MCBashSession`

`Command` is the beginning of `WriteIntoBash`, `Read` a round of its loop, `Timeout` its
end; `ShellWrites` is the shell and the terminal. Every character knows its command and its
place, so that a reply can be compared with what the shell wrote. `quick`, chosen at the
start, says whether the shell never pauses for a second while it has something to write.
Once the buffer is full no action is enabled for the slave: that is `read` with length 0,
again and again. The reply ends with a blank and a zero; if the last `#` fills the buffer,
they are written behind it, and the slave goes on or dies.

### `Crypto`, `BizzBuzz`, `MCTexts`

`Crypto` computes with the integers of C: a negative `char` becomes an `unsigned` 2^32 larger,
and products are modulo 2^32 before they are modulo 123. Its variables are one packet on its
way: the text in the memory of the sender is encrypted, sent and decrypted again, since the
client compares it with `exit` afterwards (`client_TCP.c:73`).

`BizzBuzz` follows the program character by character where that matters (`ReadNum` with the
places at which it looks) and by ranges where it copies. `full` says whether the file fills its
pages, so that there are no zeros behind it. What lies behind such a file is any text out of
`Behind`, read as if it were the file's, up to a hole in the memory, where reading faults;
`text` is all of it. At the end of the module `Translation` defines
the result from the words of the text and the values of its numbers, without remainders
kept digit by digit; it has the two exceptions that the program makes.

`MCTexts` lets one of the two programs run.

### `Pipeline`, `MCPipeline`

| action | code |
|---|---|
| `Open`, `WriteLine`, `WriteEnd` | `print_command_to_pipe` of the main process |
| `ReadLength`, `ReadText`, `ForkNext` | the loop of `main` in the child |
| `Crash`, `BecomeCommand`, `MakePipes` | `do_command` for no command, one command, more |
| `Fork`, `Close` | `do_grep_command`: the parent's forks and closes, one after the other |
| `Exec` | the child's closes, `dup2` and `execvp` in `do_ordinary_command` |
| `CallFails` | a failed `fork` or `pipe`, which aborts the worker |
| `Generate`, `Take`, `Give`, `EndOfFile`, `Finish`, `SigPipe` | the programs that run as commands (external) |

`worker` and `line` are indexed by the worker's number, `held` and `holds` are the ends of
pipes that are open in a worker and in a command. A command is one of four kinds: `"gen"`
writes `Items` items, `"pass"` copies, `"head"` leaves after one item, `"bad"` cannot be
executed. A line in `Unterminated` fills the block that `calloc` gives it, and its last
command may be read with what follows in memory.

### `BackupWatch`

One watcher and its files: the process that `AddWatch` forks, the `cp -r` that
`CheckFolder` starts and does not wait for, the user, and inotify with its queue. A file
is a version, and a copy is two steps, a read and a write, between which the user may
change the file. No result is looked at: `ClearFails`, `FirstCopyFails` and `EventFails` are
what comes of that, where a child whose `exec` fails goes on as a second watcher (`Twin`);
`fork_s` ends the watcher (`ForkFails`). `cp` of a named pipe waits until somebody writes to
it (`"stuck"`).

`NextEvent` has the loop of `AddWatch` over slots of 16 bytes: a name takes slots too, and
each but the last one of all is carried out as an event. What a slot does depends on the
letters of the name: a naming (`naming`, one of `Namings`) says so for every file. In the last
slot of a name (`naming.last`) the mask of the event is letters of the name and its file is no file, so that it can only raise `SIGUSR1`
in the watcher itself. A name of more than 15 letters has slots before it (`naming.inner`), and their
file is the rest of the name: they can copy or remove another file, and without a rest remove
the whole backup or start a second watcher. `harm` notes what they have done.

### `ReserveCopy`, `MCReserveCopy`

The clients (`Open`, `Write`, `Close`, `Die`), the daemon (`ReadNum`, `ReadNames`, `Start`)
and the watchers. The daemon reads what the FIFO holds: the message it expects; a
message it takes for something else, after which `astray` says that nothing is where
it should be and each read may take any bytes; or nothing, when no client has the FIFO
open, which makes an empty name. Watchers inherit the reading end and never close it, so that
clients can open the FIFO and write when the daemon has gone (`Readers`). `careful`, chosen at the start, says whether users give
one order at a time and never kill a client.

A watcher is a record: `ForkWatcher` copies the parent's, table and all; `ClearTable` and
`SetHandler` are its first steps; `Record` is the parent's `CUR_NODE++`. Between
`ForkWatcher` and `Record`, and between `Matches` and `Swap` of `DeleteFolder`, one child
is outside the part of the table that counts (`child`). `Handle` is the handler of
`SIGUSR1`, which `Deliver` calls, or takes the default action before there is one, and
`RaiseSelf`: a name that is taken for an event can have a watcher signal itself.
`CheckFolder` does not end a child whose `execlp` fails: one that was to be `rm`
(`RemoveStrays`), for which its parent waits (`StrayEnds`), or `cp` (`CopyStrays`) goes on as a
watcher that is in nobody's table. `Stick` and `Unstick` are a `cp` of a named pipe, which waits
for somebody to write. `Hit` is `kill`, for which the -1 of
a failed `fork` is everybody. Which entry `DeleteFolder` takes for the deleted folder is a
choice: the names it compares with were freed.

### Faults

Operators named in a comment that begins with *Fault* are not part of the
specifications. Each is a definition with a plausible bug, and the property that it
is listed with in `PROJECT.json` fails when it takes the definition's place.

## 4. The runs

| run | instance | checks |
|---|---|---|
| `stack_safety` | 3 processes, capacity 1, all push and pop, all may die; symmetry | `TypeOK`, `MutualExclusion`, `BoundedOvershoot`, `EntryAfterSetup` |
| `stack_refines` | 2 processes, capacity 2, 2 values, every waiting mode, 1 popper, no dumps, both may die | `HeaderIntact`, `AtomicStack` |
| `stack_live` | 1 pusher, 1 popper, dumps without waiting, both may die, fairness | `UnitLostOnlyByDeath`, `CallsReturn` |
| `udp_turns` | 2 clients that send in turn, 2 commands each out of 5, no loss, fairness | `TypeOK`, `Isolated`, `Routed`, `StopsOnRequest`, `Answered` |
| `udp_noise` | 3 clients, 1 lost datagram, arrays of length 2, 5 spare descriptors; symmetry | `FreeListExact`, `TableBounded`, `ShutdownReachesSlaves`, `IdsAreExclusive` |
| `udp_isolation` | 2 clients that send at once, no loss | `Isolated`, violated |
| `tcp` | 2 clients with 3 and 1 commands out of 6, 2 servers one after the other, every failure, fairness | `TypeOK`, `InStep`, `OwnServer`, `NobodyLeftWaiting` |
| `shell` | 3 commands with 5 outputs, a buffer of 4, a terminal of 2, fairness | `Answers`, `Replies` |
| `texts` | every byte and 6 texts through a packet; all texts of up to 4 out of 12 characters, and behind a full page nothing, a digit, or a number and an end | `Carried`, `Translated` |
| `pipeline` | 6 files of up to 2 lines of up to 3 commands, every failure, fairness | `TypeOK`, `OwnLine`, `HeldOnTheLeft`, `NothingLost`, `WorkersEnd`, `PipelinesEnd` |
| `backup_watch` | 2 files, a queue of 2 events, every failure, fairness; 3 changes with short names, one of which is misleading; 2 changes with long names, whose letters copy and remove the other file (a named pipe) and end the watcher, or remove the backup and start a second watcher | `TypeOK`, `InSync`, `Converges` |
| `reserve_copy` | 2 clients with any orders, fairness; 3 watchers and 1 deleted folder with careful users, 2 watchers with careless ones | `TypeOK`, `OneTree`, `OrdersWhole`, `Escapes`, `StopEndsAll` |

*What they show.* The semaphore does its work whoever dies; push and pop are atomic
and LIFO; what goes wrong at the ends of the stack is less than one element per
racing process; the only ways to lose the semaphore's unit are deaths that its
adjustments do not cover, of the creator above all (`test4` of `main.c` can hit
that), and then the others wait for ever. The table of ids is right under anything
the network does. Isolation and routing hold only if clients never send at the
same time and nothing is lost.

A process that attaches too early gets zeros for its capacity or its semaphore, for ever and
against `stack.h:46-47`; but that happens only before anybody has been inside
(`EntryAfterSetup`). Clients that come and go use up the descriptors of the UDP server, which
then ends for everybody, against requirement 6 of `C_4_Sockets/README.md`; the reachable
ends of the server are in `StopsOnRequest`.

A UDP client that waits is left alone only if its slave is gone, hangs (in `ls` with a folder of
many names, or in the shell) or the server has stopped. When `StartServer` returns, every slave
gets the order to close; that it recognises the order is not said, since the terminating zero
is missing.

A TCP client that waits is left alone in three ways only: its slave hangs in `ls` or in the
shell; its slave has ended, but a program started in the shell goes on and keeps the
connection that it has inherited; or the server has ended while slaves or shells kept the port
open. Answers come late by one
for each `cd` that failed outside the shell, and are otherwise those of their commands until
a long reply is read in two parts. A slave may be given the process id of a server that has
ended, but never kills another, since a second server cannot start before the slaves of the
first have ended, and their shells: the listening socket that they inherit prevents it. With a shell that does
not pause, a reply is all of its output up to the last prompt; otherwise nothing is lost, but
it comes with the next reply, unless it is cut off behind the last `#`. A packet carries the
bytes 0 to 122 and no others. What BizzBuzz writes is the translation of its file, if that has
an end of its own; a file that fills its pages is translated together with foreign memory.

Pipelines pass everything on and end if no command from the third on leaves before its
input ends; otherwise the command that writes to it may wait for ever, since those
further left hold the reading end (`Patient` is the premise of `PipelinesEnd`). The
backup becomes the folder for every change made after the watch was set *and* the first
copy complete; for those before, it may stay wrong (`early` in `InSync` and `Converges`), as it
may for an event that is dropped or whose `cp` or `rm` fails (`lost`), when the letters of a
name have removed a copy or the folder has two watchers (`harm`), and if there is no first
copy.
Orders are carried out as given when users are careful. There is one tree of watchers
whatever the FIFO brings; a watcher outlives an order to stop only if it was in a gap of
its parent's table, between the fork and its entry or while an entry is moved, if it was never
in it, because it is a `cp` or `rm` of `CheckFolder` that could not be executed, or if its
parent has aborted. All others end once the daemon has, but for those that wait for a `cp`
without end; these pass the order on all the same.

*What they do not hold without.* With `NO_WAIT` or `WAIT_TIME`, a `dump` that got
`EAGAIN` gives back a unit it never took, and mutual exclusion is gone; hence `Modes`
is empty in `stack_safety` and `Dumpers` in `stack_refines`. With two popping
processes the size can reach -1 and a push destroys the header; hence one popper in
`stack_refines`, and the premise of `HeaderIntact`.

*The violated run* is a finding: `udp_isolation` contradicts requirement 5 of
`C_4_Sockets/README.md`, said to be done.

*Bounds.* Three processes on a stack of one slot reach every race of the tests of
the size from both ends, and a creator with two attachers; two slots and two values
tell LIFO from FIFO. Two clients with two commands reach a shell, a second command
in it, a failed `cd` followed by another command, and closing with an open client.
Three clients on two ids force an id to be reused, and 5 spare descriptors run out.
`MaxSends`, `MaxLoss` and `Fd` bound the runs; the theorems of section 5 have none of
these bounds. Three commands are the fewest with a command in the middle, for which the
worker's and the child's closes differ; pipes of one item are full at once, and three items
outlast them; two lines have a worker fork a worker that forks. Two files and three
changes have a change to each while the other is copied, and overflow a queue of two. Two are
enough for a long name to be carried out before and after an event of the file it names. States
of which `InSync` and `Converges` say nothing any more, with a second watcher of the folder or a
change that came too early, are followed up to one change (`MCFewerChanges`).
Three watchers are a parent with two children, the fewest for which a table entry is
moved, or a chain of three for a signal that is passed on twice. With careless users
one watcher less, and no deleted folder, are enough: misread orders start the trees, and
what happens inside a tree does not depend on how its order came about; both of these watchers
are then the daemon's (`MCTwoTrees`). One of the two clients, which are alike, comes first
(`MCInOrder`). What seldom happens is not combined in one behaviour (`MCOneMishap`): a folder is
deleted in a tree that is told to stop, a watcher escapes from a tree of two, and `cp` waits for
a pipe in a tree where neither happens. `MaxWatchers` is at most
`TABLE_SIZE`, in the runs and in the theorems: no process writes more entries than there were
forks, so that no `TABLE` overflows. Two servers are the
fewest for which a slave can outlive its own, and three commands bring a client into a shell
and through a second answer there, or through two failed `cd` and a command that shows it;
the second client closes the server, connects late or waits in the queue. The buffer of
four is passed by one output and filled by others up to its last place, and three commands
(the first is the slave's own) have two replies between which late output can move. Four
characters have every pair of sign, digit, letter, blank and end next to each other, with two
digits of either remainder. Deadlock is not checked: every process may be dead or have left, which
ends the system rightly.

*Fairness.* `SharedStack`: a process inside a call keeps running (weak fairness of
`InCall`); the kernel serves the waiters of a semaphore in the order of arrival, so
that a process before which the semaphore is free again and again gets it (strong
fairness of `Decrease`). Nothing makes a process begin a call or die. `UdpServer`: weak
fairness of the server, of each client that is in the middle of sending or
receiving, and of each slave; users need not type, and nothing says that the last
copy of a pipe's write end is ever closed. `Pipeline`: weak fairness of every process;
calls need not fail. `TcpServer`: weak fairness of the server, of each slave and of a client that waits; nobody need
type, kill, or start a server, `accept` need not fail, and what runs in a shell need not end
(no fairness of `ShellEnds`): the slave closes the terminal, but a program may not mind. `BashSession`: weak fairness of the
shell while the terminal takes something, and of both outcomes of `poll`. `BackupWatch`: weak fairness of the watcher and of `cp`, none of the
user, of whoever writes to a pipe, or of a second watcher; calls need not fail. `ReserveCopy`: weak fairness of each watcher and of the delivery of a pending signal,
none of clients, daemon, what happens in folders (`Wake`) or whoever writes into a pipe
(`Unstick`); `rm` ends, and so does `cp` of anything but a pipe.

## 5. The theorems

All are proved for any number of processes or clients, any capacity, array length, text or
queue. A theorem that needs more of the constants says so in its statement: `DumpsWait` and
`OnePopper` of `SharedStack`, and `Orderly` of `UdpServer`. The runs `stack_refines`,
`stack_safety` and `udp_turns` check the properties under the same premises, and the runs
`stack_live` and `udp_noise` are outside them.

**`SharedStackProofs`.** `TypeCorrect`, `Exclusion`, `Overshoot` and `HeaderSafe`.
Mutual exclusion is not inductive alone. The invariant adds where the unit of the
semaphore is: a process inside holds it, then the value is 0; nobody is inside when
it is 1; a process's adjustment is one of the few values that its calls leave, so
that its death cannot bring a second unit (`LockInvariant`). The bounds of the size
add how many processes stand between the test and the change of the size: the size
plus the pushing processes past their test stays below `Cap + |Pushers|`, and what a
process loaded is what the size is while it is inside (`StackInvariant`). `Exclusion`
assumes `DumpsWait`, that processes either always wait or do not dump; without it the
property does not hold, see above. `HeaderSafe` needs one popper. `SetUpFirst`, with the
same assumption, rests on mutual exclusion: the semaphore has no unit before the creator
gives the first, and the creator alone can give one before anybody has been inside
(`SetupInv`).

`Refines`, that `SharedStack` implements `BoundedStack`, assumes `DumpsWait` and one popper.
Every step but the change of the size is a stutter. At that change a push has its value in
the slot at the size, where it stored it, since it has been alone inside and its pointer is
that slot; and a pop has read the slot below the size, which nobody has written since
(`Filled`). With one popper the size is never negative, so the header is never what a push
stores to, and the slots below the size are those of the abstract stack. `UnitLost` is an
action property: it compares the unit's places before and after one step, for each step, and
needs only the types; it holds in every mode of waiting.

**`UdpServerProofs`**, the table. `Bounded`, `FreeList` and `Exclusive` (the table implements
`IdAllocator`). The invariant `TableInv` says that an id given out is either live or on
the stack of free ids, once, and that `last_used_ip + 1 + |Live| = last_data_fork`.
The count is what bounds the arrays: the server has spent one descriptor on each
id ever given out and another on each live one, and gives out a new id only when
all are live.

**`UdpServerProofs`**, the server. `TypeCorrect`; `UsesTable`, every step of the server is a step of
`IDTable`, so that `ServerFreeList`, `ServerBounded` and `ServerExclusive` follow from the
table's theorems, with any loss and interleaving; `Shutdown`, when `StartServer` returns,
asked or by an error, each slave in its table is dead, has taken the order to close, or will
find it as its last message. Its invariant adds that nobody has that order while the server
runs (`NoOrder`) and that a table entry is a pipe whose slave was started (`Started`).

`Isolation`, `Routing` and `OnRequest` are proved for `Orderly`: clients take turns and
nothing is lost. Without turns `Isolated` is false (run `udp_isolation`). The invariant
`TurnsInv` says what the socket looks like then: it holds whole packets, one after the other,
each the datagrams of the id, the size and the data from one client, and starts where the
server is in the packet it reads (`Framed`); only the sender of the last datagram may be in the
middle of a packet (`Open`); nothing comes from a client after its `exit` (`Farewell`); and an
id is -1 from a client that no slave answers yet, once for each, or leads to the slave that
answers its sender (`Ids`).
Besides, a client without a slave has neither replies nor an id, and one with an id is the
client of the slave with that id (`Beginners`); no client has two slaves, and the table leads
from a slave's id to its pipe until the server has read its client's `exit` (`Slaves`); and the
first reply of a slave is its id (`IdFirst`).

**`PipelineProofs`.** `TypeCorrect`, `OwnLines` and `Held`, for files of any length and
pipelines of any number of commands. `Held` needs to know what a worker still holds when
it has forked so many commands: nothing of the pipes that it has closed (`Left`), which
rests on how far it is (`Control`). `OwnLines` needs that one worker at a time reads, since
nobody has been forked after it, and that what is in the pipe of the lines are the
messages from its own on (`Reading`): then the second message of worker `l` is the text of
line `l`.

`NothingIsLost` numbers the items. `W[i]` of them have been written by command `i`, and they
are, in order, those that command `i + 1` has passed on, those that it has in hand and those
in the pipe between the two (`Written`, `Flow`). Nothing is lost if no end comes early, which
is a matter of who holds ends: the worker holds both ends of a pipe until it has forked both of
its commands, and each of the two holds its own from the fork until it ends (`Kept`). Hence a
command that reads the end of its input has had all of it (`EndIsReal`), and nobody writes to
a pipe whose reader has ended, since a reader that has ended has passed on all the items and
there is none left to write (`NoSigPipe`).

**`TcpServerProofs`.** `TypeCorrect`, `OwnServers` and `AnswersInStep`, for any number of
clients, commands and servers. Types need that a slave has not read more than its client
has typed (`Count`). `OwnServers` rests on the port: a server starts only when no slave is
alive and no shell either, and a slave is forked by the server that runs. `AnswersInStep` numbers the answers of
a connection. The invariant (`Flow`) says that the answers shown and those on the way are
together as many as the slave has sent; that the slave has sent one for the greeting, one for
each command it has read and one more for each failed `cd` among them (`Extra`); that what it
has not read are the commands typed last; and that every answer on the way is to the command
of its number (`InPlace`). Once a reply has been read in part nothing is promised any more,
and when a slave hangs or has died only the numbers remain.

**`BackupWatchProofs`.** `TypeCorrect` and `BackupInSync`, for any files and names and any size of the
queue. The invariant `SyncInv` has two halves. Until the folder is watched and copied there
are no events, and each file that differs from its copy is still to be read by `cp -r`, or has
been read and is still to be written (`Copying`). Afterwards the watcher has still to carry
out `Rest`, its batch and then the queue. For each file the last event in `Rest` about its
contents is a creation or a change if the file exists and a deletion if it does not, and if
there is none the copy is right already (`Synced`). Earlier events do not matter, because a
copy takes what the file is when it is made and not when the event was; but a version that
the watcher has in hand must be the current one if its event is the last, and one that it has
read for a slot of a name must be as good as the copy that it will replace. Both halves are for
runs without the exceptions of `InSync` (`Good`); the invariant does not hold otherwise.

**`ReserveCopyProofs`.** `TypeCorrect`, `SingleTree`, `EscapesKnown` and `WholeOrders`, for any
number of clients, orders, folders and events, and as many forks as `TABLE` has entries; what a
process does that overflows it is not modelled. `OneTree` needs that a watcher still knows whom to
tell (`TreeInv`): watchers are numbered in the order of their forks, and one that has not come to
`CheckFolder` yet has no children (`Ordered`); those that it has forked there are `missed` from
their birth (`Strayed`); each child that is alive and has not been told to
end is in its parent's table, or is held outside it between fork and entry or while an entry is
moved, unless it was `missed` (`Known`); the daemon has told its last watcher before it starts
another (`LastTold`). `OrdersWhole` follows the messages instead: those in the FIFO follow on
from the one the daemon read last, place by place in their order and with one writer per order
(`Chain`), and if the one written last is not an order's last, then its writer is the one client
that has the FIFO open, and is right after it (`Written`). This is for careful users, who wait
for each other, and as long as the daemon runs.

**`BashSessionProofs`.** `TypeCorrect` and `InTurn`, for any outputs, any number of commands
and any size of the buffer and the terminal. `Rest` is what the slave has still to pass on: what
it has read since the command, what is in the terminal and what the shell has still to write. A
command lengthens it behind, a silence takes off in front what was read, and reading only moves
its parts; so it is in the order of the commands, and what clients have got comes before it
(`OrderInv`). If the shell does not pause, it is the last command's output and nothing else
while the slave polls, and nothing when it does not (`QuickInv`). What a reply keeps of what was
read is a prefix up to the last prompt (`CutType`), which takes that a set of places that is
not empty has a greatest (`Greatest`).

**`TextsProofs`.** `BytesCarried` and `TextTranslated`, for texts of any length and numbers of
any number of digits. Both say what a recursive definition computes. The induction theorems of
the library take operators as parameters, which the provers cannot instantiate, so the module
proves what it needs of induction over *sets* of numbers, from the least number that a set has
(`Induct`, `Least`), and that an equation which leads from each argument to one of lower rank
defines a function (`Recursion`). With that, `Power`, the folds and `FlattenSeq` are known by
their equations (`PowerEquation`, `FoldsOfDigits`, `Flattened`).

`BytesCarried` rests on `RSA`. The powers of a byte from 0 to 122 are residues, so that no
product of theirs overflows; powers multiply (`PowerSum`), and the 27th power of a third power is the cube taken four times
(`CubeOfPower`), which gives every residue back (`FourCubes`). Hence a byte arrives if and only
if it is one of 0 to 122: a larger one, and a negative one, which becomes an `unsigned` 2^32
larger, arrives as some residue, which it is not. The invariant `PacketInv` says what the text
in memory is at each step.

`TextTranslated` has the invariant that between two words exactly the translation of what lies
before has been written (`BizzInv`), and that the program is then at the first character of a
word (`AtWord`). That the end is the file's own, if it has one, is `FileInv`. `read_num` looks at places from its digits on and the translation at words; they
agree because digits end at the end of the word or at a character in it that is no digit
(`DigitsBounds`, `NumberIs`), and then the remainders that are kept digit by digit are those of
the value (`DigitSums`). A word adds its pieces to the translation one by one: they are its
characters, or the divisors at its first place and nothing at the others (`Copied`, `Skipped`).

*Only model-checked.* `CallsReturn`, `Answered`, `NobodyLeftWaiting`, `Replies`, `WorkersEnd`,
`PipelinesEnd`, `Converges` and `StopEndsAll`: they are liveness under fairness, which is out of
the provers' reach. All other properties of passing runs are stated by a theorem.

## 6. Not modelled

* A second generation of the stack's key after `mark_destruct`; a failing `calloc`;
  `get_size` and `get_count`, whose descriptions in `stack.h` are exchanged. In `TEST2` of
  the stack's `main.c` the unit that the child gave can be taken back at its death before
  the parent uses it; that is a race of the test, not of the library.
* Full pipes between server and slaves; datagrams reordered on the way (loopback keeps
  them in order); replies taken apart into datagrams, except for the half that a dying
  slave leaves; more than the first answer of a slave that answers the end of its pipe
  for ever; a UDP server that is killed from outside, which tells none of its slaves.
* `InitDaemon`, broadcast, logging and terminal settings, also of the TCP programs. A reply of
  the TCP shell that is longer than the buffer of the log is written behind that buffer;
  `Shell` lets the slave die of it or not.
* The texts that `ls` and `cd` answer with; what
  lies behind `big_buffer`, whose two bytes too many are a choice in `BashSession`.
* The build option `CAESAR` of the encryption.
* Writes of BizzBuzz that fail, which abort it, and its functions `copy_files` and `ok`, which
  nobody calls.
* The splitting of a line of `grep/first.c` into words; a pipe of the lines that fills up.
* Folders that are in a watched folder from the start, and what a nested `cp -r` copies;
  a `TABLE` that overflows, as the daemon's does with the 101st order; an `rm` that asks at a
  terminal and gets no answer; texts of fewer than four bytes in the FIFO; process ids that are used again.
* The common libraries and the exercises, which keep no state that could go wrong between two
  calls, and the modules of the tests and of the log, for reasons given in `PROJECT.json`.
