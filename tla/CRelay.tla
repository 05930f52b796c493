------------------------------- MODULE CRelay -------------------------------
(***************************************************************************)
(* The select() servers written in C.  pipe-fifo/relay.c and               *)
(* temp/relay/relay.c relay what clients send to a receiver child through  *)
(* a pipe and to a logger child through a FIFO that is found by its name;  *)
(* pipe-fifo/chat.c passes it to the other clients.                        *)
(*                                                                         *)
(* Servers are processes of one program started in one directory, at the   *)
(* same time or one after the other: SO_REUSEADDR | SO_REUSEPORT is        *)
(* SO_REUSEPORT on Linux, so that they can all listen on the port.  They   *)
(* share the FIFO's name and the log.  A FIFO is known by the server that  *)
(* made it.  Descriptor 0 of a server is its listener; client descriptors  *)
(* are never closed, so the n-th client it accepts has descriptor n.       *)
(***************************************************************************)
EXTENDS Integers, Sequences, FiniteSets

CONSTANTS
  Setups,      (* what is started, as records:                              *)
               (*   program : "pipe-fifo", "temp" or "chat"                 *)
               (*   servers, clients : processes, clients that send once    *)
               (*   fds : descriptors a server has left for clients and     *)
               (*         for the FIFO it opens for a message               *)
  FifoCap,     (* messages a FIFO holds before write() returns EAGAIN       *)
  None         (* no FIFO, no client                                        *)

ASSUME CRelayAssumption ==
  /\ FifoCap \in Nat \ {0}
  /\ \A u \in Setups :
       /\ u.program \in {"pipe-fifo", "temp", "chat"} /\ u.fds \in Nat
       /\ IsFiniteSet(u.servers) /\ IsFiniteSet(u.clients)
       /\ None \notin u.servers \cup u.clients

VARIABLES
  setup,       (* the one of Setups that runs                               *)
  server,      (* [Servers -> where the process is]                         *)
  opened,      (* [Servers -> the clients it accepted, by descriptor]       *)
  masterSet,   (* [Servers -> masterSet]                                    *)
  readSet,     (* [Servers -> what the scan has yet to look at]             *)
  hand,        (* [Servers -> whose message it has read, None for an end]   *)
  chld,        (* the servers with a SIGCHLD pending                        *)
  receiver,    (* [Servers -> its receiver]                                 *)
  logger,      (* [Servers -> its logger]                                   *)
  path,        (* the FIFO the name leads to, or None                       *)
  held,        (* [Servers -> the FIFO open as fifoFd]                      *)
  brief,       (* [Servers -> the FIFO open as loggerFd, for one message]   *)
  source,      (* [Servers -> the FIFO its logger reads]                    *)
  fifo,        (* [Servers -> the messages in the FIFO it made]             *)
  pipe,        (* [Servers -> the messages in its pipe]                     *)
  printed, log,(* the messages that receivers printed, and loggers logged   *)
  conn,        (* [Clients -> "off", "queued" in a backlog, "open"]         *)
  peer,        (* [Clients -> the server it is connected to]                *)
  mail,        (* [Clients -> its message: "unsent", "unread" or "read"]    *)
  hungUp,      (* the clients that closed their end                         *)
  dropped,     (* history: not logged, the FIFO or the table being full     *)
  overlapped   (* history: a server was started while another one ran       *)

Servers == setup.servers
Clients == setup.clients
Listener == 0

loopVars == <<opened, masterSet, readSet, hand, chld>>
fifoVars == <<path, held, brief, source, fifo>>
outVars == <<receiver, pipe, printed, log>>
netVars == <<conn, peer, mail, hungUp>>
history == <<dropped, overlapped>>
vars == <<setup, server, loopVars, logger, fifoVars, outVars, netVars, history>>

Serving == {"select", "scan", "pipe", "open", "write"}
Running(s) == server[s] \notin {"off", "dead"}

TypeOK ==
  /\ setup \in Setups
  /\ server \in [Servers -> {"off", "mkfifo", "receiver", "logger", "socket", "fifo", "dead"}
                            \cup Serving]
  /\ opened \in [Servers -> Seq(Clients)]
  /\ masterSet \in [Servers -> SUBSET Nat] /\ readSet \in [Servers -> SUBSET Nat]
  /\ hand \in [Servers -> Clients \cup {None}]
  /\ receiver \in [Servers -> {"none", "running", "exited"}]
  /\ logger \in [Servers -> {"none", "forked", "opening", "reading", "spins", "exited"}]
  /\ \A f \in {held, brief, source} : f \in [Servers -> Servers \cup {None}]
  /\ path \in Servers \cup {None}
  /\ fifo \in [Servers -> SUBSET Clients] /\ pipe \in [Servers -> SUBSET Clients]
  /\ conn \in [Clients -> {"off", "queued", "open"}]
  /\ peer \in [Clients -> Servers \cup {None}]
  /\ mail \in [Clients -> {"unsent", "unread", "read"}]
  /\ printed \cup log \cup hungUp \cup dropped \subseteq Clients
  /\ chld \subseteq Servers /\ overlapped \in BOOLEAN

Init ==
  /\ setup \in Setups
  /\ server = [s \in Servers |-> "off"]
  /\ opened = [s \in Servers |-> <<>>]
  /\ masterSet = [s \in Servers |-> {}] /\ readSet = [s \in Servers |-> {}]
  /\ hand = [s \in Servers |-> None] /\ chld = {}
  /\ receiver = [s \in Servers |-> "none"] /\ logger = [s \in Servers |-> "none"]
  /\ path = None
  /\ held = [s \in Servers |-> None] /\ brief = [s \in Servers |-> None]
  /\ source = [s \in Servers |-> None]
  /\ fifo = [s \in Servers |-> {}] /\ pipe = [s \in Servers |-> {}]
  /\ printed = {} /\ log = {}
  /\ conn = [c \in Clients |-> "off"] /\ peer = [c \in Clients |-> None]
  /\ mail = [c \in Clients |-> "unsent"] /\ hungUp = {}
  /\ dropped = {} /\ overlapped = FALSE

Goto(s, label) == server' = [server EXCEPT ![s] = label]
-----------------------------------------------------------------------------
(* FIFO special files.                                                      *)

Writers(n) == {s \in Servers : n \in {held[s], brief[s]}}
Users(n) == Writers(n) \cup {s \in Servers : source[s] = n}

(* What is in a FIFO is gone when the last process that has it open closes. *)
Discard == fifo' = [n \in Servers |-> IF Users(n)' = {} THEN {} ELSE fifo[n]]

(* Opening for writing lets the readers' open() calls return.               *)
WakeReaders(n) ==
  logger' = [s \in Servers |->
              IF logger[s] = "opening" /\ source[s] = n THEN "reading" ELSE logger[s]]
-----------------------------------------------------------------------------
(* main() up to its loop.                                                   *)

(* The relays unlink the FIFO first thing; chat.c has no children to start. *)
Start(s) ==
  /\ server[s] = "off"
  /\ IF setup.program = "chat"
     THEN Goto(s, "socket") /\ UNCHANGED path
     ELSE Goto(s, "mkfifo") /\ path' = None
  /\ overlapped' = (overlapped \/ \E t \in Servers : Running(t))
  /\ UNCHANGED <<loopVars, logger, held, brief, source, fifo, outVars, netVars, dropped>>

(* EEXIST is accepted.                                                      *)
Mkfifo(s) ==
  /\ server[s] = "mkfifo"
  /\ path' = IF path = None THEN s ELSE path
  /\ Goto(s, "receiver")
  /\ UNCHANGED <<loopVars, logger, held, brief, source, fifo, outVars, netVars, history>>

ForkReceiver(s) ==
  /\ server[s] = "receiver"
  /\ receiver' = [receiver EXCEPT ![s] = "running"]
  /\ Goto(s, "logger")
  /\ UNCHANGED <<loopVars, logger, fifoVars, pipe, printed, log, netVars, history>>

(* The log file is opened before; the logger inherits the pipe's write end. *)
ForkLogger(s) ==
  /\ server[s] = "logger"
  /\ logger' = [logger EXCEPT ![s] = "forked"]
  /\ Goto(s, "socket")
  /\ UNCHANGED <<loopVars, fifoVars, outVars, netVars, history>>

(* bind, listen, and FD_SET of the listener, in the relays after the FIFO.  *)
Bind(s) ==
  /\ server[s] = "socket"
  /\ masterSet' = [masterSet EXCEPT ![s] = {Listener}]
  /\ Goto(s, IF setup.program = "chat" THEN "select" ELSE "fifo")
  /\ UNCHANGED <<opened, readSet, hand, chld, logger, fifoVars, outVars, netVars, history>>

(* open(FIFO, O_RDWR | O_NONBLOCK): fifoFd stays open, so that the logger   *)
(* sees no end between messages.                                            *)
OpenHeld(s) ==
  /\ server[s] = "fifo" /\ path # None
  /\ held' = [held EXCEPT ![s] = path]
  /\ WakeReaders(path)
  /\ Goto(s, "select")
  /\ UNCHANGED <<loopVars, path, brief, source, fifo, outVars, netVars, history>>

(* The process ends: what it had open is closed.                            *)
Die(s) ==
  /\ Goto(s, "dead")
  /\ held' = [held EXCEPT ![s] = None] /\ brief' = [brief EXCEPT ![s] = None]
  /\ chld' = chld \ {s}
  /\ UNCHANGED <<opened, masterSet, readSet, hand, logger, source, outVars, netVars, history>>

(* pipe-fifo/relay.c: a call before the loop fails.                         *)
Fatal(s) ==
  /\ setup.program = "pipe-fifo" /\ server[s] \in {"mkfifo", "logger", "socket", "fifo"}
  /\ Die(s) /\ Discard /\ UNCHANGED path

(* temp/relay/relay.c cleans up once it has made the FIFO, by its name.     *)
FatalUnlinks(s) ==
  /\ setup.program = "temp" /\ server[s] \in {"mkfifo", "logger", "socket", "fifo"}
  /\ Die(s) /\ Discard
  /\ path' = IF server[s] \in {"logger", "socket"} THEN None ELSE path

(* chat.c has nothing to clean up.                                          *)
FatalChat(s) ==
  /\ setup.program = "chat" /\ server[s] = "socket"
  /\ Die(s) /\ UNCHANGED <<path, fifo>>

(* Somebody kills the server: its loop has no other end.                    *)
Killed(s) ==
  /\ server[s] \in Serving
  /\ Die(s) /\ Discard /\ UNCHANGED path
-----------------------------------------------------------------------------
(* The loop.                                                                *)

Full(s) == Cardinality(masterSet[s]) > setup.fds

Ready(s) ==
  {f \in {Listener} : \E c \in Clients : peer[c] = s /\ conn[c] = "queued"} \cup
  {f \in DOMAIN opened[s] : mail[opened[s][f]] = "unread" \/ opened[s][f] \in hungUp}

Select(s) ==
  /\ server[s] = "select"
  /\ Ready(s) \cap masterSet[s] # {}
  /\ readSet' = [readSet EXCEPT ![s] = Ready(s) \cap masterSet[s]]
  /\ Goto(s, "scan")
  /\ UNCHANGED <<opened, masterSet, hand, chld, logger, fifoVars, outVars, netVars, history>>

(* EINTR is not fatal, and leaves readSet the copy of masterSet it was.     *)
SelectInterrupted(s) ==
  /\ server[s] = "select" /\ s \in chld
  /\ Ready(s) \cap masterSet[s] = {}
  /\ chld' = chld \ {s}
  /\ readSet' = [readSet EXCEPT ![s] = masterSet[s]]
  /\ Goto(s, "scan")
  /\ UNCHANGED <<opened, masterSet, hand, logger, fifoVars, outVars, netVars, history>>

(* The handler, elsewhere.  pipe-fifo/relay.c loops while waitpid is not 0, *)
(* which it only is while there is a child left.                            *)
HandlerReturns(s) ==
  /\ s \in chld
  /\ setup.program = "pipe-fifo" => receiver[s] = "running"
  /\ chld' = chld \ {s}
  /\ UNCHANGED <<server, opened, masterSet, readSet, hand, logger, fifoVars, outVars,
                 netVars, history>>

LastScanned_NotTheLast(s) == Len(opened[s]) - 1

(* The relays scan fd <= max_fd; chat.c scans i < fd_max.                   *)
LastScanned(s) == IF setup.program = "chat" THEN Len(opened[s]) - 1 ELSE Len(opened[s])

Pending(s) == {f \in readSet[s] : f <= LastScanned(s)}
AtFd(s, f) == server[s] = "scan" /\ f \in Pending(s) /\ \A g \in Pending(s) : f <= g
Past(s, f) == readSet' = [readSet EXCEPT ![s] = @ \ {f}]

(* accept() blocks when nobody is queued, and fails when the table is full. *)
Accept(s) ==
  /\ AtFd(s, Listener) /\ ~Full(s)
  /\ \E c \in Clients :
       /\ peer[c] = s /\ conn[c] = "queued"
       /\ conn' = [conn EXCEPT ![c] = "open"]
       /\ opened' = [opened EXCEPT ![s] = Append(@, c)]
       /\ masterSet' = [masterSet EXCEPT ![s] = @ \cup {Len(opened[s]) + 1}]
  /\ Past(s, Listener)
  /\ UNCHANGED <<server, hand, chld, logger, fifoVars, outVars, peer, mail, hungUp, history>>

AcceptFails(s) ==
  /\ AtFd(s, Listener) /\ Full(s)
  /\ \E c \in Clients : peer[c] = s /\ conn[c] = "queued"
  /\ Past(s, Listener)
  /\ UNCHANGED <<server, opened, masterSet, hand, chld, logger, fifoVars, outVars,
                 netVars, history>>

(* read() blocks when there is neither a message nor an end.                *)
ReadMessage(s, f) ==
  /\ AtFd(s, f) /\ f # Listener
  /\ mail[opened[s][f]] = "unread"
  /\ mail' = [mail EXCEPT ![opened[s][f]] = "read"]
  /\ hand' = [hand EXCEPT ![s] = opened[s][f]]
  /\ Past(s, f)
  /\ Goto(s, "pipe")
  /\ UNCHANGED <<opened, masterSet, chld, logger, fifoVars, outVars, conn, peer, hungUp, history>>

ReadEnd_Closes(s, f) ==
  /\ AtFd(s, f) /\ f # Listener
  /\ mail[opened[s][f]] # "unread" /\ opened[s][f] \in hungUp
  /\ masterSet' = [masterSet EXCEPT ![s] = @ \ {f}]
  /\ Past(s, f)
  /\ UNCHANGED <<server, opened, hand, chld, logger, fifoVars, outVars, netVars, history>>

(* nread is unsigned: an end (0) and an error (-1) are messages like others.*)
(* Neither write then writes anything, but the FIFO is opened and closed.   *)
ReadEnd(s, f) ==
  /\ AtFd(s, f) /\ f # Listener
  /\ mail[opened[s][f]] # "unread" /\ opened[s][f] \in hungUp
  /\ Past(s, f)
  /\ Goto(s, "open")
  /\ UNCHANGED <<opened, masterSet, hand, chld, logger, fifoVars, outVars, netVars, history>>

ScanEnds(s) ==
  /\ server[s] = "scan" /\ Pending(s) = {}
  /\ Goto(s, "select")
  /\ UNCHANGED <<loopVars, logger, fifoVars, outVars, netVars, history>>

WritePipe(s) ==
  /\ server[s] = "pipe"
  /\ pipe' = [pipe EXCEPT ![s] = @ \cup {hand[s]}]
  /\ Goto(s, "open")
  /\ UNCHANGED <<loopVars, logger, fifoVars, receiver, printed, log, netVars, history>>

OpenFifo(s) ==
  /\ server[s] = "open" /\ path # None /\ ~Full(s)
  /\ brief' = [brief EXCEPT ![s] = path]
  /\ WakeReaders(path)
  /\ Goto(s, "write")
  /\ UNCHANGED <<loopVars, path, held, source, fifo, outVars, netVars, history>>

(* No such name, or no descriptor left: the message is not logged.          *)
OpenFifoFails(s) ==
  /\ server[s] = "open" /\ (path = None \/ Full(s))
  /\ dropped' = IF Full(s) THEN dropped \cup ({hand[s]} \ {None}) ELSE dropped
  /\ hand' = [hand EXCEPT ![s] = None]
  /\ Goto(s, "scan")
  /\ UNCHANGED <<opened, masterSet, readSet, chld, logger, fifoVars, outVars, netVars, overlapped>>

(* write() and close().  A full FIFO drops the message (EAGAIN).            *)
WriteFifo(s) ==
  /\ server[s] = "write"
  /\ brief' = [brief EXCEPT ![s] = None] /\ UNCHANGED <<held, source>>
  /\ LET fits == Cardinality(fifo[brief[s]]) < FifoCap
         new == {hand[s]} \ {None}
     IN /\ fifo' = [n \in Servers |-> IF Users(n)' = {} THEN {}
                                     ELSE IF n = brief[s] /\ fits THEN fifo[n] \cup new
                                     ELSE fifo[n]]
        /\ dropped' = IF fits THEN dropped ELSE dropped \cup new
  /\ hand' = [hand EXCEPT ![s] = None]
  /\ Goto(s, "scan")
  /\ UNCHANGED <<opened, masterSet, readSet, chld, logger, path, outVars, netVars, overlapped>>
-----------------------------------------------------------------------------
(* The children.                                                            *)

ReceiverPrints(s) ==
  /\ receiver[s] = "running" /\ pipe[s] # {}
  /\ printed' = printed \cup pipe[s]
  /\ pipe' = [pipe EXCEPT ![s] = {}]
  /\ UNCHANGED <<server, loopVars, logger, fifoVars, receiver, log, netVars, history>>

PipeWriters_WithReceiver(s) ==
  (IF Running(s) THEN {"server"} ELSE {}) \cup {"receiver"} \cup
  (IF logger[s] \in {"none", "exited"} THEN {} ELSE {"logger"})

(* The receiver closed its own write end; the logger never closes the one   *)
(* it inherited.                                                            *)
PipeWriters(s) ==
  (IF Running(s) THEN {"server"} ELSE {}) \cup
  (IF logger[s] \in {"none", "exited"} THEN {} ELSE {"logger"})

ReceiverExits(s) ==
  /\ receiver[s] = "running" /\ pipe[s] = {} /\ PipeWriters(s) = {}
  /\ receiver' = [receiver EXCEPT ![s] = "exited"]
  /\ UNCHANGED <<server, loopVars, logger, fifoVars, pipe, printed, log, netVars, history>>

Opens_NonBlocking(n) == "reading"

Opens(n) == IF Writers(n) = {} THEN "opening" ELSE "reading"

(* open(FIFO, O_RDONLY) waits for a writer.  When there is no such name the *)
(* read of descriptor -1 fails, -1 is more than 0, and the loop never ends. *)
LoggerOpens(s) ==
  /\ logger[s] = "forked"
  /\ source' = [source EXCEPT ![s] = path]
  /\ logger' = [logger EXCEPT ![s] = IF path = None THEN "spins" ELSE Opens(path)]
  /\ UNCHANGED <<server, loopVars, path, held, brief, fifo, outVars, netVars, history>>

LoggerReads(s) ==
  /\ logger[s] = "reading" /\ fifo[source[s]] # {}
  /\ log' = log \cup fifo[source[s]]
  /\ fifo' = [fifo EXCEPT ![source[s]] = {}]
  /\ UNCHANGED <<server, loopVars, logger, path, held, brief, source, receiver, pipe,
                 printed, netVars, history>>

LoggerExits(s) ==
  /\ logger[s] = "reading" /\ fifo[source[s]] = {} /\ Writers(source[s]) = {}
  /\ logger' = [logger EXCEPT ![s] = "exited"]
  /\ source' = [source EXCEPT ![s] = None]
  /\ chld' = IF Running(s) THEN chld \cup {s} ELSE chld
  /\ UNCHANGED <<server, opened, masterSet, readSet, hand, path, held, brief, fifo,
                 outVars, netVars, history>>
-----------------------------------------------------------------------------
(* The clients.                                                             *)

(* The kernel gives the connection to any server that listens.              *)
Connect(c) ==
  /\ conn[c] = "off"
  /\ \E s \in Servers : /\ Running(s) /\ masterSet[s] # {}
                        /\ peer' = [peer EXCEPT ![c] = s]
  /\ conn' = [conn EXCEPT ![c] = "queued"]
  /\ UNCHANGED <<server, loopVars, logger, fifoVars, outVars, mail, hungUp, history>>

Send(c) ==
  /\ conn[c] # "off" /\ c \notin hungUp /\ mail[c] = "unsent"
  /\ mail' = [mail EXCEPT ![c] = "unread"]
  /\ UNCHANGED <<server, loopVars, logger, fifoVars, outVars, conn, peer, hungUp, history>>

HangUp(c) ==
  /\ conn[c] # "off" /\ c \notin hungUp
  /\ hungUp' = hungUp \cup {c}
  /\ UNCHANGED <<server, loopVars, logger, fifoVars, outVars, conn, peer, mail, history>>
-----------------------------------------------------------------------------
ServerStep(s) ==
  \/ Start(s) \/ Mkfifo(s) \/ ForkReceiver(s) \/ ForkLogger(s) \/ Bind(s) \/ OpenHeld(s)
  \/ Fatal(s) \/ FatalUnlinks(s) \/ FatalChat(s)
  \/ Select(s) \/ SelectInterrupted(s) \/ Accept(s) \/ AcceptFails(s) \/ ScanEnds(s)
  \/ (\E f \in DOMAIN opened[s] : ReadMessage(s, f) \/ ReadEnd(s, f))
  \/ WritePipe(s) \/ OpenFifo(s) \/ OpenFifoFails(s) \/ WriteFifo(s)

ReceiverStep(s) == ReceiverPrints(s) \/ ReceiverExits(s)
LoggerStep(s) == LoggerOpens(s) \/ LoggerReads(s) \/ LoggerExits(s)

Next ==
  /\ UNCHANGED setup
  /\ \/ \E s \in Servers :
          ServerStep(s) \/ Killed(s) \/ HandlerReturns(s) \/ ReceiverStep(s) \/ LoggerStep(s)
     \/ \E c \in Clients : Connect(c) \/ Send(c) \/ HangUp(c)

AllServers == UNION {u.servers : u \in Setups}
AllClients == UNION {u.clients : u \in Setups}

Spec == Init /\ [][Next]_vars

(* The operating system runs every process; users and clients do as they    *)
(* please.                                                                  *)
FairSpec ==
  /\ Spec
  /\ \A s \in AllServers :
       /\ WF_vars(UNCHANGED setup /\ s \in Servers /\ server[s] # "off" /\ ServerStep(s))
       /\ WF_vars(UNCHANGED setup /\ s \in Servers /\ ReceiverStep(s))
       /\ WF_vars(UNCHANGED setup /\ s \in Servers /\ LoggerStep(s))
-----------------------------------------------------------------------------
(* A server started while no other ran has a log that works: its logger     *)
(* does not end before it, and every message it passed to the receiver is   *)
(* logged or on its way, unless the FIFO or the descriptor table was full.  *)
(* What an earlier server left behind, its FIFO and its children, does no   *)
(* harm; a second server unlinking the first one's FIFO does.               *)
LogsUnlessOverlapped ==
  ~overlapped =>
    \A s \in Servers :
      server[s] \in Serving /\ setup.program # "chat" =>
        /\ logger[s] \notin {"spins", "exited"} /\ held[s] = path
        /\ \A c \in Clients :
             peer[c] = s /\ c \in printed \cup pipe[s] =>
               c \in log \cup fifo[path] \cup {hand[s]} \cup dropped

(* A server accepts no more clients in its whole life than it has           *)
(* descriptors, however many of them have left: none is ever given back.    *)
(* chat.c, whose scan stops short of the highest descriptor and therefore   *)
(* of the listener, accepts none at all.                                    *)
ClientsPerLifetime ==
  \A s \in Servers : Len(opened[s]) <= IF setup.program = "chat" THEN 0 ELSE setup.fds

(* From a client's send to paper and log: with one server every message is  *)
(* printed and logged, unless the server dies or is out of descriptors or   *)
(* FIFO; clients that ended, and keep select from ever waiting, do not      *)
(* starve the others.                                                       *)
EveryMessageLogged ==
  \A c \in AllClients :
    (Cardinality(Servers) = 1 /\ setup.program # "chat" /\ c \in Clients /\ mail[c] = "unread") ~>
      \/ c \in printed /\ c \in log \cup dropped
      \/ c \in Clients /\ \E s \in Servers :
           server[s] = "dead" \/ (peer[c] = s /\ conn[c] = "queued" /\ Full(s))

(* When a server ends, its logger and then its receiver end too, unless the *)
(* logger waits for a first writer, found no FIFO, or reads one that other  *)
(* servers hold.                                                            *)
ChildrenFollow ==
  \A s \in AllServers :
    (s \in Servers /\ server[s] = "dead") ~>
      (s \in Servers /\
         \/ receiver[s] # "running" /\ logger[s] \in {"none", "exited"}
         \/ logger[s] \in {"opening", "spins"}
         \/ logger[s] = "reading" /\ Writers(source[s]) # {})
=============================================================================
