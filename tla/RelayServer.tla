----------------------------- MODULE RelayServer -----------------------------
(***************************************************************************)
(* relay-server/: one server process that select()s over its clients and   *)
(* passes every chunk it reads to a receiver child through a pipe and to a *)
(* logger child through a FIFO it opens and closes for each chunk.         *)
(*                                                                         *)
(* A message stands for bytes that enter a pipe together: no more than     *)
(* PIPE_BUF, half of the buffer that the server reads into.  Descriptor 0  *)
(* is the listener, which is the lowest of those the server selects on;    *)
(* clients get the lowest free one above it.                               *)
(***************************************************************************)
EXTENDS Integers, Sequences, SequencesExt, FiniteSets

CONSTANTS
  Clients,     (* the programs that connect, each once                      *)
  MaxMsgs,     (* bound: messages a client sends                            *)
  ReadMax,     (* messages one read() returns at most: BUFSIZ               *)
  PipeCap,     (* messages the pipe holds before write() blocks             *)
  FifoCap,     (* messages the FIFO holds before write() returns EAGAIN     *)
  NoClient     (* a descriptor that is not open                             *)

ASSUME RelayAssumption ==
  /\ IsFiniteSet(Clients) /\ NoClient \notin Clients
  /\ MaxMsgs \in Nat /\ ReadMax \in Nat \ {0}
  /\ PipeCap \in Nat \ {0} /\ FifoCap \in Nat \ {0}

Listener == 0
ClientFds == 1..Cardinality(Clients)
Messages == Clients \X (1..MaxMsgs)

VARIABLES
  server,      (* where the server process is                               *)
  receiver,    (* the child that prints what arrives on the pipe            *)
  logger,      (* the child that appends what arrives on the FIFO           *)
  conn,        (* [Clients -> off, queued in the backlog, open, closed]     *)
  owner,       (* [ClientFds -> the client connected there, or NoClient]    *)
  sent,        (* [Clients -> how many messages it has sent]                *)
  inbox,       (* [Clients -> what it sent and the server has not read]     *)
  hungUp,      (* the clients that closed their end                         *)
  masterSet,   (* masterSet of run()                                        *)
  readSet,     (* readSet of run()                                          *)
  maxFd,       (* maxFd of run()                                            *)
  fd,          (* the loop variable of the scan                             *)
  hand,        (* the messages in handleClientData's buf                    *)
  written,     (* how many of them its write() has put in the pipe          *)
  pipe,        (* contents of the pipe                                      *)
  fifo,        (* contents of the FIFO                                      *)
  relayed,     (* history: messages written to the pipe                     *)
  lost,        (* history: messages that a write() cut short left out       *)
  received,    (* what the receiver has read                                *)
  log,         (* what the logger has written to logger.log                 *)
  chld         (* a SIGCHLD is pending for the server                       *)

procVars == <<receiver, logger, chld>>
netVars == <<conn, sent, inbox, hungUp>>
loopVars == <<masterSet, readSet, maxFd, owner>>
buffer == <<hand, written>>
chanVars == <<pipe, fifo, relayed, lost, received, log>>
vars == <<server, procVars, netVars, loopVars, fd, buffer, chanVars>>

Dead == {"failed", "killed"}
Serving == {"select", "scan", "relay", "openFifo", "writeFifo", "closeFifo"}

TypeOK ==
  /\ server \in {"forkReceiver", "forkLogger", "bind"} \cup Serving \cup Dead
  /\ receiver \in {"unborn", "none", "running", "exited"}
  /\ logger \in {"unborn", "none", "forked", "opening", "reading", "ending", "exited"}
  /\ conn \in [Clients -> {"off", "queued", "open", "closed"}]
  /\ owner \in [ClientFds -> Clients \cup {NoClient}]
  /\ sent \in [Clients -> 0..MaxMsgs]
  /\ inbox \in [Clients -> Seq(Messages)]
  /\ hungUp \subseteq Clients
  /\ masterSet \subseteq {Listener} \cup ClientFds
  /\ readSet \subseteq {Listener} \cup ClientFds
  /\ maxFd \in {Listener} \cup ClientFds
  /\ fd \in Nat
  /\ hand \in Seq(Messages) /\ Len(hand) <= ReadMax /\ written \in 0..Len(hand)
  /\ Len(pipe) <= PipeCap /\ Len(fifo) <= FifoCap
  /\ relayed \in Seq(Messages) /\ received \in Seq(Messages) /\ log \in Seq(Messages)
  /\ lost \subseteq Messages
  /\ chld \in BOOLEAN

Init ==
  /\ server = "forkReceiver" /\ receiver = "unborn" /\ logger = "unborn"
  /\ conn = [c \in Clients |-> "off"]
  /\ owner = [f \in ClientFds |-> NoClient]
  /\ sent = [c \in Clients |-> 0]
  /\ inbox = [c \in Clients |-> <<>>]
  /\ hungUp = {}
  /\ masterSet = {} /\ readSet = {} /\ maxFd = Listener /\ fd = Listener
  /\ hand = <<>> /\ written = 0
  /\ pipe = <<>> /\ fifo = <<>> /\ relayed = <<>> /\ received = <<>> /\ log = <<>>
  /\ lost = {}
  /\ chld = FALSE
-----------------------------------------------------------------------------
(* init(): the children are forked before the socket is bound, and neither  *)
(* fork's failure is looked at.                                             *)

ForkReceiver ==
  /\ server = "forkReceiver"
  /\ receiver' \in {"running", "none"}
  /\ server' = "forkLogger"
  /\ UNCHANGED <<logger, chld, netVars, loopVars, fd, buffer, chanVars>>

ForkLogger ==
  /\ server = "forkLogger"
  /\ logger' \in {"forked", "none"}
  /\ server' = "bind"
  /\ UNCHANGED <<receiver, chld, netVars, loopVars, fd, buffer, chanVars>>

(* A call of init() fails (sigaction, pipe, mkfifo; the opening of          *)
(* logger.log; the socket): the exception reaches main, which ends this     *)
(* process and no other.                                                    *)
InitFails ==
  /\ server \in {"forkReceiver", "forkLogger", "bind"}
  /\ receiver' = IF receiver = "unborn" THEN "none" ELSE receiver
  /\ logger' = IF logger = "unborn" THEN "none" ELSE logger
  /\ server' = "failed"
  /\ UNCHANGED <<chld, netVars, loopVars, fd, buffer, chanVars>>

(* bindSocket, then listen and the set-up of run().                         *)
Bind ==
  /\ server = "bind"
  /\ masterSet' = {Listener}
  /\ server' = "select"
  /\ UNCHANGED <<procVars, netVars, readSet, maxFd, owner, fd, buffer, chanVars>>
-----------------------------------------------------------------------------
(* run(): select and the scan of the descriptors it returned.               *)

Ready ==
  {f \in {Listener} : \E c \in Clients : conn[c] = "queued"} \cup
  {f \in ClientFds : owner[f] # NoClient /\
                     (inbox[owner[f]] # <<>> \/ owner[f] \in hungUp)}

Select_AllSet ==
  /\ server = "select"
  /\ Ready # {}
  /\ readSet' = masterSet
  /\ fd' = Listener
  /\ server' = "scan"
  /\ UNCHANGED <<procVars, netVars, masterSet, maxFd, owner, buffer, chanVars>>

Select ==
  /\ server = "select"
  /\ Ready \cap masterSet # {}
  /\ readSet' = Ready \cap masterSet
  /\ fd' = Listener
  /\ server' = "scan"
  /\ UNCHANGED <<procVars, netVars, masterSet, maxFd, owner, buffer, chanVars>>

(* SIGCHLD ends a select that waits; SA_RESTART does not apply to it.  The  *)
(* loop goes on with the copy of masterSet that select did not touch.       *)
SelectInterrupted ==
  /\ server = "select"
  /\ chld
  /\ Ready = {}
  /\ chld' = FALSE
  /\ readSet' = masterSet
  /\ fd' = Listener
  /\ server' = "scan"
  /\ UNCHANGED <<receiver, logger, netVars, masterSet, maxFd, owner, buffer, chanVars>>

(* Any other error of select is thrown to main, which ends this process.    *)
SelectFails ==
  /\ server = "select"
  /\ server' = "failed"
  /\ UNCHANGED <<procVars, netVars, loopVars, fd, buffer, chanVars>>

(* Elsewhere reapZombie runs unnoticed and calls are restarted, except a    *)
(* write() that is half done.                                               *)
ReapZombie ==
  /\ chld /\ server \notin Dead
  /\ ~(server = "relay" /\ written > 0)
  /\ chld' = FALSE
  /\ UNCHANGED <<server, receiver, logger, netVars, loopVars, fd, buffer, chanVars>>

(* The descriptors the scan has yet to look at, in ascending order.         *)
Pending == {f \in readSet : fd <= f /\ f <= maxFd}
AtFd(f) == server = "scan" /\ f \in Pending /\ \A g \in Pending : f <= g

(* accept() blocks when nobody is queued.                                   *)
LowestFree == CHOOSE f \in ClientFds :
  owner[f] = NoClient /\ \A g \in ClientFds : owner[g] = NoClient => f <= g

Accept_MaxNotRaised ==
  /\ AtFd(Listener)
  /\ \E c \in Clients :
       /\ conn[c] = "queued"
       /\ conn' = [conn EXCEPT ![c] = "open"]
       /\ owner' = [owner EXCEPT ![LowestFree] = c]
  /\ masterSet' = masterSet \cup {LowestFree}
  /\ fd' = Listener + 1
  /\ UNCHANGED <<server, procVars, sent, inbox, hungUp, readSet, maxFd, buffer, chanVars>>

Accept ==
  /\ AtFd(Listener)
  /\ \E c \in Clients :
       /\ conn[c] = "queued"
       /\ conn' = [conn EXCEPT ![c] = "open"]
       /\ owner' = [owner EXCEPT ![LowestFree] = c]
  /\ masterSet' = masterSet \cup {LowestFree}
  /\ maxFd' = IF LowestFree > maxFd THEN LowestFree ELSE maxFd
  /\ fd' = Listener + 1
  /\ UNCHANGED <<server, procVars, sent, inbox, hungUp, readSet, buffer, chanVars>>

ReadMessage_NotRelayed(f) ==
  /\ AtFd(f) /\ f # Listener
  /\ \E k \in 1..ReadMax :
       /\ k <= Len(inbox[owner[f]])
       /\ hand' = SubSeq(inbox[owner[f]], 1, k)
       /\ inbox' = [inbox EXCEPT ![owner[f]] = SubSeq(@, k + 1, Len(@))]
  /\ written' = 0
  /\ fd' = f
  /\ server' = "openFifo"
  /\ UNCHANGED <<procVars, conn, sent, hungUp, loopVars, chanVars>>

(* handleClientData: read() returns what has come, as far as buf takes it,  *)
(* and blocks when there is neither data nor an end.                        *)
ReadMessage(f) ==
  /\ AtFd(f) /\ f # Listener
  /\ \E k \in 1..ReadMax :
       /\ k <= Len(inbox[owner[f]])
       /\ hand' = SubSeq(inbox[owner[f]], 1, k)
       /\ inbox' = [inbox EXCEPT ![owner[f]] = SubSeq(@, k + 1, Len(@))]
  /\ written' = 0
  /\ fd' = f
  /\ server' = "relay"
  /\ UNCHANGED <<procVars, conn, sent, hungUp, loopVars, chanVars>>

ReadEnd_DataUnread(f) ==
  /\ AtFd(f) /\ f # Listener
  /\ owner[f] \in hungUp
  /\ conn' = [conn EXCEPT ![owner[f]] = "closed"]
  /\ inbox' = [inbox EXCEPT ![owner[f]] = <<>>]
  /\ owner' = [owner EXCEPT ![f] = NoClient]
  /\ masterSet' = masterSet \ {f}
  /\ fd' = f + 1
  /\ UNCHANGED <<server, procVars, sent, hungUp, readSet, maxFd, buffer, chanVars>>

ReadEnd(f) ==
  /\ AtFd(f) /\ f # Listener
  /\ inbox[owner[f]] = <<>> /\ owner[f] \in hungUp
  /\ conn' = [conn EXCEPT ![owner[f]] = "closed"]
  /\ owner' = [owner EXCEPT ![f] = NoClient]
  /\ masterSet' = masterSet \ {f}
  /\ fd' = f + 1
  /\ UNCHANGED <<server, procVars, sent, inbox, hungUp, readSet, maxFd, buffer, chanVars>>

ScanEnds ==
  /\ server = "scan" /\ Pending = {}
  /\ server' = "select"
  /\ UNCHANGED <<procVars, netVars, loopVars, fd, buffer, chanVars>>
-----------------------------------------------------------------------------
(* handleClientData: first the pipe, then the FIFO.                         *)

(* write() fills the pipe as there is room, and blocks where there is none. *)
WritePipe ==
  /\ server = "relay" /\ receiver = "running" /\ Len(pipe) < PipeCap
  /\ pipe' = Append(pipe, hand[written + 1])
  /\ relayed' = Append(relayed, hand[written + 1])
  /\ written' = written + 1
  /\ server' = IF written + 1 = Len(hand) THEN "openFifo" ELSE "relay"
  /\ UNCHANGED <<procVars, netVars, loopVars, fd, hand, fifo, lost, received, log>>

(* A signal ends a write() that blocks with part of buf in the pipe: it     *)
(* returns a short count, SA_RESTART or not, and nobody looks at it.        *)
WriteCut ==
  /\ server = "relay" /\ receiver = "running" /\ Len(pipe) = PipeCap
  /\ written > 0 /\ chld
  /\ chld' = FALSE
  /\ lost' = lost \cup {hand[i] : i \in (written + 1)..Len(hand)}
  /\ server' = "openFifo"
  /\ UNCHANGED <<receiver, logger, netVars, loopVars, fd, buffer, pipe, fifo, relayed,
                 received, log>>

(* write() to a pipe nobody can read raises SIGPIPE, which is not handled.  *)
BrokenPipe ==
  /\ server = "relay" /\ receiver # "running"
  /\ server' = "killed"
  /\ UNCHANGED <<procVars, netVars, loopVars, fd, buffer, chanVars>>

FifoHasReader == logger \in {"opening", "reading", "ending"}

(* A non-blocking open for writing succeeds when some process has the FIFO  *)
(* open for reading or waits in its open(), which it then lets return.      *)
OpenFifo ==
  /\ server = "openFifo" /\ FifoHasReader
  /\ logger' = IF logger = "opening" THEN "reading" ELSE logger
  /\ server' = "writeFifo"
  /\ UNCHANGED <<receiver, chld, netVars, loopVars, fd, buffer, chanVars>>

(* Otherwise it fails (ENXIO) and the chunk is not logged.                  *)
OpenFifoFails ==
  /\ server = "openFifo" /\ ~FifoHasReader
  /\ server' = "scan" /\ fd' = fd + 1 /\ hand' = <<>> /\ written' = 0
  /\ UNCHANGED <<procVars, netVars, loopVars, chanVars>>

(* What does not fit in the FIFO is not logged: with O_NONBLOCK write()     *)
(* puts in what it can, or fails with EAGAIN, and nobody looks at it.       *)
Fitting == IF Len(fifo) + Len(hand) <= FifoCap THEN Len(hand) ELSE FifoCap - Len(fifo)

WriteFifo ==
  /\ server = "writeFifo" /\ FifoHasReader
  /\ fifo' = fifo \o SubSeq(hand, 1, Fitting)
  /\ server' = "closeFifo"
  /\ UNCHANGED <<procVars, netVars, loopVars, fd, buffer, pipe, relayed, lost, received, log>>

(* The logger went away between the open and the write.                     *)
BrokenFifo ==
  /\ server = "writeFifo" /\ ~FifoHasReader
  /\ server' = "killed"
  /\ UNCHANGED <<procVars, netVars, loopVars, fd, buffer, chanVars>>

CloseFifo ==
  /\ server = "closeFifo"
  /\ server' = "scan" /\ fd' = fd + 1 /\ hand' = <<>> /\ written' = 0
  /\ UNCHANGED <<procVars, netVars, loopVars, chanVars>>
-----------------------------------------------------------------------------
(* The children.                                                            *)

ReceiverRead ==
  /\ receiver = "running" /\ pipe # <<>>
  /\ received' = received \o pipe
  /\ pipe' = <<>>
  /\ UNCHANGED <<server, procVars, netVars, loopVars, fd, buffer, fifo, relayed, lost, log>>

(* The read ends with 0 when nobody can write to the pipe any more.  The    *)
(* receiver closed its own writing end; the logger, forked later, never     *)
(* closes the one it inherited.                                             *)
ReceiverEnd_KeepsWriteEnd ==
  /\ receiver = "running" /\ pipe = <<>>
  /\ server \in Dead /\ logger \in {"none", "exited"}
  /\ receiver' = "running"
  /\ UNCHANGED <<server, logger, chld, netVars, loopVars, fd, buffer, chanVars>>

ReceiverEnd ==
  /\ receiver = "running" /\ pipe = <<>>
  /\ server \in Dead /\ logger \in {"none", "exited"}
  /\ receiver' = "exited"
  /\ UNCHANGED <<server, logger, chld, netVars, loopVars, fd, buffer, chanVars>>

(* open(fifoPath, O_RDONLY) waits for a first writer.                       *)
LoggerOpens ==
  /\ logger = "forked"
  /\ logger' = "opening"
  /\ UNCHANGED <<server, receiver, chld, netVars, loopVars, fd, buffer, chanVars>>

LoggerRead ==
  /\ logger = "reading" /\ fifo # <<>>
  /\ log' = log \o fifo
  /\ fifo' = <<>>
  /\ UNCHANGED <<server, procVars, netVars, loopVars, fd, buffer, pipe, relayed, lost, received>>

(* read() returns 0 as soon as the FIFO is empty and the server has closed  *)
(* it, which it does after every chunk: that ends the loop ...            *)
LoggerEnds ==
  /\ logger = "reading" /\ fifo = <<>>
  /\ server \notin {"writeFifo", "closeFifo"}
  /\ logger' = "ending"
  /\ UNCHANGED <<server, receiver, chld, netVars, loopVars, fd, buffer, chanVars>>

(* ... and the process, with whatever was written to the FIFO meanwhile.    *)
LoggerExits ==
  /\ logger = "ending"
  /\ logger' = "exited"
  /\ chld' = (server \notin Dead)
  /\ fifo' = <<>>
  /\ UNCHANGED <<server, receiver, netVars, loopVars, fd, buffer, pipe, relayed, lost, received, log>>
-----------------------------------------------------------------------------
(* The clients, over TCP.                                                   *)

Connect(c) ==
  /\ server \in Serving /\ conn[c] = "off"
  /\ conn' = [conn EXCEPT ![c] = "queued"]
  /\ UNCHANGED <<server, procVars, sent, inbox, hungUp, loopVars, fd, buffer, chanVars>>

Connected(c) == server \in Serving /\ conn[c] \in {"queued", "open"} /\ c \notin hungUp

Send(c) ==
  /\ Connected(c) /\ sent[c] < MaxMsgs
  /\ sent' = [sent EXCEPT ![c] = @ + 1]
  /\ inbox' = [inbox EXCEPT ![c] = Append(@, <<c, sent[c] + 1>>)]
  /\ UNCHANGED <<server, procVars, conn, hungUp, loopVars, fd, buffer, chanVars>>

HangUp(c) ==
  /\ Connected(c)
  /\ hungUp' = hungUp \cup {c}
  /\ UNCHANGED <<server, procVars, conn, sent, inbox, loopVars, fd, buffer, chanVars>>
-----------------------------------------------------------------------------
ServerStep ==
  \/ ForkReceiver \/ ForkLogger \/ InitFails \/ Bind
  \/ Select \/ SelectInterrupted \/ Accept \/ ScanEnds
  \/ \E f \in ClientFds : ReadMessage(f) \/ ReadEnd(f)
  \/ WritePipe \/ WriteCut \/ BrokenPipe
  \/ OpenFifo \/ OpenFifoFails \/ WriteFifo \/ BrokenFifo \/ CloseFifo

ReceiverStep == ReceiverRead \/ ReceiverEnd
LoggerStep == LoggerOpens \/ LoggerRead \/ LoggerEnds \/ LoggerExits
ClientStep == \E c \in Clients : Connect(c) \/ Send(c) \/ HangUp(c)

Next == ServerStep \/ SelectFails \/ ReapZombie \/ ReceiverStep \/ LoggerStep \/ ClientStep

Spec == Init /\ [][Next]_vars

(* The operating system runs every process that can run.  Nothing is        *)
(* assumed of the clients, nor that a signal finds the server in select or  *)
(* that select ever fails.                                                  *)
FairSpec ==
  Spec /\ WF_vars(ServerStep) /\ WF_vars(ReceiverStep) /\ WF_vars(LoggerStep)
-----------------------------------------------------------------------------
(* All the server has read that is on its way to the receiver or there:     *)
(* read by it, in the pipe, or in the server's buf before the pipe.         *)
Passed ==
  received \o pipe \o
    (IF server = "relay" THEN SubSeq(hand, written + 1, Len(hand)) ELSE <<>>)

(* Of client c, s holds the first n messages but those that were lost, each *)
(* once, in that order.                                                     *)
HoldsFirst(s, gone, c, n) ==
  /\ \A i \in DOMAIN s : s[i][1] = c => s[i][2] \in 1..n
  /\ \A k \in 1..n : <<c, k>> \in gone \/ \E i \in DOMAIN s : s[i] = <<c, k>>
  /\ \A i, j \in DOMAIN s : i < j /\ s[i][1] = c /\ s[j][1] = c => s[i][2] < s[j][2]

(* The end of one chunk, of which the beginning is in the pipe.             *)
OneGap(gone) ==
  \E c \in Clients : \E a, b \in 0..MaxMsgs :
    b < a + ReadMax /\ gone = {<<c, k>> : k \in (a + 1)..b}

(* As long as the server lives, no byte of any client is doubled or         *)
(* reordered on the way to the receiver, however clients interleave, hang   *)
(* up with data unread, or descriptors are reused; and none is lost, but    *)
(* once: the signal of the logger's end may cut one write() short, and the  *)
(* rest of that chunk is gone.  What was read of client c are its first     *)
(* messages, and the others are unread.                                     *)
StreamIntact ==
  server \notin Dead =>
    /\ \A c \in Clients :
         LET n == sent[c] - Len(inbox[c]) IN
         /\ HoldsFirst(Passed, lost, c, n)
         /\ \A k \in DOMAIN inbox[c] : inbox[c][k] = <<c, n + k>>
    /\ lost # {} => logger = "exited" /\ OneGap(lost)

(* select watches exactly the listener and the connections that are open,   *)
(* and maxFd covers them all: no client is forgotten, no closed descriptor  *)
(* is scanned after its number may have been given away.                    *)
WatchesOpenFds ==
  server \in Serving =>
    /\ masterSet = {Listener} \cup {f \in ClientFds : owner[f] # NoClient}
    /\ \A f \in masterSet : f <= maxFd
    /\ \A c \in Clients : conn[c] = "open" <=> \E f \in ClientFds : owner[f] = c

(* The server is inside an accept() or read() that has nothing to return.   *)
Stalled == \E f \in Pending : AtFd(f) /\ f \notin Ready

(* The log holds messages that were relayed, each once, in the order they   *)
(* were relayed, although two channels carry them.                          *)
LogInRelayOrder ==
  LET logged == log \o fifo IN
  /\ \A i \in DOMAIN logged : \E j \in DOMAIN relayed : logged[i] = relayed[j]
  /\ \A i, j \in DOMAIN logged : \A k, l \in DOMAIN relayed :
       i < j /\ logged[i] = relayed[k] /\ logged[j] = relayed[l] => k < l

(* Nothing clients do stops the relay.  It hangs only where the loss of the *)
(* logger has interrupted select, and is killed by SIGPIPE only when a      *)
(* child is missing: the receiver was never forked, or the logger left      *)
(* after its first burst.                                                   *)
HarmedOnlyByChildren ==
  /\ Stalled => logger = "exited"
  /\ server = "killed" => receiver = "none" \/ logger = "exited"

(* Every message sent is relayed, unless the server dies or hangs for ever  *)
(* in a call that has nothing to return, or a write() was cut short before  *)
(* it, which StreamIntact limits.                                           *)
EveryMessageRelayed ==
  <>[]Stalled \/
  \A m \in Messages :
    (sent[m[1]] >= m[2]) ~>
      ((\E i \in DOMAIN relayed : relayed[i] = m) \/ m \in lost \/ server \in Dead)

(* When the server ends, by a failed init() or by SIGPIPE, its children     *)
(* end too, except a logger whose FIFO was never opened for writing; and    *)
(* that one keeps the receiver waiting on the pipe it inherited.            *)
ChildrenEnd ==
  (server \in Dead) ~>
    (logger = "opening" \/ (receiver # "running" /\ logger \in {"none", "exited"}))
=============================================================================
