---------------------------- MODULE CRelayProofs ----------------------------
(***************************************************************************)
(* The servers in C: how many clients they accept, and which messages are  *)
(* logged, for any setups of servers and clients and any capacities.       *)
(***************************************************************************)
EXTENDS CRelay, FiniteSetTheorems, SequenceTheorems, TLAPS

Accepted(s) == {opened[s][i] : i \in DOMAIN opened[s]}

(* The places before a server has made its FIFO's name its own, and those   *)
(* after, up to its loop.                                                   *)
Early == {"off", "mkfifo", "receiver", "logger", "socket", "fifo"}
Made == {"receiver", "logger", "socket", "fifo"} \cup Serving

Places == Early \cup Serving \cup {"dead"}
LoggerPlaces == {"none", "forked", "opening", "reading", "spins", "exited"}

TypeInv ==
  /\ setup \in Setups
  /\ server \in [Servers -> Places]
  /\ opened \in [Servers -> Seq(Clients)]
  /\ masterSet \in [Servers -> SUBSET Nat]
  /\ hand \in [Servers -> Clients \cup {None}]
  /\ \A s \in Servers : server[s] = "pipe" => hand[s] # None
  /\ logger \in [Servers -> LoggerPlaces]
  /\ path \in Servers \cup {None}
  /\ held \in [Servers -> Servers \cup {None}]
  /\ brief \in [Servers -> Servers \cup {None}]
  /\ source \in [Servers -> Servers \cup {None}]
  /\ fifo \in [Servers -> SUBSET Clients] /\ pipe \in [Servers -> SUBSET Clients]
  /\ printed \subseteq Clients
  /\ conn \in [Clients -> {"off", "queued", "open"}]
  /\ peer \in [Clients -> Servers \cup {None}]
  /\ overlapped \in BOOLEAN

(* A server watches its listener and the clients it ever accepted.          *)
WatchInv ==
  \A s \in Servers :
    /\ server[s] \in Early => opened[s] = <<>>
    /\ server[s] \in Serving \cup {"fifo"} => masterSet[s] = 0..Len(opened[s])

(* A message stays with the server its client is connected to.              *)
MailInv ==
  /\ \A s \in Servers :
       /\ \A c \in Accepted(s) : peer[c] = s /\ conn[c] = "open"
       /\ pipe[s] \subseteq Accepted(s)
       /\ hand[s] \in Accepted(s) \cup {None}
       /\ server[s] \notin {"pipe", "open", "write", "dead"} => hand[s] = None
  /\ \A c \in printed : \E s \in Servers : c \in Accepted(s)

(* What a server has open, and, while no two have run at a time, that this  *)
(* is the FIFO it made, whose name is still its own.                        *)
FifoInv ==
  /\ \A s \in Servers : /\ server[s] \notin Serving => held[s] = None
                        /\ server[s] # "write" => brief[s] = None
  /\ ~overlapped /\ setup.program # "chat" =>
       /\ \A s, t \in Servers : Running(s) /\ Running(t) => s = t
       /\ \A s \in Servers :
            /\ server[s] = "mkfifo" => path = None
            /\ server[s] \in Made => path = s
            /\ server[s] \in Serving => held[s] = s
            /\ server[s] = "write" => brief[s] = s

(* Its logger reads that FIFO, and did not find it without a writer.        *)
LoggerInv ==
  ~overlapped /\ setup.program # "chat" =>
    \A s \in Servers :
      /\ server[s] \in {"off", "mkfifo", "receiver", "logger"} => logger[s] = "none"
      /\ server[s] \in {"socket", "fifo"} => logger[s] \in {"forked", "opening"}
      /\ server[s] \in Serving => logger[s] \in {"forked", "opening", "reading"}
      /\ Running(s) /\ logger[s] \in {"opening", "reading"} => source[s] = s

(* What it passed on is logged, in the FIFO, in its hand or dropped.        *)
LogInv ==
  ~overlapped /\ setup.program # "chat" =>
    \A s \in Servers : server[s] \in Serving =>
      \A c \in Clients :
        peer[c] = s /\ c \in printed \cup pipe[s] =>
          c \in log \cup fifo[s] \cup {hand[s]} \cup dropped

(* What these leave out of the types.                                       *)
RestInv ==
  /\ readSet \in [Servers -> SUBSET Nat]
  /\ mail \in [Clients -> {"unsent", "unread", "read"}]
  /\ receiver \in [Servers -> {"none", "running", "exited"}]
  /\ log \subseteq Clients /\ hungUp \subseteq Clients /\ dropped \subseteq Clients
  /\ chld \subseteq Servers
  /\ \A s \in Servers : logger[s] \in {"opening", "reading"} => source[s] \in Servers

(* A receiver begins after its server and ends after everybody who can      *)
(* write to its pipe, with nothing left in it.                              *)
ReceiverInv ==
  \A s \in Servers :
    /\ server[s] \in {"off", "mkfifo", "receiver"} => receiver[s] = "none"
    /\ receiver[s] = "exited" =>
         server[s] = "dead" /\ logger[s] \in {"none", "exited"} /\ pipe[s] = {}

IInv ==
  /\ TypeInv /\ WatchInv /\ MailInv /\ FifoInv /\ LoggerInv /\ LogInv
  /\ ClientsPerLifetime /\ RestInv /\ ReceiverInv
-----------------------------------------------------------------------------
(* What the assumption says of the setup that runs.                         *)
LEMMA SetupFacts ==
  ASSUME setup \in Setups
  PROVE  /\ setup.program \in {"pipe-fifo", "temp", "chat"} /\ setup.fds \in Nat
         /\ IsFiniteSet(Servers) /\ None \notin Servers /\ None \notin Clients
         /\ FifoCap \in Nat \ {0}
BY CRelayAssumption DEF CRelayAssumption, Servers, Clients

(* At the start no server runs and there is no FIFO.                        *)
LEMMA InitIInv == Init => IInv
<1> SUFFICES ASSUME Init PROVE IInv
  OBVIOUS
<1> USE DEF Init
<1>1. setup \in Setups /\ None \notin Servers /\ None \notin Clients /\ setup.fds \in Nat
  BY SetupFacts
<1>2. \A s \in Servers : opened[s] = <<>> /\ Accepted(s) = {} /\ Len(opened[s]) = 0
  BY DEF Accepted
<1>3. TypeInv
  <2>1. /\ server \in [Servers -> Places] /\ logger \in [Servers -> LoggerPlaces]
        /\ opened \in [Servers -> Seq(Clients)]
    BY DEF Places, Early, LoggerPlaces
  <2> QED
    BY <1>1, <2>1 DEF TypeInv
<1>4. WatchInv /\ ClientsPerLifetime
  BY <1>1, <1>2 DEF WatchInv, ClientsPerLifetime, Serving
<1>5. MailInv
  BY <1>2 DEF MailInv
<1>6. FifoInv /\ LoggerInv /\ LogInv
  BY DEF FifoInv, LoggerInv, LogInv, Running, Made, Serving
<1>7. RestInv /\ ReceiverInv
  BY DEF RestInv, ReceiverInv
<1> QED
  BY <1>3, <1>4, <1>5, <1>6, <1>7 DEF IInv
-----------------------------------------------------------------------------
(* Steps of a server s, by the part of the state they are about.            *)
LEMMA TypeStep == TypeInv /\ [Next]_vars => TypeInv'
<1> SUFFICES ASSUME TypeInv, [Next]_vars PROVE TypeInv'
  OBVIOUS
<1> USE DEF TypeInv, Places, Early, Serving, LoggerPlaces
<1>1. CASE UNCHANGED vars
  BY <1>1 DEF vars, loopVars, fifoVars, outVars, netVars, history, Servers, Clients
<1> SUFFICES ASSUME Next PROVE TypeInv'
  BY <1>1
<1>2. setup' = setup /\ Servers' = Servers /\ Clients' = Clients
  BY DEF Next, Servers, Clients
<1> USE <1>2, SetupFacts DEF Goto, loopVars, fifoVars, outVars, netVars, history
<1>3. ASSUME NEW s \in Servers, Start(s) PROVE TypeInv'
  <2>1. /\ \E to \in {"socket", "mkfifo"} : server' = [server EXCEPT ![s] = to]
        /\ path' \in {path, None} /\ overlapped' \in BOOLEAN
    BY <1>3 DEF Start
  <2>2. UNCHANGED <<loopVars, logger, held, brief, source, fifo, outVars, netVars>>
    BY <1>3 DEF Start
  <2> QED
    BY <2>1, <2>2
<1>4. ASSUME NEW s \in Servers, Mkfifo(s) PROVE TypeInv'
  BY <1>4 DEF Mkfifo
<1>5. ASSUME NEW s \in Servers, ForkReceiver(s) PROVE TypeInv'
  BY <1>5 DEF ForkReceiver
<1>6. ASSUME NEW s \in Servers, ForkLogger(s) PROVE TypeInv'
  BY <1>6 DEF ForkLogger
<1>7. ASSUME NEW s \in Servers, Bind(s) PROVE TypeInv'
  BY <1>7 DEF Bind, Listener
<1>8. ASSUME NEW s \in Servers, OpenHeld(s) PROVE TypeInv'
  BY <1>8 DEF OpenHeld, WakeReaders
<1>9. ASSUME NEW s \in Servers, OpenFifo(s) PROVE TypeInv'
  BY <1>9 DEF OpenFifo, WakeReaders
<1>10. ASSUME NEW s \in Servers, Fatal(s) PROVE TypeInv'
  BY <1>10 DEF Fatal, Die, Discard
<1>11. ASSUME NEW s \in Servers, FatalUnlinks(s) PROVE TypeInv'
  BY <1>11 DEF FatalUnlinks, Die, Discard
<1>12. ASSUME NEW s \in Servers, FatalChat(s) PROVE TypeInv'
  BY <1>12 DEF FatalChat, Die
<1>13. ASSUME NEW s \in Servers, Killed(s) PROVE TypeInv'
  BY <1>13 DEF Killed, Die, Discard
<1>14. ASSUME NEW s \in Servers, Select(s) PROVE TypeInv'
  BY <1>14 DEF Select
<1>15. ASSUME NEW s \in Servers, SelectInterrupted(s) PROVE TypeInv'
  BY <1>15 DEF SelectInterrupted
<1>16. ASSUME NEW s \in Servers, HandlerReturns(s) PROVE TypeInv'
  BY <1>16 DEF HandlerReturns
<1>17. ASSUME NEW s \in Servers, ScanEnds(s) PROVE TypeInv'
  BY <1>17 DEF ScanEnds
<1>18. ASSUME NEW s \in Servers, Accept(s) PROVE TypeInv'
  BY <1>18 DEF Accept
<1>19. ASSUME NEW s \in Servers, AcceptFails(s) PROVE TypeInv'
  BY <1>19 DEF AcceptFails
<1>20. ASSUME NEW s \in Servers, WritePipe(s) PROVE TypeInv'
  BY <1>20 DEF WritePipe
<1>21. ASSUME NEW s \in Servers, OpenFifoFails(s) PROVE TypeInv'
  BY <1>21 DEF OpenFifoFails
<1>22. ASSUME NEW s \in Servers, NEW f \in DOMAIN opened[s], ReadMessage(s, f) PROVE TypeInv'
  BY <1>22 DEF ReadMessage
<1>23. ASSUME NEW s \in Servers, NEW f \in DOMAIN opened[s], ReadEnd(s, f) PROVE TypeInv'
  BY <1>23 DEF ReadEnd
<1>24. ASSUME NEW s \in Servers, WriteFifo(s) PROVE TypeInv'
  <2>1. fifo' \in [Servers -> SUBSET Clients]
    BY <1>24 DEF WriteFifo
  <2> QED
    BY <1>24, <2>1 DEF WriteFifo
<1>25. ASSUME NEW s \in Servers, ReceiverPrints(s) PROVE TypeInv'
  BY <1>25 DEF ReceiverPrints
<1>26. ASSUME NEW s \in Servers, ReceiverExits(s) PROVE TypeInv'
  BY <1>26 DEF ReceiverExits
<1>27. ASSUME NEW s \in Servers, LoggerOpens(s) PROVE TypeInv'
  BY <1>27 DEF LoggerOpens, Opens
<1>28. ASSUME NEW s \in Servers, LoggerReads(s) PROVE TypeInv'
  BY <1>28 DEF LoggerReads
<1>29. ASSUME NEW s \in Servers, LoggerExits(s) PROVE TypeInv'
  BY <1>29 DEF LoggerExits
<1>30. ASSUME NEW c \in Clients, Connect(c) PROVE TypeInv'
  BY <1>30 DEF Connect
<1>31. ASSUME NEW c \in Clients, Send(c) PROVE TypeInv'
  BY <1>31 DEF Send
<1>32. ASSUME NEW c \in Clients, HangUp(c) PROVE TypeInv'
  BY <1>32 DEF HangUp
<1> QED
  BY <1>3, <1>4, <1>5, <1>6, <1>7, <1>8, <1>9, <1>10, <1>11, <1>12, <1>13, <1>14,
     <1>15, <1>16, <1>17, <1>18, <1>19, <1>20, <1>21, <1>22, <1>23, <1>24, <1>25, <1>26,
     <1>27, <1>28, <1>29, <1>30, <1>31, <1>32
     DEF Next, ServerStep, ReceiverStep, LoggerStep
-----------------------------------------------------------------------------
(* No step changes the setup.                                               *)
LEMMA SetupStays == [Next]_vars => setup' = setup /\ Servers' = Servers /\ Clients' = Clients
BY DEF Next, vars, Servers, Clients

(* What is left of a chunk, and who prints it, keeps its type.              *)
LEMMA RestStep == TypeInv /\ RestInv /\ [Next]_vars => RestInv'
<1> SUFFICES ASSUME TypeInv, RestInv, [Next]_vars PROVE RestInv'
  OBVIOUS
<1> USE DEF TypeInv, RestInv, LoggerPlaces
<1>1. CASE UNCHANGED vars
  BY <1>1 DEF vars, loopVars, fifoVars, outVars, netVars, history, Servers, Clients
<1> SUFFICES ASSUME Next PROVE RestInv'
  BY <1>1
<1>2. setup' = setup /\ Servers' = Servers /\ Clients' = Clients
  BY DEF Next, Servers, Clients
<1> USE <1>2, SetupFacts DEF Goto, loopVars, fifoVars, outVars, netVars, history
<1>3. ASSUME NEW s \in Servers, Start(s) PROVE RestInv'
  <2>1. UNCHANGED <<loopVars, logger, source, outVars, netVars, dropped>>
    BY <1>3 DEF Start
  <2> QED
    BY <2>1
<1>4. ASSUME NEW s \in Servers, Mkfifo(s) PROVE RestInv'
  BY <1>4 DEF Mkfifo
<1>5. ASSUME NEW s \in Servers, ForkReceiver(s) PROVE RestInv'
  BY <1>5 DEF ForkReceiver
<1>6. ASSUME NEW s \in Servers, ForkLogger(s) PROVE RestInv'
  BY <1>6 DEF ForkLogger
<1>7. ASSUME NEW s \in Servers, Bind(s) PROVE RestInv'
  BY <1>7 DEF Bind, Listener
<1>8. ASSUME NEW s \in Servers, OpenHeld(s) PROVE RestInv'
  BY <1>8 DEF OpenHeld, WakeReaders
<1>9. ASSUME NEW s \in Servers, OpenFifo(s) PROVE RestInv'
  BY <1>9 DEF OpenFifo, WakeReaders
<1>10. ASSUME NEW s \in Servers, Fatal(s) PROVE RestInv'
  BY <1>10 DEF Fatal, Die, Discard
<1>11. ASSUME NEW s \in Servers, FatalUnlinks(s) PROVE RestInv'
  BY <1>11 DEF FatalUnlinks, Die, Discard
<1>12. ASSUME NEW s \in Servers, FatalChat(s) PROVE RestInv'
  BY <1>12 DEF FatalChat, Die
<1>13. ASSUME NEW s \in Servers, Killed(s) PROVE RestInv'
  BY <1>13 DEF Killed, Die, Discard
<1>14. ASSUME NEW s \in Servers, Select(s) PROVE RestInv'
  BY <1>14 DEF Select
<1>15. ASSUME NEW s \in Servers, SelectInterrupted(s) PROVE RestInv'
  BY <1>15 DEF SelectInterrupted
<1>16. ASSUME NEW s \in Servers, HandlerReturns(s) PROVE RestInv'
  BY <1>16 DEF HandlerReturns
<1>17. ASSUME NEW s \in Servers, ScanEnds(s) PROVE RestInv'
  BY <1>17 DEF ScanEnds
<1>18. ASSUME NEW s \in Servers, Accept(s) PROVE RestInv'
  BY <1>18 DEF Accept, Past
<1>19. ASSUME NEW s \in Servers, AcceptFails(s) PROVE RestInv'
  BY <1>19 DEF AcceptFails, Past
<1>20. ASSUME NEW s \in Servers, WritePipe(s) PROVE RestInv'
  BY <1>20 DEF WritePipe
<1>21. ASSUME NEW s \in Servers, OpenFifoFails(s) PROVE RestInv'
  BY <1>21 DEF OpenFifoFails
<1>22. ASSUME NEW s \in Servers, NEW f \in DOMAIN opened[s], ReadMessage(s, f) PROVE RestInv'
  BY <1>22 DEF ReadMessage, Past
<1>23. ASSUME NEW s \in Servers, NEW f \in DOMAIN opened[s], ReadEnd(s, f) PROVE RestInv'
  BY <1>23 DEF ReadEnd, Past
<1>24. ASSUME NEW s \in Servers, WriteFifo(s) PROVE RestInv'
  BY <1>24 DEF WriteFifo
<1>25. ASSUME NEW s \in Servers, ReceiverPrints(s) PROVE RestInv'
  BY <1>25 DEF ReceiverPrints
<1>26. ASSUME NEW s \in Servers, ReceiverExits(s) PROVE RestInv'
  BY <1>26 DEF ReceiverExits
<1>27. ASSUME NEW s \in Servers, LoggerOpens(s) PROVE RestInv'
  BY <1>27 DEF LoggerOpens, Opens
<1>28. ASSUME NEW s \in Servers, LoggerReads(s) PROVE RestInv'
  BY <1>28 DEF LoggerReads
<1>29. ASSUME NEW s \in Servers, LoggerExits(s) PROVE RestInv'
  BY <1>29 DEF LoggerExits
<1>30. ASSUME NEW c \in Clients, Connect(c) PROVE RestInv'
  BY <1>30 DEF Connect
<1>31. ASSUME NEW c \in Clients, Send(c) PROVE RestInv'
  BY <1>31 DEF Send
<1>32. ASSUME NEW c \in Clients, HangUp(c) PROVE RestInv'
  BY <1>32 DEF HangUp
<1> QED
  BY <1>3, <1>4, <1>5, <1>6, <1>7, <1>8, <1>9, <1>10, <1>11, <1>12, <1>13, <1>14,
     <1>15, <1>16, <1>17, <1>18, <1>19, <1>20, <1>21, <1>22, <1>23, <1>24, <1>25, <1>26,
     <1>27, <1>28, <1>29, <1>30, <1>31, <1>32
     DEF Next, ServerStep, ReceiverStep, LoggerStep
-----------------------------------------------------------------------------
(* Nobody writes to a pipe whose server is dead.                            *)
LEMMA ReceiverStays ==
  ASSUME ReceiverInv, Servers' = Servers, UNCHANGED <<receiver, pipe>>,
         \A s \in Servers :
           /\ \/ server'[s] = server[s] \/ server'[s] \notin {"off", "mkfifo", "receiver"}
              \/ server[s] \in {"off", "mkfifo"}
           /\ server[s] = "dead" => server'[s] = "dead"
           /\ server[s] = "dead" /\ logger[s] \in {"none", "exited"} => logger'[s] \in {"none", "exited"}
  PROVE  ReceiverInv'
BY DEF ReceiverInv

(* A receiver ends only when nobody can write to its pipe.                  *)
LEMMA ReceiverStepInv == TypeInv /\ ReceiverInv /\ [Next]_vars => ReceiverInv'
<1> SUFFICES ASSUME TypeInv, ReceiverInv, [Next]_vars PROVE ReceiverInv'
  OBVIOUS
<1> USE SetupStays DEF Goto, loopVars, fifoVars, outVars, netVars, history
<1>1. /\ server \in [Servers -> Places] /\ logger \in [Servers -> LoggerPlaces]
      /\ pipe \in [Servers -> SUBSET Clients]
  BY DEF TypeInv
<1>2. ASSUME NEW s \in Servers, Start(s) \/ Mkfifo(s) \/ ForkLogger(s) \/ Bind(s) PROVE ReceiverInv'
  BY <1>1, <1>2, ReceiverStays DEF Start, Mkfifo, ForkLogger, Bind
<1>3. ASSUME NEW s \in Servers, OpenHeld(s) \/ ScanEnds(s) \/ OpenFifo(s) PROVE ReceiverInv'
  BY <1>1, <1>3, ReceiverStays DEF OpenHeld, ScanEnds, OpenFifo, WakeReaders
<1>4. ASSUME NEW s \in Servers, Select(s) \/ SelectInterrupted(s) \/ AcceptFails(s) \/ HandlerReturns(s)
      PROVE  ReceiverInv'
  BY <1>1, <1>4, ReceiverStays DEF Select, SelectInterrupted, AcceptFails, HandlerReturns
<1>5. ASSUME NEW s \in Servers, OpenFifoFails(s) \/ WriteFifo(s) \/ Accept(s) PROVE ReceiverInv'
  BY <1>1, <1>5, ReceiverStays DEF OpenFifoFails, WriteFifo, Accept
<1>6. ASSUME NEW s \in Servers, Fatal(s) \/ FatalUnlinks(s) \/ FatalChat(s) \/ Killed(s)
      PROVE  ReceiverInv'
  BY <1>1, <1>6, ReceiverStays DEF Fatal, FatalUnlinks, FatalChat, Killed, Die, Serving
<1>7. ASSUME NEW s \in Servers, NEW f \in DOMAIN opened[s], ReadMessage(s, f) \/ ReadEnd(s, f)
      PROVE  ReceiverInv'
  BY <1>1, <1>7, ReceiverStays DEF ReadMessage, ReadEnd, AtFd
<1>8. ASSUME NEW s \in Servers, LoggerStep(s) PROVE ReceiverInv'
  BY <1>1, <1>8, ReceiverStays DEF LoggerStep, LoggerOpens, LoggerReads, LoggerExits
<1>9. ASSUME NEW c \in Clients, Connect(c) \/ Send(c) \/ HangUp(c) PROVE ReceiverInv'
  BY <1>1, <1>9, ReceiverStays DEF Connect, Send, HangUp
<1>10. CASE UNCHANGED vars
  BY <1>1, <1>10, ReceiverStays DEF vars
<1>11. ASSUME NEW s \in Servers, ForkReceiver(s) PROVE ReceiverInv'
  BY <1>1, <1>11 DEF ForkReceiver, ReceiverInv
<1>12. ASSUME NEW s \in Servers, WritePipe(s) PROVE ReceiverInv'
  BY <1>1, <1>12 DEF WritePipe, ReceiverInv
<1>13. ASSUME NEW s \in Servers, ReceiverPrints(s) PROVE ReceiverInv'
  BY <1>1, <1>13 DEF ReceiverPrints, ReceiverInv
<1>14. ASSUME NEW s \in Servers, ReceiverExits(s) PROVE ReceiverInv'
  <2>1. server[s] \in {"off", "dead"} /\ logger[s] \in {"none", "exited"} /\ pipe[s] = {}
    BY <1>14 DEF ReceiverExits, PipeWriters, Running
  <2>2. server[s] = "dead"
    BY <1>14, <2>1 DEF ReceiverExits, ReceiverInv
  <2> QED
    BY <1>1, <1>14, <2>1, <2>2 DEF ReceiverExits, ReceiverInv
<1> QED
  BY <1>2, <1>3, <1>4, <1>5, <1>6, <1>7, <1>8, <1>9, <1>10, <1>11, <1>12, <1>13, <1>14
     DEF Next, ServerStep, ReceiverStep
-----------------------------------------------------------------------------
(* A server that begins no earlier part of its life watches what it did.    *)
LEMMA WatchStays ==
  ASSUME WatchInv, ClientsPerLifetime, setup' = setup, Servers' = Servers,
         UNCHANGED <<opened, masterSet>>,
         \A s \in Servers :
           \/ server'[s] = server[s] \/ server'[s] = "dead"
           \/ server'[s] \in Serving /\ server[s] \in Serving \cup {"fifo"}
           \/ server'[s] \in Early \ {"fifo"} /\ server[s] \in Early
  PROVE  WatchInv' /\ ClientsPerLifetime'
BY DEF WatchInv, ClientsPerLifetime, Serving, Early

(* masterSet holds what was accepted, and only accept adds to it.           *)
LEMMA WatchStep ==
  TypeInv /\ WatchInv /\ ClientsPerLifetime /\ [Next]_vars => WatchInv' /\ ClientsPerLifetime'
<1> SUFFICES ASSUME TypeInv, WatchInv, ClientsPerLifetime, [Next]_vars
             PROVE  WatchInv' /\ ClientsPerLifetime'
  OBVIOUS
<1> USE SetupStays, SetupFacts DEF Goto, loopVars, fifoVars, outVars, netVars, history
<1>1. server \in [Servers -> Places] /\ setup \in Setups /\ opened \in [Servers -> Seq(Clients)]
      /\ masterSet \in [Servers -> SUBSET Nat]
  BY DEF TypeInv
<1>2. ASSUME NEW s \in Servers, Start(s) \/ Mkfifo(s) \/ ForkReceiver(s) \/ ForkLogger(s)
      PROVE  WatchInv' /\ ClientsPerLifetime'
  BY <1>1, <1>2, WatchStays DEF Start, Mkfifo, ForkReceiver, ForkLogger, Early
<1>3. ASSUME NEW s \in Servers, OpenHeld(s) \/ ScanEnds(s) \/ OpenFifo(s) \/ OpenFifoFails(s)
      PROVE  WatchInv' /\ ClientsPerLifetime'
  BY <1>1, <1>3, WatchStays DEF OpenHeld, ScanEnds, OpenFifo, OpenFifoFails, Serving
<1>4. ASSUME NEW s \in Servers, Select(s) \/ SelectInterrupted(s) \/ WritePipe(s) \/ WriteFifo(s)
      PROVE  WatchInv' /\ ClientsPerLifetime'
  BY <1>1, <1>4, WatchStays DEF Select, SelectInterrupted, WritePipe, WriteFifo, Serving
<1>5. ASSUME NEW s \in Servers, NEW f \in DOMAIN opened[s], ReadMessage(s, f) \/ ReadEnd(s, f)
      PROVE  WatchInv' /\ ClientsPerLifetime'
  BY <1>1, <1>5, WatchStays DEF ReadMessage, ReadEnd, AtFd, Serving
<1>6. ASSUME NEW s \in Servers, Fatal(s) \/ FatalUnlinks(s) \/ FatalChat(s) \/ Killed(s)
      PROVE  WatchInv' /\ ClientsPerLifetime'
  BY <1>1, <1>6, WatchStays DEF Fatal, FatalUnlinks, FatalChat, Killed, Die
<1>7. ASSUME NEW s \in Servers, AcceptFails(s) \/ HandlerReturns(s) \/ ReceiverStep(s)
      PROVE  WatchInv' /\ ClientsPerLifetime'
  BY <1>1, <1>7, WatchStays DEF AcceptFails, HandlerReturns, ReceiverStep, ReceiverPrints, ReceiverExits
<1>8. ASSUME NEW s \in Servers, LoggerStep(s) PROVE WatchInv' /\ ClientsPerLifetime'
  BY <1>1, <1>8, WatchStays DEF LoggerStep, LoggerOpens, LoggerReads, LoggerExits
<1>9. ASSUME NEW c \in Clients, Connect(c) \/ Send(c) \/ HangUp(c)
      PROVE  WatchInv' /\ ClientsPerLifetime'
  BY <1>1, <1>9, WatchStays DEF Connect, Send, HangUp
<1>10. CASE UNCHANGED vars
  BY <1>10, WatchStays DEF vars
<1>11. ASSUME NEW s \in Servers, Bind(s) PROVE WatchInv' /\ ClientsPerLifetime'
  <2>1. /\ server[s] = "socket" /\ opened' = opened
        /\ \E label \in {"select", "fifo"} : server' = [server EXCEPT ![s] = label]
        /\ masterSet' = [masterSet EXCEPT ![s] = {0}]
    BY <1>11 DEF Bind, Listener
  <2>2. opened[s] = <<>> /\ 0..Len(<<>>) = {0}
    BY <2>1 DEF WatchInv, Early
  <2>3. WatchInv'
    BY <1>1, <2>1, <2>2 DEF WatchInv, Early, Serving
  <2>4. ClientsPerLifetime'
    BY <2>1 DEF ClientsPerLifetime
  <2> QED
    BY <2>3, <2>4
<1>12. ASSUME NEW s \in Servers, Accept(s) PROVE WatchInv' /\ ClientsPerLifetime'
  <2>1. PICK c \in Clients : opened' = [opened EXCEPT ![s] = Append(@, c)]
    BY <1>12 DEF Accept
  <2>2. /\ server[s] = "scan" /\ server' = server
        /\ Listener \in Pending(s) /\ ~Full(s)
        /\ masterSet' = [masterSet EXCEPT ![s] = @ \cup {Len(opened[s]) + 1}]
    BY <1>12 DEF Accept, AtFd
  <2>3. Len(opened[s]) \in Nat /\ opened'[s] = Append(opened[s], c)
        /\ Len(opened'[s]) = Len(opened[s]) + 1
    BY <1>1, <2>1
  <2>4. masterSet[s] = 0..Len(opened[s])
    BY <2>2 DEF WatchInv, Serving
  <2>5. masterSet'[s] = 0..Len(opened'[s])
    BY <1>1, <2>2, <2>3, <2>4
  <2>6. WatchInv'
    <3>1. \A t \in Servers \ {s} : opened'[t] = opened[t] /\ masterSet'[t] = masterSet[t]
      BY <1>1, <2>1, <2>2
    <3> QED
      BY <2>2, <2>5, <3>1 DEF WatchInv, Early, Serving
  <2>7. Cardinality(masterSet[s]) = Len(opened[s]) + 1
    BY <2>3, <2>4, FS_Interval
  <2>8. Len(opened'[s]) <= setup.fds
    BY <1>1, <2>2, <2>3, <2>7 DEF Full
  <2>9. setup.program # "chat"
    BY <2>2, <2>3 DEF Pending, LastScanned, Listener, ClientsPerLifetime
  <2>10. ClientsPerLifetime'
    BY <1>1, <2>1, <2>8, <2>9 DEF ClientsPerLifetime
  <2> QED
    BY <2>6, <2>10
<1> QED
  BY <1>2, <1>3, <1>4, <1>5, <1>6, <1>7, <1>8, <1>9, <1>10, <1>11, <1>12
     DEF Next, ServerStep
-----------------------------------------------------------------------------
Holding == {"pipe", "open", "write", "dead"}

(* Steps that move no message, and may at most let go of one.               *)
LEMMA MailStays ==
  ASSUME MailInv, setup' = setup, Servers' = Servers, UNCHANGED <<opened, pipe, printed>>,
         \A c \in Clients : conn[c] = "open" => conn'[c] = "open" /\ peer'[c] = peer[c],
         opened \in [Servers -> Seq(Clients)],
         \A s \in Servers :
           \/ hand'[s] = None
           \/ hand'[s] = hand[s] /\ (server[s] \in Holding => server'[s] \in Holding)
  PROVE  MailInv'
<1>1. \A s \in Servers : Accepted(s)' = Accepted(s) /\ Accepted(s) \subseteq Clients
  BY DEF Accepted
<1> QED
  BY <1>1 DEF MailInv, Holding

(* A message stays with the server that accepted its client.                *)
LEMMA MailStep == TypeInv /\ MailInv /\ [Next]_vars => MailInv'
<1> SUFFICES ASSUME TypeInv, MailInv, [Next]_vars PROVE MailInv'
  OBVIOUS
<1> USE SetupStays DEF Goto, loopVars, fifoVars, outVars, netVars, history
<1>1. /\ server \in [Servers -> Places] /\ opened \in [Servers -> Seq(Clients)]
      /\ hand \in [Servers -> Clients \cup {None}] /\ pipe \in [Servers -> SUBSET Clients]
      /\ conn \in [Clients -> {"off", "queued", "open"}]
      /\ peer \in [Clients -> Servers \cup {None}]
  BY DEF TypeInv
<1>2. ASSUME NEW s \in Servers, Start(s) \/ Mkfifo(s) \/ ForkReceiver(s) \/ ForkLogger(s) \/ Bind(s)
      PROVE  MailInv'
  BY <1>1, <1>2, MailStays DEF Start, Mkfifo, ForkReceiver, ForkLogger, Bind, Holding
<1>3. ASSUME NEW s \in Servers, OpenHeld(s) \/ ScanEnds(s) \/ OpenFifo(s) PROVE MailInv'
  BY <1>1, <1>3, MailStays DEF OpenHeld, ScanEnds, OpenFifo, Holding
<1>4. ASSUME NEW s \in Servers, Select(s) \/ SelectInterrupted(s) \/ AcceptFails(s) \/ HandlerReturns(s)
      PROVE  MailInv'
  BY <1>1, <1>4, MailStays DEF Select, SelectInterrupted, AcceptFails, HandlerReturns, Holding
<1>5. ASSUME NEW s \in Servers, OpenFifoFails(s) \/ WriteFifo(s) PROVE MailInv'
  BY <1>1, <1>5, MailStays DEF OpenFifoFails, WriteFifo
<1>6. ASSUME NEW s \in Servers, Fatal(s) \/ FatalUnlinks(s) \/ FatalChat(s) \/ Killed(s)
      PROVE  MailInv'
  BY <1>1, <1>6, MailStays DEF Fatal, FatalUnlinks, FatalChat, Killed, Die, Holding
<1>7. ASSUME NEW s \in Servers, NEW f \in DOMAIN opened[s], ReadEnd(s, f) PROVE MailInv'
  BY <1>1, <1>7, MailStays DEF ReadEnd, Holding
<1>8. ASSUME NEW s \in Servers, LoggerStep(s) \/ ReceiverExits(s) PROVE MailInv'
  BY <1>1, <1>8, MailStays DEF LoggerStep, LoggerOpens, LoggerReads, LoggerExits, ReceiverExits
<1>9. ASSUME NEW c \in Clients, Connect(c) \/ Send(c) \/ HangUp(c) PROVE MailInv'
  BY <1>1, <1>9, MailStays DEF Connect, Send, HangUp
<1>10. CASE UNCHANGED vars
  BY <1>1, <1>10, MailStays DEF vars
<1>11. ASSUME NEW s \in Servers, Accept(s) PROVE MailInv'
  <2>1. PICK c \in Clients : /\ peer[c] = s /\ conn' = [conn EXCEPT ![c] = "open"]
                             /\ opened' = [opened EXCEPT ![s] = Append(@, c)]
    BY <1>11 DEF Accept
  <2>2. UNCHANGED <<server, hand, pipe, printed, peer>>
    BY <1>11 DEF Accept
  <2>3. Accepted(s)' = Accepted(s) \cup {c}
    <3>1. DOMAIN Append(opened[s], c) = DOMAIN opened[s] \cup {Len(opened[s]) + 1}
      BY <1>1
    <3>2. /\ \A i \in DOMAIN opened[s] : Append(opened[s], c)[i] = opened[s][i]
          /\ Append(opened[s], c)[Len(opened[s]) + 1] = c
      BY <1>1
    <3>3. opened'[s] = Append(opened[s], c)
      BY <1>1, <2>1
    <3> QED
      BY <3>1, <3>2, <3>3 DEF Accepted
  <2>4. \A t \in Servers \ {s} : Accepted(t)' = Accepted(t)
    BY <1>1, <2>1 DEF Accepted
  <2>5. \A t \in Servers : Accepted(t) \subseteq Clients
    BY <1>1 DEF Accepted
  <2> QED
    <3>1. ASSUME NEW t \in Servers, NEW d \in Accepted(t)'
          PROVE  peer'[d] = t /\ conn'[d] = "open"
      <4>1. (d = c /\ t = s) \/ d \in Accepted(t)
        BY <2>3, <2>4, <3>1
      <4>2. d \in Clients /\ peer[d] = t /\ (d # c => conn[d] = "open")
        BY <2>1, <2>5, <4>1 DEF MailInv
      <4> QED
        BY <1>1, <2>1, <2>2, <4>2
    <3>2. \A t \in Servers : Accepted(t) \subseteq Accepted(t)'
      BY <2>3, <2>4
    <3> QED
      BY <2>2, <3>1, <3>2 DEF MailInv
<1>12. ASSUME NEW s \in Servers, NEW f \in DOMAIN opened[s], ReadMessage(s, f) PROVE MailInv'
  <2>1. /\ hand' = [hand EXCEPT ![s] = opened[s][f]] /\ server' = [server EXCEPT ![s] = "pipe"]
        /\ UNCHANGED <<opened, pipe, printed, conn, peer>>
    BY <1>12 DEF ReadMessage
  <2>2. opened[s][f] \in Accepted(s) /\ \A t \in Servers : Accepted(t)' = Accepted(t)
    BY <2>1 DEF Accepted
  <2> QED
    BY <1>1, <2>1, <2>2 DEF MailInv
<1>13. ASSUME NEW s \in Servers, WritePipe(s) PROVE MailInv'
  <2>1. /\ pipe' = [pipe EXCEPT ![s] = @ \cup {hand[s]}] /\ server' = [server EXCEPT ![s] = "open"]
        /\ UNCHANGED <<opened, hand, printed, conn, peer>> /\ server[s] = "pipe"
    BY <1>13 DEF WritePipe
  <2>2. hand[s] \in Accepted(s) /\ \A t \in Servers : Accepted(t)' = Accepted(t)
    BY <2>1 DEF Accepted, MailInv, TypeInv
  <2> QED
    BY <1>1, <2>1, <2>2 DEF MailInv
<1>14. ASSUME NEW s \in Servers, ReceiverPrints(s) PROVE MailInv'
  <2>1. /\ printed' = printed \cup pipe[s] /\ pipe' = [pipe EXCEPT ![s] = {}]
        /\ UNCHANGED <<opened, hand, server, conn, peer>>
    BY <1>14 DEF ReceiverPrints
  <2>2. \A t \in Servers : Accepted(t)' = Accepted(t)
    BY <2>1 DEF Accepted
  <2> QED
    BY <1>1, <2>1, <2>2 DEF MailInv
<1> QED
  BY <1>2, <1>3, <1>4, <1>5, <1>6, <1>7, <1>8, <1>9, <1>10, <1>11, <1>12, <1>13, <1>14
     DEF Next, ServerStep, ReceiverStep
-----------------------------------------------------------------------------
(* Steps of a server s that leave the name alone: it ends, comes closer to  *)
(* its loop, or goes on in it.                                              *)
LEMMA FifoStays ==
  ASSUME FifoInv, setup' = setup, Servers' = Servers, UNCHANGED <<path, overlapped>>,
         NEW s \in Servers,
         \A t \in Servers \ {s} :
           server'[t] = server[t] /\ held'[t] = held[t] /\ brief'[t] = brief[t],
         \/ server'[s] = server[s] /\ held'[s] = held[s] /\ brief'[s] = brief[s]
         \/ server'[s] = "dead" /\ held'[s] = None /\ brief'[s] = None
         \/ /\ server[s] \in Made \ Serving /\ server'[s] \in Made \ {"write"}
            /\ server'[s] \in Serving => setup.program = "chat" \/ held'[s] = path
            /\ server'[s] \notin Serving => held'[s] = held[s]
            /\ brief'[s] = brief[s]
         \/ /\ server[s] \in Serving /\ server'[s] \in Serving
            /\ held'[s] = held[s]
            /\ IF server'[s] = "write" THEN brief'[s] = path ELSE brief'[s] = None
  PROVE  FifoInv'
<1> USE DEF FifoInv
<1>1. \A t \in Servers : /\ server'[t] \notin Serving => held'[t] = None
                         /\ server'[t] # "write" => brief'[t] = None
  BY DEF Made, Serving
<1>2. ASSUME ~overlapped, setup.program # "chat"
      PROVE  /\ \A t, u \in Servers : Running(t)' /\ Running(u)' => t = u
             /\ \A t \in Servers :
                  /\ server'[t] = "mkfifo" => path = None
                  /\ server'[t] \in Made => path = t
                  /\ server'[t] \in Serving => held'[t] = t
                  /\ server'[t] = "write" => brief'[t] = t
  BY <1>2 DEF Made, Serving, Running
<1> QED
  BY <1>1, <1>2

(* A server that runs alone holds the FIFO the name leads to.               *)
LEMMA FifoStep == TypeInv /\ FifoInv /\ [Next]_vars => FifoInv'
<1> SUFFICES ASSUME TypeInv, FifoInv, [Next]_vars PROVE FifoInv'
  OBVIOUS
<1> USE SetupStays DEF Goto, loopVars, fifoVars, outVars, netVars, history
<1>1. /\ server \in [Servers -> Places] /\ held \in [Servers -> Servers \cup {None}]
      /\ brief \in [Servers -> Servers \cup {None}]
  BY DEF TypeInv
<1>2. ASSUME NEW s \in Servers, ForkReceiver(s) \/ ForkLogger(s) \/ Bind(s) PROVE FifoInv'
  BY <1>1, <1>2, FifoStays DEF ForkReceiver, ForkLogger, Bind, Made, Serving
<1>3. ASSUME NEW s \in Servers, OpenHeld(s) PROVE FifoInv'
  BY <1>1, <1>3, FifoStays DEF OpenHeld, Made, Serving
<1>4. ASSUME NEW s \in Servers, Fatal(s) \/ FatalChat(s) \/ Killed(s) PROVE FifoInv'
  BY <1>1, <1>4, FifoStays DEF Fatal, FatalChat, Killed, Die
<1>5. ASSUME NEW s \in Servers, Select(s) \/ SelectInterrupted(s) \/ ScanEnds(s) \/ WritePipe(s)
      PROVE  FifoInv'
  BY <1>1, <1>5, FifoStays DEF Select, SelectInterrupted, ScanEnds, WritePipe, Serving, FifoInv
<1>6. ASSUME NEW s \in Servers, NEW f \in DOMAIN opened[s], ReadMessage(s, f) \/ ReadEnd(s, f)
      PROVE  FifoInv'
  BY <1>1, <1>6, FifoStays DEF ReadMessage, ReadEnd, AtFd, Serving, FifoInv
<1>7. ASSUME NEW s \in Servers, OpenFifo(s) \/ OpenFifoFails(s) \/ WriteFifo(s) PROVE FifoInv'
  BY <1>1, <1>7, FifoStays DEF OpenFifo, OpenFifoFails, WriteFifo, Serving, FifoInv
<1>8. ASSUME NEW s \in Servers,
             Accept(s) \/ AcceptFails(s) \/ HandlerReturns(s) \/ ReceiverStep(s) \/ LoggerStep(s)
      PROVE  FifoInv'
  BY <1>1, <1>8, FifoStays
     DEF Accept, AcceptFails, HandlerReturns, ReceiverStep, ReceiverPrints, ReceiverExits,
         LoggerStep, LoggerOpens, LoggerReads, LoggerExits
<1>9. ASSUME NEW c \in Clients, Connect(c) \/ Send(c) \/ HangUp(c) PROVE FifoInv'
  <2>1. UNCHANGED <<server, path, held, brief, overlapped>>
    BY <1>9 DEF Connect, Send, HangUp
  <2> QED
    BY <2>1 DEF FifoInv, Running
<1>10. CASE UNCHANGED vars
  BY <1>10 DEF vars, FifoInv, Running
<1>11. ASSUME NEW s \in Servers, Start(s) PROVE FifoInv'
  <2>1. /\ server[s] = "off" /\ \E to \in {"socket", "mkfifo"} : server' = [server EXCEPT ![s] = to]
        /\ overlapped' = (overlapped \/ \E t \in Servers : Running(t))
        /\ setup.program # "chat" => path' = None /\ server'[s] = "mkfifo"
        /\ UNCHANGED <<held, brief>>
    BY <1>1, <1>11 DEF Start
  <2>2. \A t \in Servers : /\ server'[t] \notin Serving => held'[t] = None
                           /\ server'[t] # "write" => brief'[t] = None
    BY <1>1, <2>1 DEF FifoInv, Serving
  <2>3. ASSUME ~overlapped', setup.program # "chat", NEW t \in Servers \ {s}
        PROVE  server'[t] \in {"off", "dead"}
    BY <1>1, <2>1, <2>3 DEF Running
  <2> QED
    BY <1>1, <2>1, <2>2, <2>3 DEF FifoInv, Made, Serving, Running
<1>12. ASSUME NEW s \in Servers, Mkfifo(s) PROVE FifoInv'
  <2>1. /\ server[s] = "mkfifo" /\ server' = [server EXCEPT ![s] = "receiver"]
        /\ path' = (IF path = None THEN s ELSE path) /\ UNCHANGED <<held, brief, overlapped>>
    BY <1>12 DEF Mkfifo
  <2> QED
    BY <1>1, <2>1 DEF FifoInv, Made, Serving, Running
<1>13. ASSUME NEW s \in Servers, FatalUnlinks(s) PROVE FifoInv'
  <2>1. /\ Running(s) /\ server' = [server EXCEPT ![s] = "dead"]
        /\ held' = [held EXCEPT ![s] = None] /\ brief' = [brief EXCEPT ![s] = None]
        /\ UNCHANGED overlapped
    BY <1>13 DEF FatalUnlinks, Die, Running
  <2> QED
    BY <1>1, <2>1 DEF FifoInv, Made, Serving, Running
<1> QED
  BY <1>2, <1>3, <1>4, <1>5, <1>6, <1>7, <1>8, <1>9, <1>10, <1>11, <1>12, <1>13
     DEF Next, ServerStep
-----------------------------------------------------------------------------
(* Steps that leave the loggers alone: a server ends, comes closer to its   *)
(* loop, or goes on in it.                                                  *)
LEMMA LoggerStays ==
  ASSUME LoggerInv, setup' = setup, Servers' = Servers, UNCHANGED <<logger, source>>,
         overlapped => overlapped',
         \A s \in Servers :
           \/ server'[s] = server[s] \/ server'[s] = "dead"
           \/ /\ server[s] = "off" /\ server'[s] \in {"mkfifo", "socket"}
              /\ setup.program # "chat" => server'[s] = "mkfifo"
           \/ server[s] \in {"mkfifo", "receiver"} /\ server'[s] \in {"receiver", "logger"}
           \/ server[s] \in {"socket", "fifo"} /\ server'[s] \in {"fifo"} \cup Serving
           \/ server[s] \in Serving /\ server'[s] \in Serving
  PROVE  LoggerInv'
<1> SUFFICES ASSUME ~overlapped', setup.program # "chat", NEW s \in Servers
             PROVE  /\ server'[s] \in {"off", "mkfifo", "receiver", "logger"} => logger[s] = "none"
                    /\ server'[s] \in {"socket", "fifo"} => logger[s] \in {"forked", "opening"}
                    /\ server'[s] \in Serving => logger[s] \in {"forked", "opening", "reading"}
                    /\ Running(s)' /\ logger[s] \in {"opening", "reading"} => source[s] = s
  BY DEF LoggerInv
<1> QED
  BY DEF LoggerInv, Serving, Running

(* Its logger reads that FIFO and finds a writer.                           *)
LEMMA LoggersStep == TypeInv /\ FifoInv /\ LoggerInv /\ [Next]_vars => LoggerInv'
<1> SUFFICES ASSUME TypeInv, FifoInv, LoggerInv, [Next]_vars PROVE LoggerInv'
  OBVIOUS
<1> USE SetupStays, SetupFacts DEF Goto, loopVars, fifoVars, outVars, netVars, history
<1>1. /\ server \in [Servers -> Places] /\ logger \in [Servers -> LoggerPlaces]
      /\ source \in [Servers -> Servers \cup {None}] /\ setup \in Setups
  BY DEF TypeInv
<1>2. ASSUME NEW s \in Servers, Start(s) \/ Mkfifo(s) \/ ForkReceiver(s) \/ Bind(s) PROVE LoggerInv'
  <2>1. CASE Start(s)
    BY <1>1, <2>1, LoggerStays DEF Start
  <2>2. CASE Mkfifo(s) \/ ForkReceiver(s)
    BY <1>1, <2>2, LoggerStays DEF Mkfifo, ForkReceiver
  <2>3. CASE Bind(s)
    BY <1>1, <2>3, LoggerStays DEF Bind, Serving
  <2> QED
    BY <1>2, <2>1, <2>2, <2>3
<1>3. ASSUME NEW s \in Servers, Fatal(s) \/ FatalUnlinks(s) \/ FatalChat(s) \/ Killed(s)
      PROVE  LoggerInv'
  BY <1>1, <1>3, LoggerStays DEF Fatal, FatalUnlinks, FatalChat, Killed, Die
<1>4. ASSUME NEW s \in Servers, Select(s) \/ SelectInterrupted(s) \/ ScanEnds(s) \/ WritePipe(s)
      PROVE  LoggerInv'
  BY <1>1, <1>4, LoggerStays DEF Select, SelectInterrupted, ScanEnds, WritePipe, Serving
<1>5. ASSUME NEW s \in Servers, NEW f \in DOMAIN opened[s], ReadMessage(s, f) \/ ReadEnd(s, f)
      PROVE  LoggerInv'
  <2>1. /\ server[s] = "scan" /\ \E to \in {"pipe", "open"} : server' = [server EXCEPT ![s] = to]
        /\ UNCHANGED <<logger, source, overlapped>>
    BY <1>5 DEF ReadMessage, ReadEnd, AtFd
  <2> QED
    BY <1>1, <2>1, LoggerStays DEF Serving
<1>6. ASSUME NEW s \in Servers, OpenFifoFails(s) \/ WriteFifo(s) PROVE LoggerInv'
  BY <1>1, <1>6, LoggerStays DEF OpenFifoFails, WriteFifo, Serving
<1>7. ASSUME NEW s \in Servers,
             Accept(s) \/ AcceptFails(s) \/ HandlerReturns(s) \/ ReceiverStep(s) \/ LoggerReads(s)
      PROVE  LoggerInv'
  BY <1>1, <1>7, LoggerStays
     DEF Accept, AcceptFails, HandlerReturns, ReceiverStep, ReceiverPrints, ReceiverExits, LoggerReads
<1>8. ASSUME NEW c \in Clients, Connect(c) \/ Send(c) \/ HangUp(c) PROVE LoggerInv'
  BY <1>1, <1>8, LoggerStays DEF Connect, Send, HangUp
<1>9. CASE UNCHANGED vars
  BY <1>1, <1>9, LoggerStays DEF vars
<1>10. ASSUME NEW s \in Servers, ForkLogger(s) PROVE LoggerInv'
  <2>1. /\ server' = [server EXCEPT ![s] = "socket"] /\ logger' = [logger EXCEPT ![s] = "forked"]
        /\ UNCHANGED <<source, overlapped>>
    BY <1>10 DEF ForkLogger
  <2> QED
    BY <1>1, <2>1 DEF LoggerInv, Serving, Running
<1>11. ASSUME NEW s \in Servers, OpenHeld(s) \/ OpenFifo(s) PROVE LoggerInv'
  <2>1. /\ server[s] \in Made \ {"socket"}
        /\ \E to \in Serving : server' = [server EXCEPT ![s] = to]
        /\ server[s] \in {"fifo", "open"}
        /\ UNCHANGED <<source, path, overlapped>>
        /\ WakeReaders(path)
    BY <1>11 DEF OpenHeld, OpenFifo, Made, Serving
  <2>2. \A t \in Servers : \/ logger'[t] = logger[t]
                           \/ logger[t] = "opening" /\ source[t] = path /\ logger'[t] = "reading"
    BY <1>1, <2>1 DEF WakeReaders
  <2> SUFFICES ASSUME ~overlapped, setup.program # "chat", NEW t \in Servers
               PROVE  /\ server'[t] \in {"off", "mkfifo", "receiver", "logger"} => logger'[t] = "none"
                      /\ server'[t] \in {"socket", "fifo"} => logger'[t] \in {"forked", "opening"}
                      /\ server'[t] \in Serving => logger'[t] \in {"forked", "opening", "reading"}
                      /\ Running(t)' /\ logger'[t] \in {"opening", "reading"} => source[t] = t
    BY <2>1 DEF LoggerInv
  <2>3. CASE t = s
    BY <1>1, <2>1, <2>2, <2>3 DEF LoggerInv, Serving, Running
  <2>4. CASE t # s
    <3>1. server'[t] = server[t] /\ server[t] \in {"off", "dead"}
      BY <1>1, <2>1, <2>4 DEF FifoInv, Running
    <3> QED
      BY <2>2, <3>1 DEF LoggerInv, Serving, Running
  <2> QED
    BY <2>3, <2>4
<1>12. ASSUME NEW s \in Servers, LoggerOpens(s) PROVE LoggerInv'
  <2>1. /\ logger[s] = "forked" /\ source' = [source EXCEPT ![s] = path]
        /\ logger' = [logger EXCEPT ![s] = IF path = None THEN "spins" ELSE Opens(path)]
        /\ UNCHANGED <<server, overlapped>>
    BY <1>12 DEF LoggerOpens
  <2>2. ASSUME ~overlapped, setup.program # "chat", Running(s)
        PROVE  /\ server[s] \in {"socket", "fifo"} \cup Serving /\ path = s
               /\ server[s] \in {"socket", "fifo"} => Opens(path) = "opening"
    <3>1. server[s] \in {"socket", "fifo"} \cup Serving
      BY <1>1, <2>1, <2>2 DEF LoggerInv, Places, Early, Running
    <3>2. path = s
      BY <2>2, <3>1 DEF FifoInv, Made
    <3>3. ASSUME server[s] \in {"socket", "fifo"}, NEW t \in Servers
          PROVE  held[t] # s /\ brief[t] # s
      BY <1>1, <2>2, <3>3 DEF FifoInv, Running, Serving
    <3> QED
      BY <3>1, <3>2, <3>3 DEF Opens, Writers
  <2>3. Opens(path) \in {"opening", "reading"}
    BY DEF Opens
  <2>4. ASSUME ~overlapped, setup.program # "chat"
        PROVE  /\ server[s] \in {"off", "mkfifo", "receiver", "logger"} => logger'[s] = "none"
               /\ server[s] \in {"socket", "fifo"} => logger'[s] \in {"forked", "opening"}
               /\ server[s] \in Serving => logger'[s] \in {"forked", "opening", "reading"}
               /\ Running(s) => source'[s] = s
    <3>1. server[s] \notin {"off", "mkfifo", "receiver", "logger"}
      BY <2>1, <2>4 DEF LoggerInv
    <3> QED
      BY <1>1, <2>1, <2>2, <2>3, <2>4, <3>1 DEF Running, Serving
  <2> QED
    BY <1>1, <2>1, <2>4 DEF LoggerInv, Running
<1>13. ASSUME NEW s \in Servers, LoggerExits(s) PROVE LoggerInv'
  <2>1. /\ logger[s] = "reading" /\ Writers(source[s]) = {}
        /\ logger' = [logger EXCEPT ![s] = "exited"] /\ source' = [source EXCEPT ![s] = None]
        /\ UNCHANGED <<server, overlapped>>
    BY <1>13 DEF LoggerExits
  <2>2. held[s] # source[s]
    BY <2>1 DEF Writers
  <2>3. ASSUME ~overlapped, setup.program # "chat" PROVE server[s] = "dead"
    <3>1. server[s] \notin Early
      BY <2>1, <2>3 DEF LoggerInv, Early
    <3>2. ASSUME server[s] \in Serving PROVE FALSE
      BY <2>1, <2>2, <2>3, <3>2 DEF LoggerInv, FifoInv, Running, Serving
    <3> QED
      BY <1>1, <3>1, <3>2 DEF Places
  <2> QED
    BY <1>1, <2>1, <2>3 DEF LoggerInv, Running, Serving
<1> QED
  BY <1>2, <1>3, <1>4, <1>5, <1>6, <1>7, <1>8, <1>9, <1>10, <1>11, <1>12, <1>13
     DEF Next, ServerStep, LoggerStep
-----------------------------------------------------------------------------
(* Steps that move no message of a server in its loop.                      *)
LEMMA LogStays ==
  ASSUME LogInv, setup' = setup, Servers' = Servers, Clients' = Clients,
         overlapped => overlapped',
         ~overlapped' /\ setup.program # "chat" =>
           \A s \in Servers : server'[s] \in Serving =>
             /\ server[s] \in Serving /\ hand'[s] = hand[s]
             /\ printed' \cup pipe'[s] \subseteq printed \cup pipe[s]
             /\ log \cup fifo[s] \subseteq log' \cup fifo'[s]
             /\ dropped \subseteq dropped'
             /\ \A c \in Clients : peer'[c] = s /\ c \in printed \cup pipe[s] => peer[c] = s
  PROVE  LogInv'
<1> SUFFICES ASSUME ~overlapped', setup.program # "chat",
                    NEW s \in Servers, server'[s] \in Serving,
                    NEW c \in Clients, peer'[c] = s, c \in printed' \cup pipe'[s]
             PROVE  c \in log' \cup fifo'[s] \cup {hand'[s]} \cup dropped'
  BY DEF LogInv
<1>1. c \in printed \cup pipe[s] /\ peer[c] = s /\ server[s] \in Serving
  OBVIOUS
<1>2. c \in log \cup fifo[s] \cup {hand[s]} \cup dropped
  BY <1>1 DEF LogInv
<1> QED
  BY <1>2

(* A client whose message was passed on is one its server accepted.         *)
LEMMA PassedOn ==
  ASSUME MailInv, NEW s \in Servers, NEW c, peer[c] = s, c \in printed \cup pipe[s]
  PROVE  c \in Accepted(s) /\ conn[c] = "open"
BY DEF MailInv

(* What was passed on is logged, in the FIFO, in hand or dropped.           *)
LEMMA LogStep ==
  TypeInv /\ WatchInv /\ MailInv /\ FifoInv /\ LoggerInv /\ LogInv /\ [Next]_vars => LogInv'
<1> SUFFICES ASSUME TypeInv, WatchInv, MailInv, FifoInv, LoggerInv, LogInv, [Next]_vars
             PROVE  LogInv'
  OBVIOUS
<1> USE SetupStays, SetupFacts DEF Goto, loopVars, fifoVars, outVars, netVars, history
<1>1. /\ server \in [Servers -> Places] /\ hand \in [Servers -> Clients \cup {None}]
      /\ pipe \in [Servers -> SUBSET Clients] /\ fifo \in [Servers -> SUBSET Clients]
      /\ conn \in [Clients -> {"off", "queued", "open"}] /\ setup \in Setups
      /\ peer \in [Clients -> Servers \cup {None}]
      /\ source \in [Servers -> Servers \cup {None}]
  BY DEF TypeInv
<1>2. ASSUME ~overlapped, setup.program # "chat", NEW s \in Servers, Running(s),
             NEW t \in Servers, server[t] \in Serving
      PROVE  t = s
  BY <1>2 DEF FifoInv, Running, Serving
<1>3. ASSUME NEW s \in Servers, Start(s) \/ Mkfifo(s) \/ ForkReceiver(s) \/ ForkLogger(s) \/ Bind(s)
      PROVE  LogInv'
  <2>1. /\ setup.program # "chat" => \E to \in Early : server' = [server EXCEPT ![s] = to]
        /\ UNCHANGED <<hand, pipe, printed, log, fifo, peer, dropped>>
        /\ overlapped => overlapped'
    <3>1. CASE Start(s)
      BY <3>1 DEF Start, Early, TypeInv
    <3>2. CASE Mkfifo(s) \/ ForkReceiver(s) \/ ForkLogger(s) \/ Bind(s)
      BY <3>2 DEF Mkfifo, ForkReceiver, ForkLogger, Bind, Early
    <3> QED
      BY <1>3, <3>1, <3>2
  <2>2. ASSUME setup.program # "chat", NEW t \in Servers, server'[t] \in Serving
        PROVE  server[t] \in Serving
    BY <1>1, <2>1, <2>2 DEF Early, Serving
  <2> QED
    BY <2>1, <2>2, LogStays
<1>4. ASSUME NEW s \in Servers, Fatal(s) \/ FatalUnlinks(s) \/ FatalChat(s) \/ Killed(s) PROVE LogInv'
  <2>1. /\ Running(s) /\ server' = [server EXCEPT ![s] = "dead"]
        /\ UNCHANGED <<hand, pipe, printed, log, peer, dropped, overlapped>>
    BY <1>4 DEF Fatal, FatalUnlinks, FatalChat, Killed, Die, Running, Serving
  <2>2. ASSUME ~overlapped, setup.program # "chat", NEW t \in Servers PROVE server'[t] \notin Serving
    BY <1>1, <1>2, <2>1, <2>2 DEF Serving
  <2> QED
    BY <2>1, <2>2 DEF LogInv
<1>5. ASSUME NEW s \in Servers, Select(s) \/ SelectInterrupted(s) \/ ScanEnds(s) \/ OpenFifo(s)
      PROVE  LogInv'
  BY <1>1, <1>5, LogStays DEF Select, SelectInterrupted, ScanEnds, OpenFifo, Serving
<1>6. ASSUME NEW s \in Servers, NEW f \in DOMAIN opened[s], ReadEnd(s, f) PROVE LogInv'
  BY <1>1, <1>6, LogStays DEF ReadEnd, AtFd, Serving
<1>7. ASSUME NEW s \in Servers,
             Accept(s) \/ AcceptFails(s) \/ HandlerReturns(s) \/ ReceiverExits(s)
      PROVE  LogInv'
  BY <1>1, <1>7, LogStays DEF Accept, AcceptFails, HandlerReturns, ReceiverExits
<1>8. ASSUME NEW s \in Servers, LoggerStep(s) PROVE LogInv'
  <2>1. UNCHANGED <<server, hand, printed, pipe, dropped, peer, overlapped>>
    BY <1>8 DEF LoggerStep, LoggerOpens, LoggerReads, LoggerExits
  <2>2. \A t \in Servers : log \cup fifo[t] \subseteq log' \cup fifo'[t]
    BY <1>1, <1>8 DEF LoggerStep, LoggerOpens, LoggerReads, LoggerExits
  <2> QED
    BY <2>1, <2>2, LogStays
<1>9. ASSUME NEW c \in Clients, Send(c) \/ HangUp(c) PROVE LogInv'
  BY <1>1, <1>9, LogStays DEF Send, HangUp
<1>10. CASE UNCHANGED vars
  BY <1>10, LogStays DEF vars
<1>11. ASSUME NEW c \in Clients, Connect(c) PROVE LogInv'
  <2>1. /\ conn[c] = "off" /\ \E t \in Servers : peer' = [peer EXCEPT ![c] = t]
        /\ UNCHANGED <<server, hand, printed, pipe, log, fifo, dropped, overlapped>>
    BY <1>11 DEF Connect
  <2> SUFFICES ASSUME ~overlapped, setup.program # "chat",
                      NEW t \in Servers, server[t] \in Serving,
                      NEW d \in Clients, peer'[d] = t, d \in printed \cup pipe[t]
               PROVE  d \in log \cup fifo[t] \cup {hand[t]} \cup dropped
    BY <2>1 DEF LogInv
  <2>2. \E u \in Servers : d \in Accepted(u)
    BY DEF MailInv
  <2>3. d # c
    BY <2>1, <2>2 DEF MailInv
  <2> QED
    BY <1>1, <2>1, <2>3 DEF LogInv
<1>12. ASSUME NEW s \in Servers, OpenHeld(s) PROVE LogInv'
  <2>1. /\ server[s] = "fifo" /\ server' = [server EXCEPT ![s] = "select"]
        /\ UNCHANGED <<hand, printed, pipe, log, fifo, peer, dropped, overlapped>>
    BY <1>12 DEF OpenHeld
  <2>2. Accepted(s) = {}
    BY <2>1 DEF WatchInv, Early, Accepted
  <2>3. \A c \in Clients : ~(peer[c] = s /\ c \in printed \cup pipe[s])
    BY <2>2, PassedOn
  <2> QED
    BY <1>1, <2>1, <2>3 DEF LogInv
<1>13. ASSUME NEW s \in Servers, NEW f \in DOMAIN opened[s], ReadMessage(s, f) PROVE LogInv'
  <2>1. /\ server[s] = "scan" /\ server' = [server EXCEPT ![s] = "pipe"]
        /\ UNCHANGED <<printed, pipe, log, fifo, peer, dropped, overlapped>>
        /\ hand' = [hand EXCEPT ![s] = opened[s][f]]
    BY <1>13 DEF ReadMessage, AtFd
  <2>2. hand[s] = None
    BY <2>1 DEF MailInv
  <2> QED
    BY <1>1, <2>1, <2>2 DEF LogInv, Serving
<1>14. ASSUME NEW s \in Servers, WritePipe(s) PROVE LogInv'
  <2>1. /\ server[s] = "pipe" /\ server' = [server EXCEPT ![s] = "open"]
        /\ UNCHANGED <<printed, hand, log, fifo, peer, dropped, overlapped>>
        /\ pipe' = [pipe EXCEPT ![s] = @ \cup {hand[s]}]
    BY <1>14 DEF WritePipe
  <2> QED
    BY <1>1, <2>1 DEF LogInv, Serving
<1>15. ASSUME NEW s \in Servers, OpenFifoFails(s) PROVE LogInv'
  <2>1. /\ server[s] = "open" /\ server' = [server EXCEPT ![s] = "scan"]
        /\ path = None \/ Full(s)
        /\ dropped' = IF Full(s) THEN dropped \cup ({hand[s]} \ {None}) ELSE dropped
        /\ UNCHANGED <<printed, pipe, log, fifo, peer, overlapped>>
        /\ hand' = [hand EXCEPT ![s] = None]
    BY <1>15 DEF OpenFifoFails
  <2>2. ASSUME ~overlapped, setup.program # "chat" PROVE hand[s] \in dropped' \cup {None}
    <3>1. path = s
      BY <2>1, <2>2 DEF FifoInv, Made, Serving
    <3> QED
      BY <1>1, <2>1, <3>1
  <2>3. dropped \subseteq dropped'
    BY <2>1
  <2> QED
    BY <1>1, <2>1, <2>2, <2>3 DEF LogInv, Serving
<1>16. ASSUME NEW s \in Servers, WriteFifo(s) PROVE LogInv'
  <2> DEFINE fits == Cardinality(fifo[brief[s]]) < FifoCap
             new == {hand[s]} \ {None}
  <2>1. /\ server[s] = "write" /\ server' = [server EXCEPT ![s] = "scan"] /\ held' = held
        /\ fifo' = [n \in Servers |-> IF Users(n)' = {} THEN {}
                                     ELSE IF n = brief[s] /\ fits THEN fifo[n] \cup new
                                     ELSE fifo[n]]
        /\ dropped' = IF fits THEN dropped ELSE dropped \cup new
        /\ UNCHANGED <<printed, pipe, log, peer, overlapped>>
        /\ hand' = [hand EXCEPT ![s] = None]
    BY <1>16 DEF WriteFifo
  <2> HIDE DEF fits
  <2>2. ASSUME ~overlapped, setup.program # "chat"
        PROVE  fifo[s] \cup new \subseteq fifo'[s] \cup dropped'
    <3>1. brief[s] = s /\ held[s] = s
      BY <2>1, <2>2 DEF FifoInv, Serving
    <3>2. s \in Users(s)'
      BY <2>1, <3>1 DEF Users, Writers
    <3> QED
      BY <1>1, <2>1, <3>1, <3>2
  <2>3. dropped \subseteq dropped'
    BY <2>1
  <2> SUFFICES ASSUME ~overlapped, setup.program # "chat",
                      NEW t \in Servers, server'[t] \in Serving,
                      NEW c \in Clients, peer[c] = t, c \in printed \cup pipe[t]
               PROVE  c \in log \cup fifo'[t] \cup {hand'[t]} \cup dropped'
    BY <2>1 DEF LogInv
  <2>4. t = s
    BY <1>1, <1>2, <2>1 DEF Running, Serving
  <2>5. c \in log \cup fifo[s] \cup {hand[s]} \cup dropped
    BY <2>1, <2>4 DEF LogInv, Serving
  <2> QED
    BY <1>1, <2>2, <2>3, <2>4, <2>5
<1>17. ASSUME NEW s \in Servers, ReceiverPrints(s) PROVE LogInv'
  <2>1. /\ printed' = printed \cup pipe[s] /\ pipe' = [pipe EXCEPT ![s] = {}]
        /\ UNCHANGED <<server, hand, log, fifo, peer, dropped, overlapped>>
    BY <1>17 DEF ReceiverPrints
  <2>2. ASSUME NEW t \in Servers, NEW c \in Clients, peer[c] = t, c \in printed' \cup pipe'[t]
        PROVE  c \in printed \cup pipe[t]
    BY <1>1, <2>1, <2>2 DEF MailInv
  <2> QED
    BY <2>1, <2>2 DEF LogInv
<1> QED
  BY <1>3, <1>4, <1>5, <1>6, <1>7, <1>8, <1>9, <1>10, <1>11, <1>12, <1>13, <1>14, <1>15,
     <1>16, <1>17
     DEF Next, ServerStep, ReceiverStep
-----------------------------------------------------------------------------
(* The invariant holds in every reachable state.                            *)
LEMMA Invariance == Spec => []IInv
<1>1. IInv /\ [Next]_vars => IInv'
  BY TypeStep, WatchStep, MailStep, FifoStep, LoggersStep, LogStep, RestStep, ReceiverStepInv
  DEF IInv
<1> QED
  BY <1>1, InitIInv, PTL DEF Spec

(* accept() in the loops of the three servers: none of them accepts more    *)
(* clients in its whole life than it has descriptors, and chat.c none, for  *)
(* masterSet only grows and is what the scan's bound is compared with.      *)
THEOREM ClientsBounded == Spec => []ClientsPerLifetime
BY Invariance, PTL DEF IInv

(* unlink, mkfifo and the two opens of the FIFO: a relay that was started   *)
(* while no other ran reaches its logger through the name, whatever those   *)
(* before it left behind, and loses no message that it can name.            *)
THEOREM AloneLogs == Spec => []LogsUnlessOverlapped
<1>1. IInv => LogsUnlessOverlapped
  <2> SUFFICES ASSUME IInv, ~overlapped, setup.program # "chat",
                      NEW s \in Servers, server[s] \in Serving
               PROVE  /\ logger[s] \notin {"spins", "exited"} /\ held[s] = path
                      /\ \A c \in Clients :
                           peer[c] = s /\ c \in printed \cup pipe[s] =>
                             c \in log \cup fifo[path] \cup {hand[s]} \cup dropped
    BY DEF LogsUnlessOverlapped
  <2>1. logger[s] \notin {"spins", "exited"}
    BY DEF IInv, LoggerInv
  <2>2. held[s] = s /\ path = s
    BY DEF IInv, FifoInv, Made
  <2> QED
    BY <2>1, <2>2 DEF IInv, LogInv
<1> QED
  BY <1>1, Invariance, PTL

(* Every variable keeps its type.                                           *)
THEOREM TypeCorrect == Spec => []TypeOK
<1>1. ASSUME IInv PROVE TypeOK
  <2>1. /\ server \in [Servers -> {"off", "mkfifo", "receiver", "logger", "socket", "fifo", "dead"}
                                  \cup Serving]
        /\ logger \in [Servers -> {"none", "forked", "opening", "reading", "spins", "exited"}]
    BY <1>1 DEF IInv, TypeInv, Places, Early, Serving, LoggerPlaces
  <2>2. printed \cup log \cup hungUp \cup dropped \subseteq Clients
    BY <1>1 DEF IInv, TypeInv, RestInv
  <2>3. \A f \in {held, brief, source} : f \in [Servers -> Servers \cup {None}]
    BY <1>1 DEF IInv, TypeInv
  <2>4. /\ setup \in Setups /\ opened \in [Servers -> Seq(Clients)]
        /\ masterSet \in [Servers -> SUBSET Nat] /\ readSet \in [Servers -> SUBSET Nat]
        /\ hand \in [Servers -> Clients \cup {None}]
        /\ receiver \in [Servers -> {"none", "running", "exited"}]
        /\ path \in Servers \cup {None}
        /\ fifo \in [Servers -> SUBSET Clients] /\ pipe \in [Servers -> SUBSET Clients]
    BY <1>1 DEF IInv, TypeInv, RestInv
  <2>5. /\ conn \in [Clients -> {"off", "queued", "open"}]
        /\ peer \in [Clients -> Servers \cup {None}] /\ overlapped \in BOOLEAN
        /\ chld \subseteq Servers
    BY <1>1 DEF IInv, TypeInv, RestInv
  <2>6. mail \in [Clients -> {"unsent", "unread", "read"}]
    BY <1>1 DEF IInv, TypeInv, RestInv
  <2> QED
    BY <2>1, <2>2, <2>3, <2>4, <2>5, <2>6, Zenon DEF TypeOK
<1> QED
  BY <1>1, Invariance, PTL

(* The safety part of ChildrenFollow: a receiver ends only after its server *)
(* and its logger, which holds the pipe's write end, and has then printed   *)
(* all they relayed.                                                        *)
THEOREM ReceiversEndLast == Spec => []ReceiverInv
BY Invariance, PTL DEF IInv
=============================================================================
