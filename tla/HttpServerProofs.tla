-------------------------- MODULE HttpServerProofs --------------------------
(***************************************************************************)
(* http-server/: the processes, for any number of connections, any amount  *)
(* of output of a command and any capacity of its pipe; what a child       *)
(* answers, for any request, cut into chunks of any size, and any changes  *)
(* of the file system; the port the server listens on, for any argument.   *)
(* The three models share no name.                                         *)
(***************************************************************************)
EXTENDS HttpServer, HttpConnection, HttpStartup, SequenceTheorems, WellFoundedInduction, TLAPS

(* ---- The processes (HttpServer). --------------------------------------- *)

(* The server's Socket and its place in the loop go together, and a         *)
(* connection not yet accepted is open nowhere.                             *)
SocketInv ==
  /\ clientSocket # NoConn <=> server \in {"fork", "destroy"}
  /\ NoDescriptorLeak

(* A connection has no child before it is accepted and forked for.          *)
ForkInv ==
  /\ \A c \in Conns : conn[c] # "accepted" => child[c] = "none"
  /\ server = "fork" => child[clientSocket] = "none" /\ conn[clientSocket] = "accepted"

(* The stages of a command, by those of the child that runs it.             *)
CommandInv ==
  \A c \in Conns :
    /\ child[c] \in {"none", "read", "execute"}
         => command[c] = "none" /\ pipe[c] = 0 /\ body[c] = 0
    /\ child[c] \in {"collect", "wait"} => command[c] # "none"
    /\ command[c] \in {"closed", "zombie", "reaped"} => output[c] = 0
    /\ child[c] = "wait" => pipe[c] = 0 /\ command[c] # "running"

(* What the command has still to write, what is in the pipe and what was    *)
(* read from it are no more than it writes.                                 *)
FlowInv == \A c \in Conns : output[c] + pipe[c] + body[c] <= OutputMax

IInv ==
  TypeOK /\ SocketInv /\ ForkInv /\ NoStrandedZombie /\ CommandInv /\ FlowInv

(* The server starts with no connection and no child.                       *)
LEMMA InitIInv == Init => IInv
<1> SUFFICES ASSUME Init PROVE IInv
  OBVIOUS
<1> USE HttpAssumption DEF HttpAssumption, Init
<1>1. TypeOK
  <2>1. handling \in BOOLEAN
    BY Zenon
  <2>2. /\ server \in {"accept", "fork", "destroy"}
        /\ clientSocket \in Conns \cup {NoConn}
        /\ sigchld \subseteq Conns \cup {NoConn}
        /\ conn \in [Conns -> {"off", "queued", "accepted"}]
        /\ requested \subseteq Conns /\ gone \subseteq Conns /\ replied \subseteq Conns
        /\ holders \in [Conns -> SUBSET {"server", "child", "command"}]
        /\ child \in [Conns -> {"none", "zombie", "reaped"} \cup Alive]
        /\ command \in [Conns -> {"none", "running", "closed", "zombie", "reaped"}]
        /\ output \in [Conns -> 0..OutputMax]
        /\ pipe \in [Conns -> 0..PipeCap]
        /\ body \in [Conns -> 0..OutputMax]
    OBVIOUS
  <2> QED
    BY <2>1, <2>2, Zenon DEF TypeOK
<1>2. SocketInv
  BY DEF SocketInv, NoDescriptorLeak
<1>3. NoStrandedZombie
  BY DEF NoStrandedZombie
<1>4. CommandInv /\ ForkInv /\ FlowInv
  BY DEF CommandInv, ForkInv, FlowInv
<1> QED
  BY <1>1, <1>2, <1>3, <1>4 DEF IInv
(* Type correctness of every step.                                          *)
LEMMA TypeStep == TypeOK /\ SocketInv /\ FlowInv /\ [Next]_vars => TypeOK'
<1> SUFFICES ASSUME TypeOK, SocketInv, FlowInv, [Next]_vars PROVE TypeOK'
  OBVIOUS
<1> USE HttpAssumption DEF HttpAssumption, serverVars, clientVars, commandVars, Goto, TypeOK, Alive, SocketInv
<1>1. ASSUME NEW c \in Conns, Accept(c) PROVE TypeOK'
  BY <1>1 DEF Accept
<1>2. ASSUME NEW c \in Conns, SendDrained(c) PROVE TypeOK'
  BY <1>2 DEF SendDrained, Sent
<1>3. ASSUME NEW c \in Conns, ReadRequest(c) PROVE TypeOK'
  BY <1>3 DEF ReadRequest
<1>4. ASSUME NEW c \in Conns, ExecuteForks(c) PROVE TypeOK'
  BY <1>4 DEF ExecuteForks
<1>5. ASSUME NEW c \in Conns, ExecuteFails(c) PROVE TypeOK'
  BY <1>5 DEF ExecuteFails
<1>6. ASSUME NEW c \in Conns, CollectFails(c) PROVE TypeOK'
  BY <1>6 DEF CollectFails
<1>7. ASSUME NEW c \in Conns, Collect(c) PROVE TypeOK'
  BY <1>7 DEF Collect, FlowInv
<1>8. ASSUME NEW c \in Conns, CollectEnds(c) PROVE TypeOK'
  BY <1>8 DEF CollectEnds
<1>9. ASSUME NEW c \in Conns, WaitCommand(c) PROVE TypeOK'
  BY <1>9 DEF WaitCommand
<1>10. ASSUME NEW c \in Conns, ChildReaps(c) PROVE TypeOK'
  BY <1>10 DEF ChildReaps
<1>11. ASSUME NEW c \in Conns, Send(c) PROVE TypeOK'
  BY <1>11 DEF Send, Sent
<1>12. ASSUME NEW c \in Conns, Exit(c) PROVE TypeOK'
  BY <1>12 DEF Exit
<1>13. ASSUME NEW c \in Conns, HandlerReaps(c) PROVE TypeOK'
  BY <1>13 DEF HandlerReaps
<1>14. ASSUME NEW c \in Conns, CommandWrites(c) PROVE TypeOK'
  BY <1>14 DEF CommandWrites, ReaderGone
<1>15. ASSUME NEW c \in Conns, CommandCloses(c) PROVE TypeOK'
  BY <1>15 DEF CommandCloses
<1>16. ASSUME NEW c \in Conns, CommandExits(c) PROVE TypeOK'
  BY <1>16 DEF CommandExits
<1>17. ASSUME NEW c \in Conns, Connect(c) PROVE TypeOK'
  BY <1>17 DEF Connect
<1>18. ASSUME NEW c \in Conns, SendRequest(c) PROVE TypeOK'
  BY <1>18 DEF SendRequest
<1>19. ASSUME NEW c \in Conns, GoAway(c) PROVE TypeOK'
  BY <1>19 DEF GoAway
<1>20. CASE Fork
  BY <1>20 DEF Fork
<1>21. CASE ForkFails
  BY <1>21 DEF ForkFails
<1>22. CASE DestroySocket
  BY <1>22 DEF DestroySocket
<1>23. CASE HandlerEnters
  BY <1>23 DEF HandlerEnters
<1>24. CASE HandlerReturns
  BY <1>24 DEF HandlerReturns
<1>25. CASE UNCHANGED vars
  BY <1>25 DEF vars
<1> QED
  BY <1>1, <1>2, <1>3, <1>4, <1>5, <1>6, <1>7, <1>8, <1>9, <1>10, <1>11, <1>12, <1>13, <1>14, <1>15, <1>16, <1>17, <1>18, <1>19, <1>20, <1>21, <1>22, <1>23, <1>24, <1>25
     DEF Next, ServeStep, HandlerStep, ChildStep, CommandStep

(* The server's descriptor follows its Socket.                              *)
LEMMA SocketStep == TypeOK /\ SocketInv /\ [Next]_vars => SocketInv'
<1> SUFFICES ASSUME TypeOK, SocketInv, [Next]_vars PROVE SocketInv'
  OBVIOUS
<1> USE HttpAssumption DEF HttpAssumption, serverVars, clientVars, commandVars, Goto, TypeOK, SocketInv, NoDescriptorLeak
<1>1. ASSUME NEW c \in Conns, Accept(c) PROVE SocketInv'
  BY <1>1 DEF Accept
<1>2. ASSUME NEW c \in Conns, SendDrained(c) PROVE SocketInv'
  BY <1>2 DEF SendDrained, Sent
<1>3. ASSUME NEW c \in Conns, ReadRequest(c) PROVE SocketInv'
  BY <1>3 DEF ReadRequest
<1>4. ASSUME NEW c \in Conns, ExecuteForks(c) PROVE SocketInv'
  BY <1>4 DEF ExecuteForks
<1>5. ASSUME NEW c \in Conns, ExecuteFails(c) PROVE SocketInv'
  BY <1>5 DEF ExecuteFails
<1>6. ASSUME NEW c \in Conns, CollectFails(c) PROVE SocketInv'
  BY <1>6 DEF CollectFails
<1>7. ASSUME NEW c \in Conns, Collect(c) PROVE SocketInv'
  BY <1>7 DEF Collect
<1>8. ASSUME NEW c \in Conns, CollectEnds(c) PROVE SocketInv'
  BY <1>8 DEF CollectEnds
<1>9. ASSUME NEW c \in Conns, WaitCommand(c) PROVE SocketInv'
  BY <1>9 DEF WaitCommand
<1>10. ASSUME NEW c \in Conns, ChildReaps(c) PROVE SocketInv'
  BY <1>10 DEF ChildReaps
<1>11. ASSUME NEW c \in Conns, Send(c) PROVE SocketInv'
  BY <1>11 DEF Send, Sent
<1>12. ASSUME NEW c \in Conns, Exit(c) PROVE SocketInv'
  BY <1>12 DEF Exit
<1>13. ASSUME NEW c \in Conns, HandlerReaps(c) PROVE SocketInv'
  BY <1>13 DEF HandlerReaps
<1>14. ASSUME NEW c \in Conns, CommandWrites(c) PROVE SocketInv'
  BY <1>14 DEF CommandWrites, ReaderGone
<1>15. ASSUME NEW c \in Conns, CommandCloses(c) PROVE SocketInv'
  BY <1>15 DEF CommandCloses
<1>16. ASSUME NEW c \in Conns, CommandExits(c) PROVE SocketInv'
  BY <1>16 DEF CommandExits
<1>17. ASSUME NEW c \in Conns, Connect(c) PROVE SocketInv'
  BY <1>17 DEF Connect
<1>18. ASSUME NEW c \in Conns, SendRequest(c) PROVE SocketInv'
  BY <1>18 DEF SendRequest
<1>19. ASSUME NEW c \in Conns, GoAway(c) PROVE SocketInv'
  BY <1>19 DEF GoAway
<1>20. CASE Fork
  BY <1>20 DEF Fork
<1>21. CASE ForkFails
  BY <1>21 DEF ForkFails
<1>22. CASE DestroySocket
  BY <1>22 DEF DestroySocket
<1>23. CASE HandlerEnters
  BY <1>23 DEF HandlerEnters
<1>24. CASE HandlerReturns
  BY <1>24 DEF HandlerReturns
<1>25. CASE UNCHANGED vars
  BY <1>25 DEF vars
<1> QED
  BY <1>1, <1>2, <1>3, <1>4, <1>5, <1>6, <1>7, <1>8, <1>9, <1>10, <1>11, <1>12, <1>13, <1>14, <1>15, <1>16, <1>17, <1>18, <1>19, <1>20, <1>21, <1>22, <1>23, <1>24, <1>25
     DEF Next, ServeStep, HandlerStep, ChildStep, CommandStep

(* Children come from forks only.                                           *)
LEMMA ForkStep == TypeOK /\ SocketInv /\ ForkInv /\ [Next]_vars => ForkInv'
<1> SUFFICES ASSUME TypeOK, SocketInv, ForkInv, [Next]_vars PROVE ForkInv'
  OBVIOUS
<1> USE HttpAssumption DEF HttpAssumption, serverVars, clientVars, commandVars, Goto, TypeOK, SocketInv, ForkInv
<1>1. ASSUME NEW c \in Conns, Accept(c) PROVE ForkInv'
  BY <1>1 DEF Accept
<1>2. ASSUME NEW c \in Conns, SendDrained(c) PROVE ForkInv'
  BY <1>2 DEF SendDrained, Sent
<1>3. ASSUME NEW c \in Conns, ReadRequest(c) PROVE ForkInv'
  BY <1>3 DEF ReadRequest
<1>4. ASSUME NEW c \in Conns, ExecuteForks(c) PROVE ForkInv'
  BY <1>4 DEF ExecuteForks
<1>5. ASSUME NEW c \in Conns, ExecuteFails(c) PROVE ForkInv'
  BY <1>5 DEF ExecuteFails
<1>6. ASSUME NEW c \in Conns, CollectFails(c) PROVE ForkInv'
  BY <1>6 DEF CollectFails
<1>7. ASSUME NEW c \in Conns, Collect(c) PROVE ForkInv'
  BY <1>7 DEF Collect
<1>8. ASSUME NEW c \in Conns, CollectEnds(c) PROVE ForkInv'
  BY <1>8 DEF CollectEnds
<1>9. ASSUME NEW c \in Conns, WaitCommand(c) PROVE ForkInv'
  BY <1>9 DEF WaitCommand
<1>10. ASSUME NEW c \in Conns, ChildReaps(c) PROVE ForkInv'
  BY <1>10 DEF ChildReaps
<1>11. ASSUME NEW c \in Conns, Send(c) PROVE ForkInv'
  BY <1>11 DEF Send, Sent
<1>12. ASSUME NEW c \in Conns, Exit(c) PROVE ForkInv'
  BY <1>12 DEF Exit
<1>13. ASSUME NEW c \in Conns, HandlerReaps(c) PROVE ForkInv'
  BY <1>13 DEF HandlerReaps
<1>14. ASSUME NEW c \in Conns, CommandWrites(c) PROVE ForkInv'
  BY <1>14 DEF CommandWrites, ReaderGone
<1>15. ASSUME NEW c \in Conns, CommandCloses(c) PROVE ForkInv'
  BY <1>15 DEF CommandCloses
<1>16. ASSUME NEW c \in Conns, CommandExits(c) PROVE ForkInv'
  BY <1>16 DEF CommandExits
<1>17. ASSUME NEW c \in Conns, Connect(c) PROVE ForkInv'
  BY <1>17 DEF Connect
<1>18. ASSUME NEW c \in Conns, SendRequest(c) PROVE ForkInv'
  BY <1>18 DEF SendRequest
<1>19. ASSUME NEW c \in Conns, GoAway(c) PROVE ForkInv'
  BY <1>19 DEF GoAway
<1>20. CASE Fork
  BY <1>20 DEF Fork
<1>21. CASE ForkFails
  BY <1>21 DEF ForkFails
<1>22. CASE DestroySocket
  BY <1>22 DEF DestroySocket
<1>23. CASE HandlerEnters
  BY <1>23 DEF HandlerEnters
<1>24. CASE HandlerReturns
  BY <1>24 DEF HandlerReturns
<1>25. CASE UNCHANGED vars
  BY <1>25 DEF vars
<1> QED
  BY <1>1, <1>2, <1>3, <1>4, <1>5, <1>6, <1>7, <1>8, <1>9, <1>10, <1>11, <1>12, <1>13, <1>14, <1>15, <1>16, <1>17, <1>18, <1>19, <1>20, <1>21, <1>22, <1>23, <1>24, <1>25
     DEF Next, ServeStep, HandlerStep, ChildStep, CommandStep

(* A zombie is announced or being looked for.                               *)
LEMMA ZombieStep == TypeOK /\ NoStrandedZombie /\ [Next]_vars => NoStrandedZombie'
<1> SUFFICES ASSUME TypeOK, NoStrandedZombie, [Next]_vars PROVE NoStrandedZombie'
  OBVIOUS
<1> USE HttpAssumption DEF HttpAssumption, serverVars, clientVars, commandVars, Goto, TypeOK, NoStrandedZombie
<1>1. ASSUME NEW c \in Conns, Accept(c) PROVE NoStrandedZombie'
  BY <1>1 DEF Accept
<1>2. ASSUME NEW c \in Conns, SendDrained(c) PROVE NoStrandedZombie'
  BY <1>2 DEF SendDrained, Sent
<1>3. ASSUME NEW c \in Conns, ReadRequest(c) PROVE NoStrandedZombie'
  BY <1>3 DEF ReadRequest
<1>4. ASSUME NEW c \in Conns, ExecuteForks(c) PROVE NoStrandedZombie'
  BY <1>4 DEF ExecuteForks
<1>5. ASSUME NEW c \in Conns, ExecuteFails(c) PROVE NoStrandedZombie'
  BY <1>5 DEF ExecuteFails
<1>6. ASSUME NEW c \in Conns, CollectFails(c) PROVE NoStrandedZombie'
  BY <1>6 DEF CollectFails
<1>7. ASSUME NEW c \in Conns, Collect(c) PROVE NoStrandedZombie'
  BY <1>7 DEF Collect
<1>8. ASSUME NEW c \in Conns, CollectEnds(c) PROVE NoStrandedZombie'
  BY <1>8 DEF CollectEnds
<1>9. ASSUME NEW c \in Conns, WaitCommand(c) PROVE NoStrandedZombie'
  BY <1>9 DEF WaitCommand
<1>10. ASSUME NEW c \in Conns, ChildReaps(c) PROVE NoStrandedZombie'
  BY <1>10 DEF ChildReaps
<1>11. ASSUME NEW c \in Conns, Send(c) PROVE NoStrandedZombie'
  BY <1>11 DEF Send, Sent
<1>12. ASSUME NEW c \in Conns, Exit(c) PROVE NoStrandedZombie'
  BY <1>12 DEF Exit
<1>13. ASSUME NEW c \in Conns, HandlerReaps(c) PROVE NoStrandedZombie'
  BY <1>13 DEF HandlerReaps
<1>14. ASSUME NEW c \in Conns, CommandWrites(c) PROVE NoStrandedZombie'
  BY <1>14 DEF CommandWrites, ReaderGone
<1>15. ASSUME NEW c \in Conns, CommandCloses(c) PROVE NoStrandedZombie'
  BY <1>15 DEF CommandCloses
<1>16. ASSUME NEW c \in Conns, CommandExits(c) PROVE NoStrandedZombie'
  BY <1>16 DEF CommandExits
<1>17. ASSUME NEW c \in Conns, Connect(c) PROVE NoStrandedZombie'
  BY <1>17 DEF Connect
<1>18. ASSUME NEW c \in Conns, SendRequest(c) PROVE NoStrandedZombie'
  BY <1>18 DEF SendRequest
<1>19. ASSUME NEW c \in Conns, GoAway(c) PROVE NoStrandedZombie'
  BY <1>19 DEF GoAway
<1>20. CASE Fork
  BY <1>20 DEF Fork
<1>21. CASE ForkFails
  BY <1>21 DEF ForkFails
<1>22. CASE DestroySocket
  BY <1>22 DEF DestroySocket
<1>23. CASE HandlerEnters
  BY <1>23 DEF HandlerEnters
<1>24. CASE HandlerReturns
  BY <1>24 DEF HandlerReturns
<1>25. CASE UNCHANGED vars
  BY <1>25 DEF vars
<1> QED
  BY <1>1, <1>2, <1>3, <1>4, <1>5, <1>6, <1>7, <1>8, <1>9, <1>10, <1>11, <1>12, <1>13, <1>14, <1>15, <1>16, <1>17, <1>18, <1>19, <1>20, <1>21, <1>22, <1>23, <1>24, <1>25
     DEF Next, ServeStep, HandlerStep, ChildStep, CommandStep

(* The command's stages follow the child's.                                 *)
LEMMA CommandStepInv == TypeOK /\ SocketInv /\ ForkInv /\ CommandInv /\ [Next]_vars => CommandInv'
<1> SUFFICES ASSUME TypeOK, SocketInv, ForkInv, CommandInv, [Next]_vars PROVE CommandInv'
  OBVIOUS
<1> USE HttpAssumption DEF HttpAssumption, serverVars, clientVars, commandVars, Goto, TypeOK, SocketInv, ForkInv, CommandInv
<1>1. ASSUME NEW c \in Conns, Accept(c) PROVE CommandInv'
  BY <1>1 DEF Accept
<1>2. ASSUME NEW c \in Conns, SendDrained(c) PROVE CommandInv'
  BY <1>2 DEF SendDrained, Sent
<1>3. ASSUME NEW c \in Conns, ReadRequest(c) PROVE CommandInv'
  BY <1>3 DEF ReadRequest
<1>4. ASSUME NEW c \in Conns, ExecuteForks(c) PROVE CommandInv'
  BY <1>4 DEF ExecuteForks
<1>5. ASSUME NEW c \in Conns, ExecuteFails(c) PROVE CommandInv'
  BY <1>5 DEF ExecuteFails
<1>6. ASSUME NEW c \in Conns, CollectFails(c) PROVE CommandInv'
  BY <1>6 DEF CollectFails
<1>7. ASSUME NEW c \in Conns, Collect(c) PROVE CommandInv'
  BY <1>7 DEF Collect
<1>8. ASSUME NEW c \in Conns, CollectEnds(c) PROVE CommandInv'
  BY <1>8 DEF CollectEnds
<1>9. ASSUME NEW c \in Conns, WaitCommand(c) PROVE CommandInv'
  BY <1>9 DEF WaitCommand
<1>10. ASSUME NEW c \in Conns, ChildReaps(c) PROVE CommandInv'
  BY <1>10 DEF ChildReaps
<1>11. ASSUME NEW c \in Conns, Send(c) PROVE CommandInv'
  BY <1>11 DEF Send, Sent
<1>12. ASSUME NEW c \in Conns, Exit(c) PROVE CommandInv'
  BY <1>12 DEF Exit
<1>13. ASSUME NEW c \in Conns, HandlerReaps(c) PROVE CommandInv'
  BY <1>13 DEF HandlerReaps
<1>14. ASSUME NEW c \in Conns, CommandWrites(c) PROVE CommandInv'
  BY <1>14 DEF CommandWrites, ReaderGone
<1>15. ASSUME NEW c \in Conns, CommandCloses(c) PROVE CommandInv'
  BY <1>15 DEF CommandCloses
<1>16. ASSUME NEW c \in Conns, CommandExits(c) PROVE CommandInv'
  BY <1>16 DEF CommandExits
<1>17. ASSUME NEW c \in Conns, Connect(c) PROVE CommandInv'
  BY <1>17 DEF Connect
<1>18. ASSUME NEW c \in Conns, SendRequest(c) PROVE CommandInv'
  BY <1>18 DEF SendRequest
<1>19. ASSUME NEW c \in Conns, GoAway(c) PROVE CommandInv'
  BY <1>19 DEF GoAway
<1>20. CASE Fork
  BY <1>20 DEF Fork
<1>21. CASE ForkFails
  BY <1>21 DEF ForkFails
<1>22. CASE DestroySocket
  BY <1>22 DEF DestroySocket
<1>23. CASE HandlerEnters
  BY <1>23 DEF HandlerEnters
<1>24. CASE HandlerReturns
  BY <1>24 DEF HandlerReturns
<1>25. CASE UNCHANGED vars
  BY <1>25 DEF vars
<1> QED
  BY <1>1, <1>2, <1>3, <1>4, <1>5, <1>6, <1>7, <1>8, <1>9, <1>10, <1>11, <1>12, <1>13, <1>14, <1>15, <1>16, <1>17, <1>18, <1>19, <1>20, <1>21, <1>22, <1>23, <1>24, <1>25
     DEF Next, ServeStep, HandlerStep, ChildStep, CommandStep

(* Output only moves on, or is dropped.                                     *)
LEMMA FlowStep == TypeOK /\ CommandInv /\ FlowInv /\ [Next]_vars => FlowInv'
<1> SUFFICES ASSUME TypeOK, CommandInv, FlowInv, [Next]_vars PROVE FlowInv'
  OBVIOUS
<1> USE HttpAssumption DEF HttpAssumption, TypeOK, FlowInv
<1>1. CASE UNCHANGED commandVars
  BY <1>1 DEF commandVars
<1>2. ASSUME NEW c \in Conns, ExecuteForks(c) PROVE FlowInv'
  BY <1>2 DEF ExecuteForks, CommandInv
<1>3. ASSUME NEW c \in Conns, Collect(c) PROVE FlowInv'
  BY <1>3 DEF Collect
<1>4. ASSUME NEW c \in Conns, CollectFails(c) PROVE FlowInv'
  BY <1>4 DEF CollectFails
<1>5. ASSUME NEW c \in Conns, WaitCommand(c) \/ ChildReaps(c) PROVE FlowInv'
  BY <1>5 DEF WaitCommand, ChildReaps
<1>6. ASSUME NEW c \in Conns, Send(c) \/ SendDrained(c) PROVE FlowInv'
  BY <1>6 DEF Send, SendDrained, Sent
<1>7. ASSUME NEW c \in Conns, Exit(c) PROVE FlowInv'
  BY <1>7 DEF Exit
<1>8. ASSUME NEW c \in Conns, CommandWrites(c) PROVE FlowInv'
  BY <1>8 DEF CommandWrites
<1>9. ASSUME NEW c \in Conns, CommandCloses(c) PROVE FlowInv'
  BY <1>9 DEF CommandCloses
<1>10. ASSUME NEW c \in Conns, CommandExits(c) PROVE FlowInv'
  BY <1>10 DEF CommandExits
<1>11. CASE ServeStep \/ HandlerStep
  <2>1. UNCHANGED commandVars
    BY <1>11 DEF ServeStep, HandlerStep, Accept, Fork, ForkFails, DestroySocket,
                 HandlerEnters, HandlerReaps, HandlerReturns
  <2> QED
    BY <1>1, <2>1
<1>12. ASSUME NEW c \in Conns,
              ReadRequest(c) \/ ExecuteFails(c) \/ CollectEnds(c)
                \/ Connect(c) \/ SendRequest(c) \/ GoAway(c)
       PROVE  FlowInv'
  <2>1. UNCHANGED commandVars
    BY <1>12 DEF ReadRequest, ExecuteFails, CollectEnds, Connect, SendRequest, GoAway
  <2> QED
    BY <1>1, <2>1
<1>13. CASE UNCHANGED vars
  BY <1>1, <1>13 DEF vars
<1> QED
  BY <1>2, <1>3, <1>4, <1>5, <1>6, <1>7, <1>8, <1>9, <1>10, <1>11, <1>12, <1>13
     DEF Next, ChildStep, CommandStep

(* The invariant is inductive.                                              *)
LEMMA IInvStep == IInv /\ [Next]_vars => IInv'
BY TypeStep, SocketStep, ForkStep, ZombieStep, CommandStepInv, FlowStep DEF IInv

(* Hence it holds in every reachable state.                                 *)
LEMMA Invariance == Spec => []IInv
BY InitIInv, IInvStep, PTL DEF Spec
-----------------------------------------------------------------------------
(* Every variable of the server, its children and their commands keeps its  *)
(* type; the chunks in a pipe stay within its capacity, and an answer has   *)
(* no more of them than its command wrote.                                  *)
THEOREM TypeCorrect == Spec => []TypeOK
<1>1. IInv => TypeOK
  BY DEF IInv
<1> QED
  BY <1>1, Invariance, PTL

(* A merged SIGCHLD never leaves a zombie behind in the server.             *)
THEOREM ZombiesAnnounced == Spec => []NoStrandedZombie
<1>1. IInv => NoStrandedZombie
  BY DEF IInv
<1> QED
  BY <1>1, Invariance, PTL

(* serve() keeps no connection open past the iteration that accepted it,    *)
(* whether the fork succeeded or not.                                       *)
THEOREM DescriptorsReleased == Spec => []NoDescriptorLeak
<1>1. IInv => NoDescriptorLeak
  BY DEF IInv, SocketInv
<1> QED
  BY <1>1, Invariance, PTL

(* execute() waits for its command only when it has all of its output.      *)
THEOREM NothingLeftInPipe == Spec => []OutputComplete
<1>1. IInv => OutputComplete
  BY DEF IInv, TypeOK, CommandInv, OutputComplete
<1> QED
  BY <1>1, Invariance, PTL
-----------------------------------------------------------------------------
(* ---- One connection (HttpConnection). ---------------------------------- *)

Texts == Seq(Symbols)
LookingUp == {"statIndex", "execute"}

(* What was read and what was not are the request, in its order; the loop is*)
(* left behind the end of the first line.                                   *)
TextInv ==
  /\ pc \in {"read", "parse", "stat", "statIndex", "execute", "done"}
  /\ request \in Texts /\ payload \in Texts /\ unread \in Texts
  /\ payload \o unread = request
  /\ pc = "parse" => HasTerminator(payload) \/ unread = <<>>

(* Nothing counts as having been right before the path is looked up; from   *)
(* then on the answer the files call for now does.                          *)
SeenInv ==
  /\ path \in PathKinds /\ index \in IndexKinds /\ html \in BOOLEAN
  /\ races \in Nat
  /\ pc \in {"read", "parse", "stat"} => seen = {} /\ races = 0
  /\ pc \in LookingUp => QuietAnswer(path, index) \in seen

(* While nobody has changed the files, what was decided still holds.        *)
QuietInv ==
  races = 0 =>
    /\ pc = "statIndex" => path \in Directories
    /\ pc = "execute" =>
         \/ argv = "cat" /\ path \in {"file", "secret"}
         \/ argv = "catIndex" /\ path \in Directories /\ index \in {"file", "secret"}
         \/ argv = "ls" /\ path \in Directories /\ index \notin {"file", "secret"}

ArgvInv == pc = "execute" => argv \in {"cat", "catIndex", "ls"}

ConnectionInv == TextInv /\ SeenInv /\ QuietInv /\ ArgvInv
        /\ VerdictOfRequest /\ RightWhenQuiet /\ ContentWasRight
-----------------------------------------------------------------------------
(* The first line end of a text: the CHOOSE of FirstLine has one value.     *)
LineEnds(text) == {i \in DOMAIN text : text[i] = "LF"}

(* A text with a line end has a first one.                                  *)
LEMMA FirstEnd ==
  ASSUME NEW text \in Texts, LineEnds(text) # {}
  PROVE  \E n \in LineEnds(text) : \A j \in LineEnds(text) : n <= j
<1> DEFINE R == OpToRel(<, Nat)
<1>1. LineEnds(text) \subseteq Nat
  BY DEF LineEnds, Texts
<1>2. IsWellFoundedOn(R, Nat)
  BY NatLessThanWellFounded
<1>3. \A x, y \in Nat : <<y, x>> \in R <=> y < x
  BY DEF OpToRel
<1> HIDE DEF R
<1>4. PICK n \in LineEnds(text) : \A j \in LineEnds(text) : ~(<<j, n>> \in R)
  BY <1>1, <1>2, WFMin
<1>5. \A j \in LineEnds(text) : ~(j < n)
  BY <1>1, <1>3, <1>4
<1> QED
  BY <1>1, <1>5

(* What is behind a line's end does not change the line.                    *)
LEMMA FirstLineIs ==
  ASSUME NEW text \in Texts, NEW n \in LineEnds(text), \A j \in LineEnds(text) : n <= j
  PROVE  FirstLine(text) = SubSeq(text, 1, n - 1)
<1>1. LineEnds(text) \subseteq Nat
  BY DEF LineEnds, Texts
<1>2. (CHOOSE i \in LineEnds(text) : \A j \in LineEnds(text) : i <= j) = n
  BY <1>1
<1> QED
  BY <1>2 DEF FirstLine, LineEnds

(* What follows the first line end of a text does not change its first line.*)
LEMMA FirstLineKept ==
  ASSUME NEW text \in Texts, NEW rest \in Texts, LineEnds(text) # {}
  PROVE  FirstLine(text \o rest) = FirstLine(text)
<1>1. PICK n \in LineEnds(text) : \A j \in LineEnds(text) : n <= j
  BY FirstEnd
<1>2. n \in 1..Len(text) /\ text[n] = "LF" /\ Len(text) \in Nat
  BY DEF LineEnds, Texts
<1>3. /\ text \o rest \in Texts /\ Len(text \o rest) = Len(text) + Len(rest)
      /\ \A i \in 1..Len(text) : (text \o rest)[i] = text[i]
  BY DEF Texts
<1>4. n \in LineEnds(text \o rest)
  BY <1>2, <1>3 DEF LineEnds, Texts
<1>5. ASSUME NEW j \in LineEnds(text \o rest) PROVE n <= j
  <2>1. j \in Nat /\ j >= 1 /\ (text \o rest)[j] = "LF"
    BY <1>3 DEF LineEnds, Texts
  <2>2. CASE j <= Len(text)
    <3>1. j \in LineEnds(text)
      BY <1>2, <1>3, <2>1, <2>2 DEF LineEnds, Texts
    <3> QED
      BY <1>1, <3>1
  <2>3. CASE j > Len(text)
    BY <1>2, <2>1, <2>3
  <2> QED
    BY <1>2, <2>1, <2>2, <2>3
<1>6. FirstLine(text \o rest) = SubSeq(text \o rest, 1, n - 1)
  BY <1>3, <1>4, <1>5, FirstLineIs
<1>7. SubSeq(text \o rest, 1, n - 1) = SubSeq(text, 1, n - 1)
  BY <1>2, SubSeqOfConcat1 DEF Texts
<1> QED
  BY <1>1, <1>6, <1>7, FirstLineIs

(* A text with an empty line has a line end.                                *)
LEMMA TerminatorEndsLine ==
  ASSUME NEW text \in Texts, HasTerminator(text) PROVE LineEnds(text) # {}
<1>1. PICK i \in 1..Len(text) - 3 : SubSeq(text, i, i + 3) = <<"CR", "LF", "CR", "LF">>
  BY DEF HasTerminator
<1>2. Len(text) \in Nat /\ i + 1 \in 1..Len(text)
  BY DEF Texts
<1>3. SubSeq(text, i, i + 3)[2] = text[i + 1]
  BY <1>2 DEF Texts
<1>4. text[i + 1] = "LF"
  <2>1. <<"CR", "LF", "CR", "LF">>[2] = "LF"
    OBVIOUS
  <2> QED
    BY <1>1, <1>3, <2>1, Zenon
<1> QED
  BY <1>2, <1>4 DEF LineEnds, Texts

(* The verdict is the request's as soon as the loop ends.                   *)
LEMMA VerdictKept ==
  ASSUME TextInv, pc = "parse" PROVE Verdict(payload) = Verdict(request)
<1>1. FirstLine(payload) = FirstLine(request)
  <2>1. CASE HasTerminator(payload)
    <3>1. LineEnds(payload) # {}
      BY <2>1, TerminatorEndsLine DEF TextInv
    <3>2. FirstLine(payload \o unread) = FirstLine(payload)
      BY <3>1, FirstLineKept DEF TextInv
    <3> QED
      BY <3>2 DEF TextInv
  <2>2. CASE unread = <<>>
    <3>1. payload \o <<>> = payload
      BY ConcatEmptySeq DEF TextInv, Texts
    <3> QED
      BY <2>2, <3>1 DEF TextInv
  <2> QED
    BY <2>1, <2>2 DEF TextInv
<1> QED
  BY <1>1 DEF Verdict
-----------------------------------------------------------------------------
(* Nothing has been read at the start.                                      *)
LEMMA ConnectionInitInv == ConnectionInit => ConnectionInv
<1> SUFFICES ASSUME ConnectionInit PROVE ConnectionInv
  OBVIOUS
<1> USE DEF ConnectionInit
<1>1. TextInv
  <2>1. request \in Texts /\ <<>> \in Texts
    BY ConnectionAssumption DEF ConnectionAssumption, Texts
  <2>2. <<>> \o request = request
    BY <2>1, ConcatEmptySeq DEF Texts
  <2> QED
    BY <2>1, <2>2 DEF TextInv
<1>2. SeenInv /\ QuietInv /\ ArgvInv
  BY DEF SeenInv, QuietInv, ArgvInv, LookingUp
<1>3. VerdictOfRequest /\ RightWhenQuiet /\ ContentWasRight
  BY DEF VerdictOfRequest, RightWhenQuiet, ContentWasRight
<1> QED
  BY <1>1, <1>2, <1>3 DEF ConnectionInv

(* A chunk goes from what is unread to what is read.                        *)
LEMMA Regrouped ==
  ASSUME NEW a \in Texts, NEW b \in Texts, NEW c \in Texts
  PROVE  (a \o b) \o c = a \o (b \o c)
BY ConcatAssociative DEF Texts

(* A chunk is moved from one end to the other.                              *)
LEMMA ChunkMoved ==
  ASSUME TextInv, NEW n \in 1..Len(unread)
  PROVE  /\ payload \o SubSeq(unread, 1, n) \in Texts
         /\ SubSeq(unread, n + 1, Len(unread)) \in Texts
         /\ (payload \o SubSeq(unread, 1, n)) \o SubSeq(unread, n + 1, Len(unread)) = request
<1>1. unread \in Texts /\ payload \in Texts /\ Len(unread) \in Nat
  BY DEF TextInv, Texts
<1>2. SubSeq(unread, 1, n) \in Texts /\ SubSeq(unread, n + 1, Len(unread)) \in Texts
  BY <1>1 DEF Texts
<1>3. SubSeq(unread, 1, n) \o SubSeq(unread, n + 1, Len(unread)) = SubSeq(unread, 1, Len(unread))
  BY <1>1, ConcatAdjacentSubSeq DEF Texts
<1>4. SubSeq(unread, 1, Len(unread)) = unread
  BY <1>1, SubSeqFull DEF Texts
<1>5. (payload \o SubSeq(unread, 1, n)) \o SubSeq(unread, n + 1, Len(unread))
        = payload \o (SubSeq(unread, 1, n) \o SubSeq(unread, n + 1, Len(unread)))
  BY <1>1, <1>2, Regrouped, Zenon
<1>6. payload \o unread = request
  BY DEF TextInv
<1>7. payload \o SubSeq(unread, 1, n) \in Texts
  BY <1>1, <1>2 DEF Texts
<1> QED
  BY <1>2, <1>3, <1>4, <1>5, <1>6, <1>7, Zenon

(* What was read and what was not make up the request.                      *)
LEMMA TextStep == TextInv /\ [ConnectionNext]_connectionVars => TextInv'
<1> SUFFICES ASSUME TextInv, [ConnectionNext]_connectionVars PROVE TextInv'
  OBVIOUS
<1>1. CASE Read
  <2>1. PICK n \in 1..Len(unread) :
          /\ payload' = payload \o SubSeq(unread, 1, n)
          /\ unread' = SubSeq(unread, n + 1, Len(unread))
    <3>1. Len(unread) \in Nat /\ ChunkMax \in Nat
      BY ConnectionAssumption DEF ConnectionAssumption, TextInv, Texts
    <3>2. PICK n \in 1..ChunkMax : /\ n <= Len(unread)
                                   /\ payload' = payload \o SubSeq(unread, 1, n)
                                   /\ unread' = SubSeq(unread, n + 1, Len(unread))
      BY <1>1, Zenon DEF Read
    <3>3. n \in 1..Len(unread)
      BY <3>1, <3>2
    <3> QED
      BY <3>2, <3>3, Zenon
  <2>2. payload' \in Texts /\ unread' \in Texts /\ payload' \o unread' = request
    BY <2>1, ChunkMoved
  <2>3. pc' = (IF HasTerminator(payload') THEN "parse" ELSE "read") /\ request' = request
    BY <1>1 DEF Read
  <2> QED
    BY <2>2, <2>3 DEF TextInv
<1>2. ASSUME UNCHANGED <<request, unread, payload>>,
             pc' \in {"parse", "stat", "statIndex", "execute", "done"} \cup {pc},
             pc' = "parse" /\ pc # "parse" => unread = <<>>
      PROVE  TextInv'
  <2>1. HasTerminator(payload)' = HasTerminator(payload)
    BY <1>2 DEF HasTerminator
  <2> QED
    BY <1>2, <2>1 DEF TextInv
<1>3. CASE ReadEnd \/ ReadFails \/ Parse
  BY <1>2, <1>3 DEF ReadEnd, ReadFails, Parse, Respond
<1>4. CASE Stat \/ StatIndex \/ Execute \/ ExecFails \/ CommandFails
  BY <1>2, <1>4 DEF Stat, StatIndex, Execute, ExecFails, CommandFails, Respond
<1>5. CASE ClientEnds \/ FilesChange \/ UNCHANGED connectionVars
  BY <1>2, <1>5 DEF ClientEnds, FilesChange, connectionVars
<1> QED
  BY <1>1, <1>2, <1>3, <1>4, <1>5 DEF ConnectionNext, ConnectionStep
-----------------------------------------------------------------------------
(* seen has the answer the files call for now.                              *)
LEMMA SeenStep ==
  SeenInv /\ QuietInv /\ ArgvInv /\ [ConnectionNext]_connectionVars => SeenInv' /\ QuietInv' /\ ArgvInv'
<1> SUFFICES ASSUME SeenInv, QuietInv, ArgvInv, [ConnectionNext]_connectionVars
             PROVE  SeenInv' /\ QuietInv' /\ ArgvInv'
  OBVIOUS
<1> USE DEF LookingUp, fsVars, histVars
<1>1. CASE Read \/ ReadEnd \/ ReadFails \/ ClientEnds \/ UNCHANGED connectionVars
  <2>1. /\ UNCHANGED <<fsVars, argv, histVars>>
        /\ pc' = pc \/ (pc = "read" /\ pc' \in {"read", "parse", "done"})
    BY <1>1 DEF Read, ReadEnd, ReadFails, ClientEnds, connectionVars, Respond
  <2>2. QuietAnswer(path, index)' = QuietAnswer(path, index)
    BY <2>1 DEF QuietAnswer, PlainType
  <2> QED
    BY <2>1, <2>2 DEF SeenInv, QuietInv, ArgvInv
<1>2. CASE Parse
  BY <1>2 DEF Parse, Respond, SeenInv, QuietInv, ArgvInv
<1>3. CASE Stat
  <2>1. /\ seen' = {QuietAnswer(path, index)} /\ UNCHANGED <<fsVars, races>>
        /\ pc' \in {"done", "statIndex", "execute"}
    BY <1>3 DEF Stat, Respond
  <2>2. QuietAnswer(path, index)' = QuietAnswer(path, index)
    BY <2>1 DEF QuietAnswer, PlainType
  <2>3. SeenInv'
    BY <2>1, <2>2 DEF SeenInv
  <2>4. QuietInv' /\ ArgvInv'
    BY <1>3 DEF Stat, Respond, QuietInv, ArgvInv
  <2> QED
    BY <2>3, <2>4
<1>4. CASE StatIndex
  <2>1. QuietAnswer(path, index)' = QuietAnswer(path, index)
    BY <1>4 DEF StatIndex, QuietAnswer, PlainType
  <2>2. SeenInv'
    BY <1>4, <2>1 DEF StatIndex, SeenInv
  <2>3. QuietInv' /\ ArgvInv'
    BY <1>4 DEF StatIndex, QuietInv, ArgvInv
  <2> QED
    BY <2>2, <2>3
<1>5. CASE Execute \/ ExecFails \/ CommandFails
  BY <1>5 DEF Execute, ExecFails, CommandFails, Respond, SeenInv, QuietInv, ArgvInv
<1>6. CASE FilesChange
  <2>1. SeenInv'
    BY <1>6 DEF FilesChange, SeenInv, QuietAnswer, PlainType, PathKinds, IndexKinds
  <2>2. QuietInv' /\ ArgvInv'
    BY <1>6 DEF FilesChange, SeenInv, QuietInv, ArgvInv
  <2> QED
    BY <2>1, <2>2
<1> QED
  BY <1>1, <1>2, <1>3, <1>4, <1>5, <1>6 DEF ConnectionNext, ConnectionStep
-----------------------------------------------------------------------------
(* The first line decides the verdict.                                      *)
LEMMA VerdictStep ==
  TextInv /\ SeenInv /\ VerdictOfRequest /\ [ConnectionNext]_connectionVars => VerdictOfRequest'
<1> SUFFICES ASSUME TextInv, SeenInv, VerdictOfRequest, [ConnectionNext]_connectionVars PROVE VerdictOfRequest'
  OBVIOUS
<1>1. request' = request
  BY DEF ConnectionNext, ConnectionStep, Read, ReadEnd, ReadFails, Parse, Stat, StatIndex, Execute, ExecFails, CommandFails,
         ClientEnds, FilesChange, connectionVars
<1>2. Verdict(request)' = Verdict(request)
  BY <1>1 DEF Verdict
<1> USE DEF VerdictOfRequest, SeenInv, LookingUp
<1>3. CASE Read \/ ReadEnd \/ ReadFails
  BY <1>2, <1>3 DEF Read, ReadEnd, ReadFails, Respond
<1>4. CASE Parse
  <2>1. Verdict(payload) = Verdict(request)
    BY <1>4, VerdictKept DEF Parse
  <2> QED
    BY <1>2, <1>4, <2>1 DEF Parse, Respond
<1>5. CASE Stat
  <2>1. seen' # {} /\ pc = "stat"
    BY <1>5 DEF Stat
  <2> QED
    BY <1>2, <1>5, <2>1 DEF Stat, Respond
<1>6. CASE StatIndex \/ Execute \/ ExecFails \/ CommandFails
  <2>1. seen # {} /\ seen' = seen /\ pc \in {"statIndex", "execute"} /\ pc' \in {"execute", "done"}
    BY <1>6 DEF StatIndex, Execute, ExecFails, CommandFails, Respond, histVars
  <2> QED
    BY <1>2, <2>1
<1>7. CASE ClientEnds \/ FilesChange \/ UNCHANGED connectionVars
  BY <1>2, <1>7 DEF ClientEnds, FilesChange, connectionVars, histVars
<1> QED
  BY <1>3, <1>4, <1>5, <1>6, <1>7 DEF ConnectionNext, ConnectionStep

(* An error has no content.                                                 *)
LEMMA ErrorBody == \A status : ErrorAnswer(status).body # "content"
BY DEF ErrorAnswer, Answer

(* The answer given at the end is one that was right, unless it comes from  *)
(* a command that met other files than were found.                          *)
LEMMA AnswerStep ==
  ASSUME SeenInv, QuietInv, ArgvInv, RightWhenQuiet, ContentWasRight, [ConnectionNext]_connectionVars
  PROVE  RightWhenQuiet' /\ ContentWasRight'
<1> USE DEF histVars, fsVars
<1>1. CASE Execute
  <2>1. /\ pc = "execute" /\ UNCHANGED histVars
        /\ response' = Answer(200, ContentType, CommandOutput)
    BY <1>1 DEF Execute, Respond
  <2>2. QuietAnswer(path, index) \in seen /\ argv \in {"cat", "catIndex", "ls"}
    BY <2>1 DEF SeenInv, ArgvInv, LookingUp
  <2>3. ASSUME races = 0 PROVE response' = QuietAnswer(path, index)
    <3>1. CASE argv = "cat" /\ path \in {"file", "secret"}
      BY <2>1, <3>1 DEF QuietAnswer, PlainType, ContentType, CommandOutput, CatText, Directories
    <3>2. CASE argv = "catIndex" /\ path \in Directories /\ index \in {"file", "secret"}
      BY <2>1, <3>2 DEF QuietAnswer, ContentType, CommandOutput, CatText, Directories
    <3>3. CASE argv = "ls" /\ path \in Directories /\ index \notin {"file", "secret"}
      BY <2>1, <3>3 DEF QuietAnswer, ContentType, CommandOutput, Directories
    <3> QED
      BY <2>1, <2>3, <3>1, <3>2, <3>3 DEF QuietInv
  <2>4. ASSUME response'.body = "content" PROVE response' = QuietAnswer(path, index)
    <3>1. CommandOutput = "content"
      BY <2>1, <2>4 DEF Answer
    <3>2. \/ argv = "cat" /\ path = "file"
          \/ argv = "catIndex" /\ path \in Directories /\ index = "file"
      BY <2>2, <3>1 DEF CommandOutput, CatText
    <3> QED
      BY <2>1, <3>1, <3>2 DEF QuietAnswer, PlainType, ContentType, Answer, Directories
  <2> QED
    BY <2>1, <2>2, <2>3, <2>4 DEF RightWhenQuiet, ContentWasRight
<1>8. CASE ExecFails
  <2>1. /\ pc = "execute" /\ UNCHANGED histVars
        /\ response' = Answer(200, ContentType, "execError")
    BY <1>8 DEF ExecFails, Respond
  <2>2. QuietAnswer(path, index) \in seen
    BY <2>1 DEF SeenInv, LookingUp
  <2>3. ASSUME races = 0
        PROVE  /\ QuietAnswer(path, index).status = 200
               /\ response' = [QuietAnswer(path, index) EXCEPT !.body = "execError"]
    <3>1. CASE argv = "cat" /\ path \in {"file", "secret"}
      BY <2>1, <3>1 DEF QuietAnswer, PlainType, ContentType, Answer, Directories
    <3>2. CASE argv = "catIndex" /\ path \in Directories /\ index \in {"file", "secret"}
      BY <2>1, <3>2 DEF QuietAnswer, ContentType, Answer, Directories
    <3>3. CASE argv = "ls" /\ path \in Directories /\ index \notin {"file", "secret"}
      BY <2>1, <3>3 DEF QuietAnswer, ContentType, Answer, Directories
    <3> QED
      BY <2>1, <2>3, <3>1, <3>2, <3>3 DEF QuietInv
  <2>4. races = 0 => response' \in ExecErrors'
    BY <2>1, <2>2, <2>3 DEF ExecErrors
  <2>5. response'.body # "content"
    BY <2>1 DEF Answer
  <2> QED
    BY <2>1, <2>4, <2>5 DEF RightWhenQuiet, ContentWasRight
<1>2. CASE CommandFails \/ ReadFails
  <2>1. response' = ErrorAnswer(500)
    BY <1>2 DEF CommandFails, ReadFails, Respond
  <2> QED
    BY <2>1, ErrorBody DEF RightWhenQuiet, ContentWasRight
<1>3. CASE Parse
  <2>1. seen = {} /\ seen' = seen
    BY <1>3 DEF Parse, SeenInv
  <2>2. pc' = "done" => response' = ErrorAnswer(Verdict(payload))
    BY <1>3 DEF Parse, Respond
  <2> QED
    BY <2>1, <2>2, ErrorBody DEF RightWhenQuiet, ContentWasRight
<1>4. CASE Stat
  <2>1. /\ seen' = {QuietAnswer(path, index)}
        /\ pc' = "done" => \/ path = "absent" /\ response' = ErrorAnswer(404)
                           \/ path = "denied" /\ response' = ErrorAnswer(403)
                           \/ path = "badname" /\ response' = ErrorAnswer(400)
                           \/ path = "special" /\ response' = ErrorAnswer(403)
    BY <1>4 DEF Stat, StatError, Respond
  <2>2. pc' = "done" => response' = QuietAnswer(path, index)
    BY <2>1 DEF QuietAnswer, Directories
  <2> QED
    BY <2>1, <2>2 DEF RightWhenQuiet, ContentWasRight
<1>5. CASE Read \/ ReadEnd \/ StatIndex
  BY <1>5 DEF Read, ReadEnd, StatIndex, RightWhenQuiet, ContentWasRight
<1>6. CASE FilesChange
  BY <1>6 DEF FilesChange, RightWhenQuiet, ContentWasRight
<1>7. CASE ClientEnds \/ UNCHANGED connectionVars
  BY <1>7 DEF ClientEnds, connectionVars, RightWhenQuiet, ExecErrors, ContentWasRight
<1> QED
  BY <1>1, <1>2, <1>3, <1>4, <1>5, <1>6, <1>7, <1>8 DEF ConnectionNext, ConnectionStep
-----------------------------------------------------------------------------
(* The types that ConnectionInv leaves out.                                 *)
AnswerTypes ==
  /\ request \in Requests
  /\ ended \in BOOLEAN /\ argv \in {None, "cat", "catIndex", "ls"}
  /\ changes \in 0..MaxChanges /\ races \in 0..changes
  /\ seen \subseteq Answers /\ response \in Answers \cup {None}

(* Whatever the files are, there is an answer.                              *)
LEMMA AnswersAre ==
  /\ \A status \in {400, 403, 404, 500} : ErrorAnswer(status) \in Answers
  /\ \A kind \in PathKinds, ix \in IndexKinds : html \in BOOLEAN => QuietAnswer(kind, ix) \in Answers
<1>1. \A status \in {200, 400, 403, 404, 500}, answer \in Bodies :
        \A type \in {"text/plain", "text/html", "application/octet-stream"} :
          Answer(status, type, answer) \in Answers
  BY DEF Answer, Answers
<1>2. \A status \in {400, 403, 404, 500} : ErrorAnswer(status) \in Answers
  BY DEF ErrorAnswer, Answer, Answers, Bodies
<1>3. PlainType \in {"text/plain", "text/html", "application/octet-stream"}
  BY DEF PlainType
<1>4. ASSUME NEW kind \in PathKinds, NEW ix \in IndexKinds PROVE QuietAnswer(kind, ix) \in Answers
  <2>1. {"content", "errorText", "listing"} \subseteq Bodies
    BY DEF Bodies
  <2>2. /\ kind = "absent" => QuietAnswer(kind, ix) = ErrorAnswer(404)
        /\ kind = "badname" => QuietAnswer(kind, ix) = ErrorAnswer(400)
        /\ kind \in {"denied", "special"} => QuietAnswer(kind, ix) = ErrorAnswer(403)
        /\ kind = "file" => QuietAnswer(kind, ix) = Answer(200, PlainType, "content")
        /\ kind = "secret" => QuietAnswer(kind, ix) = Answer(200, PlainType, "errorText")
        /\ kind \in Directories => QuietAnswer(kind, ix) \in
             { Answer(200, "text/html", "content"), Answer(200, "text/html", "errorText"),
               Answer(200, "application/octet-stream", "listing"),
               Answer(200, "application/octet-stream", "errorText") }
    BY DEF QuietAnswer, Directories
  <2> QED
    BY <1>1, <1>2, <1>3, <2>1, <2>2 DEF PathKinds, Directories
<1> QED
  BY <1>2, <1>4

(* An answer is a status, a type and a body.                                *)
LEMMA AnswerTypesStep ==
  TextInv /\ SeenInv /\ ArgvInv /\ AnswerTypes /\ [ConnectionNext]_connectionVars => AnswerTypes'
<1> SUFFICES ASSUME TextInv, SeenInv, ArgvInv, AnswerTypes, [ConnectionNext]_connectionVars
             PROVE  AnswerTypes'
  OBVIOUS
<1>1. /\ path \in PathKinds /\ index \in IndexKinds /\ html \in BOOLEAN
      /\ \A status \in {400, 403, 404, 500} : ErrorAnswer(status) \in Answers
      /\ \A kind \in PathKinds, ix \in IndexKinds : QuietAnswer(kind, ix) \in Answers
  BY AnswersAre DEF SeenInv
<1>2. ASSUME UNCHANGED <<request, argv, changes, histVars>>, ended' \in BOOLEAN,
             response' \in Answers \cup {response}
      PROVE  AnswerTypes'
  BY <1>2 DEF AnswerTypes, histVars
<1>3. CASE Read \/ ReadEnd \/ ClientEnds \/ UNCHANGED connectionVars
  <2>1. UNCHANGED <<request, argv, changes, histVars, response>> /\ ended' \in BOOLEAN
    BY <1>3 DEF Read, ReadEnd, ClientEnds, connectionVars, fsVars, AnswerTypes
  <2> QED
    BY <1>2, <2>1
<1>4. CASE ReadFails \/ CommandFails
  <2>1. UNCHANGED <<request, ended, argv, changes, histVars>> /\ response' = ErrorAnswer(500)
    BY <1>4 DEF ReadFails, CommandFails, Respond, fsVars
  <2> QED
    BY <1>1, <1>2, <2>1 DEF AnswerTypes
<1>5. CASE Parse
  <2>1. Verdict(payload) \in {200, 400, 403}
    BY DEF Verdict
  <2>2. /\ UNCHANGED <<request, ended, argv, changes, histVars>>
        /\ \/ response' = response
           \/ Verdict(payload) # 200 /\ response' = ErrorAnswer(Verdict(payload))
    BY <1>5 DEF Parse, Respond, fsVars
  <2> QED
    BY <1>1, <1>2, <2>1, <2>2 DEF AnswerTypes
<1>6. CASE Stat
  <2>1. /\ UNCHANGED <<request, ended, changes, races>> /\ seen' = {QuietAnswer(path, index)}
        /\ argv' \in {argv, "cat"}
    BY <1>6 DEF Stat, fsVars
  <2>2. path \in {"absent", "denied", "badname"} => StatError(path) \in {400, 403, 404}
    BY DEF StatError
  <2>3. response' \in Answers \cup {response}
    BY <1>1, <1>6, <2>2 DEF Stat, Respond
  <2> QED
    BY <1>1, <2>1, <2>3 DEF AnswerTypes
<1>7. CASE StatIndex
  <2>1. UNCHANGED <<request, ended, changes, histVars, response>> /\ argv' \in {"catIndex", "ls"}
    BY <1>7 DEF StatIndex, fsVars
  <2> QED
    BY <2>1 DEF AnswerTypes, histVars
<1>8. CASE Execute
  <2>1. ContentType \in {"text/html", "application/octet-stream"}
    BY DEF ContentType
  <2>2. CommandOutput \in Bodies
    <3>1. argv \in {"cat", "catIndex", "ls"}
      BY <1>8 DEF Execute, ArgvInv
    <3> QED
      BY <3>1 DEF CommandOutput, CatText, Bodies
  <2>3. Answer(200, ContentType, CommandOutput) \in Answers
    BY <2>1, <2>2 DEF Answer, Answers
  <2>4. /\ UNCHANGED <<request, ended, argv, changes, histVars>>
        /\ response' = Answer(200, ContentType, CommandOutput)
    BY <1>8 DEF Execute, Respond, fsVars
  <2> QED
    BY <1>2, <2>3, <2>4 DEF AnswerTypes
<1>10. CASE ExecFails
  <2>1. ContentType \in {"text/html", "application/octet-stream"}
    BY DEF ContentType
  <2>2. Answer(200, ContentType, "execError") \in Answers
    BY <2>1 DEF Answer, Answers, Bodies
  <2>3. /\ UNCHANGED <<request, ended, argv, changes, histVars>>
        /\ response' = Answer(200, ContentType, "execError")
    BY <1>10 DEF ExecFails, Respond, fsVars
  <2> QED
    BY <1>2, <2>2, <2>3 DEF AnswerTypes
<1>9. CASE FilesChange
  <2>1. /\ changes < MaxChanges /\ changes' = changes + 1 /\ races' \in {races, races + 1}
        /\ path' \in PathKinds /\ index' \in IndexKinds
        /\ UNCHANGED <<request, ended, html, argv, response>>
    <3>1. races \in Nat
      BY DEF SeenInv
    <3> QED
      BY <1>1, <1>9, <3>1 DEF FilesChange
  <2>2. QuietAnswer(path', index') \in Answers
    BY <1>1, <2>1
  <2>3. seen' \subseteq seen \cup {QuietAnswer(path', index')}
    BY <1>9 DEF FilesChange
  <2> QED
    BY <2>1, <2>2, <2>3, ConnectionAssumption DEF AnswerTypes, ConnectionAssumption
<1> QED
  BY <1>3, <1>4, <1>5, <1>6, <1>7, <1>8, <1>9, <1>10 DEF ConnectionNext, ConnectionStep

(* The invariant holds in every reachable state.                            *)
LEMMA ConnectionInvariance == ConnectionSpec => []ConnectionInv
<1>1. ConnectionInv /\ [ConnectionNext]_connectionVars => ConnectionInv'
  BY TextStep, SeenStep, VerdictStep, AnswerStep DEF ConnectionInv
<1> QED
  BY <1>1, ConnectionInitInv, PTL DEF ConnectionSpec

(* Every variable keeps its type; among them, a status is one of five, and a*)
(* body one of the five that the code makes.                                *)
THEOREM ConnectionTypeCorrect == ConnectionSpec => []ConnectionTypeOK
<1>1. ASSUME ConnectionInit PROVE AnswerTypes
  <2>1. 0 \in 0..MaxChanges /\ 0 \in 0..0
    BY ConnectionAssumption DEF ConnectionAssumption
  <2> QED
    BY <1>1, <2>1 DEF ConnectionInit, AnswerTypes
<1>2. ConnectionInv /\ AnswerTypes /\ [ConnectionNext]_connectionVars => AnswerTypes'
  BY AnswerTypesStep DEF ConnectionInv
<1>3. ConnectionInv /\ AnswerTypes => ConnectionTypeOK
  BY DEF ConnectionInv, TextInv, SeenInv, AnswerTypes, ConnectionTypeOK, Texts
<1> QED
  BY <1>1, <1>2, <1>3, ConnectionInvariance, PTL DEF ConnectionSpec

(* However a request is cut into chunks, and whatever follows its header,   *)
(* what its first line deserves is what is done about it.                   *)
THEOREM ChunksDoNotMatter == ConnectionSpec => []VerdictOfRequest
<1>1. ConnectionInv => VerdictOfRequest
  BY DEF ConnectionInv
<1> QED
  BY <1>1, ConnectionInvariance, PTL

(* Files that stand still are answered for as they are.                     *)
THEOREM QuietFilesRight == ConnectionSpec => []RightWhenQuiet
<1>1. ConnectionInv => RightWhenQuiet
  BY DEF ConnectionInv
<1> QED
  BY <1>1, ConnectionInvariance, PTL

(* However often the files change, a file's content goes out only with the  *)
(* status and type that were right at a moment since the path was looked up.*)
THEOREM ContentRight == ConnectionSpec => []ContentWasRight
<1>1. ConnectionInv => ContentWasRight
  BY DEF ConnectionInv
<1> QED
  BY <1>1, ConnectionInvariance, PTL
-----------------------------------------------------------------------------
Accepted == {"sigaction", "socket", "setsockopt", "address", "bind", "listen", "serve"}

(* What the checks established about the argument stays true behind them.   *)
PortInv ==
  /\ arg \in Args
  /\ stage \in Accepted \cup {"port"} => argc = 2
  /\ stage \in Accepted => WellFormed /\ InRange
  /\ stage \in {"bind", "listen", "serve"} => sin_port = arg.value
  /\ stage \in {"listen", "serve"} =>
       bound \in IF arg.value = 0 THEN Ephemeral ELSE {arg.value}

(* For whatever argument the program is given, a server that listens does   *)
(* so on that port, or on a port of the kernel's choice when it is 0.       *)
THEOREM PortSurvives == StartupSpec => []ListensOnGivenPort
<1>1. StartupInit => PortInv
  BY DEF StartupInit, PortInv, Accepted
<1>2. PortInv /\ [StartupNext]_startupVars => PortInv'
  <2> SUFFICES ASSUME PortInv, [StartupNext]_startupVars PROVE PortInv'
    OBVIOUS
  <2> USE DEF PortInv, Accepted, WellFormed, InRange
  <2>1. CASE ValidateArgs
    BY <2>1 DEF ValidateArgs, Fatal
  <2>2. CASE ParsePort
    BY <2>2 DEF ParsePort, Fatal
  <2>3. CASE Prepare
    BY <2>3 DEF Prepare
  <2>4. CASE FillAddress
    <3>1. arg.value \in Nat /\ arg.value < 65535
      BY <2>4, StartupAssumption DEF FillAddress, StartupAssumption
    <3>2. arg.value % 65536 = arg.value
      BY <3>1
    <3> QED
      BY <2>4, <3>2 DEF FillAddress
  <2>5. CASE Bind
    BY <2>5 DEF Bind
  <2>8. CASE Listen
    BY <2>8 DEF Listen
  <2>6. CASE CallFails
    BY <2>6 DEF CallFails, Fatal
  <2>7. CASE UNCHANGED startupVars
    BY <2>7 DEF startupVars
  <2> QED
    BY <2>1, <2>2, <2>3, <2>4, <2>5, <2>6, <2>7, <2>8 DEF StartupNext
<1>3. PortInv => ListensOnGivenPort
  <2> SUFFICES ASSUME PortInv, stage = "serve"
               PROVE  /\ argc = 2 /\ arg.value \in Nat /\ arg.value < 65535
                      /\ bound \in IF arg.value = 0 THEN Ephemeral ELSE {arg.value}
    BY DEF ListensOnGivenPort
  <2>1. arg.value \in Nat /\ arg.value < 65535
    BY StartupAssumption DEF StartupAssumption, PortInv, Accepted, WellFormed, InRange
  <2>2. argc = 2 /\ bound \in IF arg.value = 0 THEN Ephemeral ELSE {arg.value}
    BY DEF PortInv, Accepted
  <2> QED
    BY <2>1, <2>2
<1> QED
  BY <1>1, <1>2, <1>3, PTL DEF StartupSpec
=============================================================================
