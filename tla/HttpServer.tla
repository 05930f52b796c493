----------------------------- MODULE HttpServer -----------------------------
(***************************************************************************)
(* http-server/: the processes.  The server accepts and forks one child    *)
(* per connection; the child reads the request, for a file or a directory  *)
(* runs a command (cat, ls) through execute(), replies and exits.  Both    *)
(* have reapZombie as their SIGCHLD handler, the child by inheritance.     *)
(*                                                                         *)
(* What the child answers is HttpConnection's subject; here only whether   *)
(* it needs a command, and how much the answer is.  A pending SIGCHLD is   *)
(* one bit per process.                                                    *)
(***************************************************************************)
EXTENDS Integers, FiniteSets

CONSTANTS
  Conns,       (* the connections clients make                              *)
  OutputMax,   (* bound: chunks of output of a command                      *)
  PipeCap,     (* chunks the pipe of execute() holds                        *)
  SockCap,     (* chunks of an answer the kernel takes from a child whose   *)
               (* client does not read                                      *)
  NoConn       (* clientSocket of the server when it holds none             *)

ASSUME HttpAssumption ==
  /\ IsFiniteSet(Conns) /\ NoConn \notin Conns
  /\ OutputMax \in Nat /\ PipeCap \in Nat \ {0} /\ SockCap \in Nat

VARIABLES
  server,      (* where serve() is                                          *)
  clientSocket,(* the connection the server's local Socket owns, or NoConn  *)
  handling,    (* the server runs reapZombie                                *)
  sigchld,     (* who has a SIGCHLD pending: NoConn for the server, a child *)
  conn,        (* [Conns -> "off", "queued" in the backlog, "accepted"]     *)
  requested,   (* the clients whose whole request has arrived               *)
  gone,        (* the clients that closed their end                         *)
  holders,     (* [Conns -> who has the accepted descriptor open]           *)
  child,       (* [Conns -> where the child process is]                     *)
  command,     (* [Conns -> the process execute() forked]                   *)
  output,      (* [Conns -> chunks the command has still to write]          *)
  pipe,        (* [Conns -> chunks in the pipe of execute()]                *)
  body,        (* [Conns -> chunks of the command's output in the answer]   *)
  replied      (* the connections a response was written to                 *)

serverVars == <<server, clientSocket, handling>>
clientVars == <<requested, gone>>
commandVars == <<command, output, pipe, body>>
vars == <<serverVars, sigchld, conn, clientVars, holders, child, commandVars, replied>>

Alive == {"read", "execute", "collect", "wait", "send", "exit"}

TypeOK ==
  /\ server \in {"accept", "fork", "destroy"}
  /\ clientSocket \in Conns \cup {NoConn}
  /\ handling \in BOOLEAN
  /\ sigchld \subseteq Conns \cup {NoConn}
  /\ conn \in [Conns -> {"off", "queued", "accepted"}]
  /\ requested \subseteq Conns /\ gone \subseteq Conns /\ replied \subseteq Conns
  /\ holders \in [Conns -> SUBSET {"server", "child", "command"}]
  /\ child \in [Conns -> {"none", "zombie", "reaped"} \cup Alive]
  /\ command \in [Conns -> {"none", "running", "closed", "zombie", "reaped"}]
  /\ output \in [Conns -> 0..OutputMax]
  /\ pipe \in [Conns -> 0..PipeCap]
  /\ body \in [Conns -> 0..OutputMax]

Init ==
  /\ server = "accept" /\ clientSocket = NoConn /\ handling = FALSE
  /\ sigchld = {}
  /\ conn = [c \in Conns |-> "off"]
  /\ requested = {} /\ gone = {} /\ replied = {}
  /\ holders = [c \in Conns |-> {}]
  /\ child = [c \in Conns |-> "none"]
  /\ command = [c \in Conns |-> "none"]
  /\ output = [c \in Conns |-> 0]
  /\ pipe = [c \in Conns |-> 0]
  /\ body = [c \in Conns |-> 0]

Goto(c, label) == child' = [child EXCEPT ![c] = label]
-----------------------------------------------------------------------------
(* serve(): one connection per iteration.  A call that SIGCHLD interrupts   *)
(* is restarted (SA_RESTART), so the handler only delays it.                *)

Accept(c) ==
  /\ server = "accept" /\ ~handling
  /\ conn[c] = "queued"
  /\ conn' = [conn EXCEPT ![c] = "accepted"]
  /\ clientSocket' = c
  /\ holders' = [holders EXCEPT ![c] = @ \cup {"server"}]
  /\ server' = "fork"
  /\ UNCHANGED <<handling, sigchld, clientVars, child, commandVars, replied>>

(* The child inherits the descriptor, and closes the server's own.          *)
Fork ==
  /\ server = "fork" /\ ~handling
  /\ holders' = [holders EXCEPT ![clientSocket] = @ \cup {"child"}]
  /\ Goto(clientSocket, "read")
  /\ server' = "destroy"
  /\ UNCHANGED <<clientSocket, handling, sigchld, conn, clientVars, commandVars, replied>>

(* LOG_ERROR; continue: the iteration ends without a child.                 *)
ForkFails ==
  /\ server = "fork" /\ ~handling
  /\ server' = "destroy"
  /\ UNCHANGED <<clientSocket, handling, sigchld, conn, clientVars, holders,
                 child, commandVars, replied>>

DestroySocket_KeepsFd ==
  /\ server = "destroy" /\ ~handling
  /\ clientSocket' = NoConn
  /\ server' = "accept"
  /\ UNCHANGED <<handling, sigchld, conn, clientVars, holders, child, commandVars, replied>>

(* End of the iteration's scope: ~Socket closes the server's descriptor.    *)
DestroySocket ==
  /\ server = "destroy" /\ ~handling
  /\ holders' = [holders EXCEPT ![clientSocket] = @ \ {"server"}]
  /\ clientSocket' = NoConn
  /\ server' = "accept"
  /\ UNCHANGED <<handling, sigchld, conn, clientVars, child, commandVars, replied>>
-----------------------------------------------------------------------------
(* reapZombie() in the server: SIGCHLD is held back while it runs, and one  *)
(* pending signal stands for any number of children.                        *)

HandlerEnters ==
  /\ NoConn \in sigchld /\ ~handling
  /\ sigchld' = sigchld \ {NoConn}
  /\ handling' = TRUE
  /\ UNCHANGED <<server, clientSocket, conn, clientVars, holders, child, commandVars, replied>>

HandlerReaps_Once(c) ==
  /\ handling /\ child[c] = "zombie"
  /\ Goto(c, "reaped")
  /\ handling' = FALSE
  /\ UNCHANGED <<server, clientSocket, sigchld, conn, clientVars, holders, commandVars, replied>>

(* waitpid(-1, nullptr, WNOHANG) > 0: some child, and once more.            *)
HandlerReaps(c) ==
  /\ handling /\ child[c] = "zombie"
  /\ Goto(c, "reaped")
  /\ UNCHANGED <<serverVars, sigchld, conn, clientVars, holders, commandVars, replied>>

HandlerReturns ==
  /\ handling /\ \A c \in Conns : child[c] # "zombie"
  /\ handling' = FALSE
  /\ UNCHANGED <<server, clientSocket, sigchld, conn, clientVars, holders,
                 child, commandVars, replied>>
-----------------------------------------------------------------------------
(* The child: handleConnection, and execute() when it needs a command.      *)

(* The read loop ends with the whole request or with the client's end; the  *)
(* answer is an error, or the output of a command.                          *)
ReadRequest(c) ==
  /\ child[c] = "read"
  /\ c \in requested \cup gone
  /\ \E next \in {"execute", "send"} : Goto(c, next)
  /\ UNCHANGED <<serverVars, sigchld, conn, clientVars, holders, commandVars, replied>>

(* execute(): pipe and fork; the command inherits the client's descriptor,  *)
(* which is not close-on-exec, and the child closes the pipe's write end ... *)
ExecuteForks(c) ==
  /\ child[c] = "execute"
  /\ command' = [command EXCEPT ![c] = "running"]
  /\ \E n \in 0..OutputMax : output' = [output EXCEPT ![c] = n]
  /\ holders' = [holders EXCEPT ![c] = @ \cup {"command"}]
  /\ Goto(c, "collect")
  /\ UNCHANGED <<serverVars, sigchld, conn, clientVars, pipe, body, replied>>

(* ... or an exception, which handleConnection answers with a 500.          *)
ExecuteFails(c) ==
  /\ child[c] = "execute"
  /\ Goto(c, "send")
  /\ UNCHANGED <<serverVars, sigchld, conn, clientVars, holders, commandVars, replied>>

(* The read loop empties the pipe and ends when nobody can write to it.     *)
Collect(c) ==
  /\ child[c] = "collect" /\ pipe[c] > 0
  /\ body' = [body EXCEPT ![c] = @ + pipe[c]]
  /\ pipe' = [pipe EXCEPT ![c] = 0]
  /\ UNCHANGED <<serverVars, sigchld, conn, clientVars, holders, child, command,
                 output, replied>>

CollectEnds_WaitsFirst(c) ==
  /\ child[c] = "collect"
  /\ Goto(c, "wait")
  /\ UNCHANGED <<serverVars, sigchld, conn, clientVars, holders, commandVars, replied>>

CollectEnds(c) ==
  /\ child[c] = "collect" /\ pipe[c] = 0 /\ command[c] # "running"
  /\ Goto(c, "wait")
  /\ UNCHANGED <<serverVars, sigchld, conn, clientVars, holders, commandVars, replied>>

(* read() fails: the pipe is closed with what is in it, and the exception is*)
(* answered with a 500; nobody waits for the command.                       *)
CollectFails(c) ==
  /\ child[c] = "collect"
  /\ pipe' = [pipe EXCEPT ![c] = 0]
  /\ body' = [body EXCEPT ![c] = 0]
  /\ Goto(c, "send")
  /\ UNCHANGED <<serverVars, sigchld, conn, clientVars, holders, command, output,
                 replied>>

(* waitpid(pid, &status, 0): the command, or ECHILD when the inherited      *)
(* reapZombie was there first; neither result is looked at.                 *)
WaitCommand_NeedsZombie(c) ==
  /\ child[c] = "wait" /\ command[c] = "zombie"
  /\ command' = [command EXCEPT ![c] = "reaped"]
  /\ Goto(c, "send")
  /\ UNCHANGED <<serverVars, sigchld, conn, clientVars, holders, output, pipe, body,
                 replied>>

WaitCommand(c) ==
  /\ child[c] = "wait" /\ command[c] \in {"zombie", "reaped"}
  /\ command' = [command EXCEPT ![c] = "reaped"]
  /\ Goto(c, "send")
  /\ UNCHANGED <<serverVars, sigchld, conn, clientVars, holders, output, pipe, body,
                 replied>>

(* reapZombie in the child.                                                 *)
ChildReaps(c) ==
  /\ child[c] \in Alive /\ c \in sigchld
  /\ sigchld' = sigchld \ {c}
  /\ command' = [command EXCEPT ![c] = IF @ = "zombie" THEN "reaped" ELSE @]
  /\ UNCHANGED <<serverVars, conn, clientVars, holders, child, output, pipe, body,
                 replied>>

Fits(c) == body[c] <= SockCap

Sent(c) ==
  /\ replied' = replied \cup {c}
  /\ body' = [body EXCEPT ![c] = 0]
  /\ Goto(c, "exit")
  /\ UNCHANGED <<serverVars, sigchld, conn, clientVars, holders, command, output, pipe>>

(* sendResponse: write() returns once the kernel has taken the whole answer *)
(* ...                                                                      *)
Send(c) == child[c] = "send" /\ Fits(c) /\ Sent(c)

(* ... which, when the answer is long, takes a client that reads.           *)
SendDrained(c) == child[c] = "send" /\ ~Fits(c) /\ c \notin gone /\ Sent(c)

(* _exit, or SIGPIPE in sendResponse once the client has gone: descriptors  *)
(* are closed and the server is told.                                       *)
Exit(c) ==
  /\ child[c] = "exit" \/ (child[c] = "send" /\ c \in gone)
  /\ holders' = [holders EXCEPT ![c] = @ \ {"child"}]
  /\ sigchld' = (sigchld \ {c}) \cup {NoConn}
  /\ body' = [body EXCEPT ![c] = 0]
  /\ Goto(c, "zombie")
  /\ UNCHANGED <<serverVars, conn, clientVars, command, output, pipe, replied>>
-----------------------------------------------------------------------------
(* The command, whose output is the pipe.                                   *)

(* Whoever started the command does not read its output any more.           *)
ReaderGone(c) == child[c] \in {"send", "exit", "zombie", "reaped"}

CommandWrites(c) ==
  /\ command[c] = "running" /\ ~ReaderGone(c)
  /\ output[c] > 0 /\ pipe[c] < PipeCap
  /\ output' = [output EXCEPT ![c] = @ - 1]
  /\ pipe' = [pipe EXCEPT ![c] = @ + 1]
  /\ UNCHANGED <<serverVars, sigchld, conn, clientVars, holders, child, command, body,
                 replied>>

(* It ends, when it has written everything or of SIGPIPE: its descriptors   *)
(* are closed before it is a zombie and SIGCHLD is sent.                    *)
CommandCloses(c) ==
  /\ command[c] = "running" /\ (output[c] = 0 \/ ReaderGone(c))
  /\ command' = [command EXCEPT ![c] = "closed"]
  /\ output' = [output EXCEPT ![c] = 0]
  /\ holders' = [holders EXCEPT ![c] = @ \ {"command"}]
  /\ UNCHANGED <<serverVars, sigchld, conn, clientVars, child, pipe, body, replied>>

(* One that outlives the child is init's to reap.                           *)
CommandExits(c) ==
  /\ command[c] = "closed"
  /\ \/ /\ child[c] \in Alive
        /\ command' = [command EXCEPT ![c] = "zombie"]
        /\ sigchld' = sigchld \cup {c}
     \/ /\ child[c] \notin Alive
        /\ command' = [command EXCEPT ![c] = "reaped"]
        /\ UNCHANGED sigchld
  /\ UNCHANGED <<serverVars, conn, clientVars, holders, child, output, pipe, body,
                 replied>>
-----------------------------------------------------------------------------
(* The clients.                                                             *)

Connect(c) ==
  /\ conn[c] = "off"
  /\ conn' = [conn EXCEPT ![c] = "queued"]
  /\ UNCHANGED <<serverVars, sigchld, clientVars, holders, child, commandVars, replied>>

SendRequest(c) ==
  /\ conn[c] # "off" /\ c \notin requested \cup gone
  /\ requested' = requested \cup {c}
  /\ UNCHANGED <<serverVars, sigchld, conn, gone, holders, child, commandVars, replied>>

GoAway(c) ==
  /\ conn[c] # "off" /\ c \notin gone
  /\ gone' = gone \cup {c}
  /\ UNCHANGED <<serverVars, sigchld, conn, requested, holders, child, commandVars, replied>>
-----------------------------------------------------------------------------
ServeStep == (\E c \in Conns : Accept(c)) \/ Fork \/ ForkFails \/ DestroySocket
HandlerStep == HandlerEnters \/ (\E c \in Conns : HandlerReaps(c)) \/ HandlerReturns

ChildStep(c) ==
  \/ ReadRequest(c) \/ ExecuteForks(c) \/ ExecuteFails(c)
  \/ Collect(c) \/ CollectEnds(c) \/ WaitCommand(c) \/ Send(c) \/ Exit(c)

CommandStep(c) == CommandWrites(c) \/ CommandCloses(c) \/ CommandExits(c)

Next ==
  \/ ServeStep
  \/ HandlerStep
  \/ \E c \in Conns : ChildStep(c) \/ SendDrained(c) \/ CollectFails(c) \/ ChildReaps(c) \/ CommandStep(c)
  \/ \E c \in Conns : Connect(c) \/ SendRequest(c) \/ GoAway(c)

Spec == Init /\ [][Next]_vars

(* The operating system runs every process and delivers pending signals;    *)
(* clients do as they please, and that a read fails or a client reads is not *)
(* counted on.                                                              *)
FairSpec ==
  /\ Spec
  /\ WF_vars(ServeStep) /\ WF_vars(HandlerStep)
  /\ \A c \in Conns :
       WF_vars(ChildStep(c)) /\ WF_vars(ChildReaps(c)) /\ WF_vars(CommandStep(c))
-----------------------------------------------------------------------------
(* No zombie is forgotten: while a child waits to be reaped, a SIGCHLD is   *)
(* pending or the handler's loop has not ended, although signals of several *)
(* children are merged into one.                                            *)
NoStrandedZombie ==
  (\E c \in Conns : child[c] = "zombie") => NoConn \in sigchld \/ handling

(* The server holds a connection only from accept to the end of that        *)
(* iteration, on every path through it: descriptors do not pile up.         *)
NoDescriptorLeak ==
  \A c \in Conns : "server" \in holders[c] <=> clientSocket = c

(* execute() collects all the command wrote before it waits for it: the     *)
(* output is complete and the command cannot be stuck on a full pipe.       *)
OutputComplete ==
  \A c \in Conns : child[c] = "wait" => output[c] = 0 /\ pipe[c] = 0

(* The answer does not fit, and its client neither reads nor goes away:     *)
(* nothing in the code limits how long the child stays in write().          *)
Deaf(c) == child[c] = "send" /\ ~Fits(c) /\ c \notin gone

(* A client that sends its request gets an answer, unless the fork for it   *)
(* failed, it went away, or it stays deaf to a long one: a request stays    *)
(* sent, so that a client which ends being deaf is spoken of again.         *)
EveryRequestAnswered ==
  \A c \in Conns :
    (c \in requested) ~>
      \/ c \in replied \cup gone \/ Deaf(c)
      \/ conn[c] = "accepted" /\ holders[c] = {} /\ child[c] = "none"

(* Whoever was accepted and sends a request, or goes away, sees the         *)
(* connection closed, unless it stays deaf: the server, the child and the   *)
(* command that inherited it all let go of it, on every path.               *)
ConnectionsClosed ==
  \A c \in Conns :
    (c \in requested \cup gone) ~>
      Deaf(c) \/ (conn[c] = "accepted" /\ holders[c] = {})
=============================================================================
