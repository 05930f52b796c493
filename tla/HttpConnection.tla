--------------------------- MODULE HttpConnection ---------------------------
(***************************************************************************)
(* http-server/: what a child answers.  The request arrives in chunks of   *)
(* any size; it is complete at the first empty line or at the client's     *)
(* end, its first line is parsed, and its path is looked up in a file      *)
(* system other programs change between one system call and the next.      *)
(*                                                                         *)
(* Text is a sequence of symbols: CR, LF, SP (any other blank) and words,  *)
(* of which only their kind matters: "abs" begins with // or http(s)://,   *)
(* "up" contains "..", "absup" both, "word" neither.                       *)
(***************************************************************************)
EXTENDS Integers, Sequences, SequencesExt

CONSTANTS
  Requests,    (* what clients send, as sequences of symbols                *)
  ChunkMax,    (* symbols one read() returns at most                        *)
  MaxChanges,  (* bound: changes of the file system                         *)
  None         (* no answer, no command                                     *)

Words == {"word", "abs", "up", "absup"}
Symbols == Words \cup {"CR", "LF", "SP"}

ASSUME ConnectionAssumption ==
  /\ Requests \subseteq Seq(Symbols)
  /\ ChunkMax \in Nat \ {0} /\ MaxChanges \in Nat

(* The named path, and index.html below it when it is a directory.          *)
(* A file or an index is secret, a directory unlistable, when it can be     *)
(* looked up but not read.                                                  *)
PathKinds ==
  {"absent", "denied", "badname", "file", "secret", "dir", "unlistable", "special"}
Directories == {"dir", "unlistable"}
IndexKinds == {"absent", "file", "secret", "dir"}
Bodies == {"", "content", "listing", "errorText", "execError"}

VARIABLES
  pc,          (* where handleConnection is                                 *)
  request,     (* all the client sends                                      *)
  unread,      (* the part of it the child has not read                     *)
  ended,       (* the client has closed its end                             *)
  payload,     (* requestPayload                                            *)
  path,        (* what the path is now                                      *)
  index,       (* what <path>/index.html is now                             *)
  html,        (* the path ends in .html                                    *)
  argv,        (* the command handleRequest decided on                      *)
  changes,     (* how often the file system changed                         *)
  races,       (* history: changes since the first stat                     *)
  seen,        (* history: what would have been right, at and since then    *)
  response     (* the answer, None before it is sent                        *)

fsVars == <<path, index, html, changes>>
histVars == <<races, seen>>
connectionVars == <<pc, request, unread, ended, payload, fsVars, argv, histVars, response>>

Answer(status, type, body) == [status |-> status, type |-> type, body |-> body]
ErrorAnswer(status) == Answer(status, "text/plain", "")
Answers ==
  [status : {200, 400, 403, 404, 500}, body : Bodies,
   type : {"text/plain", "text/html", "application/octet-stream"}]

ConnectionTypeOK ==
  /\ pc \in {"read", "parse", "stat", "statIndex", "execute", "done"}
  /\ request \in Requests /\ unread \in Seq(Symbols) /\ payload \in Seq(Symbols)
  /\ ended \in BOOLEAN /\ html \in BOOLEAN
  /\ path \in PathKinds /\ index \in IndexKinds
  /\ argv \in {None, "cat", "catIndex", "ls"}
  /\ changes \in 0..MaxChanges /\ races \in 0..changes /\ seen \subseteq Answers
  /\ response \in Answers \cup {None}

ConnectionInit ==
  /\ pc = "read"
  /\ request \in Requests /\ unread = request
  /\ ended = FALSE
  /\ payload = <<>>
  /\ path \in PathKinds /\ index \in IndexKinds /\ html \in BOOLEAN
  /\ argv = None
  /\ changes = 0 /\ races = 0 /\ seen = {}
  /\ response = None

Respond(answer) == response' = answer /\ pc' = "done"
(* What the file system, left alone, makes of a well-formed request.        *)
PlainType == IF html THEN "text/html" ELSE "application/octet-stream"

QuietAnswer(kind, ix) ==
  CASE kind = "absent" -> ErrorAnswer(404)
    [] kind = "badname" -> ErrorAnswer(400)
    [] kind \in {"denied", "special"} -> ErrorAnswer(403)
    [] kind = "file" -> Answer(200, PlainType, "content")
    [] kind = "secret" -> Answer(200, PlainType, "errorText")
    [] kind \in Directories /\ ix = "file" -> Answer(200, "text/html", "content")
    [] kind \in Directories /\ ix = "secret" -> Answer(200, "text/html", "errorText")
    [] OTHER -> Answer(200, "application/octet-stream",
                       IF kind = "dir" THEN "listing" ELSE "errorText")
-----------------------------------------------------------------------------
(* handleConnection: the read loop.                                         *)

HasTerminator(text) ==
  \E i \in 1..Len(text) - 3 : SubSeq(text, i, i + 3) = <<"CR", "LF", "CR", "LF">>

Read_ChunkOnly ==
  /\ pc = "read"
  /\ \E n \in 1..ChunkMax :
       /\ n <= Len(unread)
       /\ payload' = payload \o SubSeq(unread, 1, n)
       /\ unread' = SubSeq(unread, n + 1, Len(unread))
       /\ pc' = IF HasTerminator(SubSeq(unread, 1, n)) THEN "parse" ELSE "read"
  /\ UNCHANGED <<request, ended, fsVars, argv, histVars, response>>

Read_Overwrites ==
  /\ pc = "read"
  /\ \E n \in 1..ChunkMax :
       /\ n <= Len(unread)
       /\ payload' = SubSeq(unread, 1, n)
       /\ unread' = SubSeq(unread, n + 1, Len(unread))
       /\ pc' = IF HasTerminator(payload') THEN "parse" ELSE "read"
  /\ UNCHANGED <<request, ended, fsVars, argv, histVars, response>>

(* The terminator is looked for in all that was read so far.                *)
Read ==
  /\ pc = "read"
  /\ \E n \in 1..ChunkMax :
       /\ n <= Len(unread)
       /\ payload' = payload \o SubSeq(unread, 1, n)
       /\ unread' = SubSeq(unread, n + 1, Len(unread))
       /\ pc' = IF HasTerminator(payload') THEN "parse" ELSE "read"
  /\ UNCHANGED <<request, ended, fsVars, argv, histVars, response>>

(* read() returns 0: what was read is the request.                          *)
ReadEnd ==
  /\ pc = "read" /\ unread = <<>> /\ ended
  /\ pc' = "parse"
  /\ UNCHANGED <<request, unread, ended, payload, fsVars, argv, histVars, response>>

(* read() fails, as when the client resets the connection.                  *)
ReadFails ==
  /\ pc = "read"
  /\ Respond(ErrorAnswer(500))
  /\ UNCHANGED <<request, unread, ended, payload, fsVars, argv, histVars>>
-----------------------------------------------------------------------------
(* HTTPRequest::parse and parseRequestLine.                                 *)

(* std::getline: up to the first LF.  A payload is never cut before that.   *)
FirstLine(text) ==
  LET ends == {i \in DOMAIN text : text[i] = "LF"} IN
  IF ends = {} THEN text
  ELSE SubSeq(text, 1, (CHOOSE i \in ends : \A j \in ends : i <= j) - 1)

(* rl >> method >> endpoint >> version: words, with CR a blank.             *)
Tokens(line) == SelectSeq(line, LAMBDA s : s \in Words)

(* 200 stands for a request that is well-formed so far.                     *)
Verdict(text) ==
  LET tokens == Tokens(FirstLine(text)) IN
  IF Len(tokens) < 3 THEN 400
  ELSE IF tokens[2] \in {"abs", "absup"} THEN 400
  ELSE IF tokens[2] = "up" THEN 403 ELSE 200

Parse ==
  /\ pc = "parse"
  /\ \/ Verdict(payload) = 200 /\ pc' = "stat" /\ UNCHANGED response
     \/ Verdict(payload) # 200 /\ Respond(ErrorAnswer(Verdict(payload)))
  /\ UNCHANGED <<request, unread, ended, payload, fsVars, argv, histVars>>
-----------------------------------------------------------------------------
(* handleRequest.                                                           *)

(* throwStatusOnErrno: ENOENT, EACCES, and every other errno.               *)
StatError(kind) ==
  CASE kind = "absent" -> 404
    [] kind = "denied" -> 403
    [] kind = "badname" -> 400

Stat_SpecialIsFile ==
  /\ pc = "stat"
  /\ seen' = {QuietAnswer(path, index)} /\ UNCHANGED races
  /\ \/ /\ path \in {"absent", "denied", "badname"}
        /\ Respond(ErrorAnswer(StatError(path))) /\ UNCHANGED argv
     \/ /\ path \in {"file", "secret", "special"}
        /\ argv' = "cat" /\ pc' = "execute" /\ UNCHANGED response
     \/ /\ path \in Directories
        /\ pc' = "statIndex" /\ UNCHANGED <<argv, response>>
  /\ UNCHANGED <<request, unread, ended, payload, fsVars>>

Stat ==
  /\ pc = "stat"
  /\ seen' = {QuietAnswer(path, index)} /\ UNCHANGED races
  /\ \/ /\ path \in {"absent", "denied", "badname"}
        /\ Respond(ErrorAnswer(StatError(path))) /\ UNCHANGED argv
     \/ /\ path \in {"file", "secret"}
        /\ argv' = "cat" /\ pc' = "execute" /\ UNCHANGED response
     \/ /\ path \in Directories
        /\ pc' = "statIndex" /\ UNCHANGED <<argv, response>>
     \/ /\ path = "special"
        /\ Respond(ErrorAnswer(403)) /\ UNCHANGED argv
  /\ UNCHANGED <<request, unread, ended, payload, fsVars>>

(* The index is found only while the path is still a directory.             *)
StatIndex ==
  /\ pc = "statIndex"
  /\ argv' = IF path \in Directories /\ index \in {"file", "secret"}
             THEN "catIndex" ELSE "ls"
  /\ pc' = "execute"
  /\ UNCHANGED <<request, unread, ended, payload, fsVars, histVars, response>>

(* What the command writes, to stdout or stderr alike, at the time it runs. *)
CatText(kind) == IF kind = "file" THEN "content" ELSE "errorText"
CommandOutput ==
  CASE argv = "cat" -> CatText(path)
    [] argv = "catIndex" -> CatText(IF path \in Directories THEN index ELSE "absent")
    [] argv = "ls" -> IF path \in {"dir", "file", "secret", "special"}
                      THEN "listing" ELSE "errorText"

ContentType_BySuffix ==
  IF html THEN "text/html" ELSE "application/octet-stream"

ContentType ==
  IF argv = "catIndex" \/ (argv = "cat" /\ html) THEN "text/html"
  ELSE "application/octet-stream"

Execute ==
  /\ pc = "execute"
  /\ Respond(Answer(200, ContentType, CommandOutput))
  /\ UNCHANGED <<request, unread, ended, payload, fsVars, argv, histVars>>

(* execvp fails in the command's process: what perror writes is taken for   *)
(* the command's output, and sent as such.                                  *)
ExecFails ==
  /\ pc = "execute"
  /\ Respond(Answer(200, ContentType, "execError"))
  /\ UNCHANGED <<request, unread, ended, payload, fsVars, argv, histVars>>

(* execute() throws when it gets no pipe, no process, or no output.         *)
CommandFails ==
  /\ pc = "execute"
  /\ Respond(ErrorAnswer(500))
  /\ UNCHANGED <<request, unread, ended, payload, fsVars, argv, histVars>>
-----------------------------------------------------------------------------
(* The client's end, and other programs that create, remove, replace or     *)
(* protect files.  A named path never becomes a special file meanwhile: cat *)
(* could then wait for ever.                                                *)
ClientEnds ==
  /\ ~ended /\ unread = <<>>
  /\ ended' = TRUE
  /\ UNCHANGED <<pc, request, unread, payload, fsVars, argv, histVars, response>>

FilesChange ==
  /\ pc \in {"stat", "statIndex", "execute"} /\ changes < MaxChanges
  /\ changes' = changes + 1
  /\ \/ path' \in PathKinds \ {path, "special"} /\ UNCHANGED index
     \/ index' \in IndexKinds \ {index} /\ UNCHANGED path
  /\ races' = races + (IF pc = "stat" THEN 0 ELSE 1)
  /\ seen' = IF pc = "stat" THEN {} ELSE seen \cup {QuietAnswer(path', index')}
  /\ UNCHANGED <<pc, request, unread, ended, payload, html, argv, response>>

ConnectionStep ==
  \/ Read \/ ReadEnd \/ Parse
  \/ Stat \/ StatIndex \/ Execute \/ ExecFails \/ CommandFails

ConnectionNext == ConnectionStep \/ ReadFails \/ ClientEnds \/ FilesChange

ConnectionSpec == ConnectionInit /\ [][ConnectionNext]_connectionVars

(* The child runs; that a read fails is never counted on.                   *)
ConnectionFairSpec == ConnectionSpec /\ WF_connectionVars(ConnectionStep)
-----------------------------------------------------------------------------
(* The answer to a request's first line depends on the bytes the client     *)
(* sent, not on how they were cut into chunks, on what follows the header,  *)
(* or on headers that look like a request line.                             *)
VerdictOfRequest ==
  /\ pc \in {"stat", "statIndex", "execute"} => Verdict(request) = 200
  /\ pc = "done" /\ seen = {} => response \in {ErrorAnswer(500), ErrorAnswer(Verdict(request))}

(* While nobody changes the files, a well-formed request gets the status,   *)
(* type and body they call for, with two exceptions: a 500 when no output   *)
(* could be had from a command, and the message of a failed execvp in place *)
(* of the output, which goes out as a 200 (Utils.cpp:60-62).                *)
ExecErrors == {[a EXCEPT !.body = "execError"] : a \in {b \in seen : b.status = 200}}

RightWhenQuiet ==
  pc = "done" /\ seen # {} /\ races = 0 =>
    response \in seen \cup {ErrorAnswer(500)} \cup ExecErrors

(* However the files change between the look-ups and the command, the       *)
(* content of a file is sent with a status and type that were right at some *)
(* moment meanwhile; only listings and error messages (sent as a 200) may   *)
(* never have been the right answer.                                        *)
ContentWasRight ==
  pc = "done" /\ response.body = "content" => response \in seen

(* A client that completes its header, or ends, is answered, wherever the   *)
(* empty line was cut.                                                      *)
CompleteRequestAnswered == (HasTerminator(request) \/ ended) ~> (pc = "done")
=============================================================================
