------------------------------- MODULE Mojbash -------------------------------
(***************************************************************************)
(* mojbash/: a shell that reads a line from the terminal, forks a child    *)
(* for one of its four built-in commands, and waits for it.                *)
(*                                                                         *)
(* A line is the sequence of its words.  A line of more than 1023 bytes    *)
(* reaches the shell as two.  A file holds a sequence of chunks, each of   *)
(* them what one read() returns.  A name without a file is "absent", or    *)
(* "barred" if none can be created there: no directory, one that is        *)
(* read-only, or full.  A "locked" file cannot be opened.  A "special" one *)
(* is a FIFO or a device, there from start to end: its contents are not    *)
(* modelled, and any call on it may wait for ever.                         *)
(***************************************************************************)
EXTENDS Integers, Sequences, SequencesExt, FiniteSets

CONSTANTS
  Names,       (* words that are neither commands nor operators             *)
  Cut,         (* [Words -> Words], a word's first 63 bytes                 *)
  Lines,       (* what may be typed at the prompt                           *)
  NoFile,      (* no redirection, no open file                              *)
  Terminal,    (* standard input when it is not redirected                  *)
  InitialKind, InitialContent,
  MaxLines,    (* bound: lines typed                                        *)
  MaxTyped,    (* bound: chunks typed to one command                        *)
  MaxChanges,  (* bound: changes of the files by other programs             *)
  MaxLen,      (* chunks a file can hold before write() fails               *)
  BufferCap    (* chunks of a listing that stdout's buffer holds            *)

Commands == {"echo", "cat", "touch", "ls"}
Operators == {"<", ">"}
Words == Commands \cup Operators \cup Names \cup {"exit", "."}
Chunks == Words \cup {"newline", "typed"}
Missing == {"absent", "barred"}
Kinds == Missing \cup {"locked", "dir", "file", "special"}

Specials == {w \in Words : InitialKind[w] = "special"}

ASSUME MojbashAssumption ==
  /\ IsFiniteSet(Names) /\ NoFile # Terminal /\ {NoFile, Terminal} \cap Chunks = {}
  /\ Cut \in [Words -> Words] /\ Lines \subseteq Seq(Words)
  /\ InitialKind \in [Words -> Kinds] /\ InitialContent \in [Words -> Seq(Chunks)]
  /\ \A w \in Words : /\ Len(InitialContent[w]) <= MaxLen
                      /\ InitialKind[w] \in Missing \cup {"dir"} => InitialContent[w] = <<>>
  /\ BufferCap \in Nat \ {0}
  /\ MaxLines \in Nat /\ MaxTyped \in Nat /\ MaxChanges \in Nat /\ MaxLen \in Nat

VARIABLES
  shell,       (* where the shell is                                        *)
  buff,        (* the words buff holds                                      *)
  eof,         (* stdin's end-of-file indicator                             *)
  tokens,      (* the words of the line that is executed                    *)
  allocated,   (* the array of tokens is allocated                          *)
  lines,       (* how many lines fgets has delivered                        *)
  child,       (* where the child is                                        *)
  args,        (* its arguments, then those it has not dealt with           *)
  scanned,     (* how many of them parse_redirection() has kept             *)
  inputFile, outputFile,
  reading,     (* what mojcat is reading                                    *)
  pos,         (* how many chunks of it                                     *)
  buffered,    (* the child's stdout buffer                                 *)
  screen,      (* history: what the child has written to the terminal       *)
  typed,       (* how many chunks were typed to it                          *)
  kind, content,  (* the file system                                        *)
  before,      (* history: the file system when the child was forked        *)
  changes,     (* changes of it by other programs ...                       *)
  changed      (* ... and history: the files changed since then             *)

shellVars == <<shell, buff, eof, tokens, allocated, lines>>
catVars == <<reading, pos, typed>>
files == <<kind, content>>
world == <<changes, changed>>
argVars == <<args, scanned, inputFile, outputFile>>
childVars == <<child, argVars, catVars, buffered, screen>>
vars == <<shellVars, childVars, files, before, world>>

TypeOK ==
  /\ shell \in {"prompt", "read", "tokenize", "decide", "validate", "wait",
                "ended", "fatal", "aborted", "crashed"}
  /\ buff \in Seq(Words) /\ tokens \in Seq(Words)
  /\ eof \in BOOLEAN /\ allocated \in BOOLEAN
  /\ changed \subseteq Names
  /\ lines \in 0..MaxLines /\ changes \in 0..MaxChanges /\ typed \in 0..MaxTyped
  /\ child \in {"none", "start", "input", "output", "begin", "next", "copy", "reopen",
                "exit", "zombie"}
  /\ args \in Seq(Chunks) /\ scanned \in Nat
  /\ inputFile \in Words \cup {NoFile} /\ outputFile \in Words \cup {NoFile}
  /\ reading \in Words \cup {Terminal, NoFile} /\ pos \in Nat
  /\ buffered \in Seq(Chunks) /\ screen \in Seq(Chunks)
  /\ kind \in [Words -> Kinds] /\ content \in [Words -> Seq(Chunks)]
  /\ \A f \in Words : Len(content[f]) <= MaxLen

(* buff is not initialised.                                                 *)
Init ==
  /\ shell = "prompt" /\ buff \in Lines /\ eof = FALSE
  /\ tokens = <<>> /\ allocated = FALSE /\ lines = 0
  /\ child = "none" /\ args = <<>> /\ scanned = 0 /\ inputFile = NoFile /\ outputFile = NoFile
  /\ reading = NoFile /\ pos = 0 /\ typed = 0 /\ buffered = <<>> /\ screen = <<>>
  /\ kind = InitialKind /\ content = InitialContent
  /\ before = [kind |-> kind, content |-> content]
  /\ changes = 0 /\ changed = {}
-----------------------------------------------------------------------------
(* The shell's loop.                                                        *)

Prompt ==
  /\ shell = "prompt"
  /\ shell' = "read"
  /\ UNCHANGED <<buff, eof, tokens, allocated, lines, childVars, files, before, world>>

PromptFails ==
  /\ shell = "prompt"
  /\ shell' = "fatal"
  /\ UNCHANGED <<buff, eof, tokens, allocated, lines, childVars, files, before, world>>

GetLine(line) ==
  /\ shell = "read" /\ ~eof /\ lines < MaxLines
  /\ buff' = line /\ lines' = lines + 1
  /\ shell' = "tokenize"
  /\ UNCHANGED <<eof, tokens, allocated, childVars, files, before, world>>

(* fgets returns NULL, which is not looked at, and leaves buff alone.       *)
EndOfInput ==
  /\ shell = "read"
  /\ eof' = TRUE
  /\ shell' = "tokenize"
  /\ UNCHANGED <<buff, tokens, allocated, lines, childVars, files, before, world>>

Tokenize_KeepsBuff ==
  /\ shell = "tokenize"
  /\ tokens' = buff
  /\ allocated' = (buff # <<>>)
  /\ shell' = IF buff = <<>> THEN "prompt" ELSE "decide"
  /\ UNCHANGED <<buff, eof, lines, childVars, files, before, world>>

(* strtok ends the first word in buff itself.  An empty line is freed.      *)
Tokenize ==
  /\ shell = "tokenize"
  /\ tokens' = buff
  /\ buff' = SubSeq(buff, 1, IF buff = <<>> THEN 0 ELSE 1)
  /\ allocated' = (buff # <<>>)
  /\ shell' = IF buff = <<>> THEN "prompt" ELSE "decide"
  /\ UNCHANGED <<eof, lines, childVars, files, before, world>>

(* malloc or realloc fails: the allocator of the build (-fsanitize=address) *)
(* ends the program there; without it tokens[0] would, after realloc.       *)
TokenizeFails ==
  /\ shell = "tokenize" /\ shell' = "crashed"
  /\ UNCHANGED <<buff, eof, tokens, allocated, lines, childVars, files, before, world>>

(* exit frees the tokens before it looks at how many there are; with too    *)
(* many it goes on, to is_valid().                                          *)
Decide ==
  /\ shell = "decide"
  /\ allocated' = (tokens[1] # "exit")
  /\ shell' = IF tokens[1] = "exit" /\ Len(tokens) <= 2 THEN "ended" ELSE "validate"
  /\ UNCHANGED <<buff, eof, tokens, lines, childVars, files, before, world>>

(* A command that is not found: free(tokens), which the allocator of the    *)
(* build (-fsanitize=address) answers with an abort if they are free.       *)
NotFound ==
  /\ shell = "validate" /\ tokens[1] \notin Commands
  /\ shell' = IF allocated THEN "prompt" ELSE "aborted"
  /\ allocated' = FALSE
  /\ UNCHANGED <<buff, eof, tokens, lines, childVars, files, before, world>>

Fork ==
  /\ shell = "validate" /\ tokens[1] \in Commands
  /\ shell' = "wait" /\ child' = "start"
  /\ args' = Tail(tokens) /\ scanned' = 0
  /\ inputFile' = NoFile /\ outputFile' = NoFile
  /\ typed' = 0 /\ screen' = <<>> /\ buffered' = <<>>
  /\ before' = [kind |-> kind, content |-> content] /\ changed' = {}
  /\ UNCHANGED <<buff, eof, tokens, allocated, lines, reading, pos, files, changes>>

(* fork returns -1 and waitpid(-1) finds no child.                          *)
ForkFails ==
  /\ shell = "validate" /\ tokens[1] \in Commands
  /\ allocated' = FALSE
  /\ shell' = "prompt"
  /\ UNCHANGED <<buff, eof, tokens, lines, childVars, files, before, world>>

WaitChild_Leaks ==
  /\ shell = "wait" /\ child = "zombie"
  /\ child' = "none" /\ shell' = "prompt"
  /\ UNCHANGED <<buff, eof, tokens, allocated, lines, argVars, catVars, buffered, screen,
                 files, before, world>>

WaitChild ==
  /\ shell = "wait" /\ child = "zombie"
  /\ child' = "none" /\ shell' = "prompt"
  /\ allocated' = FALSE
  /\ UNCHANGED <<buff, eof, tokens, lines, argVars, catVars, buffered, screen,
                 files, before, world>>
-----------------------------------------------------------------------------
(* The child's output.                                                      *)

Limited(s) == SubSeq(s, 1, IF Len(s) < MaxLen THEN Len(s) ELSE MaxLen)

CanWrite ==
  outputFile \notin {NoFile} \cup Specials => Len(content[outputFile]) < MaxLen

Write(chunks) ==
  \/ outputFile = NoFile /\ screen' = screen \o chunks /\ UNCHANGED content
  \/ outputFile \in Specials /\ UNCHANGED <<screen, content>>
  \/ /\ outputFile \notin {NoFile} \cup Specials
     /\ content' = [content EXCEPT ![outputFile] = Limited(@ \o chunks)]
     /\ UNCHANGED screen

(* exit(): stdout is flushed.                                               *)
Exit ==
  /\ child = "exit"
  /\ child' = "zombie"
  /\ Write(buffered) /\ buffered' = <<>>
  /\ UNCHANGED <<shellVars, argVars, catVars, kind, before, world>>
-----------------------------------------------------------------------------
(* parse_redirection(): an operator and the word after it, a file's name,   *)
(* are taken out of the arguments; an operator at the end is an argument.   *)

IsRedirection == scanned + 1 < Len(args) /\ args[scanned + 1] \in Operators

Redirect ==
  /\ child = "start" /\ IsRedirection
  /\ LET file == Cut[args[scanned + 2]]
         op == args[scanned + 1] IN
     /\ inputFile' = IF op = "<" THEN file ELSE inputFile
     /\ outputFile' = IF op = ">" THEN file ELSE outputFile
  /\ args' = SubSeq(args, 1, scanned) \o SubSeq(args, scanned + 3, Len(args))
  /\ UNCHANGED <<shellVars, child, scanned, catVars, buffered, screen, files, before, world>>

KeepArgument ==
  /\ child = "start" /\ scanned < Len(args) /\ ~IsRedirection
  /\ scanned' = scanned + 1
  /\ UNCHANGED <<shellVars, child, args, inputFile, outputFile, catVars, buffered, screen,
                 files, before, world>>

ParseEnds ==
  /\ child = "start" /\ scanned = Len(args)
  /\ child' = "input" /\ scanned' = 0
  /\ UNCHANGED <<shellVars, args, inputFile, outputFile, catVars, buffered, screen, files,
                 before, world>>
-----------------------------------------------------------------------------
(* execute(): the redirections are done.                                    *)

(* A missing file ends the command; with another error dup2(-1) fails, and  *)
(* that is fatal.                                                           *)
RedirectInput ==
  /\ child = "input"
  /\ child' = IF inputFile # NoFile /\ kind[inputFile] \in Missing \cup {"locked"}
                THEN "exit" ELSE "output"
  /\ UNCHANGED <<shellVars, argVars, catVars, buffered, screen, files, before,
                 world>>

RedirectOutput_NoTrunc ==
  /\ child = "output"
  /\ \/ outputFile = NoFile /\ child' = "begin" /\ UNCHANGED files
     \/ /\ outputFile # NoFile /\ kind[outputFile] \in {"dir", "locked", "barred"}
        /\ child' = "exit" /\ UNCHANGED files
     \/ /\ outputFile # NoFile /\ kind[outputFile] \in {"absent", "file"}
        /\ kind' = [kind EXCEPT ![outputFile] = "file"]
        /\ child' = "begin" /\ UNCHANGED content
  /\ UNCHANGED <<shellVars, argVars, catVars, buffered, screen, before, world>>

(* O_CREAT | O_TRUNC; a failure is fatal.                                   *)
RedirectOutput ==
  /\ child = "output"
  /\ \/ /\ outputFile \in {NoFile} \cup Specials
        /\ child' = "begin" /\ UNCHANGED files
     \/ /\ outputFile # NoFile /\ kind[outputFile] \in {"dir", "locked", "barred"}
        /\ child' = "exit" /\ UNCHANGED files
     \/ /\ outputFile # NoFile /\ kind[outputFile] \in {"absent", "file"}
        /\ kind' = [kind EXCEPT ![outputFile] = "file"]
        /\ content' = [content EXCEPT ![outputFile] = <<>>]
        /\ child' = "begin"
  /\ UNCHANGED <<shellVars, argVars, catVars, buffered, screen, before, world>>
-----------------------------------------------------------------------------
(* The commands.                                                            *)

Standing(label) ==
  /\ child' = label
  /\ UNCHANGED <<shellVars, scanned, inputFile, outputFile, before, world>>

(* What a command does first: mojecho will write a newline in any case,     *)
(* mojcat without arguments reads standard input, mojls lists ".".          *)
Begin ==
  /\ child = "begin"
  /\ IF tokens[1] = "cat" /\ args = <<>>
       THEN /\ reading' = IF inputFile = NoFile THEN Terminal ELSE inputFile
            /\ pos' = 0 /\ UNCHANGED args /\ Standing("copy")
       ELSE /\ args' = IF tokens[1] = "echo" THEN Append(args, "newline")
                       ELSE IF tokens[1] = "ls" /\ args = <<>> THEN <<".">> ELSE args
            /\ UNCHANGED <<reading, pos>> /\ Standing("next")
  /\ UNCHANGED <<typed, buffered, screen, files>>

NextArg(cmd) == child = "next" /\ tokens[1] = cmd /\ args # <<>>

NoArgsLeft ==
  /\ child = "next" /\ args = <<>>
  /\ Standing("exit")
  /\ UNCHANGED <<args, catVars, buffered, screen, files>>

(* write()'s result is not looked at.                                       *)
EchoWord ==
  /\ NextArg("echo")
  /\ Write(<<Head(args)>>)
  /\ args' = Tail(args)
  /\ Standing("next")
  /\ UNCHANGED <<catVars, buffered, kind>>

CatOpenFails_Stays ==
  /\ NextArg("cat") /\ kind[Head(args)] \in Missing \cup {"locked"}
  /\ Standing("next")
  /\ UNCHANGED <<args, catVars, buffered, screen, files>>

CatOpenFails ==
  /\ NextArg("cat") /\ kind[Head(args)] \in Missing \cup {"locked"}
  /\ args' = Tail(args)
  /\ Standing("next")
  /\ UNCHANGED <<catVars, buffered, screen, files>>

(* A directory can be opened for reading; the first read() of it fails.     *)
CatOpen ==
  /\ NextArg("cat") /\ kind[Head(args)] \in {"dir", "file", "special"}
  /\ reading' = Head(args) /\ pos' = 0
  /\ args' = Tail(args)
  /\ Standing("copy")
  /\ UNCHANGED <<typed, buffered, screen, files>>

Endless == reading \in {Terminal} \cup Specials

CatCopies ==
  /\ child = "copy" /\ CanWrite
  /\ IF Endless
       THEN typed < MaxTyped /\ typed' = typed + 1 /\ Write(<<"typed">>) /\ UNCHANGED pos
       ELSE /\ pos < Len(content[reading])
            /\ Write(<<content[reading][pos + 1]>>)
            /\ pos' = pos + 1 /\ UNCHANGED typed
  /\ Standing("copy")
  /\ UNCHANGED <<args, reading, buffered, kind>>

(* End of input, or a chunk that cannot be written.                         *)
CatStops ==
  /\ child = "copy"
  /\ CanWrite /\ outputFile \notin Specials /\ ~Endless => pos = Len(content[reading])
  /\ reading' = NoFile /\ pos' = 0
  /\ Standing("next")
  /\ UNCHANGED <<args, typed, buffered, screen, files>>

(* open(O_CREAT | O_EXCL), which may fail for any reason.                   *)
TouchCreates ==
  /\ NextArg("touch") /\ kind[Head(args)] = "absent"
  /\ kind' = [kind EXCEPT ![Head(args)] = "file"]
  /\ content' = [content EXCEPT ![Head(args)] = <<>>]
  /\ args' = Tail(args)
  /\ Standing("next")
  /\ UNCHANGED <<catVars, buffered, screen>>

TouchExists_AnyError ==
  /\ NextArg("touch")
  /\ Standing("reopen")
  /\ UNCHANGED <<args, catVars, buffered, screen, files>>

TouchExists ==
  /\ NextArg("touch") /\ kind[Head(args)] \notin Missing
  /\ Standing("reopen")
  /\ UNCHANGED <<args, catVars, buffered, screen, files>>

(* An error other than EEXIST: a message.                                   *)
TouchFails ==
  /\ NextArg("touch") /\ kind[Head(args)] = "barred"
  /\ args' = Tail(args)
  /\ Standing("next")
  /\ UNCHANGED <<catVars, buffered, screen, files>>

(* open(O_WRONLY) without O_CREAT, and the time of access; or a message.    *)
TouchReopens ==
  /\ child = "reopen"
  /\ args' = Tail(args)
  /\ Standing("next")
  /\ UNCHANGED <<catVars, buffered, screen, files>>

(* A row for each entry, made from the directory's own path; one chunk      *)
(* stands for them.  A terminal shows a row at once; for a file they are    *)
(* kept until the buffer is full.                                           *)
LsLists ==
  /\ NextArg("ls") /\ kind[Head(args)] = "dir"
  /\ \/ /\ outputFile = NoFile
        /\ Write(<<Head(args)>>) /\ UNCHANGED buffered
     \/ /\ outputFile # NoFile /\ Len(buffered) < BufferCap
        /\ buffered' = Append(buffered, Head(args)) /\ UNCHANGED <<screen, content>>
     \/ /\ outputFile # NoFile /\ Len(buffered) = BufferCap
        /\ Write(buffered) /\ buffered' = <<Head(args)>>
  /\ args' = Tail(args)
  /\ Standing("next")
  /\ UNCHANGED <<catVars, kind>>

(* opendir() returns NULL; after the message readdir() is given it, and the *)
(* child dies with what it had buffered.                                    *)
LsCrashes ==
  /\ NextArg("ls") /\ kind[Head(args)] # "dir"
  /\ Standing("zombie")
  /\ UNCHANGED <<args, catVars, buffered, screen, files>>
-----------------------------------------------------------------------------
(* Calls on a terminal or a special file may wait for ever, and a write to  *)
(* a FIFO that nobody reads any more kills the child.                       *)

Opening == CASE child = "input" -> inputFile
             [] child = "output" -> outputFile
             [] NextArg("cat") \/ child = "reopen" -> Head(args)
             [] OTHER -> NoFile

Writing ==
  \/ NextArg("echo")
  \/ child = "copy" /\ (~Endless => pos < Len(content[reading]))
  \/ NextArg("ls") /\ kind[Head(args)] = "dir" /\ Len(buffered) = BufferCap
  \/ child = "exit" /\ buffered # <<>>

MayBlock ==
  \/ Opening \in Specials
  \/ child = "copy" /\ Endless
  \/ Writing /\ outputFile \in Specials

BrokenPipe ==
  /\ Writing /\ outputFile \in Specials
  /\ child' = "zombie"
  /\ UNCHANGED <<shellVars, argVars, catVars, buffered, screen, files, before, world>>

(* Other programs create and remove files that the child has not open, and  *)
(* decide whether a name can be given to a file.                            *)

Running == {"begin", "next", "copy", "reopen", "exit"}

Open ==
  {reading} \cup (IF child \in Running \cup {"output"} THEN {inputFile} ELSE {})
            \cup (IF child \in Running THEN {outputFile} ELSE {})

FilesChange(f) ==
  /\ changes < MaxChanges /\ f \notin Open /\ kind[f] \in Missing \cup {"file"}
  /\ \E k \in (Missing \cup {"file"}) \ {kind[f]} : kind' = [kind EXCEPT ![f] = k]
  /\ content' = [content EXCEPT ![f] = <<>>]
  /\ changes' = changes + 1 /\ changed' = changed \cup {f}
  /\ UNCHANGED <<shellVars, childVars, before>>
-----------------------------------------------------------------------------
ShellStep ==
  Prompt \/ EndOfInput \/ Tokenize \/ Decide \/ NotFound \/ Fork \/ ForkFails \/ WaitChild

Execute ==
  \/ Redirect \/ KeepArgument \/ ParseEnds
  \/ RedirectInput \/ RedirectOutput \/ Begin \/ NoArgsLeft \/ Exit

Echo == EchoWord
Cat == CatOpenFails \/ CatOpen \/ CatCopies \/ CatStops
Touch == TouchCreates \/ TouchExists \/ TouchFails \/ TouchReopens
Ls == LsLists \/ LsCrashes

ChildStep == Execute \/ Echo \/ Cat \/ Touch \/ Ls

Next ==
  \/ ShellStep \/ PromptFails \/ TokenizeFails
  \/ \E line \in Lines : GetLine(line)
  \/ ChildStep \/ BrokenPipe
  \/ \E f \in Names : FilesChange(f)

Spec == Init /\ [][Next]_vars

(* Both processes run, except in a call that may wait for ever: nobody has  *)
(* to type, nor to open, fill or empty a FIFO.                              *)
FairSpec ==
  /\ Spec
  /\ WF_vars(ShellStep /\ shell # "read")
  /\ WF_vars(ChildStep /\ ~MayBlock)
-----------------------------------------------------------------------------
(* What a line promises, told without the order of the steps.               *)

Operator(i) == tokens[i] \in Operators
Named(op) ==
  LET at == {i \in 3..Len(tokens) : tokens[i - 1] = op} IN
  IF at = {} THEN NoFile ELSE tokens[CHOOSE i \in at : \A j \in at : j <= i]

ArgumentAt == {i \in 2..Len(tokens) : ~Operator(i) /\ ~Operator(i - 1)}
Rank(i) == Cardinality({j \in ArgumentAt : j <= i})
Arguments ==
  [k \in 1..Rank(Len(tokens)) |-> tokens[CHOOSE i \in ArgumentAt : Rank(i) = k]]

Was(k) == {f \in Words : before.kind[f] = k}

(* Every operator is followed by a name, of at most 63 bytes, no file is    *)
(* special, and mojcat is not told to read the one it writes.               *)
Sensible ==
  /\ \A i \in 2..Len(tokens) : Operator(i) => i < Len(tokens) /\ ~Operator(i + 1)
  /\ \A i \in DOMAIN tokens : Cut[tokens[i]] = tokens[i]
  /\ (ToSet(Arguments) \cup {Named("<"), Named(">")}) \cap Specials = {}
  /\ Named(">") \notin ToSet(Arguments) \cup {Named("<")} \/ Named(">") = NoFile

Runs ==
  /\ Named("<") \notin Was("absent") \cup Was("barred") \cup Was("locked")
  /\ Named(">") \notin Was("dir") \cup Was("barred") \cup Was("locked")

Copied(names) ==
  FlattenSeq([k \in DOMAIN names |->
    IF names[k] \in Was("file") THEN before.content[names[k]] ELSE <<>>])

ToList == IF Arguments = <<>> THEN <<".">> ELSE Arguments
Dies == tokens[1] = "ls" /\ ~(ToSet(ToList) \subseteq Was("dir"))

Listed ==
  IF ~Dies THEN ToList
  ELSE SubSeq(ToList, 1, (CHOOSE n \in DOMAIN ToList :
         /\ ToList[n] \notin Was("dir")
         /\ \A k \in 1..n - 1 : ToList[k] \in Was("dir")) - 1)

Output ==
  IF ~Runs THEN <<>> ELSE
  CASE tokens[1] = "echo" -> Append(Arguments, "newline")
    [] tokens[1] = "cat" ->
         IF Arguments # <<>> THEN Copied(Arguments)
         ELSE IF Named("<") # NoFile THEN Copied(<<Named("<")>>)
         ELSE [k \in 1..typed |-> "typed"]
    [] tokens[1] = "touch" -> <<>>
    [] tokens[1] = "ls" -> Listed

Created ==
  IF ~Runs THEN {} ELSE
  ({Named(">")} \cup (IF tokens[1] = "touch" THEN ToSet(Arguments) ELSE {})) \cap Was("absent")

ContentAfter(f, lost) ==
  IF Runs /\ f = Named(">") THEN Limited(SubSeq(Output, 1, Len(Output) - lost))
  ELSE IF f \in Created THEN <<>> ELSE before.content[f]

(* While no other program interferes, a command that has ended has created  *)
(* the files it had to, written its output, all of it, where the            *)
(* redirections say, and touched nothing else.  A listing that meets what   *)
(* is not a directory ends there, and what is lost of the rows before it is *)
(* their end, and no more than the buffer of stdout holds.                  *)
RunsAsWritten ==
  child = "zombie" /\ changed = {} /\ Sensible =>
    /\ kind = [f \in Words |-> IF f \in Created THEN "file" ELSE before.kind[f]]
    /\ \E lost \in 0..(IF Dies THEN BufferCap ELSE 0) :
         content = [f \in Words |-> ContentAfter(f, lost)]
    /\ screen = IF Named(">") = NoFile THEN Output ELSE <<>>

(* Between mojtouch's two opens another program may remove the file, and    *)
(* the second does not create it.  Whatever the others do, a name they have *)
(* not touched is left without a file only if none could be created when    *)
(* the command began, whichever of the names before it failed; and a file   *)
(* they have not touched, which is not the output, keeps what it held.      *)
TouchedFilesStand ==
  /\ child = "zombie" /\ tokens[1] = "touch" /\ Sensible /\ Runs
  /\ {Named("<"), Named(">")} \cap changed = {}
  => \A f \in ToSet(Arguments) \ changed :
       /\ kind[f] \in Missing => before.kind[f] = "barred"
       /\ content[f] = before.content[f]

(* At the end of input the shell does not end, and runs the command of the  *)
(* last line again; but strtok has cut its arguments off, so that no file   *)
(* is named any more.                                                       *)
EndOfInputNamesNoFile ==
  eof /\ lines > 0 /\ shell \in {"decide", "validate", "wait"} => Len(tokens) = 1

(* The tokens of every line are freed, once, on each of the paths back to   *)
(* the prompt; only those of an exit that is refused are freed twice.       *)
TokensFreedOnce ==
  /\ shell \in {"prompt", "read", "tokenize", "ended"} => ~allocated
  /\ shell = "aborted" => tokens[1] = "exit" /\ Len(tokens) > 2
  /\ shell = "wait" => allocated

(* A command ends and the shell goes on, unless it is held in a read of the *)
(* terminal, or in an open, a read or a write of a FIFO or a device; also   *)
(* one that reads what it writes, once the file is full.                    *)
PromptReturns == <>[]MayBlock \/ ((shell = "wait") ~> (shell = "prompt"))
=============================================================================
