---------------------------- MODULE MojbashProofs ----------------------------
(***************************************************************************)
(* Proofs about Mojbash, for any lines, names and files: who owns the      *)
(* tokens of a line, what the shell does at the end of input, and what a   *)
(* command has done when it has ended.                                     *)
(***************************************************************************)
EXTENDS Mojbash, TLAPS, SequenceTheorems, FiniteSetTheorems, WellFoundedInduction

Busy == {"decide", "validate", "wait"}

RefusedExit == tokens # <<>> /\ tokens[1] = "exit" /\ Len(tokens) > 2

(* Who owns the tokens at each place of the loop: between Decide and        *)
(* NotFound a refused exit has none.                                        *)
OwnerInv ==
  /\ buff \in Seq(Words) /\ tokens \in Seq(Words)
  /\ shell \in {"prompt", "read", "tokenize", "ended", "aborted"} => ~allocated
  /\ shell \in {"decide", "wait"} => allocated
  /\ shell = "decide" => tokens # <<>>
  /\ (shell = "validate" /\ ~allocated) \/ shell = "aborted" => RefusedExit

(* Once a line has been typed buff has been cut, except between fgets and   *)
(* the next Tokenize, and that fgets was not at the end of input; unless    *)
(* the shell has crashed there.                                             *)
CutInv ==
  /\ lines \in Nat
  /\ lines > 0 /\ (shell \notin {"tokenize", "crashed"} \/ eof) => Len(buff) <= 1
  /\ eof /\ lines > 0 /\ shell \in Busy => Len(tokens) = 1

Inv == OwnerInv /\ CutInv
-----------------------------------------------------------------------------
(* At the start nothing is owned, and buff is some line.                    *)
LEMMA InitInv == Init => Inv
BY MojbashAssumption DEF MojbashAssumption, Init, Inv, OwnerInv, CutInv, Busy, RefusedExit

(* The child, other programs and a failing prompt leave the loop's state    *)
(* alone, or only take the shell where nothing is owned.                    *)
LEMMA ElsewhereInv ==
  ASSUME Inv, ChildStep \/ BrokenPipe \/ \E f \in Names : FilesChange(f)
  PROVE  UNCHANGED shellVars
<1>1. CASE Execute
  BY <1>1 DEF Execute, Redirect, KeepArgument, ParseEnds, RedirectInput, RedirectOutput,
    Begin, NoArgsLeft, Exit, Standing, shellVars
<1>2. CASE Echo \/ Touch \/ Ls
  BY <1>2 DEF Echo, Touch, Ls, EchoWord, TouchCreates, TouchExists, TouchFails, TouchReopens,
    LsLists, LsCrashes, Standing, shellVars
<1>3. CASE Cat
  BY <1>3 DEF Cat, CatOpenFails, CatOpen, CatCopies, CatStops, Standing, shellVars
<1>4. CASE BrokenPipe \/ \E f \in Names : FilesChange(f)
  BY <1>4 DEF BrokenPipe, FilesChange, shellVars
<1> QED
  BY <1>1, <1>2, <1>3, <1>4 DEF ChildStep

(* Every step of the loop keeps the tokens' owner known and buff cut.       *)
LEMMA StepInv == Inv /\ [Next]_vars => Inv'
<1> SUFFICES ASSUME Inv, [Next]_vars PROVE Inv'
  OBVIOUS
<1> USE DEF Inv, OwnerInv, CutInv, Busy, RefusedExit
<1>1. CASE Prompt
  BY <1>1 DEF Prompt
<1>2. CASE PromptFails
  BY <1>2 DEF PromptFails
<1>3. ASSUME NEW line \in Lines, GetLine(line) PROVE Inv'
  BY <1>3, MojbashAssumption DEF GetLine, MojbashAssumption
<1>4. CASE EndOfInput
  BY <1>4 DEF EndOfInput
<1>5. CASE Tokenize
  <2>1. buff' = IF buff = <<>> THEN <<>> ELSE <<buff[1]>>
    BY <1>5 DEF Tokenize
  <2>2. buff' \in Seq(Words) /\ Len(buff') <= 1
    BY <2>1
  <2>3. Len(buff) \in Nat /\ (buff # <<>> => Len(buff) > 0)
    OBVIOUS
  <2>4. (allocated' <=> buff # <<>>) /\ tokens' = buff /\ eof' = eof /\ lines' = lines
    BY <1>5, Zenon DEF Tokenize
  <2>5. shell = "tokenize" /\ shell' = IF buff = <<>> THEN "prompt" ELSE "decide"
    BY <1>5 DEF Tokenize
  <2>6. OwnerInv'
    BY <2>2, <2>4, <2>5
  <2>7. CutInv'
    <3>1. eof /\ lines > 0 => Len(buff) <= 1
      BY Zenon
    <3>2. \A n \in Nat : n > 0 /\ n <= 1 => n = 1
      OBVIOUS
    <3>3. eof /\ lines > 0 /\ buff # <<>> => Len(buff) = 1
      BY <2>3, <3>1, <3>2, Zenon
    <3>4. lines \in Nat /\ (lines > 0 => Len(buff') <= 1)
      BY <2>2
    <3> QED
      BY <2>4, <2>5, <3>3, <3>4
  <2> QED
    BY <2>6, <2>7
<1>6. CASE Decide
  <2>1. allocated' <=> tokens[1] # "exit"
    BY <1>6, Zenon DEF Decide
  <2>2. /\ shell = "decide" /\ UNCHANGED <<buff, eof, tokens, lines>>
        /\ shell' = IF tokens[1] = "exit" /\ Len(tokens) <= 2 THEN "ended" ELSE "validate"
    BY <1>6 DEF Decide
  <2>3. OwnerInv'
    BY <2>1, <2>2
  <2>4. CutInv'
    BY <2>2
  <2> QED
    BY <2>3, <2>4
<1>7. CASE NotFound
  BY <1>7 DEF NotFound
<1>8. CASE Fork
  BY <1>8 DEF Fork, Commands
<1>9. CASE ForkFails
  BY <1>9 DEF ForkFails
<1>10. CASE WaitChild
  BY <1>10 DEF WaitChild
<1>11. CASE UNCHANGED shellVars
  BY <1>11 DEF shellVars
<1>13. CASE TokenizeFails
  BY <1>13 DEF TokenizeFails
<1>12. UNCHANGED vars => UNCHANGED shellVars
  BY DEF vars, shellVars
<1> QED
  BY <1>1, <1>2, <1>3, <1>4, <1>5, <1>6, <1>7, <1>8, <1>9, <1>10, <1>11, <1>12, <1>13,
     ElsewhereInv DEF Next, ShellStep

(* On every path back to the prompt the tokens are free, and only those of  *)
(* a refused exit are freed twice.                                          *)
THEOREM TokensOwned == Spec => []TokensFreedOnce
<1>1. Inv => TokensFreedOnce
  BY DEF Inv, OwnerInv, RefusedExit, TokensFreedOnce
<1> QED
  BY <1>1, InitInv, StepInv, PTL DEF Spec

(* However long the shell goes on at the end of input, and whatever the     *)
(* last line was, it names no file any more.                                *)
THEOREM BareAtEndOfInput == Spec => []EndOfInputNamesNoFile
<1>1. Inv => EndOfInputNamesNoFile
  BY DEF Inv, CutInv, Busy, EndOfInputNamesNoFile
<1> QED
  BY <1>1, InitInv, StepInv, PTL DEF Spec
-----------------------------------------------------------------------------
(* What is written to a file is cut where the file is full.                 *)

(* Limited keeps a prefix, as long as the file may be.                      *)
LEMMA LimitedChunks ==
  ASSUME NEW s \in Seq(Chunks)
  PROVE  /\ Limited(s) \in Seq(Chunks)
         /\ Len(Limited(s)) = IF Len(s) < MaxLen THEN Len(s) ELSE MaxLen
         /\ \A k \in 1..Len(Limited(s)) : Limited(s)[k] = s[k]
<1> DEFINE n == IF Len(s) < MaxLen THEN Len(s) ELSE MaxLen
<1>1. n \in 0..Len(s)
  BY MojbashAssumption DEF MojbashAssumption
<1> HIDE DEF n
<1>2. Limited(s) = SubSeq(s, 1, n)
  BY DEF Limited, n
<1>3. /\ SubSeq(s, 1, n) \in Seq(Chunks) /\ Len(SubSeq(s, 1, n)) = n
      /\ \A k \in 1..n : SubSeq(s, 1, n)[k] = s[k]
  BY <1>1
<1> QED
  BY <1>2, <1>3 DEF n

(* What fits is not cut.                                                    *)
LEMMA LimitedWhole ==
  ASSUME NEW s \in Seq(Chunks), Len(s) <= MaxLen PROVE Limited(s) = s
<1>1. Len(Limited(s)) = Len(s)
  BY LimitedChunks, MojbashAssumption DEF MojbashAssumption
<1> QED
  BY <1>1, LimitedChunks

(* No file is none, nor is it a special one.                                *)
LEMMA NoFileIsNone == NoFile \notin Words /\ Specials \subseteq Words
BY MojbashAssumption DEF MojbashAssumption, Chunks, Specials

(* Write changes the screen or one file, and a file never grows too long.   *)
LEMMA WriteChunks ==
  ASSUME TypeOK, NEW chunks \in Seq(Chunks), Write(chunks)
  PROVE  /\ content' \in [Words -> Seq(Chunks)] /\ screen' \in Seq(Chunks)
         /\ \A f \in Words : Len(content'[f]) <= MaxLen
         /\ \A f \in Words : f # outputFile => content'[f] = content[f]
         /\ outputFile \in Words \ Specials =>
              /\ content'[outputFile] = Limited(content[outputFile] \o chunks)
              /\ screen' = screen
         /\ outputFile \in Specials => content' = content /\ screen' = screen
         /\ outputFile = NoFile => content' = content /\ screen' = screen \o chunks
<1>1. CASE outputFile = NoFile
  <2>1. screen' = screen \o chunks /\ content' = content
    BY <1>1, NoFileIsNone DEF Write
  <2>2. screen \o chunks \in Seq(Chunks)
    BY DEF TypeOK
  <2> QED
    BY <1>1, <2>1, <2>2, NoFileIsNone DEF TypeOK
<1>3. CASE outputFile \in Specials
  <2>1. outputFile # NoFile /\ outputFile \notin Words \ Specials
    BY <1>3, NoFileIsNone
  <2>2. screen' = screen /\ content' = content
    BY <1>3, <2>1 DEF Write
  <2> QED
    BY <1>3, <2>1, <2>2 DEF TypeOK
<1>2. CASE outputFile \notin {NoFile} \cup Specials
  <2>1. outputFile \in Words
    BY <1>2 DEF TypeOK
  <2>2. content[outputFile] \o chunks \in Seq(Chunks)
    BY <2>1 DEF TypeOK
  <2>3. /\ content' = [content EXCEPT ![outputFile] = Limited(content[outputFile] \o chunks)]
        /\ screen' = screen
    BY <1>2 DEF Write
  <2>4. /\ Limited(content[outputFile] \o chunks) \in Seq(Chunks)
        /\ Len(Limited(content[outputFile] \o chunks)) <= MaxLen
    <3>1. \A s \in Seq(Chunks) : Limited(s) \in Seq(Chunks) /\ Len(Limited(s)) <= MaxLen
      BY LimitedChunks, MojbashAssumption DEF MojbashAssumption
    <3> QED
      BY <2>2, <3>1
  <2> QED
    BY <1>2, <2>1, <2>3, <2>4 DEF TypeOK
<1> QED
  BY <1>1, <1>2, <1>3
-----------------------------------------------------------------------------
(* Types, and what they rest on: what each place of the child says of its   *)
(* command and its arguments.                                               *)

Early == {"start", "input", "output"}
Late == {"next", "copy", "reopen"}
Ended == {"exit", "zombie"}

PlaceInv ==
  /\ shell \in Busy => tokens # <<>>
  /\ child # "none" => shell = "wait" /\ tokens[1] \in Commands
  /\ child = "copy" => tokens[1] = "cat" /\ reading # NoFile
  /\ child = "reopen" => tokens[1] = "touch" /\ args # <<>>
  /\ child # "none" => args \in Seq(Words) \/ (tokens[1] = "echo" /\ child \in Late \cup Ended)
  /\ child \in Early \cup {"begin"} => buffered = <<>> /\ screen = <<>> /\ typed = 0

(* Only a file has contents, special files stay what they are, and what     *)
(* stdout is redirected to is a file, unless the redirection has failed.    *)
FileInv ==
  /\ before \in [kind : [Words -> Kinds], content : [Words -> Seq(Chunks)]]
  /\ \A f \in Words : kind[f] \in {"absent", "barred", "dir"} => content[f] = <<>>
  /\ \A f \in Words : before.kind[f] \in {"absent", "barred", "dir"} => before.content[f] = <<>>
  /\ \A f \in Words : /\ kind[f] = "special" <=> f \in Specials
                      /\ before.kind[f] = "special" <=> f \in Specials
  /\ child \in Late \cup {"begin", "exit"} /\ outputFile # NoFile
       => \/ kind[outputFile] = "file" \/ outputFile \in Specials
          \/ child = "exit" /\ buffered = <<>>

StateInv == TypeOK /\ PlaceInv /\ FileInv

(* How the sets of names, words and chunks lie in each other.               *)
LEMMA NamesAreWords ==
  /\ Names \subseteq Words /\ Commands \subseteq Words /\ Words \subseteq Chunks
  /\ NoFile \notin Words /\ Terminal \notin Words /\ "." \in Words
  /\ {"newline", "typed"} \subseteq Chunks
  /\ \A w \in Words : Cut[w] \in Words
  /\ Seq(Words) \subseteq Seq(Chunks)
BY MojbashAssumption DEF MojbashAssumption, Words, Chunks

(* The invariant of types and places holds at the start.                    *)
LEMMA InitState == Init => StateInv
<1> SUFFICES ASSUME Init PROVE StateInv
  OBVIOUS
<1>1. kind \in [Words -> Kinds] /\ content \in [Words -> Seq(Chunks)]
  BY MojbashAssumption DEF Init, MojbashAssumption
<1>2. TypeOK
  <2>1. /\ buff \in Seq(Words) /\ lines \in 0..MaxLines /\ changes \in 0..MaxChanges
        /\ typed \in 0..MaxTyped /\ \A f \in Words : Len(content[f]) <= MaxLen
    BY MojbashAssumption DEF Init, MojbashAssumption
  <2>2. eof \in BOOLEAN /\ allocated \in BOOLEAN
    BY DEF Init
  <2> QED
    BY <1>1, <2>1, <2>2 DEF Init, TypeOK
<1>3. PlaceInv
  BY DEF Init, PlaceInv, Busy, Early, Late, Ended
<1>4. before = [kind |-> kind, content |-> content]
  BY DEF Init
<1>5. FileInv
  BY <1>1, <1>4, MojbashAssumption
  DEF Init, MojbashAssumption, FileInv, Late, Missing, Specials
<1> QED
  BY <1>2, <1>3, <1>5 DEF StateInv

ShellTypes ==
  /\ shell \in {"prompt", "read", "tokenize", "decide", "validate", "wait",
                "ended", "fatal", "aborted", "crashed"}
  /\ buff \in Seq(Words) /\ tokens \in Seq(Words)
  /\ eof \in BOOLEAN /\ allocated \in BOOLEAN /\ lines \in 0..MaxLines
  /\ shell \in Busy => tokens # <<>>

(* What the shell does without its child.                                   *)
LEMMA ShellTypesStep ==
  ASSUME Inv, StateInv,
         \/ Prompt \/ PromptFails \/ TokenizeFails \/ EndOfInput \/ Tokenize \/ Decide \/ NotFound
         \/ ForkFails \/ \E line \in Lines : GetLine(line)
  PROVE  /\ child = "none" /\ UNCHANGED <<childVars, files, before, world>>
         /\ ShellTypes'
<1> USE DEF Inv, OwnerInv, StateInv, TypeOK, PlaceInv, Busy, ShellTypes
<1>1. CASE Prompt
  BY <1>1 DEF Prompt
<1>2. CASE PromptFails \/ TokenizeFails
  BY <1>2 DEF PromptFails, TokenizeFails
<1>3. CASE EndOfInput
  BY <1>3 DEF EndOfInput
<1>4. CASE Tokenize
  <2>1. SubSeq(buff, 1, IF buff = <<>> THEN 0 ELSE 1) \in Seq(Words)
    OBVIOUS
  <2>2. (buff # <<>>) \in BOOLEAN
    OBVIOUS
  <2>3. allocated' \in BOOLEAN
    BY <1>4, <2>2, Zenon DEF Tokenize
  <2> QED
    BY <1>4, <2>1, <2>3 DEF Tokenize
<1>5. CASE Decide
  <2>1. allocated' \in BOOLEAN
    BY <1>5, Zenon DEF Decide
  <2> QED
    BY <1>5, <2>1 DEF Decide
<1>6. CASE NotFound
  BY <1>6 DEF NotFound
<1>7. CASE ForkFails
  BY <1>7 DEF ForkFails
<1>8. ASSUME NEW line \in Lines, GetLine(line)
      PROVE  /\ child = "none" /\ UNCHANGED <<childVars, files, before, world>>
             /\ ShellTypes'
  BY <1>8, MojbashAssumption DEF GetLine, MojbashAssumption
<1> QED
  BY <1>1, <1>2, <1>3, <1>4, <1>5, <1>6, <1>7, <1>8

(* The shell keeps it, with a child or without.                             *)
LEMMA ShellState ==
  ASSUME Inv, StateInv,
         \/ ShellStep \/ PromptFails \/ TokenizeFails \/ \E line \in Lines : GetLine(line)
  PROVE  StateInv'
<1>1. CASE Fork
  <2>1. /\ Tail(tokens) \in Seq(Words) /\ shell = "validate"
        /\ tokens[1] \in Commands
    BY <1>1 DEF Fork, StateInv, TypeOK, PlaceInv, Busy
  <2>2. TypeOK'
    <3>1. eof' = eof /\ allocated' = allocated /\ typed' = 0 /\ 0 \in 0..MaxTyped
      BY <1>1, MojbashAssumption DEF Fork, MojbashAssumption
    <3>2. args' \in Seq(Chunks) /\ changed' \subseteq Names /\ scanned' \in Nat
      BY <1>1, <2>1, NamesAreWords DEF Fork
    <3>3. UNCHANGED <<buff, eof, tokens, allocated, lines, reading, pos, kind, content, changes>>
      BY <1>1 DEF Fork, files
    <3>4. /\ shell' = "wait" /\ child' = "start" /\ inputFile' = NoFile /\ outputFile' = NoFile
          /\ screen' = <<>> /\ buffered' = <<>>
      BY <1>1 DEF Fork
    <3> QED
      BY <3>1, <3>2, <3>3, <3>4 DEF StateInv, TypeOK
  <2>3. PlaceInv'
    BY <1>1, <2>1 DEF Fork, StateInv, PlaceInv, Busy, Early, Late, Ended
  <2>4. FileInv'
    BY <1>1 DEF Fork, StateInv, TypeOK, FileInv, Late, files
  <2> QED
    BY <2>2, <2>3, <2>4 DEF StateInv
<1>2. CASE WaitChild
  <2>1. TypeOK'
    BY <1>2 DEF WaitChild, StateInv, TypeOK, argVars, catVars, files, world
  <2>2. PlaceInv'
    BY <1>2 DEF WaitChild, StateInv, PlaceInv, Busy, Early
  <2>3. FileInv'
    BY <1>2 DEF WaitChild, StateInv, FileInv, Late, files
  <2> QED
    BY <2>1, <2>2, <2>3 DEF StateInv
<1>3. CASE \/ Prompt \/ PromptFails \/ TokenizeFails \/ EndOfInput \/ Tokenize \/ Decide \/ NotFound
           \/ ForkFails \/ \E line \in Lines : GetLine(line)
  <2>1. /\ child = "none" /\ UNCHANGED <<childVars, files, before, world>>
        /\ ShellTypes'
    BY <1>3, ShellTypesStep
  <2>2. TypeOK'
    BY <2>1 DEF StateInv, TypeOK, ShellTypes, childVars, argVars, catVars, files, world
  <2>3. PlaceInv' /\ FileInv'
    BY <2>1 DEF StateInv, PlaceInv, FileInv, ShellTypes, childVars, argVars, catVars, files,
      Early, Late
  <2> QED
    BY <2>2, <2>3 DEF StateInv
<1> QED
  BY <1>1, <1>2, <1>3 DEF ShellStep
-----------------------------------------------------------------------------
(* The elements of two sequences joined.                                    *)
LEMMA Joined ==
  ASSUME NEW S, NEW u \in Seq(S), NEW t \in Seq(S)
  PROVE  /\ u \o t \in Seq(S) /\ Len(u \o t) = Len(u) + Len(t)
         /\ \A k \in 1..Len(u) : (u \o t)[k] = u[k]
         /\ \A k \in 1..Len(t) : (u \o t)[Len(u) + k] = t[k]
OBVIOUS

(* Two elements taken out of a sequence.                                    *)
LEMMA TakenOut ==
  ASSUME NEW S, NEW s \in Seq(S), NEW n \in Nat, n + 2 <= Len(s)
  PROVE  LET r == SubSeq(s, 1, n) \o SubSeq(s, n + 3, Len(s)) IN
         /\ r \in Seq(S) /\ Len(r) = Len(s) - 2
         /\ \A k \in 1..n : r[k] = s[k]
         /\ \A k \in n + 1..Len(s) - 2 : r[k] = s[k + 2]
<1> DEFINE Around(r) == /\ r \in Seq(S) /\ Len(r) = Len(s) - 2
                        /\ \A k \in 1..n : r[k] = s[k]
                        /\ \A k \in n + 1..Len(s) - 2 : r[k] = s[k + 2]
           First(u) == Len(u) = n /\ \A k \in 1..n : u[k] = s[k]
           Second(t) == /\ Len(t) = Len(s) - n - 2
                        /\ \A k \in 1..Len(t) : t[k] = s[n + 2 + k]
<1>1. ASSUME NEW u \in Seq(S), First(u), NEW t \in Seq(S), Second(t) PROVE Around(u \o t)
  <2>1. Len(s) \in Nat /\ Len(u) + Len(t) = Len(s) - 2
    BY <1>1
  <2>2. ASSUME NEW k \in n + 1..Len(s) - 2 PROVE (u \o t)[k] = s[k + 2]
    <3>1. PICK j \in 1..Len(t) : k = n + j /\ n + 2 + j = k + 2
      <4>1. k - n \in 1..Len(t) /\ k = n + (k - n) /\ n + 2 + (k - n) = k + 2
        BY <1>1, <2>1
      <4> QED
        BY <4>1
    <3>2. (u \o t)[Len(u) + j] = t[j]
      BY Joined
    <3> QED
      BY <1>1, <3>1, <3>2
  <2>3. u \o t \in Seq(S) /\ Len(u \o t) = Len(s) - 2
    BY <2>1, Joined
  <2>4. ASSUME NEW k \in 1..n PROVE (u \o t)[k] = s[k]
    BY <1>1, Joined
  <2> QED
    BY <2>2, <2>3, <2>4
<1>2. SubSeq(s, 1, n) \in Seq(S) /\ First(SubSeq(s, 1, n))
  OBVIOUS
<1>3. SubSeq(s, n + 3, Len(s)) \in Seq(S) /\ Second(SubSeq(s, n + 3, Len(s)))
  OBVIOUS
<1> HIDE DEF Around, First, Second
<1>4. Around(SubSeq(s, 1, n) \o SubSeq(s, n + 3, Len(s)))
  BY <1>1, <1>2, <1>3, Zenon
<1> QED
  BY <1>4, Zenon DEF Around

(* The elements of what is left of a sequence.                              *)
LEMMA HeadTail ==
  ASSUME NEW S, NEW s \in Seq(S), s # <<>>
  PROVE  /\ Head(s) = s[1] /\ Head(s) \in S
         /\ Tail(s) \in Seq(S) /\ Len(Tail(s)) = Len(s) - 1
         /\ \A k \in 1..Len(Tail(s)) : Tail(s)[k] = s[k + 1]
OBVIOUS

(* parse_redirection() keeps the types.                                     *)
LEMMA ParseState ==
  ASSUME StateInv, Redirect \/ KeepArgument \/ ParseEnds PROVE StateInv'
<1>1. tokens[1] \in Commands /\ args \in Seq(Words) /\ shell = "wait" /\ args \in Seq(Chunks)
  BY DEF StateInv, TypeOK, PlaceInv, Early, Late, Ended, Redirect, KeepArgument, ParseEnds
<1>2. args' \in Seq(Words)
  <2>1. CASE Redirect
    <3>1. scanned \in Nat /\ scanned + 2 <= Len(args)
      BY <1>1, <2>1 DEF StateInv, TypeOK, Redirect, IsRedirection
    <3>2. args' = SubSeq(args, 1, scanned) \o SubSeq(args, scanned + 3, Len(args))
      BY <2>1 DEF Redirect
    <3> QED
      BY <1>1, <3>1, <3>2, TakenOut
  <2> QED
    BY <1>1, <2>1 DEF KeepArgument, ParseEnds, argVars
<1>3. inputFile' \in Words \cup {NoFile} /\ outputFile' \in Words \cup {NoFile}
  <2>1. CASE Redirect
    <3>1. args[scanned + 2] \in Words
      BY <1>1, <2>1 DEF StateInv, TypeOK, Redirect, IsRedirection
    <3>2. Cut[args[scanned + 2]] \in Words
      BY <3>1, NamesAreWords
    <3> QED
      BY <2>1, <3>2 DEF StateInv, TypeOK, Redirect
  <2> QED
    BY <2>1 DEF StateInv, TypeOK, KeepArgument, ParseEnds, argVars
<1>4. scanned' \in Nat
  <2>1. scanned' \in {scanned, scanned + 1, 0}
    BY DEF Redirect, KeepArgument, ParseEnds
  <2>2. scanned \in Nat
    BY DEF StateInv, TypeOK
  <2> QED
    BY <2>1, <2>2
<1>5. /\ UNCHANGED <<shellVars, catVars, buffered, screen, files, before, world>>
      /\ child = "start" /\ child' \in {"start", "input"}
  BY DEF Redirect, KeepArgument, ParseEnds
<1>6. TypeOK'
  BY <1>2, <1>3, <1>4, <1>5, NamesAreWords DEF StateInv, TypeOK, shellVars, catVars, files, world
<1>7. PlaceInv'
  BY <1>2, <1>5 DEF StateInv, PlaceInv, Early, Late, Ended, shellVars, catVars
<1>8. FileInv'
  BY <1>5 DEF StateInv, FileInv, Late, files
<1> QED
  BY <1>6, <1>7, <1>8 DEF StateInv

(* So do the steps of execute() around a command.                           *)
LEMMA RedirectState ==
  ASSUME StateInv, RedirectInput \/ RedirectOutput \/ Begin \/ NoArgsLeft \/ Exit
  PROVE  StateInv'
<1>1. CASE RedirectInput
  <2>1. TypeOK'
    BY <1>1 DEF RedirectInput, StateInv, TypeOK, shellVars, argVars, catVars, files, world
  <2>2. PlaceInv'
    BY <1>1 DEF RedirectInput, StateInv, PlaceInv, Early, Late, Ended, shellVars, argVars, catVars
  <2>3. FileInv'
    BY <1>1 DEF RedirectInput, StateInv, PlaceInv, FileInv, Early, Late, argVars, files
  <2> QED
    BY <2>1, <2>2, <2>3 DEF StateInv
<1>2. CASE RedirectOutput
  <2>1. UNCHANGED <<shellVars, argVars, catVars, buffered, screen, before, world>>
    BY <1>2 DEF RedirectOutput
  <2>2. child = "output" /\ child' \in {"begin", "exit"}
    BY <1>2 DEF RedirectOutput
  <2>3. /\ kind' \in [Words -> Kinds] /\ content' \in [Words -> Seq(Chunks)]
        /\ \A f \in Words : Len(content'[f]) <= MaxLen
        /\ \A f \in Words : kind'[f] \in {"absent", "barred", "dir"} => content'[f] = <<>>
        /\ \A f \in Words : kind'[f] = "special" <=> f \in Specials
    <3>1. CASE UNCHANGED files
      BY <3>1 DEF StateInv, TypeOK, FileInv, files
    <3>2. CASE /\ outputFile # NoFile /\ kind[outputFile] \in {"absent", "file"}
               /\ kind' = [kind EXCEPT ![outputFile] = "file"]
               /\ content' = [content EXCEPT ![outputFile] = <<>>]
      <4>1. outputFile \in Words /\ <<>> \in Seq(Chunks) /\ Len(<<>>) <= MaxLen
        BY <3>2, MojbashAssumption DEF StateInv, TypeOK, MojbashAssumption
      <4> QED
        BY <3>2, <4>1 DEF StateInv, TypeOK, FileInv, Kinds
    <3> QED
      BY <1>2, <3>1, <3>2 DEF RedirectOutput
  <2>4. child' = "begin" /\ outputFile # NoFile
          => kind'[outputFile] = "file" \/ outputFile \in Specials
    BY <1>2 DEF RedirectOutput, StateInv, TypeOK
  <2>5. TypeOK'
    BY <2>1, <2>2, <2>3 DEF StateInv, TypeOK, shellVars, argVars, catVars, world
  <2>6. PlaceInv'
    BY <2>1, <2>2 DEF StateInv, PlaceInv, Early, Late, Ended, shellVars, argVars, catVars
  <2>7. FileInv'
    BY <2>1, <2>2, <2>3, <2>4 DEF StateInv, PlaceInv, FileInv, Early, Late, argVars
  <2> QED
    BY <2>5, <2>6, <2>7 DEF StateInv
<1>3. CASE Begin
  <2>1. UNCHANGED <<shellVars, scanned, inputFile, outputFile, before, world, typed, buffered,
                    screen, files>>
    BY <1>3 DEF Begin, Standing
  <2>2. child = "begin" /\ child' \in {"copy", "next"} /\ args \in Seq(Words)
    BY <1>3 DEF Begin, Standing, StateInv, PlaceInv, Late, Ended
  <2>3. /\ args' \in Seq(Words) \/ (tokens[1] = "echo" /\ args' \in Seq(Chunks))
        /\ reading' \in Words \cup {Terminal, NoFile} /\ pos' \in Nat
        /\ child' = "copy" => tokens[1] = "cat" /\ reading' # NoFile
    <3>1. /\ inputFile \in Words \cup {NoFile} /\ reading \in Words \cup {Terminal, NoFile}
          /\ pos \in Nat /\ Terminal # NoFile /\ args \in Seq(Chunks)
      BY <2>2, NamesAreWords, MojbashAssumption DEF StateInv, TypeOK, MojbashAssumption
    <3>2. <<".">> \in Seq(Words) /\ Append(args, "newline") \in Seq(Chunks)
      BY <3>1, NamesAreWords
    <3>3. CASE tokens[1] = "cat" /\ args = <<>>
      BY <1>3, <2>2, <3>1, <3>3 DEF Begin, Standing
    <3>4. CASE ~(tokens[1] = "cat" /\ args = <<>>)
      <4>1. /\ UNCHANGED <<reading, pos>> /\ child' = "next"
            /\ args' \in {Append(args, "newline"), <<".">>, args}
            /\ args' = Append(args, "newline") =>
                 tokens[1] = "echo" \/ args' = args \/ args' = <<".">>
        BY <1>3, <3>4 DEF Begin, Standing
      <4> QED
        BY <2>2, <3>1, <3>2, <4>1
    <3> QED
      BY <3>3, <3>4
  <2>4. TypeOK'
    BY <2>1, <2>2, <2>3, NamesAreWords DEF StateInv, TypeOK, shellVars, files, world
  <2>5. PlaceInv'
    BY <2>1, <2>2, <2>3 DEF StateInv, PlaceInv, Early, Late, Ended, shellVars
  <2>6. FileInv'
    BY <2>1, <2>2 DEF StateInv, PlaceInv, FileInv, Early, Late, files
  <2> QED
    BY <2>4, <2>5, <2>6 DEF StateInv
<1>4. CASE NoArgsLeft
  <2>1. TypeOK'
    BY <1>4 DEF NoArgsLeft, Standing, StateInv, TypeOK, shellVars, catVars, files, world
  <2>2. PlaceInv'
    BY <1>4 DEF NoArgsLeft, Standing, StateInv, PlaceInv, Early, Late, Ended, shellVars, catVars
  <2>3. FileInv'
    BY <1>4 DEF NoArgsLeft, Standing, StateInv, PlaceInv, FileInv, Early, Late, files
  <2> QED
    BY <2>1, <2>2, <2>3 DEF StateInv
<1>5. CASE Exit
  <2>1. /\ UNCHANGED <<shellVars, argVars, catVars, kind, before, world>>
        /\ child = "exit" /\ child' = "zombie" /\ buffered' = <<>>
        /\ Write(buffered) /\ buffered \in Seq(Chunks)
    BY <1>5 DEF Exit, StateInv, TypeOK
  <2>2. /\ content' \in [Words -> Seq(Chunks)] /\ screen' \in Seq(Chunks)
        /\ \A f \in Words : Len(content'[f]) <= MaxLen
        /\ \A f \in Words : f # outputFile => content'[f] = content[f]
    BY <2>1, WriteChunks DEF StateInv
  <2>3. ASSUME NEW f \in Words, kind[f] \in {"absent", "barred", "dir"} PROVE content'[f] = <<>>
    <3>1. CASE f # outputFile
      BY <2>2, <2>3, <3>1 DEF StateInv, FileInv
    <3>2. CASE f = outputFile
      <4>1. /\ buffered = <<>> \/ outputFile \in Specials
            /\ outputFile # NoFile /\ content[f] = <<>>
        BY <2>1, <2>3, <3>2, NamesAreWords DEF StateInv, FileInv
      <4>2. content'[f] = Limited(<<>> \o <<>>) \/ content' = content
        BY <2>1, <3>2, <4>1, WriteChunks DEF StateInv
      <4>3. <<>> \in Seq(Chunks) /\ Len(<<>>) <= MaxLen /\ <<>> \o <<>> = <<>>
        BY MojbashAssumption DEF MojbashAssumption
      <4>4. Limited(<<>>) = <<>>
        BY <4>3, LimitedWhole
      <4> QED
        BY <4>1, <4>2, <4>3, <4>4
    <3> QED
      BY <3>1, <3>2
  <2>4. TypeOK'
    BY <2>1, <2>2 DEF StateInv, TypeOK, shellVars, argVars, catVars, world
  <2>5. PlaceInv'
    BY <2>1 DEF StateInv, PlaceInv, Early, Late, Ended, shellVars, argVars, catVars
  <2>6. FileInv'
    BY <2>1, <2>3 DEF StateInv, FileInv, Late, argVars
  <2> QED
    BY <2>4, <2>5, <2>6 DEF StateInv
<1> QED
  BY <1>1, <1>2, <1>3, <1>4, <1>5

(* The first of the arguments that are left.                                *)
LEMMA HeadArg ==
  ASSUME StateInv, child \in Late, args # <<>>
  PROVE  /\ Head(args) = args[1] /\ Tail(args) \in Seq(Chunks) /\ Head(args) \in Chunks
         /\ Len(Tail(args)) = Len(args) - 1
         /\ \A k \in 1..Len(Tail(args)) : Tail(args)[k] = args[k + 1]
         /\ tokens[1] # "echo" => Head(args) \in Words /\ Tail(args) \in Seq(Words)
<1>1. args \in Seq(Chunks) /\ (tokens[1] # "echo" => args \in Seq(Words))
  BY DEF StateInv, TypeOK, PlaceInv, Late
<1> QED
  BY <1>1, HeadTail

(* A command that writes to its stdout.                                     *)
LEMMA WriteState ==
  ASSUME StateInv, child \in Late, NEW chunks \in Seq(Chunks), Write(chunks)
  PROVE  /\ content' \in [Words -> Seq(Chunks)] /\ screen' \in Seq(Chunks)
         /\ \A f \in Words : Len(content'[f]) <= MaxLen
         /\ \A f \in Words : kind[f] \in {"absent", "barred", "dir"} => content'[f] = <<>>
<1>2. /\ content' \in [Words -> Seq(Chunks)] /\ screen' \in Seq(Chunks)
      /\ \A f \in Words : Len(content'[f]) <= MaxLen
      /\ \A f \in Words : f # outputFile => content'[f] = content[f]
      /\ outputFile \in Specials => content' = content
  BY WriteChunks DEF StateInv
<1>3. outputFile \in Words => kind[outputFile] = "file" \/ outputFile \in Specials
  BY NamesAreWords DEF StateInv, FileInv, Late
<1> QED
  BY <1>2, <1>3 DEF StateInv, FileInv

(* A step of a command other than mojecho that changes no file, but perhaps *)
(* that of its stdout.                                                      *)
LEMMA QuietState ==
  ASSUME StateInv, child \in Late, tokens[1] # "echo",
         UNCHANGED <<shellVars, scanned, inputFile, outputFile, before, world, typed, kind>>,
         \/ content' = content
         \/ /\ content' \in [Words -> Seq(Chunks)]
            /\ \A f \in Words : Len(content'[f]) <= MaxLen
            /\ \A f \in Words : kind[f] \in {"absent", "barred", "dir"} => content'[f] = <<>>,
         child' \in Late \cup {"zombie"}, args' \in Seq(Words),
         reading' \in Words \cup {Terminal, NoFile}, pos' \in Nat,
         child' = "copy" => tokens[1] = "cat" /\ reading' # NoFile,
         child' = "reopen" => tokens[1] = "touch" /\ args' # <<>>,
         buffered' \in Seq(Chunks), screen' \in Seq(Chunks)
  PROVE  StateInv'
<1>1. TypeOK'
  BY NamesAreWords DEF StateInv, TypeOK, Late, shellVars, world
<1>2. PlaceInv'
  BY DEF StateInv, PlaceInv, Early, Late, Ended, shellVars
<1>3. FileInv'
  BY DEF StateInv, FileInv, Late
<1> QED
  BY <1>1, <1>2, <1>3 DEF StateInv

(* A chunk that mojcat has copied.                                          *)
LEMMA CopyState ==
  ASSUME StateInv, child = "copy", child' = "copy",
         UNCHANGED <<shellVars, scanned, inputFile, outputFile, before, world, args, reading,
                     buffered, kind>>,
         typed' \in 0..MaxTyped, pos' \in Nat,
         content' \in [Words -> Seq(Chunks)], screen' \in Seq(Chunks),
         \A f \in Words : Len(content'[f]) <= MaxLen,
         \A f \in Words : kind[f] \in {"absent", "barred", "dir"} => content'[f] = <<>>
  PROVE  StateInv'
<1>1. TypeOK'
  BY DEF StateInv, TypeOK, shellVars, world
<1>2. PlaceInv'
  BY DEF StateInv, PlaceInv, Early, Late, Ended, shellVars
<1>3. FileInv'
  BY DEF StateInv, FileInv, Late
<1> QED
  BY <1>1, <1>2, <1>3 DEF StateInv

(* So do those of the commands.                                             *)
LEMMA CommandState ==
  ASSUME StateInv, Echo \/ Cat \/ Touch \/ Ls PROVE StateInv'
<1> USE DEF StateInv, Standing
<1>1. CASE EchoWord
  <2>1. child \in Late /\ args # <<>> /\ tokens[1] = "echo"
    BY <1>1 DEF EchoWord, NextArg, Late
  <2>2. /\ content' \in [Words -> Seq(Chunks)] /\ screen' \in Seq(Chunks)
        /\ \A f \in Words : Len(content'[f]) <= MaxLen
        /\ \A f \in Words : kind[f] \in {"absent", "barred", "dir"} => content'[f] = <<>>
    <3>1. <<Head(args)>> \in Seq(Chunks) /\ Write(<<Head(args)>>)
      BY <1>1, <2>1, HeadArg DEF EchoWord
    <3> QED
      BY <2>1, <3>1, WriteState
  <2>3. /\ UNCHANGED <<shellVars, scanned, inputFile, outputFile, before, world, catVars,
                       buffered, kind>>
        /\ args' \in Seq(Chunks) /\ child' = "next"
    BY <1>1, <2>1, HeadArg DEF EchoWord
  <2>4. TypeOK'
    BY <2>2, <2>3 DEF TypeOK, shellVars, catVars, world
  <2>5. PlaceInv'
    BY <2>1, <2>3 DEF PlaceInv, Early, Late, Ended, shellVars, catVars
  <2>6. FileInv'
    BY <2>1, <2>2, <2>3 DEF FileInv, Late
  <2> QED
    BY <2>4, <2>5, <2>6
<1>2. CASE CatOpenFails \/ CatOpen
  <2>1. child \in Late /\ args # <<>> /\ tokens[1] = "cat"
    BY <1>2 DEF CatOpenFails, CatOpen, NextArg, Late
  <2>2. Tail(args) \in Seq(Words) /\ Head(args) \in Words /\ Head(args) # NoFile
    BY <2>1, HeadArg, NamesAreWords
  <2>3. /\ UNCHANGED <<shellVars, scanned, inputFile, outputFile, before, world, typed, kind,
                       content>>
        /\ UNCHANGED <<buffered, screen>>
        /\ child' \in {"next", "copy"} /\ args' = Tail(args)
        /\ \/ reading' = Head(args) /\ pos' = 0
           \/ UNCHANGED <<reading, pos>> /\ child' = "next"
    BY <1>2 DEF CatOpenFails, CatOpen, catVars, files
  <2>4. /\ reading' \in Words \cup {Terminal, NoFile} /\ pos' \in Nat
        /\ child' = "copy" => reading' # NoFile
    <3>1. reading \in Words \cup {Terminal, NoFile} /\ pos \in Nat
      BY DEF TypeOK
    <3> QED
      BY <2>2, <2>3, <3>1
  <2>5. buffered' \in Seq(Chunks) /\ screen' \in Seq(Chunks)
    BY <2>3 DEF TypeOK
  <2> QED
    BY <2>1, <2>2, <2>3, <2>4, <2>5, QuietState DEF Late
<1>3. CASE CatStops
  <2>1. child = "copy" /\ tokens[1] = "cat"
    BY <1>3 DEF CatStops, PlaceInv, Early, Late, Ended
  <2>2. args \in Seq(Words)
    BY <2>1 DEF PlaceInv
  <2>3. /\ UNCHANGED <<shellVars, scanned, inputFile, outputFile, before, world, typed, kind,
                       content>>
        /\ UNCHANGED <<buffered, screen, args>>
        /\ child' = "next" /\ reading' = NoFile /\ pos' = 0
    BY <1>3 DEF CatStops, files
  <2> QED
    BY <2>1, <2>2, <2>3, QuietState DEF TypeOK, Late
<1>4. CASE CatCopies
  <2>1. child = "copy" /\ child' = "copy" /\ tokens[1] = "cat" /\ reading # NoFile
    BY <1>4 DEF CatCopies, PlaceInv
  <2>2. UNCHANGED <<shellVars, scanned, inputFile, outputFile, before, world, args, reading,
                    buffered, kind>>
    BY <1>4 DEF CatCopies
  <2>3. CASE Endless
    <3>1. typed < MaxTyped /\ typed' = typed + 1 /\ Write(<<"typed">>) /\ pos' = pos
      BY <1>4, <2>3 DEF CatCopies
    <3>2. typed' \in 0..MaxTyped /\ pos' \in Nat
      BY <3>1, MojbashAssumption DEF TypeOK, MojbashAssumption
    <3> QED
      <4>1. <<"typed">> \in Seq(Chunks)
        BY NamesAreWords
      <4> QED
        BY <2>1, <2>2, <3>1, <3>2, <4>1, WriteState, CopyState DEF Late
  <2>4. CASE ~Endless
    <3>1. /\ pos < Len(content[reading]) /\ Write(<<content[reading][pos + 1]>>)
          /\ pos' = pos + 1 /\ typed' = typed
      BY <1>4, <2>4 DEF CatCopies
    <3>2. reading \in Words /\ content[reading] \in Seq(Chunks) /\ pos \in Nat
      BY <2>1, <2>4 DEF Endless, TypeOK
    <3>3. <<content[reading][pos + 1]>> \in Seq(Chunks)
      BY <3>1, <3>2
    <3>4. typed' \in 0..MaxTyped /\ pos' \in Nat
      BY <3>1, <3>2 DEF TypeOK
    <3> QED
      BY <2>1, <2>2, <3>1, <3>3, <3>4, WriteState, CopyState DEF Late
  <2> QED
    BY <2>3, <2>4
<1>5. CASE TouchCreates
  <2>1. child \in Late /\ args # <<>> /\ tokens[1] = "touch"
    BY <1>5 DEF TouchCreates, NextArg, Late
  <2>2. Tail(args) \in Seq(Words) /\ Head(args) \in Words /\ Tail(args) \in Seq(Chunks)
    BY <2>1, HeadArg
  <2>3. /\ UNCHANGED <<shellVars, scanned, inputFile, outputFile, before, world, catVars,
                       buffered, screen>>
        /\ child' = "next" /\ args' = Tail(args)
        /\ kind' = [kind EXCEPT ![Head(args)] = "file"]
        /\ content' = [content EXCEPT ![Head(args)] = <<>>]
    BY <1>5 DEF TouchCreates
  <2>4. /\ kind' \in [Words -> Kinds] /\ content' \in [Words -> Seq(Chunks)]
        /\ \A f \in Words : Len(content'[f]) <= MaxLen
        /\ \A f \in Words : kind'[f] \in {"absent", "barred", "dir"} => content'[f] = <<>>
        /\ \A f \in Words : kind[f] = "file" => kind'[f] = "file"
        /\ \A f \in Words : kind'[f] = "special" <=> f \in Specials
    <3>1. <<>> \in Seq(Chunks) /\ Len(<<>>) <= MaxLen
      BY MojbashAssumption DEF MojbashAssumption
    <3>2. kind[Head(args)] = "absent"
      BY <1>5 DEF TouchCreates
    <3> QED
      BY <2>2, <2>3, <3>1, <3>2 DEF TypeOK, FileInv, Kinds
  <2>5. TypeOK'
    BY <2>2, <2>3, <2>4 DEF TypeOK, shellVars, catVars, world
  <2>6. PlaceInv'
    BY <2>1, <2>2, <2>3 DEF PlaceInv, Early, Late, Ended, shellVars, catVars
  <2>7. FileInv'
    BY <2>1, <2>3, <2>4 DEF FileInv, TypeOK, Late
  <2> QED
    BY <2>5, <2>6, <2>7
<1>6. CASE TouchExists \/ TouchFails \/ TouchReopens
  <2>1. child \in Late /\ args # <<>> /\ tokens[1] = "touch"
    BY <1>6 DEF TouchExists, TouchFails, TouchReopens, NextArg, Late, PlaceInv
  <2>2. Tail(args) \in Seq(Words) /\ args \in Seq(Words)
    BY <2>1, HeadArg DEF PlaceInv, Late
  <2>3. /\ UNCHANGED <<shellVars, scanned, inputFile, outputFile, before, world, kind, content,
                       catVars, buffered, screen>>
        /\ \/ child' = "reopen" /\ args' = args
           \/ child' = "next" /\ args' = Tail(args)
    BY <1>6 DEF TouchExists, TouchFails, TouchReopens, files
  <2>4. UNCHANGED <<typed, reading, pos>>
    BY <2>3 DEF catVars
  <2> QED
    BY <2>1, <2>2, <2>3, <2>4, QuietState DEF TypeOK, Late
<1>7. CASE LsLists \/ LsCrashes
  <2>1. child \in Late /\ args # <<>> /\ tokens[1] = "ls"
    BY <1>7 DEF LsLists, LsCrashes, NextArg, Late
  <2>2. Tail(args) \in Seq(Words) /\ args \in Seq(Words) /\ Head(args) \in Chunks
    BY <2>1, HeadArg DEF PlaceInv, Late
  <2>3. /\ UNCHANGED <<shellVars, scanned, inputFile, outputFile, before, world, kind, catVars>>
        /\ child' \in {"next", "zombie"} /\ args' \in {args, Tail(args)}
        /\ \/ UNCHANGED <<content, buffered, screen>>
           \/ UNCHANGED buffered /\ Write(<<Head(args)>>)
           \/ buffered' = Append(buffered, Head(args)) /\ UNCHANGED <<content, screen>>
           \/ buffered' = <<Head(args)>> /\ Write(buffered)
    BY <1>7 DEF LsLists, LsCrashes, files
  <2>4. UNCHANGED <<typed, reading, pos>>
    BY <2>3 DEF catVars
  <2>5. /\ buffered \in Seq(Chunks) /\ screen \in Seq(Chunks) /\ <<Head(args)>> \in Seq(Chunks)
        /\ Append(buffered, Head(args)) \in Seq(Chunks)
    BY <2>2 DEF TypeOK
  <2>6. buffered' \in Seq(Chunks)
    BY <2>3, <2>5
  <2>7. /\ screen' \in Seq(Chunks)
        /\ \/ content' = content
           \/ /\ content' \in [Words -> Seq(Chunks)]
              /\ \A f \in Words : Len(content'[f]) <= MaxLen
              /\ \A f \in Words : kind[f] \in {"absent", "barred", "dir"} => content'[f] = <<>>
    <3>1. CASE UNCHANGED <<content, screen>>
      BY <2>5, <3>1
    <3>2. CASE Write(<<Head(args)>>) \/ Write(buffered)
      BY <2>1, <2>5, <3>2, WriteState
    <3> QED
      BY <2>3, <3>1, <3>2
  <2> QED
    BY <2>1, <2>2, <2>3, <2>4, <2>6, <2>7, QuietState DEF TypeOK, Late
<1> QED
  BY <1>1, <1>2, <1>3, <1>4, <1>5, <1>6, <1>7 DEF Echo, Cat, Touch, Ls

(* Other programs leave the file of stdout alone while it is open.          *)
LEMMA WorldState ==
  ASSUME StateInv, NEW f \in Names, FilesChange(f) PROVE StateInv'
<1>1. /\ UNCHANGED <<shellVars, childVars, before>> /\ f \in Words /\ f \notin Open
      /\ changes' = changes + 1 /\ changes < MaxChanges /\ changed' = changed \cup {f}
  BY NamesAreWords DEF FilesChange
<1>2. /\ kind' \in [Words -> Kinds] /\ content' \in [Words -> Seq(Chunks)]
      /\ \A g \in Words : Len(content'[g]) <= MaxLen
      /\ \A g \in Words : kind'[g] \in {"absent", "barred", "dir"} => content'[g] = <<>>
      /\ \A g \in Words : kind'[g] = "special" <=> g \in Specials
      /\ \A g \in Words : g # f => kind'[g] = kind[g]
  <2>1. <<>> \in Seq(Chunks) /\ Len(<<>>) <= MaxLen
    BY MojbashAssumption DEF MojbashAssumption
  <2>2. /\ kind[f] \in {"absent", "barred", "file"}
        /\ \E k \in {"absent", "barred", "file"} : kind' = [kind EXCEPT ![f] = k]
    BY DEF FilesChange, Missing
  <2>3. content' = [content EXCEPT ![f] = <<>>]
    BY DEF FilesChange
  <2> QED
    BY <1>1, <2>1, <2>2, <2>3 DEF StateInv, TypeOK, FileInv, Kinds, Missing
<1>3. TypeOK'
  <2>1. changes' \in 0..MaxChanges
    BY <1>1, MojbashAssumption DEF StateInv, TypeOK, MojbashAssumption
  <2>2. changed' \subseteq Names
    BY <1>1 DEF StateInv, TypeOK
  <2>3. UNCHANGED <<shell, buff, eof, tokens, allocated, lines, child, args, scanned, inputFile,
                    outputFile, reading, pos, typed, buffered, screen>>
    BY <1>1 DEF shellVars, childVars, argVars, catVars
  <2> USE DEF StateInv, TypeOK
  <2>4. /\ shell' = shell /\ buff' \in Seq(Words) /\ tokens' \in Seq(Words)
        /\ eof' \in BOOLEAN /\ allocated' \in BOOLEAN
        /\ lines' \in 0..MaxLines /\ typed' \in 0..MaxTyped
    BY <2>3
  <2>5. /\ child' = child /\ args' \in Seq(Chunks) /\ scanned' \in Nat
        /\ inputFile' \in Words \cup {NoFile} /\ outputFile' \in Words \cup {NoFile}
        /\ reading' \in Words \cup {Terminal, NoFile} /\ pos' \in Nat
        /\ buffered' \in Seq(Chunks) /\ screen' \in Seq(Chunks)
    BY <2>3
  <2> QED
    BY <1>2, <2>1, <2>2, <2>4, <2>5
<1>4. PlaceInv'
  BY <1>1 DEF StateInv, PlaceInv, Early, Late, Ended, shellVars, childVars, argVars, catVars
<1>5. child \in Late \cup {"begin", "exit"} => outputFile # f
  BY <1>1 DEF Open, Running, Late
<1>6. FileInv'
  BY <1>1, <1>2, <1>5, NamesAreWords DEF StateInv, TypeOK, FileInv, Late, childVars, argVars
<1> QED
  BY <1>3, <1>4, <1>6 DEF StateInv

(* A child that is killed changes nothing.                                  *)
LEMMA KilledState ==
  ASSUME StateInv, BrokenPipe PROVE StateInv'
<1>1. /\ UNCHANGED <<shellVars, argVars, catVars, buffered, screen, files, before, world>>
      /\ child' = "zombie" /\ child \in {"next", "copy", "exit"}
  BY DEF BrokenPipe, Writing, NextArg
<1>2. TypeOK'
  BY <1>1 DEF StateInv, TypeOK, shellVars, argVars, catVars, files, world
<1>3. PlaceInv'
  BY <1>1 DEF StateInv, PlaceInv, Early, Late, Ended, shellVars, argVars, catVars
<1>4. FileInv'
  BY <1>1 DEF StateInv, FileInv, Late, argVars, files
<1> QED
  BY <1>2, <1>3, <1>4 DEF StateInv

(* Types and places are an invariant of the shell and its child.            *)
LEMMA StepState == Inv /\ StateInv /\ [Next]_vars => StateInv'
<1> SUFFICES ASSUME Inv, StateInv, [Next]_vars PROVE StateInv'
  OBVIOUS
<1>1. CASE UNCHANGED vars
  <2>1. UNCHANGED <<shellVars, childVars, files, before, world>>
    BY <1>1 DEF vars
  <2>2. TypeOK'
    BY <2>1 DEF StateInv, TypeOK, shellVars, childVars, argVars, catVars, files, world
  <2>3. PlaceInv' /\ FileInv'
    BY <2>1 DEF StateInv, PlaceInv, FileInv, shellVars, childVars, argVars, catVars, files
  <2> QED
    BY <2>2, <2>3 DEF StateInv
<1> QED
  BY <1>1, ShellState, ParseState, RedirectState, CommandState, WorldState, KilledState
  DEF Next, ChildStep, Execute

(* Every variable keeps its type, and no file grows beyond its bound,       *)
(* whatever the lines, the names and the files are.                         *)
THEOREM TypeCorrect == Spec => []TypeOK
<1>1. Init => Inv /\ StateInv
  BY InitInv, InitState
<1>2. Inv /\ StateInv /\ [Next]_vars => (Inv /\ StateInv)'
  BY StepInv, StepState
<1>3. StateInv => TypeOK
  BY DEF StateInv
<1> QED
  BY <1>1, <1>2, <1>3, PTL DEF Spec
-----------------------------------------------------------------------------
(* How many arguments there are up to a place of the line.                  *)

UpTo(i) == {j \in ArgumentAt : j <= i}

(* A rank is a number.                                                      *)
LEMMA UpToFinite ==
  ASSUME tokens \in Seq(Words), NEW i \in Nat
  PROVE  IsFiniteSet(UpTo(i)) /\ Rank(i) = Cardinality(UpTo(i)) /\ Rank(i) \in Nat
<1>1. UpTo(i) \subseteq 2..Len(tokens) /\ IsFiniteSet(2..Len(tokens))
  BY FS_Interval DEF UpTo, ArgumentAt
<1>2. IsFiniteSet(UpTo(i))
  BY <1>1, FS_Subset
<1>3. Rank(i) = Cardinality(UpTo(i))
  BY DEF Rank, UpTo
<1> QED
  BY <1>2, <1>3, FS_CardinalityType

(* The command itself is not an argument.                                   *)
LEMMA RankFirst ==
  ASSUME tokens \in Seq(Words) PROVE Rank(1) = 0
<1>1. UpTo(1) = {}
  BY DEF UpTo, ArgumentAt
<1> QED
  BY <1>1, UpToFinite, FS_EmptySet

(* The rank of the next word counts it if it is an argument.                *)
LEMMA RankNext ==
  ASSUME tokens \in Seq(Words), NEW i \in Nat
  PROVE  Rank(i + 1) = IF i + 1 \in ArgumentAt THEN Rank(i) + 1 ELSE Rank(i)
<1>1. i + 1 \in Nat /\ IsFiniteSet(UpTo(i)) /\ i + 1 \notin UpTo(i)
  BY UpToFinite DEF UpTo
<1>2. CASE i + 1 \in ArgumentAt
  <2>1. UpTo(i + 1) = UpTo(i) \cup {i + 1}
    BY <1>2 DEF UpTo, ArgumentAt
  <2> QED
    BY <1>1, <1>2, <2>1, UpToFinite, FS_AddElement
<1>3. CASE i + 1 \notin ArgumentAt
  <2>1. UpTo(i + 1) = UpTo(i)
    BY <1>3 DEF UpTo, ArgumentAt
  <2> QED
    BY <1>1, <1>3, <2>1, UpToFinite
<1> QED
  BY <1>2, <1>3

(* No two arguments have the same rank.                                     *)
LEMMA RankGrows ==
  ASSUME tokens \in Seq(Words), NEW i \in ArgumentAt, NEW j \in ArgumentAt, i < j
  PROVE  Rank(i) < Rank(j)
<1>1. ArgumentAt \subseteq Nat /\ i \in Nat /\ j \in Nat
  BY DEF ArgumentAt
<1>2. UpTo(i) \subseteq UpTo(j) /\ j \in UpTo(j) /\ j \notin UpTo(i)
  <2>1. \A x \in Nat : x <= i => x <= j
    BY <1>1
  <2>2. j <= j /\ ~(j <= i)
    BY <1>1
  <2> QED
    BY <1>1, <2>1, <2>2, Zenon DEF UpTo
<1>3. /\ IsFiniteSet(UpTo(j)) /\ Rank(i) = Cardinality(UpTo(i)) /\ Rank(i) \in Nat
      /\ Rank(j) = Cardinality(UpTo(j)) /\ Rank(j) \in Nat
  BY <1>1, UpToFinite
<1>4. /\ Cardinality(UpTo(i)) <= Cardinality(UpTo(j))
      /\ Cardinality(UpTo(i)) = Cardinality(UpTo(j)) => UpTo(i) = UpTo(j)
  BY <1>2, <1>3, FS_Subset
<1>5. UpTo(i) # UpTo(j)
  BY <1>2
<1> QED
  BY <1>3, <1>4, <1>5

(* The arguments are those of the line that are neither an operator nor the *)
(* word after one: whoever knows the element of every rank knows them.      *)
LEMMA ArgumentsAre ==
  ASSUME tokens \in Seq(Words), NEW s \in Seq(Words), Len(s) = Rank(Len(tokens)),
         \A k \in 1..Len(s) : \E i \in ArgumentAt : Rank(i) = k /\ s[k] = tokens[i]
  PROVE  s = Arguments
<1>1. ASSUME NEW k \in 1..Len(s) PROVE Arguments[k] = s[k]
  <2>1. PICK i \in ArgumentAt : Rank(i) = k /\ s[k] = tokens[i]
    OBVIOUS
  <2>2. \A j \in ArgumentAt : Rank(j) = k => j = i
    <3>1. ASSUME NEW j \in ArgumentAt, Rank(j) = k, j # i PROVE FALSE
      <4>1. i \in 2..Len(tokens) /\ j \in 2..Len(tokens)
        BY DEF ArgumentAt
      <4>2. Rank(i) \in Nat /\ (i < j \/ j < i)
        BY <3>1, <4>1, UpToFinite
      <4> QED
        BY <2>1, <3>1, <4>2, RankGrows
    <3> QED
      BY <3>1
  <2>3. (CHOOSE j \in ArgumentAt : Rank(j) = k) = i
    BY <2>1, <2>2
  <2>4. Arguments[k] = tokens[CHOOSE j \in ArgumentAt : Rank(j) = k]
    BY DEF Arguments
  <2> QED
    BY <2>1, <2>3, <2>4
<1>2. DOMAIN Arguments = 1..Len(s)
  BY DEF Arguments
<1>3. Arguments = [k \in 1..Len(s) |-> Arguments[k]]
  BY <1>2 DEF Arguments
<1> QED
  BY <1>1, <1>3
-----------------------------------------------------------------------------
(* parse_redirection(): of the line's words up to Position those that are   *)
(* arguments are kept, in order, and each name is the last that was given.  *)

Position == Len(tokens) - (Len(args) - scanned)

Kept ==
  /\ scanned = Rank(Position)
  /\ \A k \in 1..scanned : \E i \in ArgumentAt : Rank(i) = k /\ args[k] = tokens[i]

Left == \A k \in scanned + 1..Len(args) : args[k] = tokens[Position + (k - scanned)]

NameUpTo(op, n, file) ==
  \/ file = NoFile /\ \A i \in 3..n : tokens[i - 1] # op
  \/ \E i \in 3..n : /\ tokens[i - 1] = op /\ file = tokens[i]
                     /\ \A j \in 3..n : tokens[j - 1] = op => j <= i

ParseInv ==
  child = "start" /\ Sensible =>
    /\ Position \in 1..Len(tokens) /\ scanned <= Len(args) /\ ~Operator(Position)
    /\ Kept /\ Left
    /\ NameUpTo("<", Position, inputFile) /\ NameUpTo(">", Position, outputFile)

ParsedInv ==
  child \notin {"none", "start"} /\ Sensible =>
    /\ inputFile = Named("<") /\ outputFile = Named(">") /\ Arguments \in Seq(Words)
    /\ child \in {"input", "output", "begin"} => args = Arguments

(* The last name found in all of the line is the one the line names.        *)
LEMMA NamedIs ==
  ASSUME tokens \in Seq(Words), NEW op, NEW file, NameUpTo(op, Len(tokens), file)
  PROVE  file = Named(op)
<1> DEFINE at == {i \in 3..Len(tokens) : tokens[i - 1] = op}
<1>1. CASE file = NoFile /\ \A i \in 3..Len(tokens) : tokens[i - 1] # op
  <2>1. at = {}
    BY <1>1
  <2> QED
    BY <1>1, <2>1 DEF Named
<1>2. ASSUME NEW i \in 3..Len(tokens), tokens[i - 1] = op, file = tokens[i],
             \A j \in 3..Len(tokens) : tokens[j - 1] = op => j <= i
      PROVE  file = Named(op)
  <2>1. i \in at /\ at # {} /\ \A j \in at : j <= i
    BY <1>2
  <2>2. \A k \in at : (\A j \in at : j <= k) => k = i
    BY <2>1
  <2>3. (CHOOSE k \in at : \A j \in at : j <= k) = i
    <3> HIDE DEF at
    <3> QED
      BY <2>1, <2>2
  <2> QED
    BY <1>2, <2>1, <2>3 DEF Named
<1> QED
  BY <1>1, <1>2 DEF NameUpTo

(* The child starts with all words but the first, none of them scanned.     *)
LEMMA ForkParse ==
  ASSUME StateInv, Fork PROVE ParseInv'
<1>1. /\ shell = "validate" /\ tokens[1] \in Commands /\ tokens' = tokens /\ child' = "start"
      /\ args' = Tail(tokens) /\ scanned' = 0 /\ inputFile' = NoFile /\ outputFile' = NoFile
  BY DEF Fork
<1>2. tokens \in Seq(Words) /\ tokens # <<>>
  BY <1>1 DEF StateInv, TypeOK, PlaceInv, Busy
<1>3. /\ Len(args') = Len(tokens) - 1 /\ Len(tokens) \in Nat \ {0}
      /\ \A k \in 1..Len(args') : args'[k] = tokens[k + 1]
  BY <1>1, <1>2
<1>4. Position' = 1
  BY <1>1, <1>3 DEF Position
<1>5. Kept'
  <2>1. Rank(1)' = 0
    BY <1>1, <1>2, RankFirst DEF Rank, ArgumentAt, Operator
  <2> QED
    BY <1>1, <1>4, <2>1 DEF Kept
<1>6. Left'
  BY <1>1, <1>3, <1>4 DEF Left
<1>7. ~Operator(1)'
  BY <1>1 DEF Operator, Commands, Operators
<1>8. NameUpTo("<", 1, NoFile)' /\ NameUpTo(">", 1, NoFile)'
  BY DEF NameUpTo
<1> QED
  BY <1>1, <1>3, <1>4, <1>5, <1>6, <1>7, <1>8 DEF ParseInv

(* What the line promises is the same while the line is.                    *)
LEMMA SameLine ==
  ASSUME tokens' = tokens
  PROVE  /\ Sensible' <=> Sensible
         /\ Named("<")' = Named("<") /\ Named(">")' = Named(">") /\ Arguments' = Arguments
         /\ ArgumentAt' = ArgumentAt
<1>1. Named("<")' = Named("<") /\ Named(">")' = Named(">")
  BY DEF Named
<1>2. Arguments' = Arguments /\ ArgumentAt' = ArgumentAt
  BY DEF Arguments, ArgumentAt, Rank, Operator
<1>3. Sensible' <=> Sensible
  BY <1>1, <1>2 DEF Sensible, Operator
<1> QED
  BY <1>1, <1>2, <1>3

(* The next word is an operator with its name after it, or an argument.     *)
LEMMA NextWord ==
  ASSUME StateInv, ParseInv, child = "start", Sensible, scanned < Len(args)
  PROVE  /\ tokens \in Seq(Words) /\ args \in Seq(Words)
         /\ Position \in 1..Len(tokens) - 1 /\ scanned \in Nat /\ Len(args) \in Nat
         /\ args[scanned + 1] = tokens[Position + 1]
         /\ IsRedirection <=> Operator(Position + 1)
         /\ IsRedirection => /\ Position + 2 <= Len(tokens) /\ scanned + 2 <= Len(args)
                             /\ args[scanned + 2] = tokens[Position + 2]
                             /\ ~Operator(Position + 2)
<1>1. /\ tokens \in Seq(Words) /\ args \in Seq(Words) /\ scanned \in Nat
      /\ Position \in 1..Len(tokens) /\ Left
  BY DEF StateInv, TypeOK, PlaceInv, Late, Ended, ParseInv
<1>2. /\ Len(args) \in Nat /\ Len(tokens) \in Nat
      /\ Len(tokens) - Position = Len(args) - scanned
  BY <1>1 DEF Position
<1>3. Position \in 1..Len(tokens) - 1 /\ Position + 1 \in 2..Len(tokens)
  BY <1>1, <1>2
<1>4. args[scanned + 1] = tokens[Position + 1]
  <2>1. /\ scanned + 1 \in scanned + 1..Len(args)
        /\ Position + ((scanned + 1) - scanned) = Position + 1
    BY <1>1, <1>2, <1>3
  <2> QED
    BY <1>1, <2>1 DEF Left
<1>5. Operator(Position + 1) => Position + 1 < Len(tokens) /\ ~Operator(Position + 1 + 1)
  BY <1>3 DEF Sensible
<1>6. Position + 1 < Len(tokens) <=> scanned + 1 < Len(args)
  BY <1>1, <1>2, <1>3
<1>7. IsRedirection <=> Operator(Position + 1)
  BY <1>4, <1>5, <1>6 DEF IsRedirection, Operator
<1>8. ASSUME IsRedirection
      PROVE  /\ Position + 2 <= Len(tokens) /\ scanned + 2 <= Len(args)
             /\ args[scanned + 2] = tokens[Position + 2] /\ ~Operator(Position + 2)
  <2>1. scanned + 1 < Len(args) /\ Position + 1 + 1 = Position + 2
    BY <1>3, <1>8 DEF IsRedirection
  <2>2. /\ scanned + 2 \in scanned + 1..Len(args)
        /\ Position + ((scanned + 2) - scanned) = Position + 2
    BY <1>1, <1>2, <1>3, <2>1
  <2>3. args[scanned + 2] = tokens[Position + 2]
    BY <1>1, <2>2 DEF Left
  <2> QED
    BY <1>2, <1>3, <1>5, <1>7, <1>8, <2>1, <2>2, <2>3
<1> QED
  BY <1>1, <1>2, <1>3, <1>4, <1>7, <1>8

(* A word that is not an operator leaves the names as they are.             *)
LEMMA NameNext ==
  ASSUME NEW n \in Nat, n >= 1, NEW op \in Operators, NEW file, NameUpTo(op, n, file),
         ~Operator(n)
  PROVE  NameUpTo(op, n + 1, file)
<1>1. \A i \in 3..n + 1 : i \in 3..n \/ i = n + 1
  OBVIOUS
<1>2. tokens[n + 1 - 1] # op
  BY DEF Operator
<1>3. \A i \in 3..n + 1 : tokens[i - 1] = op => i \in 3..n
  BY <1>1, <1>2
<1>4. 3..n \subseteq 3..n + 1
  OBVIOUS
<1> QED
  BY <1>3, <1>4, Zenon DEF NameUpTo

(* The word after an operator is the operator's newest name.                *)
LEMMA NameAfter ==
  ASSUME NEW n \in Nat, n >= 1, NEW op \in Operators, NEW file, NameUpTo(op, n, file),
         ~Operator(n), Operator(n + 1), NEW new,
         new = IF tokens[n + 1] = op THEN tokens[n + 2] ELSE file
  PROVE  NameUpTo(op, n + 2, new)
<1>1. NameUpTo(op, n + 1, file)
  BY NameNext
<1>2. \A i \in 3..n + 2 : i <= n + 2 /\ (i \in 3..n + 1 \/ i = n + 2)
  OBVIOUS
<1>3. n + 2 \in 3..n + 2 /\ n + 2 - 1 = n + 1 /\ 3..n + 1 \subseteq 3..n + 2
  OBVIOUS
<1>4. CASE tokens[n + 1] = op
  <2>1. new = tokens[n + 2] /\ tokens[n + 2 - 1] = op
    BY <1>3, <1>4
  <2>2. \A j \in 3..n + 2 : tokens[j - 1] = op => j <= n + 2
    BY <1>2
  <2>3. \E i \in 3..n + 2 : /\ tokens[i - 1] = op /\ new = tokens[i]
                            /\ \A j \in 3..n + 2 : tokens[j - 1] = op => j <= i
    BY <1>3, <2>1, <2>2
  <2> QED
    BY <2>3, Zenon DEF NameUpTo
<1>5. CASE tokens[n + 1] # op
  <2>1. \A i \in 3..n + 2 : tokens[i - 1] = op => i \in 3..n + 1
    BY <1>2, <1>3, <1>5
  <2> QED
    BY <1>1, <1>3, <1>5, <2>1, Zenon DEF NameUpTo
<1> QED
  BY <1>4, <1>5

(* parse_redirection() keeps an argument.                                   *)
LEMMA KeepParse ==
  ASSUME StateInv, ParseInv, KeepArgument PROVE ParseInv'
<1>1. /\ child = "start" /\ scanned < Len(args) /\ ~IsRedirection /\ scanned' = scanned + 1
      /\ UNCHANGED <<tokens, args, inputFile, outputFile>>
  BY DEF KeepArgument, shellVars
<1> SUFFICES ASSUME Sensible'
             PROVE  /\ (Position \in 1..Len(tokens) /\ scanned <= Len(args) /\ ~Operator(Position))'
                    /\ Kept' /\ Left'
                    /\ NameUpTo("<", Position, inputFile)' /\ NameUpTo(">", Position, outputFile)'
  BY <1>1 DEF ParseInv
<1>2. Sensible
  BY <1>1, SameLine
<1>3. PICK n : n = Position
  OBVIOUS
<1>4. /\ tokens \in Seq(Words) /\ args \in Seq(Words) /\ scanned \in Nat /\ Len(args) \in Nat
      /\ n \in 1..Len(tokens) - 1 /\ ~Operator(n + 1) /\ ~Operator(n)
      /\ args[scanned + 1] = tokens[n + 1]
      /\ NameUpTo("<", n, inputFile) /\ NameUpTo(">", n, outputFile)
  BY <1>1, <1>2, <1>3, NextWord DEF ParseInv
<1>5. Position' = n + 1 /\ n \in Nat /\ n + 1 \in 2..Len(tokens)
  BY <1>1, <1>3, <1>4 DEF Position
<1>6. n + 1 \in ArgumentAt /\ Rank(n + 1) = scanned + 1
  <2>1. n + 1 \in ArgumentAt
    BY <1>4, <1>5 DEF ArgumentAt
  <2>2. Rank(n) = scanned
    BY <1>1, <1>2, <1>3 DEF ParseInv, Kept
  <2> QED
    BY <1>4, <1>5, <2>1, <2>2, RankNext
<1>7. Kept'
  <2>1. ASSUME NEW k \in 1..scanned + 1
        PROVE  \E i \in ArgumentAt : Rank(i) = k /\ args[k] = tokens[i]
    <3>1. CASE k = scanned + 1
      BY <1>4, <1>6, <3>1
    <3>2. CASE k \in 1..scanned
      BY <1>1, <1>2, <3>2 DEF ParseInv, Kept
    <3> QED
      BY <1>4, <3>1, <3>2
  <2>2. scanned' = Rank(n + 1)
    BY <1>1, <1>6
  <2> QED
    BY <1>1, <1>5, <2>1, <2>2 DEF Kept, Rank, ArgumentAt, Operator
<1>8. Left'
  <2>1. ASSUME NEW k \in scanned + 2..Len(args) PROVE args[k] = tokens[n + 1 + (k - (scanned + 1))]
    <3>1. n + 1 + (k - (scanned + 1)) = n + (k - scanned) /\ k \in scanned + 1..Len(args)
      BY <1>4, <1>5
    <3> QED
      BY <1>1, <1>2, <1>3, <3>1 DEF ParseInv, Left
  <2>2. scanned + 1 + 1 = scanned + 2
    BY <1>4
  <2> QED
    BY <1>1, <1>5, <2>1, <2>2 DEF Left
<1>9. NameUpTo("<", n + 1, inputFile) /\ NameUpTo(">", n + 1, outputFile)
  BY <1>4, <1>5, NameNext DEF Operators
<1>10. (NameUpTo("<", Position, inputFile) /\ NameUpTo(">", Position, outputFile))'
  BY <1>1, <1>5, <1>9 DEF NameUpTo
<1>11. (Position \in 1..Len(tokens) /\ scanned <= Len(args) /\ ~Operator(Position))'
  BY <1>1, <1>4, <1>5 DEF Operator
<1> QED
  BY <1>7, <1>8, <1>10, <1>11

(* It takes an operator and its name out of the arguments.                  *)
LEMMA RedirectParse ==
  ASSUME StateInv, ParseInv, Redirect PROVE ParseInv'
<1>1. /\ child = "start" /\ IsRedirection /\ child' = "start"
      /\ scanned' = scanned /\ tokens' = tokens
  BY DEF Redirect, shellVars
<1>0. /\ inputFile' = IF args[scanned + 1] = "<" THEN Cut[args[scanned + 2]] ELSE inputFile
      /\ outputFile' = IF args[scanned + 1] = ">" THEN Cut[args[scanned + 2]] ELSE outputFile
  BY DEF Redirect
<1> SUFFICES ASSUME Sensible'
             PROVE  /\ (Position \in 1..Len(tokens) /\ scanned <= Len(args) /\ ~Operator(Position))'
                    /\ Kept' /\ Left'
                    /\ NameUpTo("<", Position, inputFile)' /\ NameUpTo(">", Position, outputFile)'
  BY <1>1 DEF ParseInv
<1>2. Sensible
  BY <1>1, SameLine
<1>3. PICK n : n = Position
  OBVIOUS
<1>4. /\ tokens \in Seq(Words) /\ args \in Seq(Words) /\ scanned \in Nat /\ Len(args) \in Nat
      /\ n \in 1..Len(tokens) - 1 /\ Operator(n + 1) /\ ~Operator(n) /\ ~Operator(n + 2)
      /\ args[scanned + 1] = tokens[n + 1] /\ args[scanned + 2] = tokens[n + 2]
      /\ n + 2 <= Len(tokens) /\ scanned + 2 <= Len(args)
      /\ NameUpTo("<", n, inputFile) /\ NameUpTo(">", n, outputFile)
  <2>1. scanned < Len(args)
    BY <1>1 DEF IsRedirection, StateInv, TypeOK
  <2> QED
    BY <1>1, <1>2, <1>3, <2>1, NextWord DEF ParseInv
<1>5. /\ Len(args') = Len(args) - 2
      /\ \A k \in 1..scanned : args'[k] = args[k]
      /\ \A k \in scanned + 1..Len(args) - 2 : args'[k] = args[k + 2]
  <2>1. args' = SubSeq(args, 1, scanned) \o SubSeq(args, scanned + 3, Len(args))
    BY DEF Redirect
  <2> QED
    BY <1>4, <2>1, TakenOut
<1>6. Position' = n + 2 /\ n \in Nat /\ n >= 1 /\ n + 1 \in Nat /\ n + 2 \in 1..Len(tokens)
  <2>1. n = Len(tokens) - (Len(args) - scanned) /\ Len(tokens) \in Nat
    BY <1>3, <1>4 DEF Position
  <2>2. Position' = Len(tokens) - (Len(args) - 2 - scanned)
    BY <1>1, <1>5 DEF Position
  <2>3. n \in Nat /\ n >= 1 /\ n + 1 \in Nat /\ n + 2 \in 1..Len(tokens)
    BY <1>4, <2>1
  <2>4. Len(args) \in Nat /\ scanned \in Nat
    BY <1>4
  <2>5. Position' = n + 2
    BY ONLY <2>1, <2>2, <2>4
  <2> QED
    BY <2>3, <2>5
<1>7. Rank(n + 2) = scanned
  <2>1. n + 1 \notin ArgumentAt
    BY <1>4 DEF ArgumentAt
  <2>2. n + 2 \notin ArgumentAt
    <3>1. n + 2 - 1 = n + 1
      BY <1>6
    <3> QED
      BY <1>4, <3>1 DEF ArgumentAt
  <2>3. Rank(n) = scanned
    BY <1>1, <1>2, <1>3 DEF ParseInv, Kept
  <2>4. Rank(n + 1) = scanned
    BY <1>4, <1>6, <2>1, <2>3, RankNext
  <2>5. n + 1 + 1 = n + 2
    BY <1>6
  <2>6. Rank(n + 1 + 1) = Rank(n + 1)
    BY <1>4, <1>6, <2>2, <2>5, RankNext
  <2> QED
    BY <2>4, <2>5, <2>6
<1>8. Kept'
  <2>1. \A k \in 1..scanned : \E i \in ArgumentAt : Rank(i) = k /\ args'[k] = tokens[i]
    BY <1>1, <1>2, <1>5 DEF ParseInv, Kept
  <2>2. Rank(Position)' = scanned' /\ ArgumentAt' = ArgumentAt
    BY <1>1, <1>6, <1>7 DEF Rank, ArgumentAt, Operator
  <2>3. ASSUME NEW k \in 1..scanned'
        PROVE  (\E i \in ArgumentAt : Rank(i) = k /\ args[k] = tokens[i])'
    <3>1. PICK i \in ArgumentAt : Rank(i) = k /\ args'[k] = tokens[i]
      BY <1>1, <2>1
    <3>2. Rank(i)' = Rank(i)
      BY <1>1 DEF Rank, ArgumentAt, Operator
    <3> QED
      BY <1>1, <2>2, <3>1, <3>2
  <2> QED
    BY <2>2, <2>3 DEF Kept
<1>9. Left'
  <2>1. ASSUME NEW k \in scanned + 1..Len(args) - 2 PROVE args'[k] = tokens[n + 2 + (k - scanned)]
    <3>1. k + 2 \in scanned + 1..Len(args) /\ k \in Nat
      BY <1>4
    <3>2. args[k + 2] = tokens[n + ((k + 2) - scanned)]
      BY <1>1, <1>2, <1>3, <3>1 DEF ParseInv, Left
    <3>3. n + ((k + 2) - scanned) = n + 2 + (k - scanned)
      BY <1>4, <1>6, <3>1
    <3> QED
      BY <1>5, <3>2, <3>3
  <2> QED
    BY <1>1, <1>5, <1>6, <2>1 DEF Left
<1>10. Cut[tokens[n + 2]] = tokens[n + 2]
  BY <1>2, <1>6 DEF Sensible
<1>11. NameUpTo("<", n + 2, inputFile') /\ NameUpTo(">", n + 2, outputFile')
  BY <1>0, <1>4, <1>6, <1>10, NameAfter DEF Operators
<1>12. (NameUpTo("<", Position, inputFile) /\ NameUpTo(">", Position, outputFile))'
  BY <1>1, <1>6, <1>11 DEF NameUpTo
<1>13. (Position \in 1..Len(tokens) /\ scanned <= Len(args) /\ ~Operator(Position))'
  <2>1. scanned <= Len(args) - 2
    BY <1>4
  <2> QED
    BY <1>1, <1>4, <1>5, <1>6, <2>1 DEF Operator
<1> QED
  BY <1>8, <1>9, <1>12, <1>13

(* When it ends, arguments and names are those the line promises.           *)
LEMMA ParseEndsParse ==
  ASSUME StateInv, ParseInv, ParseEnds PROVE ParsedInv'
<1>1. /\ child = "start" /\ child' = "input" /\ scanned = Len(args)
      /\ UNCHANGED <<tokens, args, inputFile, outputFile>>
  BY DEF ParseEnds, shellVars, argVars
<1> SUFFICES ASSUME Sensible'
             PROVE  (/\ inputFile = Named("<") /\ outputFile = Named(">")
                     /\ Arguments \in Seq(Words) /\ args = Arguments)'
  BY <1>1 DEF ParsedInv
<1>2. Sensible
  BY <1>1, SameLine
<1>3. tokens \in Seq(Words) /\ args \in Seq(Words) /\ Len(args) \in Nat
  BY <1>1 DEF StateInv, TypeOK, PlaceInv, Late, Ended
<1>4. Position = Len(tokens)
  BY <1>1, <1>3 DEF Position
<1>5. inputFile = Named("<") /\ outputFile = Named(">")
  BY <1>1, <1>2, <1>3, <1>4, NamedIs DEF ParseInv
<1>6. args = Arguments
  BY <1>1, <1>2, <1>3, <1>4, ArgumentsAre DEF ParseInv, Kept
<1> QED
  BY <1>1, <1>3, <1>5, <1>6, SameLine
-----------------------------------------------------------------------------
(* A command's work: what it will write, read, touch or list, in order; and *)
(* how much of it is done.                                                  *)

Work ==
  IF tokens[1] = "echo" THEN Append(Arguments, "newline")
  ELSE IF Arguments # <<>> THEN Arguments
  ELSE IF tokens[1] = "ls" THEN <<".">>
  ELSE IF tokens[1] = "cat" /\ Named("<") # NoFile THEN <<Named("<")>>
  ELSE <<>>

Done == Len(Work) - Len(args)

Undisturbed == {Named("<"), Named(">")} \cap changed = {}

(* The redirections have succeeded and the command has begun its work.      *)
Begun == child \in Late \/ (child \in Ended /\ Runs /\ Undisturbed)

ProgressInv ==
  Sensible /\ Begun =>
    /\ Len(args) <= Len(Work) /\ \A k \in 1..Len(args) : args[k] = Work[Done + k]
    /\ child \in Ended => args = <<>> \/ (child = "zombie" /\ tokens[1] = "ls")
    /\ child = "copy" =>
         IF reading = Terminal THEN Work = <<>> ELSE Done >= 1 /\ reading = Work[Done]

Before(f) == kind[f] = before.kind[f] /\ content[f] = before.content[f]

(* The files the command has created so far.                                *)
Made ==
  ({Named(">")} \cup (IF tokens[1] = "touch" THEN {Work[k] : k \in 1..Done} ELSE {}))
  \cap Was("absent")

AsMade(f) ==
  /\ kind[f] = IF f \in Made THEN "file" ELSE before.kind[f]
  /\ f # Named(">") => content[f] = before.content[f]

InputThere == Named("<") \notin Was("absent") \cup Was("barred") \cup Was("locked")

FilesInv ==
  Sensible =>
    /\ child \in Early => \A f \in Words \ changed : Before(f)
    /\ child = "output" /\ Undisturbed => InputThere
    /\ Undisturbed /\ ~Runs =>
         /\ child \notin Late \cup {"begin"}
         /\ child \in Ended => buffered = <<>> /\ \A f \in Words \ changed : Before(f)
    /\ Undisturbed /\ Runs /\ child \in Late \cup Ended \cup {"begin"} =>
         \A f \in Words \ changed : AsMade(f)
    /\ child = "reopen" /\ Head(args) \notin changed => kind[Head(args)] \notin Missing

-----------------------------------------------------------------------------
(* So is the command's work, while the files it was forked with are.        *)
LEMMA SameRun ==
  ASSUME tokens' = tokens, before' = before
  PROVE  /\ Sensible' <=> Sensible
         /\ Named("<")' = Named("<") /\ Named(">")' = Named(">") /\ Arguments' = Arguments
         /\ Work' = Work
         /\ Was("absent")' = Was("absent") /\ Was("barred")' = Was("barred")
      /\ Was("locked")' = Was("locked")
         /\ Was("dir")' = Was("dir") /\ Was("file")' = Was("file")
         /\ (Runs' <=> Runs) /\ (InputThere' <=> InputThere)
<1>1. /\ Sensible' <=> Sensible
      /\ Named("<")' = Named("<") /\ Named(">")' = Named(">") /\ Arguments' = Arguments
  BY SameLine
<1>2. /\ Was("absent")' = Was("absent") /\ Was("barred")' = Was("barred")
      /\ Was("locked")' = Was("locked")
      /\ Was("dir")' = Was("dir") /\ Was("file")' = Was("file")
  BY DEF Was
<1>3. Work' = Work
  BY <1>1 DEF Work
<1>4. (Runs' <=> Runs) /\ (InputThere' <=> InputThere)
  BY <1>1, <1>2 DEF Runs, InputThere
<1> QED
  BY <1>1, <1>2, <1>3, <1>4

(* Only words name files.                                                   *)
LEMMA WasWords == \A k : Was(k) \subseteq Words
BY DEF Was

(* A sensible line names no special file.                                   *)
LEMMA NoSpecials ==
  ASSUME Sensible, ParsedInv, child \notin {"none", "start"}
  PROVE  /\ inputFile \notin Specials /\ outputFile \notin Specials
         /\ Named("<") \notin Specials /\ Named(">") \notin Specials
         /\ ToSet(Arguments) \cap Specials = {}
BY DEF Sensible, ParsedInv

(* The types of the work and of what is left of it, after the parse.        *)
LEMMA RunTypes ==
  ASSUME StateInv, ParsedInv, Sensible, child \notin {"none", "start"}
  PROVE  /\ Arguments \in Seq(Words) /\ tokens[1] \in Commands
         /\ Named("<") \in Words \cup {NoFile} /\ Named(">") \in Words \cup {NoFile}
         /\ Work \in Seq(Chunks) /\ Len(Work) \in Nat
         /\ tokens[1] # "echo" => Work \in Seq(Words)
         /\ args \in Seq(Chunks) /\ Len(args) \in Nat
<1>1. /\ Arguments \in Seq(Words) /\ tokens[1] \in Commands /\ args \in Seq(Chunks)
      /\ Named("<") \in Words \cup {NoFile} /\ Named(">") \in Words \cup {NoFile}
  BY DEF StateInv, TypeOK, PlaceInv, ParsedInv
<1>2. tokens[1] # "echo" => Work \in Seq(Words)
  BY <1>1, NamesAreWords DEF Work
<1>3. tokens[1] = "echo" => Work \in Seq(Chunks)
  <2>1. Arguments \in Seq(Chunks) /\ "newline" \in Chunks
    BY <1>1, NamesAreWords
  <2> QED
    BY <2>1 DEF Work
<1>4. Work \in Seq(Chunks)
  BY <1>2, <1>3, NamesAreWords
<1> QED
  BY <1>1, <1>2, <1>4

(* What is left of the work is its end.                                     *)
LEMMA WorkLeft ==
  ASSUME StateInv, ParsedInv, ProgressInv, Sensible, Begun
  PROVE  /\ Done \in 0..Len(Work) /\ Len(args) = Len(Work) - Done
         /\ args = <<>> <=> Done = Len(Work)
         /\ \A k \in 1..Len(args) : args[k] = Work[Done + k]
         /\ args # <<>> => Head(args) = Work[Done + 1] /\ Done + 1 \in 1..Len(Work)
<1>1. Work \in Seq(Chunks) /\ args \in Seq(Chunks) /\ Len(Work) \in Nat /\ Len(args) \in Nat
  BY RunTypes DEF Begun, Late, Ended
<1>2. Len(args) <= Len(Work) /\ \A k \in 1..Len(args) : args[k] = Work[Done + k]
  BY DEF ProgressInv
<1>3. Done \in 0..Len(Work) /\ Len(args) = Len(Work) - Done
  BY <1>1, <1>2 DEF Done
<1>4. args = <<>> <=> Len(args) = 0
  BY <1>1
<1>5. args # <<>> => Head(args) = args[1] /\ Len(args) >= 1
  BY <1>1
<1> QED
  BY <1>1, <1>2, <1>3, <1>4, <1>5

(* One argument more is dealt with.                                         *)
LEMMA NextProgress ==
  ASSUME StateInv, ParsedInv, ProgressInv, Sensible, child \in Late, args # <<>>,
         tokens' = tokens, before' = before, args' = Tail(args),
         child' = "next" \/ (child' = "copy" /\ reading' = Head(args) /\ tokens[1] # "echo")
  PROVE  ProgressInv' /\ Done' = Done + 1
<1>1. /\ Done \in 0..Len(Work) /\ Len(args) = Len(Work) - Done
      /\ \A k \in 1..Len(args) : args[k] = Work[Done + k]
      /\ Head(args) = Work[Done + 1] /\ Done + 1 \in 1..Len(Work)
  BY WorkLeft DEF Begun
<1>2. /\ Len(args') = Len(args) - 1 /\ Len(Work) \in Nat /\ Len(args) \in Nat
      /\ \A k \in 1..Len(args') : args'[k] = args[k + 1]
      /\ tokens[1] # "echo" => Head(args) \in Words
  BY HeadArg, RunTypes DEF Late
<1>3. Work' = Work
  BY SameRun
<1>4. Done' = Done + 1
  BY <1>1, <1>2, <1>3 DEF Done
<1>5. ASSUME NEW k \in 1..Len(args') PROVE args'[k] = Work[Done + 1 + k]
  <2>1. k + 1 \in 1..Len(args) /\ Done + (k + 1) = Done + 1 + k
    BY <1>1, <1>2
  <2> QED
    BY <1>1, <1>2, <2>1
<1>6. Len(args') <= Len(Work) /\ Done + 1 >= 1
  BY <1>1, <1>2
<1>7. child' = "copy" => reading' # Terminal /\ reading' = Work[Done + 1]
  BY <1>1, <1>2, NamesAreWords
<1>8. child' \notin Ended
  BY DEF Ended
<1> QED
  BY <1>3, <1>4, <1>5, <1>6, <1>7, <1>8 DEF ProgressInv

(* The arguments stay as they are.                                          *)
LEMMA SameProgress ==
  ASSUME ProgressInv, Sensible, Begun, tokens' = tokens, before' = before, args' = args,
         child' \in Ended => args = <<>> \/ (child' = "zombie" /\ tokens[1] = "ls"),
         child' = "copy" => child = "copy" /\ reading' = reading
  PROVE  ProgressInv' /\ Done' = Done
<1>1. Work' = Work
  BY SameRun
<1>2. Done' = Done
  BY <1>1 DEF Done
<1> QED
  BY <1>1, <1>2 DEF ProgressInv

(* A step that creates no file and writes at most to stdout.                *)
LEMMA SameFiles ==
  ASSUME StateInv, ParsedInv, FilesInv, Sensible, child \in Late, child' \in Late \cup Ended,
         UNCHANGED <<tokens, before, changed, kind>>, Made' = Made,
         \A f \in Words : f # outputFile => content'[f] = content[f],
         child' = "reopen" => args' = args /\ kind[Head(args)] \notin Missing
  PROVE  FilesInv'
<1>1. /\ Sensible' <=> Sensible
      /\ Named("<")' = Named("<") /\ Named(">")' = Named(">") /\ (Runs' <=> Runs)
  BY SameRun
<1>2. (Undisturbed' <=> Undisturbed) /\ outputFile = Named(">")
  BY <1>1 DEF Undisturbed, ParsedInv, Late
<1>3. Undisturbed => Runs
  BY DEF FilesInv, Late
<1>4. ASSUME Undisturbed, NEW f \in Words \ changed PROVE AsMade(f)'
  <2>1. AsMade(f)
    BY <1>3, <1>4 DEF FilesInv
  <2> QED
    BY <1>1, <1>2, <2>1 DEF AsMade
<1>5. child' \notin Early \cup {"output", "begin"}
  BY DEF Early, Late, Ended
<1> QED
  BY <1>1, <1>2, <1>3, <1>4, <1>5 DEF FilesInv

(* The files made are the same while no argument is dealt with.             *)
LEMMA SameMade ==
  ASSUME tokens' = tokens, before' = before, tokens[1] # "touch" \/ Done' = Done
  PROVE  Made' = Made
<1>1. Named(">")' = Named(">") /\ Was("absent")' = Was("absent") /\ Work' = Work
  BY SameRun
<1> QED
  BY <1>1 DEF Made

(* mojtouch has made one file more, if it was absent.                       *)
LEMMA NextMade ==
  ASSUME tokens' = tokens, before' = before, tokens[1] = "touch", Done' = Done + 1, Done \in Nat
  PROVE  Made' = Made \cup ({Work[Done + 1]} \cap Was("absent"))
<1>1. Named(">")' = Named(">") /\ Was("absent")' = Was("absent") /\ Work' = Work
  BY SameRun
<1>2. 1..Done + 1 = (1..Done) \cup {Done + 1}
  OBVIOUS
<1>3. {Work[k] : k \in 1..Done + 1} = {Work[k] : k \in 1..Done} \cup {Work[Done + 1]}
  BY <1>2
<1>4. Made' = ({Named(">")} \cup {Work[k] : k \in 1..Done + 1}) \cap Was("absent")
  BY <1>1 DEF Made
<1> QED
  BY <1>3, <1>4 DEF Made

(* mojtouch deals with a file, which is there afterwards if only the child  *)
(* has touched it.                                                          *)
LEMMA TouchFiles ==
  ASSUME StateInv, ParsedInv, ProgressInv, FilesInv, Sensible,
         TouchCreates \/ TouchFails \/ TouchReopens
  PROVE  ProgressInv' /\ FilesInv'
<1>1. /\ child \in Late /\ args # <<>> /\ tokens[1] = "touch" /\ child' = "next"
      /\ args' = Tail(args) /\ UNCHANGED <<tokens, before, changed, outputFile>>
  BY DEF TouchCreates, TouchFails, TouchReopens, NextArg, Standing, Late, StateInv, PlaceInv,
     shellVars, world
<1>2. ProgressInv' /\ Done' = Done + 1
  BY <1>1, NextProgress
<1>3. Done \in Nat /\ Head(args) = Work[Done + 1] /\ Head(args) \in Words
  BY <1>1, WorkLeft, HeadArg DEF Begun
<1>4. Made' = Made \cup ({Head(args)} \cap Was("absent"))
  BY <1>1, <1>2, <1>3, NextMade
<1>5. /\ Sensible' <=> Sensible
      /\ Named("<")' = Named("<") /\ Named(">")' = Named(">") /\ (Runs' <=> Runs)
  BY <1>1, SameRun
<1>6. (Undisturbed' <=> Undisturbed) /\ (Undisturbed => Runs)
  BY <1>1, <1>5 DEF Undisturbed, FilesInv, Late
<1>7. ASSUME Undisturbed, NEW f \in Words \ changed PROVE AsMade(f)'
  <2>1. AsMade(f)
    BY <1>1, <1>6, <1>7 DEF FilesInv
  <2>2. f \in Was("absent") <=> before.kind[f] = "absent"
    BY <1>7 DEF Was
  <2>3. CASE TouchCreates
    <3>1. /\ kind[Head(args)] = "absent"
          /\ kind' = [kind EXCEPT ![Head(args)] = "file"]
          /\ content' = [content EXCEPT ![Head(args)] = <<>>]
      BY <2>3 DEF TouchCreates
    <3>2. /\ kind'[f] = IF f = Head(args) THEN "file" ELSE kind[f]
          /\ content'[f] = IF f = Head(args) THEN <<>> ELSE content[f]
      BY <1>3, <1>7, <3>1 DEF StateInv, TypeOK
    <3>3. before.kind[f] = "absent" => before.content[f] = <<>>
      BY <1>7 DEF StateInv, FileInv
    <3> QED
      BY <1>1, <1>4, <1>5, <2>1, <2>2, <3>1, <3>2, <3>3 DEF AsMade
  <2>4. CASE TouchFails \/ TouchReopens
    <3>1. UNCHANGED <<kind, content>>
      BY <2>4 DEF TouchFails, TouchReopens, files
    <3>2. f = Head(args) => kind[f] # "absent"
      BY <1>7, <2>4 DEF TouchFails, TouchReopens, FilesInv, Missing
    <3> QED
      BY <1>1, <1>4, <1>5, <2>1, <2>2, <3>1, <3>2 DEF AsMade
  <2> QED
    BY <2>3, <2>4
<1> QED
  BY <1>1, <1>2, <1>5, <1>6, <1>7 DEF FilesInv, Early, Late, Ended

(* The steps of the commands.                                               *)
LEMMA CommandFiles ==
  ASSUME StateInv, ParsedInv, ProgressInv, FilesInv, Sensible,
         NoArgsLeft \/ Echo \/ Cat \/ Touch \/ Ls
  PROVE  ProgressInv' /\ FilesInv'
<1>1. CASE TouchCreates \/ TouchFails \/ TouchReopens
  BY <1>1, TouchFiles
<1>2. CASE TouchExists
  <2>1. /\ child \in Late /\ args # <<>> /\ child' = "reopen" /\ kind[Head(args)] \notin Missing
        /\ UNCHANGED <<tokens, before, changed, args, kind, content>>
    BY <1>2 DEF TouchExists, NextArg, Standing, Late, shellVars, world, files
  <2>2. ProgressInv' /\ Done' = Done
    BY <2>1, SameProgress DEF Begun, Ended
  <2>3. Made' = Made
    BY <2>1, <2>2, SameMade
  <2>4. child' \in Late \cup Ended
    BY <2>1 DEF Late
  <2> QED
    BY <2>1, <2>2, <2>3, <2>4, SameFiles
<1>3. CASE NoArgsLeft \/ CatStops \/ CatCopies \/ LsCrashes
  <2>1. /\ child \in Late /\ child' \in Late \cup Ended /\ child' # "reopen"
        /\ UNCHANGED <<tokens, before, changed, args, kind>>
        /\ child' \in Ended => args = <<>> \/ (child' = "zombie" /\ tokens[1] = "ls")
        /\ child' = "copy" => child = "copy" /\ reading' = reading
    BY <1>3 DEF NoArgsLeft, CatStops, CatCopies, LsCrashes, NextArg, Standing, Late, Ended,
       shellVars, world, files
  <2>2. \A f \in Words : f # outputFile => content'[f] = content[f]
    <3>1. CASE NoArgsLeft \/ CatStops \/ LsCrashes
      BY <3>1 DEF NoArgsLeft, CatStops, LsCrashes, files
    <3>2. CASE CatCopies
      <4>1. content' = content \/ \E s : content' = [content EXCEPT ![outputFile] = s]
        BY <3>2 DEF CatCopies, Write
      <4> QED
        BY <4>1 DEF StateInv, TypeOK
    <3> QED
      BY <1>3, <3>1, <3>2
  <2>3. ProgressInv' /\ Done' = Done
    BY <2>1, SameProgress DEF Begun
  <2>4. Made' = Made
    BY <2>1, <2>3, SameMade
  <2> QED
    BY <2>1, <2>2, <2>3, <2>4, SameFiles
<1>4. CASE EchoWord \/ CatOpenFails \/ CatOpen \/ LsLists
  <2>1. /\ child \in Late /\ child' \in Late /\ child' # "reopen" /\ args # <<>>
        /\ UNCHANGED <<tokens, before, changed, kind>> /\ args' = Tail(args)
        /\ child' = "next" \/ (child' = "copy" /\ reading' = Head(args) /\ tokens[1] # "echo")
        /\ tokens[1] # "touch"
    BY <1>4 DEF EchoWord, CatOpenFails, CatOpen, LsLists, NextArg, Standing, Late,
       shellVars, world, files
  <2>2. \A f \in Words : f # outputFile => content'[f] = content[f]
    <3>1. CASE CatOpenFails \/ CatOpen
      BY <3>1 DEF CatOpenFails, CatOpen, files
    <3>2. CASE EchoWord \/ LsLists
      <4>1. content' = content \/ \E s : content' = [content EXCEPT ![outputFile] = s]
        BY <3>2 DEF EchoWord, LsLists, Write
      <4> QED
        BY <4>1 DEF StateInv, TypeOK
    <3> QED
      BY <1>4, <3>1, <3>2
  <2>3. ProgressInv'
    BY <2>1, NextProgress
  <2>4. Made' = Made
    BY <2>1, SameMade
  <2> QED
    BY <2>1, <2>2, <2>3, <2>4, SameFiles
<1> QED
  BY <1>1, <1>2, <1>3, <1>4 DEF Echo, Cat, Touch, Ls

(* Up to the redirections the child has changed nothing.                    *)
LEMMA EarlyFiles ==
  ASSUME FilesInv, Sensible, child \in Early, child' \in {"start", "input"},
         UNCHANGED <<tokens, before, changed, kind, content>>
  PROVE  ProgressInv' /\ FilesInv'
<1>1. Sensible' <=> Sensible
  BY SameRun
<1>2. \A f \in Words \ changed' : Before(f)'
  BY DEF FilesInv, Before
<1> QED
  BY <1>1, <1>2 DEF ProgressInv, FilesInv, Begun, Early, Late, Ended

(* A redirection that fails where nobody else has been fails because of     *)
(* what was there before.                                                   *)
LEMMA RedirectFiles ==
  ASSUME StateInv, ParsedInv, FilesInv, Sensible, RedirectInput \/ RedirectOutput
  PROVE  ProgressInv' /\ FilesInv'
<1>1. /\ child \in {"input", "output"} /\ UNCHANGED <<tokens, before, changed, args, buffered>>
      /\ child \in Early
  BY DEF RedirectInput, RedirectOutput, shellVars, argVars, world, Early
<1>2. /\ Sensible' <=> Sensible
      /\ Named("<")' = Named("<") /\ Named(">")' = Named(">") /\ (Runs' <=> Runs)
      /\ InputThere' <=> InputThere
      /\ Was("absent")' = Was("absent") /\ Was("barred")' = Was("barred")
      /\ Was("locked")' = Was("locked")
      /\ Was("dir")' = Was("dir")
  BY <1>1, SameRun
<1>3. /\ Undisturbed' <=> Undisturbed
      /\ inputFile = Named("<") /\ outputFile = Named(">") /\ args = Arguments
      /\ Named("<") \in Words \cup {NoFile} /\ Named(">") \in Words \cup {NoFile}
  BY <1>1, <1>2, RunTypes DEF Undisturbed, ParsedInv
<1>4. /\ \A f \in Words \ changed : Before(f)
      /\ buffered = <<>>
  BY <1>1 DEF FilesInv, StateInv, PlaceInv
<1>5. Undisturbed => Named("<") \notin changed /\ Named(">") \notin changed
  BY DEF Undisturbed
<1>6. NoFile \notin Words /\ \A f \in Words, k \in Kinds : f \in Was(k) <=> before.kind[f] = k
  BY NamesAreWords DEF Was
<1>7. CASE RedirectInput
  <2>1. /\ child = "input" /\ UNCHANGED <<kind, content>>
        /\ child' = IF inputFile # NoFile /\ kind[inputFile] \in {"absent", "barred", "locked"}
                      THEN "exit" ELSE "output"
    BY <1>7 DEF RedirectInput, files, Missing
  <2>2. Undisturbed /\ child' = "exit" => ~Runs
    BY <1>3, <1>4, <1>5, <1>6, <2>1 DEF Runs, Before, Kinds, Missing
  <2>3. Undisturbed /\ child' = "output" => InputThere
    BY <1>3, <1>4, <1>5, <1>6, <2>1, WasWords DEF Before, Kinds, Missing, InputThere
  <2>4. \A f \in Words \ changed' : Before(f)'
    BY <1>1, <1>4, <2>1 DEF Before
  <2>5. ProgressInv'
    BY <1>2, <1>3, <2>1, <2>2 DEF ProgressInv, Begun, Late, Ended
  <2>6. FilesInv'
    BY <1>1, <1>2, <1>3, <1>4, <2>1, <2>2, <2>3, <2>4 DEF FilesInv, Early, Late, Ended
  <2> QED
    BY <2>5, <2>6
<1>8. CASE RedirectOutput
  <2>1. child = "output" /\ child' \in {"begin", "exit"}
    BY <1>8 DEF RedirectOutput
  <2>2. Undisturbed /\ child' = "exit" => ~Runs
    <3>1. child' = "exit" =>
            outputFile # NoFile /\ kind[outputFile] \in {"dir", "locked", "barred"}
      BY <1>8 DEF RedirectOutput
    <3> QED
      BY <1>3, <1>4, <1>5, <1>6, <3>1 DEF Runs, Before, Kinds, Missing
  <2>3. Undisturbed /\ child' = "begin" => Runs
    <3>1. child' = "begin" => outputFile = NoFile \/ kind[outputFile] \in {"absent", "file"}
      BY <1>8, <2>1, NoSpecials DEF RedirectOutput
    <3>2. Undisturbed => InputThere
      BY <2>1 DEF FilesInv
    <3> QED
      BY <1>3, <1>4, <1>5, <1>6, <3>1, <3>2, WasWords DEF Runs, Before, Kinds, Missing, InputThere
  <2>4. ProgressInv'
    BY <1>2, <1>3, <2>1, <2>2 DEF ProgressInv, Begun, Late, Ended
  <2>5. child' = "exit" => \A f \in Words \ changed' : Before(f)'
    <3>1. child' = "exit" => UNCHANGED <<kind, content>>
      BY <1>8 DEF RedirectOutput, files
    <3> QED
      BY <1>1, <1>4, <3>1 DEF Before
  <2>6. child' = "begin" => Made' = {Named(">")} \cap Was("absent")
    <3>1. tokens[1] = "touch" => Work = Arguments
      BY DEF Work
    <3>2. tokens[1] = "touch" => Done' = 0
      BY <1>1, <1>3, <3>1, SameRun, RunTypes DEF Done
    <3>3. tokens[1] = "touch" => {Work[k] : k \in 1..Done}' = {}
      BY <3>2
    <3> QED
      BY <1>1, <1>2, <3>3 DEF Made
  <2>7. ASSUME child' = "begin", Undisturbed, NEW f \in Words \ changed PROVE AsMade(f)'
    <3>1. /\ kind'[f] = IF f = outputFile THEN "file" ELSE kind[f]
          /\ f # outputFile => content'[f] = content[f]
          /\ f = outputFile => kind[f] \in {"absent", "file"}
      <4>1. NoFile \notin Words /\ f \in Words
        BY NamesAreWords
      <4>2. CASE outputFile = NoFile
        BY <1>8, <4>1, <4>2 DEF RedirectOutput, files
      <4>3. CASE outputFile # NoFile
        <5>1. /\ kind[outputFile] \in {"absent", "file"}
              /\ kind' = [kind EXCEPT ![outputFile] = "file"]
              /\ content' = [content EXCEPT ![outputFile] = <<>>]
          BY <1>8, <2>1, <2>7, <4>3, NoSpecials DEF RedirectOutput
        <5> QED
          BY <4>1, <5>1 DEF StateInv, TypeOK
      <4> QED
        BY <4>2, <4>3
    <3>2. Before(f)
      BY <1>4, <2>7
    <3>3. f \in Was("absent") <=> before.kind[f] = "absent"
      BY <2>7 DEF Was
    <3> QED
      BY <1>1, <1>2, <1>3, <2>6, <2>7, <3>1, <3>2, <3>3 DEF AsMade, Before
  <2>8. FilesInv'
    BY <1>1, <1>2, <1>3, <1>4, <2>1, <2>2, <2>3, <2>5, <2>7 DEF FilesInv, Early, Late, Ended
  <2> QED
    BY <2>4, <2>8
<1> QED
  BY <1>7, <1>8

(* A command begins with all of its work, and the files as they were made.  *)
LEMMA BeginFiles ==
  ASSUME StateInv, ParsedInv, FilesInv, Sensible, Begin PROVE ProgressInv' /\ FilesInv'
<1>1. /\ child = "begin" /\ child' \in {"copy", "next"} /\ args = Arguments
      /\ UNCHANGED <<tokens, before, changed, kind, content>> /\ inputFile = Named("<")
  BY DEF Begin, Standing, ParsedInv, shellVars, world, files
<1>2. Work' = Work /\ Len(Work) \in Nat /\ tokens[1] \in Commands /\ Work \in Seq(Chunks)
  BY <1>1, SameRun, RunTypes
<1>3. ASSUME tokens[1] = "cat", args = <<>> PROVE ProgressInv'
  <2>1. /\ child' = "copy" /\ args' = <<>>
        /\ reading' = IF inputFile = NoFile THEN Terminal ELSE inputFile
    BY <1>3 DEF Begin, Standing
  <2>2. Work = IF Named("<") = NoFile THEN <<>> ELSE <<Named("<")>>
    BY <1>1, <1>3 DEF Work
  <2>3. Done' = Len(Work)
    BY <1>2, <2>1 DEF Done
  <2>4. Named("<") # Terminal
    BY RunTypes, <1>1, NamesAreWords, MojbashAssumption DEF MojbashAssumption
  <2>5. /\ reading' = Terminal => Work = <<>>
        /\ reading' # Terminal => Len(Work) = 1 /\ reading' = Work[1]
    BY <1>1, <2>1, <2>2, <2>4
  <2> QED
    BY <1>1, <1>2, <2>1, <2>3, <2>5 DEF ProgressInv, Begun, Late, Ended
<1>4. ASSUME ~(tokens[1] = "cat" /\ args = <<>>) PROVE ProgressInv'
  <2>1. /\ child' = "next"
        /\ args' = IF tokens[1] = "echo" THEN Append(args, "newline")
                   ELSE IF tokens[1] = "ls" /\ args = <<>> THEN <<".">> ELSE args
    BY <1>4 DEF Begin, Standing
  <2>2. args' = Work
    BY <1>1, <1>2, <1>4, <2>1 DEF Work, Commands
  <2>3. Done' = 0
    BY <1>2, <2>2 DEF Done
  <2>4. \A k \in 1..Len(args') : args'[k] = Work[0 + k]
    BY <1>2, <2>2
  <2> QED
    BY <1>1, <1>2, <2>1, <2>2, <2>3, <2>4 DEF ProgressInv, Ended
<1>5. ProgressInv'
  BY <1>3, <1>4, Zenon
<1>6. Made' = Made
  <2>1. CASE tokens[1] = "touch"
    <3>1. args' = Work /\ Work = Arguments
      BY <1>1, <2>1 DEF Begin, Work, Standing
    <3>2. Done' = 0 /\ Done = 0
      BY <1>1, <1>2, <3>1 DEF Done
    <3> QED
      BY <1>1, <3>2, SameMade
  <2> QED
    BY <1>1, <2>1, SameMade
<1>7. /\ Sensible' <=> Sensible
      /\ Named("<")' = Named("<") /\ Named(">")' = Named(">") /\ (Runs' <=> Runs)
  BY <1>1, SameRun
<1>8. (Undisturbed' <=> Undisturbed) /\ (Undisturbed => Runs)
  BY <1>1, <1>7 DEF Undisturbed, FilesInv
<1>9. ASSUME Undisturbed, NEW f \in Words \ changed PROVE AsMade(f)'
  <2>1. AsMade(f)
    BY <1>1, <1>8, <1>9 DEF FilesInv
  <2> QED
    BY <1>1, <1>6, <1>7, <2>1 DEF AsMade
<1> QED
  BY <1>1, <1>5, <1>7, <1>8, <1>9 DEF FilesInv, Early, Ended

(* What was left in stdout goes out; a command that did not run left none.  *)
LEMMA ExitFiles ==
  ASSUME StateInv, ParsedInv, ProgressInv, FilesInv, Sensible, Exit
  PROVE  ProgressInv' /\ FilesInv'
<1>1. /\ child = "exit" /\ child' = "zombie" /\ Write(buffered) /\ buffered' = <<>>
      /\ UNCHANGED <<tokens, before, changed, args, kind>> /\ outputFile = Named(">")
  BY DEF Exit, shellVars, argVars, world, ParsedInv
<1>2. /\ Sensible' <=> Sensible
      /\ Named("<")' = Named("<") /\ Named(">")' = Named(">") /\ (Runs' <=> Runs)
      /\ Work' = Work
  BY <1>1, SameRun
<1>3. Undisturbed' <=> Undisturbed
  BY <1>1, <1>2 DEF Undisturbed
<1>4. Done' = Done
  BY <1>1, <1>2 DEF Done
<1>5. Made' = Made
  BY <1>1, <1>4, SameMade
<1>6. /\ \A f \in Words : f # outputFile => content'[f] = content[f]
      /\ buffered = <<>> => content' = content
  <2>1. buffered \in Seq(Chunks)
    BY DEF StateInv, TypeOK
  <2>2. /\ content' \in [Words -> Seq(Chunks)] /\ content \in [Words -> Seq(Chunks)]
        /\ \A f \in Words : f # outputFile => content'[f] = content[f]
        /\ outputFile # NoFile => content'[outputFile] = Limited(content[outputFile] \o buffered)
    <3>1. outputFile \notin Specials /\ outputFile \in Words \cup {NoFile}
      BY <1>1, NoSpecials DEF StateInv, TypeOK
    <3> QED
      BY <1>1, <2>1, <3>1, WriteChunks DEF StateInv, TypeOK
  <2>3. ASSUME buffered = <<>>, NEW f \in Words, f = outputFile PROVE content'[f] = content[f]
    <3>1. content[f] \in Seq(Chunks) /\ Len(content[f]) <= MaxLen
      BY DEF StateInv, TypeOK
    <3>2. content[f] \o <<>> = content[f] /\ outputFile # NoFile
      BY <2>3, <3>1, NamesAreWords
    <3>3. Limited(content[f]) = content[f]
      BY <3>1, LimitedWhole
    <3> QED
      BY <2>2, <2>3, <3>2, <3>3
  <2> QED
    BY <2>2, <2>3
<1>7. ProgressInv'
  <2>1. child' \in Ended /\ child \in Ended /\ child \notin Late
    BY <1>1 DEF Ended, Late
  <2> QED
    BY <1>1, <1>2, <1>3, <1>4, <2>1 DEF ProgressInv, Begun, Ended, Late
<1>8. ASSUME Undisturbed, Runs, NEW f \in Words \ changed PROVE AsMade(f)'
  <2>1. AsMade(f)
    BY <1>1, <1>8 DEF FilesInv, Ended
  <2> QED
    BY <1>1, <1>2, <1>5, <1>6, <2>1 DEF AsMade
<1>9. ASSUME Undisturbed, ~Runs, NEW f \in Words \ changed PROVE Before(f)'
  <2>1. buffered = <<>> /\ Before(f)
    BY <1>1, <1>9 DEF FilesInv, Ended
  <2> QED
    BY <1>1, <1>6, <2>1 DEF Before
<1>10. FilesInv'
  BY <1>1, <1>2, <1>3, <1>8, <1>9 DEF FilesInv, Early, Late, Ended
<1> QED
  BY <1>7, <1>10

(* Another program: what it has touched the invariant says nothing about.   *)
LEMMA WorldFiles ==
  ASSUME StateInv, ParsedInv, ProgressInv, FilesInv, Sensible, NEW g \in Names, FilesChange(g)
  PROVE  ProgressInv' /\ FilesInv'
<1>1. /\ UNCHANGED <<tokens, child, args, reading, buffered, before>>
      /\ changed' = changed \cup {g} /\ g \in Words
  BY NamesAreWords DEF FilesChange, shellVars, childVars, argVars, catVars
<1>2. \A f \in Words : f # g => kind'[f] = kind[f] /\ content'[f] = content[f]
  BY DEF FilesChange, StateInv, TypeOK
<1>3. /\ Sensible' <=> Sensible
      /\ Named("<")' = Named("<") /\ Named(">")' = Named(">") /\ (Runs' <=> Runs)
      /\ InputThere' <=> InputThere
      /\ Work' = Work
      /\ Was("absent")' = Was("absent") /\ Was("barred")' = Was("barred")
      /\ Was("locked")' = Was("locked")
  BY <1>1, SameRun
<1>4. Undisturbed' => Undisturbed
  BY <1>1, <1>3 DEF Undisturbed
<1>5. Done' = Done
  BY <1>1, <1>3 DEF Done
<1>6. Made' = Made
  BY <1>1, <1>5, SameMade
<1>7. ProgressInv'
  BY <1>1, <1>3, <1>4, <1>5 DEF ProgressInv, Begun
<1>8. ASSUME NEW f \in Words \ changed'
      PROVE  (Before(f) => Before(f)') /\ (AsMade(f) => AsMade(f)')
  <2>1. f # g
    BY <1>1, <1>8
  <2> QED
    BY <1>1, <1>2, <1>3, <1>6, <2>1 DEF Before, AsMade
<1>9. child = "reopen" => Head(args) \in Words
  BY HeadArg DEF StateInv, PlaceInv, Late
<1>10. child = "reopen" /\ Head(args) \notin changed' => kind'[Head(args)] \notin Missing
  BY <1>1, <1>2, <1>9 DEF FilesInv
<1>11. \A f \in Words \ changed' : f \in Words \ changed
  BY <1>1
<1>12. FilesInv'
  <2>1. child \in Early => \A f \in Words \ changed' : Before(f)'
    BY <1>8, <1>11 DEF FilesInv
  <2>2. child = "output" /\ Undisturbed' => InputThere
    BY <1>4 DEF FilesInv
  <2>3. Undisturbed' /\ ~Runs =>
         /\ child \notin Late \cup {"begin"}
         /\ child \in Ended => buffered = <<>> /\ \A f \in Words \ changed' : Before(f)'
    BY <1>4, <1>8, <1>11 DEF FilesInv
  <2>4. Undisturbed' /\ Runs /\ child \in Late \cup Ended \cup {"begin"} =>
          \A f \in Words \ changed' : AsMade(f)'
    BY <1>4, <1>8, <1>11 DEF FilesInv
  <2> QED
    BY <1>1, <1>3, <1>10, <2>1, <2>2, <2>3, <2>4 DEF FilesInv
<1> QED
  BY <1>7, <1>12

(* When the child is forked the files are as they are.                      *)
LEMMA ForkFiles ==
  ASSUME Fork PROVE ProgressInv' /\ FilesInv'
<1>1. /\ child' = "start" /\ before' = [kind |-> kind, content |-> content]
      /\ UNCHANGED <<kind, content>>
  BY DEF Fork, files
<1>2. \A f \in Words : Before(f)'
  BY <1>1 DEF Before
<1> QED
  BY <1>1, <1>2 DEF ProgressInv, FilesInv, Begun, Early, Late, Ended
-----------------------------------------------------------------------------
LineInv == ParseInv /\ ParsedInv
RunInv == ProgressInv /\ FilesInv

(* At the start there is no child.                                          *)
LEMMA InitRun == Init => LineInv /\ RunInv
BY DEF Init, LineInv, RunInv, ParseInv, ParsedInv, ProgressInv, FilesInv, Begun, Early, Late,
  Ended

(* Without a child there is nothing to say.                                 *)
LEMMA NoRun ==
  ASSUME child' = "none" PROVE LineInv' /\ RunInv'
BY DEF LineInv, RunInv, ParseInv, ParsedInv, ProgressInv, FilesInv, Begun, Early, Late, Ended

(* After the parse nothing changes the names.                               *)
LEMMA ParsedStays ==
  ASSUME ParsedInv, child \notin {"none", "start"}, child' \notin {"none", "start"},
         UNCHANGED <<tokens, inputFile, outputFile>>,
         child' \in {"input", "output", "begin"} =>
           args' = args /\ child \in {"input", "output", "begin"}
  PROVE  LineInv'
<1>1. /\ Sensible' <=> Sensible
      /\ Named("<")' = Named("<") /\ Named(">")' = Named(">") /\ Arguments' = Arguments
  BY SameLine
<1> QED
  BY <1>1 DEF LineInv, ParseInv, ParsedInv

(* Of a line that is not sensible nothing is said.                          *)
LEMMA NotSensible ==
  ASSUME ~Sensible, tokens' = tokens PROVE LineInv' /\ RunInv'
<1>1. ~Sensible'
  BY SameLine
<1> QED
  BY <1>1 DEF LineInv, RunInv, ParseInv, ParsedInv, ProgressInv, FilesInv

(* The shell forks the child before it parses, and waits when it has ended. *)
LEMMA ShellRun ==
  ASSUME Inv, StateInv,
         ShellStep \/ PromptFails \/ TokenizeFails \/ \E line \in Lines : GetLine(line)
  PROVE  LineInv' /\ RunInv'
<1>1. CASE Fork
  <2>1. child' = "start"
    BY <1>1 DEF Fork
  <2> QED
    BY <1>1, <2>1, ForkParse, ForkFiles DEF LineInv, RunInv, ParsedInv
<1>2. CASE WaitChild
  BY <1>2, NoRun DEF WaitChild
<1>3. CASE \/ Prompt \/ PromptFails \/ TokenizeFails \/ EndOfInput \/ Tokenize \/ Decide \/ NotFound
           \/ ForkFails \/ \E line \in Lines : GetLine(line)
  <2>1. child = "none" /\ child' = child
    BY <1>3, ShellTypesStep DEF childVars
  <2> QED
    BY <2>1, NoRun
<1> QED
  BY <1>1, <1>2, <1>3 DEF ShellStep

(* The parse changes no file.                                               *)
LEMMA ParseRun ==
  ASSUME StateInv, LineInv, RunInv, Sensible, Redirect \/ KeepArgument \/ ParseEnds
  PROVE  LineInv' /\ RunInv'
<1>1. /\ child \in Early /\ child' \in {"start", "input"}
      /\ UNCHANGED <<tokens, before, changed, kind, content>>
  BY DEF Redirect, KeepArgument, ParseEnds, Early, shellVars, files, world
<1>2. RunInv'
  BY <1>1, EarlyFiles DEF RunInv
<1>3. CASE Redirect \/ KeepArgument
  <2>1. child' = "start"
    BY <1>3 DEF Redirect, KeepArgument
  <2> QED
    BY <1>2, <1>3, <2>1, RedirectParse, KeepParse DEF LineInv, ParsedInv
<1>4. CASE ParseEnds
  <2>1. child' = "input"
    BY <1>4 DEF ParseEnds
  <2> QED
    BY <1>2, <1>4, <2>1, ParseEndsParse DEF LineInv, ParseInv
<1> QED
  BY <1>3, <1>4

(* Each step of the child keeps what is known of line and files.            *)
LEMMA ChildRun ==
  ASSUME StateInv, LineInv, RunInv, ChildStep PROVE LineInv' /\ RunInv'
<1>1. tokens' = tokens
  <2>1. UNCHANGED shellVars
    <3>1. CASE Execute
      BY <3>1 DEF Execute, Redirect, KeepArgument, ParseEnds, RedirectInput, RedirectOutput,
        Begin, NoArgsLeft, Exit, Standing
    <3>2. CASE Echo \/ Touch \/ Ls
      BY <3>2 DEF Echo, Touch, Ls, EchoWord, TouchCreates, TouchExists, TouchFails,
        TouchReopens, LsLists, LsCrashes, Standing
    <3>3. CASE Cat
      BY <3>3 DEF Cat, CatOpenFails, CatOpen, CatCopies, CatStops, Standing
    <3> QED
      BY <3>1, <3>2, <3>3 DEF ChildStep
  <2> QED
    BY <2>1 DEF shellVars
<1>2. CASE ~Sensible
  BY <1>1, <1>2, NotSensible
<1>3. CASE Sensible /\ (Redirect \/ KeepArgument \/ ParseEnds)
  BY <1>3, ParseRun
<1>4. CASE Sensible /\ (RedirectInput \/ RedirectOutput \/ Begin \/ Exit)
  <2>1. /\ child \in {"input", "output", "begin", "exit"}
        /\ child' \in {"output", "begin", "copy", "next", "exit", "zombie"}
        /\ UNCHANGED <<tokens, inputFile, outputFile>>
        /\ child' \in {"output", "begin"} => args' = args /\ child \in {"input", "output"}
    BY <1>4 DEF RedirectInput, RedirectOutput, Begin, Exit, Standing, shellVars, argVars
  <2>2. LineInv'
    BY <2>1, ParsedStays DEF LineInv
  <2>3. RunInv'
    BY <1>4, RedirectFiles, BeginFiles, ExitFiles DEF LineInv, RunInv
  <2> QED
    BY <2>2, <2>3
<1>5. CASE Sensible /\ (NoArgsLeft \/ Echo \/ Cat \/ Touch \/ Ls)
  <2>1. /\ child \in Late /\ child' \in Late \cup {"exit", "zombie"}
        /\ UNCHANGED <<tokens, inputFile, outputFile>>
    <3>1. CASE NoArgsLeft \/ Echo \/ Cat
      BY <3>1 DEF NoArgsLeft, Echo, Cat, EchoWord, CatOpenFails, CatOpen, CatCopies, CatStops,
        NextArg, Standing, Late, shellVars
    <3>2. CASE Touch \/ Ls
      BY <3>2 DEF Touch, Ls, TouchCreates, TouchExists, TouchFails, TouchReopens, LsLists,
        LsCrashes, NextArg, Standing, Late, shellVars
    <3> QED
      BY <1>5, <3>1, <3>2
  <2>2. LineInv'
    BY <2>1, ParsedStays DEF LineInv, Late
  <2>3. RunInv'
    BY <1>5, CommandFiles DEF LineInv, RunInv
  <2> QED
    BY <2>2, <2>3
<1> QED
  BY <1>2, <1>3, <1>4, <1>5 DEF ChildStep, Execute

(* The parse stands where it stood.                                         *)
LEMMA SameParse ==
  ASSUME ParseInv, UNCHANGED <<tokens, child, args, scanned, inputFile, outputFile>>
  PROVE  ParseInv'
<1>1. Position' = Position /\ (Sensible' <=> Sensible) /\ ArgumentAt' = ArgumentAt
  BY SameLine DEF Position
<1>2. \A i : Rank(i)' = Rank(i) /\ (Operator(i)' <=> Operator(i))
  BY <1>1 DEF Rank, Operator
<1>3. Kept' <=> Kept
  BY <1>1, <1>2 DEF Kept, Rank
<1>4. Left' <=> Left
  BY <1>1 DEF Left
<1>5. \A op : /\ NameUpTo(op, Position, inputFile)' <=> NameUpTo(op, Position, inputFile)
              /\ NameUpTo(op, Position, outputFile)' <=> NameUpTo(op, Position, outputFile)
  BY <1>1 DEF NameUpTo
<1>6. Operator(Position)' <=> Operator(Position)
  BY <1>1 DEF Operator
<1> QED
  BY <1>1, <1>3, <1>4, <1>5, <1>6 DEF ParseInv

(* Another program does not disturb what is known of the other files.       *)
LEMMA WorldRun ==
  ASSUME StateInv, LineInv, RunInv, NEW g \in Names, FilesChange(g) PROVE LineInv' /\ RunInv'
<1>1. UNCHANGED <<tokens, child, args, scanned, inputFile, outputFile>>
  BY DEF FilesChange, shellVars, childVars, argVars
<1>2. CASE ~Sensible
  BY <1>1, <1>2, NotSensible
<1>3. CASE Sensible
  <2>1. RunInv'
    BY <1>3, WorldFiles DEF LineInv, RunInv
  <2>2. CASE child = "none"
    BY <1>1, <2>2, NoRun
  <2>3. CASE child = "start"
    <3>1. ParseInv'
      BY <1>1, SameParse DEF LineInv
    <3> QED
      BY <1>1, <2>1, <2>3, <3>1 DEF LineInv, ParsedInv
  <2>4. CASE child \notin {"none", "start"}
    BY <1>1, <2>1, <2>4, ParsedStays DEF LineInv
  <2> QED
    BY <2>2, <2>3, <2>4
<1> QED
  BY <1>2, <1>3

(* A command whose line is sensible has no pipe that could break.           *)
LEMMA NoPipe ==
  ASSUME ParsedInv, Sensible, BrokenPipe PROVE FALSE
<1>1. child \in {"next", "copy", "exit"} /\ outputFile \in Specials
  BY DEF BrokenPipe, Writing, NextArg
<1> QED
  BY <1>1, NoSpecials

LEMMA PipeRun ==
  ASSUME LineInv, BrokenPipe PROVE LineInv' /\ RunInv'
<1>1. tokens' = tokens /\ ~Sensible
  BY NoPipe DEF LineInv, BrokenPipe, shellVars
<1> QED
  BY <1>1, NotSensible

(* What is known of line, work and files is an invariant.                   *)
LEMMA StepRun ==
  Inv /\ StateInv /\ LineInv /\ RunInv /\ [Next]_vars => LineInv' /\ RunInv'
<1> SUFFICES ASSUME Inv, StateInv, LineInv, RunInv, [Next]_vars PROVE LineInv' /\ RunInv'
  OBVIOUS
<1>1. CASE UNCHANGED vars
  <2>1. UNCHANGED <<tokens, child, args, scanned, inputFile, outputFile, reading, buffered,
                    kind, content, before, changed>>
    BY <1>1 DEF vars, shellVars, childVars, argVars, catVars, files, world
  <2>2. ParseInv' /\ ParsedInv'
    BY <2>1, SameParse, SameLine DEF LineInv, ParsedInv
  <2>3. ProgressInv' /\ FilesInv'
    BY <2>1, SameRun DEF RunInv, ProgressInv, FilesInv, Begun, Undisturbed, Done, AsMade, Made,
      Before
  <2> QED
    BY <2>2, <2>3 DEF LineInv, RunInv
<1> QED
  BY <1>1, ShellRun, ChildRun, PipeRun, WorldRun DEF Next

(* Whatever other programs do to other names, and whenever they do it: a    *)
(* name they have not touched is without a file at mojtouch's end only if   *)
(* none could be created there when it began, whichever of its names failed *)
(* before; and a file they have not touched has lost nothing.               *)
THEOREM TouchesStand == Spec => []TouchedFilesStand
<1>1. StateInv /\ LineInv /\ RunInv => TouchedFilesStand
  <2> SUFFICES ASSUME StateInv, LineInv, RunInv, child = "zombie", tokens[1] = "touch",
                      Sensible, Runs, {Named("<"), Named(">")} \cap changed = {},
                      NEW f \in ToSet(Arguments) \ changed
               PROVE  /\ kind[f] \in Missing => before.kind[f] = "barred"
                      /\ content[f] = before.content[f]
    BY DEF TouchedFilesStand
  <2>1. ParsedInv /\ ProgressInv /\ FilesInv /\ Undisturbed /\ Begun
    BY DEF LineInv, RunInv, Undisturbed, Begun, Ended
  <2>2. /\ Arguments \in Seq(Words) /\ Work = Arguments /\ args = <<>>
    BY <2>1, RunTypes DEF Work, ProgressInv, Ended
  <2>3. f \in Words /\ f \in {Work[k] : k \in 1..Done}
    <3>1. Done = Len(Arguments)
      BY <2>1, <2>2, WorkLeft
    <3> QED
      BY <2>2, <3>1 DEF ToSet
  <2>4. AsMade(f)
    BY <2>1, <2>3 DEF FilesInv, Ended
  <2>5. f # Named(">")
    BY <2>3, NamesAreWords DEF Sensible
  <2>6. kind[f] \in Missing => before.kind[f] = "barred"
    BY <2>3, <2>4 DEF AsMade, Made, Was, Missing
  <2> QED
    BY <2>4, <2>5, <2>6 DEF AsMade
<1>2. Init => Inv /\ StateInv /\ LineInv /\ RunInv
  BY InitInv, InitState, InitRun
<1>3. Inv /\ StateInv /\ LineInv /\ RunInv /\ [Next]_vars
        => (Inv /\ StateInv /\ LineInv /\ RunInv)'
  BY StepInv, StepState, StepRun
<1> QED
  BY <1>1, <1>2, <1>3, PTL DEF Spec

(* A set of numbers that is not empty has a least one.                      *)
LEMMA Least ==
  ASSUME NEW T, T \subseteq Nat, T # {} PROVE \E n \in T : \A m \in T : n <= m
<1> DEFINE R == OpToRel(<, Nat)
<1>1. IsWellFoundedOn(R, Nat)
  BY NatLessThanWellFounded
<1>2. \A x, y \in Nat : <<y, x>> \in R <=> y < x
  BY DEF OpToRel
<1> HIDE DEF R
<1>3. PICK n \in T : \A m \in T : ~(<<m, n>> \in R)
  BY <1>1, WFMin
<1>4. \A m \in T : ~(m < n)
  BY <1>2, <1>3
<1> QED
  BY <1>4
-----------------------------------------------------------------------------
(* FlattenSeq, up to each of the sequences.                                 *)
Flat(seqs) ==
  LET flatten[i \in 1..Len(seqs)] == IF i = 1 THEN seqs[i] ELSE flatten[i - 1] \o seqs[i]
  IN  flatten

(* The last of them is FlattenSeq.                                          *)
LEMMA FlattenIs ==
  ASSUME NEW seqs
  PROVE  FlattenSeq(seqs) = IF Len(seqs) = 0 THEN seqs ELSE Flat(seqs)[Len(seqs)]
BY Zenon DEF FlattenSeq, Flat

FlatTo(f, seqs, m) == f = [i \in 1..m |-> IF i = 1 THEN seqs[i] ELSE f[i - 1] \o seqs[i]]

(* There is a function that its recursion defines ...                       *)
LEMMA FlatExists ==
  ASSUME NEW seqs, NEW n \in Nat, n >= 1 PROVE \E f : FlatTo(f, seqs, n)
<1> DEFINE Bad == {m \in Nat : m >= 1 /\ ~ \E f : FlatTo(f, seqs, m)}
<1> SUFFICES ASSUME Bad # {} PROVE FALSE
  OBVIOUS
<1>1. PICK m \in Bad : \A k \in Bad : m <= k
  BY Least
<1>2. m \in Nat /\ m >= 1 /\ ~ \E f : FlatTo(f, seqs, m)
  OBVIOUS
<1> HIDE DEF Bad
<1>3. CASE m = 1
  <2> DEFINE g == [i \in 1..1 |-> seqs[i]]
  <2>1. FlatTo(g, seqs, 1)
    BY DEF FlatTo
  <2> QED
    BY <1>2, <1>3, <2>1
<1>4. CASE m > 1
  <2>1. m - 1 \in Nat /\ m - 1 >= 1 /\ ~(m <= m - 1)
    BY <1>2, <1>4
  <2>2. PICK h : FlatTo(h, seqs, m - 1)
    BY <1>1, <2>1 DEF Bad
  <2> DEFINE g == [i \in 1..m |-> IF i = m THEN h[m - 1] \o seqs[m] ELSE h[i]]
  <2>3. ASSUME NEW i \in 1..m
        PROVE  g[i] = IF i = 1 THEN seqs[i] ELSE g[i - 1] \o seqs[i]
    <3>1. CASE i = m
      <4>1. m - 1 \in 1..m /\ m - 1 # m /\ i # 1
        BY <1>2, <1>4, <3>1
      <4> QED
        BY <3>1, <4>1
    <3>2. CASE i # m
      <4>1. i \in 1..m - 1 /\ (i # 1 => i - 1 \in 1..m /\ i - 1 # m)
        BY <1>2, <1>4, <3>2
      <4>2. h[i] = IF i = 1 THEN seqs[i] ELSE h[i - 1] \o seqs[i]
        BY <2>2, <4>1 DEF FlatTo
      <4> QED
        BY <3>2, <4>1, <4>2
    <3> QED
      BY <3>1, <3>2
  <2>4. FlatTo(g, seqs, m)
    <3>1. DOMAIN g = 1..m /\ g = [i \in 1..m |-> g[i]]
      OBVIOUS
    <3> HIDE DEF g
    <3> QED
      BY <2>3, <3>1 DEF FlatTo
  <2> QED
    BY <1>2, <2>4
<1> QED
  BY <1>2, <1>3, <1>4

(* ... so that each of its values follows from the one before.              *)
LEMMA FlatIs ==
  ASSUME NEW S, NEW seqs \in Seq(Seq(S)), NEW n \in 1..Len(seqs)
  PROVE  /\ Flat(seqs)[n] = IF n = 1 THEN seqs[n] ELSE Flat(seqs)[n - 1] \o seqs[n]
         /\ Flat(seqs)[n] \in Seq(S)
<1> DEFINE f == Flat(seqs)
<1>1. f = CHOOSE g : FlatTo(g, seqs, Len(seqs))
  BY Zenon DEF Flat, FlatTo
<1>2. FlatTo(f, seqs, Len(seqs))
  <2>1. Len(seqs) \in Nat /\ Len(seqs) >= 1
    OBVIOUS
  <2>2. \E g : FlatTo(g, seqs, Len(seqs))
    BY <2>1, FlatExists
  <2> HIDE DEF f
  <2> QED
    BY <1>1, <2>2, Zenon
<1> HIDE DEF f
<1>3. \A i \in 1..Len(seqs) : f[i] = IF i = 1 THEN seqs[i] ELSE f[i - 1] \o seqs[i]
  BY <1>2 DEF FlatTo
<1> DEFINE Bad == {m \in 1..Len(seqs) : f[m] \notin Seq(S)}
<1>4. Bad = {}
  <2> SUFFICES ASSUME Bad # {} PROVE FALSE
    OBVIOUS
  <2>0. Bad \subseteq Nat
    OBVIOUS
  <2>1. PICK m \in Bad : \A k \in Bad : m <= k
    <3> HIDE DEF Bad
    <3> QED
      BY <2>0, Least
  <2>2. m \in 1..Len(seqs) /\ f[m] \notin Seq(S) /\ seqs[m] \in Seq(S)
    OBVIOUS
  <2>3. m # 1
    BY <1>3, <2>2
  <2>4. m - 1 \in 1..Len(seqs) /\ ~(m <= m - 1)
    BY <2>2, <2>3
  <2>5. f[m - 1] \in Seq(S)
    BY <2>1, <2>4
  <2>6. f[m - 1] \o seqs[m] \in Seq(S)
    BY <2>2, <2>5
  <2> QED
    BY <1>3, <2>2, <2>3, <2>6
<1> QED
  BY <1>3, <1>4 DEF f
-----------------------------------------------------------------------------
(* What is written to a file that is full is lost.                          *)
LEMMA LimitedFull ==
  ASSUME NEW s \in Seq(Chunks), NEW t \in Seq(Chunks), MaxLen <= Len(s), Len(s) <= Len(t),
         \A k \in 1..Len(s) : t[k] = s[k]
  PROVE  Limited(t) = Limited(s)
<1>1. /\ Limited(s) \in Seq(Chunks) /\ Len(Limited(s)) = MaxLen
      /\ Limited(t) \in Seq(Chunks) /\ Len(Limited(t)) = MaxLen
  <2>1. MaxLen \in Nat /\ Len(s) \in Nat /\ Len(t) \in Nat
    BY MojbashAssumption DEF MojbashAssumption
  <2>2. ~(Len(s) < MaxLen) /\ ~(Len(t) < MaxLen)
    BY <2>1
  <2> QED
    BY <2>2, LimitedChunks
<1>2. /\ \A k \in 1..MaxLen : Limited(s)[k] = s[k]
      /\ \A k \in 1..MaxLen : Limited(t)[k] = t[k]
  BY <1>1, LimitedChunks
<1>3. \A k \in 1..MaxLen : k \in 1..Len(s)
  BY MojbashAssumption DEF MojbashAssumption
<1>4. \A k \in 1..MaxLen : Limited(t)[k] = Limited(s)[k]
  BY <1>2, <1>3
<1> QED
  BY <1>1, <1>4

(* What is cut after every write is what one write would leave.             *)
LEMMA LimitedAgain ==
  ASSUME NEW s \in Seq(Chunks), NEW t \in Seq(Chunks)
  PROVE  Limited(Limited(s) \o t) = Limited(s \o t)
<1>1. CASE Len(s) <= MaxLen
  BY <1>1, LimitedWhole
<1>2. CASE ~(Len(s) <= MaxLen)
  <2>1. PICK r : r = Limited(s)
    OBVIOUS
  <2>2. /\ r \in Seq(Chunks) /\ Len(r) = MaxLen /\ MaxLen \in Nat
        /\ Len(s) \in Nat /\ MaxLen <= Len(s) /\ \A k \in 1..MaxLen : r[k] = s[k]
    <3>1. MaxLen \in Nat /\ Len(s) \in Nat
      BY MojbashAssumption DEF MojbashAssumption
    <3>2. ~(Len(s) < MaxLen) /\ MaxLen <= Len(s)
      BY <1>2, <3>1
    <3> QED
      BY <2>1, <3>1, <3>2, LimitedChunks
  <2>3. Limited(s \o t) = Limited(s)
    <3>1. s \o t \in Seq(Chunks) /\ Len(s \o t) = Len(s) + Len(t) /\ Len(t) \in Nat
      OBVIOUS
    <3>2. Len(s) <= Len(s \o t)
      BY <2>2, <3>1
    <3>3. \A k \in 1..Len(s) : (s \o t)[k] = s[k]
      BY Joined
    <3> QED
      BY <2>2, <3>1, <3>2, <3>3, LimitedFull
  <2>4. Limited(r \o t) = Limited(r)
    <3>0. r \in Seq(Chunks) /\ Len(t) \in Nat
      BY <2>2
    <3>1. r \o t \in Seq(Chunks) /\ Len(r \o t) = Len(r) + Len(t) /\ Len(t) \in Nat
      BY <3>0, Joined
    <3>2. Len(r) <= Len(r \o t) /\ MaxLen <= Len(r)
      BY <2>2, <3>1
    <3>3. \A k \in 1..Len(r) : (r \o t)[k] = r[k]
      BY <2>2, Joined
    <3> QED
      BY <2>2, <3>1, <3>2, <3>3, LimitedFull
  <2>5. Limited(r) = r
    BY <2>2, LimitedWhole
  <2> QED
    BY <2>1, <2>3, <2>4, <2>5
<1> QED
  BY <1>1, <1>2

(* A prefix that is one element longer.                                     *)
LEMMA NextOf ==
  ASSUME NEW S, NEW s \in Seq(S), NEW n \in Nat, n < Len(s)
  PROVE  /\ SubSeq(s, 1, n + 1) = SubSeq(s, 1, n) \o <<s[n + 1]>>
         /\ SubSeq(s, 1, n + 1) = Append(SubSeq(s, 1, n), s[n + 1])
         /\ s[n + 1] \in S
OBVIOUS

(* The elements of a prefix.                                                *)
LEMMA PartOf ==
  ASSUME NEW S, NEW s \in Seq(S), NEW n \in Nat, n <= Len(s)
  PROVE  /\ SubSeq(s, 1, n) \in Seq(S) /\ Len(SubSeq(s, 1, n)) = n
         /\ \A k \in 1..n : SubSeq(s, 1, n)[k] = s[k]
         /\ n = Len(s) => SubSeq(s, 1, n) = s
         /\ n = 0 => SubSeq(s, 1, n) = <<>>
OBVIOUS
-----------------------------------------------------------------------------
(* What mojcat has copied of the first n files.                             *)
Pieces(names) ==
  [k \in DOMAIN names |-> IF names[k] \in Was("file") THEN before.content[names[k]] ELSE <<>>]
CopiedTo(n) == IF n = 0 THEN <<>> ELSE Flat(Pieces(Work))[n]

(* What mojcat copies of each of its files.                                 *)
LEMMA PiecesAre ==
  ASSUME StateInv, NEW names \in Seq(Words)
  PROVE  /\ Pieces(names) \in Seq(Seq(Chunks)) /\ Len(Pieces(names)) = Len(names)
         /\ \A k \in 1..Len(names) :
              Pieces(names)[k] = IF names[k] \in Was("file") THEN before.content[names[k]] ELSE <<>>
<1>1. \A f \in Words : before.content[f] \in Seq(Chunks)
  BY DEF StateInv, FileInv
<1>2. DOMAIN names = 1..Len(names) /\ \A k \in 1..Len(names) : names[k] \in Words
  OBVIOUS
<1>3. \A k \in 1..Len(names) :
        (IF names[k] \in Was("file") THEN before.content[names[k]] ELSE <<>>) \in Seq(Chunks)
  BY <1>1, <1>2
<1>4. Pieces(names) \in [1..Len(names) -> Seq(Chunks)]
  BY <1>2, <1>3 DEF Pieces
<1> QED
  BY <1>2, <1>4 DEF Pieces

(* Each file adds its contents to what mojcat has copied.                   *)
LEMMA CopiedIs ==
  ASSUME StateInv, Work \in Seq(Words)
  PROVE  /\ \A n \in 0..Len(Work) : CopiedTo(n) \in Seq(Chunks)
         /\ \A n \in 1..Len(Work) : CopiedTo(n) = CopiedTo(n - 1) \o Pieces(Work)[n]
         /\ Copied(Work) = CopiedTo(Len(Work))
<1>1. /\ Pieces(Work) \in Seq(Seq(Chunks)) /\ Len(Pieces(Work)) = Len(Work) /\ Len(Work) \in Nat
      /\ \A n \in 1..Len(Work) : Pieces(Work)[n] \in Seq(Chunks)
  BY PiecesAre
<1>2. \A n \in 1..Len(Work) :
        /\ Flat(Pieces(Work))[n] = IF n = 1 THEN Pieces(Work)[n]
                                   ELSE Flat(Pieces(Work))[n - 1] \o Pieces(Work)[n]
        /\ Flat(Pieces(Work))[n] \in Seq(Chunks)
  BY <1>1, FlatIs
<1>3. ASSUME NEW n \in 0..Len(Work) PROVE CopiedTo(n) \in Seq(Chunks)
  BY <1>1, <1>2 DEF CopiedTo
<1>4. ASSUME NEW n \in 1..Len(Work) PROVE CopiedTo(n) = CopiedTo(n - 1) \o Pieces(Work)[n]
  <2>1. CASE n = 1
    <3>1. CopiedTo(1) = Pieces(Work)[1] /\ CopiedTo(0) = <<>>
      BY <1>2, <2>1 DEF CopiedTo
    <3>2. \A s \in Seq(Chunks) : <<>> \o s = s
      OBVIOUS
    <3>3. Pieces(Work)[1] \in Seq(Chunks) /\ n - 1 = 0
      BY <1>1, <2>1
    <3> QED
      BY <2>1, <3>1, <3>2, <3>3
  <2>2. CASE n # 1
    <3>1. n - 1 # 0 /\ n # 0
      BY <1>1, <2>2
    <3> QED
      BY <1>2, <2>2, <3>1 DEF CopiedTo
  <2> QED
    BY <2>1, <2>2
<1>5. Copied(Work) = CopiedTo(Len(Work))
  <2>1. Copied(Work) = FlattenSeq(Pieces(Work))
    BY DEF Copied, Pieces
  <2>2. Len(Work) = 0 => Pieces(Work) = <<>>
    BY <1>1
  <2> QED
    BY <1>1, <2>1, <2>2, FlattenIs DEF CopiedTo
<1> QED
  BY <1>3, <1>4, <1>5
-----------------------------------------------------------------------------
(* What the command has written so far.                                     *)
Typed(n) == [k \in 1..n |-> "typed"]

Out ==
  CASE tokens[1] = "echo" -> SubSeq(Work, 1, Done)
    [] tokens[1] = "cat" ->
         IF Work = <<>> THEN Typed(typed)
         ELSE IF child = "copy"
           THEN CopiedTo(Done - 1) \o SubSeq(before.content[reading], 1, pos)
         ELSE CopiedTo(Done)
    [] tokens[1] = "touch" -> <<>>
    [] tokens[1] = "ls" -> SubSeq(Work, 1, Done - Len(buffered))

Wrote(out) ==
  /\ screen = IF Named(">") = NoFile THEN out ELSE <<>>
  /\ Named(">") # NoFile => content[Named(">")] = Limited(out)

(* The end of a listing is held back in stdout's buffer, unless stdout is   *)
(* the terminal; what ends as it should leaves nothing there.               *)
HeldBack ==
  /\ tokens[1] # "ls" \/ Named(">") = NoFile => buffered = <<>>
  /\ tokens[1] = "ls" =>
       /\ Len(buffered) <= Done /\ Len(buffered) <= BufferCap
       /\ \A k \in 1..Len(buffered) : buffered[k] = Work[Done - Len(buffered) + k]
  /\ child = "zombie" /\ args = <<>> => buffered = <<>>

MetDirectories ==
  tokens[1] = "ls" =>
    /\ \A k \in 1..Done : Work[k] \in Was("dir")
    /\ child = "zombie" /\ args # <<>> => Work[Done + 1] \notin Was("dir")

InFile ==
  child = "copy" /\ reading # Terminal =>
    before.kind[reading] \in {"dir", "file"} /\ pos <= Len(before.content[reading])

Alone == Sensible /\ changed = {}

OutInv ==
  Alone =>
    /\ ~Runs /\ child \in Ended => screen = <<>>
    /\ Runs /\ child = "begin" /\ Named(">") # NoFile => content[Named(">")] = <<>>
    /\ Runs /\ child \in Late \cup Ended => Wrote(Out) /\ HeldBack /\ MetDirectories /\ InFile
-----------------------------------------------------------------------------
(* While the command is alone with the files.                               *)
LEMMA AloneFacts ==
  ASSUME StateInv, LineInv, RunInv, Alone
  PROVE  /\ Undisturbed
         /\ child \in Late \cup {"begin"} => Runs
         /\ child \in Late \cup Ended /\ Runs => Begun
         /\ child \in Late \cup Ended \cup {"begin"} /\ Runs => \A f \in Words : AsMade(f)
         /\ child \notin {"none", "start"} => outputFile = Named(">") /\ inputFile = Named("<")
<1>1. Undisturbed
  BY DEF Alone, Undisturbed
<1>2. child \in Late \cup {"begin"} => Runs
  BY <1>1 DEF RunInv, FilesInv, Alone
<1>3. child \in Late \cup Ended /\ Runs => Begun
  BY <1>1 DEF Begun
<1>4. child \in Late \cup Ended \cup {"begin"} /\ Runs => \A f \in Words : AsMade(f)
  BY <1>1 DEF RunInv, FilesInv, Alone
<1>5. child \notin {"none", "start"} => outputFile = Named(">") /\ inputFile = Named("<")
  BY DEF LineInv, ParsedInv, Alone
<1> QED
  BY <1>1, <1>2, <1>3, <1>4, <1>5

(* It does not read what it writes.                                         *)
LEMMA OwnInput ==
  ASSUME StateInv, LineInv, RunInv, Alone, Runs, child \in Late \cup Ended, tokens[1] = "cat",
         NEW n \in 1..Len(Work)
  PROVE  /\ Work[n] \in Words \ Specials /\ Work[n] # Named(">")
         /\ kind[Work[n]] = before.kind[Work[n]] /\ content[Work[n]] = before.content[Work[n]]
<1>1. /\ Arguments \in Seq(Words) /\ Named("<") \in Words \cup {NoFile} /\ Work \in Seq(Words)
      /\ \A f \in Words : AsMade(f) /\ Sensible
  BY RunTypes, AloneFacts DEF LineInv, Alone, Late, Ended
<1>2. Work[n] \in Words
  BY <1>1
<1>3. Work[n] \in ToSet(Arguments) \cup {Named("<")}
  <2>1. CASE Arguments # <<>>
    <3>1. Work = Arguments
      BY <2>1 DEF Work
    <3> QED
      BY <1>1, <3>1 DEF ToSet
  <2>2. CASE Arguments = <<>>
    <3>1. Work = IF Named("<") # NoFile THEN <<Named("<")>> ELSE <<>>
      BY <2>2 DEF Work
    <3> QED
      BY <1>1, <3>1
  <2> QED
    BY <2>1, <2>2
<1>4. Work[n] # Named(">")
  BY <1>1, <1>2, <1>3, NamesAreWords DEF Sensible
<1>5. Work[n] \notin Made
  BY <1>4 DEF Made
<1>6. Work[n] \notin Specials
  BY <1>1, <1>3 DEF Sensible
<1> QED
  BY <1>1, <1>2, <1>4, <1>5, <1>6 DEF AsMade

(* A command makes no directory and removes none.                           *)
LEMMA SameDirectories ==
  ASSUME StateInv, LineInv, RunInv, Alone, Runs, child \in Late \cup Ended, NEW f \in Words
  PROVE  kind[f] = "dir" <=> f \in Was("dir")
<1>1. AsMade(f)
  BY AloneFacts
<1>2. f \in Made => before.kind[f] = "absent"
  BY DEF Made, Was
<1> QED
  BY <1>1, <1>2 DEF AsMade, Was

(* What the command writes goes where the redirections say.                 *)
WritesOn(out) ==
  /\ screen' = IF Named(">") = NoFile THEN out ELSE <<>>
  /\ Named(">") # NoFile => content'[Named(">")] = Limited(out)

(* What has been written grows by what is written.                          *)
LEMMA WriteMore ==
  ASSUME StateInv, NEW out \in Seq(Chunks), NEW chunks \in Seq(Chunks), Wrote(out),
         Write(chunks), outputFile = Named(">"), outputFile \notin Specials
  PROVE  WritesOn(out \o chunks)
<1>1. /\ outputFile # NoFile => /\ content'[outputFile] = Limited(content[outputFile] \o chunks)
                                /\ screen' = screen
      /\ outputFile = NoFile => content' = content /\ screen' = screen \o chunks
  BY WriteChunks DEF StateInv, TypeOK
<1>2. CASE outputFile # NoFile
  BY <1>1, <1>2, LimitedAgain DEF Wrote, WritesOn
<1>3. CASE outputFile = NoFile
  BY <1>1, <1>3 DEF Wrote, WritesOn
<1> QED
  BY <1>2, <1>3

(* The output of a command is cut in chunks.                                *)
LEMMA OutChunks ==
  ASSUME StateInv, LineInv, RunInv, OutInv, Alone, Runs, child \in Late \cup Ended
  PROVE  Out \in Seq(Chunks)
<1>1. /\ Work \in Seq(Chunks) /\ Done \in 0..Len(Work) /\ Len(Work) \in Nat
      /\ tokens[1] \in Commands /\ (tokens[1] # "echo" => Work \in Seq(Words))
  <2>1. ParsedInv /\ ProgressInv /\ Sensible /\ Begun /\ child \notin {"none", "start"}
    BY AloneFacts DEF LineInv, RunInv, Alone, Late, Ended
  <2> QED
    BY <2>1, RunTypes, WorkLeft
<1>2. /\ SubSeq(Work, 1, Done) \in Seq(Chunks) /\ <<>> \in Seq(Chunks)
      /\ tokens[1] = "ls" => SubSeq(Work, 1, Done - Len(buffered)) \in Seq(Chunks)
  <2>1. buffered \in Seq(Chunks) /\ (tokens[1] = "ls" => Len(buffered) <= Done)
    BY DEF OutInv, HeldBack, StateInv, TypeOK
  <2>2. Len(buffered) \in Nat
    BY <2>1
  <2>3. tokens[1] = "ls" => Done - Len(buffered) \in 0..Len(Work)
    BY <1>1, <2>1, <2>2
  <2> QED
    BY <1>1, <2>3, PartOf
<1>3. Typed(typed) \in Seq(Chunks)
  <2>1. typed \in Nat /\ "typed" \in Chunks
    BY NamesAreWords, MojbashAssumption DEF StateInv, TypeOK, MojbashAssumption
  <2> QED
    BY <2>1 DEF Typed
<1>4. CASE tokens[1] = "cat" /\ Work # <<>>
  <2>1. \A n \in 0..Len(Work) : CopiedTo(n) \in Seq(Chunks)
    BY <1>1, <1>4, CopiedIs
  <2>2. CASE child = "copy"
    <3>1. Done >= 1 /\ reading = Work[Done] /\ reading # Terminal
      <4>1. ProgressInv /\ Sensible /\ Begun
        BY AloneFacts DEF RunInv, Alone
      <4>2. reading # Terminal
        BY <1>4, <2>2, <4>1 DEF ProgressInv
      <4> QED
        BY <2>2, <4>1, <4>2 DEF ProgressInv
    <3>2. before.content[reading] \in Seq(Chunks)
      <4>1. Work[Done] \in Words
        BY <1>1, <1>4, <3>1
      <4> QED
        BY <3>1, <4>1 DEF StateInv, FileInv
    <3>3. pos \in Nat /\ pos <= Len(before.content[reading])
      BY <2>2, <3>1 DEF OutInv, InFile, StateInv, TypeOK, Late
    <3>4. SubSeq(before.content[reading], 1, pos) \in Seq(Chunks)
      BY <3>2, <3>3, PartOf
    <3>5. CopiedTo(Done - 1) \in Seq(Chunks)
      BY <1>1, <2>1, <3>1
    <3> QED
      BY <1>4, <2>2, <3>4, <3>5 DEF Out
  <2>3. CASE child # "copy"
    BY <1>1, <1>4, <2>1, <2>3 DEF Out
  <2> QED
    BY <2>2, <2>3
<1>5. CASE ~(tokens[1] = "cat" /\ Work # <<>>)
  BY <1>1, <1>2, <1>3, <1>5 DEF Out, Commands
<1> QED
  BY <1>4, <1>5

(* What a command may rely on at each of its steps.                         *)
LEMMA Working ==
  ASSUME StateInv, LineInv, RunInv, OutInv, Alone, child \in Late \/ (child \in Ended /\ Runs)
  PROVE  /\ Runs /\ Sensible /\ Begun /\ ParsedInv /\ ProgressInv /\ FilesInv
         /\ outputFile = Named(">") /\ outputFile \notin Specials
         /\ Wrote(Out) /\ HeldBack /\ MetDirectories /\ InFile /\ Out \in Seq(Chunks)
         /\ Work \in Seq(Chunks) /\ Len(Work) \in Nat /\ Done \in 0..Len(Work)
         /\ tokens[1] # "echo" => Work \in Seq(Words)
         /\ args = <<>> <=> Done = Len(Work)
         /\ args # <<>> => Head(args) = Work[Done + 1] /\ Done + 1 \in 1..Len(Work)
         /\ tokens[1] \in Commands
<1>1. /\ Runs /\ Sensible /\ Begun /\ ParsedInv /\ ProgressInv /\ FilesInv
      /\ outputFile = Named(">") /\ child \notin {"none", "start"}
  BY AloneFacts DEF LineInv, RunInv, Alone, Late, Ended
<1>5. outputFile \notin Specials
  BY <1>1, NoSpecials
<1>2. Wrote(Out) /\ HeldBack /\ MetDirectories /\ InFile /\ Out \in Seq(Chunks)
  BY <1>1, OutChunks DEF OutInv
<1>3. /\ Work \in Seq(Chunks) /\ Len(Work) \in Nat /\ tokens[1] \in Commands
      /\ tokens[1] # "echo" => Work \in Seq(Words)
  BY <1>1, RunTypes
<1>4. /\ Done \in 0..Len(Work) /\ (args = <<>> <=> Done = Len(Work))
      /\ args # <<>> => Head(args) = Work[Done + 1] /\ Done + 1 \in 1..Len(Work)
  BY <1>1, WorkLeft
<1> QED
  BY <1>1, <1>2, <1>3, <1>4, <1>5

(* What is to be shown of a step of a command.                              *)
LEMMA OutStep ==
  ASSUME Runs, tokens' = tokens, before' = before, child' \in Late \cup Ended,
         WritesOn(Out'), HeldBack', MetDirectories', InFile'
  PROVE  OutInv'
<1>1. Named(">")' = Named(">") /\ Runs'
  BY SameRun
<1>2. Wrote(Out)'
  BY <1>1 DEF Wrote, WritesOn
<1>3. child' # "begin"
  BY DEF Late, Ended
<1> QED
  BY <1>1, <1>2, <1>3 DEF OutInv

(* Nothing is written.                                                      *)
LEMMA WritesNothing ==
  ASSUME NEW out, Wrote(out), screen' = screen,
         Named(">") # NoFile => content'[Named(">")] = content[Named(">")]
  PROVE  WritesOn(out)
BY DEF Wrote, WritesOn

(* mojecho writes a word.                                                   *)
LEMMA EchoOut ==
  ASSUME StateInv, LineInv, RunInv, OutInv, Alone, EchoWord PROVE OutInv'
<1>1. /\ child \in Late /\ child' = "next" /\ tokens[1] = "echo" /\ args # <<>>
      /\ args' = Tail(args) /\ UNCHANGED <<tokens, before, buffered>> /\ Write(<<Head(args)>>)
  BY DEF EchoWord, NextArg, Standing, Late, shellVars
<1>2. /\ Runs /\ Sensible /\ ParsedInv /\ ProgressInv
      /\ outputFile = Named(">") /\ outputFile \notin Specials
      /\ Wrote(Out) /\ HeldBack /\ Out \in Seq(Chunks) /\ Work \in Seq(Chunks)
      /\ Head(args) = Work[Done + 1] /\ Done + 1 \in 1..Len(Work) /\ Done \in 0..Len(Work)
  BY <1>1, Working
<1>3. Done' = Done + 1 /\ Work' = Work /\ Named(">")' = Named(">")
  BY <1>1, <1>2, NextProgress, SameRun
<1>4. Out' = Out \o <<Head(args)>>
  <2>1. Out = SubSeq(Work, 1, Done) /\ Out' = SubSeq(Work, 1, Done + 1)
    BY <1>1, <1>3 DEF Out
  <2>2. Done \in Nat /\ Done < Len(Work)
    BY <1>2
  <2>3. SubSeq(Work, 1, Done + 1) = SubSeq(Work, 1, Done) \o <<Work[Done + 1]>>
    BY <1>2, <2>2, NextOf
  <2> QED
    BY <1>2, <2>1, <2>3
<1>5. WritesOn(Out')
  <2>1. <<Head(args)>> \in Seq(Chunks)
    BY <1>1, HeadArg
  <2>2. PICK out : out = Out
    OBVIOUS
  <2>3. WritesOn(out \o <<Head(args)>>)
    BY <1>1, <1>2, <2>1, <2>2, WriteMore
  <2> QED
    BY <1>4, <2>2, <2>3
<1>6. HeldBack' /\ MetDirectories' /\ InFile'
  BY <1>1, <1>2, <1>3 DEF HeldBack, MetDirectories, InFile, Late
<1>7. child' \in Late \cup Ended
  BY <1>1 DEF Late
<1> QED
  BY <1>1, <1>2, <1>5, <1>6, <1>7, OutStep

(* mojtouch writes nothing, and leaves the file of stdout alone.            *)
LEMMA TouchOut ==
  ASSUME StateInv, LineInv, RunInv, OutInv, Alone, Touch PROVE OutInv'
<1>1. /\ child \in Late /\ child' \in Late /\ child' # "copy" /\ tokens[1] = "touch"
      /\ UNCHANGED <<tokens, before, buffered, screen>>
  BY DEF Touch, TouchCreates, TouchExists, TouchFails, TouchReopens, NextArg, Standing, Late,
    StateInv, PlaceInv, shellVars
<1>2. /\ Runs /\ Sensible /\ ParsedInv /\ Wrote(Out) /\ HeldBack /\ Named(">")' = Named(">")
  BY <1>1, Working, SameRun
<1>3. Out = <<>> /\ Out' = <<>>
  BY <1>1 DEF Out
<1>4. Named(">") # NoFile => content'[Named(">")] = content[Named(">")]
  <2>1. CASE TouchCreates
    <3>1. args # <<>> /\ content' = [content EXCEPT ![Head(args)] = <<>>]
      BY <2>1 DEF TouchCreates, NextArg
    <3>2. Head(args) = Work[Done + 1] /\ Done + 1 \in 1..Len(Work)
      BY <1>1, <3>1, Working
    <3>3. Work = Arguments /\ Arguments \in Seq(Words)
      BY <1>1, <1>2, RunTypes DEF Work, Late
    <3>4. Head(args) \in ToSet(Arguments)
      BY <3>2, <3>3 DEF ToSet
    <3>5. Named(">") # NoFile => Named(">") # Head(args)
      BY <1>2, <3>4 DEF Sensible
    <3>6. Named(">") \in Words \cup {NoFile}
      BY <1>1, <1>2, RunTypes DEF Late
    <3> QED
      BY <3>1, <3>5, <3>6 DEF StateInv, TypeOK
  <2>2. CASE TouchExists \/ TouchFails \/ TouchReopens
    BY <2>2 DEF TouchExists, TouchFails, TouchReopens, files
  <2> QED
    BY <2>1, <2>2 DEF Touch
<1>5. WritesOn(Out')
  BY <1>1, <1>2, <1>3, <1>4, WritesNothing
<1>6. HeldBack' /\ MetDirectories' /\ InFile'
  BY <1>1, <1>2 DEF HeldBack, MetDirectories, InFile, Late
<1> QED
  BY <1>1, <1>2, <1>5, <1>6, OutStep

(* mojcat comes to the next of its files.                                   *)
LEMMA CatNextOut ==
  ASSUME StateInv, LineInv, RunInv, OutInv, Alone, CatOpenFails \/ CatOpen PROVE OutInv'
<1>1. /\ child = "next" /\ child \in Late /\ child' \in {"next", "copy"} /\ tokens[1] = "cat"
      /\ args # <<>> /\ args' = Tail(args)
      /\ UNCHANGED <<tokens, before, buffered, screen, content>>
  BY DEF CatOpenFails, CatOpen, NextArg, Standing, Late, shellVars, files
<1>2. /\ Runs /\ Sensible /\ ParsedInv /\ ProgressInv /\ Wrote(Out) /\ HeldBack
      /\ Work \in Seq(Words) /\ Len(Work) \in Nat /\ Done \in 0..Len(Work)
      /\ Head(args) = Work[Done + 1] /\ Done + 1 \in 1..Len(Work)
  BY <1>1, Working
<1>3. child' = "next" \/ (child' = "copy" /\ reading' = Head(args) /\ pos' = 0)
  BY DEF CatOpenFails, CatOpen, Standing
<1>4. Done' = Done + 1 /\ Work' = Work /\ Named(">")' = Named(">")
  <2>1. child' = "next" \/ (child' = "copy" /\ reading' = Head(args) /\ tokens[1] # "echo")
    BY <1>1, <1>3
  <2> QED
    BY <1>1, <1>2, <2>1, NextProgress, SameRun
<1>5. /\ Head(args) \in Words /\ kind[Head(args)] = before.kind[Head(args)]
      /\ before.content[Head(args)] \in Seq(Chunks)
  <2>1. Head(args) \in Words /\ kind[Head(args)] = before.kind[Head(args)]
    BY <1>1, <1>2, OwnInput
  <2> QED
    BY <2>1 DEF StateInv, FileInv
<1>6. Out = CopiedTo(Done) /\ Work # <<>>
  <2>1. Work # <<>>
    BY <1>2
  <2> QED
    BY <1>1, <2>1 DEF Out
<1>7. Out' = Out
  <2>1. CASE CatOpen
    <3>1. child' = "copy" /\ reading' = Head(args) /\ pos' = 0
      BY <2>1 DEF CatOpen, Standing
    <3>2. Out' = CopiedTo(Done - 1)' \o SubSeq(before.content[Head(args)], 1, 0)
      BY <1>1, <1>4, <1>6, <3>1 DEF Out
    <3>3. SubSeq(before.content[Head(args)], 1, 0) = <<>>
      BY <1>5
    <3>4. CopiedTo(Done - 1)' = CopiedTo(Done)
      <4>1. (Done - 1)' = Done
        BY <1>2, <1>4
      <4> QED
        BY <1>1, <1>4, <4>1, SameRun DEF CopiedTo, Pieces
    <3>5. CopiedTo(Done) \in Seq(Chunks)
      BY <1>2, CopiedIs
    <3> QED
      BY <1>6, <3>2, <3>3, <3>4, <3>5
  <2>2. CASE CatOpenFails
    <3>1. child' = "next" /\ kind[Head(args)] \in {"absent", "barred", "locked"}
      BY <2>2 DEF CatOpenFails, Standing, Missing
    <3>2. Out' = CopiedTo(Done + 1)
      BY <1>1, <1>4, <1>6, <3>1, SameRun DEF Out, CopiedTo, Pieces
    <3>3. Head(args) \notin Was("file")
      BY <1>5, <3>1 DEF Was
    <3>4. Pieces(Work)[Done + 1] = <<>>
      BY <1>2, <3>3, PiecesAre
    <3>5. CopiedTo(Done) \in Seq(Chunks) /\ CopiedTo(Done + 1) = CopiedTo(Done) \o <<>>
      <4>1. PICK n \in 1..Len(Work) : n = Done + 1
        BY <1>2
      <4>2. CopiedTo(Done) \in Seq(Chunks) /\ n - 1 = Done
        BY <1>2, <4>1, CopiedIs
      <4>3. CopiedTo(n) = CopiedTo(n - 1) \o Pieces(Work)[n]
        BY <1>2, CopiedIs
      <4> QED
        BY <3>4, <4>1, <4>2, <4>3
    <3> QED
      BY <1>6, <3>2, <3>5
  <2> QED
    BY <2>1, <2>2
<1>8. WritesOn(Out')
  BY <1>1, <1>2, <1>7, WritesNothing
<1>9. HeldBack' /\ MetDirectories' /\ InFile'
  <2>1. child' = "copy" => before.kind[Head(args)] \in {"dir", "file"}
    <3>1. Head(args) \notin Specials
      BY <1>1, <1>2, OwnInput
    <3>2. kind[Head(args)] # "special"
      BY <1>5, <3>1 DEF StateInv, FileInv
    <3> QED
      BY <1>5, <3>2 DEF CatOpenFails, CatOpen, Standing
  <2>2. 0 <= Len(before.content[Head(args)])
    BY <1>5
  <2> QED
    BY <1>1, <1>2, <1>3, <2>1, <2>2 DEF HeldBack, MetDirectories, InFile
<1>10. child' \in Late \cup Ended
  BY <1>1 DEF Late
<1> QED
  BY <1>1, <1>2, <1>8, <1>9, <1>10, OutStep

(* Where it is while it copies.                                             *)
LEMMA Copying ==
  ASSUME StateInv, LineInv, RunInv, OutInv, Alone, child = "copy"
  PROVE  /\ tokens[1] = "cat" /\ (Endless <=> Work = <<>>)
         /\ Endless => Out = Typed(typed)
         /\ ~Endless =>
              /\ Done \in 1..Len(Work) /\ reading = Work[Done] /\ reading \in Words
              /\ reading # Named(">")
              /\ content[reading] = before.content[reading] /\ content[reading] \in Seq(Chunks)
              /\ pos \in Nat /\ pos <= Len(content[reading])
              /\ Out = CopiedTo(Done - 1) \o SubSeq(content[reading], 1, pos)
              /\ CopiedTo(Done - 1) \in Seq(Chunks)
              /\ CopiedTo(Done) = CopiedTo(Done - 1) \o content[reading]
<1>1. child \in Late /\ tokens[1] = "cat"
  BY DEF Late, StateInv, PlaceInv
<1>2. /\ Runs /\ ProgressInv /\ Sensible /\ Begun /\ InFile
      /\ Work \in Seq(Words) /\ Done \in 0..Len(Work) /\ Len(Work) \in Nat
  BY <1>1, Working
<1>3. IF reading = Terminal THEN Work = <<>> ELSE Done >= 1 /\ reading = Work[Done]
  BY <1>2 DEF ProgressInv
<1>4. Endless <=> Work = <<>>
  <2>1. reading # Terminal => reading \notin Specials /\ Work # <<>>
    <3>1. reading # Terminal => Done \in 1..Len(Work) /\ reading = Work[Done]
      BY <1>2, <1>3
    <3> QED
      BY <1>1, <1>2, <3>1, OwnInput
  <2> QED
    BY <1>3, <2>1 DEF Endless
<1>5. Endless => Out = Typed(typed)
  BY <1>1, <1>4 DEF Out
<1>6. ASSUME ~Endless
      PROVE  /\ Done \in 1..Len(Work) /\ reading = Work[Done] /\ reading \in Words
             /\ reading # Named(">")
             /\ content[reading] = before.content[reading] /\ content[reading] \in Seq(Chunks)
             /\ pos \in Nat /\ pos <= Len(content[reading])
             /\ Out = CopiedTo(Done - 1) \o SubSeq(content[reading], 1, pos)
             /\ CopiedTo(Done - 1) \in Seq(Chunks)
             /\ CopiedTo(Done) = CopiedTo(Done - 1) \o content[reading]
  <2>1. reading # Terminal /\ Done \in 1..Len(Work) /\ reading = Work[Done]
    BY <1>2, <1>3, <1>6 DEF Endless
  <2>2. reading \in Words /\ reading # Named(">") /\ content[reading] = before.content[reading]
    BY <1>1, <1>2, <2>1, OwnInput
  <2>3. content[reading] \in Seq(Chunks) /\ pos \in Nat
    BY <2>2 DEF StateInv, TypeOK
  <2>4. before.kind[reading] \in {"dir", "file"} /\ pos <= Len(content[reading])
    BY <1>2, <2>1, <2>2 DEF InFile
  <2>5. Out = CopiedTo(Done - 1) \o SubSeq(content[reading], 1, pos)
    BY <1>1, <1>4, <1>6, <2>2 DEF Out
  <2>6. Pieces(Work)[Done] = content[reading]
    <3>1. Pieces(Work)[Done] = IF reading \in Was("file") THEN before.content[reading] ELSE <<>>
      BY <1>2, <2>1, PiecesAre
    <3>2. before.kind[reading] = "dir" => before.content[reading] = <<>>
      BY <2>2 DEF StateInv, FileInv
    <3> QED
      BY <2>2, <2>4, <3>1, <3>2 DEF Was
  <2>7. Done - 1 \in 0..Len(Work)
    BY <1>2, <2>1
  <2>8. /\ CopiedTo(Done - 1) \in Seq(Chunks)
        /\ CopiedTo(Done) = CopiedTo(Done - 1) \o Pieces(Work)[Done]
    BY <1>2, <2>1, <2>7, CopiedIs
  <2> QED
    BY <2>1, <2>2, <2>3, <2>4, <2>5, <2>6, <2>8
<1> QED
  BY <1>1, <1>4, <1>5, <1>6

(* mojcat writes a chunk that it has read.                                  *)
LEMMA CatCopiesOut ==
  ASSUME StateInv, LineInv, RunInv, OutInv, Alone, CatCopies PROVE OutInv'
<1>1. /\ child = "copy" /\ child \in Late /\ child' = "copy"
      /\ UNCHANGED <<tokens, before, args, reading, buffered>>
  BY DEF CatCopies, Standing, Late, shellVars
<1>2. /\ Runs /\ outputFile = Named(">") /\ outputFile \notin Specials
      /\ Wrote(Out) /\ HeldBack /\ Out \in Seq(Chunks)
      /\ tokens[1] = "cat" /\ InFile
  BY <1>1, Working, Copying
<1>3. /\ Work' = Work /\ Named(">")' = Named(">") /\ Done' = Done
  BY <1>1, SameRun DEF Done
<1>4. PICK out : out = Out
  OBVIOUS
<1>5. CASE Endless
  <2>1. typed' = typed + 1 /\ Write(<<"typed">>) /\ Work = <<>> /\ Out = Typed(typed)
    BY <1>1, <1>5, Copying DEF CatCopies
  <2>2. typed \in Nat /\ <<"typed">> \in Seq(Chunks)
    BY NamesAreWords, MojbashAssumption DEF StateInv, TypeOK, MojbashAssumption
  <2>3. Out' = Typed(typed + 1)
    BY <1>1, <1>2, <1>3, <2>1 DEF Out, Typed
  <2>4. Typed(typed + 1) = Typed(typed) \o <<"typed">>
    BY <2>2 DEF Typed
  <2>5. WritesOn(Out')
    BY <1>2, <1>4, <2>1, <2>2, <2>3, <2>4, WriteMore
  <2>6. HeldBack' /\ MetDirectories' /\ InFile'
    <3>1. reading = Terminal
      BY <1>1, <1>3, <1>5, <2>1, Working DEF ProgressInv, Late
    <3> QED
      BY <1>1, <1>2, <1>3, <3>1 DEF HeldBack, MetDirectories, InFile
  <2> QED
    BY <1>1, <1>2, <2>5, <2>6, OutStep DEF Late
<1>6. CASE ~Endless
  <2>1. /\ pos < Len(content[reading]) /\ Write(<<content[reading][pos + 1]>>) /\ pos' = pos + 1
    BY <1>6 DEF CatCopies
  <2>2. /\ Work # <<>> /\ content[reading] \in Seq(Chunks) /\ pos \in Nat
        /\ content[reading] = before.content[reading] /\ CopiedTo(Done - 1) \in Seq(Chunks)
        /\ Out = CopiedTo(Done - 1) \o SubSeq(content[reading], 1, pos)
    BY <1>1, <1>6, Copying
  <2>3. PICK c : c = content[reading]
    OBVIOUS
  <2>4. PICK p : p = pos
    OBVIOUS
  <2>5. PICK u : u = CopiedTo(Done - 1)
    OBVIOUS
  <2>6. c \in Seq(Chunks) /\ p \in Nat /\ p < Len(c) /\ u \in Seq(Chunks)
    BY <2>1, <2>2, <2>3, <2>4, <2>5
  <2>7. /\ SubSeq(c, 1, p + 1) = SubSeq(c, 1, p) \o <<c[p + 1]>> /\ c[p + 1] \in Chunks
        /\ SubSeq(c, 1, p) \in Seq(Chunks)
    <3>1. SubSeq(c, 1, p + 1) = SubSeq(c, 1, p) \o <<c[p + 1]>> /\ c[p + 1] \in Chunks
      BY <2>6, NextOf
    <3>2. p <= Len(c)
      BY <2>6
    <3>3. SubSeq(c, 1, p) \in Seq(Chunks)
      BY <2>6, <3>2, PartOf
    <3> QED
      BY <3>1, <3>3
  <2>8. Out' = u \o SubSeq(c, 1, p + 1)
    <3>1. CopiedTo(Done - 1)' = CopiedTo(Done - 1)
      BY <1>1, <1>3, SameRun DEF CopiedTo, Pieces
    <3>2. Out' = CopiedTo(Done - 1)' \o SubSeq(before.content[reading], 1, pos + 1)
      BY <1>1, <1>2, <1>3, <2>1, <2>2 DEF Out
    <3> QED
      BY <2>2, <2>3, <2>4, <2>5, <3>1, <3>2
  <2>9. Out' = Out \o <<c[p + 1]>>
    <3>1. \A x, y, z \in Seq(Chunks) : x \o (y \o z) = (x \o y) \o z
      OBVIOUS
    <3>2. <<c[p + 1]>> \in Seq(Chunks)
      BY <2>7
    <3>3. u \o (SubSeq(c, 1, p) \o <<c[p + 1]>>) = (u \o SubSeq(c, 1, p)) \o <<c[p + 1]>>
      BY <2>6, <2>7, <3>1, <3>2, Zenon
    <3>4. Out = u \o SubSeq(c, 1, p)
      BY <2>2, <2>3, <2>4, <2>5
    <3>5. Out' = u \o (SubSeq(c, 1, p) \o <<c[p + 1]>>)
      BY <2>7, <2>8, Zenon
    <3> QED
      BY <3>3, <3>4, <3>5, Zenon
  <2>10. WritesOn(Out')
    <3>1. <<c[p + 1]>> \in Seq(Chunks) /\ Write(<<c[p + 1]>>)
      BY <2>1, <2>3, <2>4, <2>7
    <3>2. WritesOn(out \o <<c[p + 1]>>)
      BY <1>2, <1>4, <3>1, WriteMore
    <3> QED
      BY <1>4, <2>9, <3>2
  <2>11. HeldBack' /\ MetDirectories' /\ InFile'
    <3>1. pos' <= Len(before.content[reading])
      BY <2>1, <2>2
    <3> QED
      BY <1>1, <1>2, <3>1 DEF HeldBack, MetDirectories, InFile
  <2> QED
    BY <1>1, <1>2, <2>10, <2>11, OutStep DEF Late
<1> QED
  BY <1>5, <1>6

(* The end of a file, or of what can be written.                            *)
LEMMA CatStopsOut ==
  ASSUME StateInv, LineInv, RunInv, OutInv, Alone, CatStops PROVE OutInv'
<1>1. /\ child = "copy" /\ child \in Late /\ child' = "next"
      /\ UNCHANGED <<tokens, before, args, typed, buffered, screen, content>>
  BY DEF CatStops, Standing, Late, shellVars, files
<1>2. /\ Runs /\ outputFile = Named(">") /\ outputFile \notin Specials
      /\ Wrote(Out) /\ HeldBack /\ Out \in Seq(Chunks)
      /\ tokens[1] = "cat"
  BY <1>1, Working, Copying
<1>3. /\ Work' = Work /\ Named(">")' = Named(">") /\ Done' = Done
  BY <1>1, SameRun DEF Done
<1>4. WritesOn(Out')
  <2>1. CASE Endless
    <3>1. Out' = Out
      BY <1>1, <1>2, <1>3, <2>1, Copying DEF Out, Typed
    <3> QED
      BY <1>1, <1>2, <3>1, WritesNothing
  <2>2. CASE ~Endless
    <3>1. /\ Work # <<>> /\ content[reading] \in Seq(Chunks)
          /\ CopiedTo(Done - 1) \in Seq(Chunks) /\ pos \in Nat /\ pos <= Len(content[reading])
          /\ Out = CopiedTo(Done - 1) \o SubSeq(content[reading], 1, pos)
          /\ CopiedTo(Done) = CopiedTo(Done - 1) \o content[reading]
      BY <1>1, <2>2, Copying
    <3>2. Out' = CopiedTo(Done - 1) \o content[reading]
      <4>1. Out' = CopiedTo(Done)
        BY <1>1, <1>2, <1>3, <3>1, SameRun DEF Out, CopiedTo, Pieces
      <4> QED
        BY <3>1, <4>1
    <3>3. CASE CanWrite
      <4>1. pos = Len(content[reading])
        BY <1>2, <2>2, <3>3 DEF CatStops
      <4>2. SubSeq(content[reading], 1, pos) = content[reading]
        BY <3>1, <4>1, PartOf
      <4>3. Out' = Out
        BY <3>1, <3>2, <4>2
      <4> QED
        BY <1>1, <1>2, <4>3, WritesNothing
    <3>4. CASE ~CanWrite
      <4>1. Named(">") # NoFile /\ ~(Len(content[Named(">")]) < MaxLen)
        BY <1>2, <3>4 DEF CanWrite
      <4>2. PICK c : c = content[reading]
        OBVIOUS
      <4>3. PICK u : u = CopiedTo(Done - 1)
        OBVIOUS
      <4>4. PICK p : p = pos
        OBVIOUS
      <4>5. /\ c \in Seq(Chunks) /\ u \in Seq(Chunks) /\ p \in Nat /\ p <= Len(c)
            /\ Out = u \o SubSeq(c, 1, p) /\ Out' = u \o c
        BY <3>1, <3>2, <4>2, <4>3, <4>4
      <4>6. MaxLen <= Len(Out)
        <5>1. content[Named(">")] = Limited(Out)
          BY <1>2, <4>1 DEF Wrote
        <5>2. Len(Limited(Out)) = IF Len(Out) < MaxLen THEN Len(Out) ELSE MaxLen
          BY <1>2, LimitedChunks
        <5>3. Len(Out) \in Nat /\ MaxLen \in Nat
          BY <1>2, MojbashAssumption DEF MojbashAssumption
        <5> QED
          BY <4>1, <5>1, <5>2, <5>3
      <4>7. Limited(Out') = Limited(Out)
        <5> DEFINE s == u \o SubSeq(c, 1, p)
                   t == u \o c
        <5>1. /\ SubSeq(c, 1, p) \in Seq(Chunks) /\ Len(SubSeq(c, 1, p)) = p
              /\ \A k \in 1..p : SubSeq(c, 1, p)[k] = c[k]
          BY <4>5, PartOf
        <5>2. /\ s \in Seq(Chunks) /\ Len(s) = Len(u) + p
              /\ \A k \in 1..Len(u) : s[k] = u[k]
              /\ \A k \in 1..p : s[Len(u) + k] = c[k]
          BY <4>5, <5>1, Joined
        <5>3. /\ t \in Seq(Chunks) /\ Len(t) = Len(u) + Len(c)
              /\ \A k \in 1..Len(u) : t[k] = u[k]
              /\ \A k \in 1..Len(c) : t[Len(u) + k] = c[k]
          BY <4>5, Joined
        <5>4. Len(u) \in Nat /\ Len(c) \in Nat /\ p \in Nat /\ p <= Len(c)
          BY <4>5
        <5> HIDE DEF s, t
        <5>5. ASSUME NEW k \in 1..Len(s) PROVE t[k] = s[k]
          <6>1. CASE k \in 1..Len(u)
            BY <5>2, <5>3, <6>1
          <6>2. CASE k \notin 1..Len(u)
            <7>1. PICK j \in 1..p : k = Len(u) + j
              <8>1. k - Len(u) \in 1..p /\ k = Len(u) + (k - Len(u))
                BY <5>2, <5>4, <6>2
              <8> QED
                BY <8>1
            <7>2. j \in 1..Len(c)
              BY <5>4
            <7> QED
              BY <5>2, <5>3, <7>1, <7>2
          <6> QED
            BY <6>1, <6>2
        <5>6. Len(s) <= Len(t) /\ MaxLen <= Len(s)
          BY <4>5, <4>6, <5>2, <5>3, <5>4 DEF s
        <5>7. Limited(t) = Limited(s)
          BY <5>2, <5>3, <5>5, <5>6, LimitedFull
        <5> QED
          BY <4>5, <5>7 DEF s, t
      <4> QED
        BY <1>1, <1>2, <4>1, <4>7 DEF Wrote, WritesOn
    <3> QED
      BY <3>3, <3>4
  <2> QED
    BY <2>1, <2>2
<1>5. HeldBack' /\ MetDirectories' /\ InFile'
  BY <1>1, <1>2 DEF HeldBack, MetDirectories, InFile
<1> QED
  BY <1>1, <1>2, <1>4, <1>5, OutStep DEF Late

(* A sequence up to n ends with those of its elements that t holds.         *)
LEMMA SplitAt ==
  ASSUME NEW s \in Seq(Chunks), NEW n \in 0..Len(s), NEW t \in Seq(Chunks), Len(t) <= n,
         \A k \in 1..Len(t) : t[k] = s[n - Len(t) + k]
  PROVE  SubSeq(s, 1, n) = SubSeq(s, 1, n - Len(t)) \o t
<1>1. Len(t) \in Nat /\ Len(s) \in Nat /\ n \in Nat
  OBVIOUS
<1> DEFINE m == n - Len(t)
<1>2. m \in Nat /\ m <= Len(s) /\ n <= Len(s) /\ n = m + Len(t)
  BY <1>1
<1>3. \A k \in 1..Len(t) : t[k] = s[m + k]
  OBVIOUS
<1> HIDE DEF m
<1>4. /\ SubSeq(s, 1, n) \in Seq(Chunks) /\ Len(SubSeq(s, 1, n)) = n
      /\ \A k \in 1..n : SubSeq(s, 1, n)[k] = s[k]
      /\ SubSeq(s, 1, m) \in Seq(Chunks) /\ Len(SubSeq(s, 1, m)) = m
      /\ \A k \in 1..m : SubSeq(s, 1, m)[k] = s[k]
  BY <1>1, <1>2, PartOf
<1> DEFINE u == SubSeq(s, 1, n)
           v == SubSeq(s, 1, m)
<1>5. /\ v \o t \in Seq(Chunks) /\ Len(v \o t) = m + Len(t)
      /\ \A k \in 1..m : (v \o t)[k] = v[k]
      /\ \A k \in 1..Len(t) : (v \o t)[m + k] = t[k]
  BY <1>4, Joined
<1>6. ASSUME NEW k \in 1..n PROVE (v \o t)[k] = u[k]
  <2>1. CASE k \in 1..m
    BY <1>4, <1>5, <2>1
  <2>2. CASE k \notin 1..m
    <3>1. PICK j \in 1..Len(t) : k = m + j
      <4>1. k - m \in 1..Len(t) /\ k = m + (k - m)
        BY <1>1, <1>2, <2>2
      <4> QED
        BY <4>1
    <3> QED
      BY <1>3, <1>4, <1>5, <3>1
  <2> QED
    BY <2>1, <2>2
<1> HIDE DEF u, v
<1>8. u \in Seq(Chunks) /\ Len(u) = Len(v \o t)
  BY <1>2, <1>4, <1>5 DEF u
<1>9. \A k \in 1..Len(u) : u[k] = (v \o t)[k]
  BY <1>4, <1>6 DEF u
<1>7. u = v \o t
  BY <1>5, <1>8, <1>9
<1> QED
  BY <1>7 DEF u, v, m

(* mojls lists a directory, at once or in the buffer of stdout.             *)
LEMMA LsListsOut ==
  ASSUME StateInv, LineInv, RunInv, OutInv, Alone, LsLists PROVE OutInv'
<1>1. /\ child = "next" /\ child \in Late /\ child' = "next" /\ tokens[1] = "ls" /\ args # <<>>
      /\ args' = Tail(args) /\ UNCHANGED <<tokens, before>>
      /\ kind[Head(args)] = "dir" /\ buffered \in Seq(Chunks)
  BY DEF LsLists, NextArg, Standing, Late, shellVars, StateInv, TypeOK
<1>2. /\ Runs /\ Sensible /\ ParsedInv /\ ProgressInv
      /\ outputFile = Named(">") /\ outputFile \notin Specials
      /\ Wrote(Out) /\ HeldBack /\ MetDirectories /\ Work \in Seq(Words) /\ Work \in Seq(Chunks)
      /\ Head(args) = Work[Done + 1] /\ Done + 1 \in 1..Len(Work) /\ Done \in 0..Len(Work)
      /\ Out \in Seq(Chunks) /\ Len(Work) \in Nat
  BY <1>1, Working
<1>3. Done' = Done + 1 /\ Work' = Work /\ Named(">")' = Named(">") /\ Was("dir")' = Was("dir")
  BY <1>1, <1>2, NextProgress, SameRun
<1>4. PICK out, held : out = Out /\ held = Len(buffered)
  OBVIOUS
<1>5. /\ held \in Nat /\ held <= Done /\ held <= BufferCap /\ Done \in Nat
      /\ out = SubSeq(Work, 1, Done - held) /\ Out' = SubSeq(Work, 1, Done + 1 - Len(buffered'))
      /\ \A k \in 1..held : buffered[k] = Work[Done - held + k]
      /\ Named(">") = NoFile => buffered = <<>> /\ held = 0
  <2>1. held \in Nat /\ Done \in Nat
    BY <1>1, <1>2, <1>4
  <2>2. /\ Len(buffered) <= Done /\ Len(buffered) <= BufferCap
        /\ \A k \in 1..Len(buffered) : buffered[k] = Work[Done - Len(buffered) + k]
        /\ Named(">") = NoFile => buffered = <<>>
    BY <1>1, <1>2 DEF HeldBack
  <2>3. tokens[1] = "ls" /\ tokens'[1] = "ls"
    BY <1>1
  <2>6. Out = SubSeq(Work, 1, Done - Len(buffered))
    BY ONLY <2>3 DEF Out
  <2>7. Out' = SubSeq(Work', 1, Done' - Len(buffered'))
    BY ONLY <2>3 DEF Out
  <2>4. Out' = SubSeq(Work, 1, Done + 1 - Len(buffered'))
    <3>1. Work' = Work /\ Done' = Done + 1
      BY <1>3
    <3> QED
      BY ONLY <2>1, <2>7, <3>1
  <2>5. buffered = <<>> => held = 0
    BY <1>4
  <2> QED
    BY <1>4, <2>1, <2>2, <2>4, <2>5, <2>6
<1>6. <<Head(args)>> \in Seq(Chunks) /\ Head(args) \in Chunks
  BY <1>2
<1>7. MetDirectories'
  <2>1. Head(args) \in Was("dir")
    <3>1. Head(args) \in Words
      BY <1>2
    <3> QED
      BY <1>1, <1>2, <3>1, SameDirectories
  <2>2. \A k \in 1..Done + 1 : k \in 1..Done \/ k = Done + 1
    BY <1>2
  <2>3. \A k \in 1..Done + 1 : Work[k] \in Was("dir")
    BY <1>1, <1>2, <2>1, <2>2 DEF MetDirectories
  <2> QED
    BY <1>1, <1>3, <2>3 DEF MetDirectories
<1>8. InFile'
  BY <1>1 DEF InFile
<1>9. CASE outputFile = NoFile /\ Write(<<Head(args)>>) /\ UNCHANGED buffered
  <2>1. buffered' = <<>> /\ Len(buffered') = 0 /\ held = 0
    BY <1>2, <1>5, <1>9
  <2>2. Out' = out \o <<Head(args)>>
    <3>1. out = SubSeq(Work, 1, Done) /\ Out' = SubSeq(Work, 1, Done + 1)
      BY <1>5, <2>1
    <3>2. SubSeq(Work, 1, Done + 1) = SubSeq(Work, 1, Done) \o <<Work[Done + 1]>>
      BY <1>2, <1>5, NextOf
    <3> QED
      BY <1>2, <3>1, <3>2
  <2>3. WritesOn(Out')
    <3>1. WritesOn(out \o <<Head(args)>>)
      BY <1>2, <1>4, <1>6, <1>9, WriteMore
    <3> QED
      BY <2>2, <3>1
  <2>4. HeldBack'
    BY <1>1, <1>3, <1>5, <2>1, MojbashAssumption DEF HeldBack, MojbashAssumption
  <2> QED
    BY <1>1, <1>2, <1>7, <1>8, <2>3, <2>4, OutStep DEF Late
<1>10. CASE /\ outputFile # NoFile /\ Len(buffered) < BufferCap
            /\ buffered' = Append(buffered, Head(args)) /\ UNCHANGED <<screen, content>>
  <2>1. /\ buffered' = Append(buffered, Head(args)) /\ Len(buffered') = held + 1
        /\ held + 1 <= BufferCap
    BY <1>1, <1>4, <1>5, <1>6, <1>10, MojbashAssumption DEF MojbashAssumption
  <2>2. Out' = out
    <3>1. Done + 1 - (held + 1) = Done - held
      BY <1>5
    <3> QED
      BY <1>5, <2>1, <3>1
  <2>3. WritesOn(Out')
    BY <1>2, <1>4, <1>10, <2>2, WritesNothing
  <2>4. ASSUME NEW k \in 1..held + 1 PROVE buffered'[k] = Work[Done + 1 - (held + 1) + k]
    <3>1. Done + 1 - (held + 1) + k = Done - held + k /\ (k \in 1..held \/ k = held + 1)
      BY <1>5
    <3>2. CASE k \in 1..held
      <4>1. buffered'[k] = buffered[k]
        BY <1>1, <1>4, <1>6, <2>1, <3>2
      <4> QED
        BY <1>5, <3>1, <3>2, <4>1
    <3>3. CASE k = held + 1
      <4>1. buffered'[k] = Head(args) /\ Done - held + k = Done + 1
        BY <1>1, <1>4, <1>5, <1>6, <2>1, <3>3
      <4> QED
        BY <1>2, <3>1, <4>1
    <3> QED
      BY <3>1, <3>2, <3>3
  <2>5. HeldBack'
    <3>1. held + 1 <= Done + 1
      BY <1>5
    <3>2. /\ Len(buffered') <= Done' /\ Len(buffered') <= BufferCap
          /\ \A k \in 1..Len(buffered') : buffered'[k] = Work'[Done' - Len(buffered') + k]
      <4>1. \A k \in 1..Len(buffered') : buffered'[k] = Work[Done + 1 - Len(buffered') + k]
        BY ONLY <2>1, <2>4
      <4>2. Len(buffered') <= Done + 1 /\ Len(buffered') <= BufferCap
        BY ONLY <2>1, <3>1
      <4>3. Work' = Work /\ Done' = Done + 1
        BY <1>3
      <4> QED
        BY ONLY <1>5, <4>1, <4>2, <4>3
    <3>3. child' # "zombie" /\ tokens'[1] = "ls" /\ Named(">")' # NoFile
      BY <1>1, <1>2, <1>3, <1>10
    <3> QED
      BY <3>2, <3>3 DEF HeldBack
  <2> QED
    BY <1>1, <1>2, <1>7, <1>8, <2>3, <2>5, OutStep DEF Late
<1>11. CASE /\ outputFile # NoFile /\ Len(buffered) = BufferCap
            /\ Write(buffered) /\ buffered' = <<Head(args)>>
  <2>1. buffered' = <<Head(args)>> /\ Len(buffered') = 1 /\ buffered'[1] = Work[Done + 1]
    BY <1>2, <1>6, <1>11
  <2>2. Out' = out \o buffered
    <3>1. Done + 1 - 1 = Done
      BY <1>5
    <3>2. Out' = SubSeq(Work, 1, Done)
      BY <1>5, <2>1, <3>1
    <3>3. SubSeq(Work, 1, Done) = SubSeq(Work, 1, Done - held) \o buffered
      BY <1>1, <1>2, <1>4, <1>5, SplitAt
    <3> QED
      BY <1>5, <3>2, <3>3
  <2>3. WritesOn(Out')
    <3>1. WritesOn(out \o buffered)
      BY <1>1, <1>2, <1>4, <1>11, WriteMore
    <3> QED
      BY <2>2, <3>1
  <2>4. HeldBack'
    <3>1. 1 <= Done + 1 /\ 1 <= BufferCap
      BY <1>5, MojbashAssumption DEF MojbashAssumption
    <3>2. \A k \in 1..1 : k = 1 /\ Done + 1 - 1 + k = Done + 1
      BY <1>5
    <3>3. \A k \in 1..Len(buffered') : buffered'[k] = Work[Done + 1 - Len(buffered') + k]
      BY <2>1, <3>2
    <3>4. /\ Len(buffered') <= Done' /\ Len(buffered') <= BufferCap
          /\ \A k \in 1..Len(buffered') : buffered'[k] = Work'[Done' - Len(buffered') + k]
      BY <1>3, <2>1, <3>1, <3>3
    <3>5. child' # "zombie" /\ tokens'[1] = "ls" /\ Named(">")' # NoFile
      BY <1>1, <1>2, <1>3, <1>11
    <3> QED
      BY <3>4, <3>5 DEF HeldBack
  <2> QED
    BY <1>1, <1>2, <1>7, <1>8, <2>3, <2>4, OutStep DEF Late
<1> QED
  BY <1>9, <1>10, <1>11 DEF LsLists

(* mojls dies at what is not a directory, with what it held back.           *)
LEMMA LsCrashesOut ==
  ASSUME StateInv, LineInv, RunInv, OutInv, Alone, LsCrashes PROVE OutInv'
<1>1. /\ child = "next" /\ child \in Late /\ child' = "zombie" /\ tokens[1] = "ls" /\ args # <<>>
      /\ UNCHANGED <<tokens, before, args, buffered, screen, content>>
      /\ kind[Head(args)] # "dir"
  BY DEF LsCrashes, NextArg, Standing, Late, shellVars, files
<1>2. /\ Runs /\ Sensible /\ ParsedInv /\ ProgressInv /\ outputFile = Named(">")
      /\ Wrote(Out) /\ HeldBack /\ MetDirectories /\ Work \in Seq(Words)
      /\ Head(args) = Work[Done + 1] /\ Done + 1 \in 1..Len(Work)
  BY <1>1, Working
<1>3. Done' = Done /\ Work' = Work /\ Named(">")' = Named(">") /\ Was("dir")' = Was("dir")
  BY <1>1, SameRun DEF Done
<1>4. Out' = Out
  BY <1>1, <1>3 DEF Out
<1>5. WritesOn(Out')
  BY <1>1, <1>2, <1>4, WritesNothing
<1>6. HeldBack' /\ InFile'
  BY <1>1, <1>2, <1>3 DEF HeldBack, InFile
<1>7. MetDirectories'
  <2>1. Head(args) \notin Was("dir")
    <3>1. Head(args) \in Words
      BY <1>2
    <3> QED
      BY <1>1, <1>2, <3>1, SameDirectories
  <2> QED
    BY <1>1, <1>2, <1>3, <2>1 DEF MetDirectories
<1> QED
  BY <1>1, <1>2, <1>5, <1>6, <1>7, OutStep DEF Ended

(* A command that has done its work has written all it will.                *)
LEMMA NoArgsLeftOut ==
  ASSUME StateInv, LineInv, RunInv, OutInv, Alone, NoArgsLeft PROVE OutInv'
<1>1. /\ child = "next" /\ child \in Late /\ child' = "exit" /\ args = <<>>
      /\ UNCHANGED <<tokens, before, args, typed, buffered, screen, content>>
  BY DEF NoArgsLeft, Standing, Late, shellVars, catVars, files
<1>2. /\ Runs /\ Wrote(Out) /\ HeldBack /\ MetDirectories /\ tokens[1] \in Commands
  BY <1>1, Working
<1>3. Done' = Done /\ Work' = Work /\ Named(">")' = Named(">") /\ Was("dir")' = Was("dir")
  BY <1>1, SameRun DEF Done
<1>4. Out' = Out
  BY <1>1, <1>2, <1>3, SameRun DEF Out, CopiedTo, Pieces, Typed
<1>5. WritesOn(Out')
  BY <1>1, <1>2, <1>4, WritesNothing
<1>6. HeldBack'
  BY <1>1, <1>2, <1>3 DEF HeldBack
<1>7. MetDirectories' /\ InFile'
  BY <1>1, <1>2, <1>3 DEF MetDirectories, InFile
<1> QED
  BY <1>1, <1>2, <1>5, <1>6, <1>7, OutStep DEF Ended

(* exit() writes what was held back.                                        *)
LEMMA ExitOut ==
  ASSUME StateInv, LineInv, RunInv, OutInv, Alone, Exit PROVE OutInv'
<1>1. /\ child = "exit" /\ child \in Ended /\ child \notin Late /\ child' = "zombie"
      /\ Write(buffered) /\ buffered' = <<>>
      /\ UNCHANGED <<tokens, before, args, typed>> /\ buffered \in Seq(Chunks)
  BY DEF Exit, Late, Ended, shellVars, argVars, catVars, StateInv, TypeOK
<1>2. (Runs' <=> Runs) /\ outputFile = Named(">") /\ outputFile \notin Specials
  BY <1>1, SameRun, AloneFacts, NoSpecials DEF LineInv, Alone
<1>3. CASE ~Runs
  <2>1. screen = <<>> /\ buffered = <<>>
    BY <1>1, <1>3, AloneFacts DEF OutInv, RunInv, FilesInv, Alone
  <2>2. screen' = screen \/ screen' = screen \o buffered
    BY <1>1 DEF Write
  <2>3. screen' = <<>>
    BY <2>1, <2>2
  <2> QED
    BY <1>1, <1>2, <1>3, <2>3 DEF OutInv
<1>4. CASE Runs
  <2>1. /\ Wrote(Out) /\ HeldBack /\ MetDirectories /\ Out \in Seq(Chunks)
        /\ tokens[1] \in Commands /\ ProgressInv /\ Begun /\ Sensible
    BY <1>1, <1>4, Working
  <2>2. Done' = Done /\ Work' = Work /\ Named(">")' = Named(">") /\ Was("dir")' = Was("dir")
    BY <1>1, SameRun DEF Done
  <2>3. args = <<>>
    BY <1>1, <2>1 DEF ProgressInv
  <2>4. Out' = Out \o buffered
    <3>1. CASE tokens[1] = "ls"
      <4>1. PICK held : held = Len(buffered)
        OBVIOUS
      <4>2. /\ Work \in Seq(Chunks) /\ Done \in 0..Len(Work) /\ held <= Done
            /\ Out = SubSeq(Work, 1, Done - held)
            /\ \A k \in 1..held : buffered[k] = Work[Done - held + k]
        BY <1>1, <1>4, <2>1, <3>1, <4>1, Working DEF HeldBack, Out
      <4>3. Out' = SubSeq(Work, 1, Done - 0)
        BY <1>1, <2>2, <3>1 DEF Out
      <4>4. Done - 0 = Done
        BY <4>2
      <4>5. SubSeq(Work, 1, Done) = SubSeq(Work, 1, Done - held) \o buffered
        BY <1>1, <4>1, <4>2, SplitAt
      <4> QED
        BY <4>2, <4>3, <4>4, <4>5
    <3>2. CASE tokens[1] # "ls"
      <4>1. buffered = <<>>
        BY <2>1, <3>2 DEF HeldBack
      <4>2. Out' = Out
        BY <1>1, <2>1, <2>2, <3>2, SameRun DEF Out, CopiedTo, Pieces, Typed, Commands
      <4> QED
        BY <2>1, <4>1, <4>2
    <3> QED
      BY <3>1, <3>2
  <2>5. WritesOn(Out')
    <3>1. PICK out : out = Out
      OBVIOUS
    <3>2. WritesOn(out \o buffered)
      BY <1>1, <1>2, <2>1, <3>1, WriteMore
    <3> QED
      BY <2>4, <3>1, <3>2
  <2>6. HeldBack' /\ InFile'
    <3>1. Len(buffered') = 0 /\ Done \in Nat /\ BufferCap \in Nat
      BY <1>1, <1>4, Working, MojbashAssumption DEF MojbashAssumption
    <3> QED
      BY <1>1, <2>2, <3>1 DEF HeldBack, InFile
  <2>7. MetDirectories'
    BY <1>1, <2>1, <2>2, <2>3 DEF MetDirectories
  <2> QED
    BY <1>1, <1>4, <2>5, <2>6, <2>7, OutStep DEF Ended
<1> QED
  BY <1>3, <1>4
-----------------------------------------------------------------------------
(* A redirection that fails is one of a command that does not run.          *)
LEMMA RedirectFails ==
  ASSUME StateInv, LineInv, FilesInv, Alone, RedirectInput \/ RedirectOutput, child' = "exit"
  PROVE  ~Runs
<1>1. /\ child \in {"input", "output"} /\ child \in Early /\ Sensible
  BY DEF RedirectInput, RedirectOutput, Early, Alone
<1>2. /\ inputFile = Named("<") /\ outputFile = Named(">")
      /\ Named("<") \in Words \cup {NoFile} /\ Named(">") \in Words \cup {NoFile}
  BY <1>1, RunTypes DEF LineInv, ParsedInv
<1>3. \A f \in Words : Before(f)
  BY <1>1 DEF FilesInv, Alone
<1>4. NoFile \notin Words /\ \A f \in Words, k \in Kinds : f \in Was(k) <=> before.kind[f] = k
  BY NamesAreWords DEF Was
<1>5. \/ inputFile # NoFile /\ kind[inputFile] \in {"absent", "barred", "locked"}
      \/ outputFile # NoFile /\ kind[outputFile] \in {"dir", "locked", "barred"}
  BY DEF RedirectInput, RedirectOutput, Missing
<1> QED
  BY <1>2, <1>3, <1>4, <1>5 DEF Runs, Before, Kinds, Missing

(* A redirection truncates the file, or ends a command that does not run.   *)
LEMMA RedirectOut ==
  ASSUME StateInv, LineInv, RunInv, Alone, RedirectInput \/ RedirectOutput
  PROVE  OutInv'
<1>1. /\ child \in {"input", "output"} /\ child \in Early /\ child' \in {"output", "begin", "exit"}
      /\ UNCHANGED <<tokens, before, screen>>
  BY DEF RedirectInput, RedirectOutput, Early, shellVars
<1>2. screen = <<>>
  BY <1>1 DEF StateInv, PlaceInv
<1>3. (Runs' <=> Runs) /\ Named(">")' = Named(">")
  BY <1>1, SameRun
<1>4. child' = "exit" => ~Runs
  BY RedirectFails DEF RunInv
<1>5. child' = "begin" /\ Named(">") # NoFile => content'[Named(">")] = <<>>
  <2>1. /\ outputFile = Named(">") /\ outputFile \in Words \cup {NoFile}
        /\ outputFile \notin Specials
    BY <1>1, AloneFacts, NoSpecials DEF StateInv, TypeOK, LineInv, Alone
  <2> QED
    BY <2>1 DEF RedirectInput, RedirectOutput, StateInv, TypeOK
<1> QED
  BY <1>1, <1>2, <1>3, <1>4, <1>5 DEF OutInv, Late, Ended

(* A command that begins has written nothing.                               *)
LEMMA BeginOut ==
  ASSUME StateInv, LineInv, RunInv, OutInv, Alone, Begin, RunInv' PROVE OutInv'
<1>1. /\ child = "begin" /\ child' \in {"next", "copy"} /\ child' \in Late /\ child' \notin Ended
      /\ UNCHANGED <<tokens, before, changed, typed, buffered, screen, content>>
      /\ typed = 0 /\ buffered = <<>> /\ screen = <<>>
  BY DEF Begin, Standing, Late, Ended, shellVars, world, files, StateInv, PlaceInv
<1>2. /\ Runs /\ Sensible /\ outputFile = Named(">") /\ inputFile = Named("<")
      /\ Named(">") # NoFile => content[Named(">")] = <<>>
      /\ args = Arguments
  BY <1>1, AloneFacts DEF OutInv, Alone, LineInv, ParsedInv
<1>3. /\ Work' = Work /\ Named(">")' = Named(">") /\ Work \in Seq(Chunks) /\ Len(Work) \in Nat
      /\ tokens[1] \in Commands /\ Named("<") \in Words \cup {NoFile}
  BY <1>1, <1>2, SameRun, RunTypes DEF LineInv
<1>4. CASE child' = "copy"
  <2>1. /\ tokens[1] = "cat" /\ args = <<>> /\ args' = <<>> /\ pos' = 0
        /\ reading' = IF inputFile = NoFile THEN Terminal ELSE inputFile
    BY <1>1, <1>4 DEF Begin, Standing
  <2>2. Work = IF Named("<") = NoFile THEN <<>> ELSE <<Named("<")>>
    BY <1>2, <2>1 DEF Work
  <2>3. Done' = Len(Work)
    BY <1>3, <2>1 DEF Done
  <2>4. Out' = <<>>
    <3>1. CASE Named("<") = NoFile
      <4>1. Out' = Typed(0)
        BY <1>1, <1>3, <2>1, <2>2, <3>1 DEF Out, Typed
      <4> QED
        BY <4>1 DEF Typed
    <3>2. CASE Named("<") # NoFile
      <4>1. (Done - 1)' = 0 /\ Work # <<>> /\ before.content[Named("<")] \in Seq(Chunks)
        BY <1>3, <2>2, <2>3, <3>2 DEF StateInv, FileInv
      <4>2. Out' = CopiedTo(Done - 1)' \o SubSeq(before.content[Named("<")], 1, 0)
        BY <1>1, <1>2, <1>3, <1>4, <2>1, <3>2, <4>1 DEF Out
      <4>3. CopiedTo(Done - 1)' = <<>>
        BY <4>1 DEF CopiedTo
      <4>4. SubSeq(before.content[Named("<")], 1, 0) = <<>>
        BY <4>1
      <4> QED
        BY <4>2, <4>3, <4>4
    <3> QED
      BY <3>1, <3>2
  <2>5. <<>> \in Seq(Chunks) /\ Len(<<>>) <= MaxLen
    BY MojbashAssumption DEF MojbashAssumption
  <2>6. Limited(<<>>) = <<>>
    BY <2>5, LimitedWhole
  <2>7. WritesOn(Out')
    BY <1>1, <1>2, <2>4, <2>6 DEF WritesOn
  <2>8. HeldBack' /\ MetDirectories'
    BY <1>1, <1>3, <2>1 DEF HeldBack, MetDirectories, Late, Ended
  <2>9. InFile'
    <3>1. CASE Named("<") = NoFile
      BY <1>2, <2>1, <3>1 DEF InFile
    <3>2. CASE Named("<") # NoFile
      <4>1. before.kind[Named("<")] \in {"dir", "file"}
        <5>1. Named("<") \in Words /\ Named("<") \notin Specials
          BY <1>2, <1>3, <3>2 DEF Sensible
        <5>2. before.kind[Named("<")] \in Kinds /\ before.kind[Named("<")] # "special"
          BY <5>1 DEF StateInv, FileInv
        <5> QED
          BY <1>2, <5>1, <5>2 DEF Runs, Was, Kinds, Missing
      <4>2. before.content[Named("<")] \in Seq(Chunks)
        BY <1>3, <3>2 DEF StateInv, FileInv
      <4>3. 0 <= Len(before.content[Named("<")])
        BY <4>2
      <4> QED
        BY <1>1, <1>2, <2>1, <3>2, <4>1, <4>3 DEF InFile
    <3> QED
      BY <3>1, <3>2
  <2> QED
    BY <1>1, <1>2, <2>7, <2>8, <2>9, OutStep
<1>5. CASE child' = "next"
  <2>1. Done' = 0
    <3>1. args' = Work
      <4>1. /\ ~(tokens[1] = "cat" /\ args = <<>>)
            /\ args' = IF tokens[1] = "echo" THEN Append(args, "newline")
                       ELSE IF tokens[1] = "ls" /\ args = <<>> THEN <<".">> ELSE args
        BY <1>1, <1>5 DEF Begin, Standing
      <4> QED
        BY <1>2, <1>3, <4>1 DEF Work, Commands
    <3> QED
      BY <1>3, <3>1 DEF Done
  <2>2. SubSeq(Work, 1, 0) = <<>>
    BY <1>3
  <2>3. Typed(0) = <<>>
    BY DEF Typed
  <2>4. Out' = <<>>
    <3>1. CASE tokens[1] = "cat"
      BY <1>1, <1>5, <2>1, <2>3, <3>1 DEF Out, CopiedTo, Typed
    <3>2. CASE tokens[1] # "cat"
      <4>1. (Done - Len(buffered))' = 0
        <5>1. Len(buffered') = 0
          BY <1>1
        <5> QED
          BY <2>1, <5>1
      <4> QED
        BY <1>1, <1>3, <2>1, <2>2, <3>2, <4>1 DEF Out, Commands
    <3> QED
      BY <3>1, <3>2
  <2>5. <<>> \in Seq(Chunks) /\ Len(<<>>) <= MaxLen
    BY MojbashAssumption DEF MojbashAssumption
  <2>6. Limited(<<>>) = <<>>
    BY <2>5, LimitedWhole
  <2>7. WritesOn(Out')
    BY <1>1, <1>2, <2>4, <2>6 DEF WritesOn
  <2>8. HeldBack'
    <3>1. Len(buffered') = 0 /\ BufferCap \in Nat
      BY <1>1, MojbashAssumption DEF MojbashAssumption
    <3> QED
      BY <1>1, <1>3, <2>1, <3>1 DEF HeldBack
  <2>9. MetDirectories' /\ InFile'
    BY <1>1, <1>5, <2>1 DEF MetDirectories, InFile
  <2> QED
    BY <1>1, <1>2, <2>7, <2>8, <2>9, OutStep
<1> QED
  BY <1>1, <1>4, <1>5

(* At the start there is no output.                                         *)
LEMMA InitOut == Init => OutInv
BY DEF Init, OutInv, Late, Ended

(* Each step of the child keeps the output as the line promises it.         *)
LEMMA ChildOut ==
  ASSUME StateInv, LineInv, RunInv, OutInv, Alone, ChildStep, RunInv' PROVE OutInv'
<1>1. CASE Redirect \/ KeepArgument \/ ParseEnds
  <2>1. child' \in {"start", "input"}
    BY <1>1 DEF Redirect, KeepArgument, ParseEnds
  <2> QED
    BY <2>1 DEF OutInv, Late, Ended
<1> QED
  BY <1>1, RedirectOut, BeginOut, NoArgsLeftOut, ExitOut, EchoOut, CatNextOut, CatCopiesOut,
     CatStopsOut, TouchOut, LsListsOut, LsCrashesOut
  DEF ChildStep, Execute, Echo, Cat, Ls

(* What has been written is an invariant.                                   *)
LEMMA StepOut ==
  Inv /\ StateInv /\ LineInv /\ RunInv /\ OutInv /\ [Next]_vars => OutInv'
<1> SUFFICES ASSUME Inv, StateInv, LineInv, RunInv, OutInv, [Next]_vars PROVE OutInv'
  OBVIOUS
<1>1. CASE UNCHANGED vars
  <2>1. UNCHANGED <<tokens, child, args, reading, pos, typed, buffered, screen, content, before,
                    changed>>
    BY <1>1 DEF vars, shellVars, childVars, argVars, catVars, files, world
  <2>2. /\ (Alone' <=> Alone) /\ (Runs' <=> Runs) /\ Named(">")' = Named(">") /\ Work' = Work
        /\ Was("dir")' = Was("dir") /\ Was("file")' = Was("file")
    BY <2>1, SameRun DEF Alone
  <2>3. Done' = Done
    BY <2>1, <2>2 DEF Done
  <2>4. \A n : CopiedTo(n)' = CopiedTo(n)
    BY <2>1, <2>2 DEF CopiedTo, Pieces
  <2>5. Out' = Out
    <3>1. (Done - 1)' = Done - 1
      BY <2>3
    <3>2. CopiedTo(Done)' = CopiedTo(Done) /\ CopiedTo(Done - 1)' = CopiedTo(Done - 1)
      BY <2>1, <2>2, <2>3 DEF CopiedTo, Pieces
    <3> QED
      BY <2>1, <2>2, <2>3, <3>2 DEF Out, Typed
  <2>6. Wrote(Out)' <=> Wrote(Out)
    BY <2>1, <2>2, <2>5 DEF Wrote
  <2>7. (HeldBack' <=> HeldBack) /\ (MetDirectories' <=> MetDirectories) /\ (InFile' <=> InFile)
    BY <2>1, <2>2, <2>3 DEF HeldBack, MetDirectories, InFile
  <2> QED
    BY <2>1, <2>2, <2>6, <2>7 DEF OutInv
<1>2. CASE ChildStep
  <2>1. UNCHANGED <<tokens, changed>>
    <3>1. CASE Execute
      BY <3>1 DEF Execute, Redirect, KeepArgument, ParseEnds, RedirectInput, RedirectOutput,
        Begin, NoArgsLeft, Exit, Standing, shellVars, world
    <3>2. CASE Echo \/ Touch \/ Ls
      BY <3>2 DEF Echo, Touch, Ls, EchoWord, TouchCreates, TouchExists, TouchFails,
        TouchReopens, LsLists, LsCrashes, Standing, shellVars, world
    <3>3. CASE Cat
      BY <3>3 DEF Cat, CatOpenFails, CatOpen, CatCopies, CatStops, Standing, shellVars, world
    <3> QED
      BY <1>2, <3>1, <3>2, <3>3 DEF ChildStep
  <2>3. RunInv'
    BY <1>2, ChildRun
  <2>2. Alone' <=> Alone
    BY <2>1, SameLine DEF Alone
  <2> QED
    BY <1>2, <2>2, <2>3, ChildOut DEF OutInv
<1>3. ASSUME NEW g \in Names, FilesChange(g) PROVE OutInv'
  <2>1. changed' # {}
    BY <1>3 DEF FilesChange
  <2> QED
    BY <2>1 DEF OutInv, Alone
<1>4. CASE ShellStep \/ PromptFails \/ TokenizeFails \/ \E line \in Lines : GetLine(line)
  <2>1. child' \in {"none", "start"}
    <3>1. CASE Fork \/ WaitChild
      BY <3>1 DEF Fork, WaitChild
    <3>2. CASE \/ Prompt \/ PromptFails \/ TokenizeFails \/ EndOfInput \/ Tokenize \/ Decide
               \/ NotFound \/ ForkFails \/ \E line \in Lines : GetLine(line)
      BY <3>2, ShellTypesStep DEF childVars
    <3> QED
      BY <1>4, <3>1, <3>2 DEF ShellStep
  <2> QED
    BY <2>1 DEF OutInv, Late, Ended
<1>5. CASE BrokenPipe
  <2>1. ~Sensible /\ tokens' = tokens
    BY <1>5, NoPipe DEF LineInv, BrokenPipe, shellVars
  <2> QED
    BY <2>1, SameLine DEF OutInv, Alone
<1> QED
  BY <1>1, <1>2, <1>3, <1>4, <1>5 DEF Next
-----------------------------------------------------------------------------
(* The beginning of a beginning.                                            *)
LEMMA PartOfPart ==
  ASSUME NEW s \in Seq(Chunks), NEW n \in 0..Len(s), NEW m \in 0..n
  PROVE  SubSeq(SubSeq(s, 1, n), 1, m) = SubSeq(s, 1, m)
<1>1. /\ n \in Nat /\ m \in Nat /\ n <= Len(s) /\ m <= n /\ m <= Len(s) /\ Len(s) \in Nat
      /\ 1..m \subseteq 1..n
  OBVIOUS
<1> DEFINE t == SubSeq(s, 1, n)
<1>2. t \in Seq(Chunks) /\ Len(t) = n /\ \A k \in 1..n : t[k] = s[k]
  BY <1>1, PartOf
<1> HIDE DEF t
<1>3. /\ SubSeq(t, 1, m) \in Seq(Chunks) /\ Len(SubSeq(t, 1, m)) = m
      /\ \A k \in 1..m : SubSeq(t, 1, m)[k] = t[k]
      /\ SubSeq(s, 1, m) \in Seq(Chunks) /\ Len(SubSeq(s, 1, m)) = m
      /\ \A k \in 1..m : SubSeq(s, 1, m)[k] = s[k]
  BY <1>1, <1>2, PartOf
<1>4. \A k \in 1..m : SubSeq(t, 1, m)[k] = SubSeq(s, 1, m)[k]
  BY <1>1, <1>2, <1>3
<1>5. SubSeq(t, 1, m) = SubSeq(s, 1, m)
  BY <1>3, <1>4
<1> QED
  BY <1>5 DEF t

(* What has been written when the command has ended: its output, less what  *)
(* a listing that died had in the buffer.                                   *)
LEMMA OutputIs ==
  ASSUME StateInv, LineInv, RunInv, OutInv, Alone, Runs, child = "zombie"
  PROVE  /\ Output \in Seq(Chunks) /\ Out = SubSeq(Output, 1, Len(Output) - Len(buffered))
         /\ buffered # <<>> => Dies /\ Named(">") # NoFile /\ Len(buffered) <= BufferCap
<1>1. /\ MetDirectories /\ Work \in Seq(Chunks) /\ Len(Work) \in Nat /\ Done \in 0..Len(Work)
      /\ tokens[1] \in Commands /\ (tokens[1] # "echo" => Work \in Seq(Words))
      /\ args = <<>> <=> Done = Len(Work)
      /\ args # <<>> => Done + 1 \in 1..Len(Work) /\ tokens[1] = "ls"
  <2>1. ProgressInv /\ Sensible /\ Begun
    BY AloneFacts DEF RunInv, Alone, Ended
  <2>2. args # <<>> => tokens[1] = "ls"
    BY <2>1 DEF ProgressInv, Ended
  <2> QED
    BY <2>2, Working DEF Ended
<1>2. args = <<>> => SubSeq(Work, 1, Done) = Work
  BY <1>1
<1>8. HeldBack /\ Out \in Seq(Chunks)
  BY Working DEF Ended
<1>9. ASSUME buffered = <<>>, Out = Output
      PROVE  Output \in Seq(Chunks) /\ Out = SubSeq(Output, 1, Len(Output) - Len(buffered))
  <2>1. Output \in Seq(Chunks) /\ Len(Output) \in Nat /\ Len(buffered) = 0
    BY <1>8, <1>9
  <2>2. Len(Output) - Len(buffered) = Len(Output)
    BY <2>1
  <2>3. SubSeq(Output, 1, Len(Output)) = Output
    BY <2>1
  <2> QED
    BY <1>9, <2>1, <2>2, <2>3
<1>3. ASSUME tokens[1] = "echo" PROVE Out = Output
  BY <1>1, <1>2, <1>3 DEF Out, Output, Work
<1>4. ASSUME tokens[1] = "touch" PROVE Out = Output
  BY <1>4 DEF Out, Output
<1>5. ASSUME tokens[1] = "cat" PROVE Out = Output
  <2>1. Work = IF Arguments # <<>> THEN Arguments
               ELSE IF Named("<") # NoFile THEN <<Named("<")>> ELSE <<>>
    BY <1>5 DEF Work
  <2>2. Output = IF Work # <<>> THEN Copied(Work) ELSE Typed(typed)
    BY <1>5, <2>1 DEF Output, Typed
  <2>3. Work # <<>> => Out = Copied(Work)
    <3>1. Done = Len(Work) /\ Work \in Seq(Words)
      BY <1>1, <1>5
    <3>2. Work # <<>> => Out = CopiedTo(Done)
      BY <1>5 DEF Out
    <3> QED
      BY <3>1, <3>2, CopiedIs
  <2>4. Work = <<>> => Out = Typed(typed)
    BY <1>5 DEF Out
  <2> QED
    BY <2>2, <2>3, <2>4
<1>6. CASE tokens[1] = "ls"
  <2>1. Work = ToList
    BY <1>6 DEF Work, ToList
  <2>2. Output = Listed
    BY <1>6 DEF Output
  <2>3. \A k \in 1..Done : Work[k] \in Was("dir")
    BY <1>1, <1>6 DEF MetDirectories
  <2>4. CASE args = <<>>
    <3>1. ToSet(Work) \subseteq Was("dir")
      BY <1>1, <2>3, <2>4 DEF ToSet
    <3>2. Listed = Work
      BY <2>1, <3>1 DEF Listed, Dies
    <3>3. buffered = <<>>
      BY <1>8, <2>4 DEF HeldBack
    <3>4. Out = SubSeq(Work, 1, Done - 0)
      BY <1>6, <3>3 DEF Out
    <3>5. Done - 0 = Done
      BY <1>1
    <3>6. Out = Output
      BY <1>2, <2>2, <2>4, <3>2, <3>4, <3>5
    <3> QED
      BY <1>9, <3>3, <3>6
  <2>5. CASE args # <<>>
    <3>1. Work[Done + 1] \notin Was("dir") /\ Done + 1 \in 1..Len(Work) /\ Done \in Nat
      BY <1>1, <1>6, <2>5 DEF MetDirectories
    <3>2. Dies
      BY <1>1, <1>6, <2>1, <3>1 DEF ToSet, Dies
    <3> DEFINE First(n) == /\ Work[n] \notin Was("dir")
                           /\ \A k \in 1..n - 1 : Work[k] \in Was("dir")
               c == CHOOSE n \in DOMAIN Work : First(n)
    <3>3. Listed = SubSeq(Work, 1, c - 1)
      BY <2>1, <3>2 DEF Listed
    <3>4. DOMAIN Work = 1..Len(Work)
      BY <1>1
    <3>5. Done + 1 \in DOMAIN Work /\ First(Done + 1)
      <4>1. Done + 1 - 1 = Done
        BY <3>1
      <4> QED
        BY <2>3, <3>1, <3>4, <4>1
    <3>6. ASSUME NEW n \in DOMAIN Work, First(n) PROVE n = Done + 1
      <4>1. n \in Nat /\ ~(n \in 1..Done) /\ ~(Done + 1 \in 1..n - 1)
        BY <2>3, <3>1, <3>4, <3>6
      <4> QED
        BY <3>1, <3>4, <4>1
    <3> HIDE DEF First
    <3>7. c = Done + 1
      BY <3>5, <3>6
    <3> HIDE DEF c
    <3>8. c - 1 = Done
      BY <3>1, <3>7
    <3>9. Output = SubSeq(Work, 1, Done)
      BY <2>2, <3>3, <3>8
    <3>10. PICK held : held = Len(buffered)
      OBVIOUS
    <3>11. held \in Nat /\ held <= Done /\ held <= BufferCap /\ Out = SubSeq(Work, 1, Done - held)
      BY <1>6, <1>8, <3>10 DEF HeldBack, Out, StateInv, TypeOK
    <3>12. Output \in Seq(Chunks) /\ Len(Output) = Done
      BY <1>1, <3>1, <3>9, PartOf
    <3>13. Out = SubSeq(Output, 1, Done - held)
      <4>1. Done - held \in 0..Done /\ Done <= Len(Work)
        BY <1>1, <3>1, <3>11
      <4>2. SubSeq(SubSeq(Work, 1, Done), 1, Done - held) = SubSeq(Work, 1, Done - held)
        BY <1>1, <3>1, <4>1, PartOfPart
      <4> QED
        BY <3>9, <3>11, <4>2
    <3>14. buffered # <<>> => Named(">") # NoFile
      BY <1>8 DEF HeldBack
    <3> QED
      BY <3>2, <3>10, <3>11, <3>12, <3>13, <3>14
  <2> QED
    BY <2>4, <2>5
<1>7. tokens[1] \in {"echo", "cat", "touch", "ls"}
  BY <1>1 DEF Commands
<1>10. CASE tokens[1] # "ls"
  <2>1. buffered = <<>> /\ Out = Output
    BY <1>3, <1>4, <1>5, <1>7, <1>8, <1>10 DEF HeldBack
  <2> QED
    BY <1>9, <2>1
<1> QED
  BY <1>6, <1>10

(* When the command has ended, the invariants say what RunsAsWritten does.  *)
LEMMA EndedAsWritten ==
  ASSUME StateInv, LineInv, RunInv, OutInv PROVE RunsAsWritten
<1> SUFFICES ASSUME child = "zombie", changed = {}, Sensible
             PROVE  /\ kind = [f \in Words |-> IF f \in Created THEN "file" ELSE before.kind[f]]
                    /\ \E lost \in 0..(IF Dies THEN BufferCap ELSE 0) :
                         content = [f \in Words |-> ContentAfter(f, lost)]
                    /\ screen = IF Named(">") = NoFile THEN Output ELSE <<>>
  BY DEF RunsAsWritten
<1>1. Alone /\ child \in Ended /\ Undisturbed
  BY DEF Alone, Ended, Undisturbed
<1>2. kind \in [Words -> Kinds] /\ content \in [Words -> Seq(Chunks)]
  BY DEF StateInv, TypeOK
<1>5. 0 \in 0..(IF Dies THEN BufferCap ELSE 0)
  BY MojbashAssumption DEF MojbashAssumption
<1>3. CASE ~Runs
  <2>1. \A f \in Words : Before(f)
    BY <1>1, <1>3 DEF RunInv, FilesInv
  <2>2. screen = <<>>
    BY <1>1, <1>3 DEF OutInv
  <2>3. Created = {} /\ Output = <<>> /\ \A f \in Words : ContentAfter(f, 0) = before.content[f]
    BY <1>3 DEF Created, Output, ContentAfter
  <2>4. \A f \in Words : kind[f] = (IF f \in Created THEN "file" ELSE before.kind[f])
    BY <2>1, <2>3 DEF Before
  <2>5. \A f \in Words : content[f] = ContentAfter(f, 0)
    BY <2>1, <2>3 DEF Before
  <2>6. content = [f \in Words |-> ContentAfter(f, 0)]
    BY <1>2, <2>5
  <2>7. kind = [f \in Words |-> IF f \in Created THEN "file" ELSE before.kind[f]]
    BY <1>2, <2>4
  <2> QED
    BY <1>5, <2>2, <2>3, <2>6, <2>7
<1>4. CASE Runs
  <2>1. PICK lost : lost = Len(buffered)
    OBVIOUS
  <2>9. Wrote(SubSeq(Output, 1, Len(Output) - lost))
    BY <1>1, <1>4, <2>1, Working, OutputIs
  <2>10. lost \in 0..(IF Dies THEN BufferCap ELSE 0)
    <3>1. buffered \in Seq(Chunks) /\ BufferCap \in Nat
      BY MojbashAssumption DEF MojbashAssumption, StateInv, TypeOK
    <3>2. CASE buffered = <<>>
      BY <1>5, <2>1, <3>2
    <3>3. CASE buffered # <<>>
      BY <1>1, <1>4, <2>1, <3>1, <3>3, OutputIs
    <3> QED
      BY <3>2, <3>3
  <2>2. \A f \in Words : AsMade(f)
    BY <1>1, <1>4, AloneFacts
  <2>3. Made = Created
    <3>1. CASE tokens[1] = "touch"
      <4>1. args = <<>>
        BY <1>1, <1>4, <3>1, Working DEF ProgressInv
      <4>2. Work = Arguments /\ Arguments \in Seq(Words)
        BY <1>1, <1>4, <3>1, Working, RunTypes DEF Work
      <4>3. Done = Len(Arguments)
        BY <1>1, <1>4, <4>1, <4>2, Working
      <4>4. {Work[k] : k \in 1..Done} = ToSet(Arguments)
        BY <4>2, <4>3 DEF ToSet
      <4> QED
        BY <1>4, <3>1, <4>4 DEF Made, Created
    <3>2. CASE tokens[1] # "touch"
      BY <1>4, <3>2 DEF Made, Created
    <3> QED
      BY <3>1, <3>2
  <2>4. ASSUME NEW f \in Words PROVE content[f] = ContentAfter(f, lost)
    <3>1. CASE f = Named(">")
      BY <1>4, <2>9, <3>1, NamesAreWords DEF Wrote, ContentAfter
    <3>2. CASE f # Named(">")
      <4>1. content[f] = before.content[f]
        BY <2>2, <3>2 DEF AsMade
      <4>2. f \in Created => before.content[f] = <<>>
        BY <2>3 DEF Made, Was, StateInv, FileInv
      <4> QED
        BY <3>2, <4>1, <4>2 DEF ContentAfter
    <3> QED
      BY <3>1, <3>2
  <2>5. \A f \in Words : kind[f] = (IF f \in Created THEN "file" ELSE before.kind[f])
    BY <2>2, <2>3 DEF AsMade
  <2>6. kind = [f \in Words |-> IF f \in Created THEN "file" ELSE before.kind[f]]
    BY <1>2, <2>5
  <2>7. content = [f \in Words |-> ContentAfter(f, lost)]
    BY <1>2, <2>4
  <2>8. screen = IF Named(">") = NoFile THEN Output ELSE <<>>
    <3>1. CASE Named(">") # NoFile
      BY <2>9, <3>1 DEF Wrote
    <3>2. CASE Named(">") = NoFile
      <4>1. /\ Output \in Seq(Chunks) /\ Len(Output) \in Nat /\ lost = 0
            /\ screen = SubSeq(Output, 1, Len(Output) - lost)
        BY <1>1, <1>4, <2>1, <2>9, <3>2, OutputIs DEF Wrote
      <4>2. Len(Output) - lost = Len(Output)
        BY <4>1
      <4>3. SubSeq(Output, 1, Len(Output)) = Output
        BY <4>1
      <4> QED
        BY <3>2, <4>1, <4>2, <4>3
    <3> QED
      BY <3>1, <3>2
  <2> QED
    BY <2>6, <2>7, <2>8, <2>10
<1> QED
  BY <1>3, <1>4

(* A sensible line, whatever its words: while nobody else changes the files,*)
(* the command that has ended has created the files it had to, and its      *)
(* output is where the redirections of the line say, cut where a file is    *)
(* full: all of it, but for the end of a listing that died, of which no     *)
(* more is lost than stdout's buffer holds.                                 *)
THEOREM OutputAsWritten == Spec => []RunsAsWritten
<1> DEFINE All == Inv /\ StateInv /\ LineInv /\ RunInv /\ OutInv
<1>1. Init => All
  BY InitInv, InitState, InitRun, InitOut
<1>2. All /\ [Next]_vars => All'
  BY StepInv, StepState, StepRun, StepOut
<1>3. All => RunsAsWritten
  BY EndedAsWritten
<1> QED
  BY <1>1, <1>2, <1>3, PTL DEF Spec
=============================================================================
