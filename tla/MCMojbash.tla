------------------------------ MODULE MCMojbash ------------------------------
(* Lines for TLC: each command with and without arguments and redirections, *)
(* a missing, a barred, a locked, a special and a long name, a directory,   *)
(* mojcat on its own output, a listing longer than the buffer that dies,    *)
(* exit with and without too many arguments.                                *)
EXTENDS Mojbash, TLC

MCNames == {"f", "g", "new", "locked", "barred", "fifo", "long"}

MCCut == [w \in Words |-> IF w = "long" THEN "g" ELSE w]

MCKind == [w \in Words |->
  CASE w = "." -> "dir" [] w = "locked" -> "locked" [] w = "barred" -> "barred"
    [] w = "fifo" -> "special" [] w \in {"f", "g"} -> "file"
    [] OTHER -> "absent"]

MCContent == [w \in Words |->
  CASE w = "f" -> <<"f", "f">> [] w = "g" -> <<"g">> [] OTHER -> <<>>]

MCLines ==
  { <<>>, <<"exit">>, <<"exit", "f">>, <<"exit", "f", "g">>, <<"new">>,
    <<"echo">>, <<"echo", "f", ">", "new">>, <<"echo", ">", "f", "g">>, <<"echo", "f", ">">>,
    <<"cat">>, <<"cat", ">", "f">>, <<"cat", "<", "f">>, <<"cat", "<", "new", ">", "g">>,
    <<"cat", "<", "g", ">", "new", "<", "f">>, <<"cat", "f", "new", "g", ">", "new">>,
    <<"cat", "new", "f", ".", "g">>, <<"cat", "locked", "g", ">", "f">>,
    <<"cat", "f", "g", ">", "g">>, <<"cat", "<", "locked", ">", "f">>,
    <<"cat", "f", ">", "long">>, <<"cat", "<", ".">>,
    <<"touch", "f", "new">>, <<"touch", "new", "locked", ".", ">", "g">>,
    <<"ls">>, <<"ls", ".", "f", ".">>, <<"ls", ".", ".", ">", "f">>, <<"ls", ".", "g", ">", "f">>,
    <<"ls", ">", "locked">>, <<"ls", ".", ".", ".", "g", ">", "new">>,
    <<"echo", ">", "barred">>, <<"cat", "barred", "f">>, <<"touch", "barred", "new", "fifo">>,
    <<"cat", "fifo", ">", "new">>, <<"cat", "f", ">", "fifo">>, <<"ls", ".", ">", "fifo">> }
=============================================================================
