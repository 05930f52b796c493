-------------------------- MODULE MCHttpConnection --------------------------
(* Requests for TLC: well-formed with and without a body, each kind of      *)
(* refused path, too few words, words only in a header, an empty line       *)
(* first, and requests that end without the empty line.                     *)
EXTENDS HttpConnection

CRLF == <<"CR", "LF">>
Line(endpoint) == <<"word", "SP", endpoint, "SP", "word">> \o CRLF

MCRequests ==
  { Line("word") \o CRLF, Line("word") \o CRLF \o <<"word">>,
    Line("word") \o <<"up">> \o CRLF \o CRLF,
    Line("abs") \o CRLF, Line("up") \o CRLF, Line("absup") \o CRLF,
    <<"word", "SP", "word">> \o CRLF \o <<"word">> \o CRLF \o CRLF,
    CRLF \o CRLF, <<"LF">> \o Line("word") \o CRLF,
    <<>>, <<"word", "SP", "word", "SP", "word">>,
    <<"word", "SP", "up", "SP", "word", "LF", "LF">> }
=============================================================================
