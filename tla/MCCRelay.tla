------------------------------ MODULE MCCRelay ------------------------------
(* The setups for TLC: each relay alone, with a descriptor table that fills *)
(* before or after the second client, two servers in one directory, and the *)
(* chat.                                                                    *)
EXTENDS CRelay

CONSTANTS s1, s2, c1, c2

Alone(q, fds) == [program |-> q, servers |-> {s1}, clients |-> {c1, c2}, fds |-> fds]
Twice(q) == [program |-> q, servers |-> {s1, s2}, clients |-> {c1}, fds |-> 2]

MCSetups ==
  {Alone("pipe-fifo", 1), Alone("temp", 2), Alone("chat", 2), Twice("pipe-fifo"), Twice("temp")}
=============================================================================
