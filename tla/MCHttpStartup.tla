--------------------------- MODULE MCHttpStartup ---------------------------
(* Arguments for TLC: every length up to six, values at each end of what a  *)
(* length can hold and around the limits of a port.                         *)
EXTENDS HttpStartup

Values == {0, 1, 9, 10, 80, 999, 1000, 8080, 9999, 10000, 65533, 65534,
           65535, 65536, 99999, 100000}

MCArgs ==
  {[length |-> n, value |-> v] : n \in 1..6, v \in Values} \cup
  {[length |-> n, value |-> NotDigits] : n \in 0..6}

MCArgsFit == {a \in MCArgs : a.value # NotDigits => a.value < 10^a.length}
=============================================================================
