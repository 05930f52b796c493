------------------------------ MODULE Exchange ------------------------------
(***************************************************************************)
(* What a bounded buffer promises, with no threads, locks or condition     *)
(* variables: numbered items are made one after the other, each is taken   *)
(* once, no more than so many are under way at a time, and an item         *)
(* overtakes at most as many older ones as there are other makers.         *)
(* BoundedBuffer.tla is shown to implement this specification.             *)
(***************************************************************************)
EXTENDS Integers, Sequences, FiniteSets

VARIABLES
  terms,       (* [items : how many are made, room : how many may be under  *)
               (*  way, makers : how many make them]                        *)
  made,        (* how many were made                                        *)
  stock,       (* the items under way                                       *)
  taken        (* the items that were taken, in order                       *)

exchangeVars == <<terms, made, stock, taken>>

Init ==
  /\ terms \in [items : Nat, room : Nat, makers : Nat]
  /\ made = 0 /\ stock = {} /\ taken = <<>>

Make ==
  /\ made < terms.items /\ Cardinality(stock) < terms.room
  /\ made' = made + 1
  /\ stock' = stock \cup {made}
  /\ UNCHANGED <<terms, taken>>

Take(i) ==
  /\ i \in stock
  /\ Cardinality({j \in stock : j < i}) < terms.makers
  /\ taken' = Append(taken, i)
  /\ stock' = stock \ {i}
  /\ UNCHANGED <<terms, made>>

Spec == Init /\ [][Make \/ \E i \in stock : Take(i)]_exchangeVars
=============================================================================
