------------------------------ MODULE TaskPool ------------------------------
(***************************************************************************)
(* What the scheduler promises its client, with no threads, locks or       *)
(* condition variables: tasks handed over while the pool is open are       *)
(* claimed in (start time, priority) order, run once, never before their   *)
(* start time, and the pool is closed only when every one of them has run. *)
(* ThreadPool.tla is shown to implement this specification.                *)
(***************************************************************************)
EXTENDS Integers

CONSTANTS
  Tasks,       (* the tasks a client may hand over                          *)
  StartTime,   (* [Tasks -> Nat], Task::startTime()                         *)
  Priority,    (* [Tasks -> Int], Task::priority()                          *)
  Horizon      (* bound of the modelled clock                               *)

VARIABLES
  status,      (* [Tasks -> {"new", "queued", "claimed", "done"}]           *)
  phase,       (* "open", then "closing", then "closed"                     *)
  now          (* the clock                                                 *)

poolVars == <<status, phase, now>>

(* The order promised: earlier start first, then the smaller priority.      *)
Precedes(a, b) ==
  \/ StartTime[a] < StartTime[b]
  \/ StartTime[a] = StartTime[b] /\ Priority[a] < Priority[b]

Init ==
  /\ status = [t \in Tasks |-> "new"]
  /\ phase = "open"
  /\ now = 0

Submit(t) ==
  /\ phase = "open"
  /\ status[t] = "new"
  /\ status' = [status EXCEPT ![t] = "queued"]
  /\ UNCHANGED <<phase, now>>

Claim(t) ==
  /\ status[t] = "queued"
  /\ \A u \in Tasks : status[u] = "queued" => ~Precedes(u, t)
  /\ status' = [status EXCEPT ![t] = "claimed"]
  /\ UNCHANGED <<phase, now>>

Run(t) ==
  /\ status[t] = "claimed"
  /\ now >= StartTime[t]
  /\ status' = [status EXCEPT ![t] = "done"]
  /\ UNCHANGED <<phase, now>>

Close ==
  /\ phase = "open"
  /\ phase' = "closing"
  /\ UNCHANGED <<status, now>>

Finish ==
  /\ phase = "closing"
  /\ \A t \in Tasks : status[t] \in {"new", "done"}
  /\ phase' = "closed"
  /\ UNCHANGED <<status, now>>

Tick ==
  /\ now < Horizon
  /\ now' = now + 1
  /\ UNCHANGED <<status, phase>>

Next ==
  \/ \E t \in Tasks : Submit(t) \/ Claim(t) \/ Run(t)
  \/ Close
  \/ Finish
  \/ Tick

Spec == Init /\ [][Next]_poolVars
=============================================================================
