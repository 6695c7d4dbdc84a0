-------------------------- MODULE ConnectionPromise --------------------------
(***************************************************************************)
(* What a Connection promises to the client and the hub, who see only its  *)
(* properties connected and fatal_error: a stopped connection neither      *)
(* connects nor changes its mind by itself, it signs in only while nothing *)
(* refuses it, and only an open() lifts a final refusal.                   *)
(***************************************************************************)

VARIABLES
  phase,      \* "running", "stopping" during a close, "stopped" after it
  connected,  \* Connection.connected
  refusal,    \* Connection.fatal_error: "none", "transient" or "final"
  trying      \* whether an open() is being worked on

vars == <<phase, connected, refusal, trying>>

Init == phase = "running" /\ ~connected /\ refusal = "none" /\ ~trying

Open ==
  /\ phase # "stopping"
  /\ phase' = "running" /\ trying' = TRUE
  /\ UNCHANGED <<connected, refusal>>

OpenEnds ==
  /\ trying /\ ~trying'
  /\ connected' => connected
  /\ UNCHANGED <<phase, refusal>>

Close ==
  /\ phase' = "stopping"
  /\ UNCHANGED <<connected, refusal, trying>>

Closed ==
  /\ phase = "stopping" /\ ~trying
  /\ phase' = "stopped" /\ ~connected'
  /\ UNCHANGED <<refusal, trying>>

SignIn ==
  /\ phase # "stopped" /\ refusal = "none"
  /\ connected'
  /\ UNCHANGED <<phase, refusal, trying>>

SignOut ==
  /\ ~connected'
  /\ UNCHANGED <<phase, refusal, trying>>

Refuse ==
  /\ phase # "stopped" /\ refusal = "none"
  /\ refusal' \in {"transient", "final"} /\ ~connected'
  /\ UNCHANGED <<phase, trying>>

\* The next try starts without the refusal of the last.
Retry ==
  /\ phase # "stopped" /\ refusal # "none"
  /\ refusal = "final" => trying
  /\ refusal' = "none" /\ ~connected'
  /\ UNCHANGED <<phase, trying>>

Next == Open \/ OpenEnds \/ Close \/ Closed \/ SignIn \/ SignOut \/ Refuse \/ Retry

Spec == Init /\ [][Next]_vars
=============================================================================
