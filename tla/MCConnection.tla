---------------------------- MODULE MCConnection ----------------------------
(***************************************************************************)
(* Instances of Connection for TLC.  Two callers share an attempt, join    *)
(* behind a close and give up on each other.  Three reader names are       *)
(* enough for the one the connection knows, one on its way out and its     *)
(* successor; two sockets for the one in use, perhaps closing, and a       *)
(* fresh one.  NamesLeft checks that no step ever lacks a name.            *)
(***************************************************************************)
EXTENDS Connection, TLC

\* Names are interchangeable: no definition chooses one by itself.
Names == Permutations(Callers) \cup Permutations(Readers) \cup Permutations(Sockets)

\* The bounds on names never keep a step from happening.
NamesLeft ==
  /\ messageLoopTask = None => \E r \in Readers : NewReader(r)
  /\ \E s \in Sockets : FreshSocket(s)
=============================================================================
