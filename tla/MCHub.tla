-------------------------------- MODULE MCHub --------------------------------
(***************************************************************************)
(* Instances of Hub for TLC: two properties with two values, so that a     *)
(* frame can carry one of them, both or a changed one, and the calls of    *)
(* one or two services beside the entry's own.                             *)
(***************************************************************************)
EXTENDS Hub, TLC

\* Names are interchangeable: no definition chooses one by itself.
Names == Permutations(Keys) \cup Permutations(Values) \cup Permutations(Services)
=============================================================================
