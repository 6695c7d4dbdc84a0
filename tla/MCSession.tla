----------------------------- MODULE MCSession -----------------------------
(***************************************************************************)
(* Instances of Session for TLC: two chargers of any make take turns at    *)
(* the address, with two properties in one chunk or two, and a pause whose *)
(* limit is no multiple of its start.                                      *)
(***************************************************************************)
EXTENDS Session, TLC

\* Names are interchangeable: no definition chooses one by itself.
Names == Permutations(Serials) \cup Permutations(Keys)
=============================================================================
