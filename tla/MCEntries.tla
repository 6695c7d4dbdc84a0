----------------------------- MODULE MCEntries -----------------------------
(* Instances of Entries: the names of a kind are interchangeable. *)
EXTENDS Entries, TLC

Symmetry == Permutations(Ids) \cup Permutations(Serials)
              \cup Permutations(Hosts \ HostNames) \cup Permutations(People)
=============================================================================
