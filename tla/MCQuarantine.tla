---- MODULE MCQuarantine ----
(* One path, so that every quarantine meets the entries of the ones before. *)
EXTENDS Quarantine, TLC

Alike == Permutations(Ids) \cup Permutations(Bytes)
====
