---- MODULE MCReputation ----
(* Two files, one of them in a suspicious place; a queue of one is full as  *)
(* soon as it is used, and so is a cache of one entry.                      *)
EXTENDS Reputation
====
