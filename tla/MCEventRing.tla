---- MODULE MCEventRing ----
(* A callback of the file filter and another one, a ring of four slots, of  *)
(* which one stays free, and four events from a load to an unload.          *)
EXTENDS EventRing
====
