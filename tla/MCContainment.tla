---- MODULE MCContainment ----
(* Two numbers, two images, one of them critical; a table of one entry is   *)
(* full as soon as it is used, and a second prompt makes the first overflow.*)
EXTENDS Containment
====
