---------------------------- MODULE MCExecBlock ----------------------------
(* Two needles: n1 names a file on each of two drives, n2 names one of     *)
(* them too (the same sample listed by full path).  The third needle, with *)
(* room for two, meets the capacity; r is a file of the product.           *)
EXTENDS ExecBlock, TLC

CONSTANTS n1, n2, n3, c, d, r

MCTargets == (n1 :> {c, d}) @@ (n2 :> {c}) @@ (n3 :> {r})
=============================================================================
