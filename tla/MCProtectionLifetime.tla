------------------------ MODULE MCProtectionLifetime ------------------------
(* Constants of ProtectionLifetime for TLC: two blocked images that are not *)
(* on the disk at the moment, so that their entries are listed and pending, *)
(* and a file for remediation.  ExecBlock's own run is the one with locks.  *)
EXTENDS ProtectionLifetime

CONSTANTS n1, n2, f1

MCTargets == [n \in Needle |-> {}]
=============================================================================
