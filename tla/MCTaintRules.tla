---- MODULE MCTaintRules ----
(* One dropped program and one dropped module in one directory, which the    *)
(* user or appsettings may trust.                                            *)
EXTENDS TaintRules

CONSTANTS a, m
Trusting == {{a, m}}
Directories == {{a, m}}
====
