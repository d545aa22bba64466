----------------------------- MODULE KernelLink -----------------------------
(***************************************************************************)
(* What the rest of the service may take the link to the driver for: the   *)
(* switch, whether the driver is in the kernel, and a connection that is   *)
(* there, not there, or cut off half-way.  Only an attempt made while the  *)
(* switch is on loads the driver or connects to it, and only the switch    *)
(* gets rid of a connection that was cut off.  DriverLink, with its        *)
(* handshake, reader and abandoned readers, and ProtectionLifetime, which  *)
(* takes the link in single steps, are both shown to implement it.         *)
(***************************************************************************)

VARIABLES
    on,             \* kernelEnabled_
    loaded,         \* a driver is in the kernel
    state           \* "none", "live", "lost"

vars == <<on, loaded, state>>

(* ensureLoaded and start(): either may fail, and start() returns at once  *)
(* when it runs already.                                                   *)
Attempt ==
    /\ loaded' \in {loaded, TRUE}
    /\ state' \in IF state = "none" /\ loaded' THEN {"none", "live"} ELSE {state}

SwitchOn == ~on /\ on' = TRUE /\ Attempt

Retry == on /\ UNCHANGED on /\ Attempt

SwitchOff == on /\ on' = FALSE /\ state' = "none" /\ UNCHANGED loaded

(* The service itself unloads the driver on its way into standby, or       *)
(* others do.                                                              *)
Unload ==
    /\ loaded /\ loaded' = FALSE
    /\ state' = IF state = "live" THEN "lost" ELSE state
    /\ UNCHANGED on

(* The reader's call fails although the driver is there.                   *)
Break == state = "live" /\ state' = "lost" /\ UNCHANGED <<on, loaded>>

Init == on = FALSE /\ loaded \in BOOLEAN /\ state = "none"

Next == SwitchOn \/ Retry \/ SwitchOff \/ Unload \/ Break

Spec == Init /\ [][Next]_vars
=============================================================================
