-------------------------- MODULE DriverLinkProofs --------------------------
(***************************************************************************)
(* Theorems about DriverLink, for any drivers, with or without readers     *)
(* that hang, any queue and batch, and any number of unloads by others.    *)
(***************************************************************************)
EXTENDS DriverLink, TLAPS

(* Where the link stands at each point of start() and stop().              *)
LinkPoints ==
    /\ ~running /\ call \notin {"handshake", "config", "join"} =>
         port = "none" /\ ~connected /\ reader = "none"
    /\ running => reader # "none" /\ port # "none" /\ call \in {"idle", "return"}
    /\ call \in {"handshake", "config"} => ~running /\ reader = "none" /\ port # "none"
    /\ call = "join" => ~running /\ reader # "none" /\ port # "none"
    /\ call \in {"connect", "handshake", "config", "return"} => kernelEnabled
    /\ running \/ retryOn => kernelEnabled
    /\ draining => running
    /\ ~running /\ call # "join" => queue = 0
    /\ port = "live" => driver # "none"
    /\ port = "live" /\ (running \/ call = "config") => driver \in {"good", "stale"}

LinkInv == LinkTypes /\ LinkPoints /\ ConfiguredWhileLive

(* The assumption on the constants, in the form the leaves cite.           *)
LEMMA Constants ==
    /\ Drivers \subseteq {"good", "stale", "old"} /\ ReaderMayHang \in BOOLEAN
    /\ Newer \subseteq Probed /\ Probed \subseteq Dim
    /\ QueueMax \in Nat /\ MaxPerDrain \in Nat /\ 0 \in Nat
BY ConstantsAssumption

(* The link starts with no port, no thread and nothing connected.          *)
LEMMA InitLink == Init => LinkInv
BY Constants DEF Init, LinkInv, LinkTypes, ConfigTypes, LinkPoints, ConfiguredWhileLive, Unconfigured

(* Loading the driver (DriverControl::ensureLoaded) leaves one of its      *)
(* kinds.                                                                  *)
LEMMA LoadTypes ==
    ASSUME EnsureLoaded, driver \in {"none", "good", "stale", "old"}
    PROVE  driver' \in {"none", "good", "stale", "old"}
BY Constants DEF EnsureLoaded

(* The configuration of the driver keeps its type: a load and an unload    *)
(* leave none, a push leaves each kind as it was, whole or in part.        *)
LEMMA NextConfigTypes == ConfigTypes /\ [Next]_vars => ConfigTypes'
<1> SUFFICES ASSUME ConfigTypes, [Next]_vars PROVE ConfigTypes'
  OBVIOUS
<1>1. ASSUME UNCHANGED <<config, caps, warned>> PROVE ConfigTypes'
  BY <1>1 DEF ConfigTypes
<1>2. Unconfigured \in [Dim -> {"none", "part", "full", "empty"}]
  BY DEF Unconfigured
<1>3. CASE Enable \/ RetryAttach
  BY <1>2, <1>3 DEF Enable, RetryAttach, EnsureLoaded, answers, ConfigTypes
<1>4. CASE PushConfig
  <2>1. PICK sent \in SUBSET Reached, heard \in SUBSET (Reached \intersect Probed) :
             config' \in Configured(sent) /\ warned' = Dim \ sent /\ caps' = heard
    BY <1>4 DEF PushConfig
  <2> QED
    BY <2>1 DEF ConfigTypes, Configured
<1>5. CASE ExternalUnload
  BY <1>2, <1>5 DEF ExternalUnload, answers, ConfigTypes
<1>6. CASE Abandon
  BY <1>6 DEF Abandon, ConfigTypes
<1>7. CASE Disable \/ Connect \/ Handshake \/ Join
  BY <1>1, <1>7 DEF Disable, Connect, Handshake, Join, answers
<1>8. CASE RetryConnected \/ EnableReturns \/ RetryReturns \/ Drain
  BY <1>1, <1>8 DEF RetryConnected, EnableReturns, RetryReturns, Drain, link
<1>9. CASE ReaderQueues \/ ReaderExits \/ ReaderFails
  BY <1>1, <1>9 DEF ReaderQueues, ReaderExits, ReaderFails, LeavesLoop, answers
<1>10. CASE UNCHANGED vars
  BY <1>1, <1>10 DEF vars, link
<1> QED
  BY <1>3, <1>4, <1>5, <1>6, <1>7, <1>8, <1>9, <1>10 DEF Next, InCall, Retry

(* A message more, or none when the queue is full.                         *)
LEMMA QueueTypes == LinkTypes /\ ReaderQueues => queue' \in Nat
BY DEF LinkTypes, ReaderQueues

(* Types first, then the points of the two calls, action by action.        *)
LEMMA NextTypes == LinkTypes /\ [Next]_vars => LinkTypes'
<1> SUFFICES ASSUME LinkTypes, [Next]_vars, ConfigTypes' PROVE LinkTypes'
  BY NextConfigTypes DEF LinkTypes
<1>1. Enable => LinkTypes'
  BY LoadTypes DEF LinkTypes, Enable, events, EnterStart
<1>2. Disable => LinkTypes'
  <2>1. CASE reader = "none"
    BY <2>1, Constants DEF LinkTypes, Disable, ClosePort
  <2>2. CASE reader # "none"
    BY <2>2 DEF LinkTypes, Disable
  <2> QED
    BY <2>1, <2>2
<1>3. RetryConnected => LinkTypes'
  BY DEF LinkTypes, RetryConnected, events, link
<1>4. RetryAttach => LinkTypes'
  BY LoadTypes DEF LinkTypes, RetryAttach, events, EnterStart
<1>5. Connect => LinkTypes'
  BY DEF LinkTypes, Connect, events, Accepts, switch
<1>6. Handshake => LinkTypes'
  BY DEF LinkTypes, Handshake, events, ClosePort, switch
<1>7. PushConfig => LinkTypes'
  BY DEF LinkTypes, PushConfig, ReaderStarts, events, switch
<1>8. EnableReturns => LinkTypes'
  BY DEF LinkTypes, EnableReturns, events, link
<1>9. RetryReturns => LinkTypes'
  BY DEF LinkTypes, RetryReturns, events, link
<1>10. Join => LinkTypes'
  BY Constants DEF LinkTypes, Join, ClosePort
<1>11. Abandon => LinkTypes'
  BY Constants DEF LinkTypes, Abandon, ClosePort
<1>12. (ReaderExits \/ ReaderFails) => LinkTypes'
  BY DEF LinkTypes, ReaderExits, ReaderFails, LeavesLoop, events, switch
<1>13. ExternalUnload => LinkTypes'
  BY DEF LinkTypes, ExternalUnload, events, switch
<1>14. Drain => LinkTypes'
  BY Constants DEF LinkTypes, Drain, link, switch
<1>15. ReaderQueues => LinkTypes'
  BY QueueTypes DEF LinkTypes, ReaderQueues, switch
<1>16. UNCHANGED vars => LinkTypes'
  BY DEF LinkTypes, vars, link, switch, events
<1> QED
  BY <1>1, <1>2, <1>3, <1>4, <1>5, <1>6, <1>7, <1>8, <1>9, <1>10, <1>11, <1>12, <1>13, <1>14,
     <1>15, <1>16 DEF Next, InCall, Retry

(* Every step of start(), stop(), the reader, the watchdog and the kernel  *)
(* moves the link from one of its points to another.                       *)
LEMMA NextPoints == LinkInv /\ [Next]_vars => LinkPoints'
<1> SUFFICES ASSUME LinkTypes, LinkPoints, [Next]_vars PROVE LinkPoints'
  BY DEF LinkInv
<1> USE DEF LinkTypes, LinkPoints, Speaks
<1>1. CASE Enable
  BY <1>1, Constants DEF Enable, events, EnsureLoaded, EnterStart
<1>2. CASE Disable
  BY <1>2 DEF Disable, ClosePort
<1>3. CASE RetryConnected
  BY <1>3 DEF RetryConnected, events, link
<1>4. CASE RetryAttach
  BY <1>4, Constants DEF RetryAttach, events, EnsureLoaded, EnterStart
<1>5. CASE Connect
  BY <1>5 DEF Connect, events, Accepts, switch
<1>6. CASE Handshake
  BY <1>6 DEF Handshake, events, ClosePort, switch
<1>7. CASE PushConfig
  BY <1>7 DEF PushConfig, ReaderStarts, events, switch
<1>8. CASE EnableReturns
  BY <1>8 DEF EnableReturns, events, link
<1>9. CASE RetryReturns
  BY <1>9 DEF RetryReturns, events, link
<1>10. CASE Join
  BY <1>10 DEF Join, ClosePort
<1>11. CASE Abandon
  BY <1>11 DEF Abandon, ClosePort
<1>12. CASE ReaderExits \/ ReaderFails
  BY <1>12 DEF ReaderExits, ReaderFails, LeavesLoop, events, switch
<1>13. CASE ExternalUnload
  BY <1>13 DEF ExternalUnload, events, switch
<1>14. CASE Drain
  BY <1>14, Constants DEF Drain, link, switch
<1>15. CASE ReaderQueues
  BY <1>15 DEF ReaderQueues, switch
<1>16. CASE UNCHANGED vars
  BY <1>16 DEF vars, link, switch, events
<1> QED
  BY <1>1, <1>2, <1>3, <1>4, <1>5, <1>6, <1>7, <1>8, <1>9, <1>10, <1>11, <1>12, <1>13, <1>14,
     <1>15, <1>16 DEF Next, InCall, Retry

(* What the driver that is there was sent stays what it holds: every step  *)
(* but a push leaves it alone, or the link is not a live one after it.     *)
LEMMA NextConfigured == LinkInv /\ [Next]_vars => ConfiguredWhileLive'
<1> SUFFICES ASSUME LinkInv, [Next]_vars, running', port' = "live"
             PROVE  /\ \A d \in Dim \ warned' : config'[d] = Complete'
                    /\ caps' \subseteq Known'
  BY DEF ConfiguredWhileLive
<1>1. ASSUME UNCHANGED <<running, port, driver, config, snapshot, caps, warned>>
      PROVE  /\ \A d \in Dim \ warned' : config'[d] = Complete'
             /\ caps' \subseteq Known'
  BY <1>1 DEF LinkInv, ConfiguredWhileLive, Complete, Known
<1>2. CASE PushConfig
  <2>1. /\ UNCHANGED <<port, driver, snapshot>> /\ port = "live"
        /\ \E sent \in SUBSET Reached, heard \in SUBSET (Reached \intersect Probed) :
             config' \in Configured(sent) /\ warned' = Dim \ sent /\ caps' = heard
    BY <1>2 DEF PushConfig
  <2>2. PICK sent \in SUBSET Reached, heard \in SUBSET (Reached \intersect Probed) :
             config' \in Configured(sent) /\ warned' = Dim \ sent /\ caps' = heard
    BY <2>1
  <2>3. Reached = Known /\ Known' = Known /\ Complete' = Complete
    BY <2>1 DEF Reached, Known, Complete
  <2>4. \A d \in sent \intersect Dim : config'[d] = Complete
    BY <2>2 DEF Configured
  <2> QED
    BY <2>2, <2>3, <2>4
<1>3. CASE Enable \/ RetryAttach
  <2>1. running /\ port = "live" /\ driver # "none"
    BY <1>3 DEF Enable, RetryAttach, LinkInv, LinkPoints
  <2>2. UNCHANGED <<running, port, driver, config, snapshot, caps, warned>>
    BY <1>3, <2>1 DEF Enable, RetryAttach, EnsureLoaded, answers
  <2> QED
    BY <1>1, <2>2
<1>4. CASE Disable \/ Connect \/ Handshake \/ Join \/ Abandon
  <2>1. ~running'
    BY <1>4 DEF Disable, Connect, Handshake, Join, Abandon, LinkInv, LinkPoints
  <2> QED
    BY <2>1
<1>5. CASE ExternalUnload
  BY <1>5 DEF ExternalUnload
<1>6. CASE RetryConnected \/ EnableReturns \/ RetryReturns \/ Drain
  BY <1>1, <1>6 DEF RetryConnected, EnableReturns, RetryReturns, Drain, link
<1>7. CASE ReaderQueues \/ ReaderExits \/ ReaderFails
  BY <1>1, <1>7 DEF ReaderQueues, ReaderExits, ReaderFails, LeavesLoop, answers
<1>8. CASE UNCHANGED vars
  BY <1>1, <1>8 DEF vars, link
<1> QED
  BY <1>2, <1>3, <1>4, <1>5, <1>6, <1>7, <1>8 DEF Next, InCall, Retry

(* The inductive invariant of the link holds throughout.                   *)
LEMMA LinkAlways == Spec => []LinkInv
BY InitLink, NextTypes, NextPoints, NextConfigured, PTL DEF Spec, LinkInv

(* Neither the bound on the unloads nor the queue's is passed: the reader  *)
(* drops what finds the queue full, and a drain only takes away.           *)
LinkCounts == unloads \in 0..MaxUnloads /\ queue \in 0..QueueMax

LEMMA NextCounts == LinkTypes /\ LinkCounts /\ [Next]_vars => LinkCounts'
<1> SUFFICES ASSUME LinkTypes, LinkCounts, [Next]_vars PROVE LinkCounts'
  OBVIOUS
<1>1. unloads' = unloads \/ (unloads < MaxUnloads /\ unloads' = unloads + 1)
  BY DEF Next, InCall, Retry, Enable, Disable, RetryConnected, RetryAttach, Connect,
     Handshake, PushConfig, EnableReturns, RetryReturns, Join, Abandon, Drain,
     ReaderQueues, ReaderExits, ReaderFails, LeavesLoop, ReaderStarts, ExternalUnload, vars
<1>2. \/ queue' = queue \/ queue' = 0
      \/ queue > MaxPerDrain /\ queue' = queue - MaxPerDrain
      \/ queue < QueueMax /\ queue' = queue + 1
  BY DEF Next, InCall, Retry, Enable, Disable, RetryConnected, RetryAttach, Connect,
     Handshake, PushConfig, EnableReturns, RetryReturns, Join, Abandon, Drain,
     ReaderQueues, ReaderExits, ReaderFails, LeavesLoop, ReaderStarts, ExternalUnload, vars, events
<1> QED
  BY <1>1, <1>2, ConstantsAssumption DEF LinkCounts

(* Every variable keeps its type.                                          *)
THEOREM TypeCorrect == Spec => []TypeOK
<1>1. Init => LinkCounts
  BY ConstantsAssumption DEF Init, LinkCounts
<1>2. LinkInv => LinkTypes
  BY DEF LinkInv
<1>3. LinkTypes /\ LinkCounts => TypeOK
  BY DEF LinkCounts, TypeOK
<1> QED
  BY <1>1, <1>2, <1>3, NextCounts, LinkAlways, PTL DEF Spec

(* No reader thread ever works on a handle that was closed.                *)
THEOREM ReaderPortOpen == Spec => []ReaderHasPort
<1>1. LinkInv => ReaderHasPort
  BY DEF LinkInv, LinkTypes, LinkPoints, ReaderHasPort
<1> QED
  BY <1>1, LinkAlways, PTL

(* Events are read only from a driver that passed the handshake.           *)
THEOREM DriverMatches == Spec => []OnlyMatchingDriver
<1>1. LinkInv => OnlyMatchingDriver
  BY DEF LinkInv, LinkPoints, OnlyMatchingDriver, Speaks
<1> QED
  BY <1>1, LinkAlways, PTL

(* Switched off, the link holds nothing, and no event waits in the queue.  *)
THEOREM Detached == Spec => []DisabledIsDetached
<1>1. LinkInv => DisabledIsDetached
  BY DEF LinkInv, LinkTypes, LinkPoints, DisabledIsDetached
<1> QED
  BY <1>1, LinkAlways, PTL

(* Whichever sends fail and whichever driver answers: the one the service  *)
(* reads from holds all of every kind that no send failed of, and no kind  *)
(* it does not know is reported to be there.                               *)
THEOREM ConfiguredOrWarned == Spec => []ConfiguredWhileLive
<1>1. LinkInv => ConfiguredWhileLive
  BY DEF LinkInv
<1> QED
  BY <1>1, LinkAlways, PTL

---------------------------------------------------------------------------
(* The link as the rest of the service may take it.                        *)

LEMMA StepOfLink == LinkInv /\ [Next]_vars => [KL!Next]_(KL!vars)
<1> SUFFICES ASSUME LinkTypes, LinkPoints, [Next]_vars PROVE [KL!Next]_(KL!vars)
  BY DEF LinkInv
<1> USE DEF LinkTypes, LinkPoints, Attached, Speaks
<1>1. ASSUME EnsureLoaded
      PROVE  (driver' # "none") \in {driver # "none", TRUE}
  BY <1>1, Constants DEF EnsureLoaded
<1>2. ASSUME UNCHANGED <<kernelEnabled, driver, port>>, Attached' <=> Attached,
             reader' = "done" <=> reader = "done"
      PROVE  UNCHANGED KL!vars
  BY <1>2 DEF KL!vars
<1>3. CASE Enable
  <2>1. /\ ~kernelEnabled /\ kernelEnabled' = TRUE /\ EnsureLoaded
        /\ ~Attached /\ ~Attached'
    BY <1>3 DEF Enable, EnterStart
  <2>2. KL!SwitchOn
    BY <2>1, <1>1 DEF KL!SwitchOn, KL!Attempt
  <2>3. QED
    BY <2>2 DEF KL!Next
<1>4. CASE Disable
  <2>1. /\ kernelEnabled /\ kernelEnabled' = FALSE /\ ~Attached' /\ driver' = driver
    BY <1>4 DEF Disable
  <2>2. KL!SwitchOff
    BY <2>1 DEF KL!SwitchOff
  <2>3. QED
    BY <2>2 DEF KL!Next
<1>5. CASE RetryAttach
  <2>1. /\ kernelEnabled /\ UNCHANGED <<kernelEnabled, port, reader>> /\ EnsureLoaded
        /\ Attached' <=> Attached
    BY <1>5 DEF RetryAttach, EnterStart
  <2>2. KL!Retry
    BY <2>1, <1>1 DEF KL!Retry, KL!Attempt
  <2>3. QED
    BY <2>2 DEF KL!Next
<1>6. CASE Handshake
  <2>1. CASE port = "live" /\ driver \in Speaks
    <3>1. /\ kernelEnabled /\ UNCHANGED <<kernelEnabled, driver, port>>
          /\ ~Attached /\ Attached' /\ reader' # "done"
      BY <1>6, <2>1 DEF Handshake, switch
    <3>2. KL!Retry
      BY <2>1, <3>1 DEF KL!Retry, KL!Attempt
    <3>3. QED
      BY <3>2 DEF KL!Next
  <2>2. CASE ~(port = "live" /\ driver \in Speaks)
    <3>1. ~Attached /\ ~Attached' /\ UNCHANGED <<kernelEnabled, driver>>
      BY <1>6, <2>2 DEF Handshake, switch
    <3>2. QED
      BY <3>1 DEF KL!vars
  <2>3. QED
    BY <2>1, <2>2
<1>7. CASE ExternalUnload
  <2>1. /\ driver # "none" /\ driver' = "none"
        /\ port' = IF port = "live" THEN "dead" ELSE port
        /\ kernelEnabled' = kernelEnabled /\ reader' = reader /\ (Attached' <=> Attached)
    BY <1>7 DEF ExternalUnload, switch
  <2>2. KL!Unload
    BY <2>1 DEF KL!Unload
  <2>3. QED
    BY <2>2 DEF KL!Next
<1>8. CASE Connect \/ Join \/ Abandon
  <2>1. ~Attached /\ ~Attached' /\ UNCHANGED <<kernelEnabled, driver>>
    BY <1>8 DEF Connect, Join, Abandon, switch
  <2>2. QED
    BY <2>1 DEF KL!vars
<1>9. CASE PushConfig
  BY <1>2, <1>9 DEF PushConfig, ReaderStarts, switch
<1>10. CASE RetryConnected \/ EnableReturns \/ RetryReturns
  BY <1>2, <1>10 DEF RetryConnected, EnableReturns, RetryReturns, link
<1>11. CASE Drain
  BY <1>2, <1>11 DEF Drain, link, switch
<1>11a. CASE ReaderQueues \/ ReaderExits \/ ReaderFails
  <2>1. /\ UNCHANGED <<kernelEnabled, driver, port, running, call>>
        /\ reader = "reading" /\ reader' \in {"reading", "done"}
        /\ reader' = "done" /\ running => port = "dead" \/ ReaderFails
    BY <1>11a DEF ReaderQueues, ReaderExits, ReaderFails, LeavesLoop, switch
  <2>2. CASE Attached /\ port = "live" /\ reader' = "done"
    <3>1. KL!Break
      BY <2>1, <2>2 DEF KL!Break
    <3> QED
      BY <3>1 DEF KL!Next
  <2>3. CASE ~(Attached /\ port = "live" /\ reader' = "done")
    BY <2>1, <2>3 DEF KL!vars
  <2> QED
    BY <2>2, <2>3
<1>12. CASE UNCHANGED vars
  BY <1>2, <1>12 DEF vars, link, switch
<1>13. QED
  BY <1>3, <1>4, <1>5, <1>6, <1>7, <1>8, <1>9, <1>10, <1>11, <1>11a, <1>12
     DEF Next, InCall, Retry

(* The port, its handshake, the reader and the abandoned readers together  *)
(* make a link of the simple kind: the driver is loaded and connected to   *)
(* only by an attempt while the switch is on, and a connection cut off     *)
(* half-way stays that way until it is switched off.                       *)
THEOREM ImplementsLink == Spec => LinkSpec
<1>1. Init => KL!Init
  BY DEF Init, KL!Init, Attached
<1>2. QED
  BY <1>1, StepOfLink, LinkAlways, PTL DEF Spec, LinkSpec, KL!Spec
=============================================================================
