----------------------------- MODULE DriverLink -----------------------------
(***************************************************************************)
(* The service's link to the kernel driver: DriverEventSource (connection, *)
(* handshake, initial configuration, reader thread) and the part of        *)
(* EventSourceCoordinator that switches it on and off, watches it every    *)
(* 10 s and reports its state to the audit.  Of the events only their      *)
(* number counts here: the reader queues them, drain() hands them on.      *)
(*                                                                         *)
(* Three parties interleave: the main thread inside start() or stop(), the *)
(* reader thread blocked in FilterGetMessage, and the rest of the machine, *)
(* which may unload the driver at any moment (fltmc unload, an upgrade).   *)
(***************************************************************************)
EXTENDS Naturals

CONSTANTS
    Drivers,        \* what a load can bring up: "good", "stale" (passes the
                    \* handshake, refuses newer commands), "old" (fails it)
    Dim,            \* the kinds of configuration (protected paths, PIDs, ...)
    Probed,         \* those Impl::Capabilities keeps an answer of
    Newer,          \* those whose commands a stale driver does not know
    ReaderMayHang,  \* CancelSynchronousIo may fail for the 6 s stop() waits
    MaxUnloads,     \* bound on the unloads by others
    QueueMax,       \* Impl::kQueueMax
    MaxPerDrain     \* kMaxPerDrain: what one drain() hands on

ASSUME ConstantsAssumption ==
    /\ Drivers \subseteq {"good", "stale", "old"} /\ Drivers # {}
    /\ Newer \subseteq Probed /\ Probed \subseteq Dim
    /\ ReaderMayHang \in BOOLEAN
    /\ MaxUnloads \in Nat
    /\ QueueMax \in Nat /\ MaxPerDrain \in Nat \ {0}

VARIABLES
    driver,         \* the module in the kernel, or "none"
    config,         \* by kind, what it was configured with: "none", "part" (of
                    \* what was to be sent), "full", "empty"
    port,           \* our handle: "none", "live", "dead" (the driver went away)
    stranded,       \* an abandoned reader still holds a live connection
    connected,      \* Impl::connected
    running,        \* Impl::running
    reader,         \* Impl::readThread: "none", "reading", "done" (not joined)
    queue,          \* number of events in Impl::queue
    draining,       \* drainTimer_ runs
    more,           \* a further drain() is posted
    snapshot,       \* this Impl holds the constructor's copy of the options
    caps,           \* Impl::caps: the probed kinds reported as there
    warned,         \* kinds a send of the last configuration failed for
    call,           \* where the main thread is inside start() / stop()
    caller,         \* who called start(): "enable" or "retry"
    kernelEnabled,  \* kernelEnabled_
    retryOn,        \* the watchdog timer runs
    attachFailed,   \* attachFailed_
    notified,       \* notifiedConnected_: "unknown", "up", "down"
    unloads         \* unloads by others so far

link == <<driver, config, port, stranded, connected, running, reader, snapshot, caps, warned>>
events == <<queue, draining, more>>
switch == <<kernelEnabled, retryOn, attachFailed, notified>>
vars == <<link, events, switch, call, caller, unloads>>

answers == <<caps, warned>>

---------------------------------------------------------------------------

(* The drivers whose message layout the handshake accepts, and the kinds   *)
(* of configuration the one that is loaded knows.                          *)
Speaks == {"good", "stale"}
Known == IF driver = "stale" THEN Dim \ Newer ELSE Dim

Unconfigured == [d \in Dim |-> "none"]

(* DriverControl::ensureLoaded: nothing to do when the driver is there; a  *)
(* load may fail, and a driver that was just loaded has no configuration.  *)
EnsureLoaded ==
    \/ driver # "none" /\ UNCHANGED <<driver, config>>
    \/ driver = "none" /\ UNCHANGED <<driver, config>>
    \/ driver = "none" /\ driver' \in Drivers /\ config' = Unconfigured

ClosePort == port' = "none" /\ connected' = FALSE

(* FilterConnectCommunicationPort: the driver accepts one connection.      *)
Accepts == driver # "none" /\ port # "live" /\ ~stranded

(* The first thing start() looks at.                                       *)
EnterStart(who) ==
    /\ caller' = who
    /\ call' = IF running THEN "return" ELSE "connect"

Connect ==
    /\ call = "connect"
    /\ IF Accepts THEN port' = "live" /\ connected' = TRUE /\ call' = "handshake"
                  ELSE call' = "return" /\ UNCHANGED <<port, connected>>
    /\ UNCHANGED <<driver, config, stranded, running, reader, snapshot, answers,
                   events, switch, caller, unloads>>

Handshake ==
    /\ call = "handshake"
    /\ IF port = "live" /\ driver \in Speaks
       THEN call' = "config" /\ UNCHANGED <<port, connected>>
       ELSE call' = "return" /\ ClosePort
    /\ UNCHANGED <<driver, config, stranded, running, reader, snapshot, answers,
                   events, switch, caller, unloads>>

(* pushInitialConfig, then the reader thread: for each kind a CLEAR and    *)
(* its ADDs.  A send that fails is logged, is known to nobody but the log  *)
(* -- of the probed kinds one answer, to the CLEAR or to a probe, is kept  *)
(* in caps -- and start() goes on.  "sent" are the kinds of which every    *)
(* send got through, "heard" the probed ones whose kept answer was good.   *)
Complete == IF snapshot THEN "full" ELSE "empty"
Reached == IF port = "live" THEN Known ELSE {}

Configured(sent) ==
    {c \in [Dim -> {"none", "part", "full", "empty"}] :
       \A d \in Dim : c[d] \in IF d \in sent THEN {Complete}
                               ELSE IF d \in Reached THEN {config[d], "part"}
                               ELSE {config[d]}}

ReaderStarts ==
    /\ running' = TRUE /\ reader' = "reading" /\ draining' = TRUE
    /\ call' = "return"

PushConfig_OnlyOnFirstStart ==
    /\ call = "config"
    /\ \E sent \in SUBSET Reached :
         /\ caller = "enable" => config' \in Configured(sent)
         /\ caller # "enable" => UNCHANGED config
         /\ warned' = Dim \ sent
         /\ caps' = sent \intersect Probed
    /\ ReaderStarts
    /\ UNCHANGED <<driver, port, stranded, connected, snapshot, queue, more, switch,
                   caller, unloads>>

PushConfig ==
    /\ call = "config"
    /\ \E sent \in SUBSET Reached, heard \in SUBSET (Reached \intersect Probed) :
         /\ sent \intersect Probed \subseteq heard
         /\ config' \in Configured(sent)
         /\ warned' = Dim \ sent
         /\ caps' = heard
    /\ ReaderStarts
    /\ UNCHANGED <<driver, port, stranded, connected, snapshot, queue, more, switch,
                   caller, unloads>>

---------------------------------------------------------------------------
(* applyKernelEnabled(true): load, start(), then the watchdog whatever came *)
(* of it, and one notice.                                                  *)
Enable ==
    /\ call = "idle" /\ ~kernelEnabled
    /\ kernelEnabled' = TRUE
    /\ EnsureLoaded
    /\ EnterStart("enable")
    /\ UNCHANGED <<port, stranded, connected, running, reader, snapshot, answers, events,
                   retryOn, attachFailed, notified, unloads>>

EnableReturns_WatchesOnlySuccess ==
    /\ call = "return" /\ caller = "enable"
    /\ retryOn' = connected
    /\ attachFailed' = ~connected
    /\ notified' = IF connected THEN "up" ELSE "down"
    /\ call' = "idle"
    /\ UNCHANGED <<link, events, kernelEnabled, caller, unloads>>

EnableReturns ==
    /\ call = "return" /\ caller = "enable"
    /\ retryOn' = TRUE
    /\ attachFailed' = ~connected
    /\ notified' = IF connected THEN "up" ELSE "down"
    /\ call' = "idle"
    /\ UNCHANGED <<link, events, kernelEnabled, caller, unloads>>

(* applyKernelEnabled(false): stop().  With a reader thread stop() cancels *)
(* its I/O and waits for it before it closes the port.                     *)
Disable_ClosesPortFirst ==
    /\ call = "idle" /\ kernelEnabled
    /\ kernelEnabled' = FALSE /\ retryOn' = FALSE /\ attachFailed' = FALSE
    /\ running' = FALSE
    /\ ClosePort
    /\ draining' = FALSE
    /\ IF reader = "none" THEN notified' = "down" /\ queue' = 0 /\ UNCHANGED call
                          ELSE call' = "join" /\ UNCHANGED <<notified, queue>>
    /\ UNCHANGED <<driver, config, stranded, reader, snapshot, answers, more, caller,
                   unloads>>

Disable ==
    /\ call = "idle" /\ kernelEnabled
    /\ kernelEnabled' = FALSE /\ retryOn' = FALSE /\ attachFailed' = FALSE
    /\ running' = FALSE
    /\ draining' = FALSE
    /\ IF reader = "none"
       THEN ClosePort /\ queue' = 0 /\ notified' = "down" /\ UNCHANGED call
       ELSE call' = "join" /\ UNCHANGED <<port, connected, queue, notified>>
    /\ UNCHANGED <<driver, config, stranded, reader, snapshot, answers, more, caller,
                   unloads>>

Join_LeavesQueue ==
    /\ call = "join" /\ reader = "done"
    /\ ClosePort
    /\ reader' = "none"
    /\ notified' = "down"
    /\ call' = "idle"
    /\ UNCHANGED <<driver, config, stranded, running, snapshot, answers, events,
                   kernelEnabled, retryOn, attachFailed, caller, unloads>>

Join ==
    /\ call = "join" /\ reader = "done"
    /\ ClosePort
    /\ reader' = "none" /\ queue' = 0
    /\ notified' = "down"
    /\ call' = "idle"
    /\ UNCHANGED <<driver, config, stranded, running, snapshot, answers, draining, more,
                   kernelEnabled, retryOn, attachFailed, caller, unloads>>

(* The reader did not leave within 6 s: its thread, its Impl with the      *)
(* queue and its port handle are left behind and a default Impl takes      *)
(* their place.                                                            *)
Abandon ==
    /\ ReaderMayHang
    /\ call = "join" /\ reader = "reading"
    /\ stranded' = (stranded \/ port = "live")
    /\ ClosePort
    /\ running' = FALSE /\ reader' = "none" /\ snapshot' = FALSE /\ queue' = 0
    /\ notified' = "down"
    /\ call' = "idle"
    /\ caps' = {}
    /\ UNCHANGED <<driver, config, warned, draining, more, kernelEnabled, retryOn,
                   attachFailed, caller, unloads>>

(* onKernelRetry.                                                          *)
RetryConnected ==
    /\ call = "idle" /\ retryOn /\ connected
    /\ attachFailed' = FALSE
    /\ notified' = "up"
    /\ UNCHANGED <<link, events, kernelEnabled, retryOn, call, caller, unloads>>

RetryAttach_NoNotice ==
    /\ call = "idle" /\ retryOn /\ ~connected
    /\ attachFailed' = TRUE
    /\ EnsureLoaded
    /\ EnterStart("retry")
    /\ UNCHANGED <<port, stranded, connected, running, reader, snapshot, answers, events,
                   kernelEnabled, retryOn, notified, unloads>>

RetryAttach ==
    /\ call = "idle" /\ retryOn /\ ~connected
    /\ attachFailed' = TRUE
    /\ notified' = "down"
    /\ EnsureLoaded
    /\ EnterStart("retry")
    /\ UNCHANGED <<port, stranded, connected, running, reader, snapshot, answers, events,
                   kernelEnabled, retryOn, unloads>>

RetryReturns ==
    /\ call = "return" /\ caller = "retry"
    /\ IF connected THEN attachFailed' = FALSE /\ notified' = "up"
                    ELSE UNCHANGED <<attachFailed, notified>>
    /\ call' = "idle"
    /\ UNCHANGED <<link, events, kernelEnabled, retryOn, caller, unloads>>

(* drain(), from its timer or posted by itself: a batch under the lock,    *)
(* then the handlers of its events, one after the other.                   *)
Drain ==
    /\ call = "idle" /\ (draining \/ more)
    /\ queue' = IF queue > MaxPerDrain THEN queue - MaxPerDrain ELSE 0
    /\ more' = (queue' > 0)
    /\ UNCHANGED <<link, draining, switch, call, caller, unloads>>

---------------------------------------------------------------------------
(* The reader has a message: buildAndQueue, which drops it when the queue  *)
(* is full, and the loop's condition again.  A message may be under way    *)
(* when stop() has cleared "running" already.                              *)
ReaderQueues ==
    /\ reader = "reading" /\ port = "live"
    /\ queue' = IF queue < QueueMax THEN queue + 1 ELSE queue
    /\ IF running THEN UNCHANGED <<reader, connected>>
                  ELSE reader' = "done" /\ connected' = FALSE
    /\ UNCHANGED <<driver, config, port, stranded, running, snapshot, answers, draining, more,
                   switch, call, caller, unloads>>

(* The reader thread leaves its loop when FilterGetMessage fails: because  *)
(* the connection is gone or stop() cancelled the I/O, or for a reason of  *)
(* its own, while driver and port are there.  It does not touch "running". *)
LeavesLoop ==
    /\ reader' = "done"
    /\ connected' = FALSE
    /\ UNCHANGED <<driver, config, port, stranded, running, snapshot, answers, events,
                   switch, call, caller, unloads>>

ReaderExits == reader = "reading" /\ (port = "dead" \/ ~running) /\ LeavesLoop

ReaderFails == reader = "reading" /\ port = "live" /\ running /\ LeavesLoop

(* Others unload the driver: every connection to it is torn down.          *)
ExternalUnload ==
    /\ driver # "none" /\ unloads < MaxUnloads
    /\ driver' = "none" /\ config' = Unconfigured
    /\ port' = IF port = "live" THEN "dead" ELSE port
    /\ stranded' = FALSE
    /\ unloads' = unloads + 1
    /\ UNCHANGED <<connected, running, reader, snapshot, answers, events, switch, call,
                   caller>>

---------------------------------------------------------------------------
Init ==
    /\ driver \in {"none"} \union Drivers
    /\ config = Unconfigured
    /\ caps = {} /\ warned = {}
    /\ port = "none" /\ stranded = FALSE
    /\ connected = FALSE /\ running = FALSE
    /\ reader = "none" /\ snapshot = TRUE
    /\ queue = 0 /\ draining = FALSE /\ more = FALSE
    /\ call = "idle" /\ caller = "enable"
    /\ kernelEnabled = FALSE /\ retryOn = FALSE /\ attachFailed = FALSE
    /\ notified = "unknown"
    /\ unloads = 0

Retry == RetryConnected \/ RetryAttach

(* What the main thread does once it is inside start() or stop().          *)
InCall ==
    \/ Connect \/ Handshake \/ PushConfig
    \/ EnableReturns \/ RetryReturns
    \/ Join \/ Abandon

Next ==
    \/ Enable \/ Disable
    \/ Retry
    \/ InCall
    \/ Drain
    \/ ReaderQueues \/ ReaderExits \/ ReaderFails
    \/ ExternalUnload

(* start() and stop() go on, the timer fires, a failed read returns; and a *)
(* driver that can be loaded is loaded if it is tried for ever.            *)
Fairness ==
    /\ WF_vars(InCall)
    /\ WF_vars(Retry)
    /\ WF_vars(ReaderExits)
    /\ SF_vars(RetryAttach /\ driver' \in Speaks)

Spec == Init /\ [][Next]_vars
FairSpec == Spec /\ Fairness
---------------------------------------------------------------------------
(* Properties.                                                             *)

ConfigTypes ==
    /\ config \in [Dim -> {"none", "part", "full", "empty"}]
    /\ caps \subseteq Probed /\ warned \subseteq Dim

LinkTypes ==
    /\ driver \in {"none", "good", "stale", "old"} /\ ConfigTypes
    /\ port \in {"none", "live", "dead"} /\ stranded \in BOOLEAN
    /\ connected \in BOOLEAN /\ running \in BOOLEAN
    /\ reader \in {"none", "reading", "done"} /\ snapshot \in BOOLEAN
    /\ queue \in Nat /\ draining \in BOOLEAN /\ more \in BOOLEAN
    /\ call \in {"idle", "connect", "handshake", "config", "return", "join"}
    /\ caller \in {"enable", "retry"}
    /\ kernelEnabled \in BOOLEAN /\ retryOn \in BOOLEAN /\ attachFailed \in BOOLEAN
    /\ notified \in {"unknown", "up", "down"}

(* Every variable has its type.                                            *)
TypeOK == LinkTypes /\ unloads \in 0..MaxUnloads /\ queue \in 0..QueueMax

(* stop() never closes the handle a reader thread still uses: the number   *)
(* could be given to another object.                                       *)
ReaderHasPort == reader = "reading" => port # "none"

(* Events are never read from a driver whose message layout was refused.   *)
OnlyMatchingDriver == running /\ port = "live" => driver \in Speaks

(* A driver the service reads events from holds the whole configuration    *)
(* but for the kinds a send failed of since this connection began, however *)
(* often it was unloaded, reloaded, replaced by an older one, switched off *)
(* and on before -- after an abandoned reader, whose successor has no      *)
(* lists, the empty one.  And the settings page is not told of a kind of   *)
(* protection that the driver there does not know (missingCapabilities).   *)
ConfiguredWhileLive ==
    running /\ port = "live" =>
        /\ \A d \in Dim \ warned : config[d] = Complete
        /\ caps \subseteq Known

(* Switched off and idle: the port is free for an unload or a reload, no   *)
(* thread is left to join, the watchdog is off, and no event waits that a  *)
(* posted drain() or the next start() would hand on after the stop -- also *)
(* none that the reader queued while stop() waited for it.                 *)
DisabledIsDetached ==
    call = "idle" /\ ~kernelEnabled =>
        /\ port = "none" /\ ~connected
        /\ reader = "none" /\ ~running
        /\ ~retryOn
        /\ queue = 0 /\ ~draining

(* To the rest of the service the connection begins when the handshake has *)
(* been passed and ends when stop() clears "running": the ports of a       *)
(* refused handshake and of a reader that is being joined are not one.     *)
Attached == running \/ call = "config"

KL == INSTANCE KernelLink WITH
        on <- kernelEnabled, loaded <- driver # "none",
        state <- IF ~Attached THEN "none"
                 ELSE IF port = "live" /\ reader # "done" THEN "live" ELSE "lost"

LinkSpec == KL!Spec

(* A connection that is lost is put on record: the audit does not go on    *)
(* showing the kernel as connected.                                        *)
OutageReported ==
    (kernelEnabled /\ running /\ ~connected) ~> (notified = "down" \/ ~kernelEnabled)

(* A first connection that failed is retried until it succeeds, unless the *)
(* driver that is loaded stays one the handshake refuses.                  *)
FirstAttachHeals ==
    ~<>[](kernelEnabled /\ ~running /\ ~stranded /\ driver # "old")

(* onKernelRetry's comment: whether it never connected or was cut off      *)
(* half-way, the same path heals both.                                     *)
(* Not so: README, section 6.                                              *)
DropHeals == ~<>[](kernelEnabled /\ ~connected /\ ~stranded)

(* Capabilities' comment: for each class of newer commands it is recorded  *)
(* whether the driver took them, and what is missing is reported.          *)
(* Not so: README, section 6.                                              *)
GapsAreReported ==
    running /\ port = "live" => \A d \in Probed : config[d] = "part" => d \notin caps
=============================================================================
