------------------------- MODULE ProtectionLifetime -------------------------
(***************************************************************************)
(* "Protection follows the UI": main.cpp decides, from the setting and the *)
(* number of connected UIs, whether the service protects or stands by;     *)
(* EventSourceCoordinator carries the decision out on the kernel driver,   *)
(* the event sources and the file locks (ExecBlock, instantiated here).    *)
(*                                                                         *)
(* The main thread runs one handler at a time and a handler takes seconds  *)
(* (fltmc, sc), so it is a sequence of steps "todo".  Between two steps    *)
(* run the sweep thread, the rest of the machine, and the process's end.   *)
(* DriverLink models the connection itself; here it is "none", "live" or   *)
(* "lost" (cut off while its reader was running).                          *)
(***************************************************************************)
EXTENDS Sequences, Naturals, FiniteSets

CONSTANTS
    EventSourceIsDriver,  \* appsettings EventSource = "Driver"
    FirstFollows,         \* protectionFollowsUi before the first run
    ProcessEnds,          \* the process may end, or be ended, at any point
    MaxClients,           \* bound on connected UIs
    MaxPosts,             \* bound on deferred clientCountChanged handlers
    MaxHits,              \* bound on hits of the sweep that wait
    Needle, File, Targets, Refused, MaxEntries, SaveFaults  \* of ExecBlock

ASSUME LifetimeAssumption ==
    /\ {EventSourceIsDriver, ProcessEnds} \subseteq BOOLEAN
    /\ FirstFollows \subseteq BOOLEAN
    /\ {MaxClients, MaxPosts, MaxHits} \subseteq Nat
    /\ Targets \in [Needle -> SUBSET File] /\ IsFiniteSet(Needle)
    /\ Refused \subseteq File
    /\ MaxEntries \in Nat \ {0}
    /\ SaveFaults \subseteq {"kept", "removed"}

VARIABLES
    up,             \* the service process runs
    todo,           \* what is left of the handler the main thread is in
    followsUi, kernelSetting,      \* settings, saved when they change
    clients,        \* buffers_.size()
    posts,          \* singleShot(0) calls waiting: their "n > 0"
    grace,          \* standByTimer is active
    suspended, started,            \* suspended_, started_
    kernelEnabled, wantOnResume,   \* kernelEnabled_, kernelWantedBeforeSuspend_
    workerOff,      \* protectionSuspended_
    driver,         \* Bulwark.sys: "unloaded", "loaded"
    link,           \* "none", "live", "lost"
    opened,         \* driver_ exists: the switch was on in this process
    sweep,          \* the sweep thread: "off", "idle", "scanning"
    hits,           \* handleSweptMalicious calls queued for the main thread
    execList, handles, leaked, lockSuspended, manifest, \* UserModeExecBlock
    present,        \* the files it may lock that exist
    keep,           \* entries a reconciliation has cleared and not yet resent
    apart           \* the last save failed, or there is a record it did not read

settings == <<followsUi, kernelSetting>>
ui == <<clients, posts, grace>>
switch == <<suspended, started, kernelEnabled, wantOnResume, workerOff>>
kernel == <<driver, link, opened>>
scan == <<sweep, hits>>
locks == <<execList, handles, leaked, lockSuspended, manifest, present>>
amends == <<keep, apart>>
vars == <<up, todo, settings, ui, switch, kernel, scan, locks, amends>>

EB == INSTANCE ExecBlock WITH
        phase <- "started", suspended <- lockSuspended, moduleList <- {},
        foreign <- {}

Idle == up /\ todo = <<>>

---------------------------------------------------------------------------
(* The decision (applyProtectionLifetime).                                 *)

ProtectionWanted == ~followsUi \/ clients > 0

GoToStandby == <<"worker off", "detach", "unload", "release">>
WakeUp == <<"rearm", "start", "attach", "worker on", "reconcile", "resend">>

Decide_NeverStartsTimer(immediate, rest, timer) ==
    /\ todo' = (IF ProtectionWanted = ~suspended THEN <<>>
                ELSE IF ProtectionWanted THEN WakeUp
                ELSE IF immediate THEN GoToStandby
                ELSE <<>>) \o rest
    /\ grace' = (timer /\ ~suspended /\ ~ProtectionWanted)

(* "timer": whether the grace timer runs when the decision is called.  It  *)
(* is stopped unless standby is wanted and has not begun.                  *)
Decide(immediate, rest, timer) ==
    /\ todo' = (IF ProtectionWanted = ~suspended THEN <<>>
                ELSE IF ProtectionWanted THEN WakeUp
                ELSE IF immediate THEN GoToStandby
                ELSE <<>>) \o rest
    /\ grace' = (/\ ~suspended /\ ~ProtectionWanted
                 /\ timer \/ ~immediate)

---------------------------------------------------------------------------
(* The kernel switch.                                                      *)

(* ensureLoaded and start(): the load may fail, and so may the connection. *)
(* A link that was lost keeps start() from connecting again (DriverLink).  *)
Attach ==
    /\ driver' \in {driver, "loaded"}
    /\ link' \in IF driver' = "loaded" /\ link = "none" THEN {"none", "live"}
                                                        ELSE {link}

ApplyKernelEnabled(on) ==
    /\ kernelEnabled' = on
    /\ IF on = kernelEnabled THEN UNCHANGED kernel
       ELSE IF on THEN Attach /\ opened' = TRUE
       ELSE link' = "none" /\ UNCHANGED <<driver, opened>>

SetKernelEnabled(on) ==
    IF suspended THEN wantOnResume' = on /\ UNCHANGED <<kernelEnabled, kernel>>
                 ELSE ApplyKernelEnabled(on) /\ UNCHANGED wantOnResume

KernelInitial == EventSourceIsDriver \/ kernelSetting

---------------------------------------------------------------------------
(* The steps of the main thread's handlers.                                *)

Step(name) == up /\ todo # <<>> /\ Head(todo) = name

WorkerOff ==
    /\ Step("worker off") /\ todo' = Tail(todo)
    /\ workerOff' = TRUE
    /\ UNCHANGED <<up, settings, ui, suspended, started, kernelEnabled, wantOnResume,
                   kernel, scan, locks, amends>>

WorkerOn ==
    /\ Step("worker on") /\ todo' = Tail(todo)
    /\ workerOff' = FALSE
    /\ UNCHANGED <<up, settings, ui, suspended, started, kernelEnabled, wantOnResume,
                   kernel, scan, locks, amends>>

(* setSuspended(true), as far as the port.                                 *)
Detach ==
    /\ Step("detach") /\ todo' = Tail(todo)
    /\ suspended' = TRUE
    /\ wantOnResume' = kernelEnabled
    /\ ApplyKernelEnabled(FALSE)
    /\ UNCHANGED <<up, settings, ui, started, workerOff, scan, locks, amends>>

(* tryStop, which may fail, only if the kernel switch was on.              *)
Unload ==
    /\ Step("unload") /\ todo' = Tail(todo)
    /\ driver' \in IF wantOnResume THEN {driver, "unloaded"} ELSE {driver}
    /\ UNCHANGED <<up, settings, ui, switch, link, opened, scan, locks, amends>>

(* The sources stop, and the locks are released.                           *)
Release_KeepsStarted ==
    /\ Step("release") /\ todo' = Tail(todo)
    /\ IF lockSuspended THEN UNCHANGED locks ELSE EB!Suspend
    /\ UNCHANGED <<up, settings, ui, switch, kernel, scan, amends>>

Release ==
    /\ Step("release") /\ todo' = Tail(todo)
    /\ started' = FALSE
    /\ IF lockSuspended THEN UNCHANGED locks ELSE EB!Suspend
    /\ UNCHANGED <<up, settings, ui, suspended, kernelEnabled, wantOnResume, workerOff,
                   kernel, scan, amends>>

(* setSuspended(false): first the locks,                                   *)
Rearm ==
    /\ Step("rearm") /\ todo' = Tail(todo)
    /\ suspended' = FALSE
    /\ IF lockSuspended THEN EB!Resume ELSE UNCHANGED locks
    /\ UNCHANGED <<up, settings, ui, started, kernelEnabled, wantOnResume, workerOff,
                   kernel, scan, amends>>

(* then start(): the sources, and replay() of the recorded list, which may *)
(* find a record it cannot read,                                           *)
Start_SourcesOnly ==
    /\ Step("start") /\ todo' = Tail(todo)
    /\ started' = TRUE
    /\ UNCHANGED <<up, settings, ui, suspended, kernelEnabled, wantOnResume, workerOff,
                   kernel, scan, locks, amends>>

Start ==
    /\ Step("start") /\ todo' = Tail(todo)
    /\ started' = TRUE
    /\ IF started
       THEN UNCHANGED <<locks, apart>>
       ELSE /\ \/ EB!ReplayFrom(handles) /\ UNCHANGED apart
               \/ EB!ReplayFails /\ apart' = (apart \/ ~(manifest.exec \subseteq execList))
            /\ UNCHANGED <<lockSuspended, manifest, present>>
    /\ UNCHANGED <<up, settings, ui, suspended, kernelEnabled, wantOnResume, workerOff,
                   kernel, scan, keep>>

(* then the driver, if it was wanted.                                      *)
AttachOnWake ==
    /\ Step("attach") /\ todo' = Tail(todo)
    /\ IF wantOnResume THEN ApplyKernelEnabled(TRUE)
                       ELSE UNCHANGED <<kernelEnabled, kernel>>
    /\ UNCHANGED <<up, settings, ui, suspended, started, wantOnResume, workerOff, scan,
                   locks, amends>>

(* setKernelEnabled, at start-up or after a change of the settings.        *)
KernelSwitch ==
    /\ Step("kernel at start") \/ Step("kernel setting")
    /\ todo' = Tail(todo)
    /\ IF Step("kernel setting") THEN SetKernelEnabled(kernelSetting)
       ELSE IF KernelInitial THEN SetKernelEnabled(TRUE)
       ELSE UNCHANGED <<kernelEnabled, wantOnResume, kernel>>
    /\ UNCHANGED <<up, settings, ui, suspended, started, workerOff, scan, locks, amends>>

(* setKernelWantedOnResume, after a start into standby.                    *)
RecordWanted ==
    /\ Step("kernel wanted") /\ todo' = Tail(todo)
    /\ wantOnResume' = KernelInitial
    /\ UNCHANGED <<up, settings, ui, suspended, started, kernelEnabled, workerOff,
                   kernel, scan, locks, amends>>

StartSweep ==
    /\ Step("sweep") /\ todo' = Tail(todo)
    /\ sweep' = "idle"
    /\ UNCHANGED <<up, settings, ui, switch, kernel, hits, locks, amends>>

Align ==
    /\ Step("align")
    /\ Decide(TRUE, Tail(todo), grace)
    /\ UNCHANGED <<up, settings, clients, posts, switch, kernel, scan, locks, amends>>

(* The end of handleSweptMalicious: remediation quarantines a file of the  *)
(* process tree, freed first, or fails to, or declines.                    *)
Remediate ==
    /\ Step("remediate") /\ todo' = Tail(todo)
    /\ \/ UNCHANGED <<handles, present>>
       \/ \E f \in present :
            /\ handles' = EB!Release(handles, {n \in Needle : f \in handles[n]})
            /\ present' \in {present, present \ ({f} \ leaked)}
    /\ UNCHANGED <<execList, leaked, lockSuspended, manifest>>
    /\ UNCHANGED <<up, settings, ui, switch, kernel, scan, amends>>

(* reconcileKernelBlocksAfterTrust, for the list of blocked images: of the *)
(* entries of both lists -- the driver's is read from its record in the    *)
(* registry, once there is a driver_ -- those that a trusted path contains *)
(* are taken out by clearing both lists and sending the others again.      *)
Written == manifest' = [exec |-> execList', module |-> {}]

Reconcile(trusted) ==
    /\ Step("reconcile") /\ todo' = Tail(todo)
    /\ \E recorded \in SUBSET (IF opened THEN Needle ELSE {}) :
         LET seen == execList \union recorded
         IN  IF seen \intersect trusted = {}
             THEN UNCHANGED <<locks, amends>>
             ELSE EB!ClearList(TRUE) /\ apart' = ~Written /\ keep' = seen \ trusted
    /\ UNCHANGED <<up, settings, ui, switch, kernel, scan>>

(* blockExecPath: to the driver while it is connected, else to the locks.  *)
Block(n) ==
    \/ link = "live" /\ UNCHANGED <<locks, apart>>
    \/ link # "live" /\ EB!AddEntry(n, TRUE) /\ apart' = ~Written
    \/ link # "live" /\ EB!RefuseEntry(n) /\ UNCHANGED apart

Resend ==
    /\ Step("resend")
    /\ \/ keep = {} /\ todo' = Tail(todo) /\ UNCHANGED <<locks, amends>>
       \/ \E n \in keep : Block(n) /\ keep' = keep \ {n} /\ UNCHANGED todo
    /\ UNCHANGED <<up, settings, ui, switch, kernel, scan>>

Work ==
    \/ WorkerOff \/ WorkerOn \/ Detach \/ Unload \/ Release
    \/ Rearm \/ Start \/ AttachOnWake \/ KernelSwitch \/ RecordWanted
    \/ StartSweep \/ Align \/ Remediate
    \/ (\E trusted \in SUBSET Needle : Reconcile(trusted)) \/ Resend

---------------------------------------------------------------------------
(* The handlers.                                                           *)

(* main(): no event is processed before exec(), so no UI is connected when *)
(* start-up decides.                                                       *)
Boot_WantedBeforeSuspend ==
    /\ ~up
    /\ up' = TRUE
    /\ todo' = IF followsUi
               THEN <<"kernel wanted", "detach", "unload", "release",
                      "reconcile", "resend", "sweep", "align">>
               ELSE <<"start", "kernel at start", "reconcile", "resend", "sweep", "align">>
    /\ UNCHANGED <<settings, ui, switch, kernel, scan, locks, amends>>

Boot ==
    /\ ~up
    /\ up' = TRUE
    /\ todo' = IF followsUi
               THEN <<"detach", "unload", "release", "kernel wanted",
                      "reconcile", "resend", "sweep", "align">>
               ELSE <<"start", "kernel at start", "reconcile", "resend", "sweep", "align">>
    /\ UNCHANGED <<settings, ui, switch, kernel, scan, locks, amends>>

(* onNewConnection and onDisconnected defer the decision.                  *)
CountChanged_OnlyWhenGone(n) ==
    /\ Idle
    /\ Len(posts) < MaxPosts
    /\ clients' = n
    /\ posts' = IF n = 0 THEN Append(posts, FALSE) ELSE posts
    /\ UNCHANGED <<up, todo, settings, grace, switch, kernel, scan, locks, amends>>

CountChanged(n) ==
    /\ Idle
    /\ Len(posts) < MaxPosts
    /\ clients' = n
    /\ posts' = Append(posts, n > 0)
    /\ UNCHANGED <<up, todo, settings, grace, switch, kernel, scan, locks, amends>>

Connect == clients < MaxClients /\ CountChanged(clients + 1)
Disconnect == clients > 0 /\ CountChanged(clients - 1)

PostedDecision ==
    /\ Idle
    /\ posts # <<>>
    /\ posts' = Tail(posts)
    /\ Decide(Head(posts), <<>>, grace)
    /\ UNCHANGED <<up, settings, clients, switch, kernel, scan, locks, amends>>

GraceEnds_StartsOver ==
    /\ Idle
    /\ grace
    /\ Decide(FALSE, <<>>, FALSE)
    /\ UNCHANGED <<up, settings, clients, posts, switch, kernel, scan, locks, amends>>

(* The single-shot timer is over when its handler decides.                 *)
GraceEnds ==
    /\ Idle
    /\ grace
    /\ Decide(TRUE, <<>>, FALSE)
    /\ UNCHANGED <<up, settings, clients, posts, switch, kernel, scan, locks, amends>>

(* A connected UI saves its settings.                                      *)
SettingsUpdated(f, k) ==
    /\ Idle
    /\ clients > 0
    /\ followsUi' = f /\ kernelSetting' = k
    /\ todo' = <<"kernel setting", "align">>
    /\ UNCHANGED <<up, ui, switch, kernel, scan, locks, amends>>

(* A connected UI trusts a program or a folder (trustAddedHook).           *)
TrustAdded ==
    /\ Idle
    /\ clients > 0
    /\ todo' = <<"reconcile", "resend">>
    /\ UNCHANGED <<up, settings, ui, switch, kernel, scan, locks, amends>>

(* onKernelRetry.                                                          *)
Watchdog ==
    /\ Idle
    /\ kernelEnabled /\ link # "live"
    /\ Attach
    /\ UNCHANGED <<up, todo, settings, ui, switch, opened, scan, locks, amends>>

(* handleSweptMalicious: the process is killed, its image blocked by the   *)
(* driver or else by a lock, and then remediated.                          *)
HandleHit(n) ==
    /\ Idle
    /\ n \in hits
    /\ hits' = hits \ {n}
    /\ Block(n)
    /\ todo' = <<"remediate">>
    /\ UNCHANGED <<up, settings, ui, switch, kernel, sweep, keep>>

RetryLocks ==
    /\ Idle
    /\ EB!Rearm
    /\ UNCHANGED <<up, todo, settings, ui, switch, kernel, scan, amends>>

---------------------------------------------------------------------------
(* The sweep thread reads the flags once per round.                        *)

SweepBegins ==
    /\ sweep = "idle" /\ ~workerOff
    /\ sweep' = "scanning"
    /\ UNCHANGED <<up, todo, settings, ui, switch, kernel, hits, locks, amends>>

SweepFinds(n) ==
    /\ sweep = "scanning"
    /\ Cardinality(hits) < MaxHits
    /\ hits' = hits \union {n}
    /\ UNCHANGED <<up, todo, settings, ui, switch, kernel, sweep, locks, amends>>

SweepEnds ==
    /\ sweep = "scanning"
    /\ sweep' = "idle"
    /\ UNCHANGED <<up, todo, settings, ui, switch, kernel, hits, locks, amends>>

(* Others unload the driver.                                               *)
DriverVanishes ==
    /\ driver = "loaded"
    /\ driver' = "unloaded"
    /\ link' = IF link = "live" THEN "lost" ELSE link
    /\ UNCHANGED <<up, todo, settings, ui, switch, opened, scan, locks, amends>>

(* The reader's call fails although the driver is there.                   *)
LinkBreaks ==
    /\ link = "live"
    /\ link' = "lost"
    /\ UNCHANGED <<up, todo, settings, ui, switch, driver, opened, scan, locks, amends>>

FileReappears(f) ==
    /\ EB!FileAppears(f)
    /\ UNCHANGED <<up, todo, settings, ui, switch, kernel, scan, amends>>

(* The process ends: its memory, its handles and its connection go.        *)
ProcessEnd ==
    /\ ProcessEnds /\ up
    /\ up' = FALSE /\ todo' = <<>>
    /\ clients' = 0 /\ posts' = <<>> /\ grace' = FALSE
    /\ suspended' = FALSE /\ started' = FALSE
    /\ kernelEnabled' = FALSE /\ wantOnResume' = FALSE /\ workerOff' = FALSE
    /\ link' = "none" /\ opened' = FALSE /\ sweep' = "off" /\ hits' = {}
    /\ keep' = {} /\ apart' = FALSE
    /\ execList' = {} /\ handles' = EB!NoHandles /\ leaked' = {} /\ lockSuspended' = FALSE
    /\ UNCHANGED <<settings, driver, manifest, present>>

---------------------------------------------------------------------------
Init ==
    /\ up = FALSE /\ todo = <<>>
    /\ followsUi \in FirstFollows /\ kernelSetting \in BOOLEAN
    /\ clients = 0 /\ posts = <<>> /\ grace = FALSE
    /\ suspended = FALSE /\ started = FALSE
    /\ kernelEnabled = FALSE /\ wantOnResume = FALSE /\ workerOff = FALSE
    /\ driver = "unloaded" /\ link = "none" /\ opened = FALSE
    /\ keep = {} /\ apart = FALSE
    /\ sweep = "off" /\ hits = {}
    /\ execList = {} /\ handles = EB!NoHandles /\ leaked = {} /\ lockSuspended = FALSE
    /\ manifest = [exec |-> {}, module |-> {}] /\ present = File

Next ==
    \/ Boot
    \/ Work
    \/ Connect \/ Disconnect
    \/ PostedDecision
    \/ GraceEnds
    \/ \E f, k \in BOOLEAN : SettingsUpdated(f, k)
    \/ TrustAdded
    \/ Watchdog
    \/ \E n \in Needle : HandleHit(n)
    \/ RetryLocks
    \/ SweepBegins \/ (\E n \in Needle : SweepFinds(n)) \/ SweepEnds
    \/ DriverVanishes \/ LinkBreaks
    \/ \E f \in File : FileReappears(f)
    \/ ProcessEnd

(* A handler runs to its end, and the event loop serves a posted call and  *)
(* an expired timer however many other events there are.                   *)
Fairness ==
    /\ WF_vars(Work)
    /\ SF_vars(PostedDecision)
    /\ SF_vars(GraceEnds)

Spec == Init /\ [][Next]_vars
FairSpec == Spec /\ Fairness
---------------------------------------------------------------------------
(* Properties.                                                             *)

(* Every variable has its type.                                            *)
TypeOK ==
    /\ up \in BOOLEAN /\ followsUi \in BOOLEAN /\ kernelSetting \in BOOLEAN
    /\ todo \in Seq({"worker off", "worker on", "detach", "unload", "release", "rearm",
                     "start", "attach", "kernel at start", "kernel setting",
                     "kernel wanted", "sweep", "align", "remediate", "reconcile",
                     "resend"})
    /\ clients \in 0..MaxClients /\ grace \in BOOLEAN
    /\ posts \in Seq(BOOLEAN) /\ Len(posts) <= MaxPosts
    /\ suspended \in BOOLEAN /\ started \in BOOLEAN /\ workerOff \in BOOLEAN
    /\ kernelEnabled \in BOOLEAN /\ wantOnResume \in BOOLEAN
    /\ driver \in {"unloaded", "loaded"} /\ link \in {"none", "live", "lost"}
    /\ opened \in BOOLEAN /\ keep \subseteq Needle /\ apart \in BOOLEAN
    /\ sweep \in {"off", "idle", "scanning"} /\ hits \subseteq Needle
    /\ EB!TypeOK

(* However connects, disconnects, settings and timers interleave, once the *)
(* event loop has nothing left to do the service stands by exactly when it *)
(* was asked to follow a UI that is not there.                             *)
Settled ==
    Idle /\ posts = <<>> /\ ~grace => suspended = ~ProtectionWanted

(* The four parts a switch goes through agree after it: in standby no      *)
(* source, no port, no watchdog and no retry of locks runs; out of it the  *)
(* sources, the locks and the worker all do.                               *)
SwitchedTogether ==
    Idle => IF suspended
            THEN ~started /\ ~kernelEnabled /\ link = "none" /\ lockSuspended
            ELSE started /\ ~lockSuspended /\ ~workerOff

(* setKernelEnabled's comment: changing a setting during standby must not  *)
(* bring Bulwark.sys back, and nothing else does either.                   *)
NoLoadInStandby ==
    [][suspended /\ suspended' => (driver' = "loaded" => driver = "loaded")]_vars

(* The link is taken for no more than DriverLink gives: both implement     *)
(* KernelLink.                                                             *)
KL == INSTANCE KernelLink WITH
        on <- kernelEnabled, loaded <- driver = "loaded", state <- link

LinkSpec == KL!Spec

(* The user's choice of the kernel driver survives standby, a start into   *)
(* standby, changes made in standby, and restarts.                         *)
KernelIntentKept ==
    ~EventSourceIsDriver /\ Idle /\ ~suspended => kernelEnabled = kernelSetting

(* While the service protects, the blocked files it has on record are the  *)
(* ones listed, whatever standby, restarts, hits and reconciliations came  *)
(* before, and also when the first wake-up follows a start into standby -- *)
(* unless the last save failed or the record could not be read.            *)
ListInForce ==
    Idle /\ ~suspended /\ ~apart => manifest.exec = execList

(* A UI that stays connected gets protection.                              *)
WakesUp == (up /\ clients > 0 /\ suspended) ~> (~suspended \/ clients = 0)

(* A UI that is gone for good takes protection with it.                    *)
StandsBy ==
    (up /\ followsUi /\ clients = 0) ~> (suspended \/ clients > 0 \/ ~up)

(* UserModeExecBlock is the only holder of its handles, so that remediation *)
(* and standby can always let go of a file.                                *)
(* Not so: README, section 6.                                              *)
HandlesOwned == EB!NoOrphanLock

(* setSuspended's comment: the saved list is left alone in standby, and    *)
(* what was found malicious is not dropped because of one.                 *)
(* Not so: README, section 6.                                              *)
RecordKept == [][manifest.exec \subseteq manifest'.exec]_vars

(* Out of standby, where saves succeed and the record was read, a file is  *)
(* taken off the record for good only because it is trusted; one that is   *)
(* cleared to be sent again is listed again, or the driver has been told,  *)
(* or the table is full of others, or the process ends before its turn.    *)
RecordGrowsInProtection ==
    [][~suspended /\ ~apart /\ ~apart' =>
         \A n \in (manifest.exec \union keep) \ (manifest'.exec \union keep') :
            \/ \E trusted \in SUBSET Needle : Reconcile(trusted) /\ n \in trusted
            \/ n \in keep /\ (link = "live" \/ ~EB!HasRoomFor(n) \/ ~up')]_vars

(* protectionSummary: standby means that nothing new is disposed of.       *)
(* Not so: README, section 6.                                              *)
StandbyDisposesNothing == [][\A n \in Needle : HandleHit(n) => ~suspended]_vars
=============================================================================
