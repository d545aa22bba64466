----------------------------- MODULE EventRing ------------------------------
(***************************************************************************)
(* How events leave the driver (Comms.c): callbacks put them into a ring,  *)
(* one thread takes them out and sends them to the service, the service    *)
(* connects and leaves, and the driver is loaded and unloaded meanwhile.   *)
(*                                                                         *)
(* A step is one access to shared state, or what is done under RingLock.   *)
(* RingEvent is a synchronisation event: one wait consumes it.  The        *)
(* rundown protection of the port is up between ExReInitialize... and      *)
(* ExWait..., which lets nobody in and waits for who is inside.            *)
(*                                                                         *)
(* Not here: what an event says, what the service makes of it (DriverLink  *)
(* has the connection seen from there), and a callout of the network layer *)
(* that refuses the unload before anything is torn down.                   *)
(***************************************************************************)
EXTENDS Integers, Sequences, FiniteSets

CONSTANTS
    Registered,    \* callbacks for processes, images, threads, keys, handles
    FileCallbacks, \* those of the file system filter
    Cap,           \* BLW_EVENT_QUEUE_CAP
    MaxEvents      \* a bound on the events between a load and an unload

ASSUME RingAssumption ==
    /\ Registered \cap FileCallbacks = {}
    /\ IsFiniteSet(Registered \cup FileCallbacks)
    /\ Cap \in Nat \ {0, 1}
    /\ MaxEvents \in Nat

Callbacks == Registered \cup FileCallbacks
Index     == 0 .. Cap - 1

VARIABLES
    slots, head, tail,   \* EventRing, RingHead, RingTail
    allocated,           \* EventRing is not NULL
    nextId, dropped,     \* NextEventId, DroppedEvents
    idle, signal, stop,  \* SenderIdle, RingEvent, SenderStop
    callback,            \* where each callback is inside BlwReportEvent
    sender,              \* the sender thread: where it is, empty, its event
    handed,              \* history: the events it took out
    active, port,        \* Active, ClientPort
    guard, users,        \* ClientPortRundown: up, and who is inside
    client, link,        \* the service holds a handle; the port's callbacks
    driver, filtering    \* where loading and unloading are; the file filter runs

ring    == <<slots, head, tail, nextId>>
wakeups == <<idle, signal, stop>>
conn    == <<active, port, guard, client, link>>
load    == <<allocated, driver, filtering>>
vars    == <<ring, dropped, wakeups, callback, sender, handed, conn, users, load>>

NewSender == [at |-> "announce", empty |-> FALSE, event |-> 0]

\* The driver as it is loaded: globals are zero, and nobody is let near the port.
Init ==
    /\ slots = [i \in Index |-> 0] /\ head = 0 /\ tail = 0
    /\ nextId = 0 /\ dropped = 0
    /\ idle = FALSE /\ signal = FALSE /\ stop = FALSE
    /\ callback = [p \in Callbacks |-> "out"]
    /\ sender = NewSender
    /\ handed = <<>>
    /\ active = FALSE /\ port = "none" /\ guard = "down" /\ users = 0
    /\ client = FALSE /\ link = "still"
    /\ allocated = TRUE /\ driver = "queue" /\ filtering = FALSE

-----------------------------------------------------------------------------
(* BlwReportEvent.                                                          *)

\* Who may be called: the file filter from FltStartFiltering to
\* FltUnregisterFilter, the others from when they are registered, one after the
\* other, to when they are taken back.
MayRun(p) == IF p \in FileCallbacks THEN filtering ELSE driver \in {"register", "up"}

Reports == nextId + dropped + Cardinality({p \in Callbacks : callback[p] \in {"fill", "full"}})

\* Active and the ring are read without a lock.
Report(p) ==
    /\ callback[p] = "out"
    /\ MayRun(p)
    /\ active /\ allocated
    /\ Reports < MaxEvents
    /\ callback' = [callback EXCEPT ![p] = "fill"]
    /\ UNCHANGED <<ring, dropped, wakeups, sender, handed, conn, users, load>>

After(i) == (i + 1) % Cap

Fill_LastSlotToo(p) ==
    /\ callback[p] = "fill"
    /\ nextId' = nextId + 1
    /\ slots' = [slots EXCEPT ![head] = nextId + 1]
    /\ head' = After(head)
    /\ callback' = [callback EXCEPT ![p] = "wake"]
    /\ UNCHANGED <<tail, dropped, wakeups, sender, handed, conn, users, load>>

Fill(p) ==
    /\ callback[p] = "fill"
    /\ IF After(head) = tail
       THEN /\ callback' = [callback EXCEPT ![p] = "full"]
            /\ UNCHANGED <<slots, head, nextId>>
       ELSE /\ nextId' = nextId + 1
            /\ slots' = [slots EXCEPT ![head] = nextId + 1]
            /\ head' = After(head)
            /\ callback' = [callback EXCEPT ![p] = "wake"]
    /\ UNCHANGED <<tail, dropped, wakeups, sender, handed, conn, users, load>>

Count(p) ==
    /\ callback[p] = "full"
    /\ dropped' = dropped + 1
    /\ callback' = [callback EXCEPT ![p] = "out"]
    /\ UNCHANGED <<ring, wakeups, sender, handed, conn, users, load>>

Claim_WithoutWaking(p) ==
    /\ callback[p] = "wake"
    /\ idle' = FALSE
    /\ callback' = [callback EXCEPT ![p] = "out"]
    /\ UNCHANGED <<ring, dropped, signal, stop, sender, handed, conn, users, load>>

\* The compare-and-swap: who finds the sender idle has to wake it.
Claim(p) ==
    /\ callback[p] = "wake"
    /\ idle' = FALSE
    /\ callback' = [callback EXCEPT ![p] = IF idle THEN "set" ELSE "out"]
    /\ UNCHANGED <<ring, dropped, signal, stop, sender, handed, conn, users, load>>

Wake(p) ==
    /\ callback[p] = "set"
    /\ signal' = TRUE
    /\ callback' = [callback EXCEPT ![p] = "out"]
    /\ UNCHANGED <<ring, dropped, idle, stop, sender, handed, conn, users, load>>

-----------------------------------------------------------------------------
(* BlwSenderThread.                                                         *)

GoTo(next) == sender' = [sender EXCEPT !.at = next]

Announce ==
    /\ sender.at = "announce"
    /\ idle' = TRUE
    /\ GoTo("look")
    /\ UNCHANGED <<ring, dropped, signal, stop, callback, handed, conn, users, load>>

Look ==
    /\ sender.at = "look"
    /\ sender' = [sender EXCEPT !.at = "ask", !.empty = (head = tail)]
    /\ UNCHANGED <<ring, dropped, wakeups, callback, handed, conn, users, load>>

Ask_IgnoresRing ==
    /\ sender.at = "ask"
    /\ GoTo(IF ~ stop THEN "wait" ELSE "awake")
    /\ UNCHANGED <<ring, dropped, wakeups, callback, handed, conn, users, load>>

Ask ==
    /\ sender.at = "ask"
    /\ GoTo(IF sender.empty /\ ~ stop THEN "wait" ELSE "awake")
    /\ UNCHANGED <<ring, dropped, wakeups, callback, handed, conn, users, load>>

Awaken ==
    /\ sender.at = "wait"
    /\ signal
    /\ signal' = FALSE
    /\ GoTo("awake")
    /\ UNCHANGED <<ring, dropped, idle, stop, callback, handed, conn, users, load>>

Awake ==
    /\ sender.at = "awake"
    /\ idle' = FALSE
    /\ GoTo("take")
    /\ UNCHANGED <<ring, dropped, signal, stop, callback, handed, conn, users, load>>

Take ==
    /\ sender.at = "take"
    /\ IF head = tail
       THEN GoTo("stopping") /\ UNCHANGED <<tail, handed>>
       ELSE /\ sender' = [at |-> "try", empty |-> FALSE, event |-> slots[tail]]
            /\ handed' = Append(handed, slots[tail])
            /\ tail' = After(tail)
    /\ UNCHANGED <<slots, head, nextId, dropped, wakeups, callback, conn, users, load>>

Connected == active /\ port = "open"

Try ==
    /\ sender.at = "try"
    /\ GoTo(IF Connected THEN "acquire" ELSE "take")
    /\ UNCHANGED <<ring, dropped, wakeups, callback, handed, conn, users, load>>

Acquire ==
    /\ sender.at = "acquire"
    /\ IF guard = "up" THEN users' = users + 1 /\ GoTo("again")
                       ELSE users' = users /\ GoTo("take")
    /\ UNCHANGED <<ring, dropped, wakeups, callback, handed, conn, load>>

TryAgain ==
    /\ sender.at = "again"
    /\ GoTo(IF Connected THEN "send" ELSE "release")
    /\ UNCHANGED <<ring, dropped, wakeups, callback, handed, conn, users, load>>

\* Nobody waits for an answer, and a failure is not looked at.
Send ==
    /\ sender.at = "send"
    /\ GoTo("release")
    /\ UNCHANGED <<ring, dropped, wakeups, callback, handed, conn, users, load>>

Release ==
    /\ sender.at = "release"
    /\ users' = users - 1
    /\ GoTo("take")
    /\ UNCHANGED <<ring, dropped, wakeups, callback, handed, conn, load>>

Stopping ==
    /\ sender.at = "stopping"
    /\ GoTo(IF stop THEN "exit" ELSE "announce")
    /\ UNCHANGED <<ring, dropped, wakeups, callback, handed, conn, users, load>>

-----------------------------------------------------------------------------
(* BlwConnectNotify and BlwDisconnectNotify.  The port takes one connection  *)
(* at a time, and none before the callbacks of the last one are done.        *)

Connect ==
    /\ driver \notin {"drain", "absent"}
    /\ ~ client /\ link = "still" /\ port = "none"
    /\ client' = TRUE
    /\ port' = "open"
    /\ link' = "protect"
    /\ UNCHANGED <<ring, dropped, wakeups, callback, sender, handed, active, guard, users, load>>

Protect ==
    /\ link = "protect"
    /\ guard' = "up"
    /\ link' = "activate"
    /\ UNCHANGED <<ring, dropped, wakeups, callback, sender, handed, active, port, client, users, load>>

Activate ==
    /\ link = "activate"
    /\ active' = TRUE
    /\ link' = "still"
    /\ UNCHANGED <<ring, dropped, wakeups, callback, sender, handed, port, guard, client, users, load>>

Disconnect ==
    /\ client /\ link = "still"
    /\ client' = FALSE
    /\ active' = FALSE
    /\ link' = "rundown"
    /\ UNCHANGED <<ring, dropped, wakeups, callback, sender, handed, port, guard, users, load>>

\* ExWaitForRundownProtectionRelease: nobody gets in from now on.
RunDown_TrustsActive ==
    /\ link = "rundown"
    /\ link' = "close"
    /\ UNCHANGED <<ring, dropped, wakeups, callback, sender, handed, active, port, guard, client, users, load>>

RunDown ==
    /\ link = "rundown"
    /\ guard' = "down"
    /\ link' = "inside"
    /\ UNCHANGED <<ring, dropped, wakeups, callback, sender, handed, active, port, client, users, load>>

\* ... and who is inside has left.
Released ==
    /\ link = "inside"
    /\ users = 0
    /\ link' = "close"
    /\ UNCHANGED <<ring, dropped, wakeups, callback, sender, handed, active, port, guard, client, users, load>>

Close ==
    /\ link = "close"
    /\ port' = "none"
    /\ link' = "still"
    /\ UNCHANGED <<ring, dropped, wakeups, callback, sender, handed, active, guard, client, users, load>>

-----------------------------------------------------------------------------
(* DriverEntry and BlwFilterUnload.                                         *)

Step(from, to) == driver = from /\ driver' = to

\* FltStartFiltering, or it fails and what was started is stopped again.
StartFiltering ==
    /\ \/ Step("queue", "register") /\ filtering' = TRUE
       \/ Step("queue", "stop") /\ UNCHANGED filtering
    /\ UNCHANGED <<ring, dropped, wakeups, callback, sender, handed, conn, users, allocated>>

\* The last of the other callbacks, or one that is needed cannot be registered
\* and those before it are taken back.
Register ==
    /\ Step("register", "up") \/ Step("register", "unregister")
    /\ UNCHANGED <<ring, dropped, wakeups, callback, sender, handed, conn, users, allocated, filtering>>

Unload ==
    /\ Step("up", "unregister")
    /\ UNCHANGED <<ring, dropped, wakeups, callback, sender, handed, conn, users, allocated, filtering>>

\* Taking a callback back waits for the calls of it that are under way.
Unregistered ==
    /\ \A p \in Registered : callback[p] = "out"
    /\ Step("unregister", "stop")
    /\ UNCHANGED <<ring, dropped, wakeups, callback, sender, handed, conn, users, allocated, filtering>>

StopQueue ==
    /\ Step("stop", "signal")
    /\ stop' = TRUE
    /\ UNCHANGED <<ring, dropped, idle, signal, callback, sender, handed, conn, users, allocated, filtering>>

WakeSender_OnlyStops ==
    /\ Step("signal", "join")
    /\ UNCHANGED <<ring, dropped, wakeups, callback, sender, handed, conn, users, allocated, filtering>>

WakeSender ==
    /\ Step("signal", "join")
    /\ signal' = TRUE
    /\ UNCHANGED <<ring, dropped, idle, stop, callback, sender, handed, conn, users, allocated, filtering>>

FreeRing ==
    /\ sender.at = "exit"
    /\ Step("join", "teardown")
    /\ allocated' = FALSE
    /\ UNCHANGED <<ring, dropped, wakeups, callback, sender, handed, conn, users, filtering>>

\* BlwTearDownCommunication.
TearDown ==
    /\ Step("teardown", IF port = "open" THEN "rundown" ELSE "server")
    /\ active' = FALSE
    /\ UNCHANGED <<ring, dropped, wakeups, callback, sender, handed, port, guard, client, link, users,
                   allocated, filtering>>

TearDownWaits ==
    /\ Step("rundown", "close")
    /\ users = 0
    /\ guard' = "down"
    /\ UNCHANGED <<ring, dropped, wakeups, callback, sender, handed, active, port, client, link, users,
                   allocated, filtering>>

TearDownCloses ==
    /\ Step("close", "server")
    /\ port' = "none"
    /\ UNCHANGED <<ring, dropped, wakeups, callback, sender, handed, active, guard, client, link, users,
                   allocated, filtering>>

CloseServer ==
    /\ Step("server", "drain")
    /\ active' = FALSE
    /\ UNCHANGED <<ring, dropped, wakeups, callback, sender, handed, port, guard, client, link, users,
                   allocated, filtering>>

\* FltUnregisterFilter waits for the file callbacks; then the image and its
\* globals are gone.
Gone ==
    /\ Step("drain", "absent")
    /\ \A p \in FileCallbacks : callback[p] = "out"
    /\ link = "still"
    /\ slots' = [i \in Index |-> 0] /\ head' = 0 /\ tail' = 0
    /\ nextId' = 0 /\ dropped' = 0
    /\ idle' = FALSE /\ signal' = FALSE /\ stop' = FALSE
    /\ sender' = [NewSender EXCEPT !.at = "none"] /\ handed' = <<>>
    /\ active' = FALSE /\ port' = "none" /\ guard' = "down" /\ client' = FALSE
    /\ filtering' = FALSE
    /\ UNCHANGED <<callback, link, users, allocated>>

Load ==
    /\ Step("absent", "queue")
    /\ allocated' = TRUE
    /\ sender' = NewSender
    /\ UNCHANGED <<ring, dropped, wakeups, callback, handed, conn, users, filtering>>

-----------------------------------------------------------------------------
Calls(p)  == Report(p) \/ Fill(p) \/ Count(p) \/ Claim(p) \/ Wake(p)
Sends     == Announce \/ Look \/ Ask \/ Awaken \/ Awake \/ Take \/ Try \/ Acquire \/ TryAgain
               \/ Send \/ Release \/ Stopping
Links     == Protect \/ Activate \/ RunDown \/ Released \/ Close
Unloading == Unregistered \/ StopQueue \/ WakeSender \/ FreeRing \/ TearDown \/ TearDownWaits
               \/ TearDownCloses \/ CloseServer \/ Gone

Next ==
    \/ \E p \in Callbacks : Calls(p)
    \/ Sends \/ Links \/ Unloading
    \/ Connect \/ Disconnect
    \/ Load \/ StartFiltering \/ Register \/ Unload

Spec == Init /\ [][Next]_vars

\* The threads of the kernel go on: the sender, the port's callbacks, the thread
\* that unloads, and each callback once it is in BlwReportEvent.  Nobody has to
\* report, connect, leave, load or unload.
FairSpec ==
    /\ Spec
    /\ WF_vars(Sends) /\ WF_vars(Links) /\ WF_vars(Unloading)
    /\ \A p \in Callbacks : WF_vars(Fill(p) \/ Count(p) \/ Claim(p) \/ Wake(p))

-----------------------------------------------------------------------------
(* Properties.                                                              *)

Place == {"none", "announce", "look", "ask", "wait", "awake", "take", "try", "acquire",
          "again", "send", "release", "stopping", "exit"}
Sender == [at : Place, empty : BOOLEAN, event : Nat]

TypeOK ==
    /\ slots \in [Index -> Nat] /\ head \in Index /\ tail \in Index
    /\ nextId \in Nat /\ dropped \in Nat
    /\ allocated \in BOOLEAN /\ idle \in BOOLEAN /\ signal \in BOOLEAN /\ stop \in BOOLEAN
    /\ callback \in [Callbacks -> {"out", "fill", "full", "wake", "set"}]
    /\ sender \in Sender
    /\ handed \in Seq(Nat)
    /\ active \in BOOLEAN /\ port \in {"none", "open"} /\ guard \in {"down", "up"} /\ users \in 0..1
    /\ client \in BOOLEAN
    /\ link \in {"still", "protect", "activate", "rundown", "inside", "close"}
    /\ driver \in {"queue", "register", "up", "unregister", "stop", "signal", "join", "teardown",
                   "rundown", "close", "server", "drain", "absent"}
    /\ filtering \in BOOLEAN

\* The ring is the queue it stands for: events leave in order and once, no slot
\* is written over before it was read, and a refused event is one that found no
\* free slot.
Held    == (head - tail) % Cap
Waiting == [i \in 1..Held |-> slots[(tail + i - 1) % Cap]]
Refused == dropped + Cardinality({p \in Callbacks : callback[p] = "full"})
Queue   == INSTANCE EventQueue WITH
    Limit <- Cap - 1, waiting <- Waiting, refused <- Refused, open <- driver # "absent"
QueueSpec == Queue!Spec

\* The sender never sleeps over an event unless somebody is about to wake it,
\* although callbacks wake it only when they find it idle.
WakeupIsComing ==
    sender.at = "wait" /\ head # tail =>
        \/ signal
        \/ \E p \in Callbacks : callback[p] = "set" \/ (callback[p] = "wake" /\ idle)

\* The sender sends on a port only while it is open, however connections come
\* and go.
SendsOnOpenPort == sender.at = "send" => port = "open"

\* The oldest event does not stay in the ring.
OldestLeaves == \A i \in Index : (tail = i /\ head # i) ~> (tail # i \/ head = i)

\* An unload ends: the sender hears of it, asleep or not, and nobody inside the
\* port's protection or a callback is waited for in vain.
UnloadEnds == driver = "unregister" ~> driver = "absent"

\* "All callbacks are gone, no new event comes": nobody writes into a ring that
\* was freed.
NoWriteAfterFree == \A p \in Callbacks : callback[p] = "fill" => allocated
=============================================================================
