----------------------------- MODULE Reputation -----------------------------
(***************************************************************************)
(* Asking the cloud about a file: ReputationManager with its cache, and    *)
(* the part of Worker::onEvent that asks.                                  *)
(*                                                                         *)
(* Three threads.  The event thread waits for an answer, but no longer     *)
(* than its budget; the lane thread asks for it and goes on asking when    *)
(* the wait is over; the queue's thread asks about what nobody waits for.  *)
(* A step is what a thread does under one lock, or between two.  A thread  *)
(* in QWaitCondition::wait sleeps until it is woken, or for no reason.     *)
(*                                                                         *)
(* Not here: files with a good signature, which are never asked about, the *)
(* cache's file, the limits of the sources, and what is done about a       *)
(* malicious file (Containment, TaintRules).                               *)
(***************************************************************************)
EXTENDS Naturals, Sequences, FiniteSets

CONSTANTS
    Hashes,      \* the files, by hash
    Risky,       \* those in a suspicious place or of a suspicious size
    Capacity,    \* kCapacity, of the queue
    MaxEntries,  \* kMaxEntries, of the cache
    MaxEvents    \* a bound on the events

ASSUME ReputationAssumption ==
    /\ Risky \subseteq Hashes
    /\ Capacity \in Nat /\ MaxEntries \in Nat \ {0} /\ MaxEvents \in Nat

Event    == [id : 1..MaxEvents, hash : Hashes]
Round    == [event : Event, why : {"enrich", "verify"}]
Verdicts == {"malicious", "known", "unknown"}     \* known: clean or suspicious
Answer   == [hash : Hashes, verdict : Verdicts \cup {"none"}]
Entry    == [verdict : Verdicts, fresh : BOOLEAN]
Nothing  == [verdict |-> "nothing"]
NoRound  == [why |-> "nothing"]

VARIABLES
    cache,    \* cache_
    seen,     \* the store of first seen files
    made,     \* the events so far
    running,  \* running_
    main,     \* the event thread: its event, why it asks, what it heard
    lane,     \* laneBusy_, laneHasResult_, laneWaiterGone_, laneEvent_, laneResult_
    laner,    \* inlineLaneLoop: its round, and the answer
    queue, inflight,
    worker,   \* consumeLoop: the event it asks for
    found,    \* history: rounds of the lane that found a malicious file
    heard,    \* history: those the event thread waited for
    called    \* history: those the lane thread called back for

events  == <<seen, made>>
history == <<found, heard, called>>
vars    == <<cache, events, running, main, lane, laner, queue, inflight, worker, history>>

Unanswered(h) == [hash |-> h, verdict |-> "none"]

\* The round and the result of a lane are dropped where nobody reads them again.
FreeLane == [busy |-> FALSE, hasResult |-> FALSE, waiterGone |-> FALSE, round |-> NoRound,
             result |-> Nothing]
Forget(done) == [done EXCEPT !.round = NoRound, !.result = Nothing]

MainType  == [at : {"idle", "ask", "lane", "wait", "judge", "look", "enqueue", "judged",
                    "stop", "wake", "join", "down"},
              round : Round \cup {NoRound}, heard : Answer \cup {Nothing}, first : BOOLEAN]
LaneType  == [busy : BOOLEAN, hasResult : BOOLEAN, waiterGone : BOOLEAN,
              round : Round \cup {NoRound}, result : Answer \cup {Nothing}]
LanerType == [at : {"run", "sleep", "query", "post", "call", "exit"},
              round : Round \cup {NoRound}, answer : Answer \cup {Nothing}]
WorkerType == [at : {"run", "sleep", "query", "remove", "exit"}, event : Event \cup {NoRound}]

TypeOK ==
    /\ cache \in [Hashes -> Entry \cup {Nothing}]
    /\ seen \subseteq Hashes /\ made \in 0..MaxEvents /\ running \in BOOLEAN
    /\ main \in MainType /\ lane \in LaneType /\ laner \in LanerType
    /\ queue \in Seq(Event) /\ inflight \subseteq Hashes /\ worker \in WorkerType
    /\ found \subseteq Round /\ heard \subseteq Round /\ called \subseteq Round

\* start creates both threads.
MainIdle   == [at |-> "idle", round |-> NoRound, heard |-> Nothing, first |-> FALSE]
LaneBegins == [at |-> "run", round |-> NoRound, answer |-> Nothing]
Consumer   == [at |-> "run", event |-> NoRound]

Init ==
    /\ cache = [h \in Hashes |-> Nothing]
    /\ seen = {} /\ made = 0
    /\ running = TRUE
    /\ main = MainIdle
    /\ lane = FreeLane /\ laner = LaneBegins
    /\ queue = <<>> /\ inflight = {} /\ worker = Consumer
    /\ found = {} /\ heard = {} /\ called = {}

-----------------------------------------------------------------------------
(* The cache.                                                               *)

\* tryGet, and tryGetForEnrichment, which takes a stale entry as well.
Fresh(h)      == cache[h] # Nothing /\ cache[h].fresh
Enriching(h)  == cache[h] # Nothing /\ cache[h].verdict # "unknown"
Cached(h)     == [hash |-> h, verdict |-> cache[h].verdict]

\* store: too many entries drop the oldest, but never a malicious one.
Store(answer) ==
    IF answer.verdict = "none" THEN UNCHANGED cache
    ELSE LET full    == [cache EXCEPT ![answer.hash] = [verdict |-> answer.verdict, fresh |-> TRUE]]
             there   == {h \in Hashes : full[h] # Nothing}
             spare   == {h \in there : full[h].verdict # "malicious"}
             surplus == IF Cardinality(there) > MaxEntries THEN Cardinality(there) - MaxEntries ELSE 0
         IN \E gone \in SUBSET spare :
              /\ \/ Cardinality(gone) = surplus
                 \/ gone = spare /\ Cardinality(spare) < surplus
              /\ answer.hash \in gone => gone = spare
              /\ cache' = [h \in Hashes |-> IF h \in gone THEN Nothing ELSE full[h]]

\* The time of an entry is over: a malicious one has none, and an unknown one
\* that is over is not read again.
Expire(h) ==
    /\ Fresh(h)
    /\ cache[h].verdict # "malicious"
    /\ cache' = [cache EXCEPT ![h] = IF @.verdict = "unknown" THEN Nothing
                                     ELSE [@ EXCEPT !.fresh = FALSE]]
    /\ UNCHANGED <<events, running, main, lane, laner, queue, inflight, worker, history>>

-----------------------------------------------------------------------------
(* The event thread: enrich, evaluate, maybeEnqueue, maybeVerifyMemory-     *)
(* Injection.                                                               *)

Hash == main.round.event.hash

Waken(thread) == IF thread.at = "sleep" THEN [thread EXCEPT !.at = "run"] ELSE thread

\* The part of enrich about the reputation.
Enrich(h) ==
    /\ main.at = "idle"
    /\ made < MaxEvents
    /\ made' = made + 1
    /\ seen' = seen \cup {h}
    /\ LET round == [event |-> [id |-> made + 1, hash |-> h], why |-> "enrich"]
           first == h \notin seen
       IN main' = [at    |-> IF ~ Enriching(h) /\ (first \/ h \in Risky) THEN "ask" ELSE "judge",
                   round |-> round,
                   heard |-> IF Enriching(h) THEN Cached(h) ELSE Unanswered(h),
                   first |-> first]
    /\ UNCHANGED <<cache, running, lane, laner, queue, inflight, worker, history>>

\* queryNowBounded returns to enrich or to maybeVerifyMemoryInjection.
Return(answer) ==
    main' = IF main.round.why = "enrich" THEN [main EXCEPT !.at = "judge", !.heard = answer]
            ELSE MainIdle

\* queryNowBounded reads the cache before it takes the lane's lock.
TryCache ==
    /\ main.at = "ask"
    /\ IF Fresh(Hash) THEN Return(Cached(Hash)) ELSE main' = [main EXCEPT !.at = "lane"]
    /\ UNCHANGED <<cache, events, running, lane, laner, queue, inflight, worker, history>>

TakeLane_EvenBusy ==
    /\ main.at = "lane"
    /\ lane' = [FreeLane EXCEPT !.busy = TRUE, !.round = main.round]
    /\ laner' = Waken(laner)
    /\ main' = [main EXCEPT !.at = "wait"]
    /\ UNCHANGED <<cache, events, running, queue, inflight, worker, history>>

TakeLane ==
    /\ main.at = "lane"
    /\ IF lane.busy
       THEN Return(Unanswered(Hash)) /\ UNCHANGED <<lane, laner>>
       ELSE /\ lane' = [FreeLane EXCEPT !.busy = TRUE, !.round = main.round]
            /\ laner' = Waken(laner)
            /\ main' = [main EXCEPT !.at = "wait"]
    /\ UNCHANGED <<cache, events, running, queue, inflight, worker, history>>

\* The answer is there, or the budget is used up and the lane goes on alone.
WaitEnds_LeavesUnseen ==
    /\ main.at = "wait"
    /\ IF lane.hasResult
       THEN /\ Return(lane.result)
            /\ heard' = IF lane.result.verdict = "malicious" THEN heard \cup {lane.round} ELSE heard
            /\ lane' = Forget(lane)
       ELSE /\ Return(Unanswered(Hash))
            /\ UNCHANGED <<lane, heard>>
    /\ UNCHANGED <<cache, events, running, laner, queue, inflight, worker, found, called>>

WaitEnds ==
    /\ main.at = "wait"
    /\ IF lane.hasResult
       THEN /\ Return(lane.result)
            /\ heard' = IF lane.result.verdict = "malicious" THEN heard \cup {lane.round} ELSE heard
            /\ lane' = Forget(lane)
       ELSE /\ Return(Unanswered(Hash))
            /\ lane' = [lane EXCEPT !.waiterGone = TRUE]
            /\ UNCHANGED heard
    /\ UNCHANGED <<cache, events, running, laner, queue, inflight, worker, found, called>>

\* What was blocked, or is trusted, is not asked about again.
Judge ==
    /\ main.at = "judge"
    /\ \E next \in {"look", "judged"} : main' = [main EXCEPT !.at = next, !.heard = Nothing]
    /\ UNCHANGED <<cache, events, running, lane, laner, queue, inflight, worker, history>>

\* maybeEnqueue reads the cache before it takes the queue's lock.
Look ==
    /\ main.at = "look"
    /\ main' = [main EXCEPT !.at = IF main.first /\ ~ Fresh(Hash) THEN "enqueue" ELSE "judged"]
    /\ UNCHANGED <<cache, events, running, lane, laner, queue, inflight, worker, history>>

Enqueue_WithoutWaking ==
    /\ main.at = "enqueue"
    /\ main' = [main EXCEPT !.at = "judged"]
    /\ IF Hash \in inflight \/ Len(queue) >= Capacity
       THEN UNCHANGED <<inflight, queue>>
       ELSE inflight' = inflight \cup {Hash} /\ queue' = Append(queue, main.round.event)
    /\ UNCHANGED <<cache, events, running, lane, laner, worker, history>>

Enqueue ==
    /\ main.at = "enqueue"
    /\ main' = [main EXCEPT !.at = "judged"]
    /\ IF Hash \in inflight \/ Len(queue) >= Capacity
       THEN UNCHANGED <<inflight, queue, worker>>
       ELSE /\ inflight' = inflight \cup {Hash}
            /\ queue' = Append(queue, main.round.event)
            /\ worker' = Waken(worker)
    /\ UNCHANGED <<cache, events, running, lane, laner, history>>

\* The end of onEvent, or of a try to inject, which is asked about again.
Judged ==
    /\ main.at = "judged"
    /\ \/ main' = MainIdle
       \/ main' = [main EXCEPT !.at = "ask", !.round.why = "verify"]
    /\ UNCHANGED <<cache, events, running, lane, laner, queue, inflight, worker, history>>

-----------------------------------------------------------------------------
(* The lane thread.                                                         *)

LaneTakes ==
    /\ laner.at = "run"
    /\ laner' = IF ~ running THEN [laner EXCEPT !.at = "exit"]
                ELSE IF lane.busy /\ ~ lane.hasResult
                     THEN [laner EXCEPT !.at = "query", !.round = lane.round]
                     ELSE [laner EXCEPT !.at = "sleep"]
    /\ UNCHANGED <<cache, events, running, main, lane, queue, inflight, worker, history>>

\* Whatever the sources say, or an exception.
LaneAsks ==
    /\ laner.at = "query"
    /\ \E v \in Verdicts \cup {"none"} :
         LET answer == [hash |-> laner.round.event.hash, verdict |-> v] IN
         /\ Store(answer)
         /\ laner' = [laner EXCEPT !.at = "post", !.answer = answer]
         /\ found' = IF v = "malicious" THEN found \cup {laner.round} ELSE found
    /\ UNCHANGED <<events, running, main, lane, queue, inflight, worker, heard, called>>

LanePosts ==
    /\ laner.at = "post"
    /\ LET done == [lane EXCEPT !.result = laner.answer, !.hasResult = TRUE, !.busy = FALSE]
       IN lane' = IF lane.waiterGone THEN Forget(done) ELSE done
    /\ laner' = IF lane.waiterGone /\ laner.answer.verdict = "malicious"
                THEN [laner EXCEPT !.at = "call"] ELSE LaneBegins
    /\ UNCHANGED <<cache, events, running, main, queue, inflight, worker, history>>

LaneCalls ==
    /\ laner.at = "call"
    /\ called' = called \cup {laner.round}
    /\ laner' = LaneBegins
    /\ UNCHANGED <<cache, events, running, main, lane, queue, inflight, worker, found, heard>>

-----------------------------------------------------------------------------
(* The queue's thread.                                                      *)

Dequeue ==
    /\ worker.at = "run"
    /\ IF ~ running \/ queue = <<>>
       THEN /\ worker' = [worker EXCEPT !.at = IF running THEN "sleep" ELSE "exit"]
            /\ UNCHANGED queue
       ELSE /\ worker' = [at |-> "query", event |-> Head(queue)]
            /\ queue' = Tail(queue)
    /\ UNCHANGED <<cache, events, running, main, lane, laner, inflight, history>>

\* The answer, and the call for a malicious one.
WorkerAsks_ForgetsFailed ==
    /\ worker.at = "query"
    /\ \E v \in Verdicts \cup {"none"} :
         /\ Store([hash |-> worker.event.hash, verdict |-> v])
         /\ worker' = [worker EXCEPT !.at = IF v = "none" THEN "run" ELSE "remove"]
    /\ UNCHANGED <<events, running, main, lane, laner, queue, inflight, history>>

WorkerAsks ==
    /\ worker.at = "query"
    /\ \E v \in Verdicts \cup {"none"} : Store([hash |-> worker.event.hash, verdict |-> v])
    /\ worker' = [worker EXCEPT !.at = "remove"]
    /\ UNCHANGED <<events, running, main, lane, laner, queue, inflight, history>>

WorkerRemoves ==
    /\ worker.at = "remove"
    /\ inflight' = inflight \ {worker.event.hash}
    /\ worker' = Consumer
    /\ UNCHANGED <<cache, events, running, main, lane, laner, queue, history>>

\* A wait ends without a reason.
WakeForNoReason ==
    /\ \/ laner.at = "sleep" /\ laner' = Waken(laner) /\ UNCHANGED worker
       \/ worker.at = "sleep" /\ worker' = Waken(worker) /\ UNCHANGED laner
    /\ UNCHANGED <<cache, events, running, main, lane, queue, inflight, history>>

-----------------------------------------------------------------------------
(* stop, at the end of main, and the next start.                            *)

Stop ==
    /\ main.at = "idle"
    /\ running' = FALSE
    /\ main' = [main EXCEPT !.at = "stop"]
    /\ UNCHANGED <<cache, events, lane, laner, queue, inflight, worker, history>>

StopWakesWorker ==
    /\ main.at = "stop"
    /\ worker' = Waken(worker)
    /\ main' = [main EXCEPT !.at = "wake"]
    /\ UNCHANGED <<cache, events, running, lane, laner, queue, inflight, history>>

StopWakesLane_WaiterOnly ==
    /\ main.at = "wake"
    /\ main' = [main EXCEPT !.at = "join"]
    /\ UNCHANGED <<cache, events, running, lane, laner, queue, inflight, worker, history>>

StopWakesLane ==
    /\ main.at = "wake"
    /\ laner' = Waken(laner)
    /\ main' = [main EXCEPT !.at = "join"]
    /\ UNCHANGED <<cache, events, running, lane, queue, inflight, worker, history>>

Join ==
    /\ main.at = "join"
    /\ worker.at = "exit" /\ laner.at = "exit"
    /\ main' = [main EXCEPT !.at = "down"]
    /\ UNCHANGED <<cache, events, running, lane, laner, queue, inflight, worker, history>>

Restart ==
    /\ main.at = "down"
    /\ running' = TRUE
    /\ main' = MainIdle
    /\ lane' = FreeLane /\ laner' = LaneBegins
    /\ queue' = <<>> /\ inflight' = {} /\ worker' = Consumer
    /\ UNCHANGED <<cache, events, history>>

-----------------------------------------------------------------------------
Main   == TryCache \/ TakeLane \/ WaitEnds \/ Judge \/ Look \/ Enqueue \/ Judged
            \/ StopWakesWorker \/ StopWakesLane \/ Join
Lane   == LaneTakes \/ LaneAsks \/ LanePosts \/ LaneCalls
Worker == Dequeue \/ WorkerAsks \/ WorkerRemoves

Next ==
    \/ \E h \in Hashes : Enrich(h) \/ Expire(h)
    \/ TryCache \/ TakeLane \/ WaitEnds \/ Judge \/ Look \/ Enqueue \/ Judged
    \/ Stop \/ StopWakesWorker \/ StopWakesLane \/ Join \/ Restart
    \/ LaneTakes \/ LaneAsks \/ LanePosts \/ LaneCalls
    \/ Dequeue \/ WorkerAsks \/ WorkerRemoves
    \/ WakeForNoReason

Spec == Init /\ [][Next]_vars

\* Every thread goes on when it is not asleep: a query ends with its timeout,
\* a wait with its budget.  Nothing wakes a thread for no reason.
FairSpec == Spec /\ WF_vars(Main) /\ WF_vars(Lane) /\ WF_vars(Worker)

-----------------------------------------------------------------------------
(* Properties.                                                              *)

\* What an event is judged by is about its own file, never the late answer to
\* a query that an earlier event gave up.
HeardIsOwn ==
    main.at = "judge" => main.heard.hash = Hash

\* The lane finds a malicious file: either the event that asked hears it, or
\* the callback is made, and never both, however the end of the budget and the
\* answer race.
OnTheWay ==
    {r \in Round : \/ laner.at \in {"post", "call"} /\ laner.round = r
                   \/ main.at = "wait" /\ lane.hasResult /\ lane.round = r}
ConclusionsReachOne ==
    /\ heard \cap called = {}
    /\ heard \cup called \subseteq found
    /\ found \ (heard \cup called) \subseteq OnTheWay

\* A file is in flight if and only if it waits in the queue or is asked about,
\* and it waits once: no failure leaves one behind that is never asked about
\* again.
InflightIsQueued ==
    /\ inflight = {queue[i].hash : i \in DOMAIN queue}
                    \cup (IF worker.at \in {"query", "remove"} THEN {worker.event.hash} ELSE {})
    /\ \A i, j \in DOMAIN queue : queue[i].hash = queue[j].hash => i = j

\* While the service runs, a lane that was taken comes free and a file in
\* flight lands: no wake-up is lost between a check and the sleep after it.
WorkIsDone ==
    /\ lane.busy ~> (~ lane.busy \/ ~ running)
    /\ \A h \in Hashes : h \in inflight ~> (h \notin inflight \/ ~ running)

\* stop joins both threads, whether they sleep, ask or call.
StopEnds == main.at = "stop" ~> main.at = "down"

\* "malicious = permanent": what was found malicious stays so in the cache.
\* Not so: README, section 6.
MaliciousIsPermanent ==
    [][\A h \in Hashes : cache[h].verdict = "malicious" => cache'[h].verdict = "malicious"]_vars
=============================================================================
