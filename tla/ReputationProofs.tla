--------------------------- MODULE ReputationProofs ---------------------------
(***************************************************************************)
(* Proofs about Reputation for any files, any size of the queue and of the *)
(* cache and any number of events: who waits in the lane, who answers and  *)
(* who is told fit together at every step of the three threads.            *)
(***************************************************************************)
EXTENDS Reputation, FiniteSetTheorems, TLAPS

(* The event thread is at work on an event.                                *)
InEvent == main.at \in {"ask", "lane", "wait", "judge", "look", "enqueue", "judged"}

(* Its round is that of the event last made, and an event is judged before *)
(* it is asked about a second time.                                        *)
MainOK ==
    /\ InEvent => main.round \in Round /\ main.round.event.id = made
    /\ main.at \in {"judge", "look", "enqueue", "judged"} => main.round.why = "enrich"

(* A result is about the file the round asks for; it is in found if and    *)
(* only if it is bad news.                                                 *)
AnswerFits(answer, round) ==
    /\ answer \in Answer
    /\ answer.hash = round.event.hash
    /\ answer.verdict = "malicious" <=> round \in found

(* Who waits stands in the lane; a taken lane whose taker is gone says so. *)
LaneOK ==
    /\ lane.busy => /\ lane.round \in Round
                    /\ ~ lane.hasResult
                    /\ lane.waiterGone <=> main.at # "wait"
                    /\ lane.round \notin heard \cup called
                    /\ laner.at # "post" => lane.round \notin found
    /\ main.at = "wait" => /\ lane.round = main.round
                           /\ ~ lane.waiterGone
                           /\ ~ lane.busy => lane.hasResult
                           /\ lane.round \notin heard \cup called
                           /\ lane.hasResult => AnswerFits(lane.result, lane.round)

(* The lane thread asks for whoever holds the lane; a round it calls back  *)
(* for has left the lane.                                                  *)
LanerOK ==
    /\ laner.at \in {"query", "post"} => lane.busy /\ laner.round = lane.round
    /\ laner.at = "post" => AnswerFits(laner.answer, laner.round)
    /\ laner.at = "call" => /\ laner.round \in found \ (heard \cup called)
                            /\ lane.round # laner.round
    /\ laner.at \in {"run", "sleep", "exit"} => laner.round = NoRound
    /\ main.at = "down" => laner.at = "exit"

(* The rounds that have reached the lane.                                  *)
Asked == found \cup ({lane.round, laner.round} \cap Round)

(* No round reaches the lane twice.                                        *)
AskedOnce ==
    \A r \in Asked :
        /\ r.event.id <= made
        /\ main.at \in {"ask", "lane"} /\ r.event.id = made => r.why # main.round.why
        /\ InEvent /\ main.round.why = "enrich" /\ r.event.id = made => r.why = "enrich"

(* The queue's thread has taken what it asks about out of the queue.       *)
QueueOK ==
    worker.at \in {"query", "remove"} =>
        /\ worker.event \in Event
        /\ \A i \in DOMAIN queue : queue[i].hash # worker.event.hash

Inv ==
    /\ TypeOK /\ MainOK /\ LaneOK /\ LanerOK /\ AskedOnce /\ QueueOK
    /\ HeardIsOwn /\ ConclusionsReachOne /\ InflightIsQueued

---------------------------------------------------------------------------
(* The values.                                                             *)

LEMMA RoundFields ==
    /\ NoRound \notin Round
    /\ \A r \in Round : /\ r.event \in Event /\ r.event.id \in 1..MaxEvents
                        /\ r.event.hash \in Hashes /\ r.why \in {"enrich", "verify"}
<1>1. \A r \in Round : r.why \in {"enrich", "verify"} /\ r.event \in Event
  BY DEF Round
<1>2. NoRound \notin Round
  BY <1>1 DEF NoRound
<1>3. \A e \in Event : e.id \in 1..MaxEvents /\ e.hash \in Hashes
  BY DEF Event
<1>4. QED
  BY <1>1, <1>2, <1>3

(* What is read from the cache about a file is an answer about this file.  *)
LEMMA CachedIsAnswer ==
    ASSUME TypeOK, NEW h \in Hashes, cache[h] # Nothing
    PROVE  /\ Cached(h) \in Answer /\ Cached(h).hash = h
           /\ cache[h] \in Entry
<1>1. cache[h] \in Entry
  BY DEF TypeOK
<1>2. QED
  BY <1>1 DEF Cached, Answer, Entry

LEMMA UnansweredIsAnswer ==
    ASSUME NEW h \in Hashes
    PROVE  Unanswered(h) \in Answer /\ Unanswered(h).hash = h
BY DEF Unanswered, Answer

(* Storing an answer, and dropping what is too much, keeps the cache's type. *)
LEMMA StoreTypes ==
    ASSUME TypeOK, NEW answer \in Answer, Store(answer)
    PROVE  cache' \in [Hashes -> Entry \cup {Nothing}]
<1>1. CASE answer.verdict = "none"
  BY <1>1 DEF Store, TypeOK
<1>2. CASE answer.verdict # "none"
  <2> DEFINE new  == [verdict |-> answer.verdict, fresh |-> TRUE]
             full == [cache EXCEPT ![answer.hash] = new]
  <2>1. new \in Entry
    BY <1>2 DEF Answer, Entry
  <2>2. full \in [Hashes -> Entry \cup {Nothing}]
    BY <2>1 DEF TypeOK
  <2>3. PICK gone \in SUBSET Hashes :
            cache' = [h \in Hashes |-> IF h \in gone THEN Nothing ELSE full[h]]
    BY <1>2 DEF Store
  <2> HIDE DEF full
  <2>4. QED
    BY <2>2, <2>3
<1>3. QED
  BY <1>1, <1>2

LEMMA WakenFacts ==
    ASSUME TypeOK
    PROVE  /\ Waken(laner) \in LanerType /\ Waken(worker) \in WorkerType
           /\ Waken(laner).round = laner.round /\ Waken(laner).answer = laner.answer
           /\ laner.at # "sleep" => Waken(laner).at = laner.at
           /\ laner.at = "sleep" => Waken(laner).at = "run"
           /\ Waken(worker).event = worker.event
           /\ worker.at # "sleep" => Waken(worker).at = worker.at
           /\ worker.at = "sleep" => Waken(worker).at = "run"
BY DEF Waken, TypeOK, LanerType, WorkerType

LEMMA Beginnings ==
    /\ MainIdle \in MainType /\ FreeLane \in LaneType
    /\ LaneBegins \in LanerType /\ Consumer \in WorkerType
BY DEF MainIdle, FreeLane, LaneBegins, Consumer, MainType, LaneType, LanerType, WorkerType

(* queryNowBounded gives its answer to enrich, or to the end of the event. *)
LEMMA ReturnFacts ==
    ASSUME TypeOK, MainOK, InEvent, NEW a \in Answer, Return(a)
    PROVE  /\ main' \in MainType
           /\ main'.at \in {"judge", "idle"}
           /\ main'.at = "judge" => /\ main'.round = main.round /\ main'.round.why = "enrich"
                                    /\ main'.heard = a
<1>1. CASE main.round.why = "enrich"
  BY <1>1 DEF TypeOK, MainType, Return
<1>2. CASE main.round.why # "enrich"
  BY <1>2, Beginnings DEF Return, MainIdle
<1>3. QED
  BY <1>1, <1>2

---------------------------------------------------------------------------
(* Types.                                                                  *)
LEMMA TypeStep == Inv /\ [Next]_vars => TypeOK'
<1> SUFFICES ASSUME TypeOK, MainOK, QueueOK, LanerOK, LaneOK, [Next]_vars PROVE TypeOK'
  BY DEF Inv
<1> USE DEF events, history
<1>0. MaxEvents \in Nat /\ 0 \in Nat
  BY ReputationAssumption
<1>e. InEvent => Hash \in Hashes /\ main.round.event \in Event
  BY RoundFields DEF MainOK, Hash
<1>1. CASE \E h \in Hashes : Enrich(h)
  <2> PICK h \in Hashes : Enrich(h)
    BY <1>1
  <2>1. made' \in 1..MaxEvents /\ made' \in 0..MaxEvents /\ made' = made + 1
    BY <1>0 DEF TypeOK, Enrich
  <2> DEFINE round  == [event |-> [id |-> made + 1, hash |-> h], why |-> "enrich"]
             answer == IF Enriching(h) THEN Cached(h) ELSE Unanswered(h)
  <2>2. round \in Round
    BY <2>1 DEF Round, Event
  <2>3. answer \in Answer
    BY CachedIsAnswer, UnansweredIsAnswer DEF Enriching
  <2>4. main' = [at    |-> IF ~ Enriching(h) /\ (h \notin seen \/ h \in Risky) THEN "ask" ELSE "judge",
                 round |-> round, heard |-> answer, first |-> h \notin seen]
    BY DEF Enrich
  <2> HIDE DEF round, answer
  <2>5. main' \in MainType
    BY <2>2, <2>3, <2>4 DEF MainType
  <2>6. seen' \subseteq Hashes /\ UNCHANGED <<cache, running, lane, laner, queue, inflight, worker, history>>
    BY DEF Enrich, TypeOK
  <2>7. QED
    BY <2>1, <2>5, <2>6 DEF TypeOK
<1>2. CASE \E h \in Hashes : Expire(h)
  <2> PICK h \in Hashes : Expire(h)
    BY <1>2
  <2> DEFINE over == IF cache[h].verdict = "unknown" THEN Nothing
                     ELSE [cache[h] EXCEPT !.fresh = FALSE]
  <2>1. cache[h] \in Entry /\ cache' = [cache EXCEPT ![h] = over]
    BY DEF TypeOK, Expire, Fresh
  <2>2. over \in Entry \cup {Nothing}
    BY <2>1 DEF Entry
  <2> HIDE DEF over
  <2>3. cache' \in [Hashes -> Entry \cup {Nothing}]
    BY <2>1, <2>2 DEF TypeOK
  <2>4. UNCHANGED <<events, running, main, lane, laner, queue, inflight, worker, history>>
    BY DEF Expire
  <2>5. QED
    BY <2>3, <2>4 DEF TypeOK
<1>3. CASE TryCache
  <2>1. Fresh(Hash) => Cached(Hash) \in Answer
    BY <1>3, <1>e, CachedIsAnswer DEF TryCache, Fresh, InEvent
  <2>2. main' \in MainType
    BY <1>3, <2>1, ReturnFacts DEF TypeOK, TryCache, InEvent, MainType
  <2>3. UNCHANGED <<cache, events, running, lane, laner, queue, inflight, worker, history>>
    BY <1>3 DEF TryCache
  <2>4. QED
    BY <2>2, <2>3 DEF TypeOK
<1>4. CASE TakeLane
  <2>1. Unanswered(Hash) \in Answer /\ main.round \in Round /\ InEvent
    BY <1>4, <1>e, UnansweredIsAnswer DEF TakeLane, InEvent, MainOK
  <2>2. main' \in MainType
    BY <1>4, <2>1, ReturnFacts DEF TypeOK, TakeLane, MainType
  <2>3. lane' \in LaneType /\ laner' \in LanerType
    BY <1>4, <2>1, WakenFacts, Beginnings DEF TypeOK, TakeLane, LaneType
  <2>4. UNCHANGED <<cache, events, running, queue, inflight, worker, history>>
    BY <1>4 DEF TakeLane
  <2>5. QED
    BY <2>2, <2>3, <2>4 DEF TypeOK
<1>5. CASE WaitEnds
  <2>1. Unanswered(Hash) \in Answer /\ InEvent
    BY <1>5, <1>e, UnansweredIsAnswer DEF WaitEnds, InEvent
  <2>2. lane.hasResult => lane.result \in Answer /\ lane.round \in Round
    BY <1>5 DEF WaitEnds, LaneOK, MainOK, InEvent, AnswerFits
  <2>3. main' \in MainType
    BY <1>5, <2>1, <2>2, ReturnFacts DEF WaitEnds
  <2>4. lane' \in LaneType
    <3>1. Forget(lane) \in LaneType /\ [lane EXCEPT !.waiterGone = TRUE] \in LaneType
      BY DEF TypeOK, LaneType, Forget
    <3>2. QED
      BY <1>5, <3>1 DEF WaitEnds
  <2>h. heard' \subseteq Round
    BY <1>5, <2>2 DEF WaitEnds, TypeOK
  <2>5. UNCHANGED <<cache, events, running, laner, queue, inflight, worker, found, called>>
    BY <1>5 DEF WaitEnds
  <2>6. QED
    BY <2>3, <2>4, <2>h, <2>5 DEF TypeOK
<1>6. CASE Judge \/ Look \/ Stop \/ Join
  <2>1. main' \in MainType
    BY <1>6 DEF Judge, Look, Stop, Join, TypeOK, MainType
  <2>2. running' \in BOOLEAN /\ UNCHANGED <<cache, events, lane, laner, queue, inflight, worker, history>>
    BY <1>6 DEF Judge, Look, Stop, Join, TypeOK
  <2>3. QED
    BY <2>1, <2>2 DEF TypeOK
<1>7. CASE StopWakesLane \/ StopWakesWorker \/ WakeForNoReason
  <2>1. main' \in MainType
    BY <1>7 DEF StopWakesLane, StopWakesWorker, WakeForNoReason, TypeOK, MainType
  <2>2. laner' \in LanerType /\ worker' \in WorkerType
    BY <1>7, WakenFacts DEF StopWakesLane, StopWakesWorker, WakeForNoReason, TypeOK
  <2>3. UNCHANGED <<cache, events, running, lane, queue, inflight, history>>
    BY <1>7 DEF StopWakesLane, StopWakesWorker, WakeForNoReason
  <2>4. QED
    BY <2>1, <2>2, <2>3 DEF TypeOK
<1>8. CASE Enqueue
  <2>1. main' \in MainType
    BY <1>8 DEF Enqueue, TypeOK, MainType
  <2>e. Hash \in Hashes /\ main.round.event \in Event
    BY <1>8, <1>e DEF Enqueue, InEvent
  <2>q. Append(queue, main.round.event) \in Seq(Event)
    BY <2>e DEF TypeOK
  <2>2. queue' \in Seq(Event) /\ inflight' \subseteq Hashes
    BY <1>8, <2>e, <2>q DEF Enqueue, TypeOK
  <2>3. worker' \in WorkerType
    BY <1>8, WakenFacts DEF Enqueue, TypeOK
  <2>4. UNCHANGED <<cache, events, running, lane, laner, history>>
    BY <1>8 DEF Enqueue
  <2>5. QED
    BY <2>1, <2>2, <2>3, <2>4 DEF TypeOK
<1>9. CASE Judged
  <2>1. main.round \in Round
    BY <1>9 DEF Judged, MainOK, InEvent
  <2>2. [main.round EXCEPT !.why = "verify"] \in Round
    BY <2>1 DEF Round
  <2>3. main' \in MainType
    BY <1>9, <2>2, Beginnings DEF Judged, TypeOK, MainType
  <2>4. QED
    BY <1>9, <2>3 DEF Judged, TypeOK
<1>10. CASE Restart
  <2>1. <<>> \in Seq(Event)
    OBVIOUS
  <2>2. QED
    BY <1>10, <2>1, Beginnings DEF TypeOK, Restart
<1>11. CASE LaneTakes \/ LaneCalls
  <2>1. laner' \in LanerType
    <3>1. CASE LaneTakes
      BY <3>1 DEF LaneTakes, TypeOK, LanerType, LaneType
    <3>2. CASE LaneCalls
      BY <3>2, Beginnings DEF LaneCalls
    <3>3. QED
      BY <1>11, <3>1, <3>2
  <2>2. called' \subseteq Round
    BY <1>11 DEF LaneTakes, LaneCalls, LanerOK, TypeOK
  <2>3. UNCHANGED <<cache, events, running, main, lane, queue, inflight, worker, found, heard>>
    BY <1>11 DEF LaneTakes, LaneCalls
  <2>4. QED
    BY <2>1, <2>2, <2>3 DEF TypeOK
<1>12. CASE LaneAsks
  <2> PICK v \in Verdicts \cup {"none"} :
         LET answer == [hash |-> laner.round.event.hash, verdict |-> v] IN
         /\ Store(answer)
         /\ laner' = [laner EXCEPT !.at = "post", !.answer = answer]
         /\ found' = IF v = "malicious" THEN found \cup {laner.round} ELSE found
    BY <1>12 DEF LaneAsks
  <2>1. laner.round \in Round /\ [hash |-> laner.round.event.hash, verdict |-> v] \in Answer
    BY <1>12, RoundFields DEF LaneAsks, LanerOK, LaneOK, Answer
  <2>2. laner' \in LanerType
    BY <2>1 DEF TypeOK, LanerType
  <2>3. found' \subseteq Round
    BY <2>1 DEF TypeOK
  <2>4. cache' \in [Hashes -> Entry \cup {Nothing}]
    BY <2>1, StoreTypes
  <2>5. UNCHANGED <<events, running, main, lane, queue, inflight, worker, heard, called>>
    BY <1>12 DEF LaneAsks
  <2>6. QED
    BY <2>2, <2>3, <2>4, <2>5 DEF TypeOK
<1>13. CASE LanePosts
  <2>1. lane' \in LaneType
    BY <1>13 DEF LanePosts, Forget, TypeOK, LaneType, LanerType
  <2>2. laner' \in LanerType
    BY <1>13, Beginnings DEF LanePosts, TypeOK, LanerType
  <2>3. QED
    BY <1>13, <2>1, <2>2 DEF LanePosts, TypeOK
<1>14. CASE Dequeue
  <2>1. queue # <<>> => Head(queue) \in Event /\ Tail(queue) \in Seq(Event)
    BY DEF TypeOK
  <2>2. worker' \in WorkerType
    BY <1>14, <2>1 DEF TypeOK, Dequeue, WorkerType
  <2>3. queue' \in Seq(Event)
    BY <1>14, <2>1 DEF TypeOK, Dequeue
  <2>4. UNCHANGED <<cache, events, running, main, lane, laner, inflight, history>>
    BY <1>14 DEF Dequeue
  <2>5. QED
    BY <2>2, <2>3, <2>4 DEF TypeOK
<1>15. CASE WorkerAsks
  <2>1. PICK v \in Verdicts \cup {"none"} :
          Store([hash |-> worker.event.hash, verdict |-> v])
    BY <1>15 DEF WorkerAsks
  <2>2. [hash |-> worker.event.hash, verdict |-> v] \in Answer
    BY <1>15 DEF WorkerAsks, QueueOK, Event, Answer
  <2>3. cache' \in [Hashes -> Entry \cup {Nothing}]
    BY <2>1, <2>2, StoreTypes
  <2>4. worker' \in WorkerType
    BY <1>15 DEF TypeOK, WorkerAsks, WorkerType
  <2>5. QED
    BY <1>15, <2>3, <2>4 DEF TypeOK, WorkerAsks
<1>16. CASE WorkerRemoves
  BY <1>16, Beginnings DEF TypeOK, WorkerRemoves
<1>17. CASE UNCHANGED vars
  BY <1>17 DEF TypeOK, vars
<1>18. QED
  BY <1>1, <1>2, <1>3, <1>4, <1>5, <1>6, <1>7, <1>8, <1>9, <1>10, <1>11, <1>12, <1>13, <1>14,
     <1>15, <1>16, <1>17 DEF Next

---------------------------------------------------------------------------
(* Where a step takes the event thread, and with which round.              *)
LEMMA MainMoves ==
    ASSUME TypeOK, MainOK
    PROVE  /\ Judge => /\ main.at = "judge" /\ main'.at \in {"look", "judged"}
                       /\ main'.round = main.round
           /\ Look => /\ main.at = "look" /\ main'.at \in {"enqueue", "judged"}
                      /\ main'.round = main.round
           /\ Enqueue => /\ main.at = "enqueue" /\ main'.at = "judged"
                         /\ main'.round = main.round
           /\ Judged => /\ main.at = "judged"
                        /\ \/ main'.at = "idle"
                           \/ /\ main'.at = "ask" /\ main'.round \in Round
                              /\ main'.round.event = main.round.event
                              /\ main'.round.why = "verify"
           /\ Stop => main.at = "idle" /\ main'.at = "stop"
           /\ StopWakesWorker => main.at = "stop" /\ main'.at = "wake"
           /\ StopWakesLane => main.at = "wake" /\ main'.at = "join"
           /\ Join => main.at = "join" /\ main'.at = "down" /\ laner.at = "exit"
           /\ Restart => main.at = "down" /\ main'.at = "idle"
           /\ TryCache => /\ main.at = "ask" /\ main'.at \in {"lane", "judge", "idle"}
                          /\ main'.at # "idle" => main'.round = main.round
<1>t. main \in MainType
  BY DEF TypeOK
<1>1. (Judge \/ Look \/ Enqueue) => main'.round = main.round
  BY <1>t DEF Judge, Look, Enqueue, MainType
<1>2. /\ Judge => main.at = "judge" /\ main'.at \in {"look", "judged"}
      /\ Look => main.at = "look" /\ main'.at \in {"enqueue", "judged"}
      /\ Enqueue => main.at = "enqueue" /\ main'.at = "judged"
  BY <1>t DEF Judge, Look, Enqueue, MainType
<1>3. ASSUME Judged
      PROVE  /\ main.at = "judged"
             /\ \/ main'.at = "idle"
                \/ /\ main'.at = "ask" /\ main'.round \in Round
                   /\ main'.round.event = main.round.event
                   /\ main'.round.why = "verify"
  <2>1. main.at = "judged" /\ main.round \in Round
    BY <1>3 DEF Judged, MainOK, InEvent
  <2> DEFINE again == [main.round EXCEPT !.why = "verify"]
  <2>2. again \in Round /\ again.event = main.round.event /\ again.why = "verify"
    BY <2>1 DEF Round
  <2> HIDE DEF again
  <2>3. main' = MainIdle \/ main' = [main EXCEPT !.at = "ask", !.round = again]
    BY <1>3, <1>t DEF Judged, MainType, again
  <2>4. CASE main' = MainIdle
    BY <2>1, <2>4 DEF MainIdle
  <2>5. CASE main' = [main EXCEPT !.at = "ask", !.round = again]
    <3>1. main'.at = "ask" /\ main'.round = again
      BY <1>t, <2>5 DEF MainType
    <3>2. QED
      BY <2>1, <2>2, <3>1
  <2>6. QED
    BY <2>3, <2>4, <2>5
<1>4. /\ Stop => main.at = "idle" /\ main'.at = "stop"
      /\ StopWakesWorker => main.at = "stop" /\ main'.at = "wake"
      /\ StopWakesLane => main.at = "wake" /\ main'.at = "join"
      /\ Join => main.at = "join" /\ main'.at = "down" /\ laner.at = "exit"
  BY <1>t DEF Stop, StopWakesWorker, StopWakesLane, Join, MainType
<1>5. Restart => main.at = "down" /\ main'.at = "idle"
  BY DEF Restart, MainIdle
<1>6. TryCache => /\ main.at = "ask" /\ main'.at \in {"lane", "judge", "idle"}
                  /\ main'.at # "idle" => main'.round = main.round
  <2> SUFFICES ASSUME TryCache
               PROVE  /\ main.at = "ask" /\ main'.at \in {"lane", "judge", "idle"}
                      /\ main'.at # "idle" => main'.round = main.round
    OBVIOUS
  <2>1. main.at = "ask"
    BY DEF TryCache
  <2>2. CASE main' = [main EXCEPT !.at = "lane"]
    BY <1>t, <2>1, <2>2 DEF MainType
  <2>3. CASE main' = [main EXCEPT !.at = "judge", !.heard = Cached(Hash)]
    BY <1>t, <2>1, <2>3 DEF MainType
  <2>4. CASE main' = MainIdle
    BY <2>1, <2>4 DEF MainIdle
  <2>5. QED
    BY <2>2, <2>3, <2>4 DEF TryCache, Return
<1>7. QED
  BY <1>1, <1>2, <1>3, <1>4, <1>5, <1>6

(* The event thread: whose round it is, and whose answer it heard.         *)
LEMMA MainStep ==
    TypeOK /\ MainOK /\ LaneOK /\ HeardIsOwn /\ [Next]_vars => MainOK' /\ HeardIsOwn'
<1> SUFFICES ASSUME TypeOK, MainOK, LaneOK, HeardIsOwn, [Next]_vars PROVE MainOK' /\ HeardIsOwn'
  OBVIOUS
<1> USE DEF events, MainOK, HeardIsOwn, InEvent, Hash
<1>0. MaxEvents \in Nat /\ 0 \in Nat
  BY ReputationAssumption
<1>1. CASE \E h \in Hashes : Enrich(h)
  <2> PICK h \in Hashes : Enrich(h)
    BY <1>1
  <2>1. made' \in 1..MaxEvents /\ made' = made + 1
    BY <1>0 DEF TypeOK, Enrich
  <2> DEFINE round  == [event |-> [id |-> made + 1, hash |-> h], why |-> "enrich"]
             answer == IF Enriching(h) THEN Cached(h) ELSE Unanswered(h)
  <2>2. round \in Round /\ round.event.id = made' /\ round.event.hash = h /\ round.why = "enrich"
    BY <2>1 DEF Round, Event
  <2>3. answer.hash = h
    BY CachedIsAnswer, UnansweredIsAnswer DEF Enriching
  <2>4. main' = [at    |-> IF ~ Enriching(h) /\ (h \notin seen \/ h \in Risky) THEN "ask" ELSE "judge",
                 round |-> round, heard |-> answer, first |-> h \notin seen]
    BY DEF Enrich
  <2> HIDE DEF round, answer
  <2>5. QED
    BY <2>2, <2>3, <2>4
<1>2. CASE TryCache
  <2>1. InEvent /\ Hash \in Hashes
    BY <1>2, RoundFields DEF TryCache
  <2>2. CASE Fresh(Hash)
    <3>1. Cached(Hash) \in Answer /\ Cached(Hash).hash = Hash /\ Return(Cached(Hash))
      BY <1>2, <2>1, <2>2, CachedIsAnswer DEF TryCache, Fresh
    <3>2. QED
      BY <1>2, <2>1, <3>1, ReturnFacts DEF TryCache
  <2>3. CASE ~ Fresh(Hash)
    BY <1>2, <2>3 DEF TryCache, TypeOK, MainType
  <2>4. QED
    BY <2>2, <2>3
<1>3. CASE TakeLane
  <2>1. InEvent /\ Unanswered(Hash) \in Answer /\ Unanswered(Hash).hash = Hash
    BY <1>3, RoundFields, UnansweredIsAnswer DEF TakeLane
  <2>2. CASE lane.busy
    BY <1>3, <2>1, <2>2, ReturnFacts DEF TakeLane
  <2>3. CASE ~ lane.busy
    BY <1>3, <2>3 DEF TakeLane, TypeOK, MainType
  <2>4. QED
    BY <2>2, <2>3
<1>4. CASE WaitEnds
  <2>1. InEvent /\ Unanswered(Hash) \in Answer /\ Unanswered(Hash).hash = Hash
    BY <1>4, RoundFields, UnansweredIsAnswer DEF WaitEnds
  <2>2. lane.hasResult => lane.result \in Answer /\ lane.result.hash = Hash
    BY <1>4 DEF WaitEnds, LaneOK, AnswerFits
  <2>3. QED
    BY <1>4, <2>1, <2>2, ReturnFacts DEF WaitEnds
<1>5. CASE Judge \/ Look \/ Enqueue \/ Stop \/ StopWakesWorker \/ StopWakesLane \/ Join \/ Restart
  <2>1. made' = made
    BY <1>5 DEF Judge, Look, Enqueue, Stop, StopWakesWorker, StopWakesLane, Join, Restart
  <2>2. QED
    BY <1>5, <2>1, MainMoves
<1>6. CASE Judged
  BY <1>6, MainMoves DEF Judged
<1>7. CASE UNCHANGED <<main, made>>
  BY <1>7
<1>8. QED
  BY <1>1, <1>2, <1>3, <1>4, <1>5, <1>6, <1>7 DEF Next, vars, Expire, LaneTakes, LaneAsks, LanePosts,
     LaneCalls, Dequeue, WorkerAsks, WorkerRemoves, WakeForNoReason

---------------------------------------------------------------------------
(* Who asks, who waits and who is told.                                    *)

(* The event thread leaves its round alone while it is asking.             *)
LEMMA LaneStep ==
    Inv /\ TypeOK' /\ MainOK' /\ [Next]_vars => LaneOK' /\ LanerOK' /\ AskedOnce'
<1> SUFFICES ASSUME TypeOK, MainOK, LaneOK, LanerOK, AskedOnce, ConclusionsReachOne,
                    TypeOK', MainOK', [Next]_vars
             PROVE  LaneOK' /\ LanerOK' /\ AskedOnce'
  BY DEF Inv
<1> USE DEF events, history, LaneOK, LanerOK
<1>0. found \subseteq Round /\ heard \subseteq found /\ called \subseteq found /\ NoRound \notin Round
  BY RoundFields DEF TypeOK, ConclusionsReachOne
<1>n. made \in Nat /\ made' \in Nat
  BY ReputationAssumption DEF TypeOK
<1>1. CASE \E h \in Hashes : Enrich(h)
  <2> PICK h \in Hashes : Enrich(h)
    BY <1>1
  <2>1. /\ main.at = "idle" /\ main'.at \in {"ask", "judge"} /\ main'.round.why = "enrich"
        /\ made' = made + 1
        /\ UNCHANGED <<lane, laner, found, heard, called>>
    BY DEF Enrich
  <2>2. LaneOK' /\ LanerOK'
    BY <2>1 DEF AnswerFits
  <2>3. AskedOnce'
    <3>1. Asked' = Asked
      BY <2>1 DEF Asked
    <3>2. \A r \in Asked : r.event.id <= made /\ r.event.id \in Nat
      BY <1>0, RoundFields, ReputationAssumption DEF AskedOnce, Asked
    <3>3. \A r \in Asked : r.event.id <= made' /\ r.event.id # made'
      BY <1>n, <2>1, <3>2
    <3>4. QED
      BY <3>1, <3>3 DEF AskedOnce
  <2>4. QED
    BY <2>2, <2>3
<1>2. CASE TryCache \/ Judge \/ Look \/ Enqueue \/ Judged \/ Stop \/ StopWakesWorker \/ Join
  <2>1. /\ UNCHANGED <<lane, laner, found, heard, called, made>>
        /\ main.at # "wait" /\ main'.at # "wait"
        /\ main'.at = "down" => laner.at = "exit"
    BY <1>2, MainMoves DEF TryCache, Judge, Look, Enqueue, Judged, Stop, StopWakesWorker, Join
  <2>2. LaneOK' /\ LanerOK'
    BY <2>1 DEF AnswerFits
  <2>3. InEvent' => /\ InEvent
                    /\ \/ main'.round = main.round /\ (main'.at \in {"ask", "lane"} => main.at = "ask")
                       \/ main.round.why = "enrich" /\ main'.round.why = "verify"
    BY <1>2, MainMoves DEF InEvent, MainOK
  <2>4. AskedOnce'
    BY <2>1, <2>3 DEF AskedOnce, Asked, InEvent
  <2>5. QED
    BY <2>2, <2>4
<1>3. CASE StopWakesLane \/ WakeForNoReason
  <2>1. /\ UNCHANGED <<lane, found, heard, called, made>> /\ laner'.round = laner.round
        /\ laner'.at = laner.at \/ (laner.at = "sleep" /\ laner'.at = "run")
        /\ laner'.answer = laner.answer
    BY <1>3, WakenFacts DEF StopWakesLane, WakeForNoReason
  <2>2. /\ main'.round = main.round
        /\ main'.at = main.at \/ (main.at = "wake" /\ main'.at = "join")
    BY <1>3 DEF StopWakesLane, WakeForNoReason, TypeOK, MainType
  <2>3. LaneOK' /\ LanerOK'
    BY <2>1, <2>2 DEF AnswerFits
  <2>4. AskedOnce'
    BY <2>1, <2>2 DEF AskedOnce, Asked, InEvent
  <2>5. QED
    BY <2>3, <2>4
<1>4. CASE Restart
  <2>1. /\ UNCHANGED <<found, heard, called, made>> /\ ~ lane'.busy /\ main'.at = "idle"
        /\ lane'.round = NoRound /\ laner'.round = NoRound /\ laner'.at = "run"
    BY <1>4 DEF Restart, MainIdle, FreeLane, LaneBegins
  <2>2. QED
    BY <2>1, <1>0 DEF AskedOnce, Asked, InEvent
<1>5. CASE TakeLane
  <2>1. /\ InEvent /\ main.round \in Round /\ main.round.event.id = made
        /\ Unanswered(Hash) \in Answer
    BY <1>5, RoundFields, UnansweredIsAnswer DEF TakeLane, InEvent, MainOK, Hash
  <2>2. main.round \notin Asked
    BY <1>5, <2>1 DEF TakeLane, AskedOnce
  <2>3. CASE lane.busy
    <3>1. UNCHANGED <<lane, laner, found, heard, called, made>> /\ Return(Unanswered(Hash))
      BY <1>5, <2>3 DEF TakeLane
    <3>2. /\ main'.at \in {"judge", "idle"} /\ main.at = "lane"
          /\ main'.at = "judge" => main'.round = main.round
      BY <1>5, <2>1, <3>1, ReturnFacts DEF TakeLane
    <3>3. LaneOK' /\ LanerOK'
      BY <3>1, <3>2 DEF AnswerFits
    <3>4. AskedOnce'
      BY <2>1, <3>1, <3>2 DEF AskedOnce, Asked, InEvent
    <3>5. QED
      BY <3>3, <3>4
  <2>4. CASE ~ lane.busy
    <3>1. /\ UNCHANGED <<found, heard, called, made>>
          /\ lane'.busy /\ ~ lane'.hasResult /\ ~ lane'.waiterGone /\ lane'.round = main.round
          /\ main'.at = "wait" /\ main'.round = main.round
      BY <1>5, <2>4 DEF TakeLane, FreeLane, TypeOK, MainType
    <3>2. /\ laner'.round = laner.round /\ laner'.answer = laner.answer
          /\ laner'.at = laner.at \/ (laner.at = "sleep" /\ laner'.at = "run")
      BY <1>5, <2>4, WakenFacts DEF TakeLane
    <3>3. laner.at \notin {"query", "post"}
      BY <2>4
    <3>4. main.round \notin found
      BY <2>2 DEF Asked
    <3>5. LaneOK' /\ LanerOK'
      BY <1>0, <2>1, <3>1, <3>2, <3>3, <3>4
    <3>6. AskedOnce'
      <4>1. Asked' \subseteq Asked \cup {main.round}
        BY <3>1, <3>2 DEF Asked
      <4>2. QED
        BY <1>n, <2>1, <3>1, <4>1 DEF AskedOnce, InEvent
    <3>7. QED
      BY <3>5, <3>6
  <2>5. QED
    BY <2>3, <2>4
<1>6. CASE WaitEnds
  <2>1. /\ InEvent /\ Unanswered(Hash) \in Answer
        /\ lane.hasResult => lane.result \in Answer
    BY <1>6, RoundFields, UnansweredIsAnswer DEF WaitEnds, InEvent, MainOK, Hash, AnswerFits
  <2>2. /\ main'.at \in {"judge", "idle"} /\ main.at = "wait"
        /\ main'.at = "judge" => main'.round = main.round
        /\ UNCHANGED <<laner, found, called, made>>
    BY <1>6, <2>1, ReturnFacts DEF WaitEnds
  <2>3. CASE lane.hasResult
    <3>1. /\ lane'.busy = lane.busy /\ lane'.round = NoRound /\ ~ lane.busy
          /\ heard' \in {heard, heard \cup {lane.round}}
          /\ lane.round \in Round
      BY <1>6, <2>3 DEF WaitEnds, Forget, TypeOK, LaneType, MainOK, InEvent
    <3>2. LaneOK' /\ LanerOK'
      BY <1>0, <2>2, <3>1 DEF AnswerFits
    <3>3. AskedOnce'
      BY <1>0, <2>1, <2>2, <3>1 DEF AskedOnce, Asked, InEvent
    <3>4. QED
      BY <3>2, <3>3
  <2>4. CASE ~ lane.hasResult
    <3>1. /\ lane'.busy = lane.busy /\ lane'.round = lane.round /\ lane'.waiterGone
          /\ lane'.hasResult = lane.hasResult /\ heard' = heard
      BY <1>6, <2>4 DEF WaitEnds, TypeOK, LaneType
    <3>2. LaneOK' /\ LanerOK'
      BY <2>2, <3>1 DEF AnswerFits
    <3>3. AskedOnce'
      BY <2>1, <2>2, <3>1 DEF AskedOnce, Asked, InEvent
    <3>4. QED
      BY <3>2, <3>3
  <2>5. QED
    BY <2>3, <2>4
<1>7. CASE LaneTakes
  <2>1. UNCHANGED <<main, lane, found, heard, called, made>> /\ laner.at = "run"
    BY <1>7 DEF LaneTakes
  <2>2. \/ laner'.at \in {"sleep", "exit"} /\ laner'.round = laner.round
        \/ laner'.at = "query" /\ laner'.round = lane.round /\ lane.busy
    BY <1>7 DEF LaneTakes, TypeOK, LanerType
  <2>3. LaneOK' /\ LanerOK'
    BY <2>1, <2>2 DEF AnswerFits
  <2>4. AskedOnce'
    BY <2>1, <2>2 DEF AskedOnce, Asked, InEvent
  <2>5. QED
    BY <2>3, <2>4
<1>8. CASE LaneAsks
  <2>1. PICK v \in Verdicts \cup {"none"} :
          /\ laner' = [laner EXCEPT !.at = "post",
                                    !.answer = [hash |-> laner.round.event.hash, verdict |-> v]]
          /\ found' = IF v = "malicious" THEN found \cup {laner.round} ELSE found
    BY <1>8 DEF LaneAsks
  <2>2. UNCHANGED <<main, lane, heard, called, made>> /\ laner.at = "query"
    BY <1>8 DEF LaneAsks
  <2>3. /\ laner'.at = "post" /\ laner'.round = laner.round
        /\ laner'.answer = [hash |-> laner.round.event.hash, verdict |-> v]
    BY <2>1 DEF TypeOK, LanerType
  <2>4. /\ laner.round \in Round /\ laner.round \notin found /\ lane.round = laner.round
        /\ lane.busy /\ ~ lane.hasResult
    BY <2>2
  <2>6. AnswerFits(laner.answer, laner.round)'
    BY <2>1, <2>3, <2>4, RoundFields DEF AnswerFits, Answer
  <2>7. LaneOK' /\ LanerOK'
    BY <2>1, <2>2, <2>3, <2>4, <2>6
  <2>8. AskedOnce'
    <3>1. Asked' = Asked
      BY <2>1, <2>2, <2>3, <2>4 DEF Asked
    <3>2. QED
      BY <2>2, <3>1 DEF AskedOnce, InEvent
  <2>9. QED
    BY <2>7, <2>8
<1>9. CASE LanePosts
  <2>1. /\ UNCHANGED <<main, found, heard, called, made>> /\ laner.at = "post"
        /\ lane.busy /\ ~ lane.hasResult /\ laner.round = lane.round /\ lane.round \in Round
        /\ AnswerFits(laner.answer, laner.round)
    BY <1>9 DEF LanePosts
  <2>2. CASE lane.waiterGone
    <3>1. ~ lane'.busy /\ lane'.round = NoRound
      BY <1>9, <2>2 DEF LanePosts, Forget, TypeOK, LaneType
    <3>2. \/ laner'.at = "call" /\ laner'.round = laner.round /\ laner.round \in found
          \/ laner'.at = "run" /\ laner'.round = NoRound
      BY <1>9, <2>1, <2>2 DEF LanePosts, AnswerFits, TypeOK, LanerType, LaneBegins
    <3>3. LaneOK' /\ LanerOK'
      BY <1>0, <2>1, <2>2, <3>1, <3>2
    <3>4. AskedOnce'
      BY <1>0, <2>1, <3>1, <3>2 DEF AskedOnce, Asked, InEvent
    <3>5. QED
      BY <3>3, <3>4
  <2>3. CASE ~ lane.waiterGone
    <3>1. /\ ~ lane'.busy /\ lane'.hasResult /\ lane'.round = lane.round
          /\ lane'.result = laner.answer /\ ~ lane'.waiterGone
      BY <1>9, <2>3 DEF LanePosts, TypeOK, LaneType
    <3>2. laner'.at = "run" /\ laner'.round = NoRound
      BY <1>9, <2>3 DEF LanePosts, LaneBegins
    <3>3. LaneOK' /\ LanerOK'
      BY <2>1, <2>3, <3>1, <3>2 DEF AnswerFits
    <3>4. AskedOnce'
      BY <1>0, <2>1, <3>1, <3>2 DEF AskedOnce, Asked, InEvent
    <3>5. QED
      BY <3>3, <3>4
  <2>4. QED
    BY <2>2, <2>3
<1>10. CASE LaneCalls
  <2>1. /\ UNCHANGED <<main, lane, found, heard, made>> /\ laner.at = "call"
        /\ called' = called \cup {laner.round} /\ laner'.round = NoRound /\ laner'.at = "run"
    BY <1>10 DEF LaneCalls, LaneBegins
  <2>2. LaneOK' /\ LanerOK'
    BY <2>1 DEF AnswerFits
  <2>3. AskedOnce'
    BY <1>0, <2>1 DEF AskedOnce, Asked, InEvent
  <2>4. QED
    BY <2>2, <2>3
<1>11. CASE UNCHANGED <<main, lane, laner, found, heard, called, made>>
  BY <1>11 DEF AnswerFits, AskedOnce, Asked, InEvent
<1>12. QED
  BY <1>1, <1>2, <1>3, <1>4, <1>5, <1>6, <1>7, <1>8, <1>9, <1>10, <1>11 DEF Next, vars, Expire,
     Dequeue, WorkerAsks, WorkerRemoves

(* A malicious file that was found is told to one of the two, once.        *)
LEMMA ConclusionsStep ==
    Inv /\ TypeOK' /\ MainOK' /\ [Next]_vars => ConclusionsReachOne'
<1> SUFFICES ASSUME TypeOK, MainOK, LaneOK, LanerOK, ConclusionsReachOne, TypeOK', [Next]_vars
             PROVE  ConclusionsReachOne'
  BY DEF Inv
<1> USE DEF events, history, ConclusionsReachOne, OnTheWay
<1>0. found \subseteq Round /\ found' \subseteq Round
  BY DEF TypeOK
<1>1. ASSUME UNCHANGED <<found, heard, called, lane>>,
             laner'.round = laner.round,
             laner.at \in {"post", "call"} => laner'.at = laner.at,
             main.at = "wait" => main'.at = "wait"
      PROVE  ConclusionsReachOne'
  BY <1>1
<1>2. CASE \/ TryCache \/ Judge \/ Look \/ Enqueue \/ Judged \/ Stop \/ StopWakesWorker \/ Join
           \/ \E h \in Hashes : Enrich(h) \/ Expire(h)
  <2>1. UNCHANGED <<found, heard, called, lane, laner>>
    BY <1>2 DEF TryCache, Judge, Look, Enqueue, Judged, Stop, StopWakesWorker, Join, Enrich, Expire
  <2>2. main.at = "wait" => main'.at = "wait"
    BY <1>2, MainMoves DEF Enrich, Expire
  <2>3. QED
    BY <1>1, <2>1, <2>2
<1>3. CASE StopWakesLane \/ WakeForNoReason
  <2>1. /\ UNCHANGED <<found, heard, called, lane>> /\ laner'.round = laner.round
        /\ laner.at # "sleep" => laner'.at = laner.at
        /\ main.at = "wait" => main'.at = "wait"
    BY <1>3, WakenFacts, MainMoves DEF StopWakesLane, WakeForNoReason
  <2>2. QED
    BY <1>1, <2>1
<1>4. CASE Restart
  <2>1. UNCHANGED <<found, heard, called>> /\ main.at = "down" /\ laner.at = "exit"
    BY <1>4 DEF Restart, LanerOK
  <2>2. QED
    BY <2>1
<1>5. CASE TakeLane
  <2>1. /\ UNCHANGED <<found, heard, called>> /\ main.at = "lane"
        /\ laner'.round = laner.round
        /\ laner.at # "sleep" => laner'.at = laner.at
    BY <1>5, WakenFacts DEF TakeLane
  <2>2. QED
    BY <2>1
<1>6. CASE WaitEnds
  <2>1. /\ UNCHANGED <<found, called, laner>> /\ main.at = "wait"
        /\ lane.round \in Round
    BY <1>6 DEF WaitEnds, LaneOK, MainOK, InEvent
  <2>2. CASE lane.hasResult /\ lane.result.verdict = "malicious"
    <3>1. lane.round \in found /\ lane.round \notin called
      BY <2>1, <2>2 DEF LaneOK, AnswerFits
    <3>2. heard' = heard \cup {lane.round}
      BY <1>6, <2>2 DEF WaitEnds
    <3>3. QED
      BY <2>1, <3>1, <3>2
  <2>3. CASE ~ (lane.hasResult /\ lane.result.verdict = "malicious")
    <3>1. lane.hasResult => lane.round \notin found
      BY <2>1, <2>3 DEF LaneOK, AnswerFits
    <3>2. heard' = heard
      BY <1>6, <2>3 DEF WaitEnds
    <3>3. QED
      BY <2>1, <3>1, <3>2
  <2>4. QED
    BY <2>2, <2>3
<1>7. CASE LaneTakes
  <2>1. UNCHANGED <<main, lane, found, heard, called>> /\ laner.at = "run"
    BY <1>7 DEF LaneTakes
  <2>2. QED
    BY <2>1
<1>8. CASE LaneAsks
  <2>1. /\ UNCHANGED <<main, lane, heard, called>> /\ laner.at = "query"
        /\ found' \in {found, found \cup {laner.round}}
        /\ laner'.at = "post" /\ laner'.round = laner.round
    BY <1>8 DEF LaneAsks, TypeOK, LanerType
  <2>2. laner.round \notin found
    BY <2>1 DEF LanerOK, LaneOK
  <2>3. QED
    BY <1>0, <2>1, <2>2
<1>9. CASE LanePosts
  <2>1. /\ UNCHANGED <<main, found, heard, called>> /\ laner.at = "post"
        /\ laner.round = lane.round /\ lane.busy /\ ~ lane.hasResult
        /\ lane.waiterGone <=> main.at # "wait"
        /\ laner.answer.verdict = "malicious" <=> laner.round \in found
    BY <1>9 DEF LanePosts, LaneOK, LanerOK, AnswerFits
  <2>2. lane.waiterGone /\ laner.round \in found => laner'.at = "call" /\ laner'.round = laner.round
    BY <1>9, <2>1 DEF LanePosts, TypeOK, LanerType
  <2>3. ~ lane.waiterGone => lane'.hasResult /\ lane'.round = lane.round
    BY <1>9 DEF LanePosts, TypeOK, LaneType
  <2>4. QED
    BY <2>1, <2>2, <2>3
<1>10. CASE LaneCalls
  <2>1. /\ UNCHANGED <<main, lane, found, heard>> /\ laner.at = "call"
        /\ called' = called \cup {laner.round}
        /\ laner.round \in found \ heard
    BY <1>10 DEF LaneCalls, LanerOK
  <2>2. QED
    BY <2>1
<1>11. CASE UNCHANGED <<main, lane, laner, found, heard, called>>
  BY <1>1, <1>11
<1>12. QED
  BY <1>2, <1>3, <1>4, <1>5, <1>6, <1>7, <1>8, <1>9, <1>10, <1>11 DEF Next, vars,
     Dequeue, WorkerAsks, WorkerRemoves

---------------------------------------------------------------------------
(* The queue.                                                              *)
LEMMA QueueStep ==
    Inv /\ TypeOK' /\ [Next]_vars => InflightIsQueued' /\ QueueOK'
<1> SUFFICES ASSUME TypeOK, MainOK, QueueOK, InflightIsQueued, TypeOK', [Next]_vars
             PROVE  InflightIsQueued' /\ QueueOK'
  BY DEF Inv
<1> USE DEF InflightIsQueued, QueueOK
<1>0. queue \in Seq(Event) /\ Len(queue) \in Nat /\ DOMAIN queue = 1..Len(queue)
  BY DEF TypeOK
<1>1. CASE Enqueue /\ ~ (Hash \in inflight \/ Len(queue) >= Capacity)
  <2>1. /\ main.round.event \in Event /\ Hash = main.round.event.hash /\ Hash \notin inflight
        /\ inflight' = inflight \cup {Hash} /\ queue' = Append(queue, main.round.event)
    BY <1>1, RoundFields DEF Enqueue, MainOK, InEvent, Hash
  <2>2. /\ DOMAIN queue' = 1..Len(queue) + 1
        /\ \A i \in DOMAIN queue : queue'[i] = queue[i]
        /\ queue'[Len(queue) + 1] = main.round.event
    BY <1>0, <2>1
  <2>3. DOMAIN queue' = DOMAIN queue \cup {Len(queue) + 1}
    BY <1>0, <2>2
  <2>4. \A i \in DOMAIN queue : queue[i].hash # Hash
    BY <2>1
  <2>5. /\ worker'.event = worker.event
        /\ worker'.at \in {"query", "remove"} <=> worker.at \in {"query", "remove"}
    BY <1>1, WakenFacts DEF Enqueue
  <2>6. worker.at \in {"query", "remove"} => worker.event.hash # Hash
    BY <2>1
  <2> HIDE DEF InflightIsQueued, QueueOK
  <2>7. \A i, j \in DOMAIN queue' : queue'[i].hash = queue'[j].hash => i = j
    BY <2>1, <2>2, <2>3, <2>4 DEF InflightIsQueued
  <2>8. inflight' = {queue'[i].hash : i \in DOMAIN queue'}
                      \cup (IF worker'.at \in {"query", "remove"} THEN {worker'.event.hash} ELSE {})
    <3>1. {queue'[i].hash : i \in DOMAIN queue'} = {queue[i].hash : i \in DOMAIN queue} \cup {Hash}
      BY <2>1, <2>2, <2>3
    <3>2. QED
      BY <2>1, <2>5, <3>1 DEF InflightIsQueued
  <2>9. QueueOK'
    BY <2>1, <2>2, <2>3, <2>5, <2>6 DEF QueueOK
  <2>10. QED
    BY <2>7, <2>8, <2>9 DEF InflightIsQueued
<1>2. CASE Enqueue /\ (Hash \in inflight \/ Len(queue) >= Capacity)
  BY <1>2 DEF Enqueue
<1>3. CASE Dequeue /\ ~ (~ running \/ queue = <<>>)
  <2>1. /\ worker'.at = "query" /\ worker'.event = Head(queue) /\ queue' = Tail(queue)
        /\ inflight' = inflight /\ worker.at = "run" /\ queue # <<>>
    BY <1>3 DEF Dequeue
  <2>2. /\ DOMAIN queue' = 1..Len(queue) - 1 /\ Len(queue) > 0 /\ Head(queue) = queue[1]
        /\ \A i \in DOMAIN queue' : i + 1 \in DOMAIN queue /\ queue'[i] = queue[i + 1]
    BY <1>0, <2>1
  <2>3. 1 \in DOMAIN queue /\ \A i \in DOMAIN queue : i = 1 \/ i - 1 \in DOMAIN queue'
    BY <1>0, <2>2
  <2>4. \A i \in DOMAIN queue : i = 1 \/ queue'[i - 1] = queue[i]
    BY <1>0, <2>2, <2>3
  <2>5. \A i \in DOMAIN queue' : queue'[i].hash # worker'.event.hash
    BY <1>0, <2>1, <2>2, <2>3
  <2>6. \A i, j \in DOMAIN queue' : queue'[i].hash = queue'[j].hash => i = j
    BY <1>0, <2>1, <2>2
  <2>7. inflight' = {queue'[i].hash : i \in DOMAIN queue'} \cup {worker'.event.hash}
    <3>1. inflight = {queue[i].hash : i \in DOMAIN queue}
      BY <2>1
    <3>2. {queue[i].hash : i \in DOMAIN queue}
             \subseteq {queue'[i].hash : i \in DOMAIN queue'} \cup {queue[1].hash}
      BY <2>3, <2>4
    <3>3. {queue'[i].hash : i \in DOMAIN queue'} \subseteq {queue[i].hash : i \in DOMAIN queue}
      BY <2>2
    <3>4. QED
      BY <2>1, <2>2, <2>3, <3>1, <3>2, <3>3
  <2>8. worker'.event \in Event
    BY <1>0, <2>1, <2>2, <2>3
  <2>9. QED
    BY <2>1, <2>5, <2>6, <2>7, <2>8
<1>4. CASE Dequeue /\ (~ running \/ queue = <<>>)
  <2>1. /\ UNCHANGED <<queue, inflight>>
        /\ worker.at = "run" /\ worker'.at \in {"sleep", "exit"}
    BY <1>4 DEF Dequeue, TypeOK, WorkerType
  <2>2. QED
    BY <2>1
<1>5. CASE WorkerAsks
  <2>1. UNCHANGED <<queue, inflight>> /\ worker.at = "query" /\ worker'.at = "remove"
        /\ worker'.event = worker.event
    BY <1>5 DEF WorkerAsks, TypeOK, WorkerType
  <2>2. QED
    BY <2>1
<1>6. CASE WorkerRemoves
  <2>1. /\ UNCHANGED queue /\ worker.at = "remove" /\ worker'.at = "run"
        /\ inflight' = inflight \ {worker.event.hash}
    BY <1>6 DEF WorkerRemoves, Consumer
  <2>2. QED
    BY <2>1
<1>7. CASE StopWakesWorker \/ WakeForNoReason
  <2>1. /\ UNCHANGED <<queue, inflight>> /\ worker'.event = worker.event
        /\ worker'.at \in {"query", "remove"} <=> worker.at \in {"query", "remove"}
    BY <1>7, WakenFacts DEF StopWakesWorker, WakeForNoReason
  <2>2. QED
    BY <2>1
<1>8. CASE Restart
  <2>1. queue' = <<>> /\ inflight' = {} /\ worker'.at = "run"
    BY <1>8 DEF Restart, Consumer
  <2>2. DOMAIN queue' = {}
    BY <2>1
  <2>3. QED
    BY <2>1, <2>2
<1>9. CASE UNCHANGED <<queue, inflight, worker>>
  BY <1>9
<1>10. QED
  BY <1>1, <1>2, <1>3, <1>4, <1>5, <1>6, <1>7, <1>8, <1>9 DEF Next, vars, Enrich, Expire, TryCache,
     TakeLane, WaitEnds, Judge, Look, Judged, Stop, StopWakesLane, Join, LaneTakes, LaneAsks,
     LanePosts, LaneCalls

---------------------------------------------------------------------------
(* The theorems.                                                           *)
LEMMA InitInv == Init => Inv
<1> SUFFICES ASSUME Init PROVE Inv
  OBVIOUS
<1> USE DEF Init
<1>1. TypeOK
  <2>1. 0 \in 0..MaxEvents /\ <<>> \in Seq(Event)
    BY ReputationAssumption
  <2>2. QED
    BY <2>1, Beginnings DEF TypeOK
<1>2. MainOK /\ LaneOK /\ LanerOK /\ HeardIsOwn
  BY DEF MainOK, LaneOK, LanerOK, HeardIsOwn, InEvent, MainIdle, FreeLane, LaneBegins
<1>3. AskedOnce /\ ConclusionsReachOne
  BY RoundFields DEF AskedOnce, Asked, ConclusionsReachOne, FreeLane, LaneBegins
<1>4. InflightIsQueued /\ QueueOK
  BY DEF InflightIsQueued, QueueOK, Consumer
<1>5. QED
  BY <1>1, <1>2, <1>3, <1>4 DEF Inv

(* The invariant the theorems rest on.                                     *)
LEMMA Invariance == Spec => []Inv
<1>1. Inv /\ [Next]_vars => Inv'
  BY TypeStep, MainStep, LaneStep, ConclusionsStep, QueueStep DEF Inv
<1>2. QED
  BY InitInv, <1>1, PTL DEF Spec

(* Every variable of the three threads keeps its type.                     *)
THEOREM ReputationTypeCorrect == Spec => []TypeOK
<1>1. Inv => TypeOK
  BY DEF Inv
<1>2. QED
  BY Invariance, <1>1, PTL

(* An event is judged by an answer about its own file: enrich never takes  *)
(* the late answer to a round that an earlier event gave up.               *)
THEOREM AnswersAreOwn == Spec => []HeardIsOwn
<1>1. Inv => HeardIsOwn
  BY DEF Inv
<1>2. QED
  BY Invariance, <1>1, PTL

(* A malicious file the lane found is told to the event that waits or by   *)
(* the callback, never by both, and until then it is on its way to one.    *)
THEOREM ConclusionsAreToldOnce == Spec => []ConclusionsReachOne
<1>1. Inv => ConclusionsReachOne
  BY DEF Inv
<1>2. QED
  BY Invariance, <1>1, PTL

(* No round is put to the lane a second time, so that the callback and the *)
(* event can be told apart at all.                                         *)
TakenIsNew == [][TakeLane /\ ~ lane.busy => main.round \notin Asked]_vars

THEOREM RoundsAreAskedOnce == Spec => TakenIsNew
<1>1. Inv /\ [Next]_vars => [TakeLane /\ ~ lane.busy => main.round \notin Asked]_vars
  BY DEF Inv, TakeLane, AskedOnce, MainOK, InEvent
<1>2. QED
  BY Invariance, <1>1, PTL DEF Spec, TakenIsNew

(* What is in flight waits in the queue, once, or is being asked about.    *)
THEOREM NoneIsLeftInFlight == Spec => []InflightIsQueued
<1>1. Inv => InflightIsQueued
  BY DEF Inv
<1>2. QED
  BY Invariance, <1>1, PTL

---------------------------------------------------------------------------
(* The limits.                                                             *)
There == {h \in Hashes : cache[h] # Nothing}

(* The queue keeps to its capacity.  The cache keeps to its own, except    *)
(* that malicious entries are never dropped: above it there are no others. *)
WithinLimits ==
    /\ Len(queue) <= Capacity
    /\ IsFiniteSet(There)
    /\ Cardinality(There) <= MaxEntries \/ \A h \in There : cache[h].verdict = "malicious"

LEMMA StoreKeepsLimit ==
    ASSUME TypeOK, WithinLimits, NEW answer \in Answer, Store(answer)
    PROVE  /\ IsFiniteSet(There')
           /\ \/ Cardinality(There') <= MaxEntries
              \/ \A h \in There' : cache'[h].verdict = "malicious"
<1>1. CASE answer.verdict = "none"
  BY <1>1 DEF Store, There, WithinLimits
<1>2. CASE answer.verdict # "none"
  <2> DEFINE full    == [cache EXCEPT ![answer.hash] = [verdict |-> answer.verdict, fresh |-> TRUE]]
             there   == {h \in Hashes : full[h] # Nothing}
             spare   == {h \in there : full[h].verdict # "malicious"}
             surplus == IF Cardinality(there) > MaxEntries THEN Cardinality(there) - MaxEntries ELSE 0
  <2>1. PICK gone \in SUBSET spare :
              /\ \/ Cardinality(gone) = surplus
                 \/ gone = spare /\ Cardinality(spare) < surplus
              /\ cache' = [h \in Hashes |-> IF h \in gone THEN Nothing ELSE full[h]]
    BY <1>2 DEF Store
  <2>2. IsFiniteSet(there)
    <3>1. answer.hash \in Hashes
      BY DEF Answer
    <3>2. there \subseteq There \cup {answer.hash}
      BY <3>1 DEF There, TypeOK
    <3>3. IsFiniteSet(There \cup {answer.hash})
      BY FS_AddElement DEF WithinLimits
    <3> HIDE DEF there
    <3>4. QED
      BY <3>2, <3>3, FS_Subset
  <2>3. There' = there \ gone
    BY <2>1 DEF There
  <2>4. \A h \in There' : cache'[h] = full[h]
    BY <2>1, <2>3 DEF There
  <2> HIDE DEF full
  <2>5. CASE gone = spare
    <3>1. \A h \in There' : cache'[h].verdict = "malicious"
      BY <2>3, <2>4, <2>5
    <3>2. QED
      BY <2>2, <2>3, <3>1, FS_Difference
  <2>6. CASE Cardinality(gone) = surplus
    <3>1. /\ IsFiniteSet(there \ gone)
          /\ Cardinality(there \ gone) = Cardinality(there) - Cardinality(there \cap gone)
      BY <2>2, FS_Difference
    <3>2. there \cap gone = gone /\ Cardinality(there) \in Nat
      BY <2>1, <2>2, FS_CardinalityType
    <3> HIDE DEF there
    <3>c. Cardinality(there \ gone) = Cardinality(there) - surplus
      BY <2>6, <3>1, <3>2
    <3>3. Cardinality(there \ gone) <= MaxEntries
      BY <3>c, <3>2, ReputationAssumption
    <3>4. QED
      BY <2>3, <3>1, <3>3
  <2>7. QED
    BY <2>1, <2>5, <2>6
<1>3. QED
  BY <1>1, <1>2

LEMMA LimitsStep == Inv /\ WithinLimits /\ [Next]_vars => WithinLimits'
<1> SUFFICES ASSUME TypeOK, LaneOK, LanerOK, QueueOK, WithinLimits, [Next]_vars PROVE WithinLimits'
  BY DEF Inv
<1>0. Len(queue) \in Nat /\ Capacity \in Nat /\ queue \in Seq(Event)
  BY ReputationAssumption DEF TypeOK
<1>1. Len(queue') <= Capacity
  <2>1. CASE Enqueue
    BY <1>0, <2>1 DEF Enqueue, WithinLimits
  <2>2. CASE Dequeue
    BY <1>0, <2>2 DEF Dequeue, WithinLimits
  <2>3. CASE Restart
    BY <1>0, <2>3 DEF Restart
  <2>4. CASE UNCHANGED queue
    BY <2>4 DEF WithinLimits
  <2>5. QED
    BY <2>1, <2>2, <2>3, <2>4 DEF Next, vars, Enrich, Expire, TryCache, TakeLane, WaitEnds, Judge,
       Look, Judged, Stop, StopWakesWorker, StopWakesLane, Join, LaneTakes, LaneAsks, LanePosts,
       LaneCalls, WorkerAsks, WorkerRemoves, WakeForNoReason
<1>2. /\ IsFiniteSet(There')
      /\ \/ Cardinality(There') <= MaxEntries
         \/ \A h \in There' : cache'[h].verdict = "malicious"
  <2>1. CASE LaneAsks
    <3>1. PICK v \in Verdicts \cup {"none"} :
            Store([hash |-> laner.round.event.hash, verdict |-> v])
      BY <2>1 DEF LaneAsks
    <3>2. [hash |-> laner.round.event.hash, verdict |-> v] \in Answer
      BY <2>1, RoundFields DEF LaneAsks, LanerOK, LaneOK, Answer
    <3>3. QED
      BY <3>1, <3>2, StoreKeepsLimit
  <2>2. CASE WorkerAsks
    <3>1. PICK v \in Verdicts \cup {"none"} :
            Store([hash |-> worker.event.hash, verdict |-> v])
      BY <2>2 DEF WorkerAsks
    <3>2. [hash |-> worker.event.hash, verdict |-> v] \in Answer
      BY <2>2 DEF WorkerAsks, QueueOK, Event, Answer
    <3>3. QED
      BY <3>1, <3>2, StoreKeepsLimit
  <2>3. CASE \E h \in Hashes : Expire(h)
    <3> PICK h \in Hashes : Expire(h)
      BY <2>3
    <3>1. h \in There /\ cache[h].verdict # "malicious"
      BY DEF Expire, Fresh, There
    <3>2. There' \subseteq There
      BY <3>1 DEF Expire, There, TypeOK
    <3>3. Cardinality(There) <= MaxEntries
      BY <3>1 DEF WithinLimits
    <3>4. /\ IsFiniteSet(There') /\ Cardinality(There') <= Cardinality(There)
          /\ Cardinality(There') \in Nat /\ Cardinality(There) \in Nat
      BY <3>2, FS_Subset, FS_CardinalityType DEF WithinLimits
    <3>5. QED
      BY <3>3, <3>4, ReputationAssumption
  <2>4. CASE UNCHANGED cache
    BY <2>4 DEF There, WithinLimits
  <2>5. QED
    BY <2>1, <2>2, <2>3, <2>4 DEF Next, vars, Enrich, TryCache, TakeLane, WaitEnds, Judge,
       Look, Enqueue, Judged, Stop, StopWakesWorker, StopWakesLane, Join, Restart, LaneTakes,
       LanePosts, LaneCalls, Dequeue, WorkerRemoves, WakeForNoReason
<1>3. QED
  BY <1>1, <1>2 DEF WithinLimits

(* Neither the queue nor the cache outgrows its limit, but for the         *)
(* malicious entries that the cache never drops.                           *)
THEOREM LimitsHold == Spec => []WithinLimits
<1>1. Init => WithinLimits
  <2> SUFFICES ASSUME Init PROVE WithinLimits
    OBVIOUS
  <2>1. There = {} /\ Len(queue) = 0
    BY DEF Init, There
  <2>2. QED
    BY <2>1, FS_EmptySet, ReputationAssumption DEF WithinLimits
<1>2. QED
  BY Invariance, LimitsStep, <1>1, PTL DEF Spec
=============================================================================
