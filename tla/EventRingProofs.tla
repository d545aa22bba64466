-------------------------- MODULE EventRingProofs ---------------------------
(***************************************************************************)
(* For any callbacks and any ring size: the sender never sleeps over an    *)
(* event nobody will wake it for, it sends only on an open port, and a     *)
(* registered callback never writes into a freed ring; and the ring is the *)
(* queue EventQueue describes.                                             *)
(***************************************************************************)
EXTENDS EventRing, FiniteSetTheorems, SequenceTheorems, TLAPS

(* The steps of loading and unloading at which the sender has exited.      *)
AfterJoin == {"teardown", "rundown", "close", "server", "drain"}

(* What the stages of the driver say of its parts.                         *)
Stages ==
    /\ driver \in AfterJoin => sender.at = "exit"
    /\ driver = "absent" => sender.at = "none"
    /\ allocated = (driver \notin AfterJoin \cup {"absent"})
    /\ \A p \in Registered : callback[p] # "out" => driver \in {"register", "up", "unregister"}

(* The sender is inside the port's protection between Acquire and Release, *)
(* and a port is closed only when nobody is and nobody gets in.            *)
PortGuarded ==
    /\ users = IF sender.at \in {"again", "send", "release"} THEN 1 ELSE 0
    /\ link \in {"inside", "close"} => guard = "down"
    /\ link = "close" => users = 0
    /\ SendsOnOpenPort

(* From its announcement on the sender is idle, or somebody who found it   *)
(* idle is about to wake it; over an event it did not see, somebody comes. *)
WakeupsKept ==
    /\ sender.at \in {"look", "ask", "wait"} /\ ~ signal =>
           idle \/ \E p \in Callbacks : callback[p] = "set"
    /\ (sender.at = "wait" \/ (sender.at = "ask" /\ sender.empty)) /\ head # tail /\ ~ signal =>
           \E p \in Callbacks : callback[p] = "set" \/ (callback[p] = "wake" /\ idle)

(* The place behind one of the ring is one of the ring.                    *)
LEMMA AfterInIndex == ASSUME NEW i \in Index PROVE After(i) \in Index
<1>1. Cap \in Nat /\ Cap > 0 BY RingAssumption
<1>2. i + 1 \in Nat BY <1>1 DEF Index
<1>3. (i + 1) % Cap \in 0 .. Cap - 1 BY <1>1, <1>2
<1> QED BY <1>3 DEF After, Index

(* The sender at another place is still a sender.                          *)
LEMMA SenderMoves ==
    ASSUME TypeOK
    PROVE  \A x \in Place : [sender EXCEPT !.at = x] \in Sender
<1> SUFFICES ASSUME NEW x \in Place
             PROVE  [sender EXCEPT !.at = x] \in Sender
  OBVIOUS
<1>1. sender \in Sender BY DEF TypeOK
<1> QED BY <1>1 DEF Sender

(* Every step keeps every variable in its type.                            *)
LEMMA TypeStep == TypeOK /\ PortGuarded /\ [Next]_vars => TypeOK'
<1> SUFFICES ASSUME TypeOK /\ PortGuarded, [Next]_vars PROVE TypeOK'
  OBVIOUS
<1> USE DEF ring, wakeups, conn, load, vars
<1>1. ASSUME NEW p \in Callbacks, Report(p) PROVE TypeOK'
  BY <1>1 DEF Report, TypeOK
<1>2. ASSUME NEW p \in Callbacks, Fill(p) PROVE TypeOK'
  <2>1. callback' \in [Callbacks -> {"out", "fill", "full", "wake", "set"}]
    BY <1>2 DEF Fill, TypeOK
  <2>2. head' \in Index /\ slots' \in [Index -> Nat] /\ nextId' \in Nat
    BY AfterInIndex, <1>2 DEF Fill, TypeOK
  <2> QED BY <1>2, <2>1, <2>2 DEF Fill, TypeOK
<1>3. ASSUME NEW p \in Callbacks, Count(p) PROVE TypeOK'
  BY <1>3 DEF Count, TypeOK
<1>4. ASSUME NEW p \in Callbacks, Claim(p) PROVE TypeOK'
  <2>1. callback' \in [Callbacks -> {"out", "fill", "full", "wake", "set"}]
    BY <1>4 DEF Claim, TypeOK
  <2>2. idle' \in BOOLEAN
    BY <1>4 DEF Claim
  <2> QED BY <1>4, <2>1, <2>2 DEF Claim, TypeOK
<1>5. ASSUME NEW p \in Callbacks, Wake(p) PROVE TypeOK'
  BY <1>5 DEF Wake, TypeOK
<1>6. CASE Announce
  <2>1. sender' \in Sender
    BY SenderMoves, <1>6 DEF Announce, GoTo, Place
  <2> QED BY <1>6, <2>1 DEF Announce, TypeOK
<1>7. CASE Look
  <2>1. sender' \in Sender
    BY <1>7 DEF Look, Place, Sender, TypeOK
  <2> QED BY <1>7, <2>1 DEF Look, TypeOK
<1>8. CASE Ask
  <2>1. sender' \in Sender
    BY SenderMoves, <1>8 DEF Ask, GoTo, Place
  <2> QED BY <1>8, <2>1 DEF Ask, TypeOK
<1>9. CASE Awaken
  <2>1. sender' \in Sender
    BY SenderMoves, <1>9 DEF Awaken, GoTo, Place
  <2>2. signal' \in BOOLEAN
    BY <1>9 DEF Awaken
  <2> QED BY <1>9, <2>1, <2>2 DEF Awaken, TypeOK
<1>10. CASE Awake
  <2>1. sender' \in Sender
    BY SenderMoves, <1>10 DEF Awake, GoTo, Place
  <2>2. idle' \in BOOLEAN
    BY <1>10 DEF Awake
  <2> QED BY <1>10, <2>1, <2>2 DEF Awake, TypeOK
<1>11. CASE Take
  <2>1. CASE head = tail
    <3>1. sender' \in Sender
      BY SenderMoves, <1>11, <2>1 DEF Take, GoTo, Place
    <3> QED BY <1>11, <2>1, <3>1 DEF Take, TypeOK
  <2>2. CASE head # tail
    <3>1. slots[tail] \in Nat BY DEF TypeOK
    <3>2. sender' = [at |-> "try", empty |-> FALSE, event |-> slots[tail]]
      BY <1>11, <2>2 DEF Take
    <3>3. sender' \in Sender
      BY <3>1, <3>2 DEF Sender, Place
    <3>4. handed' = Append(handed, slots[tail]) /\ tail' = After(tail)
      BY <1>11, <2>2 DEF Take
    <3>5. handed' \in Seq(Nat)
      BY <3>1, <3>4 DEF TypeOK
    <3>6. tail' \in Index
      BY AfterInIndex, <3>4 DEF TypeOK
    <3> QED BY <1>11, <3>3, <3>5, <3>6 DEF Take, TypeOK
  <2> QED BY <2>1, <2>2
<1>12. CASE Try
  <2>1. sender' \in Sender
    BY SenderMoves, <1>12 DEF Try, GoTo, Place
  <2> QED BY <1>12, <2>1 DEF Try, TypeOK
<1>13. CASE Acquire
  <2>1. sender' \in Sender
    BY SenderMoves, <1>13 DEF Acquire, GoTo, Place
  <2>2. users' \in 0..1
    BY <1>13 DEF Acquire, TypeOK, PortGuarded
  <2> QED BY <1>13, <2>1, <2>2 DEF Acquire, TypeOK
<1>14. CASE TryAgain
  <2>1. sender' \in Sender
    BY SenderMoves, <1>14 DEF TryAgain, GoTo, Place
  <2> QED BY <1>14, <2>1 DEF TryAgain, TypeOK
<1>15. CASE Send
  <2>1. sender' \in Sender
    BY SenderMoves, <1>15 DEF Send, GoTo, Place
  <2> QED BY <1>15, <2>1 DEF Send, TypeOK
<1>16. CASE Release
  <2>1. sender' \in Sender
    BY SenderMoves, <1>16 DEF Release, GoTo, Place
  <2>2. users' \in 0..1
    BY <1>16 DEF Release, TypeOK, PortGuarded
  <2> QED BY <1>16, <2>1, <2>2 DEF Release, TypeOK
<1>17. CASE Stopping
  <2>1. sender' \in Sender
    BY SenderMoves, <1>17 DEF Stopping, GoTo, Place
  <2> QED BY <1>17, <2>1 DEF Stopping, TypeOK
<1>18. CASE Protect
  BY <1>18 DEF Protect, TypeOK
<1>19. CASE Activate
  BY <1>19 DEF Activate, TypeOK
<1>20. CASE RunDown
  BY <1>20 DEF RunDown, TypeOK
<1>21. CASE Released
  BY <1>21 DEF Released, TypeOK
<1>22. CASE Close
  BY <1>22 DEF Close, TypeOK
<1>23. CASE Unregistered
  BY <1>23 DEF Unregistered, Step, TypeOK
<1>24. CASE StopQueue
  BY <1>24 DEF StopQueue, Step, TypeOK
<1>25. CASE WakeSender
  BY <1>25 DEF WakeSender, Step, TypeOK
<1>26. CASE FreeRing
  BY <1>26 DEF FreeRing, Step, TypeOK
<1>27. CASE TearDown
  BY <1>27 DEF TearDown, Step, TypeOK
<1>28. CASE TearDownWaits
  BY <1>28 DEF TearDownWaits, Step, TypeOK
<1>29. CASE TearDownCloses
  BY <1>29 DEF TearDownCloses, Step, TypeOK
<1>30. CASE CloseServer
  BY <1>30 DEF CloseServer, Step, TypeOK
<1>31. CASE Gone
  <2>1. sender' \in Sender /\ handed' \in Seq(Nat)
    <3>1. sender' = [at |-> "none", empty |-> FALSE, event |-> 0] /\ handed' = <<>>
      BY <1>31 DEF Gone, NewSender
    <3> QED BY <3>1 DEF Sender, Place
  <2>2. slots' \in [Index -> Nat] /\ head' \in Index /\ tail' \in Index
    BY RingAssumption, <1>31 DEF Gone, Index
  <2>3. /\ idle' \in BOOLEAN /\ signal' \in BOOLEAN /\ stop' \in BOOLEAN
        /\ active' \in BOOLEAN /\ client' \in BOOLEAN /\ filtering' \in BOOLEAN
    BY <1>31 DEF Gone
  <2>4. nextId' = 0 /\ dropped' = 0 /\ port' = "none" /\ guard' = "down" /\ driver' = "absent"
    BY <1>31 DEF Gone, Step
  <2>5. UNCHANGED <<callback, link, users, allocated>>
    BY <1>31 DEF Gone
  <2> QED BY <2>1, <2>2, <2>3, <2>4, <2>5 DEF TypeOK
<1>32. CASE Connect
  BY <1>32 DEF Connect, TypeOK
<1>33. CASE Disconnect
  <2>1. active' \in BOOLEAN /\ client' \in BOOLEAN
    BY <1>33 DEF Disconnect
  <2> QED BY <1>33, <2>1 DEF Disconnect, TypeOK
<1>34. CASE Load
  <2>1. sender' \in Sender
    BY <1>34 DEF Load, NewSender, Sender, Place
  <2>2. allocated' \in BOOLEAN
    BY <1>34 DEF Load
  <2> QED BY <1>34, <2>1, <2>2 DEF Load, Step, TypeOK
<1>35. CASE StartFiltering
  <2>1. filtering' \in BOOLEAN
    BY <1>35 DEF StartFiltering, TypeOK
  <2> QED BY <1>35, <2>1 DEF StartFiltering, Step, TypeOK
<1>36. CASE Register
  BY <1>36 DEF Register, Step, TypeOK
<1>37. CASE Unload
  BY <1>37 DEF Unload, Step, TypeOK
<1>38. CASE UNCHANGED vars
  BY <1>38 DEF vars, TypeOK
<1> QED
  BY <1>1, <1>2, <1>3, <1>4, <1>5, <1>6, <1>7, <1>8, <1>9, <1>10, <1>11, <1>12, <1>13, <1>14,
     <1>15, <1>16, <1>17, <1>18, <1>19, <1>20, <1>21, <1>22, <1>23, <1>24, <1>25, <1>26, <1>27,
     <1>28, <1>29, <1>30, <1>31, <1>32, <1>33, <1>34, <1>35, <1>36, <1>37, <1>38
     DEF Next, Calls, Sends, Links, Unloading, TypeOK

(* Every step keeps the driver's stages in order.                          *)
LEMMA StagesStep == TypeOK /\ Stages /\ [Next]_vars => Stages'
<1> SUFFICES ASSUME TypeOK /\ Stages, [Next]_vars PROVE Stages'
  OBVIOUS
<1> USE DEF TypeOK, Place, Sender, Stages, AfterJoin, Callbacks, ring, wakeups, conn, load, vars
<1>1. ASSUME NEW p \in Callbacks, Report(p) PROVE Stages'
  BY RingAssumption, <1>1 DEF Report, MayRun
<1>2. ASSUME NEW p \in Callbacks, Fill(p) PROVE Stages'
  BY <1>2 DEF Fill
<1>3. ASSUME NEW p \in Callbacks, Count(p) PROVE Stages'
  BY <1>3 DEF Count
<1>4. ASSUME NEW p \in Callbacks, Claim(p) PROVE Stages'
  BY <1>4 DEF Claim
<1>5. ASSUME NEW p \in Callbacks, Wake(p) PROVE Stages'
  BY <1>5 DEF Wake
<1>6. CASE Announce
  BY <1>6 DEF Announce, GoTo
<1>7. CASE Look
  BY <1>7 DEF Look
<1>8. CASE Ask
  BY <1>8 DEF Ask, GoTo
<1>9. CASE Awaken
  BY <1>9 DEF Awaken, GoTo
<1>10. CASE Awake
  BY <1>10 DEF Awake, GoTo
<1>11. CASE Take
  BY <1>11 DEF Take, GoTo
<1>12. CASE Try
  BY <1>12 DEF Try, GoTo
<1>13. CASE Acquire
  BY <1>13 DEF Acquire, GoTo
<1>14. CASE TryAgain
  BY <1>14 DEF TryAgain, GoTo
<1>15. CASE Send
  BY <1>15 DEF Send, GoTo
<1>16. CASE Release
  BY <1>16 DEF Release, GoTo
<1>17. CASE Stopping
  BY <1>17 DEF Stopping, GoTo
<1>18. CASE Protect
  BY <1>18 DEF Protect
<1>19. CASE Activate
  BY <1>19 DEF Activate
<1>20. CASE RunDown
  BY <1>20 DEF RunDown
<1>21. CASE Released
  BY <1>21 DEF Released
<1>22. CASE Close
  BY <1>22 DEF Close
<1>23. CASE Unregistered
  BY <1>23 DEF Unregistered, Step
<1>24. CASE StopQueue
  BY <1>24 DEF StopQueue, Step
<1>25. CASE WakeSender
  BY <1>25 DEF WakeSender, Step
<1>26. CASE FreeRing
  BY <1>26 DEF FreeRing, Step
<1>27. CASE TearDown
  BY <1>27 DEF TearDown, Step
<1>28. CASE TearDownWaits
  BY <1>28 DEF TearDownWaits, Step
<1>29. CASE TearDownCloses
  BY <1>29 DEF TearDownCloses, Step
<1>30. CASE CloseServer
  BY <1>30 DEF CloseServer, Step
<1>31. CASE Gone
  BY <1>31 DEF Gone, Step, NewSender
<1>32. CASE Connect
  BY <1>32 DEF Connect
<1>33. CASE Disconnect
  BY <1>33 DEF Disconnect
<1>34. CASE Load
  BY <1>34 DEF Load, Step, NewSender
<1>35. CASE StartFiltering
  BY <1>35 DEF StartFiltering, Step
<1>36. CASE Register
  BY <1>36 DEF Register, Step
<1>37. CASE Unload
  BY <1>37 DEF Unload, Step
<1>38. CASE UNCHANGED vars
  BY <1>38
<1> QED
  BY <1>1, <1>2, <1>3, <1>4, <1>5, <1>6, <1>7, <1>8, <1>9, <1>10, <1>11, <1>12, <1>13, <1>14,
     <1>15, <1>16, <1>17, <1>18, <1>19, <1>20, <1>21, <1>22, <1>23, <1>24, <1>25, <1>26, <1>27,
     <1>28, <1>29, <1>30, <1>31, <1>32, <1>33, <1>34, <1>35, <1>36, <1>37, <1>38
     DEF Next, Calls, Sends, Links, Unloading

(* Every step keeps the port's protection.                                 *)
LEMMA PortStep == TypeOK /\ Stages /\ PortGuarded /\ [Next]_vars => PortGuarded'
<1> SUFFICES ASSUME TypeOK /\ Stages /\ PortGuarded, [Next]_vars PROVE PortGuarded'
  OBVIOUS
<1> USE DEF TypeOK, Place, Sender, Stages, AfterJoin, PortGuarded, SendsOnOpenPort, ring, wakeups, conn, load, vars
<1>1. ASSUME NEW p \in Callbacks, Report(p) PROVE PortGuarded'
  BY <1>1 DEF Report
<1>2. ASSUME NEW p \in Callbacks, Fill(p) PROVE PortGuarded'
  BY <1>2 DEF Fill
<1>3. ASSUME NEW p \in Callbacks, Count(p) PROVE PortGuarded'
  BY <1>3 DEF Count
<1>4. ASSUME NEW p \in Callbacks, Claim(p) PROVE PortGuarded'
  BY <1>4 DEF Claim
<1>5. ASSUME NEW p \in Callbacks, Wake(p) PROVE PortGuarded'
  BY <1>5 DEF Wake
<1>6. CASE Announce
  BY <1>6 DEF Announce, GoTo
<1>7. CASE Look
  BY <1>7 DEF Look
<1>8. CASE Ask
  BY <1>8 DEF Ask, GoTo
<1>9. CASE Awaken
  BY <1>9 DEF Awaken, GoTo
<1>10. CASE Awake
  BY <1>10 DEF Awake, GoTo
<1>11. CASE Take
  BY <1>11 DEF Take, GoTo
<1>12. CASE Try
  BY <1>12 DEF Try, GoTo
<1>13. CASE Acquire
  BY <1>13 DEF Acquire, GoTo
<1>14. CASE TryAgain
  BY <1>14 DEF TryAgain, GoTo, Connected
<1>15. CASE Send
  BY <1>15 DEF Send, GoTo
<1>16. CASE Release
  BY <1>16 DEF Release, GoTo
<1>17. CASE Stopping
  BY <1>17 DEF Stopping, GoTo
<1>18. CASE Protect
  BY <1>18 DEF Protect
<1>19. CASE Activate
  BY <1>19 DEF Activate
<1>20. CASE RunDown
  BY <1>20 DEF RunDown
<1>21. CASE Released
  BY <1>21 DEF Released
<1>22. CASE Close
  BY <1>22 DEF Close
<1>23. CASE Unregistered
  BY <1>23 DEF Unregistered, Step
<1>24. CASE StopQueue
  BY <1>24 DEF StopQueue, Step
<1>25. CASE WakeSender
  BY <1>25 DEF WakeSender, Step
<1>26. CASE FreeRing
  BY <1>26 DEF FreeRing, Step
<1>27. CASE TearDown
  BY <1>27 DEF TearDown, Step
<1>28. CASE TearDownWaits
  BY <1>28 DEF TearDownWaits, Step
<1>29. CASE TearDownCloses
  BY <1>29 DEF TearDownCloses, Step
<1>30. CASE CloseServer
  BY <1>30 DEF CloseServer, Step
<1>31. CASE Gone
  BY <1>31 DEF Gone, Step, NewSender
<1>32. CASE Connect
  BY <1>32 DEF Connect
<1>33. CASE Disconnect
  BY <1>33 DEF Disconnect
<1>34. CASE Load
  BY <1>34 DEF Load, Step, NewSender
<1>35. CASE StartFiltering
  BY <1>35 DEF StartFiltering, Step
<1>36. CASE Register
  BY <1>36 DEF Register, Step
<1>37. CASE Unload
  BY <1>37 DEF Unload, Step
<1>38. CASE UNCHANGED vars
  BY <1>38
<1> QED
  BY <1>1, <1>2, <1>3, <1>4, <1>5, <1>6, <1>7, <1>8, <1>9, <1>10, <1>11, <1>12, <1>13, <1>14,
     <1>15, <1>16, <1>17, <1>18, <1>19, <1>20, <1>21, <1>22, <1>23, <1>24, <1>25, <1>26, <1>27,
     <1>28, <1>29, <1>30, <1>31, <1>32, <1>33, <1>34, <1>35, <1>36, <1>37, <1>38
     DEF Next, Calls, Sends, Links, Unloading

(* Every step keeps a wake-up on its way.                                  *)
LEMMA WakeupStep == TypeOK /\ Stages /\ WakeupsKept /\ [Next]_vars => WakeupsKept'
<1> SUFFICES ASSUME TypeOK /\ Stages /\ WakeupsKept, [Next]_vars PROVE WakeupsKept'
  OBVIOUS
<1> USE DEF TypeOK, Place, Sender, Stages, AfterJoin, WakeupsKept, ring, wakeups, conn, load, vars
<1>1. ASSUME NEW p \in Callbacks, Report(p) PROVE WakeupsKept'
  BY <1>1 DEF Report
<1>2. ASSUME NEW p \in Callbacks, Fill(p) PROVE WakeupsKept'
  BY <1>2 DEF Fill
<1>3. ASSUME NEW p \in Callbacks, Count(p) PROVE WakeupsKept'
  BY <1>3 DEF Count
<1>4. ASSUME NEW p \in Callbacks, Claim(p) PROVE WakeupsKept'
  BY <1>4 DEF Claim
<1>5. ASSUME NEW p \in Callbacks, Wake(p) PROVE WakeupsKept'
  BY <1>5 DEF Wake
<1>6. CASE Announce
  BY <1>6 DEF Announce, GoTo
<1>7. CASE Look
  BY <1>7 DEF Look
<1>8. CASE Ask
  BY <1>8 DEF Ask, GoTo
<1>9. CASE Awaken
  BY <1>9 DEF Awaken, GoTo
<1>10. CASE Awake
  BY <1>10 DEF Awake, GoTo
<1>11. CASE Take
  BY <1>11 DEF Take, GoTo
<1>12. CASE Try
  BY <1>12 DEF Try, GoTo
<1>13. CASE Acquire
  BY <1>13 DEF Acquire, GoTo
<1>14. CASE TryAgain
  BY <1>14 DEF TryAgain, GoTo
<1>15. CASE Send
  BY <1>15 DEF Send, GoTo
<1>16. CASE Release
  BY <1>16 DEF Release, GoTo
<1>17. CASE Stopping
  BY <1>17 DEF Stopping, GoTo
<1>18. CASE Protect
  BY <1>18 DEF Protect
<1>19. CASE Activate
  BY <1>19 DEF Activate
<1>20. CASE RunDown
  BY <1>20 DEF RunDown
<1>21. CASE Released
  BY <1>21 DEF Released
<1>22. CASE Close
  BY <1>22 DEF Close
<1>23. CASE Unregistered
  BY <1>23 DEF Unregistered, Step
<1>24. CASE StopQueue
  BY <1>24 DEF StopQueue, Step
<1>25. CASE WakeSender
  BY <1>25 DEF WakeSender, Step
<1>26. CASE FreeRing
  BY <1>26 DEF FreeRing, Step
<1>27. CASE TearDown
  BY <1>27 DEF TearDown, Step
<1>28. CASE TearDownWaits
  BY <1>28 DEF TearDownWaits, Step
<1>29. CASE TearDownCloses
  BY <1>29 DEF TearDownCloses, Step
<1>30. CASE CloseServer
  BY <1>30 DEF CloseServer, Step
<1>31. CASE Gone
  BY <1>31 DEF Gone, Step, NewSender
<1>32. CASE Connect
  BY <1>32 DEF Connect
<1>33. CASE Disconnect
  BY <1>33 DEF Disconnect
<1>34. CASE Load
  BY <1>34 DEF Load, Step, NewSender
<1>35. CASE StartFiltering
  BY <1>35 DEF StartFiltering, Step
<1>36. CASE Register
  BY <1>36 DEF Register, Step
<1>37. CASE Unload
  BY <1>37 DEF Unload, Step
<1>38. CASE UNCHANGED vars
  BY <1>38
<1> QED
  BY <1>1, <1>2, <1>3, <1>4, <1>5, <1>6, <1>7, <1>8, <1>9, <1>10, <1>11, <1>12, <1>13, <1>14,
     <1>15, <1>16, <1>17, <1>18, <1>19, <1>20, <1>21, <1>22, <1>23, <1>24, <1>25, <1>26, <1>27,
     <1>28, <1>29, <1>30, <1>31, <1>32, <1>33, <1>34, <1>35, <1>36, <1>37, <1>38
     DEF Next, Calls, Sends, Links, Unloading

(* The inductive invariant and what it rests on at the start.              *)
LEMMA RingInvariant == Spec => [](TypeOK /\ Stages /\ PortGuarded /\ WakeupsKept)
<1>1. Init => TypeOK
  <2> SUFFICES ASSUME Init PROVE TypeOK
    OBVIOUS
  <2>1. 0 \in Index /\ slots \in [Index -> Nat]
    BY RingAssumption DEF Init, Index
  <2>2. sender \in Sender /\ handed \in Seq(Nat)
    BY DEF Init, NewSender, Sender, Place
  <2>3. callback \in [Callbacks -> {"out", "fill", "full", "wake", "set"}]
    BY DEF Init
  <2>4. /\ allocated \in BOOLEAN /\ idle \in BOOLEAN /\ signal \in BOOLEAN /\ stop \in BOOLEAN
        /\ active \in BOOLEAN /\ client \in BOOLEAN /\ filtering \in BOOLEAN
    BY DEF Init
  <2> QED BY <2>1, <2>2, <2>3, <2>4 DEF Init, TypeOK
<1>2. Init => Stages
  BY DEF Init, NewSender, Stages, AfterJoin, Callbacks
<1>3. Init => PortGuarded
  BY DEF Init, NewSender, PortGuarded, SendsOnOpenPort
<1>4. Init => WakeupsKept
  BY DEF Init, NewSender, WakeupsKept
<1> QED
  BY <1>1, <1>2, <1>3, <1>4, TypeStep, StagesStep, PortStep, WakeupStep, PTL DEF Spec

(* Every variable stays in its type: in particular the indexes stay in the *)
(* ring, and the port's protection counts the one sender.                  *)
THEOREM RingTypeCorrect == Spec => []TypeOK
BY RingInvariant, PTL

(* The sender never sleeps over an event nobody is about to wake it for:   *)
(* the flag it raises before it looks and the swap of the callbacks meet   *)
(* in every order.                                                         *)
THEOREM NoLostWakeup == Spec => []WakeupIsComing
<1>1. WakeupsKept => WakeupIsComing BY DEF WakeupsKept, WakeupIsComing
<1> QED BY <1>1, RingInvariant, PTL

(* However connections come and go, the sender sends on an open port.      *)
THEOREM SendsOnlyOnOpenPort == Spec => []SendsOnOpenPort
<1>1. PortGuarded => SendsOnOpenPort BY DEF PortGuarded
<1> QED BY <1>1, RingInvariant, PTL

(* The callbacks that are taken back before the ring is freed never write  *)
(* into a freed ring; those of the file filter are not among them.         *)
RegisteredWriteInTime == \A p \in Registered : callback[p] = "fill" => allocated
THEOREM RegisteredNeverWriteAfterFree == Spec => []RegisteredWriteInTime
<1>1. Stages => RegisteredWriteInTime BY DEF Stages, RegisteredWriteInTime, AfterJoin
<1> QED BY <1>1, RingInvariant, PTL

-----------------------------------------------------------------------------
(* The ring is the queue it stands for.                                     *)

(* Counting around the ring, without the remainder.                        *)
LEMMA Around ==
    ASSUME NEW a \in Int
    PROVE  /\ a \in 0 .. Cap - 1 => a % Cap = a
           /\ a \in Cap .. Cap + Cap - 1 => a % Cap = a - Cap
           /\ a \in -Cap .. -1 => a % Cap = a + Cap
BY RingAssumption

(* What the remainders come to: how many wait, and where the i-th lies.    *)
HeldOf(h, t) == IF h >= t THEN h - t ELSE h - t + Cap
SpotOf(t, i) == IF t + i - 1 < Cap THEN t + i - 1 ELSE t + i - 1 - Cap

(* The ring has at least two slots.                                        *)
LEMMA CapIsNat == Cap \in Nat /\ Cap > 1
BY RingAssumption

(* The slot behind the last is the first.                                  *)
LEMMA AfterIs == ASSUME NEW j \in Index PROVE After(j) = IF j = Cap - 1 THEN 0 ELSE j + 1
<1>1. j \in Int /\ 0 <= j /\ j <= Cap - 1 BY CapIsNat DEF Index
<1>2. CASE j = Cap - 1
  <2>1. j + 1 \in Int /\ j + 1 \in Cap .. Cap + Cap - 1
    BY <1>1, <1>2, CapIsNat
  <2>2. (j + 1) % Cap = j + 1 - Cap BY <1>1, <2>1, Around, CapIsNat
  <2> QED BY <1>1, <1>2, <2>2, CapIsNat DEF After
<1>3. CASE j # Cap - 1
  <2>1. j + 1 \in Int /\ j + 1 \in 0 .. Cap - 1 BY <1>1, <1>3, CapIsNat
  <2>2. (j + 1) % Cap = j + 1 BY <2>1, Around
  <2> QED BY <1>3, <2>2 DEF After
<1> QED BY <1>2, <1>3

(* The distance of the indexes is how many wait, below the ring's size.    *)
LEMMA HeldIs ==
    ASSUME NEW h \in Index, NEW t \in Index
    PROVE  (h - t) % Cap = HeldOf(h, t) /\ HeldOf(h, t) \in 0 .. Cap - 1
<1>1. h \in 0 .. Cap - 1 /\ t \in 0 .. Cap - 1 /\ h - t \in Int
  BY CapIsNat DEF Index
<1>2. CASE h >= t
  <2>1. h - t \in 0 .. Cap - 1 BY <1>1, <1>2, CapIsNat
  <2>2. (h - t) % Cap = h - t BY <1>1, <2>1, Around
  <2> QED BY <1>2, <2>1, <2>2 DEF HeldOf
<1>3. CASE ~(h >= t)
  <2>1. h - t \in -Cap .. -1 /\ h - t + Cap \in 0 .. Cap - 1 BY <1>1, <1>3, CapIsNat
  <2>2. (h - t) % Cap = h - t + Cap BY <1>1, <2>1, Around
  <2> QED BY <1>3, <2>1, <2>2 DEF HeldOf
<1> QED BY <1>2, <1>3

(* A waiting event lies in a slot of the ring.                             *)
LEMMA SpotIs ==
    ASSUME NEW t \in Index, NEW i \in 1 .. Cap - 1
    PROVE  (t + i - 1) % Cap = SpotOf(t, i) /\ SpotOf(t, i) \in Index
<1>1. t \in 0 .. Cap - 1 /\ i \in Int /\ 1 <= i /\ i <= Cap - 1 /\ t + i - 1 \in Int
  BY CapIsNat DEF Index
<1>2. CASE t + i - 1 < Cap
  <2>1. t + i - 1 \in 0 .. Cap - 1 BY <1>1, <1>2, CapIsNat
  <2>2. (t + i - 1) % Cap = t + i - 1 BY <1>1, <2>1, Around
  <2> QED BY <1>2, <2>1, <2>2 DEF SpotOf, Index
<1>3. CASE ~(t + i - 1 < Cap)
  <2>1. t + i - 1 \in Cap .. Cap + Cap - 1 /\ t + i - 1 - Cap \in 0 .. Cap - 1
    BY <1>1, <1>3, CapIsNat
  <2>2. (t + i - 1) % Cap = t + i - 1 - Cap BY <1>1, <2>1, Around, CapIsNat
  <2> QED BY <1>3, <2>1, <2>2 DEF SpotOf, Index
<1> QED BY <1>2, <1>3

(* The queue that slots sl and indexes h and t stand for.                  *)
QueueOf(sl, h, t) == [i \in 1 .. HeldOf(h, t) |-> sl[SpotOf(t, i)]]

(* It is a sequence of as many events as wait.                             *)
LEMMA QueueIs ==
    ASSUME NEW sl \in [Index -> Nat], NEW h \in Index, NEW t \in Index
    PROVE  /\ [i \in 1 .. (h - t) % Cap |-> sl[(t + i - 1) % Cap]] = QueueOf(sl, h, t)
           /\ QueueOf(sl, h, t) \in Seq(Nat) /\ Len(QueueOf(sl, h, t)) = HeldOf(h, t)
           /\ \A i \in 1 .. HeldOf(h, t) : QueueOf(sl, h, t)[i] = sl[SpotOf(t, i)]
<1>1. (h - t) % Cap = HeldOf(h, t) /\ HeldOf(h, t) \in 0 .. Cap - 1
  BY HeldIs
<1>2. HeldOf(h, t) \in Nat /\ HeldOf(h, t) <= Cap - 1 BY <1>1, CapIsNat
<1>3. ASSUME NEW i \in 1 .. HeldOf(h, t)
      PROVE  (t + i - 1) % Cap = SpotOf(t, i) /\ SpotOf(t, i) \in Index
  <2>1. i \in 1 .. Cap - 1 BY <1>2, CapIsNat
  <2> QED BY <2>1, SpotIs
<1>4. [i \in 1 .. (h - t) % Cap |-> sl[(t + i - 1) % Cap]] = QueueOf(sl, h, t)
  BY <1>1, <1>3 DEF QueueOf
<1>5. \A i \in 1 .. HeldOf(h, t) : sl[SpotOf(t, i)] \in Nat
  BY <1>3
<1>6. QueueOf(sl, h, t) \in Seq(Nat) /\ Len(QueueOf(sl, h, t)) = HeldOf(h, t)
  BY <1>2, <1>5 DEF QueueOf
<1> QED BY <1>4, <1>6 DEF QueueOf

(* Writing at the head of a ring that is not full appends to the queue and *)
(* writes over nothing that waits.                                         *)
LEMMA PutShape ==
    ASSUME NEW sl \in [Index -> Nat], NEW h \in Index, NEW t \in Index, After(h) # t, NEW e \in Nat
    PROVE  /\ HeldOf(h, t) < Cap - 1
           /\ HeldOf(After(h), t) = HeldOf(h, t) + 1
           /\ QueueOf([sl EXCEPT ![h] = e], After(h), t) = Append(QueueOf(sl, h, t), e)
<1> DEFINE n == HeldOf(h, t)
           s == QueueOf(sl, h, t)
           sn == [sl EXCEPT ![h] = e]
           r == QueueOf(sn, After(h), t)
<1>1. h \in 0 .. Cap - 1 /\ t \in 0 .. Cap - 1 /\ After(h) = IF h = Cap - 1 THEN 0 ELSE h + 1
  BY AfterIs DEF Index
<1>2. n < Cap - 1 /\ HeldOf(After(h), t) = n + 1 /\ n \in Nat
  BY <1>1, CapIsNat DEF HeldOf
<1>3. SpotOf(t, n + 1) = h /\ \A i \in 1 .. n : SpotOf(t, i) # h
  <2>1. CASE h >= t
    <3>1. n = h - t BY <2>1 DEF HeldOf
    <3>2. t + (n + 1) - 1 = h BY <1>1, <3>1
    <3> QED BY <1>1, <1>2, <3>1, <3>2, CapIsNat DEF SpotOf
  <2>2. CASE ~(h >= t)
    <3>1. n = h - t + Cap BY <2>2 DEF HeldOf
    <3>2. t + (n + 1) - 1 = h + Cap BY <1>1, <3>1, CapIsNat
    <3> QED BY <1>1, <1>2, <2>2, <3>1, <3>2, CapIsNat DEF SpotOf
  <2> QED BY <2>1, <2>2
<1>4. ASSUME NEW i \in 1 .. n PROVE SpotOf(t, i) # h
  BY <1>3
<1>5. After(h) \in Index /\ sn \in [Index -> Nat] BY AfterInIndex
<1>11. sn[h] = e /\ \A j \in Index : j # h => sn[j] = sl[j] OBVIOUS
<1> HIDE DEF sn
<1>6. s \in Seq(Nat) /\ Len(s) = n /\ \A i \in 1 .. n : s[i] = sl[SpotOf(t, i)]
  BY QueueIs
<1>7. r \in Seq(Nat) /\ Len(r) = n + 1 /\ \A i \in 1 .. n + 1 : r[i] = sn[SpotOf(t, i)]
  <2>1. /\ r \in Seq(Nat) /\ Len(r) = HeldOf(After(h), t)
        /\ \A i \in 1 .. HeldOf(After(h), t) : r[i] = sn[SpotOf(t, i)]
    BY <1>5, QueueIs
  <2> QED BY <1>2, <2>1
<1>8. r[n + 1] = e
  BY <1>2, <1>3, <1>7, <1>11
<1>9. ASSUME NEW i \in 1 .. n PROVE r[i] = s[i]
  <2>1. i \in 1 .. n + 1 BY <1>2
  <2>2. SpotOf(t, i) \in Index
    <3>1. i \in 1 .. Cap - 1 BY <1>2, CapIsNat
    <3> QED BY <3>1, SpotIs
  <2> QED BY <1>4, <1>6, <1>7, <1>11, <2>1, <2>2
<1> HIDE DEF n, s, r
<1>10. r = Append(s, e)
  BY <1>2, <1>6, <1>7, <1>8, <1>9, AppendProperties
<1> QED BY <1>2, <1>10 DEF n, s, r, sn

(* Moving the tail of a ring that is not empty takes the queue's head.     *)
LEMMA TakeShape ==
    ASSUME NEW sl \in [Index -> Nat], NEW h \in Index, NEW t \in Index, h # t
    PROVE  /\ HeldOf(h, t) >= 1
           /\ HeldOf(h, After(t)) = HeldOf(h, t) - 1
           /\ QueueOf(sl, h, t) # <<>>
           /\ Head(QueueOf(sl, h, t)) = sl[t]
           /\ QueueOf(sl, h, After(t)) = Tail(QueueOf(sl, h, t))
<1> DEFINE n == HeldOf(h, After(t))
           s == QueueOf(sl, h, t)
           r == QueueOf(sl, h, After(t))
<1>1. h \in 0 .. Cap - 1 /\ t \in 0 .. Cap - 1 /\ After(t) = IF t = Cap - 1 THEN 0 ELSE t + 1
  BY AfterIs DEF Index
<1>2. HeldOf(h, t) >= 1 /\ n = HeldOf(h, t) - 1 /\ n \in Nat /\ n < Cap - 1 /\ HeldOf(h, t) = n + 1
  BY <1>1, CapIsNat DEF HeldOf
<1>3. SpotOf(t, 1) = t
  BY <1>1, CapIsNat DEF SpotOf
<1>4. ASSUME NEW i \in 1 .. n PROVE SpotOf(After(t), i) = SpotOf(t, i + 1)
  <2>1. i \in Int /\ 1 <= i /\ i < Cap - 1 BY <1>2, CapIsNat
  <2> HIDE DEF n, s, r
  <2>2. CASE t = Cap - 1
    <3>1. After(t) = 0 BY <1>1, <2>2
    <3>2. SpotOf(After(t), i) = i - 1 BY <2>1, <3>1, CapIsNat DEF SpotOf
    <3>3. SpotOf(t, i + 1) = i - 1
      <4>1. ~(t + (i + 1) - 1 < Cap) BY <2>1, <2>2, CapIsNat
      <4>2. t + (i + 1) - 1 - Cap = i - 1 BY <2>1, <2>2, CapIsNat
      <4> QED BY <4>1, <4>2 DEF SpotOf
    <3> QED BY <3>2, <3>3
  <2>3. CASE t # Cap - 1
    <3>1. After(t) + i - 1 = t + (i + 1) - 1 BY <1>1, <2>1, <2>3
    <3> QED BY <1>1, <2>1, <2>3, <3>1, CapIsNat DEF SpotOf
  <2> QED BY <2>2, <2>3
<1>5. After(t) \in Index BY AfterInIndex
<1>6. s \in Seq(Nat) /\ Len(s) = n + 1 /\ \A i \in 1 .. n + 1 : s[i] = sl[SpotOf(t, i)]
  BY <1>2, QueueIs
<1>7. r \in Seq(Nat) /\ Len(r) = n /\ \A i \in 1 .. n : r[i] = sl[SpotOf(After(t), i)]
  <2>1. /\ r \in Seq(Nat) /\ Len(r) = HeldOf(h, After(t))
        /\ \A i \in 1 .. HeldOf(h, After(t)) : r[i] = sl[SpotOf(After(t), i)]
    BY <1>5, QueueIs
  <2> QED BY <1>2, <2>1
<1>8. s[1] = sl[t] BY <1>2, <1>3, <1>6
<1>9. ASSUME NEW i \in 1 .. n PROVE r[i] = s[i + 1]
  <2>1. i + 1 \in 1 .. n + 1 BY <1>2
  <2>2. s[i + 1] = sl[SpotOf(t, i + 1)] BY <1>6, <2>1
  <2>3. r[i] = sl[SpotOf(After(t), i)] BY <1>7
  <2> QED BY <1>4, <2>2, <2>3
<1> HIDE DEF n, s, r
<1>10. s # <<>> /\ Head(s) = sl[t]
  BY <1>2, <1>6, <1>8
<1>11. r = Tail(s)
  BY <1>2, <1>6, <1>7, <1>9, HeadTailProperties
<1> QED BY <1>2, <1>10, <1>11 DEF n, s, r

(* The state's queue, of as many events as wait.                           *)
LEMMA WaitingIs ==
    ASSUME TypeOK
    PROVE  /\ Held = HeldOf(head, tail) /\ Waiting = QueueOf(slots, head, tail)
           /\ Waiting \in Seq(Nat) /\ Len(Waiting) = Held
<1>1. slots \in [Index -> Nat] /\ head \in Index /\ tail \in Index
  BY DEF TypeOK
<1>2. Held = HeldOf(head, tail)
  BY <1>1, HeldIs DEF Held
<1>3. [i \in 1 .. (head - tail) % Cap |-> slots[(tail + i - 1) % Cap]] = QueueOf(slots, head, tail)
  BY <1>1, QueueIs
<1>4. QueueOf(slots, head, tail) \in Seq(Nat) /\ Len(QueueOf(slots, head, tail)) = HeldOf(head, tail)
  BY <1>1, QueueIs
<1>5. Waiting = QueueOf(slots, head, tail)
  BY <1>3 DEF Waiting, Held
<1> QED BY <1>2, <1>4, <1>5

(* The same of the state after a step.                                     *)
LEMMA WaitingIsNext ==
    ASSUME TypeOK'
    PROVE  /\ Held' = HeldOf(head', tail') /\ Waiting' = QueueOf(slots', head', tail')
           /\ Waiting' \in Seq(Nat) /\ Len(Waiting') = Held'
<1>1. slots' \in [Index -> Nat] /\ head' \in Index /\ tail' \in Index
  BY DEF TypeOK
<1>2. Held' = HeldOf(head', tail')
  BY <1>1, HeldIs DEF Held
<1>3. [i \in 1 .. (head' - tail') % Cap |-> slots'[(tail' + i - 1) % Cap]] = QueueOf(slots', head', tail')
  BY <1>1, QueueIs
<1>4. QueueOf(slots', head', tail') \in Seq(Nat) /\ Len(QueueOf(slots', head', tail')) = HeldOf(head', tail')
  BY <1>1, QueueIs
<1>5. Waiting' = QueueOf(slots', head', tail')
  BY <1>3 DEF Waiting, Held
<1> QED BY <1>2, <1>4, <1>5

(* The callbacks that found the ring full and have not counted it yet.     *)
Full == {p \in Callbacks : callback[p] = "full"}

(* The numbers of the events: those that wait follow those that left, and  *)
(* a driver that is not loaded holds nothing.                              *)
Numbered ==
    /\ nextId = Len(handed) + Held
    /\ \A i \in 1..Held : Waiting[i] = Len(handed) + i
    /\ driver = "absent" => /\ head = tail /\ handed = <<>> /\ dropped = 0
                            /\ \A p \in Callbacks : callback[p] = "out"

(* A callback that finds a free slot puts the next event.                  *)
LEMMA FillPuts ==
    ASSUME TypeOK, TypeOK', NEW p \in Callbacks, Fill(p), After(head) # tail
    PROVE  /\ Len(Waiting) < Cap - 1 /\ Held' = Held + 1
           /\ Waiting' = Append(Waiting, nextId + 1)
           /\ nextId' = nextId + 1
           /\ UNCHANGED <<handed, dropped, Full, driver>>
<1>1. /\ head' = After(head) /\ tail' = tail /\ slots' = [slots EXCEPT ![head] = nextId + 1]
      /\ nextId' = nextId + 1 /\ UNCHANGED <<handed, dropped, driver>>
      /\ callback' = [callback EXCEPT ![p] = "wake"] /\ callback[p] = "fill"
  BY DEF Fill, load
<1>2. Full' = Full
  BY <1>1 DEF Full, TypeOK
<1>3. nextId + 1 \in Nat /\ slots \in [Index -> Nat] /\ head \in Index /\ tail \in Index
  BY DEF TypeOK
<1>4. /\ HeldOf(head, tail) < Cap - 1 /\ HeldOf(After(head), tail) = HeldOf(head, tail) + 1
      /\ QueueOf([slots EXCEPT ![head] = nextId + 1], After(head), tail)
           = Append(QueueOf(slots, head, tail), nextId + 1)
  BY <1>3, PutShape
<1>5. Held' = Held + 1 /\ Waiting' = Append(Waiting, nextId + 1)
  BY <1>1, <1>4, WaitingIs, WaitingIsNext
<1>6. Len(Waiting) < Cap - 1
  BY <1>4, WaitingIs
<1> QED BY <1>1, <1>2, <1>5, <1>6

(* One that finds none refuses it, with as many waiting as may wait.       *)
LEMMA FillRefuses ==
    ASSUME TypeOK, NEW p \in Callbacks, Fill(p), After(head) = tail
    PROVE  /\ Len(Waiting) = Cap - 1
           /\ Full' = Full \cup {p} /\ p \notin Full
           /\ UNCHANGED <<ring, handed, dropped, driver>>
<1>1. /\ callback' = [callback EXCEPT ![p] = "full"] /\ callback[p] = "fill"
      /\ UNCHANGED <<ring, handed, dropped, driver>>
  BY DEF Fill, load, ring
<1>2. Full' = Full \cup {p} /\ p \notin Full
  BY <1>1 DEF Full, TypeOK
<1>3. head \in Index /\ tail \in Index /\ Len(Waiting) = HeldOf(head, tail)
  BY WaitingIs DEF TypeOK
<1>4. HeldOf(head, tail) = Cap - 1
  <2>1. head \in 0 .. Cap - 1 /\ After(head) = IF head = Cap - 1 THEN 0 ELSE head + 1
    BY <1>3, AfterIs DEF Index
  <2> QED BY <2>1, CapIsNat DEF HeldOf
<1> QED BY <1>1, <1>2, <1>3, <1>4

(* The sender takes the oldest.                                            *)
LEMMA TakeTakes ==
    ASSUME TypeOK, TypeOK', Take, head # tail
    PROVE  /\ Waiting # <<>> /\ Waiting' = Tail(Waiting) /\ Held' = Held - 1
           /\ handed' = Append(handed, Head(Waiting))
           /\ UNCHANGED <<nextId, dropped, callback, driver>>
<1>1. /\ tail' = After(tail) /\ head' = head /\ slots' = slots
      /\ handed' = Append(handed, slots[tail])
      /\ UNCHANGED <<nextId, dropped, callback, driver>>
  BY DEF Take, load
<1>2. slots \in [Index -> Nat] /\ head \in Index /\ tail \in Index
  BY DEF TypeOK
<1> QED BY <1>1, <1>2, WaitingIs, WaitingIsNext, TakeShape

(* A step that neither fills, counts, takes, unloads nor loads is none of  *)
(* the queue.                                                              *)
Quiet ==
    /\ UNCHANGED <<ring, dropped, handed, Full>>
    /\ driver' = "absent" <=> driver = "absent"
    /\ driver = "absent" => UNCHANGED callback

(* Every step is of one of these kinds.                                    *)
LEMMA StepKinds ==
    ASSUME TypeOK, Stages, Numbered, [Next]_vars
    PROVE  \/ \E p \in Callbacks : Fill(p) \/ Count(p)
           \/ Take /\ head # tail
           \/ Gone \/ Load \/ Quiet
<1>1. ASSUME NEW p \in Callbacks, Report(p) PROVE Quiet
  <2>1. callback[p] = "out" /\ callback' = [callback EXCEPT ![p] = "fill"] /\ allocated = TRUE
    BY <1>1 DEF Report
  <2>2. Full' = Full /\ driver # "absent"
    BY <2>1 DEF Full, TypeOK, Stages
  <2> QED BY <1>1, <2>2 DEF Report, Quiet, load
<1>2. ASSUME NEW p \in Callbacks, Claim(p) PROVE Quiet
  <2>1. callback[p] = "wake" /\ callback' = [callback EXCEPT ![p] = IF idle THEN "set" ELSE "out"]
    BY <1>2 DEF Claim
  <2>2. Full' = Full /\ driver # "absent"
    BY <2>1 DEF Full, TypeOK, Numbered
  <2> QED BY <1>2, <2>2 DEF Claim, Quiet, load
<1>3. ASSUME NEW p \in Callbacks, Wake(p) PROVE Quiet
  <2>1. callback[p] = "set" /\ callback' = [callback EXCEPT ![p] = "out"]
    BY <1>3 DEF Wake
  <2>2. Full' = Full /\ driver # "absent"
    BY <2>1 DEF Full, TypeOK, Numbered
  <2> QED BY <1>3, <2>2 DEF Wake, Quiet, load
<1> USE DEF Quiet, Full, ring, load
<1>4. CASE Announce \/ Look \/ Ask \/ Awaken \/ Awake
  BY <1>4 DEF Announce, Look, Ask, Awaken, Awake
<1>5. CASE Take /\ head = tail
  BY <1>5 DEF Take
<1>6. CASE Try \/ Acquire \/ TryAgain \/ Send \/ Release \/ Stopping
  BY <1>6 DEF Try, Acquire, TryAgain, Send, Release, Stopping
<1>7. CASE Links \/ Connect \/ Disconnect
  BY <1>7 DEF Links, Protect, Activate, RunDown, Released, Close, Connect, Disconnect
<1>8. CASE Unregistered \/ StopQueue \/ WakeSender \/ FreeRing
  BY <1>8 DEF Unregistered, StopQueue, WakeSender, FreeRing, Step
<1>9. CASE TearDown \/ TearDownWaits \/ TearDownCloses \/ CloseServer
  BY <1>9 DEF TearDown, TearDownWaits, TearDownCloses, CloseServer, Step
<1>10. CASE StartFiltering \/ Register \/ Unload
  BY <1>10 DEF StartFiltering, Register, Unload, Step
<1>11. CASE UNCHANGED vars
  BY <1>11 DEF vars
<1> QED
  BY <1>1, <1>2, <1>3, <1>4, <1>5, <1>6, <1>7, <1>8, <1>9, <1>10, <1>11
     DEF Next, Calls, Sends, Unloading

(* The refused are those counted and those about to be.                    *)
LEMMA RefusedIs ==
    ASSUME TypeOK
    PROVE  /\ IsFiniteSet(Full) /\ Cardinality(Full) \in Nat
           /\ Refused = dropped + Cardinality(Full)
<1>1. Full \subseteq Callbacks /\ IsFiniteSet(Callbacks)
  BY RingAssumption DEF Full, Callbacks
<1>2. IsFiniteSet(Full) /\ Cardinality(Full) \in Nat
  BY <1>1, FS_Subset, FS_CardinalityType
<1> QED BY <1>2 DEF Refused, Full

(* Every step is one of the queue, or the queue does not see it.           *)
LEMMA QueueStep ==
    ASSUME TypeOK, TypeOK', Stages, Numbered, [Next]_vars
    PROVE  Numbered' /\ [Queue!Next]_(Queue!vars)
<1>1. ASSUME NEW p \in Callbacks, Fill(p), After(head) # tail
      PROVE  Numbered' /\ Queue!Put /\ driver # "absent"
  <2>1. driver # "absent" /\ callback[p] = "fill"
    BY <1>1 DEF Numbered, Fill
  <2>2. /\ Len(Waiting) < Cap - 1 /\ Held' = Held + 1
        /\ Waiting' = Append(Waiting, nextId + 1)
        /\ nextId' = nextId + 1
        /\ UNCHANGED <<handed, dropped, Full, driver>>
    BY <1>1, FillPuts
  <2>3. Refused' = Refused
    BY <2>2 DEF Refused, Full
  <2>4. Waiting \in Seq(Nat) /\ Len(Waiting) = Held /\ Len(handed) \in Nat /\ nextId \in Nat
    BY WaitingIs DEF TypeOK
  <2>5. nextId = Len(handed) + Held
    BY DEF Numbered
  <2>6. Queue!Put
    BY <2>2, <2>3, <2>4, <2>5 DEF Queue!Put
  <2>9. Held \in Nat BY <2>4
  <2>7. ASSUME NEW i \in 1 .. Held' PROVE Waiting'[i] = Len(handed') + i
    <3>1. CASE i = Held + 1
      <4>1. Waiting'[Held + 1] = nextId + 1 BY <2>2, <2>4, AppendProperties
      <4> QED BY <2>2, <2>4, <2>5, <2>9, <3>1, <4>1
    <3>2. CASE i # Held + 1
      <4>1. i \in 1 .. Held BY <2>2, <2>9, <3>2
      <4>2. Waiting'[i] = Waiting[i] BY <2>2, <2>4, <4>1, AppendProperties
      <4> QED BY <2>2, <4>1, <4>2 DEF Numbered
    <3> QED BY <3>1, <3>2
  <2>8. nextId' = Len(handed') + Held'
    BY <2>2, <2>4, <2>5
  <2> QED BY <2>1, <2>2, <2>6, <2>7, <2>8 DEF Numbered
<1>2. ASSUME NEW p \in Callbacks, Fill(p), After(head) = tail
      PROVE  Numbered' /\ Queue!Refuse /\ driver # "absent"
  <2>1. driver # "absent"
    BY <1>2 DEF Numbered, Fill
  <2>2. /\ Len(Waiting) = Cap - 1
        /\ Full' = Full \cup {p} /\ p \notin Full
        /\ UNCHANGED <<ring, handed, dropped, driver>>
    BY <1>2, FillRefuses
  <2>3. Cardinality(Full') = Cardinality(Full) + 1
    BY <2>2, RefusedIs, FS_AddElement
  <2>4. Refused' = Refused + 1
    BY <2>2, <2>3, RefusedIs DEF Refused, Full, TypeOK
  <2>5. Waiting' = Waiting /\ Held' = Held
    BY <2>2 DEF Waiting, Held, ring
  <2>6. Queue!Refuse
    BY <2>2, <2>4, <2>5 DEF Queue!Refuse
  <2> QED BY <2>1, <2>2, <2>5, <2>6 DEF Numbered, ring
<1>3. ASSUME NEW p \in Callbacks, Count(p)
      PROVE  Numbered' /\ UNCHANGED Queue!vars
  <2>1. /\ callback[p] = "full" /\ callback' = [callback EXCEPT ![p] = "out"]
        /\ dropped' = dropped + 1 /\ UNCHANGED <<ring, handed, driver>>
    BY <1>3 DEF Count, load, ring
  <2>2. Full' = Full \ {p} /\ p \in Full
    BY <2>1 DEF Full, TypeOK
  <2>3. Cardinality(Full') = Cardinality(Full) - 1
    BY <2>2, RefusedIs, FS_RemoveElement
  <2>4. Refused' = Refused
    <3>1. Refused' = dropped' + Cardinality(Full') BY DEF Refused, Full
    <3>2. dropped \in Nat BY DEF TypeOK
    <3> QED BY <2>1, <2>3, <3>1, <3>2, RefusedIs
  <2>5. Waiting' = Waiting /\ Held' = Held
    BY <2>1 DEF Waiting, Held, ring
  <2>6. driver # "absent"
    BY <2>1 DEF Numbered
  <2> QED BY <2>1, <2>4, <2>5, <2>6 DEF Numbered, ring, Queue!vars
<1>4. ASSUME Take, head # tail
      PROVE  Numbered' /\ Queue!Take /\ driver # "absent"
  <2>1. driver # "absent"
    BY <1>4 DEF Numbered
  <2>2. /\ Waiting # <<>> /\ Waiting' = Tail(Waiting) /\ Held' = Held - 1
        /\ handed' = Append(handed, Head(Waiting))
        /\ UNCHANGED <<nextId, dropped, callback, driver>>
    BY <1>4, TakeTakes
  <2>3. Refused' = Refused
    <3>1. dropped' = dropped /\ callback' = callback BY <2>2
    <3> QED BY <3>1 DEF Refused
  <2>4. Queue!Take
    BY <2>2, <2>3 DEF Queue!Take
  <2>5. /\ Waiting \in Seq(Nat) /\ Len(Waiting) = Held /\ handed \in Seq(Nat) /\ Len(handed) \in Nat
    BY WaitingIs DEF TypeOK
  <2>6. Held \in Nat /\ Held >= 1 /\ Len(handed') = Len(handed) + 1
    BY <2>2, <2>5
  <2>7. ASSUME NEW i \in 1 .. Held' PROVE Waiting'[i] = Len(handed') + i
    <3>1. i + 1 \in 1 .. Held BY <2>2, <2>6
    <3>2. Waiting'[i] = Waiting[i + 1] BY <2>2, <2>5, <2>6
    <3>3. Waiting[i + 1] = Len(handed) + (i + 1) BY <3>1 DEF Numbered
    <3> QED BY <2>5, <2>6, <3>2, <3>3
  <2>8. nextId' = Len(handed') + Held'
    BY <2>2, <2>5, <2>6 DEF Numbered
  <2> QED BY <2>1, <2>2, <2>4, <2>7, <2>8 DEF Numbered
<1>5. ASSUME Gone
      PROVE  Numbered' /\ Queue!Unload
  <2>1. /\ driver = "drain" /\ driver' = "absent"
        /\ head' = 0 /\ tail' = 0 /\ nextId' = 0 /\ dropped' = 0 /\ handed' = <<>>
        /\ callback' = callback /\ \A p \in FileCallbacks : callback[p] = "out"
    BY <1>5 DEF Gone, Step
  <2>2. \A p \in Callbacks : callback'[p] = "out"
    BY <2>1 DEF Stages, Callbacks
  <2>3. Full' = {}
    BY <2>2 DEF Full
  <2>4. Refused' = 0
    BY <2>1, <2>3, FS_EmptySet DEF Refused, Full
  <2>5. Held' = 0
    BY <2>1, WaitingIsNext DEF HeldOf
  <2>6. Waiting' = <<>>
    BY <2>5, WaitingIsNext
  <2>7. Queue!Unload
    BY <2>1, <2>4, <2>6 DEF Queue!Unload
  <2> QED BY <2>1, <2>2, <2>5, <2>7 DEF Numbered
<1>6. ASSUME Load
      PROVE  Numbered' /\ Queue!Load
  <2>1. driver = "absent" /\ driver' = "queue" /\ UNCHANGED <<ring, dropped, callback, handed>>
    BY <1>6 DEF Load, Step
  <2>2. Refused' = Refused /\ Waiting' = Waiting /\ Held' = Held
    BY <2>1 DEF Refused, Waiting, Held, ring
  <2> QED BY <2>1, <2>2 DEF Numbered, ring, Queue!Load
<1>7. ASSUME Quiet
      PROVE  Numbered' /\ UNCHANGED Queue!vars
  <2>1. Refused' = Refused /\ Waiting' = Waiting /\ Held' = Held
    BY <1>7 DEF Quiet, Refused, Full, Waiting, Held, ring
  <2> QED BY <1>7, <2>1 DEF Quiet, Numbered, ring, Queue!vars
<1> QED
  BY <1>1, <1>2, <1>3, <1>4, <1>5, <1>6, <1>7, StepKinds DEF Queue!Next

(* The ring with its two indexes, its unlocked checks and its hand-over to *)
(* the sender implements the queue, whatever its size and whoever reports. *)
THEOREM ImplementsQueue == Spec => QueueSpec
<1>1. Init /\ TypeOK => Numbered /\ Queue!Init
  <2> SUFFICES ASSUME Init, TypeOK PROVE Numbered /\ Queue!Init
    OBVIOUS
  <2>1. head = 0 /\ tail = 0 /\ nextId = 0 /\ dropped = 0 /\ handed = <<>> /\ driver = "queue"
    BY DEF Init
  <2>2. \A p \in Callbacks : callback[p] = "out"
    BY DEF Init
  <2>3. Full = {}
    BY <2>2 DEF Full
  <2>4. Refused = 0
    BY <2>1, <2>3, FS_EmptySet DEF Refused, Full
  <2>5. Held = 0
    BY <2>1, WaitingIs DEF HeldOf
  <2>6. Waiting = <<>>
    BY <2>5, WaitingIs
  <2> QED BY <2>1, <2>4, <2>5, <2>6 DEF Numbered, Queue!Init
<1>2. TypeOK /\ TypeOK' /\ Stages /\ Numbered /\ [Next]_vars => Numbered' /\ [Queue!Next]_(Queue!vars)
  BY QueueStep
<1> QED
  BY <1>1, <1>2, RingInvariant, PTL DEF Spec, QueueSpec, Queue!Spec
=============================================================================
