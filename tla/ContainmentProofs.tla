-------------------------- MODULE ContainmentProofs --------------------------
(***************************************************************************)
(* Theorems about Containment.  The invariant says what the table and the   *)
(* suspension count of a number have to do with each other; it needs        *)
(* nothing of the prompts and the events, whose process numbers may be of   *)
(* processes long gone.                                                     *)
(***************************************************************************)
EXTENDS Containment, FiniteSetTheorems, TLAPS

(* The shape of the world: the image and the suspension count of every      *)
(* number, and an entry for some of them.                                   *)
WorldOK ==
    /\ proc \in [Pids -> Images \cup {Gone}]
    /\ susp \in [Pids -> Nat]
    /\ lost \in [Pids -> Nat]
    /\ \A p \in Pids : p \in DOMAIN entries => entries[p] \in Entry
    /\ entries = [p \in DOMAIN entries |-> entries[p]]

GoneIsNotSuspended == \A p \in Pids : proc[p] = Gone => susp[p] = 0

(* What no table knows of is suspended; and who is frozen although he was   *)
(* already suspended that way has been suspended once more.                 *)
LostIsSuspended ==
    \A p \in Pids : /\ lost[p] <= susp[p]
                    /\ Frozen(p) /\ lost[p] > 0 => susp[p] = lost[p] + 1

TableBounded == IsFiniteSet(DOMAIN entries) /\ WithinLimit

CountsOK == GoneIsNotSuspended /\ LostIsSuspended /\ SuspendedIsRecorded

IInv == WorldOK /\ CountsOK /\ TableBounded

-----------------------------------------------------------------------------
(* What the counts of one number have to satisfy.                           *)
CountOK(p) ==
    /\ proc[p] = Gone => susp[p] = 0
    /\ lost[p] <= susp[p]
    /\ Frozen(p) /\ lost[p] > 0 => susp[p] = lost[p] + 1
    /\ susp[p] # lost[p] =>
        /\ susp[p] = lost[p] + 1
        /\ Frozen(p)
        /\ entries[p].image = proc[p]

LEMMA CountByNumber == CountsOK <=> \A p \in Pids : CountOK(p)
BY DEF CountsOK, GoneIsNotSuspended, LostIsSuspended, SuspendedIsRecorded, CountOK

LEMMA CountByNumberNext == CountsOK' <=> \A p \in Pids : CountOK(p)'
BY DEF CountsOK, GoneIsNotSuspended, LostIsSuspended, SuspendedIsRecorded, CountOK

(* Resuming a set of numbers, with or without success, leaves none of them  *)
(* suspended with a record, and touches no other.                           *)
LEMMA ResumeCounts ==
    ASSUME WorldOK, CountsOK, NEW ps, Resume(ps)
    PROVE  /\ susp' \in [Pids -> Nat] /\ lost' \in [Pids -> Nat]
           /\ \A p \in Pids :
                 IF p \in Held(ps) THEN /\ susp'[p] = lost'[p]
                                        /\ susp'[p] <= susp[p]
                                   ELSE susp'[p] = susp[p] /\ lost'[p] = lost[p]
<1>1. PICK refused \in SUBSET Held(ps) :
        /\ susp' = [p \in Pids |-> IF p \in Held(ps) \ refused THEN susp[p] - 1 ELSE susp[p]]
        /\ lost' = [p \in Pids |-> IF p \in refused THEN lost[p] + 1 ELSE lost[p]]
  BY DEF Resume
<1>2. susp \in [Pids -> Nat] /\ lost \in [Pids -> Nat]
  BY DEF WorldOK
<1>3. \A p \in Pids : p \in Held(ps) => susp[p] > 0 /\ susp[p] = lost[p] + 1
  BY <1>2, CountByNumber DEF Held, CountOK
<1>4. \A p \in Pids : p \in refused => p \in Held(ps)
  OBVIOUS
<1>5. \A p \in Pids : (IF p \in Held(ps) \ refused THEN susp[p] - 1 ELSE susp[p]) \in Nat
  BY <1>2, <1>3
<1>6. \A p \in Pids : (IF p \in refused THEN lost[p] + 1 ELSE lost[p]) \in Nat
  BY <1>2
<1>7. susp' \in [Pids -> Nat] /\ lost' \in [Pids -> Nat]
  BY <1>1, <1>5, <1>6
<1>8. ASSUME NEW p \in Pids
      PROVE  IF p \in Held(ps) THEN susp'[p] = lost'[p] /\ susp'[p] <= susp[p]
                               ELSE susp'[p] = susp[p] /\ lost'[p] = lost[p]
  <2>1. /\ susp'[p] = IF p \in Held(ps) \ refused THEN susp[p] - 1 ELSE susp[p]
        /\ lost'[p] = IF p \in refused THEN lost[p] + 1 ELSE lost[p]
    BY <1>1
  <2> QED BY <1>2, <1>3, <1>4, <2>1
<1> QED BY <1>7, <1>8

(* Thawing, by whatever set of numbers, keeps the invariant.                *)
LEMMA ThawKeeps ==
    ASSUME IInv, NEW ps, Thaw(ps), UNCHANGED proc
    PROVE  IInv'
<1> USE DEF IInv
<1> DEFINE kept == {r \in DOMAIN entries : r \notin ps \/ ~ entries[r].frozen \/ entries[r].job}
<1>1. DOMAIN entries' = kept
  BY DEF Thaw, ThawTo
<1>2. \A q \in kept : entries'[q] = IF q \in ps THEN [entries[q] EXCEPT !.frozen = FALSE]
                                              ELSE entries[q]
  BY DEF Thaw, ThawTo
<1>3. /\ susp' \in [Pids -> Nat] /\ lost' \in [Pids -> Nat]
      /\ \A p \in Pids : IF p \in Held(ps) THEN susp'[p] = lost'[p] /\ susp'[p] <= susp[p]
                                           ELSE susp'[p] = susp[p] /\ lost'[p] = lost[p]
  BY ResumeCounts DEF Thaw
<1>4. WorldOK'
  <2>1. \A p \in Pids : p \in DOMAIN entries' => entries'[p] \in Entry
    BY <1>1, <1>2 DEF Entry, WorldOK
  <2>2. entries' = [p \in DOMAIN entries' |-> entries'[p]]
    BY DEF Thaw, ThawTo
  <2>3. proc' \in [Pids -> Images \cup {Gone}]
    BY DEF WorldOK
  <2> QED BY <1>3, <2>1, <2>2, <2>3 DEF WorldOK
<1>5. ASSUME NEW q \in Pids PROVE CountOK(q)'
  <2>1. CountOK(q) /\ susp[q] \in Nat /\ lost[q] \in Nat /\ susp'[q] \in Nat /\ lost'[q] \in Nat
    BY <1>3, CountByNumber DEF WorldOK
  <2>2. CASE q \in ps
    <3>1. ~ Frozen(q)'
      <4>1. q \in DOMAIN entries /\ q \in DOMAIN entries' => entries'[q].frozen = FALSE
        BY <1>1, <1>2, <2>2 DEF WorldOK, Entry
      <4> QED BY <1>1, <4>1 DEF Frozen
    <3>2. susp'[q] = lost'[q] /\ susp'[q] <= susp[q]
      <4>1. CASE q \in Held(ps)
        BY <1>3, <4>1
      <4>2. CASE q \notin Held(ps)
        BY <1>3, <2>1, <2>2, <4>2 DEF Held, CountOK
      <4> QED BY <4>1, <4>2
    <3> QED BY <2>1, <3>1, <3>2 DEF CountOK
  <2>3. CASE q \notin ps
    <3>1. susp'[q] = susp[q] /\ lost'[q] = lost[q]
      BY <1>3, <2>3 DEF Held
    <3>2. /\ q \in DOMAIN entries' <=> q \in DOMAIN entries
          /\ q \in DOMAIN entries => entries'[q] = entries[q]
      BY <1>1, <1>2, <2>3
    <3> QED BY <2>1, <3>1, <3>2 DEF CountOK, Frozen
  <2> QED BY <2>2, <2>3
<1>6. TableBounded'
  BY <1>1, FS_Subset, FS_CardinalityType, ContainmentAssumption DEF TableBounded, WithinLimit
<1> QED BY <1>4, <1>5, <1>6, CountByNumberNext

(* Putting an entry for a number there is room for keeps the table bounded. *)
LEMMA PutKeepsBound ==
    ASSUME TableBounded, NEW p, NEW e, HasRoom(p), entries' = Put(p, e)
    PROVE  TableBounded'
<1>1. DOMAIN entries' = DOMAIN entries \cup {p}
  BY DEF Put
<1>2. CASE p \in DOMAIN entries
  <2>1. DOMAIN entries' = DOMAIN entries
    BY <1>1, <1>2
  <2> QED BY <2>1 DEF TableBounded, WithinLimit
<1>3. CASE p \notin DOMAIN entries
  <2>1. Cardinality(DOMAIN entries) < MaxEntries
    BY <1>3 DEF HasRoom
  <2>2. IsFiniteSet(DOMAIN entries) /\ Cardinality(DOMAIN entries) \in Nat
    BY FS_CardinalityType DEF TableBounded
  <2>3. /\ IsFiniteSet(DOMAIN entries \cup {p})
        /\ Cardinality(DOMAIN entries \cup {p}) = Cardinality(DOMAIN entries) + 1
    BY <1>3, <2>2, FS_AddElement
  <2> QED BY <1>1, <2>1, <2>2, <2>3, ContainmentAssumption DEF TableBounded, WithinLimit
<1> QED BY <1>2, <1>3

(* Freezing a number that has no frozen entry suspends its process once,    *)
(* and the entry names the image of that process.                           *)
LEMMA FreezeKeeps == IInv /\ Freeze => IInv'
<1> SUFFICES ASSUME IInv, Freeze PROVE IInv'
  OBVIOUS
<1> USE DEF IInv
<1> DEFINE p == subject.pid
           e == [frozen |-> TRUE, job |-> CutOff(p), image |-> proc[p]]
<1>1. CASE UNCHANGED <<susp, entries>>
  BY <1>1 DEF Freeze, TableBounded, WithinLimit, Frozen, WorldOK, CountsOK, GoneIsNotSuspended,
      LostIsSuspended, SuspendedIsRecorded
<1>2. CASE /\ ~ RefuseTarget(p)
           /\ ~ Frozen(p)
           /\ HasRoom(p)
           /\ susp' = [susp EXCEPT ![p] = @ + 1]
           /\ entries' = Put(p, e)
  <2>1. DOMAIN entries' = DOMAIN entries \cup {p} /\ entries'[p] = e
    BY <1>2 DEF Put
  <2>2. \A q \in DOMAIN entries \ {p} : entries'[q] = entries[q]
    BY <1>2 DEF Put
  <2>3. entries' = [q \in DOMAIN entries' |-> entries'[q]]
    BY <1>2 DEF Put
  <2>4. susp' \in [Pids -> Nat]
    <3>1. susp' = [q \in Pids |-> IF q = p THEN susp[q] + 1 ELSE susp[q]]
      BY <1>2 DEF WorldOK
    <3> QED BY <3>1 DEF WorldOK
  <2>5. \A q \in Pids \ {p} : susp'[q] = susp[q]
    BY <1>2 DEF WorldOK
  <2>6. p \in Pids => susp[p] = lost[p] /\ susp'[p] = lost[p] + 1 /\ proc[p] \in Images
    BY <1>2 DEF RefuseTarget, WorldOK, CountsOK, SuspendedIsRecorded
  <2>7. proc' = proc /\ lost' = lost
    BY DEF Freeze
  <2>8. p \in Pids => e \in Entry
    BY <2>6 DEF CutOff, Entry, WorldOK
  <2>9. WorldOK'
    BY <2>1, <2>2, <2>3, <2>4, <2>7, <2>8 DEF WorldOK
  <2>10. ASSUME NEW q \in Pids PROVE CountOK(q)'
    <3>1. CountOK(q) /\ susp[q] \in Nat /\ lost[q] \in Nat
      BY CountByNumber DEF WorldOK
    <3>2. CASE q = p
      <4>1. Frozen(q)' /\ entries'[q].image = proc'[q] /\ proc'[q] # Gone
        BY <2>1, <2>6, <2>7, <3>2, ContainmentAssumption DEF Frozen
      <4> QED BY <2>6, <2>7, <3>1, <3>2, <4>1 DEF CountOK
    <3>3. CASE q # p
      <4>1. Frozen(q)' <=> Frozen(q)
        BY <2>1, <2>2, <3>3 DEF Frozen
      <4>2. Frozen(q) => entries'[q] = entries[q]
        BY <2>2, <3>3 DEF Frozen
      <4> QED BY <2>5, <2>7, <3>1, <3>3, <4>1, <4>2 DEF CountOK
    <3> QED BY <3>2, <3>3
  <2>11. TableBounded'
    BY <1>2, PutKeepsBound
  <2> QED BY <2>9, <2>10, <2>11, CountByNumberNext
<1> QED BY <1>1, <1>2 DEF Freeze

(* Limiting the children adds or changes an entry, never a frozen mark.     *)
LEMMA LimitKeeps == IInv /\ LimitChildren => IInv'
<1> SUFFICES ASSUME IInv, LimitChildren PROVE IInv'
  OBVIOUS
<1> USE DEF IInv, WorldOK
<1> DEFINE p == subject.pid
           e == IF p \in DOMAIN entries
                   THEN [entries[p] EXCEPT !.job = TRUE]
                   ELSE [frozen |-> FALSE, job |-> TRUE, image |-> proc[p]]
<1>1. CASE UNCHANGED entries
  BY <1>1 DEF LimitChildren, TableBounded, WithinLimit, Frozen, CountsOK, GoneIsNotSuspended,
      LostIsSuspended, SuspendedIsRecorded
<1>2. CASE ~ RefuseTarget(p) /\ HasRoom(p) /\ entries' = Put(p, e)
  <2>1. DOMAIN entries' = DOMAIN entries \cup {p} /\ entries'[p] = e
    BY <1>2 DEF Put
  <2>2. \A q \in DOMAIN entries \ {p} : entries'[q] = entries[q]
    BY <1>2 DEF Put
  <2>3. entries' = [q \in DOMAIN entries' |-> entries'[q]]
    BY <1>2 DEF Put
  <2>4. proc' = proc /\ susp' = susp /\ lost' = lost
    BY DEF LimitChildren
  <2>5. p \in Pids => e \in Entry
    BY <1>2 DEF Entry, RefuseTarget
  <2>6. p \in Pids /\ p \in DOMAIN entries =>
           e.frozen = entries[p].frozen /\ e.image = entries[p].image
    BY DEF Entry
  <2>7. WorldOK'
    BY <2>1, <2>2, <2>3, <2>4, <2>5
  <2>8. ASSUME NEW q \in Pids PROVE CountOK(q)'
    <3>1. CountOK(q)
      BY CountByNumber
    <3>2. Frozen(q)' <=> Frozen(q)
      <4>1. CASE q \in DOMAIN entries
        BY <2>1, <2>2, <2>6, <4>1 DEF Frozen
      <4>2. CASE q = p /\ p \notin DOMAIN entries
        <5>1. e.frozen = FALSE
          BY <4>2
        <5> QED BY <2>1, <4>2, <5>1 DEF Frozen
      <4>3. CASE q # p /\ q \notin DOMAIN entries
        BY <2>1, <4>3 DEF Frozen
      <4> QED BY <4>1, <4>2, <4>3
    <3>3. Frozen(q) => entries'[q].image = entries[q].image
      BY <2>1, <2>2, <2>6 DEF Frozen
    <3> QED BY <2>4, <3>1, <3>2, <3>3 DEF CountOK
  <2>9. TableBounded'
    BY <1>2, PutKeepsBound
  <2> QED BY <2>7, <2>8, <2>9, CountByNumberNext
<1> QED BY <1>1, <1>2 DEF LimitChildren

(* An end takes the suspension with it; the entry may stay.                 *)
LEMMA EndKeeps ==
    ASSUME IInv, NEW p, UNCHANGED entries,
           proc' = [proc EXCEPT ![p] = Gone], susp' = [susp EXCEPT ![p] = 0],
           lost' = [lost EXCEPT ![p] = 0]
    PROVE  IInv'
<1>1. proc' = [q \in Pids |-> IF q = p THEN Gone ELSE proc[q]]
  BY DEF IInv, WorldOK
<1>2. susp' = [q \in Pids |-> IF q = p THEN 0 ELSE susp[q]]
  BY DEF IInv, WorldOK
<1>0. lost' = [q \in Pids |-> IF q = p THEN 0 ELSE lost[q]]
  BY DEF IInv, WorldOK
<1>3. WorldOK'
  <2>1. proc' \in [Pids -> Images \cup {Gone}]
    BY <1>1 DEF IInv, WorldOK
  <2>2. susp' \in [Pids -> Nat]
    <3>1. susp \in [Pids -> Nat]
      BY DEF IInv, WorldOK
    <3>2. \A q \in Pids : (IF q = p THEN 0 ELSE susp[q]) \in Nat
      BY <3>1
    <3> QED BY <1>2, <3>2
  <2>3. lost' \in [Pids -> Nat]
    <3>1. lost \in [Pids -> Nat]
      BY DEF IInv, WorldOK
    <3>2. \A q \in Pids : (IF q = p THEN 0 ELSE lost[q]) \in Nat
      BY <3>1
    <3> QED BY <1>0, <3>2
  <2>4. entries' = entries
    OBVIOUS
  <2>5. /\ \A q \in Pids : q \in DOMAIN entries' => entries'[q] \in Entry
        /\ entries' = [q \in DOMAIN entries' |-> entries'[q]]
    BY <2>4 DEF IInv, WorldOK
  <2> QED BY <2>1, <2>2, <2>3, <2>5 DEF WorldOK
<1>4. ASSUME NEW q \in Pids PROVE CountOK(q)'
  <2>1. CountOK(q)
    BY CountByNumber DEF IInv
  <2>2. Frozen(q)' <=> Frozen(q)
    BY DEF Frozen
  <2> QED BY <1>0, <1>1, <1>2, <2>1, <2>2 DEF CountOK
<1> QED BY <1>3, <1>4, CountByNumberNext DEF IInv, TableBounded, WithinLimit

(* Steps that touch neither processes nor the table.                        *)
LEMMA WorldUnchanged == IInv /\ UNCHANGED world => IInv'
BY DEF IInv, world, WorldOK, CountsOK, GoneIsNotSuspended, LostIsSuspended,
       SuspendedIsRecorded, TableBounded, WithinLimit, Frozen

(* The clean-up drops entries that are not frozen.                          *)
LEMMA TtlTickKeeps == IInv /\ TtlTick => IInv'
<1> SUFFICES ASSUME IInv, TtlTick PROVE IInv'
  OBVIOUS
<1> DEFINE dead == {p \in DOMAIN entries : ~ entries[p].frozen /\ entries[p].job
                                           /\ proc[p] = Gone}
<1>1. entries' = [p \in DOMAIN entries \ dead |-> entries[p]]
  BY DEF TtlTick
<1>2. TableBounded'
  BY <1>1, FS_Subset, FS_CardinalityType, ContainmentAssumption
     DEF IInv, TableBounded, WithinLimit
<1>3. proc' = proc /\ susp' = susp /\ lost' = lost
  BY DEF TtlTick
<1>4. DOMAIN entries' = DOMAIN entries \ dead
  BY <1>1
<1>5. \A p \in DOMAIN entries \ dead : entries'[p] = entries[p]
  BY <1>1
<1>6. WorldOK'
  <2>1. entries' = [p \in DOMAIN entries' |-> entries'[p]]
    BY <1>1
  <2> QED BY <1>3, <1>4, <1>5, <2>1 DEF IInv, WorldOK
<1>7. ASSUME NEW q \in Pids PROVE CountOK(q)'
  <2>1. CountOK(q)
    BY CountByNumber DEF IInv
  <2>2. Frozen(q)' <=> Frozen(q)
    BY <1>4, <1>5 DEF Frozen
  <2>3. Frozen(q) => entries'[q] = entries[q]
    BY <1>5 DEF Frozen
  <2> QED BY <1>3, <2>1, <2>2, <2>3 DEF CountOK
<1> QED BY <1>2, <1>6, <1>7, CountByNumberNext DEF IInv

(* An empty table is in order if no suspension is left that it should know. *)
LEMMA EmptyTableKeeps ==
    ASSUME proc' \in [Pids -> Images \cup {Gone}], susp' \in [Pids -> Nat],
           lost' \in [Pids -> Nat], entries' = NoEntries,
           \A p \in Pids : susp'[p] = lost'[p] /\ (proc'[p] = Gone => susp'[p] = 0)
    PROVE  IInv'
<1>1. DOMAIN entries' = {} /\ entries' = [p \in DOMAIN entries' |-> entries'[p]]
  BY DEF NoEntries
<1>2. TableBounded'
  BY <1>1, FS_EmptySet, ContainmentAssumption DEF TableBounded, WithinLimit
<1>3. ASSUME NEW p \in Pids PROVE CountOK(p)'
  BY <1>1 DEF CountOK, Frozen
<1> QED BY <1>1, <1>2, <1>3, CountByNumberNext DEF IInv, WorldOK

(* The destructor tries to resume every process with a frozen entry, and    *)
(* the others have none to lose.                                            *)
LEMMA StopKeeps == IInv /\ Stop => IInv'
<1> SUFFICES ASSUME IInv, Stop PROVE IInv'
  OBVIOUS
<1>1. /\ susp' \in [Pids -> Nat] /\ lost' \in [Pids -> Nat]
      /\ \A p \in Pids :
            IF p \in Held(DOMAIN entries)
               THEN susp'[p] = lost'[p] /\ susp'[p] <= susp[p]
               ELSE susp'[p] = susp[p] /\ lost'[p] = lost[p]
  BY ResumeCounts DEF IInv, Stop
<1>2. proc' = proc /\ entries' = NoEntries
  BY DEF Stop
<1>3. ASSUME NEW p \in Pids PROVE susp'[p] = lost'[p] /\ (proc'[p] = Gone => susp'[p] = 0)
  <2>1. CountOK(p) /\ susp[p] \in Nat /\ lost[p] \in Nat /\ susp'[p] \in Nat
    BY <1>1, CountByNumber DEF IInv, WorldOK
  <2>2. CASE p \in Held(DOMAIN entries)
    BY <1>1, <1>2, <2>1, <2>2 DEF CountOK
  <2>3. CASE p \notin Held(DOMAIN entries)
    BY <1>1, <1>2, <2>1, <2>3 DEF CountOK, Held, Frozen
  <2> QED BY <2>2, <2>3
<1>4. proc' \in [Pids -> Images \cup {Gone}]
  BY <1>2 DEF IInv, WorldOK
<1> QED BY <1>1, <1>2, <1>3, <1>4, EmptyTableKeeps

(* A service that is killed leaves its suspensions to nobody.               *)
LEMMA KilledKeeps == IInv /\ Killed => IInv'
<1> SUFFICES ASSUME IInv, Killed PROVE IInv'
  OBVIOUS
<1>1. proc' = proc /\ susp' = susp /\ lost' = susp /\ entries' = NoEntries
  BY DEF Killed
<1>2. /\ proc' \in [Pids -> Images \cup {Gone}]
      /\ susp' \in [Pids -> Nat] /\ lost' \in [Pids -> Nat]
  BY <1>1 DEF IInv, WorldOK
<1>3. \A p \in Pids : susp'[p] = lost'[p] /\ (proc'[p] = Gone => susp'[p] = 0)
  BY <1>1 DEF IInv, CountsOK, GoneIsNotSuspended
<1> QED BY <1>1, <1>2, <1>3, EmptyTableKeeps

-----------------------------------------------------------------------------
(* Initially no process is suspended and the table is empty.                *)
LEMMA InitOK == Init => IInv
<1> SUFFICES ASSUME Init PROVE IInv
  OBVIOUS
<1>1. DOMAIN entries = {}
  BY DEF Init
<1>2. TableBounded
  BY <1>1, FS_EmptySet, ContainmentAssumption DEF TableBounded, WithinLimit
<1>3. susp \in [Pids -> Nat] /\ lost \in [Pids -> Nat] /\ \A p \in Pids : susp[p] = 0 /\ lost[p] = 0
  BY DEF Init
<1>4. CountsOK
  BY <1>1, <1>3 DEF CountsOK, GoneIsNotSuspended, LostIsSuspended, SuspendedIsRecorded, Frozen
<1>5. WorldOK
  BY <1>1, <1>3 DEF Init, WorldOK
<1> QED BY <1>2, <1>4, <1>5 DEF IInv

(* One case per action.                                                     *)
LEMMA StepOK == IInv /\ [Next]_vars => IInv'
<1> SUFFICES ASSUME IInv, [Next]_vars PROVE IInv'
  OBVIOUS
<1>1. CASE UNCHANGED vars
  BY <1>1, WorldUnchanged DEF vars, world
<1>2. CASE ResolveByDefault
  <2>1. PICK q \in todo : Thaw({q.event.pid}) \/ UNCHANGED <<entries, susp, lost>>
    BY <1>2 DEF ResolveByDefault
  <2>2. proc' = proc
    BY <1>2 DEF ResolveByDefault
  <2>3. CASE Thaw({q.event.pid})
    BY <2>2, <2>3, ThawKeeps
  <2>4. CASE UNCHANGED <<entries, susp, lost>>
    BY <2>2, <2>4, WorldUnchanged DEF world
  <2> QED BY <2>1, <2>3, <2>4
<1>3. CASE AskAtLast \/ FindProcess \/ WaitForExit
  BY <1>3, WorldUnchanged DEF AskAtLast, FindProcess, WaitForExit
<1>4. CASE Freeze
  BY <1>4, FreezeKeeps
<1>5. CASE LimitChildren
  BY <1>5, LimitKeeps
<1>6. CASE Terminate
  <2>1. CASE UNCHANGED <<proc, susp, lost>>
    BY <1>6, <2>1, WorldUnchanged DEF Terminate, world
  <2>2. CASE /\ proc' = [proc EXCEPT ![subject.pid] = Gone]
             /\ susp' = [susp EXCEPT ![subject.pid] = 0]
             /\ lost' = [lost EXCEPT ![subject.pid] = 0]
    BY <1>6, <2>2, EndKeeps DEF Terminate
  <2> QED BY <1>6, <2>1, <2>2 DEF Terminate
<1>7. CASE \E m \in mail : HandleEvent(m.event) \/ HandleLookup(m.event)
  BY <1>7, WorldUnchanged DEF HandleEvent, HandleLookup
<1>8. CASE Answer
  <2>1. PICK i \in DOMAIN pending : AnswerAllow(pending[i]) \/ AnswerBlock(pending[i])
    BY <1>8 DEF Answer
  <2>2. CASE AnswerAllow(pending[i])
    <3>1. Thaw({pending[i].event.pid}) /\ proc' = proc
      BY <2>2 DEF AnswerAllow
    <3> QED BY <3>1, ThawKeeps
  <2>3. CASE AnswerBlock(pending[i])
    BY <2>3, WorldUnchanged DEF AnswerBlock
  <2> QED BY <2>1, <2>2, <2>3
<1>9. CASE PromptTimeoutTick
  BY <1>9, WorldUnchanged DEF PromptTimeoutTick
<1>10. CASE TtlTick
  BY <1>10, TtlTickKeeps
<1>11. CASE \E i \in Images : TrustImage(i) \/ DistrustImage(i)
  <2>1. PICK i \in Images : TrustImage(i) \/ DistrustImage(i)
    BY <1>11
  <2>2. CASE TrustImage(i)
    <3>1. PICK ps : Thaw(ps)
      BY <2>2 DEF TrustImage
    <3>2. proc' = proc
      BY <2>2 DEF TrustImage
    <3> QED BY <3>1, <3>2, ThawKeeps
  <2>3. CASE DistrustImage(i)
    BY <2>3, WorldUnchanged DEF DistrustImage
  <2> QED BY <2>1, <2>2, <2>3
<1>12. CASE Stop \/ Killed
  BY <1>12, StopKeeps, KilledKeeps
<1>13. CASE Restart
  BY <1>13, WorldUnchanged DEF Restart
<1>14. CASE \E p \in Pids : ProcessEnds(p) \/ ProcessActs(p) \/ \E i \in Images : ProcessStarts(p, i)
  <2>1. PICK p \in Pids : ProcessEnds(p) \/ ProcessActs(p) \/ \E i \in Images : ProcessStarts(p, i)
    BY <1>14
  <2>2. CASE ProcessEnds(p)
    BY <2>2, EndKeeps DEF ProcessEnds
  <2>3. CASE ProcessActs(p)
    BY <2>3, WorldUnchanged DEF ProcessActs
  <2>4. CASE \E i \in Images : ProcessStarts(p, i)
    <3>1. PICK i \in Images : ProcessStarts(p, i)
      BY <2>4
    <3>2. /\ proc[p] = Gone
          /\ proc' = [proc EXCEPT ![p] = i]
          /\ susp' = susp /\ lost' = lost /\ entries' = entries
      BY <3>1 DEF ProcessStarts
    <3>3. WorldOK'
      BY <3>2 DEF IInv, WorldOK
    <3>4. ASSUME NEW q \in Pids PROVE CountOK(q)'
      <4>1. CountOK(q) /\ CountOK(p) /\ susp[q] \in Nat /\ lost[q] \in Nat
        BY CountByNumber DEF IInv, WorldOK
      <4>2. q # p => proc'[q] = proc[q]
        BY <3>2 DEF IInv, WorldOK
      <4>3. Frozen(q)' <=> Frozen(q)
        BY <3>2 DEF Frozen
      <4>4. q = p => susp[q] = 0 /\ lost[q] = 0
        BY <3>2, <4>1 DEF CountOK
      <4> QED BY <3>2, <4>1, <4>2, <4>3, <4>4 DEF CountOK
    <3> QED BY <3>2, <3>3, <3>4, CountByNumberNext DEF IInv, TableBounded, WithinLimit
  <2> QED BY <2>1, <2>2, <2>3, <2>4
<1>15. CASE \E n \in 1..MaxPrompts : DeadlinePasses(n)
  BY <1>15, WorldUnchanged DEF DeadlinePasses
<1> QED BY <1>1, <1>2, <1>3, <1>4, <1>5, <1>6, <1>7, <1>8, <1>9, <1>10, <1>11, <1>12, <1>13,
           <1>14, <1>15 DEF Next, Work

LEMMA Inductive == Spec => []IInv
BY InitOK, StepOK, PTL DEF Spec

(* For every set of numbers and images and every limit: whatever the order  *)
(* of events, answers, timers, refused resumes, killed services and ends of *)
(* processes, a suspension the service has not tried to end is found by     *)
(* trust, by an answer and by the destructor.                               *)
THEOREM SuspendedAreRecorded == Spec => []SuspendedIsRecorded
<1>1. IInv => SuspendedIsRecorded
  BY DEF IInv, CountsOK
<1> QED BY <1>1, Inductive, PTL

(* The table of the contained never outgrows its limit.                     *)
THEOREM TableStaysWithinLimit == Spec => []WithinLimit
<1>1. IInv => WithinLimit
  BY DEF IInv, TableBounded
<1> QED BY <1>1, Inductive, PTL

-----------------------------------------------------------------------------
(* Thawing a set of numbers leaves none of them suspended with a record,    *)
(* and no number outside of it resumed.                                     *)
LEMMA ThawFrees ==
    ASSUME IInv, NEW ps, Thaw(ps), NEW p \in Pids
    PROVE  IF p \in ps THEN susp'[p] = lost'[p] ELSE susp'[p] = susp[p] /\ lost'[p] = lost[p]
<1>1. IF p \in Held(ps) THEN susp'[p] = lost'[p]
                        ELSE susp'[p] = susp[p] /\ lost'[p] = lost[p]
  BY ResumeCounts DEF IInv, Thaw
<1>2. CountOK(p) /\ susp[p] \in Nat /\ lost[p] \in Nat
  BY CountByNumber DEF IInv, WorldOK
<1>3. CASE p \in Held(ps)
  BY <1>1, <1>3 DEF Held
<1>4. CASE p \notin Held(ps)
  BY <1>1, <1>2, <1>4 DEF Held, CountOK
<1> QED BY <1>3, <1>4

LEMMA ClearedRunsStep ==
    ASSUME IInv, [Next]_vars, NEW p \in Pids, LetGo(p)
    PROVE  susp'[p] = lost'[p]
<1>1. CASE \E i \in DOMAIN pending : pending[i].event.pid = p /\ AnswerAllow(pending[i])
  <2>1. PICK i \in DOMAIN pending : pending[i].event.pid = p /\ AnswerAllow(pending[i])
    BY <1>1
  <2>2. Thaw({p})
    BY <2>1 DEF AnswerAllow
  <2> QED BY <2>2, ThawFrees
<1>2. CASE proc'[p] \in trusted' \ trusted
  <2>1. trusted' # trusted
    BY <1>2
  <2>2. PICK i \in Images : TrustImage(i) \/ DistrustImage(i)
    BY <2>1 DEF Next, Work, vars, thread, prompts, world, ResolveByDefault, AskAtLast, FindProcess,
        Freeze, LimitChildren, Terminate, WaitForExit, HandleEvent, HandleLookup, Answer,
        AnswerAllow, AnswerBlock, PromptTimeoutTick, TtlTick, Stop, Killed, Restart, ProcessEnds,
        ProcessActs, ProcessStarts, DeadlinePasses
  <2>3. TrustImage(i) /\ proc'[p] = i
    BY <1>2, <2>2 DEF TrustImage, DistrustImage
  <2> DEFINE freed == {q \in DOMAIN entries : /\ entries[q].frozen
                                              /\ entries[q].image \in trusted \cup {i}}
  <2>4. Thaw(freed) /\ proc' = proc
    BY <2>3 DEF TrustImage
  <2>5. susp[p] = lost[p] \/ p \in freed
    BY <2>3, <2>4 DEF IInv, CountsOK, SuspendedIsRecorded, Frozen
  <2> HIDE DEF freed
  <2> QED BY <2>4, <2>5, ThawFrees
<1>3. CASE at = "default" /\ at' # "kill" /\ \E q \in todo \ todo' : q.event.pid = p
  <2>1. ResolveByDefault \/ Killed
    BY <1>3 DEF Next, Work, vars, thread, prompts, world, Idle, AskAtLast, FindProcess, Freeze,
        LimitChildren, Terminate, WaitForExit, HandleEvent, HandleLookup, Answer, AnswerAllow,
        AnswerBlock, PromptTimeoutTick, TtlTick, TrustImage, DistrustImage, Stop, Restart,
        ProcessEnds, ProcessActs, ProcessStarts, DeadlinePasses
  <2>2. CASE Killed
    BY <2>2 DEF Killed
  <2>3. CASE ResolveByDefault
    <3>1. PICK q \in todo : todo' = todo \ {q} /\ Thaw({q.event.pid})
      BY <1>3, <2>3 DEF ResolveByDefault, Kill
    <3>2. q.event.pid = p
      BY <1>3, <3>1
    <3> QED BY <3>1, <3>2, ThawFrees
  <2> QED BY <2>1, <2>2, <2>3
<1> QED BY <1>1, <1>2, <1>3 DEF LetGo

(* For every instance: trusting an image or letting a prompt pass ends what *)
(* the service has suspended of the processes meant, whichever event and    *)
(* whichever name suspended them, but for the resumes the system refuses.   *)
THEOREM TheClearedRun == Spec => ClearedRuns
<1>1. IInv /\ [Next]_vars => [\A p \in Pids : LetGo(p) => susp'[p] = lost'[p]]_vars
  BY ClearedRunsStep
<1> QED BY <1>1, Inductive, PTL DEF Spec, ClearedRuns

LEMMA HeldStep ==
    ASSUME IInv, [Next]_vars, NEW p \in Pids, susp'[p] < susp[p], proc'[p] = proc[p]
    PROVE  Decided(p)
<1>1. /\ susp[p] \in Nat /\ lost[p] \in Nat
      /\ CountOK(p)
  BY CountByNumber DEF IInv, WorldOK
<1>2. susp' # susp
  BY <1>1
<1>3. CASE ResolveByDefault
  <2>1. PICK q \in todo : Thaw({q.event.pid})
    BY <1>2, <1>3 DEF ResolveByDefault
  <2>2. q.event.pid = p
    BY <1>1, <2>1, ThawFrees
  <2> QED BY <1>3, <2>2 DEF Decided, ResolveByDefault
<1>4. CASE Freeze
  <2>1. susp' = [susp EXCEPT ![subject.pid] = @ + 1]
    BY <1>2, <1>4 DEF Freeze
  <2> QED BY <1>1, <2>1 DEF IInv, WorldOK
<1>5. CASE Terminate
  <2>1. proc' = [proc EXCEPT ![subject.pid] = Gone] /\ susp' = [susp EXCEPT ![subject.pid] = 0]
    BY <1>2, <1>5 DEF Terminate
  <2> QED BY <1>1, <2>1 DEF IInv, WorldOK, CountOK
<1>6. CASE Answer
  <2>1. PICK i \in DOMAIN pending : AnswerAllow(pending[i])
    BY <1>2, <1>6 DEF Answer, AnswerBlock, world
  <2>2. pending[i].event.pid = p
    BY <1>1, <2>1, ThawFrees DEF AnswerAllow
  <2> QED BY <2>1, <2>2 DEF Decided
<1>7. CASE \E i \in Images : TrustImage(i) \/ DistrustImage(i)
  <2>1. PICK i \in Images : TrustImage(i)
    BY <1>2, <1>7 DEF DistrustImage, world
  <2> DEFINE freed == {q \in DOMAIN entries : /\ entries[q].frozen
                                              /\ entries[q].image \in trusted \cup {i}}
  <2>2. Thaw(freed)
    BY <2>1 DEF TrustImage
  <2>3. p \in Held(freed)
    BY <1>1, <2>2, ResumeCounts DEF Thaw, IInv
  <2>4. susp[p] # lost[p] => entries[p].image = proc[p]
    BY <1>1 DEF CountOK
  <2>5. susp[p] # lost[p]
    BY <1>1, <2>3 DEF Held, CountOK
  <2>6. p \in freed /\ trusted' = trusted \cup {i}
    BY <2>1, <2>3 DEF Held, TrustImage
  <2> QED BY <2>1, <2>4, <2>5, <2>6 DEF Decided
<1>8. CASE Stop
  BY <1>8 DEF Stop, Idle, Decided
<1>9. CASE \E q \in Pids : ProcessEnds(q)
  <2>1. PICK q \in Pids : ProcessEnds(q)
    BY <1>9
  <2> QED BY <1>1, <2>1 DEF ProcessEnds, IInv, WorldOK, CountOK
<1> QED BY <1>2, <1>3, <1>4, <1>5, <1>6, <1>7, <1>8, <1>9
        DEF Next, Work, vars, world, AskAtLast, FindProcess, LimitChildren, WaitForExit,
            HandleEvent, HandleLookup, PromptTimeoutTick, TtlTick, Killed, Restart,
            ProcessActs, ProcessStarts, DeadlinePasses

(* For every instance: what was found malicious stays suspended until its   *)
(* image is trusted, a prompt about its number is let pass, the service     *)
(* stops, or it ends; no timer and no other prompt resumes it.              *)
THEOREM TheHeldStayHeld == Spec => HeldUntilDecided
<1>1. IInv /\ [Next]_vars =>
        [\A p \in Pids : susp'[p] < susp[p] /\ proc'[p] = proc[p] => Decided(p)]_vars
  BY HeldStep
<1> QED BY <1>1, Inductive, PTL DEF Spec, HeldUntilDecided
==============================================================================
