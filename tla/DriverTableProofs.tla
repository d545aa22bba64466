-------------------------- MODULE DriverTableProofs --------------------------
(***************************************************************************)
(* The tables the driver keeps for the service.  First the set of banned   *)
(* actors (BannedPids), for every number of slots, every set of process    *)
(* numbers and every assignment of bits: the mask covers the set at every  *)
(* step of every writer, the count is honest, and a look-up that runs      *)
(* beside the writers answers exactly.  Then the no-execute list by itself *)
(* (KernelList), for every set of needles and table size: it is            *)
(* well-formed, and while the worker runs nothing it learned is forgotten  *)
(* on its way to the registry.  Then its composition with the service      *)
(* (TrustReconcile), for any images and directories: it moves the kernel's *)
(* list only as KernelList allows, and a reconciliation that ends has given *)
(* the trusted files back and kept the rest.                               *)
(***************************************************************************)
EXTENDS BannedPids, TrustReconcile, FiniteSetTheorems, TLAPS

(* No number has two slots: the writers search before they write.          *)
NoTwice == \A i, j \in Slot : slots[i] = slots[j] /\ slots[i] # None => i = j

(* What the holder of the lock has done so far, by its next step.          *)
HolderInv ==
    /\ holder.does = "nothing" => holder = Unlocked
    /\ holder.does = "add" =>
         /\ holder.pid \in Pid /\ holder.by \in Adder
         /\ holder.step \in {"mask", "slot", "count"}
         /\ holder.step \in {"mask", "slot"} => ~InSet(holder.pid)
         /\ holder.step \in {"slot", "count"} => BitOf[holder.pid] \in mask
         /\ holder.step = "count" => InSet(holder.pid)
    /\ holder.does = "remove" =>
         /\ holder.pid \in Pid
         /\ holder.step \in {"slot", "count", "mask"}
         /\ holder.step = "slot" => InSet(holder.pid)
         /\ holder.step \in {"count", "mask"} => ~InSet(holder.pid)
    /\ holder.does = "clear" =>
         /\ holder.step \in {"slot", "mask"}
         /\ holder.step = "mask" => Occupied = {}

(* The count beside the slots: it lags one step behind a writer that adds  *)
(* or removes, and waits for the end of a clear.                           *)
CountInv ==
    /\ holder.does = "clear" /\ holder.step = "slot" => count >= Cardinality(Occupied)
    /\ ~(holder.does = "clear" /\ holder.step = "slot") =>
         count = Cardinality(Occupied)
                 + (IF holder.step = "count"
                    THEN IF holder.does = "add" THEN -1 ELSE 1 ELSE 0)

(* The look-up under way: a ban that stood all the time is still ahead of  *)
(* the scan, and one that stands has been seen.                            *)
LookInv ==
    /\ read.step \in {"mask", "scan"} =>
         /\ read.pid \in Pid
         /\ InSet(read.pid) => read.seen
    /\ read.step = "mask" => read.at = 1 /\ (read.held => InSet(read.pid))
    /\ read.step = "scan" /\ read.held =>
         \E i \in Slot : i >= read.at /\ slots[i] = read.pid
    /\ LookIsExact

(* Whoever adds or removes does so for a number.                           *)
HolderKnown == holder.does \in {"add", "remove"} => holder.pid \in Pid

TypeInv == BannedTypeOK /\ HolderKnown

Inv == TypeInv /\ NoTwice /\ HolderInv /\ MaskCovers /\ CountInv /\ LookInv
---------------------------------------------------------------------------
(* The mask covers the set exactly when each occupied slot has its bit.    *)
LEMMA MaskMeaning ==
    MaskCovers <=> \A i \in Slot : slots[i] # None => BitOf[slots[i]] \in mask
BY DEF MaskCovers, BitsOf

(* Every step keeps the type: no writer leaves the table and no look-up    *)
(* runs past its end.                                                      *)
LEMMA BannedTypeStep == TypeInv /\ [BannedNext]_bannedVars => TypeInv'
<1> SUFFICES ASSUME TypeInv, [BannedNext]_bannedVars PROVE TypeInv'
  OBVIOUS
<1> USE BannedAssumption DEF TypeInv, HolderKnown, BannedTypeOK, Slot, Adder, Unlocked
<1>1. ASSUME NEW p \in Pid, Create(p) PROVE TypeInv'
  BY <1>1 DEF Create
<1>2. ASSUME NEW p \in Pid, ExitReadsCount(p) \/ ExitReadsMask(p) PROVE TypeInv'
  BY <1>2 DEF ExitReadsCount, ExitReadsMask
<1>3. ASSUME NEW p \in Pid, ExitLocks(p) PROVE TypeInv'
  BY <1>3 DEF ExitLocks
<1>4. CASE ExitClearsSlot
  BY <1>4 DEF ExitClearsSlot, Noticed, Answered
<1>5. CASE ExitCounts \/ ExitRebuildsMask
  BY <1>5 DEF ExitCounts, ExitRebuildsMask, BitsOf
<1>6. ASSUME NEW a \in Adder, (\E p \in Pid : Convict(a, p)) \/ AddLocks(a) PROVE TypeInv'
  BY <1>6 DEF Convict, AddLocks
<1>7. CASE AddSetsMask
  <2>1. BitOf[holder.pid] \in Bit
    BY <1>7 DEF AddSetsMask
  <2>2. QED BY <1>7, <2>1 DEF AddSetsMask
<1>8a. ASSUME NEW i \in Slot, AddTakesSlot(i) PROVE TypeInv'
  BY <1>8a DEF AddTakesSlot, Noticed, Answered
<1>8. ASSUME NEW i \in Slot, ClearSlot(i) PROVE TypeInv'
  BY <1>8 DEF ClearSlot, Noticed, Answered
<1>9. CASE AddFindsNoRoom \/ AddCounts
  BY <1>9 DEF AddFindsNoRoom, AddCounts
<1>10. CASE ClearLocks \/ ClearCount \/ ClearMask
  BY <1>10 DEF ClearLocks, ClearCount, ClearMask
<1>11. ASSUME NEW p \in Pid, LookBegins(p) PROVE TypeInv'
  <2>1. /\ (InSet(p) /\ ~Adding(p)) \in BOOLEAN
        /\ InSet(p) \in BOOLEAN
    BY Zenon DEF InSet, Adding
  <2>2. /\ read'.step \in {"mask", "no"} /\ read'.at = 1
        /\ read' = [step |-> read'.step, pid |-> p, at |-> 1,
                    held |-> InSet(p) /\ ~Adding(p), seen |-> InSet(p)]
    BY <1>11 DEF LookBegins
  <2>. QED BY <1>11, <2>1, <2>2 DEF LookBegins
<1>12. CASE LookTestsBit
  BY <1>12 DEF LookTestsBit
<1>12a. CASE LookReadsSlot
  <2>0. 1 \in Slot
    OBVIOUS
  <2>1. CASE slots[read.at] = read.pid
    <3>1. read' = [read EXCEPT !.step = "yes", !.at = 1]
      BY <1>12a, <2>1 DEF LookReadsSlot
    <3>2. QED BY <1>12a, <2>0, <3>1 DEF LookReadsSlot
  <2>2. CASE slots[read.at] # read.pid /\ read.at = Capacity
    <3>1. read' = [read EXCEPT !.step = "no", !.at = 1]
      BY <1>12a, <2>2 DEF LookReadsSlot
    <3>2. QED BY <1>12a, <2>0, <3>1 DEF LookReadsSlot
  <2>3. CASE slots[read.at] # read.pid /\ read.at # Capacity
    <3>1. read.at + 1 \in Slot
      BY <2>3
    <3>2. read' = [read EXCEPT !.at = read.at + 1]
      BY <1>12a, <2>3 DEF LookReadsSlot
    <3>3. QED BY <1>12a, <3>1, <3>2 DEF LookReadsSlot
  <2>4. QED BY <2>1, <2>2, <2>3
<1>13. CASE UNCHANGED bannedVars
  BY <1>13 DEF bannedVars
<1>14. QED
  BY <1>1, <1>2, <1>3, <1>4, <1>5, <1>6, <1>7, <1>8, <1>8a, <1>9, <1>12a, <1>10, <1>11,
     <1>12, <1>13 DEF BannedNext
---------------------------------------------------------------------------
(* Only the writers' slot steps touch the table.                           *)
LEMMA SlotWriters ==
    [BannedNext]_bannedVars => \/ slots' = slots
                   \/ ExitClearsSlot
                   \/ \E i \in Slot : AddTakesSlot(i) \/ ClearSlot(i)
BY DEF BannedNext, bannedVars, Create, ExitReadsCount, ExitReadsMask, ExitLocks, ExitCounts,
       ExitRebuildsMask, Convict, AddLocks, AddSetsMask, AddFindsNoRoom, AddCounts,
       ClearLocks, ClearCount, ClearMask, LookBegins, LookTestsBit, LookReadsSlot

(* What each of the writers' slot steps does to one slot.                  *)
LEMMA SlotSteps ==
    ASSUME TypeInv, NEW j \in Slot
    PROVE  /\ ExitClearsSlot =>
                slots'[j] = IF slots[j] = holder.pid THEN None ELSE slots[j]
           /\ \A i \in Slot : AddTakesSlot(i) =>
                /\ slots[i] = None
                /\ slots'[j] = IF j = i THEN holder.pid ELSE slots[j]
           /\ \A i \in Slot : ClearSlot(i) =>
                slots'[j] = IF j = i THEN None ELSE slots[j]
BY DEF TypeInv, BannedTypeOK, ExitClearsSlot, AddTakesSlot, ClearSlot

(* A number that is added has no slot yet, so no number ever has two.      *)
LEMMA NoTwiceStep == Inv /\ [BannedNext]_bannedVars => NoTwice'
<1> SUFFICES ASSUME Inv, [BannedNext]_bannedVars, NEW i \in Slot', NEW j \in Slot',
                    slots'[i] = slots'[j], slots'[i] # None
             PROVE  i = j
  BY DEF NoTwice
<1>0. i \in Slot /\ j \in Slot /\ TypeInv /\ NoTwice /\ HolderInv
  BY DEF Inv, Slot
<1>1. CASE slots' = slots
  BY <1>0, <1>1 DEF NoTwice
<1>2. CASE ExitClearsSlot
  BY <1>0, <1>2, SlotSteps DEF NoTwice
<1>3. ASSUME NEW k \in Slot, AddTakesSlot(k) PROVE i = j
  <2>1. \A n \in Slot : slots[n] # holder.pid
    BY <1>0, <1>3 DEF HolderInv, AddTakesSlot, InSet
  <2>2. QED BY <1>0, <1>3, <2>1, SlotSteps DEF NoTwice
<1>4. ASSUME NEW k \in Slot, ClearSlot(k) PROVE i = j
  BY <1>0, <1>4, SlotSteps DEF NoTwice
<1>5. QED BY <1>1, <1>2, <1>3, <1>4, SlotWriters

(* Driver.h's rule of order: a bit is set before its slot is written, and  *)
(* the mask is made anew only after the slot was emptied.                  *)
LEMMA MaskStep == Inv /\ [BannedNext]_bannedVars => MaskCovers'
<1> SUFFICES ASSUME Inv, [BannedNext]_bannedVars PROVE MaskCovers'
  OBVIOUS
<1>0. TypeInv /\ HolderInv /\ MaskCovers
  BY DEF Inv
<1>1. MaskCovers <=> \A i \in Slot : slots[i] # None => BitOf[slots[i]] \in mask
  BY MaskMeaning
<1>2. MaskCovers' <=> \A i \in Slot : slots'[i] # None => BitOf[slots'[i]] \in mask'
  BY DEF MaskCovers, BitsOf, Slot
<1>3. CASE ExitClearsSlot \/ \E k \in Slot : ClearSlot(k)
  <2>1. mask' = mask
    BY <1>3 DEF ExitClearsSlot, ClearSlot
  <2>2. \A i \in Slot : slots'[i] # None => slots'[i] = slots[i]
    BY <1>0, <1>3, SlotSteps
  <2>3. QED BY <1>0, <1>1, <1>2, <2>1, <2>2
<1>4. ASSUME NEW k \in Slot, AddTakesSlot(k) PROVE MaskCovers'
  <2>1. mask' = mask /\ BitOf[holder.pid] \in mask
    BY <1>0, <1>4 DEF HolderInv, AddTakesSlot
  <2>2. \A i \in Slot : slots'[i] = slots[i] \/ slots'[i] = holder.pid
    BY <1>0, <1>4, SlotSteps
  <2>3. QED BY <1>0, <1>1, <1>2, <2>1, <2>2
<1>5. CASE slots' = slots
  <2>1. CASE mask' = mask
    BY <1>0, <1>5, <2>1, <1>1, <1>2
  <2>2. CASE ExitRebuildsMask
    BY <1>5, <2>2 DEF ExitRebuildsMask, MaskCovers, BitsOf
  <2>3. CASE AddSetsMask
    BY <1>0, <1>5, <2>3, <1>1, <1>2 DEF AddSetsMask
  <2>4. CASE ClearMask
    BY <1>0, <1>5, <2>4, <1>2 DEF ClearMask, HolderInv, Occupied
  <2>5. QED
    BY <1>5, <2>1, <2>2, <2>3, <2>4 DEF BannedNext, bannedVars, Create, ExitReadsCount,
       ExitReadsMask, ExitLocks, ExitClearsSlot, ExitCounts, Convict, AddLocks,
       AddTakesSlot, AddFindsNoRoom, AddCounts, ClearLocks, ClearSlot, ClearCount,
       LookBegins, LookTestsBit, LookReadsSlot
<1>6. QED BY <1>3, <1>4, <1>5, SlotWriters

(* The lock is held to the end: what its holder did stays done until the   *)
(* holder's own next step.                                                 *)
LEMMA HolderStep == Inv /\ [BannedNext]_bannedVars => HolderInv'
<1> SUFFICES ASSUME Inv, [BannedNext]_bannedVars PROVE HolderInv'
  OBVIOUS
<1>0. TypeInv /\ NoTwice /\ HolderInv
  BY DEF Inv
<1> USE DEF HolderInv, Unlocked
<1>1. CASE holder' = holder /\ slots' = slots /\ mask' = mask
  BY <1>0, <1>1 DEF InSet, Occupied, Slot
<1>2. ASSUME NEW p \in Pid, ExitLocks(p) PROVE HolderInv'
  BY <1>0, <1>2 DEF ExitLocks, InSet, Slot, TypeInv, BannedTypeOK
<1>3. CASE ExitClearsSlot
  <2>1. \A i \in Slot : slots'[i] # holder.pid
    BY <1>0, <1>3, SlotSteps, BannedAssumption DEF TypeInv, HolderKnown, ExitClearsSlot
  <2>2. holder' = [holder EXCEPT !.step = "count"] /\ holder.does = "remove"
    BY <1>3 DEF ExitClearsSlot
  <2>3. QED BY <1>0, <2>1, <2>2 DEF InSet, Slot, TypeInv, BannedTypeOK
<1>4. CASE ExitCounts
  BY <1>0, <1>4 DEF ExitCounts, InSet, Slot, TypeInv, BannedTypeOK
<1>5. CASE ExitRebuildsMask \/ AddFindsNoRoom \/ AddCounts \/ ClearMask
  BY <1>5 DEF ExitRebuildsMask, AddFindsNoRoom, AddCounts, ClearMask
<1>6. ASSUME NEW a \in Adder, AddLocks(a) PROVE HolderInv'
  BY <1>0, <1>6 DEF AddLocks, InSet, Slot, Adder, TypeInv, BannedTypeOK
<1>7. CASE AddSetsMask
  BY <1>0, <1>7 DEF AddSetsMask, InSet, Slot, TypeInv, BannedTypeOK
<1>8. ASSUME NEW i \in Slot, AddTakesSlot(i) PROVE HolderInv'
  <2>1. slots'[i] = holder.pid
    BY <1>0, <1>8, SlotSteps
  <2>2. holder' = [holder EXCEPT !.step = "count"] /\ holder.does = "add" /\ mask' = mask
    BY <1>8 DEF AddTakesSlot
  <2>3. QED BY <1>0, <1>8, <2>1, <2>2 DEF AddTakesSlot, InSet, Slot, TypeInv, BannedTypeOK
<1>9. CASE ClearLocks
  BY <1>9 DEF ClearLocks
<1>10. ASSUME NEW i \in Slot, ClearSlot(i) PROVE HolderInv'
  BY <1>10 DEF ClearSlot
<1>11. CASE ClearCount
  BY <1>0, <1>11 DEF ClearCount, Occupied, Slot, TypeInv, BannedTypeOK
<1>12. QED
  BY <1>1, <1>2, <1>3, <1>4, <1>5, <1>6, <1>7, <1>8, <1>9, <1>10, <1>11
     DEF BannedNext, bannedVars, Create, ExitReadsCount, ExitReadsMask, Convict,
         LookBegins, LookTestsBit, LookReadsSlot
---------------------------------------------------------------------------
(* Taking one slot more or one slot less changes the number by one.        *)
LEMMA SlotsAreFinite ==
    /\ IsFiniteSet(Occupied)
    /\ Cardinality(Occupied) \in Nat
    /\ \A i \in Slot : i \in Occupied => Cardinality(Occupied) >= 1
<1>1. IsFiniteSet(Slot)
  BY FS_Interval, BannedAssumption DEF Slot
<1>2. IsFiniteSet(Occupied)
  BY <1>1, FS_Subset DEF Occupied
<1>3. Cardinality(Occupied) \in Nat
  BY <1>2, FS_CardinalityType
<1>4. Occupied # {} => Cardinality(Occupied) # 0
  BY <1>2, FS_EmptySet
<1>5. QED BY <1>2, <1>3, <1>4

(* A slot step changes the number of occupied slots by one.                *)
LEMMA OneSlot ==
    ASSUME TypeInv, NoTwice, HolderInv
    PROVE  /\ ExitClearsSlot => Cardinality(Occupied') = Cardinality(Occupied) - 1
           /\ \A i \in Slot : AddTakesSlot(i) =>
                Cardinality(Occupied') = Cardinality(Occupied) + 1
           /\ \A i \in Slot : ClearSlot(i) =>
                Cardinality(Occupied') = Cardinality(Occupied) - 1
<1>0. IsFiniteSet(Occupied) /\ Cardinality(Occupied) \in Nat
  BY SlotsAreFinite
<1>1. ASSUME ExitClearsSlot PROVE Cardinality(Occupied') = Cardinality(Occupied) - 1
  <2>1. PICK i \in Slot : slots[i] = holder.pid
    BY <1>1 DEF ExitClearsSlot, HolderInv, InSet
  <2>2. i \in Occupied
    BY <1>1, <2>1, BannedAssumption DEF Occupied, HolderInv, ExitClearsSlot
  <2>3. Occupied' = Occupied \ {i}
    BY <1>1, <2>1, <2>2, SlotSteps DEF Occupied, NoTwice, Slot
  <2>4. QED BY <1>0, <2>2, <2>3, FS_RemoveElement
<1>2. ASSUME NEW i \in Slot, AddTakesSlot(i)
      PROVE  Cardinality(Occupied') = Cardinality(Occupied) + 1
  <2>1. i \notin Occupied /\ holder.pid # None
    BY <1>2, BannedAssumption DEF AddTakesSlot, Occupied, HolderInv
  <2>2. Occupied' = Occupied \union {i}
    BY <1>2, <2>1, SlotSteps DEF Occupied, Slot
  <2>3. QED BY <1>0, <2>1, <2>2, FS_AddElement
<1>3. ASSUME NEW i \in Slot, ClearSlot(i)
      PROVE  Cardinality(Occupied') = Cardinality(Occupied) - 1
  <2>1. i \in Occupied
    BY <1>3 DEF ClearSlot
  <2>2. Occupied' = Occupied \ {i}
    BY <1>3, <2>1, SlotSteps DEF Occupied, Slot
  <2>3. QED BY <1>0, <2>1, <2>2, FS_RemoveElement
<1>4. QED BY <1>1, <1>2, <1>3

(* The count follows the slots.                                            *)
LEMMA CountStep == Inv /\ [BannedNext]_bannedVars => CountInv'
<1> SUFFICES ASSUME Inv, [BannedNext]_bannedVars PROVE CountInv'
  OBVIOUS
<1>0. TypeInv /\ NoTwice /\ HolderInv /\ CountInv
  BY DEF Inv
<1>a. count \in Int /\ Cardinality(Occupied) \in Nat /\ Cardinality(Occupied') \in Nat
  <2>1. IsFiniteSet(Slot)
    BY FS_Interval, BannedAssumption DEF Slot
  <2>2. IsFiniteSet(Occupied')
    BY <2>1, FS_Subset DEF Occupied, Slot
  <2>3. QED BY <1>0, <2>2, SlotsAreFinite, FS_CardinalityType DEF TypeInv, BannedTypeOK
<1> USE DEF CountInv, Unlocked
<1>1. CASE slots' = slots
  <2>0. Occupied' = Occupied
    BY <1>1 DEF Occupied, Slot
  <2>1. CASE count' = count /\ holder' = holder
    BY <1>0, <2>0, <2>1
  <2>2. ASSUME NEW p \in Pid, ExitLocks(p) PROVE CountInv'
    BY <1>0, <1>a, <2>0, <2>2 DEF ExitLocks, HolderInv
  <2>3. CASE ExitCounts \/ ExitRebuildsMask
    BY <1>0, <1>a, <2>0, <2>3 DEF ExitCounts, ExitRebuildsMask, TypeInv, BannedTypeOK
  <2>4. ASSUME NEW a \in Adder, AddLocks(a) PROVE CountInv'
    BY <1>0, <1>a, <2>0, <2>4 DEF AddLocks
  <2>5. CASE AddSetsMask \/ AddFindsNoRoom \/ AddCounts
    BY <1>0, <1>a, <2>0, <2>5
       DEF AddSetsMask, AddFindsNoRoom, AddCounts, TypeInv, BannedTypeOK
  <2>6. CASE ClearLocks \/ ClearMask
    BY <1>0, <1>a, <2>0, <2>6 DEF ClearLocks, ClearMask
  <2>7. CASE ClearCount
    <3>1. Cardinality(Occupied) = 0
      BY <2>7, FS_EmptySet DEF ClearCount
    <3>2. QED BY <1>0, <2>0, <2>7, <3>1 DEF ClearCount, TypeInv, BannedTypeOK
  <2>8. CASE ExitClearsSlot \/ \E i \in Slot : AddTakesSlot(i) \/ ClearSlot(i)
    <3>1. Cardinality(Occupied') # Cardinality(Occupied)
      BY <1>0, <1>a, <2>8, OneSlot
    <3>2. QED BY <2>0, <3>1
  <2>9. QED
    BY <2>1, <2>2, <2>3, <2>4, <2>5, <2>6, <2>7, <2>8
       DEF BannedNext, bannedVars, Create, ExitReadsCount, ExitReadsMask, Convict,
           LookBegins, LookTestsBit, LookReadsSlot
<1>2. CASE ExitClearsSlot
  <2>1. Cardinality(Occupied') = Cardinality(Occupied) - 1
    BY <1>0, <1>2, OneSlot
  <2>2. QED BY <1>0, <1>a, <1>2, <2>1 DEF ExitClearsSlot, TypeInv, BannedTypeOK
<1>3. ASSUME NEW i \in Slot, AddTakesSlot(i) PROVE CountInv'
  <2>1. Cardinality(Occupied') = Cardinality(Occupied) + 1
    BY <1>0, <1>3, OneSlot
  <2>2. QED BY <1>0, <1>a, <1>3, <2>1 DEF AddTakesSlot, TypeInv, BannedTypeOK
<1>4. ASSUME NEW i \in Slot, ClearSlot(i) PROVE CountInv'
  <2>1. Cardinality(Occupied') = Cardinality(Occupied) - 1
    BY <1>0, <1>4, OneSlot
  <2>2. QED BY <1>0, <1>a, <1>4, <2>1 DEF ClearSlot
<1>5. QED BY <1>1, <1>2, <1>3, <1>4, SlotWriters

(* The callbacks' first question: while a ban stands the count is above 0. *)
LEMMA CountShowsBans ==
    ASSUME Inv, NEW p \in Pid, InSet(p), ~Adding(p)
    PROVE  count > 0
<1>0. TypeInv /\ NoTwice /\ HolderInv /\ CountInv
  BY DEF Inv
<1>1. PICK i \in Slot : slots[i] = p
  BY DEF InSet
<1>2. i \in Occupied
  BY <1>1, BannedAssumption DEF Occupied
<1>3. Cardinality(Occupied) >= 1 /\ Cardinality(Occupied) \in Nat /\ count \in Int
  BY <1>0, <1>2, SlotsAreFinite DEF TypeInv, BannedTypeOK
<1>4. CASE holder.does = "add" /\ holder.step = "count"
  <2>1. PICK j \in Slot : slots[j] = holder.pid
    BY <1>0, <1>4 DEF HolderInv, InSet
  <2>2. j # i /\ j \in Occupied
    BY <1>0, <1>1, <1>4, <2>1, BannedAssumption DEF Adding, Occupied, HolderInv
  <2>3. IsFiniteSet(Occupied \ {i}) /\ Cardinality(Occupied \ {i}) = Cardinality(Occupied) - 1
    BY <1>2, SlotsAreFinite, FS_RemoveElement
  <2>4. j \in Occupied \ {i}
    BY <2>2
  <2>5. Cardinality(Occupied \ {i}) \in Nat /\ Cardinality(Occupied \ {i}) # 0
    BY <2>3, <2>4, FS_EmptySet, FS_CardinalityType
  <2>6. QED BY <1>0, <1>3, <1>4, <2>3, <2>5 DEF CountInv
<1>5. CASE ~(holder.does = "add" /\ holder.step = "count")
  BY <1>0, <1>3, <1>5 DEF CountInv
<1>6. QED BY <1>4, <1>5
---------------------------------------------------------------------------
(* A look-up and the slot steps of the writers: a ban it was still to find *)
(* is found or was lifted meanwhile, and held says so.                     *)
LEMMA LookStep == Inv /\ [BannedNext]_bannedVars => LookInv'
<1> SUFFICES ASSUME Inv, [BannedNext]_bannedVars PROVE LookInv'
  OBVIOUS
<1>0. TypeInv /\ NoTwice /\ HolderInv /\ MaskCovers /\ LookInv
  BY DEF Inv
<1> USE DEF LookInv, LookIsExact
<1>1. CASE slots' = slots /\ read' = read
  BY <1>0, <1>1 DEF InSet, Slot
<1>2. CASE ExitClearsSlot \/ \E i \in Slot : AddTakesSlot(i) \/ ClearSlot(i)
  <2>1. read' = Noticed(slots')
    BY <1>2 DEF ExitClearsSlot, AddTakesSlot, ClearSlot
  <2>2. CASE Answered
    BY <1>0, <2>1, <2>2 DEF Noticed, Answered, TypeInv, BannedTypeOK
  <2>3. CASE ~Answered
    <3>1. /\ read'.step = read.step /\ read'.pid = read.pid /\ read'.at = read.at
          /\ read'.held <=> read.held /\ \E i \in Slot : slots'[i] = read.pid
          /\ read'.seen <=> read.seen \/ \E i \in Slot : slots'[i] = read.pid
      BY <1>0, <2>1, <2>3 DEF Noticed, TypeInv, BannedTypeOK
    <3>2. read.step \in {"mask", "scan"} /\ read.pid \in Pid
      BY <1>0, <2>3 DEF Answered, TypeInv, BannedTypeOK
    <3>3. \A i \in Slot : slots'[i] = read.pid /\ slots[i] # read.pid
                          => \E k \in Slot : AddTakesSlot(k) /\ holder.pid = read.pid
      BY <1>0, <1>2, <3>2, SlotSteps, BannedAssumption
    <3>4. \A k \in Slot : AddTakesSlot(k) /\ holder.pid = read.pid => ~InSet(read.pid)
      BY <1>0 DEF AddTakesSlot, HolderInv
    <3>5. read'.step = "scan" /\ read'.held =>
            \E i \in Slot : i >= read'.at /\ slots'[i] = read'.pid
      <4>1. SUFFICES ASSUME read.step = "scan", read.held,
                            NEW i \in Slot, slots'[i] = read.pid
                     PROVE  i >= read.at
        BY <3>1
      <4>2. PICK j \in Slot : j >= read.at /\ slots[j] = read.pid
        BY <1>0, <4>1
      <4>3. InSet(read.pid)
        BY <4>2 DEF InSet
      <4>4. slots[i] = read.pid
        BY <3>3, <3>4, <4>1, <4>3
      <4>5. i = j
        BY <1>0, <3>2, <4>2, <4>4, BannedAssumption DEF NoTwice
      <4>6. QED BY <4>2, <4>5
    <3>6. read'.step \notin {"yes", "no"}
      BY <3>1, <3>2
    <3>7. read'.step = "mask" => read'.at = 1
      BY <1>0, <3>1
    <3>8. QED
      BY <3>1, <3>2, <3>5, <3>6, <3>7 DEF InSet, Slot
  <2>4. QED BY <2>2, <2>3
<1>3. ASSUME NEW p \in Pid, LookBegins(p) PROVE LookInv'
  <2>1. InSet(p) /\ ~Adding(p) => count > 0
    BY <1>3, CountShowsBans
  <2>2. InSet(p)' <=> InSet(p)
    BY <1>3 DEF LookBegins, InSet, Slot
  <2>3. read' = [step |-> IF count > 0 THEN "mask" ELSE "no", pid |-> p, at |-> 1,
                 held |-> InSet(p) /\ ~Adding(p), seen |-> InSet(p)]
    BY <1>3 DEF LookBegins
  <2>4. /\ read'.step \in {"mask", "no"} /\ read'.pid = p
        /\ read'.step = "no" => ~(count > 0)
        /\ read'.held <=> InSet(p) /\ ~Adding(p)
        /\ read'.seen <=> InSet(p)
    BY <2>3
  <2>5. slots' = slots
    BY <1>3 DEF LookBegins
  <2>6. read'.at = 1
    BY <2>3
  <2>7. (\E i \in Slot : slots'[i] = read'.pid) <=> InSet(p)
    BY <2>4, <2>5 DEF InSet
  <2>8. read'.step = "no" => ~read'.held
    BY <2>1, <2>4
  <2>9. QED BY <2>4, <2>6, <2>7, <2>8 DEF InSet, Slot
<1>4. CASE LookTestsBit
  <2>1. InSet(read.pid) => BitOf[read.pid] \in mask
    BY <1>0, <1>4, BannedAssumption, MaskMeaning DEF LookTestsBit, InSet
  <2>2. slots' = slots /\ read.step = "mask"
    BY <1>4 DEF LookTestsBit
  <2>3. read' = [read EXCEPT !.step = IF BitOf[read.pid] \in mask THEN "scan" ELSE "no"]
    BY <1>4 DEF LookTestsBit
  <2>4. /\ read'.step = (IF BitOf[read.pid] \in mask THEN "scan" ELSE "no")
        /\ read'.pid = read.pid /\ read'.at = read.at
        /\ read'.held = read.held /\ read'.seen = read.seen
    BY <1>0, <2>3 DEF TypeInv, BannedTypeOK
  <2>5. read.at = 1 => \A i \in Slot : i >= read.at
    BY BannedAssumption DEF Slot
  <2>6. QED BY <1>0, <2>1, <2>2, <2>4, <2>5 DEF InSet, Slot
<1>5. CASE LookReadsSlot
  <2>1. slots' = slots /\ read.step = "scan" /\ read.at \in Slot
    BY <1>0, <1>5 DEF LookReadsSlot, TypeInv, BannedTypeOK
  <2>2. CASE slots[read.at] = read.pid
    <3>1. read' = [read EXCEPT !.step = "yes", !.at = 1]
      BY <1>5, <2>2 DEF LookReadsSlot
    <3>2. read'.step = "yes" /\ read'.seen = read.seen
      BY <1>0, <3>1 DEF TypeInv, BannedTypeOK
    <3>3. QED BY <1>0, <2>1, <2>2, <3>2 DEF InSet
  <2>3. CASE slots[read.at] # read.pid /\ read.at = Capacity
    <3>1. read' = [read EXCEPT !.step = "no", !.at = 1]
      BY <1>5, <2>3 DEF LookReadsSlot
    <3>2. read'.step = "no" /\ read'.held = read.held
      BY <1>0, <3>1 DEF TypeInv, BannedTypeOK
    <3>3. ~read.held
      BY <1>0, <2>1, <2>3, BannedAssumption DEF Slot
    <3>4. QED BY <3>2, <3>3
  <2>4. CASE slots[read.at] # read.pid /\ read.at # Capacity
    <3>1. read' = [read EXCEPT !.at = @ + 1]
      BY <1>5, <2>4 DEF LookReadsSlot
    <3>2. /\ read'.step = "scan" /\ read'.at = read.at + 1 /\ read'.pid = read.pid
          /\ read'.held = read.held /\ read'.seen = read.seen
      BY <1>0, <2>1, <3>1 DEF TypeInv, BannedTypeOK
    <3>3. \A i \in Slot : i >= read.at /\ slots[i] = read.pid => i >= read.at + 1
      BY <2>1, <2>4, BannedAssumption DEF Slot
    <3>4. QED BY <1>0, <2>1, <3>2, <3>3 DEF InSet, Slot
  <2>5. QED BY <2>2, <2>3, <2>4
<1>6. QED
  BY <1>1, <1>2, <1>3, <1>4, <1>5 DEF BannedNext, bannedVars, Create, ExitReadsCount,
     ExitReadsMask, ExitLocks, ExitCounts, ExitRebuildsMask, Convict, AddLocks,
     AddSetsMask, AddFindsNoRoom, AddCounts, ClearLocks, ClearCount, ClearMask
---------------------------------------------------------------------------
(* The initial state has nothing banned and nobody at work.                *)
LEMMA InvInit == BannedInit => Inv
<1> SUFFICES ASSUME BannedInit PROVE Inv
  OBVIOUS
<1>1. TypeInv
  BY BannedAssumption DEF BannedInit, TypeInv, HolderKnown, BannedTypeOK, Slot, Adder,
     Unlocked
<1>2. NoTwice /\ HolderInv /\ LookInv
  BY DEF BannedInit, NoTwice, HolderInv, Unlocked, LookInv, LookIsExact
<1>3. Occupied = {}
  BY DEF BannedInit, Occupied
<1>4. CountInv
  BY <1>3, FS_EmptySet DEF BannedInit, CountInv, Unlocked
<1>5. MaskCovers
  BY DEF BannedInit, MaskCovers, BitsOf
<1>6. QED BY <1>1, <1>2, <1>4, <1>5 DEF Inv

(* Every reachable state is one the writers' rules describe.               *)
THEOREM Invariant == BannedSpec => []Inv
<1>1. TypeInv /\ [BannedNext]_bannedVars => TypeInv'
  BY BannedTypeStep
<1>2. Inv /\ [BannedNext]_bannedVars => Inv'
  BY <1>1, NoTwiceStep, MaskStep, HolderStep, CountStep, LookStep DEF Inv
<1>3. QED BY InvInit, <1>2, PTL DEF BannedSpec

(* Every variable has its type in every reachable state.                   *)
THEOREM BannedTypeCorrect == BannedSpec => []BannedTypeOK
<1>1. Inv => BannedTypeOK
  BY DEF Inv, TypeInv
<1>2. QED BY <1>1, Invariant, PTL

(* No number is ever in the set without its bit in the mask, whatever the  *)
(* writers are doing: the quick test never lets a banned actor through.    *)
THEOREM NeverDenied == BannedSpec => []MaskCovers
<1>1. Inv => MaskCovers
  BY DEF Inv
<1>2. QED BY <1>1, Invariant, PTL

(* The count is the number of bans whenever nobody holds the lock.         *)
THEOREM CountIsHonest == BannedSpec => []CountHonest
<1>1. Inv => CountHonest
  BY SlotsAreFinite DEF Inv, CountInv, CountHonest, Unlocked
<1>2. QED BY <1>1, Invariant, PTL

(* A look-up that took no lock answers yes if the ban stood throughout and *)
(* no if it never stood, whatever the writers did meanwhile.               *)
THEOREM LookUpsAreExact == BannedSpec => []LookIsExact
<1>1. Inv => LookIsExact
  BY DEF Inv, LookInv
<1>2. QED BY <1>1, Invariant, PTL

(* The exit of a process lifts every ban that was in place when it began,  *)
(* although it takes the lock only if the unlocked tests tell it to.       *)
THEOREM ExitsLiftBans == BannedSpec => []ExitLiftsBan
<1>1. BannedInit => ExitLiftsBan
  BY BannedAssumption DEF BannedInit, ExitLiftsBan, InSet
<1>2. Inv /\ ExitLiftsBan /\ [BannedNext]_bannedVars => ExitLiftsBan'
  <2> SUFFICES ASSUME Inv, ExitLiftsBan, [BannedNext]_bannedVars, NEW p \in Pid,
                      InSet(p)', ~Adding(p)', p \notin late'
               PROVE  proc'[p] # "gone" /\ p \in bad'
    BY DEF ExitLiftsBan
  <2>0. TypeInv /\ NoTwice /\ HolderInv /\ MaskCovers
    BY DEF Inv
  <2>a. InSet(p) /\ ~Adding(p) /\ p \notin late => proc[p] # "gone" /\ p \in bad
    BY DEF ExitLiftsBan
  <2> USE DEF TypeInv, BannedTypeOK
  <2>1. CASE ExitRebuildsMask \/ \E n \in Pid : \/ Create(n) \/ ExitReadsCount(n)
                                              \/ ExitReadsMask(n) \/ ExitLocks(n)
    <3>1. slots' = slots /\ late' = late /\ ~Adding(p)
      BY <2>1 DEF ExitRebuildsMask, Create, ExitReadsCount, ExitReadsMask, ExitLocks,
                  Unlocked, Adding
    <3>2. InSet(p)
      BY <3>1 DEF InSet, Slot
    <3>3. proc[p] # "gone" /\ p \in bad
      BY <2>a, <3>1, <3>2
    <3>4. ASSUME NEW n \in Pid, Create(n) PROVE proc'[p] # "gone" /\ p \in bad'
      BY <2>0, <3>3, <3>4 DEF Create
    <3>5. ASSUME NEW n \in Pid, ExitReadsCount(n) PROVE proc'[p] # "gone" /\ p \in bad'
      <4>1. count > 0
        BY <3>1, <3>2, CountShowsBans
      <4>2. QED BY <2>0, <3>3, <3>5, <4>1 DEF ExitReadsCount
    <3>6. ASSUME NEW n \in Pid, ExitReadsMask(n) PROVE proc'[p] # "gone" /\ p \in bad'
      <4>1. BitOf[p] \in mask
        BY <2>0, <3>2, MaskMeaning, BannedAssumption DEF InSet
      <4>2. QED BY <2>0, <3>3, <3>6, <4>1 DEF ExitReadsMask
    <3>7. ASSUME NEW n \in Pid, ExitLocks(n) PROVE proc'[p] # "gone" /\ p \in bad'
      BY <2>0, <3>2, <3>3, <3>7 DEF ExitLocks
    <3>8. CASE ExitRebuildsMask
      <4>1. holder.pid # p
        BY <2>0, <3>2, <3>8 DEF ExitRebuildsMask, HolderInv
      <4>2. QED BY <2>0, <3>3, <3>8, <4>1 DEF ExitRebuildsMask
    <3>9. QED BY <2>1, <3>4, <3>5, <3>6, <3>7, <3>8
  <2>2. CASE AddCounts
    <3>1. InSet(p) /\ p \notin late
      BY <2>2 DEF AddCounts, InSet, Slot
    <3>2. CASE p = holder.pid
      BY <2>0, <2>2, <3>2 DEF AddCounts
    <3>3. CASE p # holder.pid
      BY <2>a, <2>2, <3>1, <3>3 DEF AddCounts, Adding
    <3>4. QED BY <3>2, <3>3
  <2>3. ASSUME NEW i \in Slot, AddTakesSlot(i) PROVE proc'[p] # "gone" /\ p \in bad'
    <3>1. /\ holder' = [holder EXCEPT !.step = "count"] /\ holder.does = "add"
          /\ late' = late /\ proc' = proc /\ bad' = bad
      BY <2>3 DEF AddTakesSlot
    <3>2. p # holder.pid /\ ~Adding(p)
      BY <2>0, <3>1 DEF Adding
    <3>3. InSet(p)
      BY <2>0, <2>3, <3>2, SlotSteps DEF InSet, Slot
    <3>4. QED BY <2>a, <3>1, <3>2, <3>3
  <2>4. CASE ExitClearsSlot \/ \E i \in Slot : ClearSlot(i)
    <3>1. InSet(p) /\ p \in Pid
      BY <2>0, <2>4, SlotSteps, BannedAssumption DEF InSet, Slot
    <3>2. proc' = proc /\ bad' = bad /\ ~Adding(p)
      BY <2>4 DEF ExitClearsSlot, ClearSlot, Adding
    <3>3. p \notin late
      <4>1. CASE ExitClearsSlot
        <5>1. p # holder.pid
          BY <2>0, <4>1, SlotSteps, BannedAssumption DEF InSet, Slot
        <5>2. QED BY <4>1, <5>1 DEF ExitClearsSlot
      <4>2. ASSUME NEW i \in Slot, ClearSlot(i) PROVE p \notin late
        <5>1. p # slots[i]
          BY <2>0, <4>2, SlotSteps, BannedAssumption DEF InSet, Slot, NoTwice
        <5>2. QED BY <4>2, <5>1 DEF ClearSlot
      <4>3. QED BY <2>4, <4>1, <4>2
    <3>4. QED BY <2>a, <3>1, <3>2, <3>3
  <2>5. CASE AddFindsNoRoom
    <3>1. InSet(p) /\ late' = late /\ proc' = proc /\ bad' = bad
      BY <2>5 DEF AddFindsNoRoom, InSet, Slot
    <3>2. ~Adding(p)
      BY <2>0, <2>5, <3>1 DEF AddFindsNoRoom, Adding, HolderInv
    <3>3. QED BY <2>a, <3>1, <3>2
  <2>6. CASE /\ slots' = slots /\ late' = late /\ proc' = proc /\ bad' = bad
             /\ Adding(p) => Adding(p)'
    BY <2>a, <2>6 DEF InSet, Slot
  <2>7. QED
    BY <2>0, <2>1, <2>2, <2>3, <2>4, <2>5, <2>6 DEF BannedNext, bannedVars, ExitCounts,
       Convict, AddLocks, AddSetsMask, ClearLocks, ClearCount, ClearMask, LookBegins,
       LookTestsBit, LookReadsSlot, Adding, Unlocked
<1>3. QED BY <1>1, <1>2, Invariant, PTL DEF BannedSpec

---------------------------------------------------------------------------
(* The no-execute list.                                                    *)

(* Who may be flushing when.                                               *)
FlushersInTurn ==
    /\ worker # "flush" => flushing["worker"] = "no"
    /\ command # "flush" <=> flushing["command"] = "no"
    /\ (HasWorker /\ command = "flush") => failed /\ ~dirty /\ flushing["worker"] = "no"
    /\ driver # "draining" => flushing["unload"] = "no"
    /\ ~HasWorker => worker \in {"exited", "none"}
    /\ driver = "off" => command = "none"

(* A copy the worker is about to write lacks only entries that will be     *)
(* copied again.                                                           *)
CopyIsRecent ==
    (HasWorker /\ flushing["worker"] = "write") =>
        \A n \in live \ copy["worker"] : command \in {"added", "mark"} \/ dirty

(* Before the table is loaded an entry is written by its own command.      *)
StartsInTurn ==
    /\ driver = "off" => live = {}
    /\ (driver = "starting" /\ flushing["command"] = "write") => live \subseteq copy["command"]
    /\ (driver = "starting" /\ ~failed) => \A n \in live \ registry : command \in {"added", "flush"}

PersistInv == FlushersInTurn /\ CopyIsRecent /\ StartsInTurn /\ LearnedIsPending

(* A table that takes an entry only below its capacity stays within it.    *)
LEMMA InsertFits ==
    ASSUME NEW n \in Needle, live \in Table
    PROVE  Insert(n) \in Table
<1>1. CASE Cardinality(live) < Slots
  <2>1. IsFiniteSet(live)
    BY FS_Subset, KernelAssumption DEF Table
  <2>2. Cardinality(live) \in Nat
    BY <2>1, FS_CardinalityType
  <2>3. Cardinality(live \union {n}) \in {Cardinality(live), Cardinality(live) + 1}
    BY <2>1, <2>2, FS_AddElement
  <2>4. Cardinality(live \union {n}) <= Slots
    BY <1>1, <2>2, <2>3, KernelAssumption
  <2>5. live \union {n} \in Table
    BY <2>4 DEF Table
  <2> QED BY <1>1, <2>5 DEF Insert
<1>2. CASE ~(Cardinality(live) < Slots)
  BY <1>2 DEF Insert
<1> QED BY <1>1, <1>2

(* A table without one of its entries is a table.                          *)
LEMMA RemoveFits ==
    ASSUME NEW n \in Needle, live \in Table
    PROVE  live \ {n} \in Table
<1>1. IsFiniteSet(live) /\ live \in SUBSET Needle /\ Cardinality(live) <= Slots
  BY FS_Subset, KernelAssumption DEF Table
<1>2. Cardinality(live \ {n}) \in Nat /\ Cardinality(live) \in Nat
  BY <1>1, FS_Subset, FS_CardinalityType
<1>3. Cardinality(live \ {n}) <= Cardinality(live)
  BY <1>1, FS_Subset
<1>4. Cardinality(live \ {n}) <= Slots
  BY <1>1, <1>2, <1>3, KernelAssumption
<1> QED BY <1>1, <1>4 DEF Table

(* The empty table is one.                                                 *)
LEMMA EmptyFits == {} \in Table
BY FS_EmptySet, KernelAssumption DEF Table

(* Every step keeps every variable in its type.                            *)
LEMMA TypeStep == KernelTypeOK /\ [KernelNext]_kernelVars => KernelTypeOK'
<1> SUFFICES ASSUME KernelTypeOK, [KernelNext]_kernelVars PROVE KernelTypeOK'
  OBVIOUS
<1> USE DEF KernelTypeOK, Flusher
<1>1. CASE Load BY <1>1 DEF Load
<1>2. CASE PowerCut BY <1>2, EmptyFits DEF PowerCut
<1>3. CASE BeginUnload BY <1>3 DEF BeginUnload
<1>4. CASE TearDown BY <1>4, EmptyFits DEF TearDown
<1>5. CASE CheckWorker BY <1>5 DEF CheckWorker
<1>6. CASE MarkDirty BY <1>6 DEF MarkDirty
<1>7. ASSUME NEW f \in Flusher, CopyTable(f) PROVE KernelTypeOK'
  BY <1>7 DEF CopyTable
<1>8. ASSUME NEW f \in Flusher, WriteCopy(f) \/ WriteFails(f) PROVE KernelTypeOK'
  <2>1. copy' \in [Flusher -> Table] /\ flushing' \in [Flusher -> {"no", "copy", "write"}]
    BY <1>8, EmptyFits DEF WriteCopy, WriteFails, Returns
  <2>2. command' \in {"none", "added", "mark", "flush"}
    BY <1>8 DEF WriteCopy, WriteFails, Returns
  <2>3. registry' \in Table
    BY <1>8 DEF WriteCopy, WriteFails
  <2>4. failed' \in BOOLEAN
    BY <1>8, Zenon DEF WriteCopy, WriteFails
  <2> QED BY <1>8, <2>1, <2>2, <2>3, <2>4 DEF WriteCopy, WriteFails
<1>9. CASE WorkerWakes BY <1>9 DEF WorkerWakes
<1>10. CASE WorkerTakes BY <1>10 DEF WorkerTakes
<1>11. CASE WorkerDone BY <1>11 DEF WorkerDone
<1>12. CASE WorkerGone BY <1>12 DEF WorkerGone
<1>13. CASE FlushRest BY <1>13 DEF FlushRest
<1>14. CASE ClosePort BY <1>14 DEF ClosePort
<1>15. CASE CmdClear BY <1>15, EmptyFits DEF CmdClear
<1>16. ASSUME NEW n \in Needle, CmdAdd(n) PROVE KernelTypeOK'
  BY <1>16, InsertFits DEF CmdAdd
<1>17. CASE UNCHANGED kernelVars BY <1>17 DEF kernelVars
<1>18. ASSUME NEW n \in Needle, CmdDel(n) PROVE KernelTypeOK'
  BY <1>18, RemoveFits DEF CmdDel
<1>19. CASE LoadPolicy BY <1>19 DEF LoadPolicy, Loaded
<1> QED
  BY <1>1, <1>2, <1>3, <1>4, <1>5, <1>6, <1>7, <1>8, <1>9, <1>10, <1>11, <1>12, <1>13,
     <1>14, <1>15, <1>16, <1>17, <1>18, <1>19 DEF KernelNext, Internal, UnloadStep, WorkerStep

(* The driver's list is well-formed; in particular neither the table nor   *)
(* what any thread writes of it ever exceeds the slots.                    *)
THEOREM KernelTypeCorrect == KernelSpec => []KernelTypeOK
<1>1. KernelInit => KernelTypeOK
  BY EmptyFits DEF KernelInit, KernelTypeOK, Flusher
<1> QED BY <1>1, TypeStep, PTL DEF KernelSpec

(* Every step keeps the flushers to their turns and every learned entry    *)
(* accounted for.                                                          *)
LEMMA PersistStep ==
    KernelTypeOK /\ PersistInv /\ [KernelNext]_kernelVars => PersistInv'
<1> SUFFICES ASSUME KernelTypeOK, PersistInv, [KernelNext]_kernelVars PROVE PersistInv'
  OBVIOUS
<1> USE DEF PersistInv, FlushersInTurn, CopyIsRecent, StartsInTurn, LearnedIsPending,
            HasWorker, KernelTypeOK, Flusher
<1>1. CASE Load BY <1>1 DEF Load
<1>2. CASE PowerCut BY <1>2 DEF PowerCut
<1>3. CASE BeginUnload BY <1>3 DEF BeginUnload
<1>4. CASE TearDown BY <1>4 DEF TearDown
<1>5. CASE CheckWorker BY <1>5 DEF CheckWorker
<1>6. CASE MarkDirty BY <1>6 DEF MarkDirty
<1>7. CASE CopyTable("worker") BY <1>7 DEF CopyTable
<1>8. CASE WriteCopy("worker") BY <1>8 DEF WriteCopy, Returns
<1>9. CASE CopyTable("command") BY <1>9 DEF CopyTable
<1>10. CASE WriteCopy("command") BY <1>10 DEF WriteCopy, Returns
<1>11. CASE CopyTable("unload") BY <1>11 DEF CopyTable
<1>12. CASE WriteCopy("unload") BY <1>12 DEF WriteCopy, Returns
<1>13. CASE WorkerWakes BY <1>13 DEF WorkerWakes
<1>14. CASE WorkerTakes BY <1>14 DEF WorkerTakes
<1>15. CASE WorkerDone BY <1>15 DEF WorkerDone
<1>16. CASE WorkerGone BY <1>16 DEF WorkerGone
<1>17. CASE FlushRest BY <1>17 DEF FlushRest
<1>18. CASE ClosePort BY <1>18 DEF ClosePort
<1>19. CASE CmdClear BY <1>19 DEF CmdClear
<1>20. ASSUME NEW n \in Needle, CmdAdd(n) PROVE PersistInv'
  BY <1>20 DEF CmdAdd, PortOpen
<1>21. CASE UNCHANGED kernelVars BY <1>21 DEF kernelVars
<1>23. ASSUME NEW n \in Needle, CmdDel(n) PROVE PersistInv'
  BY <1>23 DEF CmdDel, PortOpen
<1>24. CASE LoadPolicy BY <1>24 DEF LoadPolicy, Loaded
<1>25. ASSUME NEW f \in Flusher, WriteFails(f) PROVE PersistInv'
  BY <1>25 DEF WriteFails, Returns
<1> HIDE DEF PersistInv, FlushersInTurn, CopyIsRecent, StartsInTurn, LearnedIsPending,
             HasWorker, KernelTypeOK
<1>22. ASSUME NEW f \in Flusher, CopyTable(f) \/ WriteCopy(f) \/ WriteFails(f)
       PROVE  PersistInv'
  BY <1>7, <1>8, <1>9, <1>10, <1>11, <1>12, <1>22, <1>25
<1> HIDE DEF Flusher
<1> QED
  BY <1>1, <1>2, <1>3, <1>4, <1>5, <1>6, <1>13, <1>14, <1>15, <1>16, <1>17, <1>18, <1>19,
     <1>20, <1>21, <1>22, <1>23, <1>24
     DEF KernelNext, Internal, UnloadStep, WorkerStep

(* While the worker runs, what the list learned is in the registry or on   *)
(* its way there: no order of commands -- early ones too -- wake-ups,      *)
(* copies and writes loses an entry, unless a write failed, or one that    *)
(* began before the table was loaded was still under way.                  *)
THEOREM NothingLearnedIsForgotten == KernelSpec => []LearnedIsPending
<1>1. KernelInit => PersistInv
  BY DEF KernelInit, PersistInv, FlushersInTurn, CopyIsRecent, StartsInTurn,
     LearnedIsPending, HasWorker, Flusher
<1>2. PersistInv => LearnedIsPending
  BY DEF PersistInv
<1> QED BY <1>1, <1>2, PersistStep, KernelTypeCorrect, PTL DEF KernelSpec

-----------------------------------------------------------------------------
ServiceTypes ==
    /\ up \in BOOLEAN
    /\ todo \in {"idle", "unban", "read", "clear", "send"}
    /\ seen \in SUBSET Needle /\ left \in SUBSET Needle /\ userList \in SUBSET Needle
    /\ link \in {"none", "live", "lost"}
    /\ trusted \in SUBSET (FileTrust \union DirTrust)
    /\ held \in SUBSET Hold

(* What one blockExecPath does to the two lists.                           *)
LEMMA BlockStep ==
    ASSUME NEW n \in Needle, Block(n), userList \in SUBSET Needle
    PROVE  /\ CmdAdd(n) \/ UNCHANGED kernelVars
           /\ userList' \in SUBSET Needle
BY DEF Block, AddToUserList

(* The steps of the service and of the kernel under it, as kernel steps.   *)
LEMMA StepIsKernelStep ==
    ServiceTypes /\ [Next]_vars => [KernelNext]_kernelVars
<1> SUFFICES ASSUME ServiceTypes, [Next]_vars PROVE [KernelNext]_kernelVars
  OBVIOUS
<1>1. ASSUME NEW i \in Image, BlacklistExec(i) PROVE [KernelNext]_kernelVars
  <2>1. NeedleOf[i] \in Needle
    BY TrustAssumption
  <2> QED BY <1>1, <2>1, BlockStep DEF BlacklistExec, ServiceTypes, KernelNext
<1>2. ASSUME NEW n \in left, Send(n) PROVE [KernelNext]_kernelVars
  <2>1. n \in Needle
    BY DEF ServiceTypes
  <2> QED BY <1>2, <2>1, BlockStep DEF Send, ServiceTypes, KernelNext
<1>3. CASE Clear BY <1>3 DEF Clear, KernelNext
<1>4. CASE MachineGoesDown BY <1>4 DEF MachineGoesDown, KernelNext
<1>5. CASE DriverUnloads BY <1>5 DEF DriverUnloads, KernelNext
<1>6. CASE KernelOnItsOwn
  BY <1>6 DEF KernelOnItsOwn, PortCloses, KernelNext, Internal, UnloadStep
<1>7. CASE Unban \/ Read \/ NothingToDrop BY <1>7 DEF Unban, Read, NothingToDrop
<1>8. CASE Start \/ Connect \/ LinkBreaks \/ LossNoticed \/ ServiceDies
  BY <1>8 DEF Start, Connect, LinkBreaks, LossNoticed, ServiceDies
<1>9. ASSUME NEW i \in Image, Exits(i) PROVE UNCHANGED kernelVars
  BY <1>9 DEF Exits
<1>10. ASSUME NEW h \in {"frozen", "banned"} \X Watched, HoldBack(h[1], h[2])
       PROVE  UNCHANGED kernelVars
  BY <1>10 DEF HoldBack
<1>11. ASSUME NEW t \in FileTrust \union DirTrust, AddTrust(t) \/ RemoveTrust(t)
       PROVE  UNCHANGED kernelVars
  BY <1>11 DEF AddTrust, RemoveTrust
<1>12. CASE UNCHANGED vars BY <1>12 DEF vars
<1> QED
  BY <1>1, <1>2, <1>3, <1>4, <1>5, <1>6, <1>7, <1>8, <1>9, <1>10, <1>11, <1>12 DEF Next,
     Reconcile

(* Every step keeps the service's variables in their types.                *)
LEMMA ServiceTypeStep == KernelTypeOK /\ ServiceTypes /\ [Next]_vars => ServiceTypes'
<1> SUFFICES ASSUME KernelTypeOK, ServiceTypes, [Next]_vars PROVE ServiceTypes'
  OBVIOUS
<1> USE DEF ServiceTypes
<1>1. ASSUME NEW i \in Image, BlacklistExec(i) PROVE ServiceTypes'
  <2>1. NeedleOf[i] \in Needle
    BY TrustAssumption
  <2>2. userList' \in SUBSET Needle
    BY <1>1, <2>1, BlockStep DEF BlacklistExec
  <2>3. held' \in SUBSET Hold
    BY <1>1 DEF BlacklistExec, Hold
  <2> QED BY <1>1, <2>2, <2>3 DEF BlacklistExec
<1>2. ASSUME NEW n \in left, Send(n) PROVE ServiceTypes'
  <2>1. n \in Needle
    OBVIOUS
  <2>2. userList' \in SUBSET Needle
    BY <1>2, <2>1, BlockStep DEF Send
  <2> QED BY <1>2, <2>2 DEF Send
<1>3. CASE Clear BY <1>3 DEF Clear, ToKeep
<1>4. CASE MachineGoesDown BY <1>4 DEF MachineGoesDown, Stops
<1>5. CASE DriverUnloads BY <1>5 DEF DriverUnloads
<1>6. CASE KernelOnItsOwn BY <1>6 DEF KernelOnItsOwn, PortCloses
<1>7. CASE Unban BY <1>7 DEF Unban
<1>8. CASE Read
  BY <1>8 DEF Read, KernelTypeOK, Table
<1>9. CASE NothingToDrop BY <1>9 DEF NothingToDrop
<1>10. CASE Start \/ Connect \/ LinkBreaks \/ LossNoticed \/ ServiceDies
  BY <1>10 DEF Start, Connect, LinkBreaks, LossNoticed, ServiceDies, Stops
<1>11. ASSUME NEW i \in Image, Exits(i) PROVE ServiceTypes'
  BY <1>11 DEF Exits
<1>12. ASSUME NEW h \in {"frozen", "banned"} \X Watched, HoldBack(h[1], h[2])
       PROVE  ServiceTypes'
  BY <1>12, TrustAssumption DEF HoldBack, Hold
<1>13. ASSUME NEW t \in FileTrust \union DirTrust, AddTrust(t) \/ RemoveTrust(t)
       PROVE  ServiceTypes'
  BY <1>13 DEF AddTrust, RemoveTrust
<1>14. CASE UNCHANGED vars BY <1>14 DEF vars, serviceVars
<1> HIDE DEF ServiceTypes
<1> QED
  BY <1>1, <1>2, <1>3, <1>4, <1>5, <1>6, <1>7, <1>8, <1>9, <1>10, <1>11, <1>12, <1>13, <1>14
     DEF Next, Reconcile

---------------------------------------------------------------------------
(* How far a reconciliation has come.  Once the entries are read, no file  *)
(* trusted by name has an ACE; once the lists are cleared, they contain    *)
(* nothing that blocks a trusted file, and what is not left to send has    *)
(* been sent.                                                              *)
Blocking == {n \in Needle : WouldBlockTrusted(n)}

(* The driver has loaded its table and its port is still open.             *)
Served == driver \in {"on", "stopping", "stopped", "draining"}

Sent ==
    \/ (seen \ Blocking) \ left \subseteq live \union userList
    \/ Cardinality(live) = Slots

AcesLifted == \A i \in trusted \intersect Image : <<"ace", i>> \notin held

ReconcileInv ==
    /\ link = "live" => Served
    /\ todo \in {"clear", "send"} => AcesLifted
    /\ todo = "clear" => userList \subseteq seen
    /\ todo = "send" => left \subseteq seen \ Blocking /\ userList \intersect Blocking = {}
    /\ (todo = "send" /\ link = "live") => live \intersect Blocking = {} /\ Sent

(* Which entries block a trusted file depends on the trust entries alone.  *)
LEMMA BlockingStays == UNCHANGED trusted => UNCHANGED Blocking
BY DEF Blocking, WouldBlockTrusted

(* What the reconciliation keeps is what it read without those.            *)
LEMMA KeptEntries == seen \in SUBSET Needle => ToKeep = seen \ Blocking
BY DEF ToKeep, Blocking

(* What an insertion does: it adds the entry, or the table is full.        *)
LEMMA InsertOutcome ==
    ASSUME NEW n \in Needle, live \in Table
    PROVE  /\ Insert(n) \subseteq live \union {n} /\ live \subseteq Insert(n)
           /\ n \in Insert(n) \/ (Insert(n) = live /\ Cardinality(live) = Slots)
<1>1. Cardinality(live) \in Nat /\ Cardinality(live) <= Slots
  <2>1. IsFiniteSet(live)
    BY FS_Subset, KernelAssumption DEF Table
  <2> QED BY <2>1, FS_CardinalityType DEF Table
<1> QED BY <1>1, KernelAssumption DEF Insert

(* The kernel's own steps leave the table alone while the port is open.    *)
LEMMA KernelKeepsTable ==
    ASSUME KernelOnItsOwn, link = "live", Served
    PROVE  UNCHANGED live /\ (link' = "live" => Served')
<1>1. CASE PortCloses BY <1>1 DEF PortCloses, ClosePort
<1>2. CASE (Load \/ LoadPolicy \/ Internal) /\ ~ClosePort /\ UNCHANGED link
  <2>1. CASE Load \/ LoadPolicy
    BY <2>1 DEF Load, LoadPolicy, Served
  <2>2. CASE CheckWorker \/ MarkDirty BY <2>2 DEF CheckWorker, MarkDirty, Served
  <2>3. ASSUME NEW f \in Flusher, CopyTable(f) \/ WriteCopy(f) \/ WriteFails(f)
        PROVE  UNCHANGED <<live, driver>>
    BY <2>3 DEF CopyTable, WriteCopy, WriteFails
  <2>4. CASE WorkerStep BY <2>4 DEF WorkerStep, WorkerWakes, WorkerTakes, WorkerDone, Served
  <2>5. CASE WorkerGone \/ FlushRest BY <2>5 DEF WorkerGone, FlushRest, Served
  <2>6. CASE TearDown BY <2>6 DEF TearDown, Served
  <2> QED BY <1>2, <2>1, <2>2, <2>3, <2>4, <2>5, <2>6 DEF Internal, UnloadStep, Served
<1> QED BY <1>1, <1>2 DEF KernelOnItsOwn

(* One entry sent again: it reaches the kernel, a table that is full, the  *)
(* service's list, or a link that is lost.                                 *)
LEMMA SendKeeps ==
    ASSUME ServiceTypes, KernelTypeOK, ReconcileInv, NEW n \in left, Send(n)
    PROVE  /\ AcesLifted' /\ (link' = "live" => Served')
           /\ userList' \intersect Blocking = {}
           /\ link = "live" => /\ live' \intersect Blocking = {}
                               /\ \/ (seen \ Blocking) \ (left \ {n}) \subseteq live' \union userList'
                                  \/ Cardinality(live') = Slots
<1>1. n \in Needle /\ live \in Table
  BY DEF ServiceTypes, KernelTypeOK
<1>2. n \notin Blocking /\ userList \intersect Blocking = {} /\ AcesLifted
  BY DEF ReconcileInv, Send, Doing
<1>3. AcesLifted' /\ UNCHANGED link
  BY <1>2 DEF Send, AcesLifted
<1>4. userList' \subseteq userList \union {n}
  BY DEF Send, Block, AddToUserList
<1>5. ASSUME link = "live"
      PROVE  /\ Served' /\ live' \intersect Blocking = {}
             /\ \/ (seen \ Blocking) \ (left \ {n}) \subseteq live' \union userList'
                \/ Cardinality(live') = Slots
  <2>1. CmdAdd(n) /\ UNCHANGED userList
    BY <1>5 DEF Send, Block
  <2>2. live' = Insert(n) /\ Served'
    BY <1>5, <2>1 DEF CmdAdd, Served, ReconcileInv
  <2>3. live \intersect Blocking = {} /\ Sent
    BY <1>5 DEF ReconcileInv, Send, Doing
  <2>4. live' \subseteq live \union {n} /\ live \subseteq live'
    BY <1>1, <2>2, InsertOutcome
  <2>5. n \in live' \/ (live' = live /\ Cardinality(live) = Slots)
    BY <1>1, <2>2, InsertOutcome
  <2>6. CASE Cardinality(live) = Slots
    BY <1>1, <2>2, <2>3, <2>4, <2>6, KernelAssumption DEF Insert
  <2>7. CASE (seen \ Blocking) \ left \subseteq live \union userList
    <3>1. CASE n \in live'
      BY <1>2, <2>1, <2>2, <2>3, <2>4, <2>7, <3>1
    <3>2. CASE live' = live /\ Cardinality(live) = Slots
      BY <2>2, <2>3, <3>2
    <3> QED BY <2>5, <3>1, <3>2
  <2> QED BY <2>3, <2>6, <2>7 DEF Sent
<1> QED BY <1>2, <1>3, <1>4, <1>5

(* Each step brings the reconciliation no further than it has come.        *)
LEMMA ReconcileStep ==
    ServiceTypes /\ KernelTypeOK /\ ReconcileInv /\ [Next]_vars => ReconcileInv'
<1> SUFFICES ASSUME ServiceTypes, KernelTypeOK, ReconcileInv, [Next]_vars PROVE ReconcileInv'
  OBVIOUS
<1> DEFINE NotBegun == todo' \notin {"clear", "send"} /\ (link' = "live" => Served')
           Frame == /\ UNCHANGED <<todo, seen, left, trusted, userList>>
                    /\ AcesLifted => AcesLifted'
                    /\ link' = "live" => link = "live" /\ UNCHANGED live /\ Served'
<1>a. NotBegun => ReconcileInv'
  BY DEF ReconcileInv
<1>b. Frame => ReconcileInv'
  <2> SUFFICES ASSUME Frame PROVE ReconcileInv'
    OBVIOUS
  <2>1. UNCHANGED Blocking
    BY BlockingStays
  <2>2. link' = "live" => (Sent => Sent')
    BY <2>1 DEF Sent
  <2> QED BY <2>1, <2>2 DEF ReconcileInv
<1> HIDE DEF NotBegun, Frame
<1>1. ASSUME NEW i \in Image, BlacklistExec(i) PROVE NotBegun
  <2>1. link = "live" => Served /\ Served'
    BY <1>1 DEF BlacklistExec, Block, CmdAdd, Served, ReconcileInv
  <2> QED BY <1>1, <2>1 DEF BlacklistExec, Idle, NotBegun
<1>2. ASSUME NEW n \in left, Send(n) PROVE ReconcileInv'
  <2>1. CASE left = {n}
    BY <1>2, <2>1, <1>a, SendKeeps DEF Send, NotBegun
  <2>2. CASE left # {n}
    <3>1. todo' = "send" /\ todo = "send" /\ left' = left \ {n} /\ UNCHANGED <<seen, trusted, link>>
      BY <1>2, <2>2 DEF Send, Doing
    <3>2. UNCHANGED Blocking
      BY <3>1, BlockingStays
    <3>3. link' = "live" => live' \intersect Blocking' = {} /\ Sent'
      BY <1>2, <3>1, <3>2, SendKeeps DEF Sent
    <3>4. left' \subseteq seen' \ Blocking' /\ userList' \intersect Blocking' = {}
      BY <1>2, <3>1, <3>2, SendKeeps DEF ReconcileInv
    <3> QED BY <1>2, <3>1, <3>3, <3>4, SendKeeps DEF ReconcileInv
  <2> QED BY <2>1, <2>2
<1>3. CASE Clear
  <2>1. /\ AcesLifted /\ AcesLifted' /\ userList' = {} /\ left' = seen \ Blocking
        /\ UNCHANGED <<link, trusted>>
    BY <1>3, KeptEntries DEF Clear, Doing, ReconcileInv, AcesLifted, ServiceTypes
  <2>2. link = "live" => live' = {} /\ Served'
    BY <1>3 DEF Clear, CmdClear, Served, ReconcileInv
  <2>3. UNCHANGED Blocking
    BY <2>1, BlockingStays
  <2>4. CASE ToKeep = {}
    BY <1>3, <2>1, <2>2, <2>4, <1>a DEF Clear, NotBegun
  <2>5. CASE ToKeep # {}
    <3>1. todo' = "send" /\ UNCHANGED seen
      BY <1>3, <2>5 DEF Clear
    <3> QED BY <2>1, <2>2, <2>3, <3>1 DEF ReconcileInv, Sent
  <2> QED BY <2>4, <2>5
<1>4. CASE MachineGoesDown
  BY <1>4, <1>a DEF MachineGoesDown, Stops, NotBegun
<1>5. CASE DriverUnloads
  <2>1. Frame
    BY <1>5 DEF DriverUnloads, BeginUnload, Served, Frame, AcesLifted
  <2> QED BY <2>1, <1>b
<1>6. CASE KernelOnItsOwn
  <2>1. link' = "live" => link = "live"
    BY <1>6 DEF KernelOnItsOwn, PortCloses
  <2>2. link' = "live" => UNCHANGED live /\ Served'
    BY <1>6, <2>1, KernelKeepsTable DEF ReconcileInv
  <2> QED BY <1>6, <2>1, <2>2, <1>b DEF KernelOnItsOwn, Frame, AcesLifted
<1>7. CASE Unban
  BY <1>7, <1>a DEF Unban, NotBegun, ReconcileInv, kernelVars, Served
<1>8. CASE Read
  <2>1. todo' = "clear" /\ AcesLifted' /\ userList' \subseteq seen'
    BY <1>8 DEF Read, AcesLifted
  <2>2. link' = "live" => Served'
    BY <1>8 DEF Read, ReconcileInv, kernelVars, Served
  <2> QED BY <2>1, <2>2 DEF ReconcileInv
<1>9. CASE NothingToDrop
  BY <1>9, <1>a DEF NothingToDrop, NotBegun, ReconcileInv, kernelVars, Served
<1>10. CASE Start \/ Connect
  BY <1>10, <1>a DEF Start, Connect, Idle, NotBegun, kernelVars, Served
<1>11. CASE LinkBreaks \/ LossNoticed
  BY <1>11, <1>b DEF LinkBreaks, LossNoticed, Frame, AcesLifted
<1>12. CASE ServiceDies
  BY <1>12, <1>a DEF ServiceDies, Stops, NotBegun
<1>13. ASSUME NEW i \in Image, Exits(i) PROVE Frame
  BY <1>13 DEF Exits, Frame, AcesLifted, kernelVars, Served, ReconcileInv
<1>14. ASSUME NEW h \in {"frozen", "banned"} \X Watched, HoldBack(h[1], h[2]) PROVE Frame
  BY <1>14 DEF HoldBack, Frame, AcesLifted, kernelVars, Served, ReconcileInv
<1>15. ASSUME NEW t \in FileTrust \union DirTrust, AddTrust(t) \/ RemoveTrust(t) PROVE NotBegun
  BY <1>15 DEF AddTrust, RemoveTrust, Idle, NotBegun, kernelVars, Served, ReconcileInv
<1>16. CASE UNCHANGED vars
  BY <1>16, <1>b DEF vars, serviceVars, kernelVars, Frame, AcesLifted, Served, ReconcileInv
<1> QED
  BY <1>a, <1>b, <1>1, <1>2, <1>3, <1>4, <1>5, <1>6, <1>7, <1>8, <1>9, <1>10, <1>11, <1>12,
     <1>13, <1>14, <1>15, <1>16 DEF Next, Reconcile

---------------------------------------------------------------------------
(* The three steps a reconciliation can end with.                          *)
LEMMA WaysToFinish ==
    ASSUME [Next]_vars, Finishes
    PROVE  Clear \/ NothingToDrop \/ \E n \in left : Send(n)
<1>1. ASSUME NEW i \in Image, BlacklistExec(i) \/ Exits(i) PROVE UNCHANGED todo
  BY <1>1 DEF BlacklistExec, Exits
<1>2. ASSUME NEW h \in {"frozen", "banned"} \X Watched, HoldBack(h[1], h[2])
      PROVE  UNCHANGED todo
  BY <1>2 DEF HoldBack
<1>3. ASSUME NEW t \in FileTrust \union DirTrust, AddTrust(t) \/ RemoveTrust(t)
      PROVE  todo = "idle"
  BY <1>3 DEF AddTrust, RemoveTrust, Idle
<1>4. CASE Unban \/ Read \/ Start
  BY <1>4 DEF Unban, Read, Start, Finishes
<1>5. CASE Connect \/ LinkBreaks \/ LossNoticed \/ DriverUnloads \/ KernelOnItsOwn
  BY <1>5 DEF Connect, LinkBreaks, LossNoticed, DriverUnloads, KernelOnItsOwn, Finishes
<1>6. CASE ServiceDies \/ MachineGoesDown
  BY <1>6 DEF ServiceDies, MachineGoesDown, Stops, Finishes
<1>7. CASE UNCHANGED vars
  BY <1>7 DEF vars, serviceVars, Finishes
<1> QED
  BY <1>1, <1>2, <1>3, <1>4, <1>5, <1>6, <1>7 DEF Next, Reconcile, Finishes

(* What the last step finds and leaves.                                    *)
LEMMA FinishedWell ==
    ASSUME ServiceTypes, KernelTypeOK, ReconcileInv, [Next]_vars, Finishes
    PROVE  /\ AcesLifted /\ userList' \intersect Blocking = {} /\ userList' \subseteq Needle
           /\ link = "live" => live' \intersect (seen \intersect Blocking) = {}
           /\ (link = "live" /\ seen \intersect Blocking # {}) =>
                 \/ seen \ Blocking \subseteq live' \union userList'
                 \/ Cardinality(live') = Slots
<1>1. userList' \subseteq Needle
  BY ServiceTypeStep DEF ServiceTypes
<1>2. CASE Clear
  <2>1. ToKeep = {} /\ seen \ Blocking = {}
    BY <1>2, KeptEntries DEF Clear, Finishes, ServiceTypes
  <2> QED BY <1>1, <1>2, <2>1 DEF Clear, CmdClear, Doing, ReconcileInv
<1>3. CASE NothingToDrop
  <2>1. seen \intersect Blocking = {}
    BY <1>3, KeptEntries DEF NothingToDrop, ServiceTypes
  <2>2. userList' \subseteq seen /\ AcesLifted
    BY <1>3 DEF NothingToDrop, Doing, ReconcileInv
  <2> QED BY <1>1, <2>1, <2>2
<1>4. ASSUME NEW n \in left, Send(n)
      PROVE  /\ AcesLifted /\ userList' \intersect Blocking = {}
             /\ link = "live" => /\ live' \intersect Blocking = {}
                                 /\ \/ seen \ Blocking \subseteq live' \union userList'
                                    \/ Cardinality(live') = Slots
  <2>1. left \ {n} = {} /\ AcesLifted
    BY <1>4 DEF Send, Finishes, Doing, ReconcileInv
  <2> QED BY <1>4, <2>1, SendKeeps
<1> QED BY <1>1, <1>2, <1>3, <1>4, WaysToFinish

---------------------------------------------------------------------------
(* The reconciliation's invariant holds throughout, with the kernel's      *)
(* types.                                                                  *)
LEMMA TrustInvariant == Spec => [](ServiceTypes /\ KernelTypeOK /\ ReconcileInv)
<1>1. Init => ServiceTypes /\ KernelTypeOK /\ ReconcileInv
  <2>1. Init => KernelTypeOK
    BY EmptyFits DEF Init, KernelInit, KernelTypeOK, Flusher
  <2> QED BY <2>1 DEF Init, ServiceTypes, ReconcileInv
<1>2. ServiceTypes /\ KernelTypeOK /\ [Next]_vars => KernelTypeOK'
  BY StepIsKernelStep, TypeStep
<1> QED BY <1>1, <1>2, ServiceTypeStep, ReconcileStep, PTL DEF Spec

(* Whatever the service does, and whenever either side goes down, the      *)
(* kernel's list moves as KernelList says: its theorems hold here.         *)
THEOREM ImplementsKernelList == Spec => KernelSpec
<1>1. Init => KernelInit
  BY DEF Init
<1> QED BY <1>1, StepIsKernelStep, TrustInvariant, PTL DEF Spec, KernelSpec

(* In particular no denial the list learned is lost on its way to the      *)
(* registry while the worker runs and its writes succeed, whatever the     *)
(* service does meanwhile.                                                 *)
THEOREM NothingLearnedIsForgottenHere == Spec => []LearnedIsPending
BY ImplementsKernelList, NothingLearnedIsForgotten

(* Every variable keeps its type.                                          *)
THEOREM DenialsTypeCorrect == Spec => []TypeOK
<1> DEFINE Faults == faults \in 0..MaxFaults
<1>1. Init => Faults
  BY TrustAssumption DEF Init
<1>2. Faults /\ [Next]_vars => Faults'
  <2> SUFFICES ASSUME Faults, [Next]_vars PROVE Faults'
    OBVIOUS
  <2>1. CASE UNCHANGED faults
    BY <2>1
  <2>2. CASE Fault
    BY <2>2, TrustAssumption DEF Fault
  <2>3. UNCHANGED faults \/ Fault
    BY DEF Next, Reconcile, BlacklistExec, Exits, HoldBack, AddTrust, RemoveTrust, Unban,
       Read, Clear, NothingToDrop, Send, Start, Connect, LinkBreaks, LossNoticed,
       ServiceDies, MachineGoesDown, DriverUnloads, KernelOnItsOwn, vars, serviceVars
  <2> QED BY <2>1, <2>2, <2>3
<1>3. ServiceTypes /\ KernelTypeOK /\ Faults => TypeOK
  BY DEF ServiceTypes, TypeOK
<1> QED BY <1>1, <1>2, <1>3, TrustInvariant, PTL DEF Spec

(* When a reconciliation ends no file trusted by name is held by an ACE or *)
(* by the service's list, nor by an entry it read, if the link held.       *)
THEOREM TrustIsGivenBack == Spec => TrustTakesEffect
<1>1. ServiceTypes /\ KernelTypeOK /\ ReconcileInv /\ [Next]_vars =>
        (Finishes =>
          /\ \A n \in userList' : ~WouldBlockTrusted(n)
          /\ \A i \in trusted \intersect Image : <<"ace", i>> \notin held
          /\ link = "live" => \A n \in live' \intersect seen : ~WouldBlockTrusted(n))
  BY FinishedWell DEF Blocking, AcesLifted, ServiceTypes
<1> QED BY <1>1, TrustInvariant, PTL DEF Spec, TrustTakesEffect

(* ... and the entries it read that block nobody trusted still deny, if    *)
(* the link held and the kernel's table had room.                          *)
THEOREM OthersAreKept == Spec => OthersStayDenied
<1>1. ServiceTypes /\ KernelTypeOK /\ ReconcileInv /\ [Next]_vars =>
        ((Finishes /\ link = "live" /\ \E n \in seen : WouldBlockTrusted(n)) =>
          \/ \A n \in seen : WouldBlockTrusted(n) \/ n \in live' \union userList'
          \/ Cardinality(live') = Slots)
  BY FinishedWell DEF Blocking, ServiceTypes
<1> QED BY <1>1, TrustInvariant, PTL DEF Spec, OthersStayDenied
=============================================================================
