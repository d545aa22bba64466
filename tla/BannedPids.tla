----------------------------- MODULE BannedPids -----------------------------
(* The kernel's set of banned actors (Bulwark.Driver/SelfProtect.c): every *)
(* callback looks its actor up without a lock, in a bit mask first and     *)
(* then slot by slot, while the hash scanner and the service add, the      *)
(* process exit callback removes and the service clears, under BannedLock. *)
(*                                                                         *)
(* Each step below is one access to the shared fields.  What a writer only *)
(* reads while it holds the lock is part of the step that uses it: nobody  *)
(* else writes then.  One look-up is followed; look-ups write nothing, so  *)
(* one stands for any number of them.                                      *)
EXTENDS Integers, FiniteSets

CONSTANTS
    Pid,       \* the process numbers the guard of BlwAddBannedPid lets through
    Capacity,  \* BLW_MAX_PROTECTED
    Bit,       \* the bits of the mask
    BitOf,     \* BLW_PID_BIT: several numbers may share a bit
    None       \* 0: an empty slot

ASSUME BannedAssumption ==
    /\ Capacity \in Nat \ {0}
    /\ BitOf \in [Pid -> Bit]
    /\ None \notin Pid

VARIABLES
    slots,   \* BannedPids
    mask,    \* BannedPidMask
    count,   \* BannedPidCount
    holder,  \* who holds BannedLock, for which number, and its next step
    adder,   \* the number the hash scanner and the service are about to ban
    proc,    \* what has become of the process that has a number
    bad,     \* numbers whose present owner is malicious
    late,    \* banned numbers whose ban came in too late for the exit to see
    read     \* the look-up that is followed

bannedVars == <<slots, mask, count, holder, adder, proc, bad, late, read>>

Slot == 1..Capacity
Adder == {"hash", "service"}
Unlocked == [does |-> "nothing", by |-> "nobody", pid |-> None, step |-> "start"]

InSet(p) == \E i \in Slot : slots[i] = p
Occupied == {i \in Slot : slots[i] # None}
BitsOf(table) == {BitOf[table[i]] : i \in {j \in Slot : table[j] # None}}
Adding(p) == holder.does = "add" /\ holder.pid = p

Answered == read.step \in {"yes", "no"}

(* The look-up notices what happens to its number while it runs: whether   *)
(* the ban stood all the time (held), and whether it ever did (seen).      *)
Noticed(table) ==
    LET here == \E i \in Slot : table[i] = read.pid
    IN  IF Answered THEN read
        ELSE [read EXCEPT !.held = @ /\ here, !.seen = @ \/ here]

BannedInit ==
    /\ slots = [i \in Slot |-> None]
    /\ mask = {}
    /\ count = 0
    /\ holder = Unlocked
    /\ adder = [a \in Adder |-> None]
    /\ proc = [p \in Pid |-> "gone"]
    /\ bad = {}
    /\ late = {}
    /\ read = [step |-> "no", pid |-> None, at |-> 1, held |-> FALSE, seen |-> FALSE]
---------------------------------------------------------------------------
(* Processes.  A number is handed out again once its process object is     *)
(* gone; the hash scanner keeps the object of the process it looks at.     *)
Create(p) ==
    /\ proc[p] = "gone" /\ adder["hash"] # p
    /\ proc' = [proc EXCEPT ![p] = "alive"]
    /\ bad' \in {bad \ {p}, bad \union {p}}
    /\ UNCHANGED <<slots, mask, count, holder, adder, late, read>>

(* Mutant: the quick test takes a single ban for none.                     *)
ExitReadsCount_OneIsNone(p) ==
    /\ proc[p] = "alive"
    /\ proc' = [proc EXCEPT ![p] = IF count <= 1 THEN "gone" ELSE "exits"]
    /\ UNCHANGED <<slots, mask, count, holder, adder, bad, late, read>>

(* BlwCreateProcessNotifyEx with no CreateInfo calls BlwRemoveBannedPid,   *)
(* which looks at the count and at the mask before it takes the lock.      *)
ExitReadsCount(p) ==
    /\ proc[p] = "alive"
    /\ proc' = [proc EXCEPT ![p] = IF count <= 0 THEN "gone" ELSE "exits"]
    /\ UNCHANGED <<slots, mask, count, holder, adder, bad, late, read>>

ExitReadsMask(p) ==
    /\ proc[p] = "exits"
    /\ proc' = [proc EXCEPT ![p] = IF BitOf[p] \in mask THEN "waits" ELSE "gone"]
    /\ UNCHANGED <<slots, mask, count, holder, adder, bad, late, read>>

ExitLocks(p) ==
    /\ proc[p] = "waits" /\ holder = Unlocked
    /\ IF InSet(p)
       THEN /\ proc' = [proc EXCEPT ![p] = "removes"]
            /\ holder' = [does |-> "remove", by |-> "exit", pid |-> p, step |-> "slot"]
       ELSE /\ proc' = [proc EXCEPT ![p] = "gone"]
            /\ UNCHANGED holder
    /\ UNCHANGED <<slots, mask, count, adder, bad, late, read>>

ExitClearsSlot ==
    /\ holder.does = "remove" /\ holder.step = "slot"
    /\ LET table == [i \in Slot |-> IF slots[i] = holder.pid THEN None ELSE slots[i]]
       IN  slots' = table /\ read' = Noticed(table)
    /\ holder' = [holder EXCEPT !.step = "count"]
    /\ late' = late \ {holder.pid}
    /\ UNCHANGED <<mask, count, adder, proc, bad>>

ExitCounts ==
    /\ holder.does = "remove" /\ holder.step = "count"
    /\ count' = count - 1
    /\ holder' = [holder EXCEPT !.step = "mask"]
    /\ UNCHANGED <<slots, mask, adder, proc, bad, late, read>>

(* BlwRebuildBannedMask, then the lock is given back.                      *)
ExitRebuildsMask ==
    /\ holder.does = "remove" /\ holder.step = "mask"
    /\ mask' = BitsOf(slots)
    /\ proc' = [proc EXCEPT ![holder.pid] = "gone"]
    /\ holder' = Unlocked
    /\ UNCHANGED <<slots, count, adder, bad, late, read>>
---------------------------------------------------------------------------
(* Adding.  The scanner finds the image of the process that has the number *)
(* known bad, the service finds a process of its snapshot malicious; what  *)
(* either does afterwards, up to the call, takes its time.                 *)
Convict(a, p) ==
    /\ adder[a] = None
    /\ p \in bad /\ proc[p] # "gone"
    /\ adder' = [adder EXCEPT ![a] = p]
    /\ UNCHANGED <<slots, mask, count, holder, proc, bad, late, read>>

AddLocks(a) ==
    /\ adder[a] # None /\ holder = Unlocked
    /\ IF InSet(adder[a])
       THEN /\ adder' = [adder EXCEPT ![a] = None]
            /\ UNCHANGED holder
       ELSE /\ holder' = [does |-> "add", by |-> a, pid |-> adder[a], step |-> "mask"]
            /\ UNCHANGED adder
    /\ UNCHANGED <<slots, mask, count, proc, bad, late, read>>

AddSetsMask ==
    /\ holder.does = "add" /\ holder.step = "mask"
    /\ mask' = mask \union {BitOf[holder.pid]}
    /\ holder' = [holder EXCEPT !.step = "slot"]
    /\ UNCHANGED <<slots, count, adder, proc, bad, late, read>>

(* The first empty slot.                                                   *)
AddTakesSlot(i) ==
    /\ holder.does = "add" /\ holder.step = "slot"
    /\ slots[i] = None /\ \A j \in Slot : j < i => slots[j] # None
    /\ LET table == [slots EXCEPT ![i] = holder.pid]
       IN  slots' = table /\ read' = Noticed(table)
    /\ holder' = [holder EXCEPT !.step = "count"]
    /\ UNCHANGED <<mask, count, adder, proc, bad, late>>

(* A full table drops the ban and leaves the bit.                          *)
AddFindsNoRoom ==
    /\ holder.does = "add" /\ holder.step = "slot"
    /\ \A i \in Slot : slots[i] # None
    /\ holder' = Unlocked
    /\ adder' = [adder EXCEPT ![holder.by] = None]
    /\ UNCHANGED <<slots, mask, count, proc, bad, late, read>>

AddCounts ==
    /\ holder.does = "add" /\ holder.step = "count"
    /\ count' = count + 1
    /\ late' = IF proc[holder.pid] = "alive" /\ holder.pid \in bad THEN late
               ELSE late \union {holder.pid}
    /\ holder' = Unlocked
    /\ adder' = [adder EXCEPT ![holder.by] = None]
    /\ UNCHANGED <<slots, mask, proc, bad, read>>
---------------------------------------------------------------------------
(* BLW_CMD_CLEAR_BANNED: the slots one by one, the count, the mask.        *)
ClearLocks ==
    /\ adder["service"] = None /\ holder = Unlocked
    /\ holder' = [does |-> "clear", by |-> "service", pid |-> None, step |-> "slot"]
    /\ UNCHANGED <<slots, mask, count, adder, proc, bad, late, read>>

ClearSlot(i) ==
    /\ holder.does = "clear" /\ holder.step = "slot"
    /\ i \in Occupied /\ \A j \in Occupied : i <= j
    /\ LET table == [slots EXCEPT ![i] = None]
       IN  slots' = table /\ read' = Noticed(table)
    /\ late' = late \ {slots[i]}
    /\ UNCHANGED <<mask, count, holder, adder, proc, bad>>

ClearCount ==
    /\ holder.does = "clear" /\ holder.step = "slot"
    /\ Occupied = {}
    /\ count' = 0
    /\ holder' = [holder EXCEPT !.step = "mask"]
    /\ UNCHANGED <<slots, mask, adder, proc, bad, late, read>>

ClearMask ==
    /\ holder.does = "clear" /\ holder.step = "mask"
    /\ mask' = {}
    /\ holder' = Unlocked
    /\ UNCHANGED <<slots, count, adder, proc, bad, late, read>>
---------------------------------------------------------------------------
(* Looking up.  A callback first asks whether anything is banned at all,   *)
(* then BlwPidSetContains tests the bit and scans the slots.               *)
LookBegins(p) ==
    /\ Answered
    /\ proc[p] # "gone"
    /\ read' = [step |-> IF count > 0 THEN "mask" ELSE "no", pid |-> p, at |-> 1,
                held |-> InSet(p) /\ ~Adding(p), seen |-> InSet(p)]
    /\ UNCHANGED <<slots, mask, count, holder, adder, proc, bad, late>>

LookTestsBit ==
    /\ read.step = "mask"
    /\ read' = [read EXCEPT !.step = IF BitOf[read.pid] \in mask THEN "scan" ELSE "no"]
    /\ UNCHANGED <<slots, mask, count, holder, adder, proc, bad, late>>

(* Mutants: the scan stops before the last slot, or runs past it.          *)
LookReadsSlot_StopsEarly ==
    /\ read.step = "scan"
    /\ read' = IF slots[read.at] = read.pid
               THEN [read EXCEPT !.step = "yes", !.at = 1]
               ELSE IF read.at >= Capacity - 1 THEN [read EXCEPT !.step = "no", !.at = 1]
                    ELSE [read EXCEPT !.at = @ + 1]
    /\ UNCHANGED <<slots, mask, count, holder, adder, proc, bad, late>>

LookReadsSlot ==
    /\ read.step = "scan"
    /\ read' = IF slots[read.at] = read.pid
               THEN [read EXCEPT !.step = "yes", !.at = 1]
               ELSE IF read.at = Capacity THEN [read EXCEPT !.step = "no", !.at = 1]
                    ELSE [read EXCEPT !.at = @ + 1]
    /\ UNCHANGED <<slots, mask, count, holder, adder, proc, bad, late>>
---------------------------------------------------------------------------
BannedNext ==
    \/ \E p \in Pid :
         \/ Create(p)
         \/ ExitReadsCount(p) \/ ExitReadsMask(p) \/ ExitLocks(p)
         \/ LookBegins(p)
    \/ \E a \in Adder :
         \/ \E p \in Pid : Convict(a, p)
         \/ AddLocks(a)
    \/ ExitClearsSlot \/ ExitCounts \/ ExitRebuildsMask
    \/ AddSetsMask \/ (\E i \in Slot : AddTakesSlot(i)) \/ AddFindsNoRoom \/ AddCounts
    \/ ClearLocks \/ (\E i \in Slot : ClearSlot(i)) \/ ClearCount \/ ClearMask
    \/ LookTestsBit \/ LookReadsSlot

BannedSpec == BannedInit /\ [][BannedNext]_bannedVars
---------------------------------------------------------------------------
(* Properties.                                                             *)

(* Every variable has its type.                                            *)
BannedTypeOK ==
    /\ slots \in [Slot -> Pid \union {None}]
    /\ mask \subseteq Bit
    /\ count \in Int
    /\ holder \in [does : {"nothing", "add", "remove", "clear"},
                   by : Adder \union {"exit", "nobody"}, pid : Pid \union {None},
                   step : {"start", "mask", "slot", "count"}]
    /\ adder \in [Adder -> Pid \union {None}]
    /\ proc \in [Pid -> {"alive", "exits", "waits", "removes", "gone"}]
    /\ bad \subseteq Pid /\ late \subseteq Pid
    /\ read \in [step : {"mask", "scan", "yes", "no"}, pid : Pid \union {None},
                 at : Slot, held : BOOLEAN, seen : BOOLEAN]

(* "At no moment in the set and not in the mask" (Driver.h): the order of  *)
(* the writers' steps never lets the quick test deny a banned number.      *)
MaskCovers == BitsOf(slots) \subseteq mask

(* The count is the number of bans whenever no writer is at work, so that  *)
(* the callbacks' first question is never answered wrongly for good.       *)
CountHonest == holder = Unlocked => count = Cardinality(Occupied)

(* What a look-up answers although writers are at work meanwhile: yes when *)
(* the ban stood all the time, no when it never did.                       *)
LookIsExact ==
    /\ read.step = "no" => ~read.held
    /\ read.step = "yes" => read.seen

(* A ban that was in place before its process began to exit is taken back  *)
(* by the exit: the unlocked tests at the head of BlwRemoveBannedPid skip  *)
(* no number that is banned.                                               *)
ExitLiftsBan ==
    \A p \in Pid :
      /\ InSet(p) /\ ~Adding(p) /\ p \notin late
      => proc[p] # "gone" /\ p \in bad

(* "An exit removes the number, so that reuse hurts no new process"        *)
(* (ProcessMonitor.c): a live process that nobody found malicious is not   *)
(* banned.                                                                 *)
(* Not so: README, section 6.                                              *)
ReuseIsInnocent ==
    \A p \in Pid : proc[p] = "alive" /\ p \notin bad /\ holder = Unlocked => ~InSet(p)
=============================================================================
