----------------------------- MODULE BlockList -----------------------------
(***************************************************************************)
(* What a "no-execute / no-load" list promises its callers, whatever       *)
(* carries it: entries are added one at a time up to a capacity, an entry  *)
(* stays until its whole list is cleared (there is no removal of a single  *)
(* entry), and a restart brings back all that the last save recorded -- the*)
(* list as it is unless that save failed -- or, when the record cannot be  *)
(* read, nothing; never a part.  ExecBlock is shown to implement it.       *)
(***************************************************************************)
EXTENDS FiniteSets, Naturals

CONSTANTS Needle,       \* path substrings that can be listed
          MaxEntries,   \* UserModeExecBlockMax
          SaveFaults    \* how a save may fail: a subset of {"kept", "removed"}

VARIABLES execList,     \* needles on the "no execute" list
          moduleList,   \* needles on the "no load" list
          recorded      \* the two lists a restart would bring back

vars == <<execList, moduleList, recorded>>

Listed == execList \union moduleList

HasRoomFor(n) == n \in Listed \/ Cardinality(Listed) < MaxEntries

Record ==
    \/ recorded' = [exec |-> execList', module |-> moduleList']
    \/ "kept" \in SaveFaults /\ UNCHANGED recorded
    \/ "removed" \in SaveFaults /\ recorded' = [exec |-> {}, module |-> {}]

Init ==
    /\ execList = {} /\ moduleList = {}
    /\ recorded = [exec |-> {}, module |-> {}]

AddExec(n) ==
    /\ HasRoomFor(n)
    /\ execList' = execList \union {n}
    /\ UNCHANGED moduleList
    /\ Record

AddModule(n) ==
    /\ HasRoomFor(n)
    /\ moduleList' = moduleList \union {n}
    /\ UNCHANGED execList
    /\ Record

ClearExec == execList' = {} /\ UNCHANGED moduleList /\ Record

ClearModule == moduleList' = {} /\ UNCHANGED execList /\ Record

Restart ==
    /\ execList' = recorded.exec /\ moduleList' = recorded.module
    /\ UNCHANGED recorded

(* The record cannot be read: the list starts empty, the record stays.     *)
RestartUnread ==
    /\ execList' = {} /\ moduleList' = {}
    /\ UNCHANGED recorded

Next ==
    \/ \E n \in Needle : AddExec(n) \/ AddModule(n)
    \/ ClearExec
    \/ ClearModule
    \/ Restart
    \/ RestartUnread

Spec == Init /\ [][Next]_vars
=============================================================================
