----------------------------- MODULE ExecBlock -----------------------------
(***************************************************************************)
(* UserModeExecBlock: the user-mode "no execute / no load" primitive.  An  *)
(* entry is a path substring (needle); arming it opens the files it        *)
(* resolves to with share mode 0, and as long as such a handle is open     *)
(* nobody can start, load, rename or delete the file.  The handles die     *)
(* with the process; the list survives in a manifest that replay() reads   *)
(* when the service starts.                                                *)
(*                                                                         *)
(* Every operation runs under mx_, so each is one step here.  Sharing      *)
(* violations are the operating system's: a file is free when it exists,   *)
(* nobody else has it open, and no handle of ours holds it.                *)
(***************************************************************************)
EXTENDS Functions, FiniteSets, Naturals

CONSTANTS
    Needle,      \* path substrings the callers may list (6 characters or more)
    File,        \* files of the fixed drives a needle can resolve to
    Targets,     \* [Needle -> SUBSET File]: the files a needle names, drive by drive
    Refused,     \* files of System32, SysWOW64, WinSxS, servicing, or of the product
    MaxEntries,  \* UserModeExecBlockMax
    SaveFaults   \* the ways a save may fail: a subset of {"kept", "removed"}

ASSUME ConstantsAssumption ==
    /\ Targets \in [Needle -> SUBSET File]
    /\ IsFiniteSet(Needle)
    /\ Refused \subseteq File
    /\ MaxEntries \in Nat \ {0}
    /\ SaveFaults \subseteq {"kept", "removed"}

VARIABLES
    phase,       \* "down", "booted" (constructed), "started" (replay has run)
    execList,    \* needles whose entry has inExec
    moduleList,  \* needles whose entry has inModule
    handles,     \* [Needle -> SUBSET File]: files the entry holds exclusively
    leaked,      \* files held by handles that no entry refers to any more
    suspended,   \* suspended_
    manifest,    \* usermode_execblock.json: [exec, module]
    present,     \* files that exist
    foreign      \* files another process has open

vars == <<phase, execList, moduleList, handles, leaked, suspended, manifest,
          present, foreign>>

world == <<present, foreign>>
table == <<execList, moduleList>>

---------------------------------------------------------------------------
(* entries_ is keyed by needle; an entry is in one list or both.           *)

Entries == execList \union moduleList

OpenFiles(h) == UNION {h[n] : n \in Needle}
Held == leaked \union OpenFiles(handles)

Armed(n) == handles[n] # {}
Pending == {n \in Entries : ~Armed(n)}

(* Files CreateFileW(share 0) succeeds on, given the files in "held".      *)
Free(held) == (present \ Refused) \ (foreign \union held)

NoHandles == [n \in Needle |-> {}]
Release(h, S) == [n \in Needle |-> IF n \in S THEN {} ELSE h[n]]

(* The results of arming the entries of S one after the other, in the      *)
(* arbitrary order a QHash iterates in: a file that two needles name goes  *)
(* to the one that comes first.                                            *)
ArmResults(S, h, held) ==
    {[n \in Needle |->
        IF n \in S
        THEN {f \in Targets[n] \intersect Free(held) :
                \A m \in S : f \in Targets[m] => order[n] <= order[m]}
        ELSE h[n]] : order \in Injection(S, 1..Cardinality(S))}

(* save(): writeFileAtomically either commits, or leaves the old file, or  *)
(* (in-place fallback that fails half way) removes it.                     *)
Save(exec, module) ==
    \/ manifest' = [exec |-> exec, module |-> module]
    \/ "kept" \in SaveFaults /\ manifest' = manifest
    \/ "removed" \in SaveFaults /\ manifest' = [exec |-> {}, module |-> {}]

---------------------------------------------------------------------------
Up == phase # "down"

(* addEntry: a full table refuses a new needle; a needle already listed    *)
(* only gains the flag.  The standby flag is not looked at.                *)
HasRoomFor(n) == n \in Entries \/ Cardinality(Entries) < MaxEntries

AddEntry(n, exec) ==
    /\ Up
    /\ HasRoomFor(n)
    /\ execList' = IF exec THEN execList \union {n} ELSE execList
    /\ moduleList' = IF exec THEN moduleList ELSE moduleList \union {n}
    /\ handles' \in IF Armed(n) THEN {handles}
                                ELSE ArmResults({n}, handles, Held)
    /\ Save(execList', moduleList')
    /\ UNCHANGED <<phase, leaked, suspended, world>>

RefuseEntry(n) ==
    /\ Up
    /\ ~HasRoomFor(n)
    /\ UNCHANGED vars

(* clearListLocked: the flag goes from every entry, entries left in        *)
(* neither list are released and erased.                                   *)
ClearList_ForgetsHandles(exec) ==
    /\ Up
    /\ execList' = IF exec THEN {} ELSE execList
    /\ moduleList' = IF exec THEN moduleList ELSE {}
    /\ LET erased == Needle \ (execList' \union moduleList')
       IN  /\ handles' = Release(handles, erased)
           /\ leaked' = leaked \union UNION {handles[n] : n \in erased}
    /\ Save(execList', moduleList')
    /\ UNCHANGED <<phase, suspended, world>>

ClearList_ErasesAll(exec) ==
    /\ Up
    /\ execList' = {} /\ moduleList' = {}
    /\ handles' = NoHandles
    /\ Save(execList', moduleList')
    /\ UNCHANGED <<phase, leaked, suspended, world>>

ClearList(exec) ==
    /\ Up
    /\ execList' = IF exec THEN {} ELSE execList
    /\ moduleList' = IF exec THEN moduleList ELSE {}
    /\ handles' = Release(handles, Needle \ (execList' \union moduleList'))
    /\ Save(execList', moduleList')
    /\ UNCHANGED <<phase, leaked, suspended, world>>

(* suspendForRemediation(path): let go of the file before quarantine reads *)
(* or deletes it; the entry stays and waits to be armed again.             *)
SuspendForRemediation(f) ==
    /\ Up
    /\ handles' = Release(handles, {n \in Needle : f \in handles[n]})
    /\ UNCHANGED <<phase, table, leaked, suspended, manifest, world>>

SuspendAllForRemediation ==
    /\ Up
    /\ handles' = NoHandles
    /\ UNCHANGED <<phase, table, leaked, suspended, manifest, world>>

(* setSuspended(true): every handle closed, the retry timer stopped.       *)
Suspend ==
    /\ Up
    /\ ~suspended
    /\ suspended' = TRUE
    /\ handles' = NoHandles
    /\ UNCHANGED <<phase, table, leaked, manifest, world>>

(* setSuspended(false): every entry without a handle is armed again.       *)
Resume ==
    /\ Up
    /\ suspended
    /\ suspended' = FALSE
    /\ handles' \in ArmResults(Pending, handles, Held)
    /\ UNCHANGED <<phase, table, leaked, manifest, world>>

(* rearmPending: the 30 s retry.                                           *)
Rearm_OnlyExecList ==
    /\ Up
    /\ ~suspended
    /\ handles' \in ArmResults(Pending \intersect execList, handles, Held)
    /\ UNCHANGED <<phase, table, leaked, suspended, manifest, world>>

Rearm ==
    /\ Up
    /\ ~suspended
    /\ handles' \in ArmResults(Pending, handles, Held)
    /\ UNCHANGED <<phase, table, leaked, suspended, manifest, world>>

---------------------------------------------------------------------------
(* replay(): the manifest's entries are inserted while the table has room, *)
(* each over the entry of the same needle if there is one -- the handles   *)
(* of an entry replaced that way stay open and are referred to by nothing. *)

Recorded == manifest.exec \union manifest.module
Room == MaxEntries - Cardinality(Entries)

(* Needles accepted when the manifest's array is read in some order.       *)
ReplayChoices ==
    IF Cardinality(Entries) >= MaxEntries THEN {{}}
    ELSE IF Cardinality(Recorded \ Entries) < Room THEN {Recorded}
    ELSE {A \in SUBSET Recorded : Cardinality(A \ Entries) = Room}

(* replay() with the handles h the table has when it starts.               *)
ReplayFrom(h) ==
    \E A \in ReplayChoices :
      LET lost == UNION {h[n] : n \in A}
      IN  /\ execList' = (execList \ A) \union (manifest.exec \intersect A)
          /\ moduleList' = (moduleList \ A) \union (manifest.module \intersect A)
          /\ leaked' = leaked \union lost
          /\ handles' \in ArmResults(A, h, leaked \union OpenFiles(h))

(* The manifest is there but cannot be opened, or is no JSON object:       *)
(* replay() leaves the table as it finds it, and the next save writes over *)
(* what it did not read.                                                   *)
ReplayFails == UNCHANGED <<table, handles, leaked>>

Replay ==
    /\ phase = "booted"
    /\ phase' = "started"
    /\ ReplayFrom(handles) \/ ReplayFails
    /\ UNCHANGED <<suspended, manifest, world>>

---------------------------------------------------------------------------
(* The process: the operating system closes every handle when it ends, and *)
(* the constructor starts from an empty table.                             *)

Boot ==
    /\ phase = "down"
    /\ phase' = "booted"
    /\ UNCHANGED <<table, handles, leaked, suspended, manifest, world>>

Crash ==
    /\ Up
    /\ phase' = "down"
    /\ execList' = {} /\ moduleList' = {}
    /\ handles' = NoHandles
    /\ leaked' = {}
    /\ suspended' = FALSE
    /\ UNCHANGED <<manifest, world>>

(* The rest of the machine: files appear, vanish, are opened and closed by *)
(* others; the last three need a file nobody holds exclusively.            *)

FileAppears(f) ==
    /\ f \notin present
    /\ present' = present \union {f}
    /\ UNCHANGED <<phase, table, handles, leaked, suspended, manifest, foreign>>

FileVanishes(f) ==
    /\ f \in present \ (foreign \union Held)
    /\ present' = present \ {f}
    /\ UNCHANGED <<phase, table, handles, leaked, suspended, manifest, foreign>>

ForeignOpen(f) ==
    /\ f \in present \ (foreign \union Held)
    /\ foreign' = foreign \union {f}
    /\ UNCHANGED <<phase, table, handles, leaked, suspended, manifest, present>>

ForeignClose(f) ==
    /\ f \in foreign
    /\ foreign' = foreign \ {f}
    /\ UNCHANGED <<phase, table, handles, leaked, suspended, manifest, present>>

World == \E f \in File : \/ FileAppears(f) \/ FileVanishes(f)
                         \/ ForeignOpen(f) \/ ForeignClose(f)

---------------------------------------------------------------------------
Init ==
    /\ phase = "down"
    /\ execList = {} /\ moduleList = {}
    /\ handles = NoHandles
    /\ leaked = {}
    /\ suspended = FALSE
    /\ manifest = [exec |-> {}, module |-> {}]
    /\ present \in SUBSET File
    /\ foreign = {}

(* The protocol the header states: replay once when the service starts,    *)
(* and the callers use the lists only after that.                          *)
Call ==
    \/ \E n \in Needle, exec \in BOOLEAN : AddEntry(n, exec)
    \/ \E n \in Needle : RefuseEntry(n)
    \/ \E exec \in BOOLEAN : ClearList(exec)
    \/ \E f \in File : SuspendForRemediation(f)
    \/ SuspendAllForRemediation
    \/ Suspend
    \/ Resume
    \/ Rearm

Next ==
    \/ Boot
    \/ Replay
    \/ phase = "started" /\ Call
    \/ Crash
    \/ World

(* The retry timer is a QTimer that runs as long as the process does.      *)
Fairness == WF_vars(phase = "started" /\ Rearm)

Spec == Init /\ [][Next]_vars
FairSpec == Spec /\ Fairness
---------------------------------------------------------------------------
(* Properties.                                                             *)

(* Every variable has its type.                                            *)
TypeOK ==
    /\ phase \in {"down", "booted", "started"}
    /\ execList \subseteq Needle /\ moduleList \subseteq Needle
    /\ handles \in [Needle -> SUBSET File]
    /\ leaked \subseteq File
    /\ suspended \in BOOLEAN
    /\ manifest \in [exec : SUBSET Needle, module : SUBSET Needle]
    /\ present \subseteq File /\ foreign \subseteq File

(* How share mode 0 makes the handles lie: each on a file of its own that  *)
(* exists, is nobody else's and is not refused.  A lemma of the proofs.    *)
ExclusiveHandles ==
    /\ Held \subseteq present \ (foreign \union Refused)
    /\ \A m, n \in Needle : m # n => handles[m] \intersect handles[n] = {}
    /\ \A n \in Needle : handles[n] \intersect leaked = {}

(* "This class is the only owner of the handle": whatever the order of     *)
(* clears, standby, remediation, retries and replays, every file the       *)
(* process locks is held for an entry that is still listed, and for no     *)
(* other, so that clearing the lists, remediation or standby lets go of it.*)
OneListedOwner ==
    \A f \in Held :
      \E n \in Entries : /\ f \in handles[n] \ leaked
                        /\ \A m \in Needle \ {n} : f \notin handles[m]

(* The same by needle: no handle is forgotten, none outlives its entry.    *)
NoOrphanLock ==
    /\ leaked = {}
    /\ \A n \in Needle : Armed(n) => n \in Entries

(* The table and the manifest replay reads stay within maxEntries_.        *)
WithinCapacity ==
    /\ Cardinality(Entries) <= MaxEntries
    /\ Cardinality(Recorded) <= MaxEntries

(* After suspendForRemediation(path) the quarantine can open the file.     *)
RemediationFreesFile ==
    [][\A f \in File : SuspendForRemediation(f) => f \notin Held']_vars

(* In standby the only file that can become locked is one a caller asks to *)
(* block at that moment: neither the retry timer nor anything else arms.   *)
StandbyArmsNothingByItself ==
    [][suspended /\ suspended' =>
         \/ OpenFiles(handles') \subseteq OpenFiles(handles)
         \/ \E n \in Needle, exec \in BOOLEAN : AddEntry(n, exec)]_vars

(* An entry without a handle whose file is there and free does not wait    *)
(* for ever: the 30 s retry arms it, or another entry takes the file.      *)
PendingGetsArmed ==
    \A n \in Needle :
      ~<>[](/\ phase = "started" /\ ~suspended
            /\ n \in Pending /\ Targets[n] \intersect Free(Held) # {})

(* The list its callers see -- the table once replay has run, the manifest *)
(* while the service is away -- is the abstract list: entries are lost     *)
(* neither to standby nor to remediation, and to a restart only when the   *)
(* save before it had failed or the record could not be read.              *)
BL == INSTANCE BlockList WITH
        execList <- IF phase = "started" THEN execList ELSE manifest.exec,
        moduleList <- IF phase = "started" THEN moduleList ELSE manifest.module,
        recorded <- manifest

ListSurvives == BL!Spec

(* "The original file is kept so that it can be looked into" (replay, of a *)
(* manifest it could not parse): where saves succeed, what was recorded    *)
(* and not taken into the table stays recorded.                            *)
(* Not so: README, section 6.                                              *)
UnreadIsKept ==
    [][SaveFaults = {} /\ phase = "started" => Recorded \ Entries \subseteq Recorded']_vars
=============================================================================
