------------------------------ MODULE FileProofs ------------------------------
(***************************************************************************)
(* The two components that keep files from being used.  First the          *)
(* user-mode block list (ExecBlock), for every set of needles, files,      *)
(* drives and refusals, and every capacity.  Then the vault and its index  *)
(* (Quarantine), for any paths, contents and number of quarantines: the    *)
(* invariant says what an identifier's fate means on the disk, that the    *)
(* index never lists more than the table while the table counts as loaded, *)
(* and what the job that holds the mutex relies on.                        *)
(***************************************************************************)
EXTENDS ExecBlock, Quarantine, FiniteSetTheorems, TLAPS

(* Before replay has run the table is empty and holds nothing: that is why *)
(* the insert of replay() cannot lose a handle.                            *)
EmptyUntilReplay ==
    phase # "started" =>
        execList = {} /\ moduleList = {} /\ handles = NoHandles

SafetyInv ==
    /\ TypeOK
    /\ ExclusiveHandles
    /\ NoOrphanLock
    /\ EmptyUntilReplay

---------------------------------------------------------------------------
(* Arming: whatever the order of the table, the entries of S get files     *)
(* that were free, no file goes to two entries, and the others keep theirs.*)
LEMMA Arming ==
    ASSUME NEW S \in SUBSET Needle,
           NEW h \in [Needle -> SUBSET File],
           NEW held,
           present \subseteq File,
           NEW g \in ArmResults(S, h, held)
    PROVE  /\ g \in [Needle -> SUBSET File]
           /\ \A n \in S : g[n] \subseteq Targets[n] \intersect Free(held)
           /\ \A n \in Needle \ S : g[n] = h[n]
           /\ \A m, n \in S : m # n => g[m] \intersect g[n] = {}
<1>1. PICK order \in Injection(S, 1..Cardinality(S)) :
          g = [n \in Needle |->
                 IF n \in S
                 THEN {f \in Targets[n] \intersect Free(held) :
                         \A m \in S : f \in Targets[m] => order[n] <= order[m]}
                 ELSE h[n]]
  BY DEF ArmResults
<1>2. /\ order \in [S -> 1..Cardinality(S)]
      /\ \A a, b \in S : order[a] = order[b] => a = b
  BY DEF Injection, IsInjective
<1>3. Free(held) \subseteq File
  BY DEF Free
<1>4. ASSUME NEW m \in S, NEW n \in S, m # n, NEW f \in g[m] \intersect g[n]
      PROVE  FALSE
  <2>1. order[m] <= order[n] /\ order[n] <= order[m]
    BY <1>1, <1>4
  <2>2. order[m] \in Int /\ order[n] \in Int
    BY <1>2
  <2> QED
    BY <1>2, <1>4, <2>1, <2>2
<1> QED
  BY <1>1, <1>3, <1>4

(* Arming entries that hold nothing keeps every handle exclusive.          *)
LEMMA ArmingIsExclusive ==
    ASSUME TypeOK, ExclusiveHandles,
           NEW S \in SUBSET Needle, \A n \in S : handles[n] = {},
           NEW g \in ArmResults(S, handles, Held)
    PROVE  /\ g \in [Needle -> SUBSET File]
           /\ leaked \union OpenFiles(g) \subseteq present \ (foreign \union Refused)
           /\ \A m, n \in Needle : m # n => g[m] \intersect g[n] = {}
           /\ \A n \in Needle : g[n] \intersect leaked = {}
           /\ \A n \in Needle : g[n] # {} => n \in S \/ Armed(n)
<1>1. /\ g \in [Needle -> SUBSET File]
      /\ \A n \in S : g[n] \subseteq Free(Held)
      /\ \A n \in Needle \ S : g[n] = handles[n]
      /\ \A m, n \in S : m # n => g[m] \intersect g[n] = {}
  BY Arming DEF TypeOK
<1>2. /\ Held \subseteq present \ (foreign \union Refused)
      /\ \A m, n \in Needle : m # n => handles[m] \intersect handles[n] = {}
      /\ \A n \in Needle : handles[n] \intersect leaked = {}
  BY DEF ExclusiveHandles
<1>3. Free(Held) \subseteq present \ (foreign \union Refused) /\ Free(Held) \intersect Held = {}
  BY DEF Free
<1>4. leaked \subseteq Held /\ \A n \in Needle : handles[n] \subseteq Held
  BY DEF Held, OpenFiles
<1>5. \A n \in Needle : g[n] \subseteq present \ (foreign \union Refused)
  BY <1>1, <1>2, <1>3, <1>4
<1>6. leaked \union OpenFiles(g) \subseteq present \ (foreign \union Refused)
  BY <1>2, <1>4, <1>5 DEF OpenFiles
<1>7. ASSUME NEW m \in Needle, NEW n \in Needle, m # n
      PROVE  g[m] \intersect g[n] = {}
  BY <1>1, <1>2, <1>3, <1>4, <1>7
<1>8. \A n \in Needle : g[n] \intersect leaked = {}
  BY <1>1, <1>2, <1>3, <1>4
<1>9. \A n \in Needle : g[n] # {} => n \in S \/ Armed(n)
  BY <1>1 DEF Armed
<1> QED
  BY <1>1, <1>6, <1>7, <1>8, <1>9

(* Letting go of the handles of some entries keeps the others exclusive.   *)
LEMMA ReleasingIsExclusive ==
    ASSUME TypeOK, ExclusiveHandles, NEW S \in SUBSET Needle
    PROVE  LET g == Release(handles, S)
           IN  /\ g \in [Needle -> SUBSET File]
               /\ leaked \union OpenFiles(g) \subseteq present \ (foreign \union Refused)
               /\ \A m, n \in Needle : m # n => g[m] \intersect g[n] = {}
               /\ \A n \in Needle : g[n] \intersect leaked = {}
               /\ \A n \in Needle : g[n] # {} => n \notin S /\ Armed(n)
<1> DEFINE g == Release(handles, S)
<1>1. /\ g \in [Needle -> SUBSET File]
      /\ \A n \in Needle : g[n] = IF n \in S THEN {} ELSE handles[n]
  BY DEF Release, TypeOK
<1>2. OpenFiles(g) \subseteq OpenFiles(handles)
  BY <1>1 DEF OpenFiles
<1> QED
  BY <1>1, <1>2 DEF ExclusiveHandles, Held, Armed

(* A save that succeeds, keeps the old manifest or removes it leaves a     *)
(* manifest.                                                               *)
LEMMA SaveTyped ==
    ASSUME NEW exec \in SUBSET Needle, NEW module \in SUBSET Needle, TypeOK,
           Save(exec, module)
    PROVE  manifest' \in [exec : SUBSET Needle, module : SUBSET Needle]
BY DEF Save, TypeOK

---------------------------------------------------------------------------
(* The process starts without a handle.                                    *)
LEMMA InitSafety == Init => SafetyInv
<1> SUFFICES ASSUME Init PROVE SafetyInv
  OBVIOUS
<1>1. /\ handles \in [Needle -> SUBSET File]
      /\ \A n \in Needle : handles[n] = {}
      /\ leaked = {}
  BY DEF Init, NoHandles
<1>2. Held = {}
  BY <1>1 DEF Held, OpenFiles
<1>3. TypeOK
  BY <1>1 DEF Init, TypeOK
<1>4. ExclusiveHandles /\ NoOrphanLock
  BY <1>1, <1>2 DEF ExclusiveHandles, NoOrphanLock, Armed
<1> QED
  BY <1>3, <1>4 DEF SafetyInv, Init, EmptyUntilReplay

(* A step that arms S: the entries of S hold nothing and are listed after  *)
(* the step.                                                               *)
LEMMA ArmingStep ==
    ASSUME SafetyInv, phase = "started", UNCHANGED <<phase, leaked, present, foreign>>,
           NEW S \in SUBSET Needle, \A n \in S : handles[n] = {},
           handles' \in ArmResults(S, handles, Held),
           execList' \in SUBSET Needle, moduleList' \in SUBSET Needle,
           S \union Entries \subseteq Entries',
           suspended' \in BOOLEAN,
           manifest' \in [exec : SUBSET Needle, module : SUBSET Needle]
    PROVE  SafetyInv'
<1> USE DEF SafetyInv
<1>1. /\ handles' \in [Needle -> SUBSET File]
      /\ leaked \union OpenFiles(handles') \subseteq present \ (foreign \union Refused)
      /\ \A m, n \in Needle : m # n => handles'[m] \intersect handles'[n] = {}
      /\ \A n \in Needle : handles'[n] \intersect leaked = {}
      /\ \A n \in Needle : handles'[n] # {} => n \in S \/ Armed(n)
  BY ArmingIsExclusive
<1>2. TypeOK'
  BY <1>1 DEF TypeOK
<1>3. ExclusiveHandles'
  BY <1>1 DEF ExclusiveHandles, Held, OpenFiles
<1>4. NoOrphanLock'
  BY <1>1 DEF NoOrphanLock, Armed
<1>5. EmptyUntilReplay'
  BY DEF EmptyUntilReplay
<1> QED
  BY <1>2, <1>3, <1>4, <1>5

(* A step that only lets go: an entry that is erased is in S.              *)
LEMMA ReleasingStep ==
    ASSUME SafetyInv, phase = "started", UNCHANGED <<phase, leaked, present, foreign>>,
           NEW S \in SUBSET Needle,
           handles' = Release(handles, S),
           execList' \in SUBSET Needle, moduleList' \in SUBSET Needle,
           Entries \ S \subseteq Entries',
           suspended' \in BOOLEAN,
           manifest' \in [exec : SUBSET Needle, module : SUBSET Needle]
    PROVE  SafetyInv'
<1> USE DEF SafetyInv
<1>1. /\ handles' \in [Needle -> SUBSET File]
      /\ leaked \union OpenFiles(handles') \subseteq present \ (foreign \union Refused)
      /\ \A m, n \in Needle : m # n => handles'[m] \intersect handles'[n] = {}
      /\ \A n \in Needle : handles'[n] \intersect leaked = {}
      /\ \A n \in Needle : handles'[n] # {} => n \notin S /\ Armed(n)
  BY ReleasingIsExclusive
<1>2. TypeOK'
  BY <1>1 DEF TypeOK
<1>3. ExclusiveHandles'
  BY <1>1 DEF ExclusiveHandles, Held, OpenFiles
<1>4. NoOrphanLock'
  BY <1>1 DEF NoOrphanLock, Armed
<1>5. EmptyUntilReplay'
  BY DEF EmptyUntilReplay
<1> QED
  BY <1>2, <1>3, <1>4, <1>5

(* replay() on the empty table opens each file once, or nothing at all.    *)
LEMMA ReplayStep == SafetyInv /\ Replay => SafetyInv'
<1> SUFFICES ASSUME SafetyInv, Replay PROVE SafetyInv'
  OBVIOUS
<1> USE DEF SafetyInv
<1>1. /\ Entries = {} /\ leaked = {}
      /\ \A n \in Needle : handles[n] = {}
  BY DEF Replay, EmptyUntilReplay, NoHandles, Entries, NoOrphanLock
<1>2. Recorded \in SUBSET Needle
  BY DEF TypeOK, Recorded
<1>a. CASE ReplayFails
  BY <1>a DEF Replay, ReplayFails, table, world, TypeOK, ExclusiveHandles, NoOrphanLock,
              EmptyUntilReplay, Held, OpenFiles, Armed, Entries, NoHandles
<1>b. SUFFICES ASSUME ReplayFrom(handles) PROVE SafetyInv'
  BY <1>a DEF Replay
<1>3. PICK A \in ReplayChoices :
        /\ execList' = (execList \ A) \union (manifest.exec \intersect A)
        /\ moduleList' = (moduleList \ A) \union (manifest.module \intersect A)
        /\ leaked' = leaked \union UNION {handles[n] : n \in A}
        /\ handles' \in ArmResults(A, handles, leaked \union OpenFiles(handles))
  BY <1>b DEF ReplayFrom
<1>4. A \subseteq Recorded
  BY <1>2, <1>3 DEF ReplayChoices
<1>5. Entries' = A
  BY <1>1, <1>3, <1>4 DEF Entries, Recorded
<1>6. leaked' = leaked
  BY <1>1, <1>2, <1>3, <1>4
<1>7. /\ handles' \in [Needle -> SUBSET File]
      /\ leaked \union OpenFiles(handles') \subseteq present \ (foreign \union Refused)
      /\ \A m, n \in Needle : m # n => handles'[m] \intersect handles'[n] = {}
      /\ \A n \in Needle : handles'[n] \intersect leaked = {}
      /\ \A n \in Needle : handles'[n] # {} => n \in A \/ Armed(n)
  <2>1. A \in SUBSET Needle /\ \A n \in A : handles[n] = {}
    BY <1>1, <1>2, <1>4
  <2>2. handles' \in ArmResults(A, handles, Held)
    BY <1>3 DEF Held
  <2> QED
    BY <2>1, <2>2, ArmingIsExclusive
<1>8. TypeOK'
  BY <1>2, <1>3, <1>4, <1>6, <1>7 DEF TypeOK, Replay, world, Recorded
<1>9. ExclusiveHandles'
  BY <1>6, <1>7 DEF ExclusiveHandles, Held, OpenFiles, Replay, world
<1>10. NoOrphanLock'
  BY <1>1, <1>5, <1>6, <1>7 DEF NoOrphanLock, Armed
<1>11. EmptyUntilReplay'
  BY DEF EmptyUntilReplay, Replay
<1> QED
  BY <1>8, <1>9, <1>10, <1>11

(* Every operation of the list leaves the handles with their entries.      *)
LEMMA CallStep == SafetyInv /\ phase = "started" /\ Call => SafetyInv'
<1> SUFFICES ASSUME SafetyInv, phase = "started", Call PROVE SafetyInv'
  OBVIOUS
<1> USE DEF SafetyInv
<1>0. /\ manifest \in [exec : SUBSET Needle, module : SUBSET Needle]
      /\ execList \in SUBSET Needle /\ moduleList \in SUBSET Needle
      /\ suspended \in BOOLEAN
      /\ handles \in [Needle -> SUBSET File]
  BY DEF TypeOK
<1>1. ASSUME NEW n \in Needle, NEW exec \in BOOLEAN, AddEntry(n, exec)
      PROVE  SafetyInv'
  <2>1. /\ execList' \in SUBSET Needle /\ moduleList' \in SUBSET Needle
        /\ Entries' = Entries \union {n}
    BY <1>0, <1>1 DEF AddEntry, Entries
  <2>2. manifest' \in [exec : SUBSET Needle, module : SUBSET Needle]
    BY <1>1, <2>1, SaveTyped DEF AddEntry
  <2>3. CASE Armed(n)
    <3>1. handles' = Release(handles, {})
      BY <1>0, <1>1, <2>3 DEF AddEntry, Release
    <3> QED
      BY <1>0, <1>1, <2>1, <2>2, <3>1, ReleasingStep DEF AddEntry, world
  <2>4. CASE ~Armed(n)
    <3>1. handles' \in ArmResults({n}, handles, Held) /\ handles[n] = {}
      BY <1>1, <2>4 DEF AddEntry, Armed
    <3>2. {n} \in SUBSET Needle /\ {n} \union Entries \subseteq Entries'
      BY <2>1
    <3>3. UNCHANGED <<phase, leaked, present, foreign, suspended>>
      BY <1>1 DEF AddEntry, world
    <3> QED
      BY <1>0, <2>1, <2>2, <3>1, <3>2, <3>3, ArmingStep
  <2> QED
    BY <2>3, <2>4
<1>2. ASSUME NEW n \in Needle, RefuseEntry(n)
      PROVE  SafetyInv'
  BY <1>2 DEF RefuseEntry, vars, TypeOK, ExclusiveHandles, NoOrphanLock,
     EmptyUntilReplay, Held, OpenFiles, Armed, Entries, NoHandles
<1>3. ASSUME NEW exec \in BOOLEAN, ClearList(exec)
      PROVE  SafetyInv'
  <2>1. execList' \in SUBSET Needle /\ moduleList' \in SUBSET Needle
    BY <1>0, <1>3 DEF ClearList
  <2>2. manifest' \in [exec : SUBSET Needle, module : SUBSET Needle]
    BY <1>3, <2>1, SaveTyped DEF ClearList
  <2>3. UNCHANGED <<phase, leaked, present, foreign, suspended>>
    BY <1>3 DEF ClearList, world
  <2>4. handles' = Release(handles, Needle \ Entries')
    BY <1>3 DEF ClearList, Entries
  <2>5. Entries \ (Needle \ Entries') \subseteq Entries'
    BY <1>0 DEF Entries
  <2> QED
    BY <1>0, <2>1, <2>2, <2>3, <2>4, <2>5, ReleasingStep
<1>4. ASSUME NEW f \in File, SuspendForRemediation(f)
      PROVE  SafetyInv'
  <2> DEFINE S == {n \in Needle : f \in handles[n]}
  <2>1. /\ UNCHANGED <<phase, leaked, present, foreign, suspended, execList, moduleList, manifest>>
        /\ handles' = Release(handles, S)
    BY <1>4 DEF SuspendForRemediation, world, table
  <2>2. S \in SUBSET Needle /\ Entries \ S \subseteq Entries'
    BY <2>1 DEF Entries
  <2> HIDE DEF S
  <2> QED
    BY <1>0, <2>1, <2>2, ReleasingStep
<1>5. NoHandles = Release(handles, Needle)
  BY DEF NoHandles, Release
<1>6. ASSUME SuspendAllForRemediation \/ Suspend
      PROVE  SafetyInv'
  <2>1. /\ UNCHANGED <<phase, leaked, present, foreign, execList, moduleList, manifest>>
        /\ suspended' \in BOOLEAN
        /\ handles' = Release(handles, Needle)
    BY <1>0, <1>5, <1>6 DEF SuspendAllForRemediation, Suspend, world, table
  <2>2. Entries \ Needle \subseteq Entries'
    BY <1>0 DEF Entries
  <2> QED
    BY <1>0, <2>1, <2>2, ReleasingStep
<1>7. ASSUME Resume \/ Rearm
      PROVE  SafetyInv'
  <2>1. /\ UNCHANGED <<phase, leaked, present, foreign, execList, moduleList, manifest>>
        /\ suspended' \in BOOLEAN
        /\ handles' \in ArmResults(Pending, handles, Held)
    BY <1>0, <1>7 DEF Resume, Rearm, world, table
  <2>2. /\ Pending \in SUBSET Needle /\ \A n \in Pending : handles[n] = {}
        /\ Pending \union Entries \subseteq Entries'
    BY <1>0, <2>1 DEF Pending, Entries, Armed
  <2> QED
    BY <1>0, <2>1, <2>2, ArmingStep
<1> QED
  BY <1>1, <1>2, <1>3, <1>4, <1>6, <1>7 DEF Call

(* So do the start and the end of the process and what others do to files. *)
LEMMA OtherSteps ==
    SafetyInv /\ (Boot \/ Crash \/ World \/ UNCHANGED vars) => SafetyInv'
<1> SUFFICES ASSUME SafetyInv PROVE Boot \/ Crash \/ World \/ UNCHANGED vars => SafetyInv'
  OBVIOUS
<1> USE DEF SafetyInv
<1>1. Boot => SafetyInv'
  BY DEF Boot, table, world, TypeOK, ExclusiveHandles, NoOrphanLock, EmptyUntilReplay,
         Held, OpenFiles, Armed, Entries, NoHandles
<1>2. ASSUME Crash PROVE SafetyInv'
  <2>1. /\ handles' \in [Needle -> SUBSET File]
        /\ \A n \in Needle : handles'[n] = {}
        /\ leaked' = {}
    BY <1>2 DEF Crash, NoHandles
  <2>2. Held' = {}
    BY <2>1 DEF Held, OpenFiles
  <2>3. TypeOK'
    BY <1>2, <2>1 DEF Crash, TypeOK, world
  <2>4. ExclusiveHandles' /\ NoOrphanLock'
    BY <2>1, <2>2 DEF ExclusiveHandles, NoOrphanLock, Armed
  <2>5. EmptyUntilReplay'
    BY <1>2 DEF Crash, EmptyUntilReplay, NoHandles
  <2> QED
    BY <2>3, <2>4, <2>5
<1>3. ASSUME World PROVE SafetyInv'
  <2>1. /\ UNCHANGED <<phase, execList, moduleList, handles, leaked, suspended, manifest>>
        /\ Held' = Held
    BY <1>3 DEF World, FileAppears, FileVanishes, ForeignOpen, ForeignClose, table,
                Held, OpenFiles
  <2>2. /\ Held \subseteq present' \ (foreign' \union Refused)
        /\ present' \subseteq File /\ foreign' \subseteq File
    BY <1>3 DEF World, FileAppears, FileVanishes, ForeignOpen, ForeignClose,
                ExclusiveHandles, TypeOK
  <2> QED
    BY <2>1, <2>2 DEF TypeOK, ExclusiveHandles, NoOrphanLock, EmptyUntilReplay,
                      Armed, Entries, NoHandles
<1>4. UNCHANGED vars => SafetyInv'
  BY DEF vars, TypeOK, ExclusiveHandles, NoOrphanLock, EmptyUntilReplay, Held,
         OpenFiles, Armed, Entries, NoHandles
<1> QED
  BY <1>1, <1>2, <1>3, <1>4

(* Together: every step keeps the safety invariant.                        *)
LEMMA NextSafety == SafetyInv /\ [Next]_vars => SafetyInv'
BY ReplayStep, CallStep, OtherSteps DEF Next

(* The safety invariant holds throughout.                                  *)
LEMMA Safe == Spec => []SafetyInv
BY InitSafety, NextSafety, PTL DEF Spec

(* Every variable keeps its type, whatever the needles, files and faults.  *)
THEOREM TypeCorrect == Spec => []TypeOK
BY Safe, PTL DEF SafetyInv

(* As long as the lists are used only after replay, every lock is held for *)
(* one entry that is listed: no clear, retry, standby, remediation or      *)
(* replay forgets a handle or lets one outlive its entry.                  *)
THEOREM LocksHaveOneOwner == Spec => []OneListedOwner
<1>1. SafetyInv => OneListedOwner
  <2> SUFFICES ASSUME SafetyInv, NEW f \in Held
               PROVE  \E n \in Entries : /\ f \in handles[n] \ leaked
                                         /\ \A m \in Needle \ {n} : f \notin handles[m]
    BY DEF OneListedOwner
  <2>1. leaked = {}
    BY DEF SafetyInv, NoOrphanLock
  <2>2. PICK n \in Needle : f \in handles[n]
    BY <2>1 DEF Held, OpenFiles
  <2>3. n \in Entries
    BY <2>2 DEF SafetyInv, NoOrphanLock, Armed
  <2>4. \A m \in Needle \ {n} : f \notin handles[m]
    BY <2>2 DEF SafetyInv, ExclusiveHandles
  <2> QED
    BY <2>1, <2>2, <2>3, <2>4
<1> QED
  BY <1>1, Safe, PTL

---------------------------------------------------------------------------
(* Remediation: whichever entries, on whichever drives, held the file,     *)
(* none does after the step.  Mutual exclusion alone is not enough: it     *)
(* takes the absence of leaked handles.                                    *)
THEOREM RemediationFrees == Spec => RemediationFreesFile
<1>1. SafetyInv => [\A f \in File : SuspendForRemediation(f) => f \notin Held']_vars
  <2>1. ASSUME SafetyInv, NEW f \in File, SuspendForRemediation(f), f \in Held'
        PROVE  FALSE
    <3>1. /\ leaked' = {}
          /\ \A n \in Needle : handles'[n] = IF f \in handles[n] THEN {} ELSE handles[n]
      BY <2>1 DEF SuspendForRemediation, SafetyInv, NoOrphanLock, Release
    <3>2. PICK n \in Needle : f \in handles'[n]
      BY <2>1, <3>1 DEF Held, OpenFiles
    <3> QED
      BY <3>1, <3>2
  <2> QED
    BY <2>1
<1> QED
  BY <1>1, Safe, PTL DEF RemediationFreesFile

---------------------------------------------------------------------------
(* Standby.  Only the timer and the callers of a running list are asked    *)
(* not to arm, so the flag must be down until replay has run.              *)

AwakeUntilReplay == suspended \in BOOLEAN /\ (phase # "started" => ~suspended)

LEMMA AwakeStep == AwakeUntilReplay /\ [Next]_vars => AwakeUntilReplay'
<1>1. SUFFICES ASSUME AwakeUntilReplay, [Next]_vars PROVE AwakeUntilReplay'
  OBVIOUS
<1>2. CASE UNCHANGED <<phase, suspended>>
  BY <1>1, <1>2 DEF AwakeUntilReplay
<1>3. CASE Boot \/ Replay \/ Crash
  <2>1. /\ suspended' = suspended \/ suspended' = FALSE
        /\ phase' = "started" \/ phase = "down" \/ suspended' = FALSE
    BY <1>3, Zenon DEF Boot, Replay, Crash
  <2>2. phase = "down" => phase # "started"
    OBVIOUS
  <2>3. suspended' \in BOOLEAN
    BY <1>1, <2>1, Zenon DEF AwakeUntilReplay
  <2>4. phase' # "started" => ~suspended'
    BY <1>1, <2>1, <2>2, Zenon DEF AwakeUntilReplay
  <2>5. QED
    BY <2>3, <2>4 DEF AwakeUntilReplay
<1>4. CASE phase = "started" /\ Call
  <2>1. phase' = phase /\ suspended' \in {suspended, TRUE, FALSE}
    BY <1>4, Zenon DEF Call, AddEntry, RefuseEntry, ClearList, SuspendForRemediation,
       SuspendAllForRemediation, Suspend, Resume, Rearm, vars
  <2>2. QED
    BY <1>1, <1>4, <2>1 DEF AwakeUntilReplay
<1>5. CASE World
  BY <1>2, <1>5, Zenon DEF World, FileAppears, FileVanishes, ForeignOpen, ForeignClose
<1>6. CASE UNCHANGED vars
  BY <1>2, <1>6, Zenon DEF vars
<1>7. QED
  BY <1>1, <1>3, <1>4, <1>5, <1>6, Zenon DEF Next

(* Closing handles opens none.                                             *)
LEMMA ReleaseOpensNone ==
  ASSUME NEW S, NEW h
  PROVE  /\ OpenFiles(Release(h, S)) \subseteq OpenFiles(h)
         /\ OpenFiles(NoHandles) \subseteq OpenFiles(h)
BY DEF OpenFiles, Release, NoHandles

LEMMA StandbyStep ==
  ASSUME SafetyInv, AwakeUntilReplay, [Next]_vars, suspended, suspended'
  PROVE  \/ OpenFiles(handles') \subseteq OpenFiles(handles)
         \/ \E n \in Needle, exec \in BOOLEAN : AddEntry(n, exec)
<1>1. phase = "started"
  BY DEF AwakeUntilReplay
<1>2. CASE UNCHANGED handles
  BY <1>2
<1>3. CASE Boot \/ Replay
  BY <1>1, <1>3 DEF Boot, Replay
<1>4. CASE Crash
  BY <1>4 DEF Crash
<1>5. CASE World
  BY <1>2, <1>5, Zenon DEF World, FileAppears, FileVanishes, ForeignOpen, ForeignClose
<1>6. CASE UNCHANGED vars
  BY <1>2, <1>6, Zenon DEF vars
<1>7. CASE Call
  <2>1. ASSUME NEW S, handles' = Release(handles, S)
        PROVE  OpenFiles(handles') \subseteq OpenFiles(handles)
    BY <2>1, ReleaseOpensNone
  <2>2. CASE \E exec \in BOOLEAN : ClearList(exec)
    BY <2>1, <2>2, Zenon DEF ClearList
  <2>3. CASE \E f \in File : SuspendForRemediation(f)
    BY <2>1, <2>3, Zenon DEF SuspendForRemediation
  <2>4. CASE SuspendAllForRemediation
    BY <2>4, ReleaseOpensNone DEF SuspendAllForRemediation
  <2>5. CASE Suspend \/ Resume \/ Rearm
    BY <2>5 DEF Suspend, Resume, Rearm
  <2>6. CASE \E n \in Needle : RefuseEntry(n)
    BY <1>2, <2>6, Zenon DEF RefuseEntry, vars
  <2>7. QED
    BY <1>7, <2>2, <2>3, <2>4, <2>5, <2>6, Zenon DEF Call
<1>8. QED
  BY <1>3, <1>4, <1>5, <1>6, <1>7, Zenon DEF Next

(* In standby nothing locks a file but a caller that asks for it at that   *)
(* moment: not the 30 s retry, not a second replay, not remediation.       *)
THEOREM StandbyStaysUnarmed == Spec => StandbyArmsNothingByItself
<1>1. Init => AwakeUntilReplay
  BY DEF Init, AwakeUntilReplay
<1>2. Spec => []AwakeUntilReplay
  BY <1>1, AwakeStep, PTL DEF Spec
<1>3. SafetyInv /\ AwakeUntilReplay /\ [Next]_vars
      => [suspended /\ suspended' =>
            \/ OpenFiles(handles') \subseteq OpenFiles(handles)
            \/ \E n \in Needle, exec \in BOOLEAN : AddEntry(n, exec)]_vars
  BY StandbyStep
<1>4. QED
  BY <1>2, <1>3, Safe, PTL DEF Spec, StandbyArmsNothingByItself

---------------------------------------------------------------------------
(* Capacity.                                                               *)

(* Fewer entries still fit.                                                *)
LEMMA SubsetWithinCapacity ==
    ASSUME NEW S \in SUBSET Needle, NEW T \in SUBSET S, Cardinality(S) <= MaxEntries
    PROVE  Cardinality(T) <= MaxEntries
<1>1. IsFiniteSet(S)
  BY ConstantsAssumption, FS_Subset
<1> QED
  BY <1>1, ConstantsAssumption, FS_Subset, FS_CardinalityType

(* addEntry's test leaves room for the entry it adds.                      *)
LEMMA AddWithinCapacity ==
    ASSUME TypeOK, Cardinality(Entries) <= MaxEntries, NEW n \in Needle, HasRoomFor(n)
    PROVE  Cardinality(Entries \union {n}) <= MaxEntries
<1>1. Entries \in SUBSET Needle
  BY DEF TypeOK, Entries
<1>2. IsFiniteSet(Entries) /\ Cardinality(Entries) \in Nat
  BY <1>1, ConstantsAssumption, FS_Subset, FS_CardinalityType
<1>3. CASE n \in Entries
  <2>1. Entries \union {n} = Entries
    BY <1>3
  <2> QED
    BY <2>1
<1>4. CASE n \notin Entries
  <2>1. Cardinality(Entries \union {n}) = Cardinality(Entries) + 1
    BY <1>2, <1>4, FS_AddElement
  <2>2. Cardinality(Entries) < MaxEntries
    BY <1>4 DEF HasRoomFor
  <2> QED
    BY <1>2, <2>1, <2>2, ConstantsAssumption
<1> QED
  BY <1>3, <1>4

(* Replay accepts the whole manifest when it fits: the table was empty.    *)
LEMMA ReplayTakesAll ==
    ASSUME SafetyInv, WithinCapacity, phase # "started", NEW A \in ReplayChoices
    PROVE  A = Recorded
<1>1. Entries = {} /\ Cardinality(Entries) = 0
  BY FS_EmptySet DEF SafetyInv, EmptyUntilReplay, Entries
<1>2. Recorded \in SUBSET Needle /\ Recorded \ Entries = Recorded
  BY <1>1 DEF SafetyInv, TypeOK, Recorded
<1>3. IsFiniteSet(Recorded) /\ Cardinality(Recorded) \in Nat
  BY <1>2, ConstantsAssumption, FS_Subset, FS_CardinalityType
<1>4. CASE Cardinality(Recorded) < MaxEntries
  <2>1. Cardinality(Recorded \ Entries) < Room /\ ~(Cardinality(Entries) >= MaxEntries)
    BY <1>1, <1>2, <1>4, ConstantsAssumption DEF Room
  <2> QED
    BY <2>1 DEF ReplayChoices
<1>5. CASE Cardinality(Recorded) = MaxEntries
  <2>1. A \in SUBSET Recorded /\ Cardinality(A) = MaxEntries
    <3>1. A \in SUBSET Recorded /\ Cardinality(A \ Entries) = MaxEntries
      BY <1>1, <1>2, <1>5, ConstantsAssumption DEF ReplayChoices, Room
    <3>2. A \ Entries = A
      BY <1>1
    <3> QED
      BY <3>1, <3>2
  <2> QED
    BY <1>3, <1>5, <2>1, FS_Subset
<1> QED
  BY <1>3, <1>4, <1>5, ConstantsAssumption DEF WithinCapacity

CapacityInv == SafetyInv /\ WithinCapacity

(* The manifest a save leaves is the old one, the new table, or nothing.   *)
LEMMA SaveWithinCapacity ==
    ASSUME WithinCapacity, execList' \in SUBSET Needle, moduleList' \in SUBSET Needle,
           Cardinality(Entries') <= MaxEntries,
           Save(execList', moduleList')
    PROVE  WithinCapacity'
<1>1. CASE manifest' = [exec |-> execList', module |-> moduleList']
  <2>1. Recorded' = Entries'
    BY <1>1 DEF Recorded, Entries
  <2> QED
    BY <2>1 DEF WithinCapacity
<1>2. CASE manifest' = manifest
  BY <1>2 DEF WithinCapacity, Recorded
<1>3. CASE manifest' = [exec |-> {}, module |-> {}]
  <2>1. Recorded' = {}
    BY <1>3 DEF Recorded
  <2> QED
    BY <2>1, FS_EmptySet, ConstantsAssumption DEF WithinCapacity
<1> QED
  BY <1>1, <1>2, <1>3 DEF Save

(* Every step keeps table and manifest within maxEntries_.                 *)
LEMMA NextCapacity == CapacityInv /\ [Next]_vars => WithinCapacity'
<1> SUFFICES ASSUME CapacityInv, [Next]_vars PROVE WithinCapacity'
  OBVIOUS
<1> USE DEF CapacityInv
<1>0. /\ TypeOK /\ Entries \in SUBSET Needle
      /\ Cardinality(Entries) <= MaxEntries
      /\ Cardinality(Recorded) <= MaxEntries
  BY DEF SafetyInv, TypeOK, Entries, WithinCapacity
<1>1. ASSUME NEW n \in Needle, NEW exec \in BOOLEAN, AddEntry(n, exec)
      PROVE  WithinCapacity'
  <2>1. /\ execList' \in SUBSET Needle /\ moduleList' \in SUBSET Needle
        /\ Entries' = Entries \union {n}
    BY <1>0, <1>1 DEF AddEntry, Entries, TypeOK
  <2>2. Cardinality(Entries') <= MaxEntries
    BY <1>0, <1>1, <2>1, AddWithinCapacity DEF AddEntry
  <2> QED
    BY <1>1, <2>1, <2>2, SaveWithinCapacity DEF AddEntry
<1>2. ASSUME NEW exec \in BOOLEAN, ClearList(exec)
      PROVE  WithinCapacity'
  <2>1. /\ execList' \in SUBSET Needle /\ moduleList' \in SUBSET Needle
        /\ Entries' \in SUBSET Entries
    BY <1>0, <1>2 DEF ClearList, Entries, TypeOK
  <2>2. Cardinality(Entries') <= MaxEntries
    BY <1>0, <2>1, SubsetWithinCapacity
  <2> QED
    BY <1>2, <2>1, <2>2, SaveWithinCapacity DEF ClearList
<1>3. ASSUME Replay
      PROVE  WithinCapacity'
  <2>a. CASE ReplayFails
    BY <1>3, <2>a DEF Replay, ReplayFails, table, WithinCapacity, Entries, Recorded
  <2>b. SUFFICES ASSUME ReplayFrom(handles) PROVE WithinCapacity'
    BY <1>3, <2>a DEF Replay
  <2>1. PICK A \in ReplayChoices :
        /\ execList' = (execList \ A) \union (manifest.exec \intersect A)
        /\ moduleList' = (moduleList \ A) \union (manifest.module \intersect A)
    BY <2>b DEF ReplayFrom
  <2>2. A = Recorded
    BY <1>3, <2>1, ReplayTakesAll DEF Replay
  <2>3. execList = {} /\ moduleList = {}
    BY <1>3 DEF Replay, SafetyInv, EmptyUntilReplay
  <2>4. Entries' = Recorded /\ Recorded' = Recorded
    BY <1>3, <2>1, <2>2, <2>3 DEF Replay, Entries, Recorded
  <2> QED
    BY <1>0, <2>4 DEF WithinCapacity
<1>4. ASSUME Crash
      PROVE  WithinCapacity'
  <2>1. Entries' = {} /\ Recorded' = Recorded
    BY <1>4 DEF Crash, Entries, Recorded
  <2> QED
    BY <1>0, <2>1, FS_EmptySet, ConstantsAssumption DEF WithinCapacity
<1>5. ASSUME UNCHANGED <<execList, moduleList, manifest>>
      PROVE  WithinCapacity'
  BY <1>5 DEF WithinCapacity, Entries, Recorded
<1> QED
  BY <1>1, <1>2, <1>3, <1>4, <1>5
     DEF Next, Call, Boot, World, FileAppears, FileVanishes, ForeignOpen, ForeignClose,
         RefuseEntry, SuspendForRemediation, SuspendAllForRemediation, Suspend, Resume,
         Rearm, vars, table

(* Table and manifest stay within maxEntries_ throughout.                  *)
LEMMA Capacity == Spec => []CapacityInv
<1>1. Init => WithinCapacity
  <2> SUFFICES ASSUME Init PROVE WithinCapacity
    OBVIOUS
  <2>1. Entries = {} /\ Recorded = {}
    BY DEF Init, Entries, Recorded
  <2> QED
    BY <2>1, FS_EmptySet, ConstantsAssumption DEF WithinCapacity
<1>2. Init => CapacityInv
  BY <1>1, InitSafety DEF CapacityInv
<1>3. CapacityInv /\ [Next]_vars => CapacityInv'
  BY NextSafety, NextCapacity DEF CapacityInv
<1> QED
  BY <1>2, <1>3, PTL DEF Spec

(* The list never outgrows its maximum, neither in memory nor on disk,     *)
(* through full tables, failing saves and replays.                         *)
THEOREM CapacityKept == Spec => []WithinCapacity
BY Capacity, PTL DEF CapacityInv

---------------------------------------------------------------------------
(* Refinement.  replay() restores both flags of every recorded entry: the  *)
(* manifest fits the table.                                                *)
LEMMA ReplayRestores ==
    ASSUME CapacityInv, Replay, ReplayFrom(handles)
    PROVE  execList' = manifest.exec /\ moduleList' = manifest.module
<1>1. PICK A \in ReplayChoices :
        /\ execList' = (execList \ A) \union (manifest.exec \intersect A)
        /\ moduleList' = (moduleList \ A) \union (manifest.module \intersect A)
  BY DEF ReplayFrom
<1>2. A = Recorded
  BY <1>1, ReplayTakesAll DEF Replay, CapacityInv
<1>3. execList = {} /\ moduleList = {}
  BY DEF Replay, CapacityInv, SafetyInv, EmptyUntilReplay
<1> QED
  BY <1>1, <1>2, <1>3 DEF Recorded

(* Every step is a step of the abstract list, or leaves it as it is.       *)
LEMMA StepRefines ==
    ASSUME CapacityInv, [Next]_vars
    PROVE  [BL!Next]_(BL!vars)
<1> DEFINE exec == IF phase = "started" THEN execList ELSE manifest.exec
           module == IF phase = "started" THEN moduleList ELSE manifest.module
<1>1. ASSUME phase = "started", NEW n \in Needle, NEW e \in BOOLEAN, AddEntry(n, e)
      PROVE  BL!Next
  <2>0. \A S : BL!Cardinality(S) = Cardinality(S)
    BY DEF BL!Cardinality, Cardinality
  <2>1. phase' = "started" /\ BL!HasRoomFor(n) /\ BL!Record
    BY <1>1, <2>0 DEF AddEntry, HasRoomFor, BL!HasRoomFor, BL!Listed, Entries, Save, BL!Record
  <2>2. CASE e
    <3>1. BL!AddExec(n)
      BY <1>1, <2>1, <2>2 DEF AddEntry, BL!AddExec
    <3> QED
      BY <3>1 DEF BL!Next
  <2>3. CASE ~e
    <3>1. BL!AddModule(n)
      BY <1>1, <2>1, <2>3 DEF AddEntry, BL!AddModule
    <3> QED
      BY <3>1 DEF BL!Next
  <2> QED
    BY <2>2, <2>3
<1>2. ASSUME phase = "started", NEW e \in BOOLEAN, ClearList(e)
      PROVE  BL!Next
  <2>1. BL!Record
    BY <1>2 DEF ClearList, Save, BL!Record
  <2> QED
    BY <1>2, <2>1 DEF ClearList, BL!Next, BL!ClearExec, BL!ClearModule
<1>3. ASSUME Crash PROVE BL!Next
  <2>1. BL!Restart
    BY <1>3 DEF Crash, BL!Restart
  <2> QED
    BY <2>1 DEF BL!Next
<1>4. ASSUME exec' = exec, module' = module, manifest' = manifest
      PROVE  UNCHANGED BL!vars
  BY <1>4 DEF BL!vars
<1>5. ASSUME phase = "started",
             \/ \E n \in Needle : RefuseEntry(n)
             \/ \E f \in File : SuspendForRemediation(f)
             \/ SuspendAllForRemediation \/ Suspend \/ Resume \/ Rearm
      PROVE  exec' = exec /\ module' = module /\ manifest' = manifest
  BY <1>5 DEF RefuseEntry, SuspendForRemediation, SuspendAllForRemediation, Suspend,
     Resume, Rearm, vars, table
<1>6. ASSUME Replay PROVE [BL!Next]_(BL!vars)
  <2>1. CASE ReplayFrom(handles)
    BY <1>4, <1>6, <2>1, ReplayRestores DEF Replay
  <2>2. CASE ReplayFails
    <3>1. execList = {} /\ moduleList = {}
      BY <1>6 DEF Replay, CapacityInv, SafetyInv, EmptyUntilReplay
    <3>2. BL!RestartUnread
      BY <1>6, <2>2, <3>1 DEF Replay, ReplayFails, table, BL!RestartUnread
    <3> QED
      BY <3>2 DEF BL!Next
  <2> QED
    BY <1>6, <2>1, <2>2 DEF Replay
<1>7. ASSUME Boot \/ World \/ UNCHANGED vars
      PROVE  exec' = exec /\ module' = module /\ manifest' = manifest
  BY <1>7 DEF Boot, World, FileAppears, FileVanishes, ForeignOpen, ForeignClose, vars, table
<1> QED
  BY <1>1, <1>2, <1>3, <1>4, <1>5, <1>6, <1>7 DEF Next, Call

(* The component implements the abstract list, however its saves and the   *)
(* reading at start fail: standby, remediation and the retry neither lose  *)
(* nor invent an entry, and a restart brings back all that was recorded or,*)
(* when it cannot read the record, nothing.                                *)
THEOREM ImplementsList == Spec => ListSurvives
<1>1. Init => BL!Init
  BY DEF Init, BL!Init
<1>2. CapacityInv /\ [Next]_vars => [BL!Next]_(BL!vars)
  BY StepRefines
<1> QED
  BY <1>1, <1>2, Capacity, PTL DEF Spec, ListSurvives, BL!Spec

---------------------------------------------------------------------------
(* The vault and its index.                                                *)

InVault == {"deleted", "raced", "kept"}

\* What has been quarantined is whole in the vault, and is what was deleted.
FateOK ==
    \A i \in Ids :
        /\ fate[i] \in InVault => vault[i] = copied[i] /\ vault[i] # NoFile
        /\ fate[i] = "deleted" => removed[i] = copied[i]

\* Only identifiers that came that far are listed.
ListOK ==
    \A e \in entries \cup index.table : fate[e.id] \in InVault \cup {"released"}

\* A loaded table knows everything the index does, but for what was released.
LoadedOK ==
    loaded => \A e \in index.table : e \in entries \/ fate[e.id] = "released"

OnceIn(list) ==
    \A d, e \in list : d.path = e.path /\ Vaulted(d) /\ Vaulted(e) => d = e

OnceOK == OnceIn(entries) /\ OnceIn(index.table)

\* The running quarantine is for an identifier nobody lists and a path without
\* a copy, and what it deletes is what it copied unless somebody rewrote it.
QuarantineJobOK ==
    job.at # "idle" /\ job.kind = "quarantine" =>
        /\ job.at # "forget"
        /\ \A e \in entries : e.path = job.path => ~ Vaulted(e)
        /\ job.at \in {"copy", "delete"} => fate[job.id] = "working"
        /\ job.at = "delete" => /\ vault[job.id] = copied[job.id]
                                /\ vault[job.id] # NoFile
                                /\ \/ job.rewritten
                                   \/ file[job.path] \in {copied[job.id], NoFile}
        /\ job.at = "save" => fate[job.id] \in InVault

\* A restore or purge is for an identifier that was in the vault.
ReleaseJobOK ==
    job.at # "idle" /\ job.kind # "quarantine" =>
        /\ job.at # "delete"
        /\ fate[job.id] \in InVault \cup {"released"}
        /\ job.at = "save" => fate[job.id] = "released"

Inv == /\ VaultTypeOK /\ FateOK /\ ListOK /\ LoadedOK /\ OnceOK
       /\ QuarantineJobOK /\ ReleaseJobOK

-----------------------------------------------------------------------------
(* Facts the steps share.                                                   *)

\* The mutex is free exactly when the job is idle.
LEMMA JobFacts ==
    ASSUME VaultTypeOK
    PROVE  /\ job = NoJob <=> job.at = "idle"
           /\ job.at # "idle" => job \in Job /\ job.id \in Ids /\ job.path \in Paths
BY DEF VaultTypeOK, Job, NoJob

\* Reading the index leaves a table whose entries were listed before, keeps
\* the types, and loads only what it read whole.
LEMMA LoadFacts ==
    ASSUME Inv, NEW opens \in BOOLEAN, EnsureLoaded(opens), UNCHANGED <<index, vault, copied, removed>>,
           \A i \in Ids : fate[i] \in InVault \cup {"released"} => fate'[i] = fate[i]
    PROVE  /\ entries' \subseteq Entry /\ loaded' \in BOOLEAN
           /\ ListOK' /\ LoadedOK' /\ OnceOK'
<1> USE DEF Inv
<1>1. entries' = entries \/ entries' = index.table
  BY DEF EnsureLoaded, Table
<1>2. index.table \subseteq Entry
  BY DEF VaultTypeOK, Index
<1>3. entries' \subseteq Entry /\ loaded' \in BOOLEAN
  BY <1>1, <1>2 DEF VaultTypeOK, EnsureLoaded, HasLoaded
<1>4. \A e \in Entry : e.id \in Ids
  BY DEF Entry
<1>5. ListOK'
  BY <1>1, <1>2, <1>3, <1>4 DEF ListOK, VaultTypeOK
<1>6. LoadedOK'
  <2> SUFFICES ASSUME loaded', NEW e \in index.table
               PROVE  e \in entries' \/ fate'[e.id] = "released"
    BY DEF LoadedOK
  <2>1. CASE loaded
    BY <2>1, <1>2, <1>4 DEF LoadedOK, EnsureLoaded, Table, MustRead
  <2>2. CASE ~ loaded
    BY <2>2 DEF EnsureLoaded, Table, MustRead, HasLoaded, Absent, Damaged
  <2> QED BY <2>1, <2>2
<1>7. OnceOK'
  BY <1>1 DEF OnceOK, OnceIn, Vaulted
<1> QED BY <1>3, <1>5, <1>6, <1>7

-----------------------------------------------------------------------------
(* One lemma per step.                                                      *)

LEMMA InvHoldsInit == VaultInit => Inv
<1> SUFFICES ASSUME VaultInit PROVE Inv
  OBVIOUS
<1>1. VaultTypeOK
  BY DEF VaultInit, VaultTypeOK, Index, Absent, Contents, Fates, NoJob
<1>2. \A i \in Ids : fate[i] = "new"
  BY DEF VaultInit
<1>3. entries = {} /\ index.table = {} /\ job.at = "idle"
  BY DEF VaultInit, Absent, NoJob
<1>4. FateOK /\ ListOK /\ LoadedOK /\ OnceOK /\ QuarantineJobOK /\ ReleaseJobOK
  BY <1>2, <1>3 DEF FateOK, ListOK, LoadedOK, OnceOK, OnceIn, QuarantineJobOK,
                    ReleaseJobOK, InVault
<1> QED BY <1>1, <1>4 DEF Inv

LEMMA LookKeepsInv ==
    ASSUME Inv, NEW opens \in BOOLEAN, Look(opens)
    PROVE  Inv'
<1> USE DEF Look, disk, history
<1>1. ListOK' /\ LoadedOK' /\ OnceOK' /\ entries' \subseteq Entry /\ loaded' \in BOOLEAN
  BY LoadFacts
<1>2. VaultTypeOK'
  BY <1>1 DEF Inv, VaultTypeOK
<1>3. FateOK' /\ QuarantineJobOK' /\ ReleaseJobOK'
  BY DEF Inv, FateOK, QuarantineJobOK, ReleaseJobOK, NoJob
<1> QED BY <1>1, <1>2, <1>3 DEF Inv

LEMMA AgainKeepsInv ==
    ASSUME Inv, NEW opens \in BOOLEAN, NEW p \in Paths, QuarantineAgain(p, opens)
    PROVE  Inv'
<1> USE DEF QuarantineAgain, disk, history
<1>1. ListOK' /\ LoadedOK' /\ OnceOK' /\ entries' \subseteq Entry /\ loaded' \in BOOLEAN
  BY LoadFacts
<1>2. VaultTypeOK'
  BY <1>1 DEF Inv, VaultTypeOK
<1>3. FateOK' /\ QuarantineJobOK' /\ ReleaseJobOK'
  BY DEF Inv, FateOK, QuarantineJobOK, ReleaseJobOK, NoJob
<1> QED BY <1>1, <1>2, <1>3 DEF Inv

LEMMA BeginsKeepsInv ==
    ASSUME Inv, NEW opens \in BOOLEAN, NEW p \in Paths, NEW i \in Ids,
           QuarantineBegins(p, i, opens)
    PROVE  Inv'
<1> USE DEF QuarantineBegins, disk
<1>1. \A k \in Ids : fate[k] \in InVault \cup {"released"} => fate'[k] = fate[k]
  BY DEF InVault, Inv, VaultTypeOK
<1>2. ListOK' /\ LoadedOK' /\ OnceOK' /\ entries' \subseteq Entry /\ loaded' \in BOOLEAN
  BY <1>1, LoadFacts
<1>3. fate' \in [Ids -> Fates] /\ fate'[i] = "working"
  BY DEF Inv, VaultTypeOK, Fates
<1>4. job' \in Job
  BY DEF Job
<1>5. VaultTypeOK'
  BY <1>2, <1>3, <1>4 DEF Inv, VaultTypeOK
<1>6. FateOK'
  BY DEF Inv, VaultTypeOK, FateOK, InVault
<1>7. \A e \in entries' : e.path = p => ~ Vaulted(e)'
  BY DEF HeldCopies, EnsureLoaded, Vaulted
<1>8. QuarantineJobOK' /\ ReleaseJobOK'
  BY <1>3, <1>7 DEF QuarantineJobOK, ReleaseJobOK
<1> QED BY <1>2, <1>5, <1>6, <1>8 DEF Inv

LEMMA CopyKeepsInv ==
    ASSUME Inv, MakeVaultCopy
    PROVE  Inv'
<1> USE DEF MakeVaultCopy, disk, memory
<1>1. job \in Job /\ job.id \in Ids /\ job.path \in Paths /\ fate[job.id] = "working"
  BY JobFacts DEF Inv, QuarantineJobOK
<1>2. \A e \in entries \cup index.table : e \in Entry /\ e.id \in Ids /\ e.id # job.id
  BY <1>1 DEF Inv, VaultTypeOK, Index, Entry, ListOK, InVault
<1>3. CASE /\ file[job.path] # NoFile
           /\ vault' = [vault EXCEPT ![job.id] = file[job.path]]
           /\ copied' = [copied EXCEPT ![job.id] = file[job.path]]
           /\ job' = [job EXCEPT !.at = "delete"]
           /\ UNCHANGED fate
  <2> USE <1>3
  <2>1. job' \in Job /\ job'.at = "delete" /\ job'.kind = "quarantine"
        /\ job'.id = job.id /\ job'.path = job.path
    BY <1>1 DEF Job
  <2>2. VaultTypeOK'
    BY <1>1, <2>1 DEF Inv, VaultTypeOK
  <2>3. FateOK'
    BY <1>1 DEF Inv, VaultTypeOK, FateOK, InVault
  <2>4. \A e \in entries \cup index.table : vault'[e.id] = vault[e.id]
    BY <1>1, <1>2 DEF Inv, VaultTypeOK
  <2>5. ListOK' /\ LoadedOK' /\ OnceOK'
    BY <2>4 DEF Inv, ListOK, LoadedOK, OnceOK, OnceIn, Vaulted
  <2>6. vault'[job.id] = file[job.path] /\ copied'[job.id] = file[job.path]
    BY <1>1 DEF Inv, VaultTypeOK
  <2>7. \A e \in entries : e.path = job.path => ~ Vaulted(e)'
    BY <1>1, <2>4 DEF Inv, QuarantineJobOK, Vaulted
  <2>8. QuarantineJobOK' /\ ReleaseJobOK'
    BY <1>1, <2>1, <2>6, <2>7 DEF QuarantineJobOK, ReleaseJobOK
  <2> QED BY <2>2, <2>3, <2>5, <2>8 DEF Inv
<1>4. CASE /\ fate' = [fate EXCEPT ![job.id] = "failed"]
           /\ job' = NoJob
           /\ UNCHANGED <<vault, copied>>
  <2> USE <1>4
  <2>1. VaultTypeOK'
    BY <1>1 DEF Inv, VaultTypeOK, Fates
  <2>2. FateOK'
    BY <1>1 DEF Inv, VaultTypeOK, FateOK, InVault
  <2>3. \A e \in entries \cup index.table : fate'[e.id] = fate[e.id]
    BY <1>1, <1>2 DEF Inv, VaultTypeOK
  <2>4. ListOK' /\ LoadedOK' /\ OnceOK'
    BY <2>3 DEF Inv, ListOK, LoadedOK, OnceOK, OnceIn, Vaulted
  <2>5. QuarantineJobOK' /\ ReleaseJobOK'
    BY DEF QuarantineJobOK, ReleaseJobOK, NoJob
  <2> QED BY <2>1, <2>2, <2>4, <2>5 DEF Inv
<1> QED BY <1>3, <1>4

LEMMA DeleteKeepsInv ==
    ASSUME Inv, DeleteOriginal
    PROVE  Inv'
<1> USE DEF DeleteOriginal, memory
<1>1. job \in Job /\ job.id \in Ids /\ job.path \in Paths /\ job.kind = "quarantine"
  BY JobFacts DEF Inv, ReleaseJobOK
<1>2. /\ fate[job.id] = "working"
      /\ vault[job.id] = copied[job.id] /\ vault[job.id] # NoFile
      /\ job.rewritten \/ file[job.path] \in {copied[job.id], NoFile}
  BY <1>1 DEF Inv, QuarantineJobOK
<1>3. \A e \in entries \cup index.table : e.id \in Ids /\ e.id # job.id
  BY <1>2 DEF Inv, VaultTypeOK, Index, Entry, ListOK, InVault
<1>4. job' \in Job /\ job'.at = "save" /\ job'.kind = "quarantine"
      /\ job'.id = job.id /\ job'.path = job.path
  BY <1>1 DEF Job
<1>5. PICK f \in InVault : fate' = [fate EXCEPT ![job.id] = f]
  BY DEF InVault
<1>6. VaultTypeOK'
  BY <1>1, <1>4, <1>5 DEF Inv, VaultTypeOK, Fates, InVault
<1>7. \A i \in Ids \ {job.id} : fate'[i] = fate[i] /\ removed'[i] = removed[i]
  BY <1>1 DEF Inv, VaultTypeOK
<1>8. fate'[job.id] = "deleted" => removed'[job.id] = copied[job.id]
  BY <1>1, <1>2 DEF Inv, VaultTypeOK
<1>9. FateOK'
  BY <1>2, <1>7, <1>8 DEF Inv, FateOK
<1>10. ListOK' /\ LoadedOK' /\ OnceOK'
  BY <1>3, <1>7 DEF Inv, ListOK, LoadedOK, OnceOK, OnceIn, Vaulted
<1>11. QuarantineJobOK' /\ ReleaseJobOK'
  BY <1>1, <1>4, <1>5 DEF Inv, VaultTypeOK, QuarantineJobOK, ReleaseJobOK, Vaulted
<1> QED BY <1>6, <1>9, <1>10, <1>11 DEF Inv

LEMMA RestoreBeginsKeepsInv ==
    ASSUME Inv, NEW opens \in BOOLEAN, NEW e \in Entry, RestoreBegins(e, opens)
    PROVE  Inv'
<1> USE DEF RestoreBegins, disk, history
<1>1. ListOK' /\ LoadedOK' /\ OnceOK' /\ entries' \subseteq Entry /\ loaded' \in BOOLEAN
  BY LoadFacts
<1>2. job' \in Job
  BY DEF Job, Entry
<1>3. fate'[e.id] \in InVault \cup {"released"}
  BY <1>1 DEF ListOK, EnsureLoaded
<1>4. VaultTypeOK' /\ FateOK'
  BY <1>1, <1>2 DEF Inv, VaultTypeOK, FateOK
<1>5. QuarantineJobOK' /\ ReleaseJobOK'
  BY <1>3 DEF QuarantineJobOK, ReleaseJobOK
<1> QED BY <1>1, <1>4, <1>5 DEF Inv

LEMMA PurgeBeginsKeepsInv ==
    ASSUME Inv, NEW opens \in BOOLEAN, NEW e \in Entry, PurgeBegins(e, opens)
    PROVE  Inv'
<1> USE DEF PurgeBegins, disk, history
<1>1. ListOK' /\ LoadedOK' /\ OnceOK' /\ entries' \subseteq Entry /\ loaded' \in BOOLEAN
  BY LoadFacts
<1>2. job' \in Job
  BY DEF Job, Entry
<1>3. fate'[e.id] \in InVault \cup {"released"}
  BY <1>1 DEF ListOK, EnsureLoaded
<1>4. VaultTypeOK' /\ FateOK'
  BY <1>1, <1>2 DEF Inv, VaultTypeOK, FateOK
<1>5. QuarantineJobOK' /\ ReleaseJobOK'
  BY <1>3 DEF QuarantineJobOK, ReleaseJobOK
<1> QED BY <1>1, <1>4, <1>5 DEF Inv

LEMMA RestoreCopyKeepsInv ==
    ASSUME Inv, RestoreCopy
    PROVE  Inv'
<1> USE DEF RestoreCopy, memory, history
<1>1. job \in Job /\ job.id \in Ids /\ job.path \in Paths /\ job.kind = "restore"
  BY JobFacts DEF Inv
<1>2. vault[job.id] \in Contents \cup {NoFile}
  BY <1>1 DEF Inv, VaultTypeOK
<1>3. file' \in [Paths -> Contents \cup {NoFile}] /\ aside' \in [Paths -> Contents \cup {NoFile}]
  BY <1>1, <1>2 DEF Inv, VaultTypeOK, WriteTarget
<1>4. \/ job' = NoJob
      \/ /\ job' \in Job /\ job'.at = "forget" /\ job'.kind = "restore"
         /\ job'.id = job.id
  BY <1>1 DEF Job
<1>5. VaultTypeOK'
  BY <1>3, <1>4 DEF Inv, VaultTypeOK
<1>6. FateOK' /\ ListOK' /\ LoadedOK' /\ OnceOK'
  BY DEF Inv, FateOK, ListOK, LoadedOK, OnceOK, OnceIn, Vaulted
<1>7. QuarantineJobOK' /\ ReleaseJobOK'
  BY <1>1, <1>4 DEF Inv, QuarantineJobOK, ReleaseJobOK, NoJob
<1> QED BY <1>5, <1>6, <1>7 DEF Inv

LEMMA ForgetKeepsInv ==
    ASSUME Inv, Forget
    PROVE  Inv'
<1> USE DEF Forget, disk, memory
<1>1. job \in Job /\ job.id \in Ids /\ job.kind # "quarantine"
  BY JobFacts DEF Inv, QuarantineJobOK
<1>2. job' \in Job /\ job'.at = "save" /\ job'.kind = job.kind /\ job'.id = job.id
  BY <1>1 DEF Job
<1>3. vault' \in [Ids -> Contents \cup {NoFile}]
      /\ \A i \in Ids : vault'[i] \in {vault[i], NoFile} /\ (i # job.id => vault'[i] = vault[i])
  BY <1>1 DEF Inv, VaultTypeOK
<1>4. fate' \in [Ids -> Fates] /\ fate'[job.id] = "released"
      /\ \A i \in Ids \ {job.id} : fate'[i] = fate[i]
  BY <1>1 DEF Inv, VaultTypeOK, Fates
<1>5. \A e \in entries \cup index.table : e.id \in Ids
  BY DEF Inv, VaultTypeOK, Index, Entry
<1>6. VaultTypeOK'
  BY <1>2, <1>3, <1>4 DEF Inv, VaultTypeOK
<1>7. FateOK'
  BY <1>3, <1>4 DEF Inv, FateOK, InVault
<1>8. ListOK' /\ LoadedOK'
  BY <1>4, <1>5 DEF Inv, ListOK, LoadedOK
<1>9. \A e \in entries \cup index.table : Vaulted(e)' => Vaulted(e)
  BY <1>3, <1>5 DEF Vaulted
<1>10. OnceOK'
  BY <1>9 DEF Inv, OnceOK, OnceIn
<1>11. QuarantineJobOK' /\ ReleaseJobOK'
  BY <1>1, <1>2, <1>4 DEF QuarantineJobOK, ReleaseJobOK
<1> QED BY <1>6, <1>7, <1>8, <1>10, <1>11 DEF Inv

\* What SaveEntries leaves in the table, the index not considered.
LEMMA SaveFacts ==
    ASSUME Inv, SaveEntries
    PROVE  /\ job.id \in Ids /\ entries' \subseteq Entry
           /\ \A e \in entries : e \in entries' \/ fate[e.id] = "released"
           /\ \A e \in entries' : fate[e.id] \in InVault \cup {"released"}
           /\ OnceIn(entries')
<1> USE DEF SaveEntries
<1>1. job \in Job /\ job.id \in Ids /\ job.path \in Paths
  BY JobFacts DEF Inv
<1>2. entries \subseteq Entry
  BY DEF Inv, VaultTypeOK
<1>3. CASE job.kind = "quarantine"
  <2> DEFINE new == [id |-> job.id, path |-> job.path]
  <2>1. entries' = entries \cup {new}
    BY <1>3
  <2>2. new \in Entry /\ fate[new.id] \in InVault
    BY <1>1, <1>3 DEF Entry, Inv, QuarantineJobOK
  <2>3. \A e \in entries : e.path = new.path => ~ Vaulted(e)
    BY <1>1, <1>3 DEF Inv, QuarantineJobOK
  <2> HIDE DEF new
  <2>4. OnceIn(entries')
    BY <2>1, <2>3 DEF Inv, OnceOK, OnceIn
  <2> QED BY <1>1, <1>2, <2>1, <2>2, <2>4 DEF Inv, ListOK
<1>4. CASE job.kind # "quarantine"
  <2>1. entries' = {e \in entries : e.id # job.id} /\ fate[job.id] = "released"
    BY <1>1, <1>4 DEF Inv, ReleaseJobOK
  <2>2. OnceIn(entries')
    BY <2>1 DEF Inv, OnceOK, OnceIn
  <2> QED BY <1>1, <1>2, <2>1, <2>2 DEF Inv, ListOK
<1> QED BY <1>3, <1>4

LEMMA SaveKeepsInv ==
    ASSUME Inv, SaveEntries
    PROVE  Inv'
<1>1. job.id \in Ids /\ entries' \subseteq Entry
      /\ (\A e \in entries : e \in entries' \/ fate[e.id] = "released")
      /\ (\A e \in entries' : fate[e.id] \in InVault \cup {"released"})
      /\ OnceIn(entries')
  BY SaveFacts
<1> USE DEF SaveEntries, disk, history
<1>2. index' \in {index, Good(entries'), Absent}
  BY DEF SaveIndex
<1>3. index'.table \in {index.table, entries', {}}
  BY <1>2 DEF Good, Absent
<1>4. index' \in Index
  BY <1>1, <1>2 DEF Good, Absent, Index, Inv, VaultTypeOK
<1>5. VaultTypeOK'
  BY <1>1, <1>4 DEF Inv, VaultTypeOK
<1>6. FateOK'
  BY DEF Inv, FateOK
<1>7. ListOK'
  BY <1>1, <1>3 DEF Inv, ListOK
<1>8. LoadedOK'
  BY <1>1, <1>3 DEF Inv, LoadedOK
<1>9. OnceOK'
  BY <1>1, <1>3 DEF Inv, OnceOK, OnceIn, Vaulted
<1>10. QuarantineJobOK' /\ ReleaseJobOK'
  BY DEF QuarantineJobOK, ReleaseJobOK, NoJob
<1> QED BY <1>5, <1>6, <1>7, <1>8, <1>9, <1>10 DEF Inv

LEMMA WriteKeepsInv ==
    ASSUME Inv, NEW p \in Paths, NEW b \in Bytes, WriteFile(p, b)
    PROVE  Inv'
<1> USE DEF WriteFile, memory, history
<1>1. file' \in [Paths -> Contents \cup {NoFile}]
  BY DEF Inv, VaultTypeOK, Contents
<1>2. \/ job' = job /\ (job.at = "delete" => job.path # p)
      \/ /\ job.at = "delete" /\ job' \in Job /\ job'.rewritten
         /\ job'.at = job.at /\ job'.kind = job.kind
         /\ job'.id = job.id /\ job'.path = job.path
  BY JobFacts DEF Inv, Job
<1>3. VaultTypeOK'
  BY <1>1, <1>2 DEF Inv, VaultTypeOK
<1>4. FateOK' /\ ListOK' /\ LoadedOK' /\ OnceOK'
  BY DEF Inv, FateOK, ListOK, LoadedOK, OnceOK, OnceIn, Vaulted
<1>5. job.at = "delete" /\ job.path # p => file'[job.path] = file[job.path]
  BY JobFacts DEF Inv, VaultTypeOK
<1>6. QuarantineJobOK'
  BY <1>2, <1>5 DEF Inv, QuarantineJobOK, Vaulted
<1>7. ReleaseJobOK'
  BY <1>2 DEF Inv, ReleaseJobOK
<1> QED BY <1>3, <1>4, <1>6, <1>7 DEF Inv

LEMMA RemoveKeepsInv ==
    ASSUME Inv, NEW p \in Paths, RemoveFile(p)
    PROVE  Inv'
<1> USE DEF RemoveFile, memory, history
<1>1. VaultTypeOK'
  BY DEF Inv, VaultTypeOK
<1>2. FateOK' /\ ListOK' /\ LoadedOK' /\ OnceOK'
  BY DEF Inv, FateOK, ListOK, LoadedOK, OnceOK, OnceIn, Vaulted
<1>3. job.at # "idle" => file'[job.path] \in {file[job.path], NoFile}
  BY JobFacts DEF Inv, VaultTypeOK
<1>4. QuarantineJobOK' /\ ReleaseJobOK'
  BY <1>3 DEF Inv, QuarantineJobOK, ReleaseJobOK, Vaulted
<1> QED BY <1>1, <1>2, <1>4 DEF Inv

LEMMA CrashKeepsInv ==
    ASSUME Inv, VaultCrash
    PROVE  Inv'
<1> USE DEF VaultCrash
<1>1. job = NoJob \/ (job \in Job /\ job.id \in Ids /\ job.path \in Paths)
  BY JobFacts DEF Inv
<1>2. Garbled \in Contents
  BY DEF Contents
<1>3. index' \in {index, Damaged} /\ index'.table \subseteq index.table
  BY DEF Damaged
<1>4. file' \in [Paths -> Contents \cup {NoFile}] /\ aside' \in [Paths -> Contents \cup {NoFile}]
      /\ vault' \in [Ids -> Contents \cup {NoFile}]
  BY <1>1, <1>2 DEF Inv, VaultTypeOK, WriteTarget, NoJob
<1>5. /\ fate' \in [Ids -> Fates]
      /\ \A i \in Ids : fate'[i] = fate[i] \/ (fate[i] = "working" /\ fate'[i] = "failed")
  BY <1>1 DEF Inv, VaultTypeOK, Fates, NoJob
<1>6. \A i \in Ids : vault'[i] = vault[i] \/ fate[i] = "working"
  BY <1>1 DEF Inv, VaultTypeOK, QuarantineJobOK, NoJob
<1>7. VaultTypeOK'
  <2>1. index' \in Index
    BY <1>3 DEF Inv, VaultTypeOK, Index, Damaged
  <2> QED BY <1>4, <1>5, <2>1 DEF Inv, VaultTypeOK
<1>8. FateOK'
  BY <1>5, <1>6 DEF Inv, FateOK, InVault
<1>9. \A e \in index'.table : e.id \in Ids /\ e \in index.table
  BY <1>3 DEF Inv, VaultTypeOK, Index, Entry
<1>10. ListOK'
  BY <1>5, <1>9 DEF Inv, ListOK, InVault
<1>11. \A e \in index'.table : vault'[e.id] = vault[e.id]
  BY <1>6, <1>9 DEF Inv, ListOK, InVault
<1>12. LoadedOK' /\ OnceOK'
  BY <1>9, <1>11 DEF Inv, LoadedOK, OnceOK, OnceIn, Vaulted
<1>13. QuarantineJobOK' /\ ReleaseJobOK'
  BY DEF QuarantineJobOK, ReleaseJobOK, NoJob
<1> QED BY <1>7, <1>8, <1>10, <1>12, <1>13 DEF Inv

LEMMA RebootKeepsInv ==
    ASSUME Inv, Reboot
    PROVE  Inv'
<1> USE DEF Reboot, history
<1>1. VaultTypeOK'
  BY DEF Inv, VaultTypeOK, NoJob
<1>2. FateOK' /\ ListOK' /\ LoadedOK' /\ OnceOK'
  BY DEF Inv, FateOK, ListOK, LoadedOK, OnceOK, OnceIn, Vaulted
<1>3. QuarantineJobOK' /\ ReleaseJobOK'
  BY DEF QuarantineJobOK, ReleaseJobOK, NoJob
<1> QED BY <1>1, <1>2, <1>3 DEF Inv

LEMMA StepKeepsInv == Inv /\ [VaultNext]_vaultVars => Inv'
<1> SUFFICES ASSUME Inv, [VaultNext]_vaultVars PROVE Inv'
  OBVIOUS
<1>1. CASE UNCHANGED vaultVars
  BY <1>1 DEF vaultVars, Inv, VaultTypeOK, FateOK, ListOK, LoadedOK, OnceOK, OnceIn, Vaulted,
              QuarantineJobOK, ReleaseJobOK
<1>2. CASE \E opens \in BOOLEAN : Look(opens)
  BY <1>2, LookKeepsInv
<1>3. CASE \E opens \in BOOLEAN : \E p \in Paths : QuarantineAgain(p, opens)
  BY <1>3, AgainKeepsInv
<1>4. CASE \E opens \in BOOLEAN : \E p \in Paths : \E i \in Ids : QuarantineBegins(p, i, opens)
  BY <1>4, BeginsKeepsInv
<1>5. CASE \E opens \in BOOLEAN : \E e \in Entry : RestoreBegins(e, opens)
  BY <1>5, RestoreBeginsKeepsInv
<1>6. CASE \E opens \in BOOLEAN : \E e \in Entry : PurgeBegins(e, opens)
  BY <1>6, PurgeBeginsKeepsInv
<1>7. CASE \E p \in Paths : RemoveFile(p)
  BY <1>7, RemoveKeepsInv
<1>8. CASE \E p \in Paths : \E b \in Bytes : WriteFile(p, b)
  BY <1>8, WriteKeepsInv
<1>9. CASE MakeVaultCopy \/ DeleteOriginal \/ RestoreCopy \/ Forget \/ SaveEntries \/ VaultCrash \/ Reboot
  BY <1>9, CopyKeepsInv, DeleteKeepsInv, RestoreCopyKeepsInv, ForgetKeepsInv, SaveKeepsInv,
     CrashKeepsInv, RebootKeepsInv
<1> QED BY <1>1, <1>2, <1>3, <1>4, <1>5, <1>6, <1>7, <1>8, <1>9 DEF VaultNext

\* The invariant holds whatever the service, the machine and others do.
LEMMA InvAlways == VaultSpec => []Inv
BY InvHoldsInit, StepKeepsInv, PTL DEF VaultSpec

-----------------------------------------------------------------------------
(* The theorems.                                                            *)

\* Type correctness of the vault, its index and the running operation.
THEOREM VaultTypes == VaultSpec => []VaultTypeOK
BY InvAlways, PTL DEF Inv

\* Whatever is listed can be given back, whole, until it is released.
THEOREM TheListedCanBeRestored == VaultSpec => []ListedIsRestorable
<1>1. Inv => ListedIsRestorable
  <2> SUFFICES ASSUME Inv, NEW e \in entries \cup index.table, fate[e.id] # "released"
               PROVE  vault[e.id] = copied[e.id] /\ Vaulted(e)
    BY DEF ListedIsRestorable
  <2>1. e.id \in Ids
    BY DEF Inv, VaultTypeOK, Index, Entry
  <2>2. fate[e.id] \in InVault
    BY DEF Inv, ListOK
  <2> QED BY <2>1, <2>2 DEF Inv, FateOK, Vaulted
<1> QED BY <1>1, InvAlways, PTL

\* What the quarantine deleted is in the vault as it was.
THEOREM TheDeletedIsVaulted == VaultSpec => []DeletedIsVaulted
<1>1. Inv => DeletedIsVaulted
  BY DEF Inv, FateOK, InVault, DeletedIsVaulted
<1> QED BY <1>1, InvAlways, PTL

\* No path has two listed copies.
THEOREM APathHasOneCopy == VaultSpec => []OneCopyPerPath
<1>1. Inv => OneCopyPerPath
  BY DEF Inv, OnceOK, OnceIn, OneCopyPerPath
<1> QED BY <1>1, InvAlways, PTL

\* A saved index lacks no entry but the released ones.
THEOREM TheIndexIsNotOverwritten == VaultSpec => NeverOverwritten
<1>1. Inv /\ [VaultNext]_vaultVars =>
        [index'.state = "good"
           => \A e \in index.table : e \in index'.table \/ fate'[e.id] = "released"]_vaultVars
  <2> SUFFICES ASSUME Inv, VaultNext, index'.state = "good", NEW e \in index.table
               PROVE  e \in index'.table \/ fate'[e.id] = "released"
    OBVIOUS
  <2>1. CASE index' = index
    BY <2>1
  <2>2. CASE SaveEntries
    <3>1. fate' = fate /\ (\A d \in entries : d \in entries' \/ fate[d.id] = "released")
      BY <2>2, SaveFacts DEF SaveEntries, history
    <3>2. (index' = Good(entries') /\ loaded) \/ index' = index
      BY <2>2 DEF SaveEntries, SaveIndex, Absent
    <3> QED BY <3>1, <3>2 DEF Good, Inv, LoadedOK
  <2>3. CASE VaultCrash
    BY <2>3 DEF VaultCrash, Damaged
  <2> QED
    BY <2>1, <2>2, <2>3 DEF VaultNext, Look, QuarantineAgain, QuarantineBegins, MakeVaultCopy,
       DeleteOriginal, RestoreBegins, RestoreCopy, PurgeBegins, Forget, WriteFile,
       RemoveFile, Reboot
<1> QED BY <1>1, InvAlways, PTL DEF VaultSpec, NeverOverwritten
=============================================================================
