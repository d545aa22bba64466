----------------------- MODULE ProtectionLifetimeProofs -----------------------
(***************************************************************************)
(* Proofs about ProtectionLifetime, for any number of UIs, any files and   *)
(* any settings.  A handler of the main thread is a sequence of steps, so  *)
(* what holds between handlers is proved from what holds in front of every *)
(* step of every handler.                                                  *)
(***************************************************************************)
EXTENDS ProtectionLifetime, FiniteSetTheorems, TLAPS

(* What is left of a handler, by its next step.                            *)
FromDetach   == <<"detach", "unload", "release">>
FromUnload   == <<"unload", "release">>
FromRelease  == <<"release">>
FromStart    == <<"start", "attach", "worker on", "reconcile", "resend">>
FromAttach   == <<"attach", "worker on", "reconcile", "resend">>
FromWorkerOn == <<"worker on", "reconcile", "resend">>
Amending     == <<"reconcile", "resend">>
LastResend   == <<"resend">>
NewSettings  == <<"kernel setting", "align">>
LastAlign    == <<"align">>
LastRemedy   == <<"remediate">>
IntoStandby  == <<"detach", "unload", "release", "kernel wanted",
                  "reconcile", "resend", "sweep", "align">>
BootUnload   == <<"unload", "release", "kernel wanted",
                  "reconcile", "resend", "sweep", "align">>
BootRelease  == <<"release", "kernel wanted", "reconcile", "resend", "sweep", "align">>
BootWanted   == <<"kernel wanted", "reconcile", "resend", "sweep", "align">>
BootAmend    == <<"reconcile", "resend", "sweep", "align">>
BootResend   == <<"resend", "sweep", "align">>
BootSweep    == <<"sweep", "align">>
BootStart    == <<"start", "kernel at start", "reconcile", "resend", "sweep", "align">>
BootKernel   == <<"kernel at start", "reconcile", "resend", "sweep", "align">>

(* The steps of a reconciliation.                                          *)
Amends == (\E trusted \in SUBSET Needle : Reconcile(trusted)) \/ Resend

(* The two states a switch leads to, and what is recorded in each of them  *)
(* of the user's choice of the driver.                                     *)
Protects  == ~suspended /\ started /\ ~lockSuspended /\ ~workerOff
StandsOff == suspended /\ ~started /\ lockSuspended /\ ~kernelEnabled
KeptOn    == EventSourceIsDriver \/ (kernelEnabled <=> kernelSetting)
KeptAside == EventSourceIsDriver \/ (wantOnResume <=> kernelSetting)
Rests     == (Protects /\ KeptOn) \/ (StandsOff /\ KeptAside)

Decided == posts = <<>> /\ ~grace => (suspended <=> ~ProtectionWanted)

(* Standing by: the port closes before the sources stop.                   *)
GoesDown ==
    \/ todo = GoToStandby /\ ~ProtectionWanted /\ Protects /\ KeptOn
    \/ /\ todo = FromDetach /\ ~ProtectionWanted
       /\ ~suspended /\ started /\ ~lockSuspended /\ KeptOn
    \/ /\ todo \in {FromUnload, FromRelease} /\ ~ProtectionWanted
       /\ suspended /\ started /\ ~lockSuspended /\ ~kernelEnabled /\ KeptAside

(* Waking up: the driver comes last.                                       *)
ComesUp ==
    \/ todo = WakeUp /\ ProtectionWanted /\ StandsOff /\ KeptAside
    \/ /\ todo = FromStart /\ ProtectionWanted
       /\ ~suspended /\ ~started /\ ~lockSuspended /\ ~kernelEnabled /\ KeptAside
    \/ /\ todo = FromAttach /\ ProtectionWanted
       /\ ~suspended /\ started /\ ~lockSuspended /\ ~kernelEnabled /\ KeptAside
    \/ /\ todo = FromWorkerOn /\ ProtectionWanted
       /\ ~suspended /\ started /\ ~lockSuspended /\ KeptOn

(* Start-up, into standby or not.                                          *)
StartsUp ==
    \/ /\ todo \in {IntoStandby, BootStart}
       /\ ~suspended /\ ~started /\ ~lockSuspended /\ ~kernelEnabled /\ ~workerOff
    \/ /\ todo \in {BootUnload, BootRelease}
       /\ suspended /\ ~started /\ ~lockSuspended /\ ~kernelEnabled
    \/ todo = BootWanted /\ StandsOff
    \/ todo = BootKernel /\ Protects /\ ~kernelEnabled
    \/ todo \in {BootAmend, BootResend, BootSweep} /\ Rests

InHandler ==
    \/ todo \in {<<>>, LastRemedy, Amending, LastResend} /\ Rests /\ Decided
    \/ todo = LastAlign /\ Rests
    \/ todo = NewSettings /\ (Protects \/ StandsOff)
    \/ GoesDown \/ ComesUp \/ StartsUp

SwitchInv ==
    /\ TypeOK
    /\ ~kernelEnabled => link = "none"
    /\ IF up THEN InHandler
       ELSE /\ todo = <<>> /\ ~suspended /\ ~started /\ ~lockSuspended
            /\ ~kernelEnabled /\ ~workerOff

(* The list of the locks and its record.                                   *)
ListInv ==
    /\ manifest.module = {}
    /\ IsFiniteSet(execList) /\ Cardinality(execList) <= MaxEntries
    /\ IsFiniteSet(manifest.exec) /\ Cardinality(manifest.exec) <= MaxEntries
    /\ apart \/ execList = manifest.exec \/ (execList = {} /\ ~started)

(* What is cleared is waiting to be sent again in the step for it.         *)
KeepInv == keep # {} => todo # <<>> /\ Head(todo) = "resend"

---------------------------------------------------------------------------
(* Sequences of steps.                                                     *)

LEMMA NoneLeft ==
    /\ GoToStandby # <<>> /\ FromDetach # <<>> /\ FromUnload # <<>> /\ FromRelease # <<>>
    /\ WakeUp # <<>> /\ FromStart # <<>> /\ FromAttach # <<>> /\ FromWorkerOn # <<>>
    /\ Amending # <<>> /\ LastResend # <<>>
    /\ NewSettings # <<>> /\ LastAlign # <<>> /\ LastRemedy # <<>>
    /\ IntoStandby # <<>> /\ BootUnload # <<>> /\ BootRelease # <<>> /\ BootWanted # <<>>
    /\ BootAmend # <<>> /\ BootResend # <<>> /\ BootSweep # <<>>
    /\ BootStart # <<>> /\ BootKernel # <<>>
BY DEF GoToStandby, FromDetach, FromUnload, FromRelease, WakeUp, FromStart, FromAttach,
   FromWorkerOn, Amending, LastResend, NewSettings, LastAlign, LastRemedy, IntoStandby,
   BootUnload, BootRelease, BootWanted, BootAmend, BootResend, BootSweep, BootStart,
   BootKernel

LEMMA SameSteps ==
  ASSUME NEW S, NEW s \in Seq(S), NEW t \in Seq(S), Len(s) = Len(t),
         \A i \in 1..Len(s) : s[i] = t[i]
  PROVE  s = t
OBVIOUS

LEMMA Tail1 ==
  ASSUME NEW a
  PROVE  Tail(<<a>>) = <<>>
<1> DEFINE s == <<a>>
<1> DEFINE t == <<>>
<1>1. /\ s \in Seq({a}) /\ t \in Seq({a})
      /\ Tail(s) \in Seq({a})
  OBVIOUS
<1>2. /\ Len(Tail(s)) = Len(t)
      /\ \A i \in 1..Len(Tail(s)) : Tail(s)[i] = t[i]
  OBVIOUS
<1> HIDE DEF s, t
<1>3. Tail(s) = t
  BY <1>1, <1>2, SameSteps
<1> USE DEF s, t
<1>4. QED
  BY <1>3

LEMMA Tail2 ==
  ASSUME NEW a, NEW b
  PROVE  Tail(<<a, b>>) = <<b>>
<1> DEFINE s == <<a, b>>
<1> DEFINE t == <<b>>
<1>1. /\ s \in Seq({a, b}) /\ t \in Seq({a, b})
      /\ Tail(s) \in Seq({a, b})
  OBVIOUS
<1>2. /\ Len(Tail(s)) = Len(t)
      /\ \A i \in 1..Len(Tail(s)) : Tail(s)[i] = t[i]
  OBVIOUS
<1> HIDE DEF s, t
<1>3. Tail(s) = t
  BY <1>1, <1>2, SameSteps
<1> USE DEF s, t
<1>4. QED
  BY <1>3

LEMMA Tail3 ==
  ASSUME NEW a, NEW b, NEW c
  PROVE  Tail(<<a, b, c>>) = <<b, c>>
<1> DEFINE s == <<a, b, c>>
<1> DEFINE t == <<b, c>>
<1>1. /\ s \in Seq({a, b, c}) /\ t \in Seq({a, b, c})
      /\ Tail(s) \in Seq({a, b, c})
  OBVIOUS
<1>2. /\ Len(Tail(s)) = Len(t)
      /\ \A i \in 1..Len(Tail(s)) : Tail(s)[i] = t[i]
  OBVIOUS
<1> HIDE DEF s, t
<1>3. Tail(s) = t
  BY <1>1, <1>2, SameSteps
<1> USE DEF s, t
<1>4. QED
  BY <1>3

LEMMA Tail4 ==
  ASSUME NEW a, NEW b, NEW c, NEW d
  PROVE  Tail(<<a, b, c, d>>) = <<b, c, d>>
<1> DEFINE s == <<a, b, c, d>>
<1> DEFINE t == <<b, c, d>>
<1>1. /\ s \in Seq({a, b, c, d}) /\ t \in Seq({a, b, c, d})
      /\ Tail(s) \in Seq({a, b, c, d})
  OBVIOUS
<1>2. /\ Len(Tail(s)) = Len(t)
      /\ \A i \in 1..Len(Tail(s)) : Tail(s)[i] = t[i]
  OBVIOUS
<1> HIDE DEF s, t
<1>3. Tail(s) = t
  BY <1>1, <1>2, SameSteps
<1> USE DEF s, t
<1>4. QED
  BY <1>3

LEMMA NextSteps ==
    /\ Head(GoToStandby) = "worker off" /\ Tail(GoToStandby) = FromDetach
    /\ Head(FromDetach) = "detach" /\ Tail(FromDetach) = FromUnload
    /\ Head(FromUnload) = "unload" /\ Tail(FromUnload) = FromRelease
    /\ Head(FromRelease) = "release" /\ Tail(FromRelease) = <<>>
    /\ Head(WakeUp) = "rearm" /\ Tail(WakeUp) = FromStart
    /\ Head(FromStart) = "start" /\ Tail(FromStart) = FromAttach
    /\ Head(FromAttach) = "attach" /\ Tail(FromAttach) = FromWorkerOn
    /\ Head(FromWorkerOn) = "worker on" /\ Tail(FromWorkerOn) = Amending
    /\ Head(Amending) = "reconcile" /\ Tail(Amending) = LastResend
    /\ Head(LastResend) = "resend" /\ Tail(LastResend) = <<>>
    /\ Head(NewSettings) = "kernel setting" /\ Tail(NewSettings) = LastAlign
    /\ Head(LastAlign) = "align" /\ Tail(LastAlign) = <<>>
    /\ Head(LastRemedy) = "remediate" /\ Tail(LastRemedy) = <<>>
    /\ Head(IntoStandby) = "detach" /\ Tail(IntoStandby) = BootUnload
    /\ Head(BootUnload) = "unload" /\ Tail(BootUnload) = BootRelease
    /\ Head(BootRelease) = "release" /\ Tail(BootRelease) = BootWanted
    /\ Head(BootWanted) = "kernel wanted" /\ Tail(BootWanted) = BootAmend
    /\ Head(BootAmend) = "reconcile" /\ Tail(BootAmend) = BootResend
    /\ Head(BootResend) = "resend" /\ Tail(BootResend) = BootSweep
    /\ Head(BootSweep) = "sweep" /\ Tail(BootSweep) = LastAlign
    /\ Head(BootStart) = "start" /\ Tail(BootStart) = BootKernel
    /\ Head(BootKernel) = "kernel at start" /\ Tail(BootKernel) = BootAmend
<1>1. /\ Head(GoToStandby) = "worker off" /\ Head(FromDetach) = "detach"
      /\ Head(FromUnload) = "unload" /\ Head(FromRelease) = "release"
      /\ Head(WakeUp) = "rearm" /\ Head(FromStart) = "start"
      /\ Head(FromAttach) = "attach" /\ Head(FromWorkerOn) = "worker on"
      /\ Head(Amending) = "reconcile" /\ Head(LastResend) = "resend"
      /\ Head(NewSettings) = "kernel setting" /\ Head(LastAlign) = "align"
      /\ Head(LastRemedy) = "remediate" /\ Head(IntoStandby) = "detach"
      /\ Head(BootUnload) = "unload" /\ Head(BootRelease) = "release"
      /\ Head(BootWanted) = "kernel wanted" /\ Head(BootAmend) = "reconcile"
      /\ Head(BootResend) = "resend" /\ Head(BootSweep) = "sweep"
      /\ Head(BootStart) = "start" /\ Head(BootKernel) = "kernel at start"
  BY DEF GoToStandby, FromDetach, FromUnload, FromRelease, WakeUp, FromStart,
     FromAttach, FromWorkerOn, Amending, LastResend, NewSettings, LastAlign, LastRemedy,
     IntoStandby, BootUnload, BootRelease, BootWanted, BootAmend, BootResend, BootSweep,
     BootStart, BootKernel
<1>2. Tail(IntoStandby) = BootUnload
  <2> DEFINE names == {"detach", "unload", "release", "kernel wanted",
                        "reconcile", "resend", "sweep", "align"}
  <2>1. /\ BootUnload \in Seq(names) /\ Tail(IntoStandby) \in Seq(names)
        /\ Len(Tail(IntoStandby)) = Len(BootUnload)
        /\ \A i \in 1..Len(Tail(IntoStandby)) : Tail(IntoStandby)[i] = BootUnload[i]
    BY DEF IntoStandby, BootUnload
  <2>2. QED
    BY <2>1, SameSteps
<1>3. Tail(BootUnload) = BootRelease
  <2> DEFINE names == {"unload", "release", "kernel wanted",
                        "reconcile", "resend", "sweep", "align"}
  <2>1. /\ BootRelease \in Seq(names) /\ Tail(BootUnload) \in Seq(names)
        /\ Len(Tail(BootUnload)) = Len(BootRelease)
        /\ \A i \in 1..Len(Tail(BootUnload)) : Tail(BootUnload)[i] = BootRelease[i]
    BY DEF BootUnload, BootRelease
  <2>2. QED
    BY <2>1, SameSteps
<1>4. Tail(BootRelease) = BootWanted
  <2> DEFINE names == {"release", "kernel wanted", "reconcile",
                        "resend", "sweep", "align"}
  <2>1. /\ BootWanted \in Seq(names) /\ Tail(BootRelease) \in Seq(names)
        /\ Len(Tail(BootRelease)) = Len(BootWanted)
        /\ \A i \in 1..Len(Tail(BootRelease)) : Tail(BootRelease)[i] = BootWanted[i]
    BY DEF BootRelease, BootWanted
  <2>2. QED
    BY <2>1, SameSteps
<1>5. Tail(BootWanted) = BootAmend
  <2> DEFINE names == {"kernel wanted", "reconcile", "resend", "sweep", "align"}
  <2>1. /\ BootAmend \in Seq(names) /\ Tail(BootWanted) \in Seq(names)
        /\ Len(Tail(BootWanted)) = Len(BootAmend)
        /\ \A i \in 1..Len(Tail(BootWanted)) : Tail(BootWanted)[i] = BootAmend[i]
    BY DEF BootWanted, BootAmend
  <2>2. QED
    BY <2>1, SameSteps
<1>6. Tail(BootStart) = BootKernel
  <2> DEFINE names == {"start", "kernel at start", "reconcile",
                        "resend", "sweep", "align"}
  <2>1. /\ BootKernel \in Seq(names) /\ Tail(BootStart) \in Seq(names)
        /\ Len(Tail(BootStart)) = Len(BootKernel)
        /\ \A i \in 1..Len(Tail(BootStart)) : Tail(BootStart)[i] = BootKernel[i]
    BY DEF BootStart, BootKernel
  <2>2. QED
    BY <2>1, SameSteps
<1>7. Tail(BootKernel) = BootAmend
  <2> DEFINE names == {"kernel at start", "reconcile", "resend", "sweep", "align"}
  <2>1. /\ BootAmend \in Seq(names) /\ Tail(BootKernel) \in Seq(names)
        /\ Len(Tail(BootKernel)) = Len(BootAmend)
        /\ \A i \in 1..Len(Tail(BootKernel)) : Tail(BootKernel)[i] = BootAmend[i]
    BY DEF BootKernel, BootAmend
  <2>2. QED
    BY <2>1, SameSteps
<1>8. Tail(WakeUp) = FromStart
  <2> DEFINE names == {"rearm", "start", "attach", "worker on", "reconcile", "resend"}
  <2>1. /\ FromStart \in Seq(names) /\ Tail(WakeUp) \in Seq(names)
        /\ Len(Tail(WakeUp)) = Len(FromStart)
        /\ \A i \in 1..Len(Tail(WakeUp)) : Tail(WakeUp)[i] = FromStart[i]
    BY DEF WakeUp, FromStart
  <2>2. QED
    BY <2>1, SameSteps
<1>9. Tail(FromStart) = FromAttach
  <2> DEFINE names == {"start", "attach", "worker on", "reconcile", "resend"}
  <2>1. /\ FromAttach \in Seq(names) /\ Tail(FromStart) \in Seq(names)
        /\ Len(Tail(FromStart)) = Len(FromAttach)
        /\ \A i \in 1..Len(Tail(FromStart)) : Tail(FromStart)[i] = FromAttach[i]
    BY DEF FromStart, FromAttach
  <2>2. QED
    BY <2>1, SameSteps
<1>10. /\ Tail(GoToStandby) = FromDetach /\ Tail(FromAttach) = FromWorkerOn
       /\ Tail(BootAmend) = BootResend
  <2>1. Tail(GoToStandby) = FromDetach
    BY Tail4, Zenon DEF GoToStandby, FromDetach
  <2>2. Tail(FromAttach) = FromWorkerOn
    BY Tail4, Zenon DEF FromAttach, FromWorkerOn
  <2>3. Tail(BootAmend) = BootResend
    BY Tail4, Zenon DEF BootAmend, BootResend
  <2>4. QED BY <2>1, <2>2, <2>3
<1>11. /\ Tail(FromDetach) = FromUnload /\ Tail(FromWorkerOn) = Amending
       /\ Tail(BootResend) = BootSweep
  <2>1. Tail(FromDetach) = FromUnload
    BY Tail3, Zenon DEF FromDetach, FromUnload
  <2>2. Tail(FromWorkerOn) = Amending
    BY Tail3, Zenon DEF FromWorkerOn, Amending
  <2>3. Tail(BootResend) = BootSweep
    BY Tail3, Zenon DEF BootResend, BootSweep
  <2>4. QED BY <2>1, <2>2, <2>3
<1>12. /\ Tail(FromUnload) = FromRelease /\ Tail(Amending) = LastResend
       /\ Tail(NewSettings) = LastAlign /\ Tail(BootSweep) = LastAlign
  BY Tail2 DEF FromUnload, FromRelease, Amending, LastResend, NewSettings, LastAlign,
     BootSweep
<1>13. /\ Tail(FromRelease) = <<>> /\ Tail(LastResend) = <<>>
       /\ Tail(LastAlign) = <<>> /\ Tail(LastRemedy) = <<>>
  BY Tail1 DEF FromRelease, LastResend, LastAlign, LastRemedy
<1>14. QED
  BY <1>1, <1>2, <1>3, <1>4, <1>5, <1>6, <1>7, <1>8, <1>9, <1>10, <1>11, <1>12, <1>13

---------------------------------------------------------------------------
(* Types, one group of variables at a time.                                *)

Names == {"worker off", "worker on", "detach", "unload", "release", "rearm",
          "start", "attach", "kernel at start", "kernel setting",
          "kernel wanted", "sweep", "align", "remediate", "reconcile", "resend"}

MainType   == up \in BOOLEAN /\ followsUi \in BOOLEAN /\ kernelSetting \in BOOLEAN
TodoType   == todo \in Seq(Names)
UiType     == /\ clients \in 0..MaxClients /\ grace \in BOOLEAN
              /\ posts \in Seq(BOOLEAN) /\ Len(posts) <= MaxPosts
SwitchType == /\ suspended \in BOOLEAN /\ started \in BOOLEAN /\ workerOff \in BOOLEAN
              /\ kernelEnabled \in BOOLEAN /\ wantOnResume \in BOOLEAN
KernelType == driver \in {"unloaded", "loaded"} /\ link \in {"none", "live", "lost"}
ScanType   == sweep \in {"off", "idle", "scanning"} /\ hits \subseteq Needle
AmendType  == opened \in BOOLEAN /\ keep \subseteq Needle /\ apart \in BOOLEAN
LockType   == /\ execList \subseteq Needle
              /\ handles \in [Needle -> SUBSET File] /\ leaked \subseteq File
              /\ lockSuspended \in BOOLEAN
              /\ manifest \in [exec : SUBSET Needle, module : SUBSET Needle]
              /\ present \subseteq File

LEMMA TypeParts ==
  /\ TypeOK => /\ MainType /\ TodoType /\ UiType /\ SwitchType
               /\ KernelType /\ ScanType /\ AmendType /\ LockType
  /\ /\ MainType /\ TodoType /\ UiType /\ SwitchType
     /\ KernelType /\ ScanType /\ AmendType /\ LockType
     => TypeOK
<1>1. LockType <=> EB!TypeOK
  BY DEF LockType, EB!TypeOK
<1>2. QED
  BY <1>1, Zenon DEF TypeOK, MainType, TodoType, UiType, SwitchType, KernelType, ScanType,
     AmendType, Names

LEMMA StepsAreNamed ==
  /\ <<>> \in Seq(Names) /\ GoToStandby \in Seq(Names) /\ WakeUp \in Seq(Names)
  /\ NewSettings \in Seq(Names) /\ LastRemedy \in Seq(Names) /\ Amending \in Seq(Names)
  /\ IntoStandby \in Seq(Names) /\ BootStart \in Seq(Names)
BY DEF Names, GoToStandby, WakeUp, NewSettings, LastRemedy, Amending, IntoStandby, BootStart

(* What arming, closing and replaying do to the handles and the record.    *)

LEMMA ArmTypes ==
  ASSUME NEW S, NEW h \in [Needle -> SUBSET File], NEW held, LockType,
         NEW r \in EB!ArmResults(S, h, held)
  PROVE  r \in [Needle -> SUBSET File]
<1>1. PICK order :
        r = [n \in Needle |->
               IF n \in S
               THEN {f \in Targets[n] \intersect EB!Free(held) :
                       \A m \in S : f \in Targets[m] => order[n] <= order[m]}
               ELSE h[n]]
  BY DEF EB!ArmResults
<1>2. \A n \in Needle : Targets[n] \subseteq File
  BY LifetimeAssumption
<1>3. QED
  BY <1>1, <1>2

LEMMA SuspendFacts ==
  ASSUME EB!Suspend
  PROVE  /\ lockSuspended' = TRUE /\ handles' = EB!NoHandles
         /\ UNCHANGED <<execList, leaked, manifest, present>>
BY DEF EB!Suspend, EB!table, EB!world

LEMMA ResumeFacts ==
  ASSUME EB!Resume
  PROVE  /\ lockSuspended' = FALSE
         /\ handles' \in EB!ArmResults(EB!Pending, handles, EB!Held)
         /\ UNCHANGED <<execList, leaked, manifest, present>>
BY DEF EB!Resume, EB!table, EB!world

LEMMA RearmFacts ==
  ASSUME EB!Rearm
  PROVE  /\ handles' \in EB!ArmResults(EB!Pending, handles, EB!Held)
         /\ UNCHANGED <<execList, leaked, lockSuspended, manifest, present>>
BY DEF EB!Rearm, EB!table, EB!world

LEMMA AddFacts ==
  ASSUME NEW n, EB!AddEntry(n, TRUE)
  PROVE  /\ EB!HasRoomFor(n) /\ execList' = execList \union {n}
         /\ \/ handles' = handles
            \/ handles' \in EB!ArmResults({n}, handles, EB!Held)
         /\ EB!Save(execList', {})
         /\ UNCHANGED <<leaked, lockSuspended, present>>
BY DEF EB!AddEntry, EB!world

LEMMA RefuseFacts ==
  ASSUME NEW n, EB!RefuseEntry(n)
  PROVE  UNCHANGED locks
BY DEF EB!RefuseEntry, EB!vars, locks

LEMMA ClearFacts ==
  ASSUME EB!ClearList(TRUE)
  PROVE  /\ execList' = {} /\ handles' = EB!Release(handles, Needle)
         /\ EB!Save(execList', {})
         /\ UNCHANGED <<leaked, lockSuspended, present>>
BY DEF EB!ClearList, EB!world

LEMMA BlockFacts ==
  ASSUME NEW n, Block(n)
  PROVE  /\ lockSuspended' = lockSuspended
         /\ \/ UNCHANGED <<locks, apart>> /\ (link = "live" \/ ~EB!HasRoomFor(n))
            \/ EB!AddEntry(n, TRUE) /\ apart' = ~Written
<1>1. CASE UNCHANGED <<locks, apart>> /\ link = "live"
  BY <1>1, Zenon DEF locks
<1>2. CASE EB!AddEntry(n, TRUE) /\ apart' = ~Written
  BY <1>2, AddFacts, Zenon
<1>3. CASE EB!RefuseEntry(n) /\ UNCHANGED apart
  <2>1. UNCHANGED <<locks, apart>> /\ ~EB!HasRoomFor(n)
    BY <1>3, RefuseFacts DEF EB!RefuseEntry
  <2>2. QED
    BY <2>1, Zenon DEF locks
<1>4. QED
  BY <1>1, <1>2, <1>3, Zenon DEF Block

(* A reconciliation leaves the switch alone, and its steps are two.        *)
LEMMA AmendFacts ==
  ASSUME Amends
  PROVE  /\ up /\ todo # <<>> /\ Head(todo) \in {"reconcile", "resend"}
         /\ UNCHANGED todo \/ todo' = Tail(todo)
         /\ UNCHANGED <<up, settings, ui, switch, kernel, scan, lockSuspended>>
<1>1. ASSUME NEW trusted, Reconcile(trusted)
      PROVE  /\ Step("reconcile") /\ todo' = Tail(todo)
             /\ UNCHANGED <<up, settings, ui, switch, kernel, scan, lockSuspended>>
  <2>1. UNCHANGED locks \/ EB!ClearList(TRUE)
    BY <1>1, Zenon DEF Reconcile, amends
  <2>2. lockSuspended' = lockSuspended
    BY <2>1, ClearFacts, Zenon DEF locks
  <2>3. QED
    BY <1>1, <2>2, Zenon DEF Reconcile
<1>2. ASSUME Resend
      PROVE  /\ Step("resend") /\ (UNCHANGED todo \/ todo' = Tail(todo))
             /\ UNCHANGED <<up, settings, ui, switch, kernel, scan, lockSuspended>>
  BY <1>2, BlockFacts, Zenon DEF Resend, locks
<1>3. QED
  BY <1>1, <1>2, Zenon DEF Amends, Step

LEMMA AppearFacts ==
  ASSUME NEW f, EB!FileAppears(f)
  PROVE  /\ present' = present \union {f}
         /\ UNCHANGED <<execList, handles, leaked, lockSuspended, manifest>>
BY DEF EB!FileAppears, EB!table

LEMMA ReplayFacts ==
  ASSUME EB!ReplayFrom(handles)
  PROVE  \E A \in EB!ReplayChoices :
            /\ execList' = (execList \ A) \union (manifest.exec \intersect A)
            /\ leaked' = leaked \union UNION {handles[n] : n \in A}
            /\ handles' \in EB!ArmResults(A, handles, leaked \union EB!OpenFiles(handles))
BY DEF EB!ReplayFrom

LEMMA TailTypes ==
  ASSUME NEW S, NEW s \in Seq(S), s # <<>>
  PROVE  Tail(s) \in Seq(S) /\ Len(Tail(s)) = Len(s) - 1
OBVIOUS

LEMMA DecideTypes ==
  ASSUME NEW immediate \in BOOLEAN, NEW rest \in Seq(Names), NEW timer \in BOOLEAN,
         SwitchType, Decide(immediate, rest, timer)
  PROVE  todo' \in Seq(Names) /\ grace' \in BOOLEAN
<1>1. grace' \in BOOLEAN
  BY Zenon DEF Decide
<1>2. PICK first \in {<<>>, WakeUp, GoToStandby} : todo' = first \o rest
  BY Zenon DEF Decide
<1>3. first \in Seq(Names)
  BY StepsAreNamed
<1>4. QED
  BY <1>1, <1>2, <1>3

LEMMA BlockTypes ==
  ASSUME NEW n \in Needle, LockType, Block(n)
  PROVE  LockType'
<1>1. handles \in [Needle -> SUBSET File]
  BY DEF LockType
<1>2. CASE UNCHANGED locks
  BY <1>2 DEF locks, LockType
<1>3. CASE EB!AddEntry(n, TRUE)
  <2>1. handles' \in [Needle -> SUBSET File]
    <3>1. CASE handles' = handles
      BY <3>1, <1>1
    <3>2. CASE handles' \in EB!ArmResults({n}, handles, EB!Held)
      BY <3>2, <1>1, ArmTypes
    <3>3. QED
      BY <3>1, <3>2, <1>3, AddFacts
  <2>2. /\ execList' = execList \union {n} /\ EB!Save(execList', {})
        /\ UNCHANGED <<leaked, lockSuspended, present>>
    BY <1>3, AddFacts, Zenon
  <2>3. manifest' \in [exec : SUBSET Needle, module : SUBSET Needle]
    BY <2>2 DEF EB!Save, LockType
  <2>4. QED
    BY <2>1, <2>2, <2>3 DEF LockType
<1>4. QED
  BY <1>2, <1>3, BlockFacts, Zenon

LEMMA AmendTypes ==
  ASSUME LockType, AmendType, Amends
  PROVE  LockType' /\ AmendType'
<1>1. UNCHANGED opened
  BY AmendFacts, Zenon DEF kernel
<1>2. CASE UNCHANGED <<locks, amends>>
  BY <1>1, <1>2 DEF locks, amends, LockType, AmendType
<1>3. ASSUME NEW trusted \in SUBSET Needle, Reconcile(trusted), ~UNCHANGED <<locks, amends>>
      PROVE  LockType' /\ AmendType'
  <2>1. PICK recorded \in SUBSET (IF opened THEN Needle ELSE {}) :
          /\ EB!ClearList(TRUE) /\ apart' = ~Written
          /\ keep' = (execList \union recorded) \ trusted
    BY <1>3, Zenon DEF Reconcile
  <2>2. /\ execList' = {} /\ handles' = EB!Release(handles, Needle)
        /\ EB!Save(execList', {}) /\ UNCHANGED <<leaked, lockSuspended, present>>
    BY <2>1, ClearFacts
  <2>3. handles' \in [Needle -> SUBSET File]
    BY <2>2 DEF LockType, EB!Release
  <2>4. manifest' \in [exec : SUBSET Needle, module : SUBSET Needle]
    BY <2>2 DEF EB!Save, LockType
  <2>5. keep' \subseteq Needle /\ apart' \in BOOLEAN
    <3>1. keep' \subseteq Needle
      BY <2>1 DEF LockType
    <3>2. apart' \in BOOLEAN
      BY <2>1
    <3>3. QED
      BY <3>1, <3>2
  <2>6. LockType'
    BY <2>2, <2>3, <2>4 DEF LockType
  <2>7. QED
    BY <1>1, <2>5, <2>6 DEF AmendType
<1>4. ASSUME NEW n \in keep, Block(n), keep' = keep \ {n} PROVE LockType' /\ AmendType'
  <2>1. LockType'
    BY <1>4, BlockTypes DEF AmendType
  <2>2. apart' \in BOOLEAN
    BY <1>4, BlockFacts, Zenon DEF AmendType
  <2>3. QED
    BY <1>1, <1>4, <2>1, <2>2 DEF AmendType
<1>5. QED
  BY <1>2, <1>3, <1>4, Zenon DEF Amends, Resend

LEMMA LockTypeStep ==
  ASSUME TypeOK, [Next]_vars
  PROVE  LockType'
<1>1. LockType /\ AmendType
  BY TypeParts
<1>2. ASSUME UNCHANGED locks PROVE LockType'
  BY <1>1, <1>2 DEF locks, LockType
<1>3. ASSUME handles' \in [Needle -> SUBSET File], lockSuspended' \in BOOLEAN,
             present' \subseteq File, UNCHANGED <<execList, leaked, manifest>>
      PROVE  LockType'
  BY <1>1, <1>3 DEF LockType
<1>4. handles \in [Needle -> SUBSET File] /\ EB!NoHandles \in [Needle -> SUBSET File]
  BY <1>1 DEF LockType, EB!NoHandles
<1>5. CASE Release
  <2>1. CASE UNCHANGED locks
    BY <2>1, <1>2
  <2>2. CASE EB!Suspend
    BY <2>2, <1>1, <1>3, <1>4, SuspendFacts DEF LockType
  <2>3. QED
    BY <2>1, <2>2, <1>5 DEF Release
<1>6. CASE Rearm
  <2>1. CASE UNCHANGED locks
    BY <2>1, <1>2
  <2>2. CASE EB!Resume
    BY <2>2, <1>1, <1>3, <1>4, ResumeFacts, ArmTypes DEF LockType
  <2>3. QED
    BY <2>1, <2>2, <1>6 DEF Rearm
<1>7. CASE Start
  <2>1. CASE UNCHANGED locks
    BY <2>1, <1>2
  <2>2. CASE EB!ReplayFrom(handles) /\ UNCHANGED <<lockSuspended, manifest, present>>
    <3>1. PICK A \in EB!ReplayChoices :
            /\ execList' = (execList \ A) \union (manifest.exec \intersect A)
            /\ leaked' = leaked \union UNION {handles[n] : n \in A}
            /\ handles' \in EB!ArmResults(A, handles, leaked \union EB!OpenFiles(handles))
      BY <2>2, ReplayFacts
    <3>2. A \subseteq Needle
      BY <1>1 DEF LockType, EB!ReplayChoices, EB!Recorded
    <3>3. handles' \in [Needle -> SUBSET File]
      BY <3>1, <1>1, <1>4, ArmTypes
    <3>4. leaked' \subseteq File
      BY <3>1, <3>2, <1>1 DEF LockType
    <3>5. execList' \subseteq Needle
      BY <3>1, <1>1 DEF LockType
    <3>6. QED
      BY <3>3, <3>4, <3>5, <2>2, <1>1 DEF LockType
  <2>3. CASE EB!ReplayFails /\ UNCHANGED <<lockSuspended, manifest, present>>
    BY <2>3, <1>2 DEF EB!ReplayFails, EB!table, locks
  <2>4. QED
    BY <2>1, <2>2, <2>3, <1>7, Zenon DEF Start
<1>8. CASE Remediate
  <2>1. CASE UNCHANGED <<handles, present>>
    BY <2>1, <1>8, <1>2 DEF Remediate, locks
  <2>2. CASE \E f \in present :
               /\ handles' = EB!Release(handles, {n \in Needle : f \in handles[n]})
               /\ present' \in {present, present \ ({f} \ leaked)}
    <3>1. handles' \in [Needle -> SUBSET File]
      BY <2>2, <1>4 DEF EB!Release
    <3>2. present' \subseteq File
      BY <2>2, <1>1 DEF LockType
    <3>3. QED
      BY <3>1, <3>2, <1>8, <1>1, <1>3 DEF Remediate, LockType
  <2>3. QED
    BY <2>1, <2>2, <1>8 DEF Remediate
<1>9. ASSUME NEW n \in Needle, HandleHit(n) PROVE LockType'
  BY <1>1, <1>9, BlockTypes, Zenon DEF HandleHit
<1>10. CASE RetryLocks
  BY <1>10, <1>1, <1>3, <1>4, RearmFacts, ArmTypes DEF RetryLocks, LockType
<1>11. ASSUME NEW f \in File, FileReappears(f) PROVE LockType'
  BY <1>11, <1>1, <1>3, <1>4, AppearFacts DEF FileReappears, LockType
<1>12. CASE ProcessEnd
  BY <1>12, <1>1, <1>4 DEF ProcessEnd, LockType
<1>13. CASE \/ WorkerOff \/ WorkerOn \/ Detach \/ Unload \/ AttachOnWake
            \/ KernelSwitch \/ RecordWanted \/ StartSweep \/ Align
  BY <1>13, <1>2, Zenon DEF WorkerOff, WorkerOn, Detach, Unload, AttachOnWake, KernelSwitch,
     RecordWanted, StartSweep, Align
<1>14. CASE \/ Boot \/ Connect \/ Disconnect \/ PostedDecision \/ GraceEnds \/ Watchdog
            \/ SweepBegins \/ SweepEnds \/ DriverVanishes \/ LinkBreaks
            \/ (\E f, k \in BOOLEAN : SettingsUpdated(f, k)) \/ TrustAdded
            \/ (\E n \in Needle : SweepFinds(n)) \/ UNCHANGED vars
  BY <1>14, <1>2, Zenon DEF Boot, Connect, Disconnect, CountChanged, PostedDecision,
     GraceEnds, Watchdog, SweepBegins, SweepEnds, DriverVanishes, LinkBreaks,
     SettingsUpdated, TrustAdded, SweepFinds, vars
<1>15. CASE Amends
  BY <1>1, <1>15, AmendTypes
<1>16. QED
  BY <1>5, <1>6, <1>7, <1>8, <1>9, <1>10, <1>11, <1>12, <1>13, <1>14, <1>15, Zenon
     DEF Next, Work, Amends

LEMMA KernelTypes ==
  ASSUME SwitchType, KernelType
  PROVE  /\ Attach => KernelType'
         /\ \A on \in BOOLEAN :
              ApplyKernelEnabled(on) => KernelType' /\ kernelEnabled' \in BOOLEAN
         /\ \A on \in BOOLEAN : SetKernelEnabled(on) =>
              KernelType' /\ kernelEnabled' \in BOOLEAN /\ wantOnResume' \in BOOLEAN
<1>1. ASSUME Attach PROVE KernelType'
  BY <1>1 DEF Attach, KernelType
<1>2. ASSUME UNCHANGED kernel PROVE KernelType'
  BY <1>2 DEF kernel, KernelType
<1>3. ASSUME NEW on \in BOOLEAN, ApplyKernelEnabled(on)
      PROVE  KernelType' /\ kernelEnabled' \in BOOLEAN
  <2>1. kernelEnabled' \in BOOLEAN
    BY <1>3, Zenon DEF ApplyKernelEnabled
  <2>2. CASE UNCHANGED kernel \/ Attach
    BY <2>1, <2>2, <1>1, <1>2, Zenon
  <2>3. CASE link' = "none" /\ UNCHANGED <<driver, opened>>
    BY <2>1, <2>3 DEF KernelType
  <2>4. QED
    BY <2>2, <2>3, <1>3, Zenon DEF ApplyKernelEnabled
<1>4. ASSUME NEW on \in BOOLEAN, SetKernelEnabled(on)
      PROVE  KernelType' /\ kernelEnabled' \in BOOLEAN /\ wantOnResume' \in BOOLEAN
  BY <1>4, <1>2, <1>3, Zenon DEF SetKernelEnabled, SwitchType
<1>5. QED
  BY <1>1, <1>3, <1>4

LEMMA TodoTypeStep ==
  ASSUME TypeOK, [Next]_vars
  PROVE  TodoType'
<1>1. TodoType /\ SwitchType /\ UiType
  BY TypeParts
<1>2. ASSUME todo # <<>>, todo' = Tail(todo) PROVE TodoType'
  BY <1>1, <1>2 DEF TodoType
<1>3. CASE Work
  <2>1. CASE Align
    <3>1. Tail(todo) \in Seq(Names)
      BY <1>1, <2>1 DEF Align, Step, TodoType
    <3>2. Decide(TRUE, Tail(todo), grace) /\ grace \in BOOLEAN
      BY <1>1, <2>1, Zenon DEF Align, UiType
    <3>3. QED
      BY <3>1, <3>2, <1>1, DecideTypes, Zenon DEF TodoType
  <2>2. CASE Amends
    BY <2>2, <1>1, <1>2, AmendFacts, Zenon DEF TodoType
  <2>3. CASE ~Align /\ ~Amends
    BY <2>3, <1>2, <1>3, Zenon DEF Work, Amends, Step, WorkerOff, WorkerOn, Detach,
       Unload, Release, Rearm, Start, AttachOnWake, KernelSwitch, RecordWanted,
       StartSweep, Remediate
  <2>4. QED
    BY <2>1, <2>2, <2>3
<1>4. CASE PostedDecision
  <2>1. Head(posts) \in BOOLEAN
    BY <1>1, <1>4 DEF PostedDecision, UiType
  <2>2. Decide(Head(posts), <<>>, grace) /\ grace \in BOOLEAN
    BY <1>1, <1>4, Zenon DEF PostedDecision, UiType
  <2>3. QED
    BY <2>1, <2>2, <1>1, DecideTypes, StepsAreNamed, Zenon DEF TodoType
<1>5. CASE GraceEnds
  <2>1. Decide(TRUE, <<>>, FALSE)
    BY <1>5, Zenon DEF GraceEnds
  <2>2. QED
    BY <2>1, <1>1, DecideTypes, StepsAreNamed, Zenon DEF TodoType
<1>6. CASE Boot
  BY <1>6, StepsAreNamed, Zenon DEF Boot, IntoStandby, BootStart, TodoType
<1>7. ASSUME NEW f \in BOOLEAN, NEW k \in BOOLEAN, SettingsUpdated(f, k) PROVE TodoType'
  BY <1>7, StepsAreNamed, Zenon DEF SettingsUpdated, NewSettings, TodoType
<1>13. CASE TrustAdded
  BY <1>13, StepsAreNamed, Zenon DEF TrustAdded, Amending, TodoType
<1>8. ASSUME NEW n \in Needle, HandleHit(n) PROVE TodoType'
  BY <1>8, StepsAreNamed, Zenon DEF HandleHit, LastRemedy, TodoType
<1>9. CASE ProcessEnd
  BY <1>9, StepsAreNamed, Zenon DEF ProcessEnd, TodoType
<1>10. CASE UNCHANGED todo
  BY <1>10, <1>1 DEF TodoType
<1>11. CASE \/ Connect \/ Disconnect \/ Watchdog \/ RetryLocks \/ SweepBegins \/ SweepEnds
            \/ DriverVanishes \/ LinkBreaks \/ (\E n \in Needle : SweepFinds(n))
            \/ (\E f \in File : FileReappears(f)) \/ UNCHANGED vars
  BY <1>10, <1>11, Zenon DEF Connect, Disconnect, CountChanged, Watchdog, RetryLocks,
     SweepBegins, SweepEnds, DriverVanishes, LinkBreaks, SweepFinds, FileReappears, vars
<1>14. QED
  BY <1>3, <1>4, <1>5, <1>6, <1>7, <1>8, <1>9, <1>11, <1>13, Zenon DEF Next

LEMMA UiTypeStep ==
  ASSUME TypeOK, [Next]_vars
  PROVE  UiType'
<1>1. UiType /\ TodoType /\ SwitchType
  BY TypeParts
<1>2. CASE UNCHANGED ui
  BY <1>1, <1>2 DEF ui, UiType
<1>3. ASSUME grace' \in BOOLEAN, UNCHANGED <<clients, posts>> PROVE UiType'
  BY <1>1, <1>3 DEF UiType
<1>4. CASE Align
  <2>1. Tail(todo) \in Seq(Names)
    BY <1>1, <1>4 DEF Align, Step, TodoType
  <2>2. Decide(TRUE, Tail(todo), grace) /\ grace \in BOOLEAN
    BY <1>1, <1>4, Zenon DEF Align, UiType
  <2>3. QED
    BY <2>1, <2>2, <1>1, <1>3, <1>4, DecideTypes, Zenon DEF Align
<1>5. CASE GraceEnds
  <2>1. Decide(TRUE, <<>>, FALSE)
    BY <1>5, Zenon DEF GraceEnds
  <2>2. QED
    BY <2>1, <1>1, <1>3, <1>5, DecideTypes, StepsAreNamed, Zenon DEF GraceEnds
<1>6. CASE PostedDecision
  <2>1. Head(posts) \in BOOLEAN
    BY <1>1, <1>6 DEF PostedDecision, UiType
  <2>2. Decide(Head(posts), <<>>, grace) /\ grace \in BOOLEAN
    BY <1>1, <1>6, Zenon DEF PostedDecision, UiType
  <2>3. grace' \in BOOLEAN
    BY <2>1, <2>2, <1>1, DecideTypes, StepsAreNamed, Zenon
  <2>4. posts # <<>> /\ posts' = Tail(posts) /\ clients' = clients
    BY <1>6, Zenon DEF PostedDecision
  <2>5. posts' \in Seq(BOOLEAN) /\ Len(posts') <= MaxPosts
    <3>1. posts \in Seq(BOOLEAN) /\ Len(posts) <= MaxPosts
      BY <1>1, Zenon DEF UiType
    <3>2. Tail(posts) \in Seq(BOOLEAN) /\ Len(Tail(posts)) = Len(posts) - 1
      BY <2>4, <3>1, TailTypes, Zenon
    <3>3. Len(posts) \in Nat
      BY <3>1
    <3>4. QED
      BY <3>1, <3>2, <3>3, <2>4, LifetimeAssumption
  <2>6. QED
    BY <2>3, <2>4, <2>5, <1>1, Zenon DEF UiType
<1>7. CASE Connect \/ Disconnect
  <2>1. PICK n \in 0..MaxClients : CountChanged(n)
    BY <1>1, <1>7, LifetimeAssumption DEF Connect, Disconnect, UiType
  <2>2. /\ Len(posts) < MaxPosts /\ clients' = n /\ posts' = Append(posts, n > 0)
        /\ grace' = grace
    BY <2>1, Zenon DEF CountChanged
  <2>3. (n > 0) \in BOOLEAN
    OBVIOUS
  <2>4. QED
    BY <2>2, <2>3, <1>1, LifetimeAssumption DEF UiType
<1>8. CASE ProcessEnd
  <2>1. <<>> \in Seq(BOOLEAN) /\ Len(<<>>) = 0
    OBVIOUS
  <2>2. 0 \in 0..MaxClients /\ 0 <= MaxPosts
    BY LifetimeAssumption
  <2>3. clients' = 0 /\ posts' = <<>> /\ grace' = FALSE
    BY <1>8, Zenon DEF ProcessEnd
  <2>4. QED
    BY <2>1, <2>2, <2>3, Zenon DEF UiType
<1>9. CASE Work /\ ~Align
  BY <1>2, <1>9, AmendFacts, Zenon DEF Work, Amends, WorkerOff, WorkerOn, Detach, Unload,
     Release, Rearm, Start, AttachOnWake, KernelSwitch, RecordWanted, StartSweep,
     Remediate
<1>10. CASE \/ Boot \/ Watchdog \/ RetryLocks \/ SweepBegins \/ SweepEnds
            \/ DriverVanishes \/ LinkBreaks
            \/ (\E n \in Needle : SweepFinds(n) \/ HandleHit(n))
            \/ (\E f, k \in BOOLEAN : SettingsUpdated(f, k)) \/ TrustAdded
            \/ (\E f \in File : FileReappears(f)) \/ UNCHANGED vars
  BY <1>2, <1>10, Zenon DEF Boot, Watchdog, RetryLocks, SweepBegins, SweepEnds, HandleHit,
     DriverVanishes, LinkBreaks, SweepFinds, SettingsUpdated, TrustAdded, FileReappears,
     vars
<1>11. QED
  BY <1>4, <1>5, <1>6, <1>7, <1>8, <1>9, <1>10, Zenon DEF Next

LEMMA OtherTypesStep ==
  ASSUME TypeOK, [Next]_vars
  PROVE  MainType' /\ SwitchType' /\ KernelType' /\ ScanType' /\ AmendType'
<1>1. MainType /\ SwitchType /\ KernelType /\ ScanType /\ AmendType /\ LockType
  BY TypeParts
<1>2. MainType'
  <2>1. CASE Boot
    BY <1>1, <2>1, Zenon DEF Boot, settings, MainType
  <2>2. CASE ProcessEnd
    BY <1>1, <2>2, Zenon DEF ProcessEnd, settings, MainType
  <2>3. ASSUME NEW f \in BOOLEAN, NEW k \in BOOLEAN, SettingsUpdated(f, k) PROVE MainType'
    BY <1>1, <2>3, Zenon DEF SettingsUpdated, MainType
  <2>4. CASE UNCHANGED <<up, settings>>
    BY <1>1, <2>4, Zenon DEF settings, MainType
  <2>5. CASE Work
    BY <2>4, <2>5, AmendFacts, Zenon DEF Work, Amends, WorkerOff, WorkerOn, Detach,
       Unload, Release, Rearm, Start, AttachOnWake, KernelSwitch, RecordWanted,
       StartSweep, Align, Remediate
  <2>6. CASE \/ Connect \/ Disconnect \/ PostedDecision \/ GraceEnds \/ Watchdog
             \/ RetryLocks \/ SweepBegins \/ SweepEnds \/ DriverVanishes \/ LinkBreaks
             \/ TrustAdded \/ (\E n \in Needle : SweepFinds(n) \/ HandleHit(n))
             \/ (\E f \in File : FileReappears(f)) \/ UNCHANGED vars
    BY <2>4, <2>6, Zenon DEF Connect, Disconnect, CountChanged, PostedDecision, GraceEnds,
       Watchdog, RetryLocks, SweepBegins, SweepEnds, DriverVanishes, LinkBreaks, SweepFinds,
       TrustAdded, HandleHit, FileReappears, vars
  <2>7. QED
    BY <2>1, <2>2, <2>3, <2>5, <2>6, Zenon DEF Next
<1>3. SwitchType' /\ KernelType'
  <2>1. CASE UNCHANGED <<switch, kernel>>
    BY <1>1, <2>1, Zenon DEF switch, kernel, SwitchType, KernelType
  <2>2. CASE WorkerOff \/ WorkerOn \/ RecordWanted \/ Release \/ Rearm \/ Start
    <3>1. UNCHANGED kernel
      BY <2>2, Zenon DEF WorkerOff, WorkerOn, RecordWanted, Release, Rearm, Start
    <3>2. KernelInitial \in BOOLEAN
      BY <1>1, Zenon DEF KernelInitial
    <3>3. SwitchType'
      BY <3>2, <1>1, <2>2, Zenon DEF WorkerOff, WorkerOn, RecordWanted, Release, Rearm,
         Start, SwitchType
    <3>4. QED
      BY <3>1, <3>3, <1>1, Zenon DEF kernel, KernelType
  <2>3. CASE Detach
    BY <1>1, <2>3, KernelTypes, Zenon DEF Detach, SwitchType
  <2>4. CASE Unload
    <3>1. UNCHANGED <<switch, link>> /\ driver' \in {driver, "unloaded"}
      BY <2>4 DEF Unload
    <3>2. SwitchType'
      BY <3>1, <1>1, Zenon DEF switch, SwitchType
    <3>3. QED
      BY <3>1, <3>2, <1>1 DEF KernelType
  <2>5. CASE AttachOnWake
    BY <1>1, <2>5, KernelTypes, Zenon DEF AttachOnWake, SwitchType, kernel, KernelType
  <2>6. CASE KernelSwitch
    <3>1. SwitchType' /\ KernelType'
      BY <1>1, <2>6, KernelTypes, Zenon DEF KernelSwitch, SwitchType, kernel, KernelType,
         MainType
    <3>2. QED
      BY <3>1
  <2>7. CASE ProcessEnd
    <3>1. SwitchType'
      BY <2>7, Zenon DEF ProcessEnd, SwitchType
    <3>2. QED
      BY <3>1, <1>1, <2>7 DEF ProcessEnd, KernelType
  <2>8. CASE Watchdog
    BY <1>1, <2>8, KernelTypes, Zenon DEF Watchdog, switch, SwitchType
  <2>9. CASE DriverVanishes \/ LinkBreaks
    <3>1. SwitchType'
      BY <1>1, <2>9, Zenon DEF DriverVanishes, LinkBreaks, switch, SwitchType
    <3>2. QED
      BY <3>1, <1>1, <2>9 DEF DriverVanishes, LinkBreaks, KernelType
  <2>10. CASE \/ Boot \/ Connect \/ Disconnect \/ PostedDecision \/ GraceEnds \/ StartSweep
              \/ Align \/ Remediate \/ Amends \/ RetryLocks \/ SweepBegins \/ SweepEnds
              \/ (\E f, k \in BOOLEAN : SettingsUpdated(f, k)) \/ TrustAdded
              \/ (\E n \in Needle : SweepFinds(n) \/ HandleHit(n))
              \/ (\E f \in File : FileReappears(f)) \/ UNCHANGED vars
    BY <2>1, <2>10, AmendFacts, Zenon DEF Boot, Connect, Disconnect, CountChanged,
       PostedDecision, GraceEnds, StartSweep, Align, Remediate, RetryLocks, SweepBegins,
       SweepEnds, SettingsUpdated, TrustAdded, SweepFinds, HandleHit, FileReappears, vars
  <2>11. QED
    BY <2>2, <2>3, <2>4, <2>5, <2>6, <2>7, <2>8, <2>9, <2>10, Zenon
       DEF Next, Work, Amends
<1>4. ScanType'
  <2>1. CASE UNCHANGED scan
    BY <1>1, <2>1, Zenon DEF scan, ScanType
  <2>2. CASE StartSweep \/ SweepBegins \/ SweepEnds \/ ProcessEnd
    BY <1>1, <2>2 DEF StartSweep, SweepBegins, SweepEnds, ProcessEnd, ScanType
  <2>3. ASSUME NEW n \in Needle, SweepFinds(n) \/ HandleHit(n) PROVE ScanType'
    BY <1>1, <2>3 DEF SweepFinds, HandleHit, ScanType
  <2>4. CASE Work /\ ~StartSweep
    BY <2>1, <2>4, AmendFacts, Zenon DEF Work, Amends, WorkerOff, WorkerOn, Detach,
       Unload, Release, Rearm, Start, AttachOnWake, KernelSwitch, RecordWanted, Align,
       Remediate
  <2>5. CASE \/ Boot \/ Connect \/ Disconnect \/ PostedDecision \/ GraceEnds \/ Watchdog
             \/ RetryLocks \/ DriverVanishes \/ LinkBreaks
             \/ (\E f, k \in BOOLEAN : SettingsUpdated(f, k)) \/ TrustAdded
             \/ (\E f \in File : FileReappears(f)) \/ UNCHANGED vars
    BY <2>1, <2>5, Zenon DEF Boot, Connect, Disconnect, CountChanged, PostedDecision,
       GraceEnds, Watchdog, RetryLocks, DriverVanishes, LinkBreaks, SettingsUpdated,
       TrustAdded, FileReappears, vars
  <2>6. QED
    BY <2>2, <2>3, <2>4, <2>5, Zenon DEF Next
<1>5. AmendType'
  <2>1. CASE UNCHANGED <<opened, amends>>
    BY <1>1, <2>1 DEF amends, AmendType
  <2>2. CASE Amends
    BY <1>1, <2>2, AmendTypes
  <2>3. ASSUME NEW on, ApplyKernelEnabled(on) PROVE opened' \in BOOLEAN
    BY <1>1, <2>3, Zenon DEF ApplyKernelEnabled, kernel, AmendType
  <2>4. CASE Detach \/ AttachOnWake \/ KernelSwitch
    <3>1. opened' \in BOOLEAN
      BY <1>1, <2>3, <2>4, Zenon DEF Detach, AttachOnWake, KernelSwitch, SetKernelEnabled,
         kernel, AmendType
    <3>2. UNCHANGED amends
      BY <2>4, Zenon DEF Detach, AttachOnWake, KernelSwitch
    <3>3. QED
      BY <1>1, <3>1, <3>2 DEF amends, AmendType
  <2>5. CASE Start
    <3>1. opened' = opened /\ keep' = keep
      BY <2>5, Zenon DEF Start, kernel
    <3>2. apart' \in BOOLEAN
      BY <1>1, <2>5 DEF Start, AmendType
    <3>3. QED
      BY <1>1, <3>1, <3>2, Zenon DEF AmendType
  <2>6. ASSUME NEW n \in Needle, HandleHit(n) PROVE AmendType'
    <3>1. opened' = opened /\ keep' = keep /\ Block(n)
      BY <2>6, Zenon DEF HandleHit, kernel
    <3>2. apart' \in BOOLEAN
      BY <1>1, <3>1, BlockFacts, Zenon DEF AmendType
    <3>3. QED
      BY <1>1, <3>1, <3>2, Zenon DEF AmendType
  <2>7. CASE ProcessEnd
    BY <2>7 DEF ProcessEnd, AmendType
  <2>8. CASE \/ WorkerOff \/ WorkerOn \/ Unload \/ Release \/ Rearm \/ RecordWanted
             \/ StartSweep \/ Align \/ Remediate
    BY <2>1, <2>8, Zenon DEF WorkerOff, WorkerOn, Unload, Release, Rearm, RecordWanted,
       StartSweep, Align, Remediate, kernel
  <2>9. CASE \/ Boot \/ Connect \/ Disconnect \/ PostedDecision \/ GraceEnds \/ Watchdog
             \/ RetryLocks \/ SweepBegins \/ SweepEnds \/ DriverVanishes \/ LinkBreaks
             \/ TrustAdded \/ (\E f, k \in BOOLEAN : SettingsUpdated(f, k))
             \/ (\E n \in Needle : SweepFinds(n))
             \/ (\E f \in File : FileReappears(f)) \/ UNCHANGED vars
    BY <2>1, <2>9, Zenon DEF Boot, Connect, Disconnect, CountChanged, PostedDecision,
       GraceEnds, Watchdog, RetryLocks, SweepBegins, SweepEnds, DriverVanishes, LinkBreaks,
       TrustAdded, SettingsUpdated, SweepFinds, FileReappears, vars, kernel
  <2>10. QED
    BY <2>2, <2>4, <2>5, <2>6, <2>7, <2>8, <2>9, Zenon DEF Next, Work, Amends
<1>6. QED
  BY <1>2, <1>3, <1>4, <1>5

LEMMA TypeStep == TypeOK /\ [Next]_vars => TypeOK'
<1>1. LockType' <=> EB!TypeOK'
  BY DEF LockType, EB!TypeOK
<1>2. SUFFICES ASSUME TypeOK, [Next]_vars PROVE TypeOK'
  OBVIOUS
<1>3. QED
  BY <1>1, <1>2, LockTypeStep, TodoTypeStep, UiTypeStep, OtherTypesStep, Zenon DEF TypeOK,
     MainType, TodoType, UiType, SwitchType, KernelType, ScanType, AmendType, Names

---------------------------------------------------------------------------
(* The invariant of the switch.  Each step of a handler stands in few      *)
(* places: what is known there, and what is left after it.                 *)

LEMMA Places ==
  ASSUME InHandler, todo # <<>>
  PROVE
    /\ Head(todo) = "worker off" =>
         Tail(todo) = FromDetach /\ ~ProtectionWanted /\ Protects /\ KeptOn
    /\ Head(todo) = "worker on" =>
         /\ Tail(todo) = Amending /\ ProtectionWanted
         /\ ~suspended /\ started /\ ~lockSuspended /\ KeptOn
    /\ Head(todo) = "detach" =>
         /\ ~suspended /\ ~lockSuspended
         /\ \/ Tail(todo) = FromUnload /\ ~ProtectionWanted /\ started /\ KeptOn
            \/ Tail(todo) = BootUnload /\ ~started /\ ~kernelEnabled
    /\ Head(todo) = "unload" =>
         /\ suspended /\ ~lockSuspended /\ ~kernelEnabled
         /\ \/ Tail(todo) = FromRelease /\ ~ProtectionWanted /\ started /\ KeptAside
            \/ Tail(todo) = BootRelease /\ ~started
    /\ Head(todo) = "release" =>
         /\ suspended /\ ~lockSuspended /\ ~kernelEnabled
         /\ \/ Tail(todo) = <<>> /\ ~ProtectionWanted /\ KeptAside
            \/ Tail(todo) = BootWanted
    /\ Head(todo) = "rearm" =>
         Tail(todo) = FromStart /\ ProtectionWanted /\ StandsOff /\ KeptAside
    /\ Head(todo) = "start" =>
         /\ ~suspended /\ ~started /\ ~lockSuspended /\ ~kernelEnabled
         /\ \/ Tail(todo) = FromAttach /\ ProtectionWanted /\ KeptAside
            \/ Tail(todo) = BootKernel /\ ~workerOff
    /\ Head(todo) = "attach" =>
         /\ Tail(todo) = FromWorkerOn /\ ProtectionWanted
         /\ ~suspended /\ started /\ ~lockSuspended /\ ~kernelEnabled /\ KeptAside
    /\ Head(todo) = "kernel at start" =>
         Tail(todo) = BootAmend /\ Protects /\ ~kernelEnabled
    /\ Head(todo) = "kernel setting" =>
         Tail(todo) = LastAlign /\ (Protects \/ StandsOff)
    /\ Head(todo) = "kernel wanted" => Tail(todo) = BootAmend /\ StandsOff
    /\ Head(todo) = "reconcile" =>
         Rests /\ ((Tail(todo) = LastResend /\ Decided) \/ Tail(todo) = BootResend)
    /\ Head(todo) = "resend" =>
         Rests /\ ((Tail(todo) = <<>> /\ Decided) \/ Tail(todo) = BootSweep)
    /\ Head(todo) = "sweep" => Tail(todo) = LastAlign /\ Rests
    /\ Head(todo) = "align" => Tail(todo) = <<>> /\ Rests
    /\ Head(todo) = "remediate" => Tail(todo) = <<>> /\ Rests /\ Decided
<1>1. CASE todo \in {LastRemedy, Amending, LastResend} /\ Rests /\ Decided
  <2>1. CASE todo = LastRemedy
    BY <1>1, <2>1, NextSteps
  <2>2. CASE todo = Amending
    BY <1>1, <2>2, NextSteps
  <2>3. CASE todo = LastResend
    BY <1>1, <2>3, NextSteps
  <2>4. QED
    BY <1>1, <2>1, <2>2, <2>3
<1>2. CASE todo = LastAlign /\ Rests
  BY <1>2, NextSteps
<1>3. CASE todo = NewSettings /\ (Protects \/ StandsOff)
  BY <1>3, NextSteps
<1>4. CASE GoesDown
  <2>1. CASE todo = GoToStandby
    BY <1>4, <2>1, NextSteps DEF GoesDown
  <2>2. CASE todo = FromDetach
    BY <1>4, <2>2, NextSteps DEF GoesDown
  <2>3. CASE todo = FromUnload
    BY <1>4, <2>3, NextSteps DEF GoesDown
  <2>4. CASE todo = FromRelease
    BY <1>4, <2>4, NextSteps DEF GoesDown
  <2>5. QED
    BY <1>4, <2>1, <2>2, <2>3, <2>4 DEF GoesDown
<1>5. CASE ComesUp
  <2>1. CASE todo = WakeUp
    BY <1>5, <2>1, NextSteps DEF ComesUp
  <2>2. CASE todo = FromStart
    BY <1>5, <2>2, NextSteps DEF ComesUp
  <2>3. CASE todo = FromAttach
    BY <1>5, <2>3, NextSteps DEF ComesUp
  <2>4. CASE todo = FromWorkerOn
    BY <1>5, <2>4, NextSteps DEF ComesUp
  <2>5. QED
    BY <1>5, <2>1, <2>2, <2>3, <2>4 DEF ComesUp
<1>6. CASE StartsUp
  <2>1. CASE todo = IntoStandby
    BY <1>6, <2>1, NextSteps DEF StartsUp
  <2>2. CASE todo = BootStart
    BY <1>6, <2>2, NextSteps DEF StartsUp
  <2>3. CASE todo = BootUnload
    BY <1>6, <2>3, NextSteps DEF StartsUp
  <2>4. CASE todo = BootRelease
    BY <1>6, <2>4, NextSteps DEF StartsUp
  <2>5. CASE todo = BootWanted
    BY <1>6, <2>5, NextSteps DEF StartsUp
  <2>6. CASE todo = BootSweep
    BY <1>6, <2>6, NextSteps DEF StartsUp
  <2>7. CASE todo = BootKernel
    BY <1>6, <2>7, NextSteps DEF StartsUp
  <2>8. CASE todo = BootAmend
    BY <1>6, <2>8, NextSteps DEF StartsUp
  <2>9. CASE todo = BootResend
    BY <1>6, <2>9, NextSteps DEF StartsUp
  <2>10. QED
    BY <1>6, <2>1, <2>2, <2>3, <2>4, <2>5, <2>6, <2>7, <2>8, <2>9 DEF StartsUp
<1>7. QED
  BY <1>1, <1>2, <1>3, <1>4, <1>5, <1>6, Zenon DEF InHandler

LEMMA AtRest == InHandler /\ todo = <<>> => Rests /\ Decided
BY NoneLeft, Zenon DEF InHandler, GoesDown, ComesUp, StartsUp

LEMMA DecideFacts ==
  ASSUME NEW immediate \in BOOLEAN, NEW timer \in BOOLEAN, SwitchType, Rests,
         Decide(immediate, <<>>, timer),
         UNCHANGED <<settings, clients, switch, lockSuspended>>
  PROVE  InHandler'
<1>1. /\ <<>> \o <<>> = <<>> /\ WakeUp \o <<>> = WakeUp
      /\ GoToStandby \o <<>> = GoToStandby
  BY StepsAreNamed
<1>2. /\ ProtectionWanted' = ProtectionWanted /\ Rests' = Rests
      /\ Protects' = Protects /\ StandsOff' = StandsOff
      /\ KeptOn' = KeptOn /\ KeptAside' = KeptAside /\ suspended' = suspended
  BY Zenon DEF settings, switch, ProtectionWanted, Rests, Protects, StandsOff, KeptOn,
     KeptAside
<1>3. ProtectionWanted \in BOOLEAN /\ suspended \in BOOLEAN
  BY Zenon DEF ProtectionWanted, SwitchType
<1>4. CASE suspended <=> ~ProtectionWanted
  <2>1. ProtectionWanted = ~suspended
    BY <1>3, <1>4
  <2>2. todo' = <<>> \o <<>>
    BY <2>1, Zenon DEF Decide
  <2>3. QED
    BY <1>1, <1>2, <1>4, <2>2 DEF InHandler, Decided
<1>5. CASE suspended /\ ProtectionWanted
  <2>1. ProtectionWanted # ~suspended
    BY <1>3, <1>5
  <2>2. todo' = WakeUp \o <<>>
    BY <2>1, <1>5, Zenon DEF Decide
  <2>3. StandsOff /\ KeptAside
    BY <1>5, Zenon DEF Rests, Protects
  <2>4. QED
    BY <1>1, <1>2, <1>5, <2>2, <2>3, Zenon DEF InHandler, ComesUp
<1>6. CASE ~suspended /\ ~ProtectionWanted
  <2>1. ProtectionWanted # ~suspended
    BY <1>3, <1>6
  <2>2. CASE immediate
    <3>1. todo' = GoToStandby \o <<>>
      BY <2>1, <2>2, <1>6, Zenon DEF Decide
    <3>2. Protects /\ KeptOn
      BY <1>6, Zenon DEF Rests, StandsOff
    <3>3. QED
      BY <1>1, <1>2, <1>6, <3>1, <3>2, Zenon DEF InHandler, GoesDown
  <2>3. CASE ~immediate
    <3>1. todo' = <<>> \o <<>> /\ grace'
      BY <2>1, <2>3, <1>6, Zenon DEF Decide
    <3>2. QED
      BY <1>1, <1>2, <3>1, Zenon DEF InHandler, Decided
  <2>4. QED
    BY <2>2, <2>3
<1>7. QED
  BY <1>3, <1>4, <1>5, <1>6

(* Only the port's own actions touch the connection.                       *)

LEMMA NoPortStep ==
  ASSUME TypeOK, ~kernelEnabled => link = "none", [Next]_vars
  PROVE  ~kernelEnabled' => link' = "none"
<1>1. SwitchType
  BY TypeParts
<1>2. CASE UNCHANGED <<kernelEnabled, link>>
  BY <1>2
<1>3. ASSUME NEW on \in BOOLEAN, ApplyKernelEnabled(on)
      PROVE  ~kernelEnabled' => link' = "none"
  <2>1. CASE on <=> kernelEnabled
    <3>1. on = kernelEnabled
      BY <1>1, <2>1 DEF SwitchType
    <3>2. QED
      BY <3>1, <1>2, <1>3, Zenon DEF ApplyKernelEnabled, kernel
  <2>2. CASE ~(on <=> kernelEnabled)
    BY <1>3, <2>2, Zenon DEF ApplyKernelEnabled
  <2>3. QED
    BY <2>1, <2>2
<1>4. CASE Detach \/ AttachOnWake \/ KernelSwitch
  BY <1>2, <1>3, <1>4, <1>1, Zenon DEF Detach, AttachOnWake, KernelSwitch, SetKernelEnabled,
     kernel, SwitchType, TypeOK
<1>5. CASE Watchdog
  BY <1>5, Zenon DEF Watchdog, switch
<1>6. CASE DriverVanishes \/ LinkBreaks
  <2>1. kernelEnabled' = kernelEnabled /\ (link' = link \/ link = "live")
    BY <1>6, Zenon DEF DriverVanishes, LinkBreaks, switch
  <2>2. QED
    BY <2>1
<1>7. CASE ProcessEnd
  BY <1>7, Zenon DEF ProcessEnd
<1>8. CASE \/ WorkerOff \/ WorkerOn \/ Unload \/ Release \/ Rearm \/ Start \/ RecordWanted
           \/ StartSweep \/ Align \/ Remediate \/ Amends
  BY <1>2, <1>8, AmendFacts, Zenon DEF WorkerOff, WorkerOn, Unload, Release, Rearm, Start,
     RecordWanted, StartSweep, Align, Remediate, switch, kernel
<1>9. CASE \/ Boot \/ Connect \/ Disconnect \/ PostedDecision \/ GraceEnds
           \/ RetryLocks \/ SweepBegins \/ SweepEnds
           \/ (\E f, k \in BOOLEAN : SettingsUpdated(f, k)) \/ TrustAdded
           \/ (\E n \in Needle : SweepFinds(n) \/ HandleHit(n))
           \/ (\E f \in File : FileReappears(f)) \/ UNCHANGED vars
  BY <1>2, <1>9, Zenon DEF Boot, Connect, Disconnect, CountChanged, PostedDecision,
     GraceEnds, RetryLocks, SweepBegins, SweepEnds, SettingsUpdated, TrustAdded,
     SweepFinds, HandleHit, FileReappears, vars, switch, kernel
<1>10. QED
  BY <1>4, <1>5, <1>6, <1>7, <1>8, <1>9, Zenon DEF Next, Work, Amends

(* A step of the switch leads to the next place of the handler it is in.   *)

LEMMA WorkerSteps ==
  ASSUME TypeOK, InHandler, WorkerOff \/ WorkerOn
  PROVE  InHandler'
<1>1. ProtectionWanted' = ProtectionWanted /\ KeptOn' = KeptOn
  <2>1. UNCHANGED <<followsUi, clients, kernelEnabled, kernelSetting>>
    BY Zenon DEF WorkerOff, WorkerOn, ui, settings
  <2>2. QED
    BY <2>1 DEF ProtectionWanted, KeptOn
<1>2. CASE WorkerOff
  <2>1. /\ todo' = FromDetach /\ ~ProtectionWanted /\ Protects /\ KeptOn
    BY <1>2, Places, Zenon DEF WorkerOff, Step
  <2>2. UNCHANGED <<suspended, started, lockSuspended>>
    BY <1>2, Zenon DEF WorkerOff, locks
  <2>3. QED
    BY <1>1, <2>1, <2>2, Zenon DEF Protects, InHandler, GoesDown
<1>3. CASE WorkerOn
  <2>1. /\ todo' = Amending /\ ProtectionWanted /\ KeptOn /\ workerOff' = FALSE
        /\ ~suspended /\ started /\ ~lockSuspended
    BY <1>3, Places, Zenon DEF WorkerOn, Step
  <2>2. UNCHANGED <<suspended, started, lockSuspended>>
    BY <1>3, Zenon DEF WorkerOn, locks
  <2>3. QED
    BY <1>1, <2>1, <2>2, Zenon DEF Protects, InHandler, Rests, Decided
<1>4. QED
  BY <1>2, <1>3

LEMMA DownSteps ==
  ASSUME TypeOK, InHandler, Detach \/ Unload \/ Release
  PROVE  InHandler'
<1>1. ProtectionWanted' = ProtectionWanted
  <2>1. UNCHANGED <<followsUi, clients>>
    BY Zenon DEF Detach, Unload, Release, ui, settings
  <2>2. QED
    BY <2>1 DEF ProtectionWanted
<1>2. CASE Detach
  <2>1. /\ ~suspended /\ ~lockSuspended
        /\ \/ todo' = FromUnload /\ ~ProtectionWanted /\ started /\ KeptOn
           \/ todo' = BootUnload /\ ~started /\ ~kernelEnabled
    BY <1>2, Places, Zenon DEF Detach, Step
  <2>2. /\ suspended' = TRUE /\ wantOnResume' = kernelEnabled /\ kernelEnabled' = FALSE
        /\ UNCHANGED <<started, lockSuspended, kernelSetting>>
    BY <1>2, Zenon DEF Detach, ApplyKernelEnabled, locks, settings
  <2>3. KeptOn => KeptAside'
    BY <2>2 DEF KeptOn, KeptAside
  <2>4. QED
    BY <1>1, <2>1, <2>2, <2>3, Zenon DEF InHandler, GoesDown, StartsUp
<1>3. CASE Unload
  <2>1. /\ suspended /\ ~lockSuspended /\ ~kernelEnabled
        /\ \/ todo' = FromRelease /\ ~ProtectionWanted /\ started /\ KeptAside
           \/ todo' = BootRelease /\ ~started
    BY <1>3, Places, Zenon DEF Unload, Step
  <2>2. /\ KeptAside' = KeptAside
        /\ UNCHANGED <<suspended, started, lockSuspended, kernelEnabled>>
    BY <1>3, Zenon DEF Unload, locks, switch, settings, KeptAside
  <2>3. QED
    BY <1>1, <2>1, <2>2, Zenon DEF InHandler, GoesDown, StartsUp
<1>4. CASE Release
  <2>1. /\ suspended /\ ~lockSuspended /\ ~kernelEnabled
        /\ \/ todo' = <<>> /\ ~ProtectionWanted /\ KeptAside
           \/ todo' = BootWanted
    BY <1>4, Places, Zenon DEF Release, Step
  <2>2. lockSuspended' = TRUE
    BY <1>4, <2>1, SuspendFacts, Zenon DEF Release
  <2>3. started' = FALSE /\ KeptAside' = KeptAside /\ UNCHANGED <<suspended, kernelEnabled>>
    BY <1>4, Zenon DEF Release, settings, KeptAside
  <2>4. StandsOff'
    BY <2>1, <2>2, <2>3, Zenon DEF StandsOff
  <2>5. QED
    BY <1>1, <2>1, <2>3, <2>4, Zenon DEF InHandler, StartsUp, Rests, Decided, StandsOff
<1>5. QED
  BY <1>2, <1>3, <1>4

LEMMA UpSteps ==
  ASSUME TypeOK, InHandler, Rearm \/ Start \/ AttachOnWake
  PROVE  InHandler'
<1>1. ProtectionWanted' = ProtectionWanted
  <2>1. UNCHANGED <<followsUi, clients>>
    BY Zenon DEF Rearm, Start, AttachOnWake, ui, settings
  <2>2. QED
    BY <2>1 DEF ProtectionWanted
<1>2. CASE Rearm
  <2>1. todo' = FromStart /\ ProtectionWanted /\ StandsOff /\ KeptAside
    BY <1>2, Places, Zenon DEF Rearm, Step
  <2>2. lockSuspended' = FALSE
    BY <1>2, <2>1, ResumeFacts, Zenon DEF Rearm, StandsOff
  <2>3. /\ suspended' = FALSE /\ KeptAside' = KeptAside
        /\ UNCHANGED <<started, kernelEnabled>>
    BY <1>2, Zenon DEF Rearm, settings, KeptAside
  <2>4. QED
    BY <1>1, <2>1, <2>2, <2>3, Zenon DEF InHandler, ComesUp, StandsOff
<1>3. CASE Start
  <2>1. /\ ~suspended /\ ~started /\ ~lockSuspended /\ ~kernelEnabled
        /\ \/ todo' = FromAttach /\ ProtectionWanted /\ KeptAside
           \/ todo' = BootKernel /\ ~workerOff
    BY <1>3, Places, Zenon DEF Start, Step
  <2>2. /\ started' = TRUE /\ KeptAside' = KeptAside
        /\ UNCHANGED <<suspended, lockSuspended, kernelEnabled, workerOff>>
    BY <1>3, <2>1, Zenon DEF Start, settings, KeptAside
  <2>3. QED
    BY <1>1, <2>1, <2>2, Zenon DEF InHandler, ComesUp, StartsUp, Protects
<1>4. CASE AttachOnWake
  <2>1. /\ todo' = FromWorkerOn /\ ProtectionWanted
        /\ ~suspended /\ started /\ ~lockSuspended /\ ~kernelEnabled /\ KeptAside
    BY <1>4, Places, Zenon DEF AttachOnWake, Step
  <2>2. UNCHANGED <<suspended, started, lockSuspended, kernelSetting>>
    BY <1>4, Zenon DEF AttachOnWake, locks, settings
  <2>3. kernelEnabled' <=> wantOnResume
    BY <1>4, <2>1, Zenon DEF AttachOnWake, ApplyKernelEnabled
  <2>4. KeptOn'
    BY <2>1, <2>2, <2>3, Zenon DEF KeptOn, KeptAside
  <2>5. QED
    BY <1>1, <2>1, <2>2, <2>4, Zenon DEF InHandler, ComesUp
<1>5. QED
  BY <1>2, <1>3, <1>4

LEMMA SettingSteps ==
  ASSUME TypeOK, InHandler, KernelSwitch \/ RecordWanted
  PROVE  InHandler'
<1>1. /\ kernelSetting \in BOOLEAN /\ kernelSetting' = kernelSetting
      /\ EventSourceIsDriver \in BOOLEAN
  BY TypeParts, LifetimeAssumption DEF MainType, KernelSwitch, RecordWanted, settings
<1>2. UNCHANGED <<suspended, started, workerOff, lockSuspended>>
  BY Zenon DEF KernelSwitch, RecordWanted, locks
<1>3. CASE RecordWanted
  <2>1. todo' = BootAmend /\ StandsOff
    BY <1>3, Places, Zenon DEF RecordWanted, Step
  <2>2. kernelEnabled' = kernelEnabled /\ wantOnResume' = KernelInitial
    BY <1>3, Zenon DEF RecordWanted
  <2>3. StandsOff' /\ KeptAside'
    BY <1>1, <1>2, <2>1, <2>2, Zenon DEF StandsOff, KeptAside, KernelInitial
  <2>4. QED
    BY <2>1, <2>3, Zenon DEF InHandler, StartsUp, Rests
<1>4. CASE KernelSwitch /\ Step("kernel setting")
  <2>1. todo' = LastAlign /\ (Protects \/ StandsOff) /\ SetKernelEnabled(kernelSetting)
    BY <1>4, Places, Zenon DEF KernelSwitch, Step
  <2>2. CASE Protects
    <3>1. kernelEnabled' = kernelSetting
      BY <2>1, <2>2, Zenon DEF SetKernelEnabled, ApplyKernelEnabled, Protects
    <3>2. Protects' /\ KeptOn'
      BY <3>1, <2>2, <1>1, <1>2, Zenon DEF Protects, KeptOn
    <3>3. QED
      BY <2>1, <3>2, Zenon DEF InHandler, Rests
  <2>3. CASE StandsOff
    <3>1. wantOnResume' = kernelSetting /\ kernelEnabled' = kernelEnabled
      BY <2>1, <2>3, Zenon DEF SetKernelEnabled, StandsOff
    <3>2. StandsOff' /\ KeptAside'
      BY <3>1, <2>3, <1>1, <1>2, Zenon DEF StandsOff, KeptAside
    <3>3. QED
      BY <2>1, <3>2, Zenon DEF InHandler, Rests
  <2>4. QED
    BY <2>1, <2>2, <2>3
<1>5. CASE KernelSwitch /\ ~Step("kernel setting")
  <2>1. /\ todo' = BootAmend /\ Protects /\ ~kernelEnabled
        /\ IF KernelInitial THEN SetKernelEnabled(TRUE)
           ELSE UNCHANGED <<kernelEnabled, wantOnResume, kernel>>
    BY <1>5, Places, Zenon DEF KernelSwitch, Step
  <2>2. kernelEnabled' <=> KernelInitial
    BY <2>1, Zenon DEF SetKernelEnabled, ApplyKernelEnabled, Protects
  <2>3. Protects' /\ KeptOn'
    BY <2>1, <2>2, <1>1, <1>2, Zenon DEF Protects, KeptOn, KernelInitial
  <2>4. QED
    BY <2>1, <2>3, Zenon DEF InHandler, StartsUp, Rests
<1>6. QED
  BY <1>3, <1>4, <1>5

(* The steps and handlers that leave the switch alone.                     *)

LEMMA StillSteps ==
  ASSUME UNCHANGED <<settings, switch, lockSuspended>>
  PROVE  /\ Rests' = Rests /\ Protects' = Protects /\ StandsOff' = StandsOff
         /\ KeptOn' = KeptOn /\ KeptAside' = KeptAside
BY Zenon DEF settings, switch, Rests, Protects, StandsOff, KeptOn, KeptAside

LEMMA StillHandler ==
  ASSUME InHandler, UNCHANGED <<todo, ui, settings, switch, lockSuspended>>
  PROVE  InHandler'
BY Zenon DEF InHandler, GoesDown, ComesUp, StartsUp, Rests, Protects, StandsOff, KeptOn,
   KeptAside, Decided, ProtectionWanted, ui, settings, switch

LEMMA TailSteps ==
  ASSUME TypeOK, InHandler, StartSweep \/ Align \/ Remediate \/ Amends
  PROVE  InHandler'
<1>1. UNCHANGED <<settings, switch, lockSuspended>>
  BY AmendFacts, Zenon DEF StartSweep, Align, Remediate, locks
<1>2. CASE StartSweep
  <2>1. todo' = LastAlign /\ Rests
    BY <1>2, Places, Zenon DEF StartSweep, Step
  <2>2. QED
    BY <2>1, <1>1, StillSteps, Zenon DEF InHandler
<1>3. CASE Align
  <2>1. Tail(todo) = <<>> /\ Rests
    BY <1>3, Places, Zenon DEF Align, Step
  <2>2. Decide(TRUE, <<>>, grace) /\ UNCHANGED clients
    BY <1>3, <2>1, Zenon DEF Align
  <2>3. SwitchType /\ grace \in BOOLEAN
    BY TypeParts DEF UiType
  <2>4. QED
    BY <1>1, <2>1, <2>2, <2>3, DecideFacts
<1>4. CASE Remediate
  <2>1. todo' = <<>> /\ Rests /\ Decided
    BY <1>4, Places, Zenon DEF Remediate, Step
  <2>2. Decided' = Decided
    BY <1>4, Zenon DEF Remediate, Decided, ui, settings, switch, ProtectionWanted
  <2>3. QED
    BY <2>1, <2>2, <1>1, StillSteps, Zenon DEF InHandler
<1>5. CASE Amends
  <2>1. UNCHANGED <<settings, switch, lockSuspended, ui>> /\ todo # <<>>
    BY <1>5, AmendFacts, Zenon
  <2>2. Decided' = Decided
    BY <2>1, Zenon DEF Decided, ui, settings, switch, ProtectionWanted
  <2>3. CASE UNCHANGED todo
    BY <2>1, <2>3, StillHandler, Zenon
  <2>4. CASE todo' = Tail(todo)
    <3>1. /\ Rests
          /\ \/ todo' \in {<<>>, LastResend} /\ Decided
             \/ todo' \in {BootResend, BootSweep}
      BY <1>5, <2>1, <2>4, AmendFacts, Places
    <3>2. QED
      BY <1>1, <2>2, <3>1, StillSteps DEF InHandler, StartsUp
  <2>5. QED
    BY <1>5, <2>3, <2>4, AmendFacts
<1>6. QED
  BY <1>2, <1>3, <1>4, <1>5

LEMMA HandlerSteps ==
  ASSUME SwitchInv, up, up',
         \/ Connect \/ Disconnect \/ PostedDecision \/ GraceEnds
         \/ (\E f, k \in BOOLEAN : SettingsUpdated(f, k)) \/ TrustAdded
         \/ (\E n \in Needle : HandleHit(n))
  PROVE  InHandler'
<1>1. /\ Idle /\ Rests /\ Decided
      /\ SwitchType /\ UiType
  BY AtRest, TypeParts, Zenon DEF SwitchInv, Connect, Disconnect, CountChanged,
     PostedDecision, GraceEnds, SettingsUpdated, TrustAdded, HandleHit, Idle
<1>2. CASE Connect \/ Disconnect
  <2>1. PICK n : CountChanged(n)
    BY <1>2, Zenon DEF Connect, Disconnect
  <2>2. todo' = <<>>
    BY <2>1, <1>1, Zenon DEF CountChanged, Idle
  <2>3. posts' # <<>>
    <3>1. posts' = Append(posts, n > 0) /\ posts \in Seq(BOOLEAN)
      BY <2>1, <1>1, Zenon DEF CountChanged, UiType
    <3>2. QED
      BY <3>1
  <2>4. UNCHANGED <<settings, switch, lockSuspended>>
    BY <2>1, Zenon DEF CountChanged, locks
  <2>5. QED
    BY <1>1, <2>2, <2>3, <2>4, StillSteps, Zenon DEF InHandler, Decided
<1>3. CASE PostedDecision
  <2>1. posts \in Seq(BOOLEAN) /\ posts # <<>> /\ grace \in BOOLEAN
    BY <1>1, <1>3, Zenon DEF PostedDecision, UiType
  <2>2. Head(posts) \in BOOLEAN
    BY <2>1
  <2>3. /\ Decide(Head(posts), <<>>, grace)
        /\ UNCHANGED <<settings, clients, switch, lockSuspended>>
    BY <1>3, Zenon DEF PostedDecision, locks
  <2>4. QED
    BY <2>1, <2>2, <2>3, <1>1, DecideFacts
<1>4. CASE GraceEnds
  <2>1. /\ Decide(TRUE, <<>>, FALSE)
        /\ UNCHANGED <<settings, clients, switch, lockSuspended>>
    BY <1>4, Zenon DEF GraceEnds, locks
  <2>2. QED
    BY <2>1, <1>1, DecideFacts
<1>5. ASSUME NEW f \in BOOLEAN, NEW k \in BOOLEAN, SettingsUpdated(f, k) PROVE InHandler'
  <2>1. todo' = NewSettings
    BY <1>5, Zenon DEF SettingsUpdated, NewSettings
  <2>2. UNCHANGED <<suspended, started, lockSuspended, kernelEnabled, workerOff>>
    BY <1>5, Zenon DEF SettingsUpdated, switch, locks
  <2>3. Protects' \/ StandsOff'
    BY <2>2, <1>1, Zenon DEF Rests, Protects, StandsOff
  <2>4. QED
    BY <2>1, <2>3, Zenon DEF InHandler
<1>6. ASSUME NEW n \in Needle, HandleHit(n) PROVE InHandler'
  <2>1. todo' = LastRemedy /\ UNCHANGED <<settings, switch, ui>>
    BY <1>6, Zenon DEF HandleHit, LastRemedy
  <2>2. UNCHANGED lockSuspended
    BY <1>6, BlockFacts, Zenon DEF HandleHit
  <2>3. Decided' = Decided
    <3>1. UNCHANGED <<posts, grace, suspended, followsUi, clients>>
      BY <2>1, Zenon DEF settings, switch, ui
    <3>2. QED
      BY <3>1 DEF Decided, ProtectionWanted
  <2>4. QED
    BY <2>1, <2>2, <2>3, <1>1, StillSteps, Zenon DEF InHandler
<1>7. CASE TrustAdded
  <2>1. todo' = Amending /\ UNCHANGED <<settings, switch, ui, lockSuspended>>
    BY <1>7, Zenon DEF TrustAdded, Amending, locks
  <2>2. Decided' = Decided
    <3>1. UNCHANGED <<posts, grace, suspended, followsUi, clients>>
      BY <2>1, Zenon DEF settings, switch, ui
    <3>2. QED
      BY <3>1 DEF Decided, ProtectionWanted
  <2>3. QED
    BY <2>1, <2>2, <1>1, StillSteps, Zenon DEF InHandler
<1>8. QED
  BY <1>2, <1>3, <1>4, <1>5, <1>6, <1>7

LEMMA SwitchInit == Init => SwitchInv
<1>1. SUFFICES ASSUME Init PROVE SwitchInv
  OBVIOUS
<1>2. MainType
  BY <1>1, LifetimeAssumption DEF Init, MainType
<1>3. TodoType
  BY <1>1, StepsAreNamed, Zenon DEF Init, TodoType
<1>4. UiType
  <2>1. <<>> \in Seq(BOOLEAN) /\ Len(<<>>) = 0
    OBVIOUS
  <2>2. 0 \in 0..MaxClients /\ 0 <= MaxPosts
    BY LifetimeAssumption
  <2>3. clients = 0 /\ posts = <<>> /\ grace = FALSE
    BY <1>1, Zenon DEF Init
  <2>4. QED
    BY <2>1, <2>2, <2>3, Zenon DEF UiType
<1>5. SwitchType
  BY <1>1, Zenon DEF Init, SwitchType
<1>6. KernelType /\ ScanType /\ AmendType
  BY <1>1 DEF Init, KernelType, ScanType, AmendType
<1>7. LockType
  BY <1>1 DEF Init, LockType, EB!NoHandles
<1>8. QED
  BY <1>1, <1>2, <1>3, <1>4, <1>5, <1>6, <1>7, TypeParts, Zenon DEF Init, SwitchInv

LEMMA SwitchStep == SwitchInv /\ [Next]_vars => SwitchInv'
<1>1. SUFFICES ASSUME SwitchInv, [Next]_vars PROVE SwitchInv'
  OBVIOUS
<1>2. TypeOK' /\ (~kernelEnabled' => link' = "none")
  BY <1>1, TypeStep, NoPortStep DEF SwitchInv
<1>3. CASE Work
  <2>1. up /\ up' /\ InHandler
    <3>1. up
      BY <1>3, AmendFacts, Zenon DEF Work, Amends, Step, WorkerOff, WorkerOn, Detach,
         Unload, Release, Rearm, Start, AttachOnWake, KernelSwitch, RecordWanted,
         StartSweep, Align, Remediate
    <3>2. up' = up
      BY <1>3, AmendFacts, Zenon DEF Work, Amends, WorkerOff, WorkerOn, Detach, Unload,
         Release, Rearm, Start, AttachOnWake, KernelSwitch, RecordWanted, StartSweep,
         Align, Remediate
    <3>3. QED
      BY <3>1, <3>2, <1>1, Zenon DEF SwitchInv
  <2>2. InHandler'
    BY <1>1, <1>3, <2>1, WorkerSteps, DownSteps, UpSteps, SettingSteps, TailSteps, Zenon
       DEF Work, Amends, SwitchInv
  <2>3. QED
    BY <1>2, <2>1, <2>2, Zenon DEF SwitchInv
<1>4. CASE \/ Connect \/ Disconnect \/ PostedDecision \/ GraceEnds
           \/ (\E f, k \in BOOLEAN : SettingsUpdated(f, k)) \/ TrustAdded
           \/ (\E n \in Needle : HandleHit(n))
  <2>1. up /\ up' = up
    BY <1>4, Zenon DEF Connect, Disconnect, CountChanged, PostedDecision, GraceEnds,
       SettingsUpdated, TrustAdded, HandleHit, Idle
  <2>2. QED
    BY <1>1, <1>2, <1>4, <2>1, HandlerSteps, Zenon DEF SwitchInv
<1>5. CASE Boot
  <2>1. /\ ~up /\ up' = TRUE /\ todo' \in {IntoStandby, BootStart}
        /\ UNCHANGED <<suspended, started, lockSuspended, kernelEnabled, workerOff>>
    BY <1>5, Zenon DEF Boot, IntoStandby, BootStart, switch, locks
  <2>2. InHandler'
    BY <1>1, <2>1, Zenon DEF SwitchInv, InHandler, StartsUp
  <2>3. QED
    BY <1>2, <2>1, <2>2, Zenon DEF SwitchInv
<1>6. CASE ProcessEnd
  BY <1>2, <1>6, Zenon DEF ProcessEnd, SwitchInv
<1>7. CASE \/ Watchdog \/ RetryLocks \/ SweepBegins \/ SweepEnds
           \/ DriverVanishes \/ LinkBreaks
           \/ (\E n \in Needle : SweepFinds(n)) \/ (\E f \in File : FileReappears(f))
           \/ UNCHANGED vars
  <2>1. UNCHANGED <<up, todo, ui, settings, switch>>
    BY <1>7, Zenon DEF Watchdog, RetryLocks, SweepBegins, SweepEnds, DriverVanishes,
       LinkBreaks, SweepFinds, FileReappears, vars
  <2>2. UNCHANGED lockSuspended
    BY <1>7, RearmFacts, AppearFacts, Zenon DEF Watchdog, RetryLocks, SweepBegins,
       SweepEnds, DriverVanishes, LinkBreaks, SweepFinds, FileReappears, vars, locks
  <2>3. CASE up
    BY <1>1, <1>2, <2>1, <2>2, <2>3, StillHandler, Zenon DEF SwitchInv
  <2>4. CASE ~up
    BY <1>1, <1>2, <2>1, <2>2, <2>4, Zenon DEF SwitchInv, switch
  <2>5. QED
    BY <2>3, <2>4
<1>8. QED
  BY <1>1, <1>3, <1>4, <1>5, <1>6, <1>7, Zenon DEF Next

LEMMA SwitchInvariance == Spec => []SwitchInv
BY SwitchInit, SwitchStep, PTL DEF Spec

---------------------------------------------------------------------------
(* What the service promises of the switch.                                *)

(* Every variable has its type.                                            *)
THEOREM LifetimeTypeCorrect == Spec => []TypeOK
<1>1. SwitchInv => TypeOK
  BY DEF SwitchInv
<1>2. QED
  BY <1>1, SwitchInvariance, PTL

(* However connects, disconnects, settings, timers and restarts interleave: *)
(* when no decision is posted and no grace timer runs, the service stands  *)
(* by exactly when it was asked to follow a UI that is not there.          *)
THEOREM SettlesAsWanted == Spec => []Settled
<1>1. SwitchInv => Settled
  <2>1. SUFFICES ASSUME SwitchInv, Idle, posts = <<>>, ~grace
                 PROVE  suspended = ~ProtectionWanted
    BY DEF Settled
  <2>2. suspended <=> ~ProtectionWanted
    BY <2>1, AtRest, Zenon DEF SwitchInv, Idle, Decided
  <2>3. suspended \in BOOLEAN /\ ProtectionWanted \in BOOLEAN
    BY <2>1, TypeParts DEF SwitchInv, SwitchType, ProtectionWanted
  <2>4. QED
    BY <2>2, <2>3
<1>2. QED
  BY <1>1, SwitchInvariance, PTL

(* Between two handlers the sources, the port, the watchdog, the locks and *)
(* the worker have all been switched, or none of them has.                 *)
THEOREM PartsSwitchTogether == Spec => []SwitchedTogether
<1>1. SwitchInv => SwitchedTogether
  BY AtRest, Zenon DEF SwitchInv, SwitchedTogether, Idle, Rests, Protects, StandsOff
<1>2. QED
  BY <1>1, SwitchInvariance, PTL

(* Out of standby the kernel switch is where the user put it, whatever     *)
(* standby, start-up or changed setting came in between.                   *)
THEOREM KeepsKernelIntent == Spec => []KernelIntentKept
<1>1. SwitchInv => KernelIntentKept
  <2>1. SUFFICES ASSUME SwitchInv, ~EventSourceIsDriver, Idle, ~suspended
                 PROVE  kernelEnabled = kernelSetting
    BY DEF KernelIntentKept
  <2>2. kernelEnabled <=> kernelSetting
    BY <2>1, AtRest, Zenon DEF SwitchInv, Idle, Rests, StandsOff, KeptOn
  <2>3. kernelEnabled \in BOOLEAN /\ kernelSetting \in BOOLEAN
    BY <2>1, TypeParts DEF SwitchInv, SwitchType, MainType
  <2>4. QED
    BY <2>2, <2>3
<1>2. QED
  BY <1>1, SwitchInvariance, PTL

LEMMA StandbyStep ==
  ASSUME SwitchInv, [Next]_vars, suspended
  PROVE  driver' = "loaded" => driver = "loaded"
<1>1. CASE UNCHANGED driver
  BY <1>1
<1>2. CASE Work
  <2>1. up /\ todo # <<>>
    BY <1>2, AmendFacts, Zenon DEF Work, Amends, Step, WorkerOff, WorkerOn, Detach,
       Unload, Release, Rearm, Start, AttachOnWake, KernelSwitch, RecordWanted,
       StartSweep, Align, Remediate
  <2>2. InHandler
    BY <2>1, Zenon DEF SwitchInv
  <2>3. CASE AttachOnWake
    BY <2>1, <2>2, <2>3, Places, Zenon DEF AttachOnWake, Step
  <2>4. CASE KernelSwitch
    BY <1>1, <2>4, Zenon DEF KernelSwitch, SetKernelEnabled, kernel
  <2>5. CASE Detach
    BY <1>1, <2>5, Zenon DEF Detach, ApplyKernelEnabled, kernel
  <2>6. CASE Unload
    <3>1. driver' \in {driver, "unloaded"}
      BY <2>6 DEF Unload
    <3>2. QED
      BY <3>1
  <2>7. CASE \/ WorkerOff \/ WorkerOn \/ Release \/ Rearm \/ Start \/ RecordWanted
             \/ StartSweep \/ Align \/ Remediate \/ Amends
    BY <1>1, <2>7, AmendFacts, Zenon DEF WorkerOff, WorkerOn, Release, Rearm, Start,
       RecordWanted, StartSweep, Align, Remediate, kernel
  <2>8. QED
    BY <1>2, <2>3, <2>4, <2>5, <2>6, <2>7, Zenon DEF Work, Amends
<1>3. CASE Watchdog
  BY <1>3, AtRest, Zenon DEF Watchdog, Idle, SwitchInv, Rests, Protects, StandsOff
<1>4. CASE DriverVanishes \/ LinkBreaks
  BY <1>4 DEF DriverVanishes, LinkBreaks
<1>5. CASE \/ Boot \/ Connect \/ Disconnect \/ PostedDecision \/ GraceEnds
           \/ RetryLocks \/ SweepBegins \/ SweepEnds \/ ProcessEnd
           \/ (\E f, k \in BOOLEAN : SettingsUpdated(f, k)) \/ TrustAdded
           \/ (\E n \in Needle : SweepFinds(n) \/ HandleHit(n))
           \/ (\E f \in File : FileReappears(f)) \/ UNCHANGED vars
  BY <1>1, <1>5, Zenon DEF Boot, Connect, Disconnect, CountChanged, PostedDecision,
     GraceEnds, RetryLocks, SweepBegins, SweepEnds, ProcessEnd, SettingsUpdated,
     TrustAdded, SweepFinds, HandleHit, FileReappears, vars, kernel
<1>6. QED
  BY <1>2, <1>3, <1>4, <1>5, Zenon DEF Next

(* Standby keeps the driver out: neither the watchdog nor a changed setting *)
(* nor a step of a switch brings Bulwark.sys back.                         *)
THEOREM NeverLoadsInStandby == Spec => NoLoadInStandby
<1>1. SwitchInv /\ [Next]_vars
      => [suspended /\ suspended' => (driver' = "loaded" => driver = "loaded")]_vars
  BY StandbyStep
<1>2. QED
  BY <1>1, SwitchInvariance, PTL DEF Spec, NoLoadInStandby

---------------------------------------------------------------------------
(* The list in force and its record.  They differ only while "apart": the  *)
(* record stays within the table's capacity, so a replay that reads it     *)
(* takes all of it.                                                        *)

RecordInv == SwitchInv /\ ListInv /\ KeepInv

(* Two names of one operator.                                              *)
LEMMA SameCount == \A S : EB!Cardinality(S) = Cardinality(S)
BY Zenon DEF EB!Cardinality, Cardinality

(* With a table that holds nothing, a replay takes the whole record; with  *)
(* one that holds all of it, it changes nothing; and it never overfills.   *)
LEMMA ReplayFits ==
  ASSUME TypeOK, ListInv, EB!ReplayFrom(handles)
  PROVE  IsFiniteSet(execList') /\ Cardinality(execList') <= MaxEntries
<1>1. PICK A \in EB!ReplayChoices :
        execList' = (execList \ A) \union (manifest.exec \intersect A)
  BY ReplayFacts
<1>2. EB!Entries = execList /\ EB!Recorded = manifest.exec
  BY DEF ListInv, EB!Entries, EB!Recorded
<1>3. A \subseteq manifest.exec
  BY <1>2 DEF EB!ReplayChoices
<1>4. /\ IsFiniteSet(execList) /\ IsFiniteSet(A) /\ IsFiniteSet(A \ execList)
      /\ IsFiniteSet(manifest.exec \ execList)
      /\ Cardinality(execList) \in Nat /\ Cardinality(A \ execList) \in Nat
      /\ Cardinality(manifest.exec \ execList) \in Nat
  BY <1>3, FS_Subset, FS_Difference, FS_CardinalityType DEF ListInv
<1>5. /\ execList' = execList \union (A \ execList)
      /\ execList \intersect (A \ execList) = {}
  BY <1>1, <1>3
<1>6. /\ IsFiniteSet(execList')
      /\ Cardinality(execList') = Cardinality(execList) + Cardinality(A \ execList)
  <2>1. Cardinality(execList \intersect (A \ execList)) = 0
    BY <1>5, FS_EmptySet
  <2>2. /\ IsFiniteSet(execList \union (A \ execList))
        /\ Cardinality(execList \union (A \ execList)) =
              Cardinality(execList) + Cardinality(A \ execList)
                - Cardinality(execList \intersect (A \ execList))
    BY <1>4, FS_Union, Zenon
  <2>3. QED
    BY <1>4, <1>5, <2>1, <2>2
<1>7. Cardinality(execList) <= MaxEntries /\ MaxEntries \in Nat
  BY LifetimeAssumption DEF ListInv
<1>8. CASE Cardinality(execList) >= MaxEntries
  <2>1. EB!ReplayChoices = {{}}
    BY <1>2, <1>8, SameCount, Zenon DEF EB!ReplayChoices
  <2>2. execList' = execList
    BY <1>1, <2>1
  <2>3. QED
    BY <1>4, <1>7, <2>2
<1>9. CASE ~(Cardinality(execList) >= MaxEntries)
  <2>1. EB!Room = MaxEntries - Cardinality(execList)
    BY <1>2, SameCount DEF EB!Room
  <2>2. \/ Cardinality(manifest.exec \ execList) < EB!Room /\ A = manifest.exec
        \/ Cardinality(A \ execList) = EB!Room
    BY <1>2, <1>9, SameCount DEF EB!ReplayChoices
  <2>3. QED
    BY <1>4, <1>6, <1>7, <2>1, <2>2
<1>10. QED
  BY <1>8, <1>9

LEMMA ReplayTakesAll ==
  ASSUME TypeOK, ListInv, ~apart, EB!ReplayFrom(handles)
  PROVE  execList' = manifest.exec
<1>1. PICK A \in EB!ReplayChoices :
        execList' = (execList \ A) \union (manifest.exec \intersect A)
  BY ReplayFacts
<1>2. EB!Entries = execList /\ EB!Recorded = manifest.exec
  BY DEF ListInv, EB!Entries, EB!Recorded
<1>3. A \subseteq manifest.exec
  BY <1>2 DEF EB!ReplayChoices
<1>4. CASE execList = manifest.exec
  BY <1>1, <1>3, <1>4
<1>5. CASE execList = {}
  <2>1. Cardinality(execList) = 0 /\ MaxEntries \in Nat \ {0}
    BY <1>5, FS_EmptySet, LifetimeAssumption
  <2>2. /\ manifest.exec \ execList = manifest.exec
        /\ \A B : B \subseteq manifest.exec => B \ execList = B
    BY <1>5
  <2>3. EB!Room = MaxEntries /\ ~(Cardinality(EB!Entries) >= MaxEntries)
    <3>1. Cardinality(EB!Entries) = 0
      BY <1>2, <2>1
    <3>2. QED
      BY <2>1, <3>1, SameCount DEF EB!Room
  <2>4. A = manifest.exec
    <3>1. CASE Cardinality(manifest.exec) < MaxEntries
      <4>1. EB!ReplayChoices = {manifest.exec}
        BY <3>1, <1>2, <2>2, <2>3, SameCount, Zenon DEF EB!ReplayChoices
      <4>2. QED
        BY <4>1
    <3>2. CASE ~(Cardinality(manifest.exec) < MaxEntries)
      <4>1. Cardinality(A \ execList) = MaxEntries
        BY <3>2, <1>2, <2>2, <2>3, SameCount DEF EB!ReplayChoices
      <4>2. IsFiniteSet(manifest.exec) /\ Cardinality(manifest.exec) <= MaxEntries
        BY DEF ListInv
      <4>3. /\ Cardinality(A) <= Cardinality(manifest.exec)
            /\ Cardinality(manifest.exec) = Cardinality(A) => manifest.exec = A
        BY <4>2, <1>3, FS_Subset
      <4>4. Cardinality(manifest.exec) \in Nat /\ A \ execList = A
        BY <4>2, <1>3, <2>2, FS_CardinalityType
      <4>5. QED
        BY <4>1, <4>2, <4>3, <4>4, <3>2, <2>1
    <3>3. QED
      BY <3>1, <3>2
  <2>5. QED
    BY <1>1, <1>5, <2>4
<1>6. QED
  BY <1>4, <1>5 DEF ListInv

(* A save of a list that fits leaves a record that fits: the list itself,  *)
(* unless it fails.                                                        *)
LEMMA SavedFits ==
  ASSUME ListInv, EB!Save(execList', {}), apart' = ~Written,
         IsFiniteSet(execList'), Cardinality(execList') <= MaxEntries
  PROVE  ListInv'
<1>1. CASE manifest' = [exec |-> execList', module |-> {}]
  BY <1>1 DEF ListInv, Written
<1>2. CASE ~Written /\ manifest' = manifest
  BY <1>2 DEF ListInv
<1>3. CASE ~Written /\ manifest' = [exec |-> {}, module |-> {}]
  <2>1. Cardinality({}) <= MaxEntries /\ IsFiniteSet({})
    BY FS_EmptySet, LifetimeAssumption
  <2>2. QED
    BY <1>3, <2>1 DEF ListInv
<1>4. QED
  BY <1>1, <1>2, <1>3 DEF EB!Save, Written

LEMMA ClearKeepsList ==
  ASSUME ListInv, EB!ClearList(TRUE), apart' = ~Written
  PROVE  ListInv'
<1>1. execList' = {} /\ EB!Save(execList', {})
  BY ClearFacts
<1>2. IsFiniteSet(execList') /\ Cardinality(execList') <= MaxEntries
  BY <1>1, FS_EmptySet, LifetimeAssumption
<1>3. QED
  BY <1>1, <1>2, SavedFits

LEMMA BlockKeepsList ==
  ASSUME ListInv, NEW n \in Needle, Block(n), started' = started
  PROVE  ListInv'
<1>1. CASE UNCHANGED <<locks, apart>>
  BY <1>1 DEF ListInv, locks
<1>2. CASE EB!AddEntry(n, TRUE) /\ apart' = ~Written
  <2>1. /\ EB!HasRoomFor(n) /\ execList' = execList \union {n}
        /\ EB!Save(execList', {})
    BY <1>2, AddFacts
  <2>2. n \in execList \/ Cardinality(execList) < MaxEntries
    BY <2>1, SameCount DEF EB!HasRoomFor, EB!Entries
  <2>3. IsFiniteSet(execList) /\ Cardinality(execList) \in Nat
    BY FS_CardinalityType DEF ListInv
  <2>4. /\ IsFiniteSet(execList')
        /\ \/ n \in execList /\ execList' = execList
           \/ Cardinality(execList') = Cardinality(execList) + 1
    BY <2>1, <2>3, FS_AddElement
  <2>5. Cardinality(execList') <= MaxEntries
    BY <2>1, <2>2, <2>3, <2>4, LifetimeAssumption, FS_AddElement DEF ListInv
  <2>6. QED
    BY <1>2, <2>1, <2>4, <2>5, SavedFits
<1>3. QED
  BY <1>1, <1>2, BlockFacts, Zenon

LEMMA ListStep ==
  ASSUME TypeOK, ListInv, [Next]_vars
  PROVE  ListInv'
<1>1. CASE UNCHANGED <<execList, manifest, started, apart>>
  BY <1>1 DEF ListInv
<1>2. CASE Release
  <2>1. started' = FALSE /\ UNCHANGED <<execList, manifest, apart>>
    BY <1>2, SuspendFacts, Zenon DEF Release, locks, amends
  <2>2. QED
    BY <2>1 DEF ListInv
<1>3. CASE Start
  <2>1. CASE UNCHANGED <<locks, apart>> /\ started
    BY <1>3, <2>1 DEF Start, locks, ListInv
  <2>2. CASE EB!ReplayFrom(handles) /\ UNCHANGED <<manifest, apart>>
    <3>1. IsFiniteSet(execList') /\ Cardinality(execList') <= MaxEntries
      BY <2>2, ReplayFits
    <3>2. apart \/ execList' = manifest.exec
      BY <2>2, ReplayTakesAll
    <3>3. QED
      BY <3>1, <3>2, <2>2 DEF ListInv
  <2>3. CASE /\ EB!ReplayFails /\ UNCHANGED manifest
             /\ apart' = (apart \/ ~(manifest.exec \subseteq execList))
    <3>1. execList' = execList
      BY <2>3 DEF EB!ReplayFails, EB!table
    <3>2. apart' \/ execList' = manifest'.exec
      BY <2>3, <3>1 DEF ListInv
    <3>3. QED
      BY <3>1, <3>2, <2>3 DEF ListInv
  <2>4. QED
    BY <1>3, <2>1, <2>2, <2>3, Zenon DEF Start
<1>4. ASSUME NEW n \in Needle, HandleHit(n) PROVE ListInv'
  BY <1>4, BlockKeepsList, Zenon DEF HandleHit, switch
<1>5. ASSUME NEW trusted, Reconcile(trusted) PROVE ListInv'
  <2>1. CASE UNCHANGED <<locks, amends>>
    BY <1>1, <1>5, <2>1, Zenon DEF Reconcile, locks, amends, switch
  <2>2. QED
    BY <1>5, <2>1, ClearKeepsList, Zenon DEF Reconcile
<1>6. CASE Resend
  <2>1. keep \subseteq Needle /\ started' = started
    BY <1>6, TypeParts, Zenon DEF AmendType, Resend, switch
  <2>2. CASE UNCHANGED <<locks, amends>>
    BY <1>1, <2>1, <2>2, Zenon DEF locks, amends
  <2>3. ASSUME NEW n \in keep, Block(n) PROVE ListInv'
    BY <2>1, <2>3, BlockKeepsList
  <2>4. QED
    BY <1>6, <2>2, <2>3, Zenon DEF Resend
<1>7. CASE ProcessEnd
  <2>1. execList' = {} /\ started' = FALSE /\ manifest' = manifest
    BY <1>7, Zenon DEF ProcessEnd
  <2>2. IsFiniteSet(execList') /\ Cardinality(execList') <= MaxEntries
    BY <2>1, FS_EmptySet, LifetimeAssumption
  <2>3. QED
    BY <2>1, <2>2 DEF ListInv
<1>8. CASE Rearm \/ RetryLocks \/ Remediate \/ (\E f \in File : FileReappears(f))
  BY <1>1, <1>8, ResumeFacts, RearmFacts, AppearFacts, Zenon DEF Rearm, RetryLocks,
     Remediate, FileReappears, locks, switch, amends
<1>9. CASE \/ WorkerOff \/ WorkerOn \/ Detach \/ Unload \/ AttachOnWake
           \/ KernelSwitch \/ RecordWanted \/ StartSweep \/ Align
  BY <1>1, <1>9, Zenon DEF WorkerOff, WorkerOn, Detach, Unload, AttachOnWake, KernelSwitch,
     RecordWanted, StartSweep, Align, locks, switch, amends
<1>10. CASE \/ Boot \/ Connect \/ Disconnect \/ PostedDecision \/ GraceEnds \/ Watchdog
            \/ SweepBegins \/ SweepEnds \/ DriverVanishes \/ LinkBreaks
            \/ (\E f, k \in BOOLEAN : SettingsUpdated(f, k)) \/ TrustAdded
            \/ (\E n \in Needle : SweepFinds(n)) \/ UNCHANGED vars
  BY <1>1, <1>10, Zenon DEF Boot, Connect, Disconnect, CountChanged, PostedDecision,
     GraceEnds, Watchdog, SweepBegins, SweepEnds, DriverVanishes, LinkBreaks,
     SettingsUpdated, TrustAdded, SweepFinds, vars, locks, switch, amends
<1>11. QED
  BY <1>2, <1>3, <1>4, <1>5, <1>6, <1>7, <1>8, <1>9, <1>10, Zenon DEF Next, Work

(* What a reconciliation has cleared waits in the step that sends it.      *)
LEMMA KeepStep ==
  ASSUME SwitchInv, KeepInv, [Next]_vars
  PROVE  KeepInv'
<1>1. CASE UNCHANGED <<todo, keep>>
  BY <1>1 DEF KeepInv
<1>2. CASE keep' = {}
  BY <1>2 DEF KeepInv
<1>3. CASE UNCHANGED keep /\ (todo = <<>> \/ Head(todo) # "resend")
  BY <1>2, <1>3 DEF KeepInv
<1>4. ASSUME NEW trusted, Reconcile(trusted) PROVE KeepInv'
  <2>1. todo # <<>> /\ Head(todo) = "reconcile" /\ up /\ todo' = Tail(todo)
    BY <1>4, Zenon DEF Reconcile, Step
  <2>2. todo' \in {LastResend, BootResend}
    BY <2>1, Places, Zenon DEF SwitchInv
  <2>3. todo' # <<>> /\ Head(todo') = "resend"
    BY <2>2, NextSteps, NoneLeft
  <2>4. QED
    BY <2>3 DEF KeepInv
<1>5. CASE Resend
  <2>1. CASE keep = {} /\ UNCHANGED amends
    BY <1>2, <2>1 DEF amends
  <2>2. CASE UNCHANGED todo
    <3>1. todo # <<>> /\ Head(todo) = "resend"
      BY <1>5, Zenon DEF Resend, Step
    <3>2. QED
      BY <2>2, <3>1 DEF KeepInv
  <2>3. QED
    BY <1>5, <2>1, <2>2, Zenon DEF Resend
<1>6. CASE \/ WorkerOff \/ WorkerOn \/ Detach \/ Unload \/ Release \/ Rearm \/ Start
           \/ AttachOnWake \/ KernelSwitch \/ RecordWanted \/ StartSweep \/ Align
           \/ Remediate
  <2>1. UNCHANGED keep
    BY <1>6, Zenon DEF WorkerOff, WorkerOn, Detach, Unload, Release, Rearm, Start,
       AttachOnWake, KernelSwitch, RecordWanted, StartSweep, Align, Remediate, amends
  <2>2. Head(todo) # "resend"
    BY <1>6 DEF WorkerOff, WorkerOn, Detach, Unload, Release, Rearm, Start,
       AttachOnWake, KernelSwitch, RecordWanted, StartSweep, Align, Remediate, Step
  <2>3. QED
    BY <1>3, <2>1, <2>2
<1>7. CASE \/ Boot \/ Connect \/ Disconnect \/ PostedDecision \/ GraceEnds
           \/ (\E f, k \in BOOLEAN : SettingsUpdated(f, k)) \/ TrustAdded
           \/ (\E n \in Needle : HandleHit(n))
  BY <1>3, <1>7, Zenon DEF Boot, Connect, Disconnect, CountChanged, PostedDecision,
     GraceEnds, SettingsUpdated, TrustAdded, HandleHit, Idle, amends, SwitchInv
<1>8. CASE \/ Watchdog \/ RetryLocks \/ SweepBegins \/ SweepEnds \/ DriverVanishes
           \/ LinkBreaks \/ (\E n \in Needle : SweepFinds(n))
           \/ (\E f \in File : FileReappears(f)) \/ UNCHANGED vars
  BY <1>1, <1>8, Zenon DEF Watchdog, RetryLocks, SweepBegins, SweepEnds, DriverVanishes,
     LinkBreaks, SweepFinds, FileReappears, vars, amends
<1>9. CASE ProcessEnd
  BY <1>2, <1>9, Zenon DEF ProcessEnd
<1>10. QED
  BY <1>4, <1>5, <1>6, <1>7, <1>8, <1>9, Zenon DEF Next, Work

LEMMA RecordInit == Init => RecordInv
<1>1. Init => ListInv
  BY FS_EmptySet, LifetimeAssumption DEF Init, ListInv
<1>2. Init => KeepInv
  BY DEF Init, KeepInv
<1>3. QED
  BY <1>1, <1>2, SwitchInit DEF RecordInv

LEMMA RecordInvariance == Spec => []RecordInv
<1>1. RecordInv /\ [Next]_vars => RecordInv'
  BY SwitchStep, ListStep, KeepStep DEF RecordInv, SwitchInv
<1>2. QED
  BY <1>1, RecordInit, PTL DEF Spec

(* While the service protects, its list of locks is the recorded one, also *)
(* when its first wake-up follows a start into standby and whatever was    *)
(* reconciled, unless the last save failed or a record could not be read.  *)
THEOREM ListIsInForce == Spec => []ListInForce
<1>1. RecordInv => ListInForce
  BY AtRest, Zenon DEF RecordInv, SwitchInv, ListInv, ListInForce, Idle, Rests, Protects,
     StandsOff
<1>2. QED
  BY <1>1, RecordInvariance, PTL

(* Once the sources run, the list is the recorded one.                     *)
LEMMA ListAtRest ==
  ASSUME RecordInv, ~suspended, ~apart, Rests
  PROVE  execList = manifest.exec
BY Zenon DEF RecordInv, ListInv, Rests, Protects, StandsOff

LEMMA BlockKeepsRecord ==
  ASSUME NEW n, Block(n), ~apart', execList = manifest.exec
  PROVE  \/ UNCHANGED manifest /\ (link = "live" \/ ~EB!HasRoomFor(n))
         \/ manifest'.exec = manifest.exec \union {n}
<1>1. CASE UNCHANGED <<locks, apart>> /\ (link = "live" \/ ~EB!HasRoomFor(n))
  BY <1>1, Zenon DEF locks
<1>2. CASE EB!AddEntry(n, TRUE) /\ apart' = ~Written
  <2>1. execList' = execList \union {n}
    BY <1>2, AddFacts, Zenon
  <2>2. manifest' = [exec |-> execList', module |-> {}]
    BY <1>2, Zenon DEF Written
  <2>3. QED
    BY <2>1, <2>2
<1>3. QED
  BY <1>1, <1>2, BlockFacts, Zenon

LEMMA RecordStep ==
  ASSUME RecordInv, [Next]_vars, ~suspended, ~apart, ~apart',
         NEW n \in (manifest.exec \union keep) \ (manifest'.exec \union keep')
  PROVE  \/ \E trusted \in SUBSET Needle : Reconcile(trusted) /\ n \in trusted
         \/ n \in keep /\ (link = "live" \/ ~EB!HasRoomFor(n) \/ ~up')
<1>1. ~UNCHANGED <<manifest, keep>>
  OBVIOUS
<1>2. ASSUME NEW m \in Needle, HandleHit(m) PROVE FALSE
  <2>1. Rests /\ Block(m) /\ keep' = keep
    BY <1>2, AtRest, Zenon DEF HandleHit, Idle, RecordInv, SwitchInv
  <2>2. manifest.exec \subseteq manifest'.exec
    BY <2>1, ListAtRest, BlockKeepsRecord
  <2>3. QED
    BY <2>1, <2>2
<1>3. ASSUME NEW trusted \in SUBSET Needle, Reconcile(trusted) PROVE n \in trusted
  <2>1. todo # <<>> /\ Head(todo) = "reconcile" /\ up
    BY <1>3, Zenon DEF Reconcile, Step
  <2>2. Rests
    BY <2>1, Places, Zenon DEF RecordInv, SwitchInv
  <2>3. execList = manifest.exec
    BY <2>2, ListAtRest
  <2>4. keep = {}
    BY <2>1 DEF RecordInv, KeepInv
  <2>5. \/ UNCHANGED <<locks, amends>>
        \/ \E recorded : keep' = (execList \union recorded) \ trusted
    BY <1>3, Zenon DEF Reconcile
  <2>6. \E recorded : keep' = (execList \union recorded) \ trusted
    BY <1>1, <2>5, Zenon DEF locks, amends
  <2>7. QED
    BY <2>3, <2>4, <2>6
<1>4. CASE Resend
  <2>1. PICK m \in keep : Block(m) /\ keep' = keep \ {m}
    BY <1>1, <1>4, Zenon DEF Resend, locks, amends
  <2>2. todo # <<>> /\ Head(todo) = "resend" /\ up
    BY <1>4, Zenon DEF Resend, Step
  <2>3. execList = manifest.exec
    BY <2>2, Places, ListAtRest, Zenon DEF RecordInv, SwitchInv
  <2>4. CASE UNCHANGED manifest /\ (link = "live" \/ ~EB!HasRoomFor(m))
    <3>1. n = m
      BY <2>1, <2>4
    <3>2. QED
      BY <2>1, <2>4, <3>1
  <2>5. CASE manifest'.exec = manifest.exec \union {m}
    BY <2>1, <2>5
  <2>6. QED
    BY <2>1, <2>3, <2>4, <2>5, BlockKeepsRecord
<1>5. CASE ProcessEnd
  BY <1>5 DEF ProcessEnd
<1>6. ~(Release \/ Rearm \/ Start \/ RetryLocks \/ \E f \in File : FileReappears(f))
  BY <1>1, SuspendFacts, ResumeFacts, RearmFacts, AppearFacts, Zenon DEF Release, Rearm,
     Start, RetryLocks, FileReappears, locks, amends
<1>7. ~(\/ WorkerOff \/ WorkerOn \/ Detach \/ Unload \/ AttachOnWake \/ KernelSwitch
        \/ RecordWanted \/ StartSweep \/ Align \/ Remediate)
  BY <1>1, Zenon DEF WorkerOff, WorkerOn, Detach, Unload, AttachOnWake, KernelSwitch,
     RecordWanted, StartSweep, Align, Remediate, locks, amends
<1>8. ~(\/ Boot \/ Connect \/ Disconnect \/ PostedDecision \/ GraceEnds \/ Watchdog
        \/ SweepBegins \/ SweepEnds \/ DriverVanishes \/ LinkBreaks
        \/ (\E f, k \in BOOLEAN : SettingsUpdated(f, k)) \/ TrustAdded
        \/ (\E m \in Needle : SweepFinds(m)) \/ UNCHANGED vars)
  BY <1>1, Zenon DEF Boot, Connect, Disconnect, CountChanged, PostedDecision, GraceEnds,
     Watchdog, SweepBegins, SweepEnds, DriverVanishes, LinkBreaks, SettingsUpdated,
     TrustAdded, SweepFinds, vars, locks, amends
<1>9. QED
  BY <1>2, <1>3, <1>4, <1>5, <1>6, <1>7, <1>8, Zenon DEF Next, Work

(* While the service protects, and its saves succeed, the record of what   *)
(* it blocks loses nothing but what is trusted -- and, of what is cleared  *)
(* to be sent again, what goes to the driver, finds the table full, or is  *)
(* overtaken by the end of the process.                                    *)
(* (In a standby that began at start-up it does: RecordKept does not hold.) *)
THEOREM ProtectionKeepsRecord == Spec => RecordGrowsInProtection
<1> DEFINE Kept ==
      ~suspended /\ ~apart /\ ~apart' =>
         \A n \in (manifest.exec \union keep) \ (manifest'.exec \union keep') :
            \/ \E trusted \in SUBSET Needle : Reconcile(trusted) /\ n \in trusted
            \/ n \in keep /\ (link = "live" \/ ~EB!HasRoomFor(n) \/ ~up')
<1>1. RecordInv /\ [Next]_vars => [Kept]_vars
  BY RecordStep
<1>2. QED
  BY <1>1, RecordInvariance, PTL DEF Spec, RecordGrowsInProtection

---------------------------------------------------------------------------
(* The link that is taken here is the one DriverLink gives.                *)

(* An attempt is the same in both.                                         *)
LEMMA AttachIsAttempt ==
  ASSUME KernelType, KernelType'
  PROVE  Attach <=> KL!Attempt
BY DEF Attach, KL!Attempt, KernelType

LEMMA SwitchingFacts ==
  ASSUME SwitchType, KernelType, KernelType', NEW on \in BOOLEAN, ApplyKernelEnabled(on)
  PROVE  [KL!Next]_(KL!vars)
<1>1. CASE on = kernelEnabled
  BY <1>1 DEF ApplyKernelEnabled, kernel, KL!vars
<1>2. CASE on # kernelEnabled /\ on
  <2>1. ~kernelEnabled /\ kernelEnabled' = TRUE /\ Attach
    BY <1>2, Zenon DEF ApplyKernelEnabled, SwitchType
  <2>2. KL!SwitchOn
    BY <2>1, AttachIsAttempt, Zenon DEF KL!SwitchOn
  <2>3. QED
    BY <2>2, Zenon DEF KL!Next
<1>3. CASE on # kernelEnabled /\ ~on
  <2>1. /\ kernelEnabled /\ kernelEnabled' = FALSE
        /\ link' = "none" /\ driver' = driver
    BY <1>3, Zenon DEF ApplyKernelEnabled, SwitchType
  <2>2. KL!SwitchOff
    BY <2>1, Zenon DEF KL!SwitchOff
  <2>3. QED
    BY <2>2, Zenon DEF KL!Next
<1>4. QED
  BY <1>1, <1>2, <1>3

LEMMA StepOfLink ==
  ASSUME SwitchInv, [Next]_vars
  PROVE  [KL!Next]_(KL!vars)
<1>1. /\ SwitchType /\ KernelType /\ KernelType'
      /\ ~kernelEnabled => link = "none"
  BY TypeParts, OtherTypesStep DEF SwitchInv
<1>2. CASE UNCHANGED <<kernelEnabled, driver, link>>
  BY <1>2 DEF KL!vars
<1>3. CASE Unload
  <2>1. driver' \in {driver, "unloaded"} /\ UNCHANGED <<kernelEnabled, link>>
    BY <1>3 DEF Unload, switch
  <2>2. ~kernelEnabled
    BY <1>3, Places, Zenon DEF Unload, Step, SwitchInv
  <2>3. CASE driver = "loaded" /\ driver' = "unloaded"
    <3>1. KL!Unload
      BY <1>1, <2>1, <2>2, <2>3 DEF KL!Unload
    <3>2. QED
      BY <3>1, Zenon DEF KL!Next
  <2>4. QED
    BY <1>1, <1>2, <2>1, <2>3 DEF KernelType
<1>4. CASE LinkBreaks
  <2>1. KL!Break
    BY <1>4, Zenon DEF LinkBreaks, switch, KL!Break
  <2>2. QED
    BY <2>1, Zenon DEF KL!Next
<1>5. CASE DriverVanishes
  <2>1. /\ driver = "loaded" /\ driver' = "unloaded" /\ kernelEnabled' = kernelEnabled
        /\ link' = IF link = "live" THEN "lost" ELSE link
    BY <1>5, Zenon DEF DriverVanishes, switch
  <2>2. KL!Unload
    BY <2>1 DEF KL!Unload
  <2>3. QED
    BY <2>2, Zenon DEF KL!Next
<1>6. CASE Watchdog
  <2>1. kernelEnabled /\ kernelEnabled' = kernelEnabled /\ Attach
    BY <1>6, Zenon DEF Watchdog, switch
  <2>2. KL!Retry
    BY <1>1, <2>1, AttachIsAttempt, Zenon DEF KL!Retry
  <2>3. QED
    BY <2>2, Zenon DEF KL!Next
<1>7. CASE ProcessEnd
  <2>1. kernelEnabled' = FALSE /\ link' = "none" /\ driver' = driver
    BY <1>7, Zenon DEF ProcessEnd
  <2>2. CASE kernelEnabled
    <3>1. KL!SwitchOff
      BY <2>1, <2>2, Zenon DEF KL!SwitchOff
    <3>2. QED
      BY <3>1, Zenon DEF KL!Next
  <2>3. CASE ~kernelEnabled
    <3>1. kernelEnabled = FALSE
      BY <1>1, <2>3, Zenon DEF SwitchType
    <3>2. QED
      BY <1>1, <2>1, <2>3, <3>1 DEF KL!vars
  <2>4. QED
    BY <2>2, <2>3
<1>8. CASE Detach
  BY <1>1, <1>8, SwitchingFacts, Zenon DEF Detach
<1>9. CASE AttachOnWake
  <2>1. ApplyKernelEnabled(TRUE) \/ UNCHANGED <<kernelEnabled, kernel>>
    BY <1>9, Zenon DEF AttachOnWake, kernel
  <2>2. QED
    BY <1>1, <1>2, <2>1, SwitchingFacts, Zenon DEF kernel
<1>10. CASE KernelSwitch
  <2>1. \/ SetKernelEnabled(TRUE) \/ SetKernelEnabled(kernelSetting)
        \/ UNCHANGED <<kernelEnabled, kernel>>
    BY <1>10, Zenon DEF KernelSwitch, kernel
  <2>2. \/ ApplyKernelEnabled(TRUE) \/ ApplyKernelEnabled(kernelSetting)
        \/ UNCHANGED <<kernelEnabled, kernel>>
    BY <2>1, Zenon DEF SetKernelEnabled, kernel
  <2>3. kernelSetting \in BOOLEAN
    BY TypeParts DEF SwitchInv, MainType
  <2>4. QED
    BY <1>1, <1>2, <2>2, <2>3, SwitchingFacts, Zenon DEF kernel
<1>11. CASE \/ WorkerOff \/ WorkerOn \/ Release \/ Rearm \/ Start \/ RecordWanted
            \/ StartSweep \/ Align \/ Remediate \/ Amends
  BY <1>2, <1>11, AmendFacts, Zenon DEF WorkerOff, WorkerOn, Release, Rearm, Start,
     RecordWanted, StartSweep, Align, Remediate, kernel, switch
<1>12. CASE \/ Boot \/ Connect \/ Disconnect \/ PostedDecision \/ GraceEnds
            \/ RetryLocks \/ SweepBegins \/ SweepEnds
            \/ (\E f, k \in BOOLEAN : SettingsUpdated(f, k)) \/ TrustAdded
            \/ (\E n \in Needle : SweepFinds(n) \/ HandleHit(n))
            \/ (\E f \in File : FileReappears(f)) \/ UNCHANGED vars
  BY <1>2, <1>12, Zenon DEF Boot, Connect, Disconnect, CountChanged, PostedDecision,
     GraceEnds, RetryLocks, SweepBegins, SweepEnds, SettingsUpdated, TrustAdded,
     SweepFinds, HandleHit, FileReappears, vars, kernel, switch
<1>13. QED
  BY <1>3, <1>4, <1>6, <1>7, <1>8, <1>9, <1>10, <1>11, <1>12, <1>5, Zenon
     DEF Next, Work, Amends

(* Whatever standby, wake-ups, settings, restarts and others do, the link  *)
(* is used as DriverLink was shown to give it.                             *)
THEOREM UsesTheLinkGiven == Spec => LinkSpec
<1>1. Init => KL!Init
  BY DEF Init, KL!Init
<1>2. SwitchInv /\ [Next]_vars => [KL!Next]_(KL!vars)
  BY StepOfLink
<1>3. QED
  BY <1>1, <1>2, SwitchInvariance, PTL DEF Spec, LinkSpec, KL!Spec
=============================================================================
