-------------------------- MODULE TrustReconcile --------------------------
(***************************************************************************)
(* Denying a confirmed-malicious image (Worker::blacklistExec) and taking  *)
(* the denial back when the user trusts it (reconcileKernelBlocksAfterTrust*)
(* ).  A denial can be an entry of the kernel's list (KernelList), one of  *)
(* the service's own list (ExecBlock, here only its content), or a hold on *)
(* one image: a deny-execute ACE, a frozen process, a banned process.      *)
(*                                                                         *)
(* Entries are paths without their drive, so images that differ only in    *)
(* the drive share an entry.  The kernel's protocol is used without a      *)
(* removal: the service clears the list and sends again what it keeps,     *)
(* as it read it from the registry.  The main thread does this command by  *)
(* command while the kernel's threads run and either side may go down.     *)
(***************************************************************************)
EXTENDS KernelList

CONSTANTS
    Image,          \* executable files outside the exempt directories
    NeedleOf,       \* the entry blacklistExec makes of an image's path
    FileTrust,      \* images the user may trust one by one
    DirTrust,       \* directories the user may trust
    Inside,         \* the images in a directory
    DenyExecute,    \* FileDenyExecuteEnabled
    MaxEntries,     \* UserModeExecBlockMax
    Watched,        \* bound: the images whose holds are followed
    MaxHeld,        \* bound on holds at a time
    MaxFaults       \* bound on power cuts, unloads, lost links, crashes, failed writes

ASSUME TrustAssumption ==
    /\ NeedleOf \in [Image -> Needle]
    /\ FileTrust \subseteq Image
    /\ Inside \in [DirTrust -> SUBSET Image]
    /\ DenyExecute \in BOOLEAN
    /\ Watched \subseteq Image
    /\ MaxEntries \in Nat /\ MaxHeld \in Nat /\ MaxFaults \in Nat

VARIABLES
    up,         \* the service runs
    todo,       \* what the reconciliation does next, or "idle"
    seen,       \* the entries it read
    left,       \* those it still has to send again
    link,       \* "none", "live", or "lost": cut off and not yet noticed
    trusted,    \* the trust entries among the rules
    userList,   \* needles on the service's own list
    held,       \* <<"ace" | "frozen" | "banned", image>>
    faults

serviceVars == <<up, todo, seen, left, link, trusted, userList, held, faults>>
vars == <<kernelVars, serviceVars>>

Hold == {"ace", "frozen", "banned"} \X Image

TypeOK ==
    /\ KernelTypeOK
    /\ up \in BOOLEAN
    /\ todo \in {"idle", "unban", "read", "clear", "send"}
    /\ seen \in SUBSET Needle /\ left \in SUBSET Needle /\ userList \in SUBSET Needle
    /\ link \in {"none", "live", "lost"}
    /\ trusted \in SUBSET (FileTrust \union DirTrust)
    /\ held \in SUBSET Hold
    /\ faults \in 0..MaxFaults

Init ==
    /\ KernelInit
    /\ up = FALSE /\ todo = "idle" /\ seen = {} /\ left = {} /\ link = "none"
    /\ trusted = {} /\ userList = {} /\ held = {} /\ faults = 0

Idle == up /\ todo = "idle" /\ command = "none"
Doing(step) == up /\ todo = step /\ command = "none"

(* trustNoteForPath.                                                       *)
IsTrusted(i) == i \in trusted \/ \E d \in trusted \intersect DirTrust : i \in Inside[d]

(* wouldBlockTrusted: a directory's path contains no image's path, so it   *)
(* frees no entry, whatever is inside.                                     *)
WouldBlockTrusted(n) == \E i \in trusted \intersect Image : NeedleOf[i] = n

---------------------------------------------------------------------------
(* blockExecPath: the kernel first, the service's own list if there is no  *)
(* link.  On a link that is lost the command fails and nobody looks.       *)
AddToUserList(n) ==
    userList' = IF Cardinality(userList) < MaxEntries THEN userList \union {n} ELSE userList

Block(n) ==
    \/ link = "live" /\ CmdAdd(n) /\ UNCHANGED userList
    \/ link = "lost" /\ UNCHANGED <<kernelVars, userList>>
    \/ link = "none" /\ AddToUserList(n) /\ UNCHANGED kernelVars

BlacklistExec(i) ==
    /\ Idle /\ ~IsTrusted(i)
    /\ Block(NeedleOf[i])
    /\ held' \in {held} \union
           IF DenyExecute /\ i \in Watched /\ Cardinality(held) < MaxHeld
           THEN {held \union {<<"ace", i>>}} ELSE {}
    /\ UNCHANGED <<up, todo, seen, left, link, trusted, faults>>

(* What else holds an image back: UserModeProcessContainment freezes what  *)
(* could not be killed, banProcess and the kernel's own HashScan ban.      *)
HoldBack(how, i) ==
    /\ Cardinality(held) < MaxHeld
    /\ \/ how = "frozen" /\ Idle /\ ~IsTrusted(i)
       \/ how = "banned" /\ Running
    /\ held' = held \union {<<how, i>>}
    /\ UNCHANGED <<kernelVars, up, todo, seen, left, link, trusted, userList, faults>>

(* The process ends.                                                       *)
Exits(i) ==
    /\ held' = held \ {<<"frozen", i>>, <<"banned", i>>}
    /\ held' # held
    /\ UNCHANGED <<kernelVars, up, todo, seen, left, link, trusted, userList, faults>>

---------------------------------------------------------------------------
(* The trust centre.  Trusting again what is trusted reconciles again.     *)

AddTrust(t) ==
    /\ Idle
    /\ trusted' = trusted \union {t}
    /\ todo' = "unban"
    /\ UNCHANGED <<kernelVars, up, seen, left, link, userList, held, faults>>

RemoveTrust(t) ==
    /\ Idle /\ t \in trusted
    /\ trusted' = trusted \ {t}
    /\ UNCHANGED <<kernelVars, up, todo, seen, left, link, userList, held, faults>>

---------------------------------------------------------------------------
(* reconcileKernelBlocksAfterTrust.                                        *)

Unban ==
    /\ Doing("unban")
    /\ todo' = "read"
    /\ held' = IF link = "live" THEN held \ ({"banned"} \X Image) ELSE held
    /\ UNCHANGED <<kernelVars, up, seen, left, link, trusted, userList, faults>>

(* The entries: persistedExecBlockList is the registry, not the table, and *)
(* the service's own list.  Then undenyExecute on the files trusted by     *)
(* name, and thawByPathNeedle on every trust entry, whose path without     *)
(* drive is looked for in the paths of the frozen images.                  *)
Thawed(i) == WouldBlockTrusted(NeedleOf[i]) \/ IsTrusted(i)

Read ==
    /\ Doing("read")
    /\ todo' = "clear"
    /\ seen' = registry \union userList
    /\ held' = held \ (({"ace"} \X (trusted \intersect Image))
                         \union ({"frozen"} \X {i \in Image : Thawed(i)}))
    /\ UNCHANGED <<kernelVars, up, left, link, trusted, userList, faults>>

ToKeep == {n \in seen : ~WouldBlockTrusted(n)}

(* clearExecBlock clears both lists; its own list always says yes.  With   *)
(* nothing to keep there is nothing to send.                               *)
Clear_KernelFirst ==
    /\ Doing("clear") /\ ToKeep # seen
    /\ IF link = "live" THEN CmdClear ELSE UNCHANGED kernelVars
    /\ userList' = IF link = "live" THEN userList ELSE {}
    /\ left' = ToKeep
    /\ todo' = IF ToKeep = {} THEN "idle" ELSE "send"
    /\ seen' = IF ToKeep = {} THEN {} ELSE seen
    /\ UNCHANGED <<up, link, trusted, held, faults>>

Clear_SendsNothing ==
    /\ Doing("clear") /\ ToKeep # seen
    /\ IF link = "live" THEN CmdClear ELSE UNCHANGED kernelVars
    /\ userList' = {} /\ seen' = {}
    /\ todo' = "idle"
    /\ UNCHANGED <<left, up, link, trusted, held, faults>>

Clear ==
    /\ Doing("clear") /\ ToKeep # seen
    /\ IF link = "live" THEN CmdClear ELSE UNCHANGED kernelVars
    /\ userList' = {}
    /\ left' = ToKeep
    /\ todo' = IF ToKeep = {} THEN "idle" ELSE "send"
    /\ seen' = IF ToKeep = {} THEN {} ELSE seen
    /\ UNCHANGED <<up, link, trusted, held, faults>>

NothingToDrop ==
    /\ Doing("clear") /\ ToKeep = seen
    /\ todo' = "idle" /\ seen' = {}
    /\ UNCHANGED <<kernelVars, up, left, link, trusted, userList, held, faults>>

(* In the order of the list that was read, which is the registry's.        *)
Send(n) ==
    /\ Doing("send") /\ n \in left
    /\ Block(n)
    /\ left' = left \ {n}
    /\ todo' = IF left = {n} THEN "idle" ELSE "send"
    /\ seen' = IF left = {n} THEN {} ELSE seen
    /\ UNCHANGED <<up, link, trusted, held, faults>>

---------------------------------------------------------------------------
(* The rest of the machine.                                                *)

(* The service starts; with the driver up it connects or fails to.  Then   *)
(* it reconciles, for the trust of earlier runs.  (It does not connect to  *)
(* a driver that is still starting here: KernelList shows what that does.) *)
Start ==
    /\ ~up
    /\ up' = TRUE /\ todo' = "unban"
    /\ link' \in IF driver = "on" THEN {"none", "live"} ELSE {"none"}
    /\ UNCHANGED <<kernelVars, seen, left, trusted, userList, held, faults>>

Connect ==
    /\ Idle /\ link = "none" /\ driver = "on"
    /\ link' = "live"
    /\ UNCHANGED <<kernelVars, up, todo, seen, left, trusted, userList, held, faults>>

Fault == faults < MaxFaults /\ faults' = faults + 1

LinkBreaks ==
    /\ Fault /\ link = "live"
    /\ link' = "lost"
    /\ UNCHANGED <<kernelVars, up, todo, seen, left, trusted, userList, held>>

(* The reader thread finds its port closed.                                *)
LossNoticed ==
    /\ link = "lost" /\ link' = "none"
    /\ UNCHANGED <<kernelVars, up, todo, seen, left, trusted, userList, held, faults>>

Stops == up' = FALSE /\ todo' = "idle" /\ seen' = {} /\ left' = {} /\ link' = "none"

ServiceDies ==
    /\ Fault /\ up
    /\ Stops
    /\ UNCHANGED <<kernelVars, trusted, userList, held>>

MachineGoesDown ==
    /\ Fault /\ PowerCut
    /\ Stops
    /\ held' = {h \in held : h[1] = "ace"}
    /\ UNCHANGED <<trusted, userList>>

DriverUnloads ==
    /\ Fault /\ BeginUnload
    /\ UNCHANGED <<up, todo, seen, left, link, trusted, userList, held>>

(* Counted among the faults: a failing write, a record that cannot be read *)
(* and a worker that cannot be created.                                    *)
KernelFails == \/ failed' /\ ~failed
               \/ LoadPolicy /\ (worker' = "none" \/ live' # registry)

PortCloses == ClosePort /\ link' = (IF link = "live" THEN "lost" ELSE link)

KernelOnItsOwn ==
    /\ \/ (Load \/ LoadPolicy \/ Internal) /\ ~ClosePort /\ UNCHANGED link
       \/ PortCloses
    /\ IF KernelFails THEN Fault ELSE UNCHANGED faults
    /\ UNCHANGED <<up, todo, seen, left, trusted, userList, held>>

---------------------------------------------------------------------------
Reconcile == Unban \/ Read \/ Clear \/ NothingToDrop \/ \E n \in left : Send(n)

Next ==
    \/ \E i \in Image : BlacklistExec(i) \/ Exits(i)
    \/ \E h \in {"frozen", "banned"} \X Watched : HoldBack(h[1], h[2])
    \/ \E t \in FileTrust \union DirTrust : AddTrust(t) \/ RemoveTrust(t)
    \/ Reconcile
    \/ Start \/ Connect \/ LinkBreaks \/ LossNoticed \/ ServiceDies
    \/ MachineGoesDown \/ DriverUnloads
    \/ KernelOnItsOwn

Spec == Init /\ [][Next]_vars

---------------------------------------------------------------------------
Finishes == up /\ todo # "idle" /\ todo' = "idle" /\ up'

(* A reconciliation that ends leaves no denial on a file trusted by name:  *)
(* no entry of the service's own list, no ACE, no frozen process, and, if  *)
(* the link held, no kernel entry but one the registry did not show it.    *)
TrustTakesEffect ==
    [][Finishes =>
        /\ \A n \in userList' : ~WouldBlockTrusted(n)
        /\ \A i \in trusted \intersect Image : <<"ace", i>> \notin held
        /\ link = "live" => \A n \in live' \intersect seen : ~WouldBlockTrusted(n)]_vars

(* ... and of the entries it read that deny nobody trusted it loses none   *)
(* when it clears the lists, if the link held and the kernel's table has   *)
(* room.                                                                   *)
OthersStayDenied ==
    [][(Finishes /\ link = "live" /\ \E n \in seen : WouldBlockTrusted(n)) =>
        \/ \A n \in seen : WouldBlockTrusted(n) \/ n \in live' \union userList'
        \/ Cardinality(live') = Slots]_vars
=============================================================================
