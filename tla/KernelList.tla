---------------------------- MODULE KernelList ----------------------------
(***************************************************************************)
(* The kernel driver's "no execute" list (g_Blw.FileExecBlock; "no load"   *)
(* has the same shape): a table of Slots entries in memory that commands   *)
(* from the service change, and its copy in the registry, from which the   *)
(* driver starts.  The copy is written behind the commands' backs by a     *)
(* worker thread that waits a little first (Policy.c).                     *)
(*                                                                         *)
(* Three threads can be writing the copy: the worker, a command that found *)
(* no worker, and the unload routine.  Each copies the table under its     *)
(* lock, lets the lock go, and then writes -- or fails to, of which nobody *)
(* hears.  The port is open before the table has been loaded.              *)
(***************************************************************************)
EXTENDS FiniteSets, Naturals

CONSTANTS Needle,      \* path substrings that can be listed
          Slots        \* BLW_MAX_PROTECTED

ASSUME KernelAssumption == IsFiniteSet(Needle) /\ Slots \in Nat

VARIABLES
    driver,     \* "off", "starting" (the port is open), "on", or the stage of unload
    live,       \* the table
    registry,   \* \Policy\FileExecBlock
    dirty,      \* PolicyDirtyMask
    signal,     \* PolicyEvent
    worker,     \* BlwPolicyPersistThread: "wait", "delay", "flush", "exited"; "none" if it
                \* could not be created
    last,       \* its "stopping"
    command,    \* the message being handled: "none", "added" (table changed), "mark", "flush"
    flushing,   \* per thread: "no", "copy", "write"
    copy,       \* per thread: the serialised table
    failed      \* since a write that failed, or that began before the table was
                \* loaded, the table has not been written as it stands

kernelVars == <<driver, live, registry, dirty, signal, worker, last, command,
                flushing, copy, failed>>

Flusher == {"worker", "command", "unload"}

Table == {t \in SUBSET Needle : Cardinality(t) <= Slots}

KernelTypeOK ==
    /\ driver \in {"off", "starting", "on", "stopping", "stopped", "draining", "closed"}
    /\ live \in Table /\ registry \in Table
    /\ dirty \in BOOLEAN /\ signal \in BOOLEAN /\ last \in BOOLEAN
    /\ failed \in BOOLEAN
    /\ worker \in {"wait", "delay", "flush", "exited", "none"}
    /\ command \in {"none", "added", "mark", "flush"}
    /\ flushing \in [Flusher -> {"no", "copy", "write"}]
    /\ copy \in [Flusher -> Table]

Running == driver # "off"

(* The service can still send: BlwTearDownCommunication has not run.       *)
PortOpen == driver \notin {"off", "closed"}

(* PolicyThread # NULL.                                                    *)
HasWorker == driver \in {"on", "stopping"} /\ worker # "none"

KernelInit ==
    /\ driver = "off" /\ live = {} /\ registry = {}
    /\ dirty = FALSE /\ signal = FALSE /\ worker = "exited" /\ last = FALSE
    /\ command = "none"
    /\ flushing = [f \in Flusher |-> "no"]
    /\ copy = [f \in Flusher |-> {}]
    /\ failed = FALSE

---------------------------------------------------------------------------
(* DriverEntry opens the port                                              *)
Load ==
    /\ driver = "off"
    /\ driver' = "starting"
    /\ worker' = "none"
    /\ UNCHANGED <<live, registry, dirty, signal, last, command, flushing, copy, failed>>

(* and then adds the registry's entries to the table, as far as they fit   *)
(* and can be read, and starts the worker, which may fail.                 *)
Loaded == {t \in Table : /\ live \subseteq t /\ t \subseteq live \union registry
                         /\ (registry \subseteq t \/ Cardinality(t) = Slots)}

LoadPolicy ==
    /\ driver = "starting"
    /\ driver' = "on"
    /\ live' \in Loaded \union {live}
    /\ worker' \in {"wait", "none"} /\ last' = FALSE
    /\ dirty' = FALSE /\ signal' = FALSE
    /\ failed' = (failed \/ flushing["command"] # "no")
    /\ UNCHANGED <<registry, command, flushing, copy>>

(* The machine loses power, or the driver its process: memory is gone.     *)
PowerCut ==
    /\ Running
    /\ driver' = "off" /\ live' = {}
    /\ dirty' = FALSE /\ signal' = FALSE /\ worker' = "exited" /\ last' = FALSE
    /\ command' = "none"
    /\ flushing' = [f \in Flusher |-> "no"]
    /\ copy' = [f \in Flusher |-> {}]
    /\ failed' = FALSE
    /\ UNCHANGED registry

---------------------------------------------------------------------------
(* Commands.  The sender waits until its command is handled.               *)

(* BlwAddToList: a full table drops the entry, and says nothing.           *)
Insert(n) ==
    IF Cardinality(live) < Slots THEN live \union {n} ELSE live

CmdAdd_Forgets(n) ==
    /\ PortOpen /\ command = "none"
    /\ live' = Insert(n)
    /\ UNCHANGED <<command, driver, registry, dirty, signal, worker, last, flushing, copy, failed>>

CmdAdd(n) ==
    /\ PortOpen /\ command = "none"
    /\ live' = Insert(n)
    /\ command' = "added"
    /\ UNCHANGED <<driver, registry, dirty, signal, worker, last, flushing, copy, failed>>

(* Removing an entry that is there is written back like an addition; one   *)
(* that is not there changes nothing.  The service does not use it yet.    *)
CmdDel(n) ==
    /\ PortOpen /\ command = "none" /\ n \in live
    /\ live' = live \ {n}
    /\ command' = "added"
    /\ UNCHANGED <<driver, registry, dirty, signal, worker, last, flushing, copy, failed>>

(* Runtime only: a CLEAR is never written back.                            *)
CmdClear ==
    /\ PortOpen /\ command = "none"
    /\ live' = {}
    /\ UNCHANGED <<driver, registry, dirty, signal, worker, last, command, flushing, copy, failed>>

(* BlwMarkPolicyDirty: with no worker the command writes by itself.        *)
CheckWorker ==
    /\ command = "added"
    /\ IF HasWorker
       THEN command' = "mark" /\ UNCHANGED flushing
       ELSE command' = "flush" /\ flushing' = [flushing EXCEPT !["command"] = "copy"]
    /\ UNCHANGED <<driver, live, registry, dirty, signal, worker, last, copy, failed>>

MarkDirty ==
    /\ command = "mark"
    /\ dirty' = TRUE /\ signal' = TRUE
    /\ command' = "none"
    /\ UNCHANGED <<driver, live, registry, worker, last, flushing, copy, failed>>

---------------------------------------------------------------------------
(* BlwPersistListToRegistry.                                               *)

CopyTable(f) ==
    /\ flushing[f] = "copy"
    /\ copy' = [copy EXCEPT ![f] = live]
    /\ flushing' = [flushing EXCEPT ![f] = "write"]
    /\ UNCHANGED <<driver, live, registry, dirty, signal, worker, last, command, failed>>

Returns(f) ==
    /\ copy' = [copy EXCEPT ![f] = {}]
    /\ flushing' = [flushing EXCEPT ![f] = "no"]
    /\ command' = IF f = "command" THEN "none" ELSE command

WriteCopy(f) ==
    /\ flushing[f] = "write"
    /\ registry' = copy[f]
    /\ failed' = (failed /\ copy[f] # live)
    /\ Returns(f)
    /\ UNCHANGED <<driver, live, dirty, signal, worker, last>>

(* No memory for the copy, no path to the key yet, a key that does not     *)
(* open, a failing ZwSetValueKey: the caller, and the mask it has emptied, *)
(* know nothing of it.                                                     *)
WriteFails(f) ==
    /\ flushing[f] = "write"
    /\ failed' = TRUE
    /\ Returns(f)
    /\ UNCHANGED <<driver, live, registry, dirty, signal, worker, last>>

---------------------------------------------------------------------------
(* The worker.                                                             *)

WorkerWakes ==
    /\ worker = "wait" /\ signal
    /\ signal' = FALSE /\ worker' = "delay"
    /\ UNCHANGED <<driver, live, registry, dirty, last, command, flushing, copy, failed>>

(* The mask is emptied before the tables are copied.                       *)
WorkerTakes ==
    /\ worker = "delay"
    /\ last' = (driver # "on")
    /\ dirty' = FALSE
    /\ flushing' = [flushing EXCEPT !["worker"] = IF dirty THEN "copy" ELSE "no"]
    /\ worker' = "flush"
    /\ UNCHANGED <<driver, live, registry, signal, command, copy, failed>>

(* Flushed: it waits again or, told to stop, flushes once more and exits.  *)
WorkerDone_ForgetsNewMarks ==
    /\ worker = "flush" /\ flushing["worker"] = "no"
    /\ dirty' = FALSE
    /\ worker' = IF ~last THEN "wait" ELSE "exited"
    /\ UNCHANGED <<flushing, driver, live, registry, signal, last, command, copy, failed>>

WorkerDone ==
    /\ worker = "flush" /\ flushing["worker"] = "no"
    /\ IF last /\ dirty
       THEN /\ dirty' = FALSE
            /\ flushing' = [flushing EXCEPT !["worker"] = "copy"]
            /\ UNCHANGED worker
       ELSE /\ worker' = IF last THEN "exited" ELSE "wait"
            /\ UNCHANGED <<dirty, flushing>>
    /\ UNCHANGED <<driver, live, registry, signal, last, command, copy, failed>>

---------------------------------------------------------------------------
(* BlwFilterUnload: stop the worker, flush what is left, close the port.   *)

BeginUnload ==
    /\ driver = "on"
    /\ driver' = "stopping" /\ signal' = TRUE
    /\ UNCHANGED <<live, registry, dirty, worker, last, command, flushing, copy, failed>>

WorkerGone ==
    /\ driver = "stopping" /\ worker \in {"exited", "none"}
    /\ driver' = "stopped"
    /\ UNCHANGED <<live, registry, dirty, signal, worker, last, command, flushing, copy, failed>>

FlushRest ==
    /\ driver = "stopped"
    /\ driver' = "draining" /\ dirty' = FALSE
    /\ flushing' = [flushing EXCEPT !["unload"] = IF dirty THEN "copy" ELSE "no"]
    /\ UNCHANGED <<live, registry, signal, worker, last, command, copy, failed>>

ClosePort ==
    /\ driver = "draining" /\ flushing["unload"] = "no"
    /\ driver' = "closed"
    /\ UNCHANGED <<live, registry, dirty, signal, worker, last, command, flushing, copy, failed>>

(* FltUnregisterFilter lets a command being handled finish.                *)
TearDown ==
    /\ driver = "closed" /\ command = "none"
    /\ driver' = "off" /\ live' = {}
    /\ dirty' = FALSE /\ signal' = FALSE /\ last' = FALSE /\ failed' = FALSE
    /\ UNCHANGED <<registry, worker, command, flushing, copy>>

---------------------------------------------------------------------------
UnloadStep == WorkerGone \/ FlushRest \/ ClosePort \/ TearDown
WorkerStep == WorkerWakes \/ WorkerTakes \/ WorkerDone

Internal ==
    \/ CheckWorker \/ MarkDirty
    \/ \E f \in Flusher : CopyTable(f) \/ WriteCopy(f) \/ WriteFails(f)
    \/ WorkerStep
    \/ UnloadStep

KernelNext ==
    \/ Load \/ LoadPolicy \/ PowerCut \/ BeginUnload
    \/ Internal
    \/ CmdClear \/ \E n \in Needle : CmdAdd(n) \/ CmdDel(n)

KernelSpec == KernelInit /\ [][KernelNext]_kernelVars

(* Threads of the kernel run: a handler returns, the worker gets its turn. *)
KernelFairness ==
    /\ WF_kernelVars(CheckWorker \/ MarkDirty)
    /\ WF_kernelVars(WorkerStep)
    /\ WF_kernelVars(UnloadStep)
    /\ \A f \in Flusher : WF_kernelVars(CopyTable(f) \/ WriteCopy(f) \/ WriteFails(f))

FairKernelSpec == KernelSpec /\ KernelFairness

---------------------------------------------------------------------------
(* An entry in the table and not in its copy is about to be written, as    *)
(* long as the worker runs and no write has failed: someone still has to   *)
(* mark it, the mask is set, or the worker will copy or has copied the     *)
(* table with it.                                                          *)
LearnedIsPending ==
    HasWorker /\ ~failed =>
        \A n \in live \ registry :
            \/ command \in {"added", "mark"} \/ dirty
            \/ flushing["worker"] = "copy"
            \/ flushing["worker"] = "write" /\ n \in copy["worker"]

(* What the list learned reaches the registry, or leaves the table, unless *)
(* a write fails.                                                          *)
LearnedIsWritten ==
    \A n \in Needle : n \in live ~> (n \in registry \/ n \notin live \/ failed)

(* "What was learned is not lost by the delayed write" (Policy.c, before   *)
(* BLW_POLICY_DEBOUNCE_100NS), whatever becomes of the write.              *)
(* Not so: README, section 6.                                              *)
DelayLosesNothing ==
    \A n \in Needle : n \in live ~> (n \in registry \/ n \notin live)

(* A command that comes before the table is loaded takes nothing out of    *)
(* what the driver starts from.                                            *)
(* Not so: README, section 6.                                              *)
StartKeepsBaseline ==
    [][driver = "starting" => (registry \subseteq registry')]_kernelVars

(* "Unloading flushes what is left before the thread is waited for, so     *)
(* learned decisions are not lost" (Policy.c, BlwStopPolicyPersist).       *)
(* Not so: README, section 6.                                              *)
UnloadKeepsLearned == [][TearDown => live \subseteq registry]_kernelVars

(* "The kernel writes the list back after each ADD/CLEAR; that copy is the *)
(* authoritative baseline" (DriverEventSource.cpp, persistedExecBlockList).*)
(* Not so: README, section 6.                                              *)
RegistryIsBaseline ==
    (driver = "on" /\ command = "none" /\ ~dirty /\ flushing["worker"] = "no")
        => registry = live
=============================================================================
