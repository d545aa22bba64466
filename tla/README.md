# Bulwark: TLA+ models and proofs

Bulwark is an endpoint protection service for Windows. The service (`cpp/service`) receives
behaviour events from a kernel driver (`Bulwark.Driver`) or from user-mode sources, judges them
with an engine (`cpp/shared/engine`), asks the user or a reputation source where it is unsure,
and enforces the verdict: it freezes or kills processes, denies images the right to run, blocks
addresses, moves files to quarantine. This directory holds TLA+ models of the parts of it where
the order of steps decides, the TLC runs that check them on small instances, and theorems about
them, for all instances, that TLAPS checks.

Contents: [1 The system](#1-the-system) · [2 The modules](#2-the-modules-and-the-code) ·
[3 The runs](#3-the-runs) · [4 Fairness](#4-fairness) · [5 The proofs](#5-the-proofs) ·
[6 Where code and text disagree](#6-where-code-and-text-disagree) ·
[7 Not modelled](#7-what-is-not-modelled) · [8 State and outlook](#8-state-and-outlook)

To check everything again, in this directory:

    tlc -workers 2 -config ExecBlock_list.cfg MCExecBlock.tla    # one line per run of section 3
    tlapm FileProofs.tla                                         # and the other *Proofs modules

## 1 The system

### 1.1 Who runs, and where

* **The main thread of the service** (Qt event loop) owns nearly all service state. Handlers run
  to the end, but some take seconds (`fltmc`, `sc`, a network call), and some end by posting a
  later one (`QTimer::singleShot`).
* **Other threads of the service**: the driver's reader (`DriverEventSource::Impl::readLoop`), the
  sweep, script-scan and cloud-scan threads of the `Worker`, the reputation lane and its consumers,
  the watchers of `UserModeBehaviorSource` and of `SystemHardening`.
* **The kernel driver**: callbacks on the thread of whoever creates a process, opens a file or sets
  a key; a command handler on the service's thread; the write-behind worker; the hash scanner; the
  unload routine. All at once.
* **Around them**: the user at the UI, the file system, other programs holding files, the service
  manager that ends and restarts the process, power cuts.

### 1.2 Components

| Component (source) | State it keeps | Operations | Talks to | What is hard | What makes it correct |
|---|---|---|---|---|---|
| `UserModeExecBlock` | two lists of needles, an exclusive handle per file of each needle, `suspended_`, the manifest file | block, unblock, clear, refuse a load, suspend for remediation, standby, retry, replay | file system, coordinator, quarantine | shared files, a file busy or absent, failing saves, restarts, a full table | one owner per handle; remediation frees the file; the list survives |
| `DriverEventSource` | the Impl (port, reader, `running`, `connected`), pushed configuration, pending lists | start, stop, push, commands, read loop, drain | driver port, coordinator | the thread that reads while the port is closed, a reader that hangs, a driver that comes and goes, events queued while it stops | no reader on a closed handle; no event from a driver not shaken hands with or not configured; nothing handed on after a stop |
| `EventSourceCoordinator` | which sources run, `suspended_`, `kernelEnabled_`, `kernelWantedBeforeSuspend_`, watchdog | start, standby, wake, kernel on or off, retry | all sources, the lists, the driver's `sc`/`fltmc` | a switch is a sequence of fallible steps | parts agree after a switch; the user's choice is kept |
| `main.cpp`, protection lifetime | the setting, the number of UIs, the grace timer | decide on connect, disconnect, settings | IPC server, coordinator, worker | deferred calls with captured values, one shared timer | it settles on the right side |
| `Worker` | event queues, prompts, pending decisions, the rules and trust entries with their file, the cloud queue | judge, prompt, kill, deny an image, taint what a blocked program dropped, reconcile after trust, sweep | engine, enforcement, UI | late answers to prompts, results of background jobs, snapshots that are stale when acted on | what is trusted is given back, the rest stays denied; the rules file says what is in force |
| `UserModeProcessContainment` | table of frozen and cut-off processes (64) | freeze, thaw, cut off children, tick, dispose | worker | suspend counts, process numbers used again, entries nobody clears | nothing stays frozen unasked; the right process is frozen |
| `ReputationManager` | cache, budgets, lane thread, queue with in-flight set | bounded query, inline lane, consume, start, stop | cloud, worker | the waiter gives up as the answer comes | each answer goes to its own event; a malicious one is heard or called back; nothing is in flight for ever |
| `QuarantineManager` | vault files, index | quarantine, restore, purge | file system, exec block | a crash between copy, delete and index | no file is lost, no entry is without a file |
| `ThreatRemediator` | none | clean registry, services, files, hosts | operating system | independent steps | — |
| `UpdateService` | downloaded package, files renamed aside | check, download, apply, roll back | installation directory | a crash between rename and copy | one whole version is installed |
| `UserModeNetworkBlock` | table of filters (limit) | block, unblock, suspend | filtering platform | the table is full | as for the exec block |
| `UserModeBehaviorSource`, `EtwProcessEventSource` | watcher threads, a queue | start, stop, poll, drain | coordinator | — | — |
| `SystemHardening` | watched keys, deny-execute entries | set, undo, watch | registry | — | — |
| `IpcServer`, `IpcClientAuth` | `buffers_`: one buffer per client | accept, drop, frame, broadcast | UI, main | — | — |
| Stores (settings, rules, history, contributions, audit, first seen) | a file each | load, change, save | everything | a save that fails half way | the last change survives |
| Rule engine, monitors, attack chain, analysers | windows and counters per process | evaluate | worker | the order of decisions | the documented order |
| Driver: `Policy.c`, `Comms.c` | the lists, `gPersistDirty`, the writer | ADD, DEL, CLEAR, load, write back, unload | service, registry | the writer and the commands interleave; a slow write; power cuts; unload | what was learned is in the registry in the end |
| Driver: `Comms.c`, `Driver.c`, events | the ring, its sender thread, the port with its rundown protection | report an event, send, connect, disconnect, load, unload | callbacks on any thread, a wake-up only when the sender is idle, ports closed while it sends, the order of an unload | first in first out, no lost wake-up, an unload that ends |
| Driver: `SelfProtect.c` and the callbacks | PID sets: slots, a bit mask, a count | ban, exit, CLEAR, look up | every callback | readers take no lock; several numbers share a bit | a banned actor is banned, another is not |
| Driver: scanner, network, registry, files, clean-up | filter state, verdicts waited for | filter, ask, time out | service | waiting for a verdict | — |
| UI, servers, training, packaging | — | — | HTTP, IPC | — | — |

PROJECT.json lists the same parts with their files and how far each is modelled, and every hazard
at the line where it bites.

### 1.3 How the modelled parts hang together

       UI --connects--> IpcServer --count--> main.cpp            ProtectionLifetime
       |                                        | decide
       | answers, trust                         v
       +--> Worker <--standby flag-- EventSourceCoordinator
             |  |                      |            |
             |  | hits, denials        | locks      | start, stop, watchdog
             |  |                      v            v
             |  |   UserModeExecBlock (ExecBlock, BlockList)   DriverEventSource (DriverLink, KernelLink)
             |  |                                              |  commands      ^ events
             |  +--- deny, reconcile (TrustReconcile) -------->v                |
             |                                Policy.c list + write-behind      |
             |                                (KernelList)                      |
             |                                SelfProtect.c (BannedPids)        |
             |                                Comms.c ring, sender -------------+
             |                                (EventRing, EventQueue)
             +-- freeze, kill, thaw: UserModeProcessContainment (Containment)
             +-- rules of dropped files, trust, rules.json      (TaintRules)
             +-- is this file known?  ReputationManager         (Reputation)
             +-- take the file away:  QuarantineManager         (Quarantine)

## 2 The modules and the code

Each module is one component; a `*Proofs` module holds the theorems of one (`FileProofs` and
`DriverTableProofs` of two and of three that belong together, see section 5); an `MC*` module gives its
structured constants values for TLC.

| Module | Models | Composes or implements |
|---|---|---|
| `BlockList` | what the user-mode list promises: which needles are listed, what a restart brings back | abstract |
| `ExecBlock` | `UserModeExecBlock.cpp/.h`, `AtomicFile.h` | implements `BlockList` |
| `KernelLink` | what the rest of the service may take the driver link for: a switch, a driver that is loaded or not, a connection that is there, absent or cut off | abstract |
| `DriverLink` | `DriverEventSource::start/stop/readLoop/enqueue/drain`, the coordinator's kernel switch and 10 s watchdog | implements `KernelLink` |
| `ProtectionLifetime` | `main.cpp` `applyProtectionLifetime` and its callers, `EventSourceCoordinator` start, standby and wake-up, the worker's sweep | instantiates `ExecBlock` for the locks; takes the link as in `KernelLink`, which it implements, too |
| `KernelList` | `Policy.c` list and write-behind, `Comms.c` commands, unload in `Driver.c` | |
| `TrustReconcile` | `Worker::blacklistExec`, `reconcileKernelBlocksAfterTrust` | extends `KernelList`, every step of it is a step of `KernelList` or leaves it alone |
| `BannedPids` | `SelfProtect.c` banned set, the exit callback, the callbacks' look-up | |
| `EventQueue` | what the driver's event ring promises: first in, first out, each once, a full queue refuses | abstract |
| `EventRing` | `Comms.c` `BlwReportEvent`, sender thread, port; start, registration and unload in `Driver.c` | implements `EventQueue` |
| `Containment` | `UserModeProcessContainment.cpp`; the `Worker`'s prompts, `killMalicious`, `trustPath` as far as it thaws | |
| `Quarantine` | `QuarantineManager.cpp` with its index and the vault | |
| `TaintRules` | `Worker::taintDroppedFiles`, prompts and rules of the user, trust entries, `RuleEngine`'s set of rules, `RuleStore` | |
| `Reputation` | `ReputationManager.cpp`, `ReputationCache.cpp`, the part of `Worker::onEvent` that asks | |

**ExecBlock.** Every public operation is made under `mx_`, so each is one atomic action; the
interleaving is between operations, the 30 s retry, other programs and the end of the process.
`execList`, `moduleList` are the two flags of an entry, `handles` the handles by needle (a handle
is the pair needle, file), `leaked` the handles opened but in no entry, `manifest` the saved list,
`phase` whether `replay()` has run, `foreign` the files other programs hold. `ArmResults(S, h, held)`
is the set of ways `armLocked` can end for the needles `S`: the code opens file by file and the
order of the hash table is not fixed, so two needles of one file leave the file to either of them.
`Save` has the outcomes of the atomic write: done, the old manifest kept, the manifest removed (the
in-place fallback failing half way). `ReplayFails` is the manifest that is there and cannot be opened or
parsed: the table stays empty and the next save writes over the record. Share mode 0 is modelled by what it does: a second open of a
file fails, whoever makes it.

**DriverLink.** `start()`, `stop()` and the reader are split where another thread can get in:
connect, handshake, configuration, return; close, wait 6 s, abandon. `call` is where the main
thread stands, `reader` what the reader thread does, `port` the handle. A driver is `"good"`, `"old"` (it
fails the handshake) or `"stale"` (it passes and refuses the commands added since); others unload it at any time.
`PushConfig` sends the configuration kind by kind (`Dim`): any send may fail, what failed is known to the log only
(`warned`), and of the kinds in `Probed` the answer to one command is kept (`caps`). It is one step although it is many
messages, since an unload in the middle leaves what a push with failing sends and an unload leave. The reader may
also stop while driver and port are there (`ReaderFails`). Of the events only the number
counts: `queue` is how many wait, `draining` its timer, `more` a `drain()` that was posted.

**ProtectionLifetime.** A handler of the main thread is a list of steps in `todo`; `Work` takes the
first. Between two steps the sweep thread, a driver unload by others, a reader that gives up and the end of the
process can happen. `posts` holds the deferred count changes *with the value they captured*, as the lambda does.
The reconciliation with trust, which follows each start, each wake-up and each trust entry, is here two steps:
`Reconcile` clears the lists if they hold anything trusted, `Resend` sends the rest again entry by entry (`Block`: to the
driver while it is connected, else to the locks); `keep` is what is still to be sent. The record's saves and the replay
fail as in `ExecBlock`; `apart` says that record and list may differ for that reason.

**KernelList.** `live` is the list, `dirty` its bit in the mask, `registry` the stored copy. A
writer takes the mask, copies the table and writes the copy as three steps (`flushing[f]`,
`copy[f]`); three writers exist — the worker, the unload flush, and a command that finds no worker. `CheckWorker` and
`MarkDirty` are the two halves of `BlwMarkPolicyDirty`, because an unload can get in between. Loading has two
steps because the port is open before the table has been read (`"starting"`), and the worker may fail to be created.
`WriteFails` is every way `BlwPersistListToRegistry` returns without having written (no path, no memory, no key, a
failing write); the bit is cleared by then, and nobody marks the list again. `failed` remembers that until the
table has been written as it stands, and `LearnedIsPending` and `LearnedIsWritten` promise nothing in between.

**TrustReconcile.** Takes the kernel's list from `KernelList` and adds the service's four forms of a
denial: the list of rules, the user-mode lock, the file's deny-execute entry, the kernel's table.
The reconciliation is a program of steps (`Unban`, `Thawed`, `Read`, `Clear`, `Send`, ...), because each
command is a separate message and the link, the service or the machine may fail between two. `seen`
is what the reconciliation read from the registry, `left` what of it still has to be sent again. A registry write that
fails and a worker that cannot be created are faults like the others (`KernelFails`). The service does not connect to a driver that is
still starting here, and reading the table is one step: `KernelList` has the commands of that window.

**BannedPids.** One action per access to `slots`, `mask` and `count`, because look-ups read without
a lock. `holder` is who holds the set's lock and its next access. Numbers are handed out again
(`Create` after an exit). The look-up under observation keeps in `read` whether the number stood in
the set throughout, or never; one look-up stands for any number, since look-ups write nothing.

**EventRing.** A step is one access to shared state or what is done under `RingLock`. `callback[p]` is
where a callback is inside `BlwReportEvent` (before the lock, after it, before and inside the
wake-up), `sender` where the one sending thread is. `signal` is the synchronisation event: a wait that
succeeds consumes it. `guard` and `users` are the rundown protection of the port; `link` is where a
connect or disconnect notification stands, `driver` where loading and unloading stand. Events are
numbered as they are let in; `handed` records the numbers that were taken out.

**Containment.** The main thread does one handler after the other; `at` and `subject` say where it is
in `killMalicious`, whose steps the processes it acts on may run between. `proc[p]` is the image of
the process that has the number `p` at the moment; an event keeps number *and* image, so it may name
a process that is gone or a number that has a new owner. `susp[p]` counts suspensions, as the kernel
does; `entries` is the table of the service. `Resume` drops the record and then asks the system, which may refuse for any
of the processes: `lost[p]` counts the suspensions that are left without a record, by a refusal (in a thaw, or in the
destructor, which ignores the result) or by `Killed`, the end of a service that runs no destructor. Look-ups that answer late are messages in `mail`;
prompts are in `pending`, with the ones past their deadline in `overdue`.

**Quarantine.** One mutex serialises the operations, so `job` is the one under way, and its steps
(`MakeVaultCopy`, `DeleteOriginal`, `RestoreCopy`, `Forget`, `Save`) are where a crash, a reboot or another program
gets in. `index` is the file, `entries` and `loaded` the memory. `doomed` are the paths whose deletion
was left to the next reboot. The histories `copied`, `removed` and `fate` say what an identifier stands
for, so that the properties can speak of the content a user would get back.

**TaintRules.** Rules made from a blocked program (`taints`), by the user (`answers`) and trust entries
(`trust`) on one side, the rules file (`store`) on the other. `jobs` are background jobs that hash and
sign; `Land` is their result coming back to the main thread. A handler that saves twice is two
steps. `batches` gives rules an age, which decides which one the limit evicts. A save may fail
(`failures`), and `Restart` reads the file (`Load`), which may be there and yet not be opened or parsed: then the service
starts from no rules and says so in the log only. `unread` remembers it until the next save writes over the file.

**Reputation.** Three threads: `main` (the event thread waiting within its budget, and `stop`), `laner`
(`inlineLaneLoop`), `worker` (`consumeLoop`). `lane` is the hand-over record under `laneMx_`; a thread in
`QWaitCondition::wait` may wake for no reason. `found`, `heard` and `called` record for each question
whether its malicious answer was found, used by the event, or called back.

Abstractions that matter to a reader: a needle, a file and an image are model values, a conversion
between them is a function given as a constant (`Targets`, `NeedleOf`, `Inside`), which need be
neither injective nor total. Texts, logging and times are left out; a timer is an action that may
happen whenever it is armed. In `TrustReconcile` the driver trusts the client, the removal of a deny-execute entry does not fail, trust entries do
not expire, and the no-load list (same shape) is absent. `BlwAddBannedPid` refuses the numbers 0 to 4
and protected ones: `Pid` stands for the numbers it lets through. In `Containment`, `TaintRules` and
`Reputation` a verdict that the modelled code only receives (from the engine, a look-up, the cloud) is any verdict.

## 3 The runs

| Run | Module | Instance | Distinct states | Result |
|---|---|---|---|---|
| `ExecBlock_list` | `MCExecBlock` | 3 needles, 3 files, capacity 2, both failures of a save, a record that cannot be read | 124,542 | passes, about a minute |
| `DriverLink_link` | `DriverLink` | a driver that fits, one that does not and one that knows only one of two kinds of configuration, failing sends, a reader that may fail or hang, 3 unloads, a queue of 3 drained one by one | 37,801 | passes |
| `ProtectionLifetime_service` | `MCProtectionLifetime` | 1 UI, 2 deferred calls, 2 images, 1 waiting hit, both initial settings, a failing save that removes the record, a record that cannot be read, restarts | 267,050 | passes, about 2 min |
| `KernelList_writeback` | `KernelList` | 3 needles, 2 slots, failing writes, a worker that cannot be created | 32,462 | passes |
| `TrustReconcile_denials` | `MCTrustReconcile` | 3 images with an entry each, 1 trusted file, 1 trusted directory, 2 slots, 1 hold, 1 fault | 2,090,031 | passes, about a minute |
| `BannedPids_lookup` | `MCBannedPids` | 3 numbers on one bit, 2 slots, symmetric | 2.5 million | passes, about 90 s |
| `Containment_worker` | `MCContainment` | 2 numbers, 2 images of which one critical, a table, a prompt and a late event of one each, one suspension without a record | 449,348 | passes, about 2 min |
| `Quarantine_vault` | `MCQuarantine` | 1 path, 2 identifiers, 2 contents, symmetric | 261,986 | passes, about 25 s |
| `TaintRules_rules` | `MCTaintRules` | a dropped program and a dropped module, a directory to trust (by the user or the settings) that holds both, limit 2, one per block, 2 batches, a failing save or a file that cannot be read | 1,127,971 | passes, about 80 s |
| `Reputation_lanes` | `MCReputation` | 2 files of which one suspicious, 2 events, queue and cache of one | 301,896 | passes, about 2 min |
| `EventRing_queue` | `MCEventRing` | a file callback and a registered one, a ring of 4, 4 events per load | 144,130 | passes, about 100 s |
| `EventRing_unload` | `MCEventRing` | the same, a ring of 2, 3 events | | violates `NoWriteAfterFree` |

What each passing run shows, and why its bounds are enough:

* **`ExecBlock_list`.** Every file the product locks is held for one needle that is still listed
  (`OneListedOwner`: nothing is forgotten by a clear, a retry, standby, remediation or a replay); the whole
  implements `BlockList`, in which a restart brings back what was recorded or, if it cannot be read, nothing (`ListSurvives`); and a
  free file of a pending entry is locked in the end (`PendingGetsArmed`). The instance has what the
  code's branches tell apart: a needle with a file on each of two drives, a second needle for one of
  these files, a needle whose file is refused, and one needle more than the table has room for. A
  further file or needle repeats a relation already there.
* **`DriverLink_link`.** No reader on a closed handle (`ReaderHasPort`), no event from a driver that
  lacks configuration no send of which failed, nor one reported to know what it does not (`ConfiguredWhileLive`), nothing held and no event waiting once switched off — not
  even one that the reader queued while `stop()` was waiting for it (`DisabledIsDetached`); outages
  are put on record (`OutageReported`), a failed first attach heals (`FirstAttachHeals`). Of the two kinds of
  configuration one is new and probed, the other neither: a further one behaves as one of them. The three unloads allow one in each of two connections and one in
  between, which is the deepest sequence in which the code distinguishes what happened before
  (`snapshot`, `stranded`, `notified`); three events with one per drain fill the queue and leave a
  drain posted.
* **`ProtectionLifetime_service`.** However connects, disconnects, settings, the timer, sweeps,
  restarts and unloads interleave with the steps of a switch, the service settles on the side the
  setting and the UI ask for (`Settled`), its parts agree (`SwitchedTogether`), the user's choice of
  the kernel driver survives standby, settings changed in standby and restarts (`KernelIntentKept`),
  the recorded list is in force unless a save failed or the record could not be read (`ListInForce`), a UI that stays wakes the service and one that
  stays away lets it sleep (`WakesUp`, `StandsBy`). The decision reads only
  "no UI" against "some UI", so one client meets both; two deferred calls let a stale one run after a
  fresh one. Two images are one that a reconciliation drops and one that it sends again; one is a hit at a time. The
  images are not on the disk here, so that their entries wait for a file: the locks themselves are the subject of `ExecBlock`.
  So is the other failure of a save, which keeps the old record: it doubles the states here, and the theorem about `ListInForce`
  covers both.
* **`KernelList_writeback`.** While the worker runs and no write has failed, what the list learned and the registry lacks is
  on its way (`LearnedIsPending`), and it gets there unless a write fails (`LearnedIsWritten`). The condition ends with the next
  write of the table as it stands, so an entry learned after a failure carries the earlier ones along. Three needles over two slots
  meet the full table; the interleaving is between threads, whose number is that of the code.
* **`TrustReconcile_denials`.** A reconciliation that ends has taken back every denial of a file
  trusted by name that it could see (`TrustTakesEffect`) and, if the link held, lost no other unless
  the table is full (`OthersStayDenied`). One fault falls anywhere in a reconciliation; one hold at
  a time suffices because holds do not interact; three images are one to trust, one to keep, one to
  fill the table.
* **`BannedPids_lookup`.** A look-up that takes no lock is right about a ban that stood all the time
  or never (`LookIsExact`), and an exit takes back every ban that was complete before it
  (`ExitLiftsBan`). One bit is the worst case of the mask; two slots let a
  writer be between them; the third number meets the full table.
* **`Containment_worker`.** What the service suspended and has not tried to resume is suspended once and recorded
  under the image it belongs to (`SuspendedIsRecorded`), so that trust, an answer and the destructor find it; what was
  trusted or let pass has been resumed, but for what the system refused and what a killed service left
  (`ClearedRuns`); what was not stays suspended (`HeldUntilDecided`); a prompt
  with a deadline ends (`PromptsEnd`). Two numbers over a table of one meet the full table, and a
  number is given out again; a critical image meets the refusals; one prompt meets the full list of
  prompts, which resolves the oldest by default while the handler of another event runs.
* **`Quarantine_vault`.** What is listed can be given back (`ListedIsRestorable`), what was deleted is in the
  vault (`DeletedIsVaulted`), the index is not replaced by one that lacks entries (`NeverOverwritten`). Paths
  meet only in the index, and the second identifier for the same path is the harder case: the file
  came back, or was quarantined before.
* **`TaintRules_rules`.** Whenever the service can go down the file says what is in force, unless the last save failed or
  the file could not be read and has not been saved since (`StoreCurrent`);
  trusting a file takes its taint back, also one still being made in the background (`TrustEndsTaint`);
  allowing what was asked because of a taint ends the asking (`AllowEndsTaint`). The limit of two with one
  file per block lets a second batch evict the first; the program and the module meet the three
  forms of rule (by path, by hash, carried by another); one failing save comes between any two.
* **`Reputation_lanes`.** An event is judged by an answer about its own file (`HeardIsOwn`); a malicious answer
  of the lane is heard by the event or called back, never both (`ConclusionsReachOne`); what is in
  flight is queued or asked about (`InflightIsQueued`); no thread sleeps over work (`WorkIsDone`), and `stop`
  joins both (`StopEnds`). Two events of two files are what one lane can confuse; a third repeats the second.
* **`EventRing_queue`.** The ring implements `EventQueue` (`QueueSpec`); the sender never sleeps over an
  event that nobody is about to wake it for (`WakeupIsComing`); it sends only on an open port
  (`SendsOnOpenPort`); the oldest event leaves (`OldestLeaves`), and an unload ends (`UnloadEnds`). Four
  slots hold three events, so that head and tail wrap and a fourth is refused. Two
  callbacks suffice for the races: all others are either of the same kind or wait for `RingLock`.

`EventRing_unload` is explained in section 6. Deadlock is checked in every run. Every property of a
passing run has a mutant: a definition `<Operator>_<Bug>` just above the operator it changes, in the
module, that a plausible slip in the code would produce, and under which TLC finds that property violated.

Bounds that are not part of the code: `MaxUnloads` (`DriverLink`), `MaxClients`, `MaxPosts`, `MaxHits`
(`ProtectionLifetime`), `MaxHeld`, `MaxFaults`, `Watched` (`TrustReconcile`), `MaxMail`
and `MaxLost` (`Containment`), the size of `Ids` (`Quarantine`), `MaxJobs`, `MaxBatches`, `MaxAnswers`,
`MaxFailures`, the size of `PromptIds` (`TaintRules`), `MaxEvents` (`Reputation`, `EventRing`). The code's own
limits, made small: `MaxEntries` (`UserModeExecBlockMax`, the 64 of the containment, `kMaxEntries` of the cache), `Slots` and
`Capacity` of the driver's tables (`BLW_MAX_PROTECTED`), `MaxPrompts`, `PerBlock`, `Limit`, `Capacity` of the
reputation queue, `Cap`, `QueueMax`, `MaxPerDrain`.

The modules also hold properties that no run checks every time, because a theorem states them: the
type invariants, `WithinCapacity`, `RemediationFreesFile`,
`StandbyArmsNothingByItself`, `OnlyMatchingDriver`, `LinkSpec` (of `DriverLink` and of
`ProtectionLifetime`), `NoLoadInStandby`, `RecordGrowsInProtection`, `MaskCovers`, `CountHonest`,
`WithinLimit`, `OneCopyPerPath`, `TaintWithinLimit`, `TakenIsNew`, `WithinLimits`. Adding their
name to the cfg of their module lets TLC check them, too.

## 4 Fairness

Each liveness property is checked under a specification that assumes only what the scheduling of
the code gives, conjunct by conjunct:

* `ExecBlock`: weak fairness of `Rearm` — a `QTimer` of 30 s runs as long as the process does.
  Nothing is assumed about other programs, so the property speaks of files that stay free.
* `DriverLink`: weak fairness of the steps inside a call and of the retry (a `QTimer` of 10 s) and of
  a reader leaving once its port is dead; strong fairness of a retry that brings up the driver that
  fits (`RetryAttach` with `driver' = "good"`): a load that may succeed does at some time. Without
  it `FirstAttachHeals` would say that the operating system always loads a driver. Nothing is
  assumed about drains.
* `ProtectionLifetime`: weak fairness of `Work` (a handler runs to its end), strong fairness of a
  posted call and of the expired grace timer: the event loop serves them, though other handlers keep
  occupying the thread in between, which is why weak fairness is not enough.
* `KernelList`: weak fairness of the command handler, of the worker, of the unload routine and of
  each writer, separately: they are threads of the kernel. Commands, power cuts and the unload
  itself are not assumed to come.
* `Containment`: weak fairness of `Work`; strong fairness of the passing of each deadline and of the
  timer of a second, which other handlers hold up again and again but not for ever. No answer and
  no event is assumed to come.
* `Reputation`: weak fairness of each of the three threads by itself. A query ends, with an answer or
  without (the requests have a timeout); nobody has to ask, stop or start.
* `EventRing`: weak fairness of the sender, of the port's callbacks, of the unloading thread and of each
  callback once it is inside `BlwReportEvent`. Nobody has to report, connect, leave or unload.

`TrustReconcile`, `BannedPids`, `Quarantine` and `TaintRules` state no liveness and assume no fairness.

## 5 The proofs

All proofs are checked by `tlapm` (SMT, Zenon, LS4) for every value of the constants that meets the
named assumptions of the module (`ConstantsAssumption`, `KernelAssumption`, `TrustAssumption`,
`BannedAssumption`, `RingAssumption`, `ContainmentAssumption`, `QuarantineAssumption`,
`TaintAssumption`, `LifetimeAssumption`, `ReputationAssumption`); TLC evaluates these assumptions in
the runs. Every safety property and every refinement that a passing run checks is stated by a theorem.

**`FileProofs`** has two parts: the locks (`ExecBlock`) and the vault (`Quarantine`).

About `ExecBlock`: `TypeCorrect`, `LocksHaveOneOwner`, `RemediationFrees`,
`StandbyStaysUnarmed`, `CapacityKept`, `ImplementsList`. `OneListedOwner` follows from `NoOrphanLock` (no handle is forgotten, none
outlives its entry) and `ExclusiveHandles` (how share mode 0 makes the handles lie, a lemma and no claim about the
code). `NoOrphanLock` alone is not inductive: `replay()` writes fresh
entries over the table, so it would orphan handles if the table were not empty. The invariant is
`SafetyInv` = `TypeOK` ∧ `ExclusiveHandles` ∧ `NoOrphanLock` ∧ `EmptyUntilReplay`, the last saying that
before `replay()` the table is empty — which is what the class assumes of its caller, and what
`HandlesOwned` of section 6 shows the caller not to keep. `Arming` is the lemma the steps share: in
whatever order the table is walked, entries get free files, no file goes to two, others keep
theirs. `RemediationFrees` is the action property, from `ExclusiveHandles`. `StandbyStaysUnarmed`
needs an invariant of its own, `AwakeUntilReplay`: `replay()` arms without looking at the flag, so
the flag must be down until it has run. `CapacityInv` adds the
limit, which needs the cardinality theorems of the library, and that a save leaves the old manifest,
the new table or nothing. `ImplementsList` maps every step to a step of `BlockList` or a stutter,
with no assumption on how saves and the reading of the record fail: `BlockList` itself has the start from nothing, with the
old record there until the next save.

About `Quarantine`: `VaultTypes`, `TheListedCanBeRestored`, `TheDeletedIsVaulted`, `APathHasOneCopy`,
`TheIndexIsNotOverwritten`. What makes the invariant inductive is to say, for each step a job can be at,
which of copy, original and index are already changed (`QuarantineJobOK`, `ReleaseJobOK`), and that memory
that was loaded lacks nothing the readable index has (`LoadedOK`).

**`DriverLinkProofs`**: `TypeCorrect`, `ReaderPortOpen`, `DriverMatches`, `Detached`, `ConfiguredOrWarned`,
`ImplementsLink`. None of the properties is inductive because each is about the link at rest while steps leave it half-way;
`LinkInv` says where port, reader, `running`, configuration and queue stand at each point of `start()` and
`stop()`, and all follow from it. `ConfiguredOrWarned` holds of every driver and every pattern of failing sends: what a live
link lacks was refused or failed and is in the log, and a class of commands is not reported as taken by a driver that is too
old for it (`NextConfigured` is its step). `LinkCounts` adds that no queue outgrows its limit.
`ImplementsLink` is the refinement of `KernelLink`: seen from outside, the connection begins when the
handshake has been passed and ends when `stop()` clears `running`; all the rest — the refused
handshake, the reader, its join and its abandonment — is a stutter.

**`ProtectionLifetimeProofs`**: `LifetimeTypeCorrect`, `SettlesAsWanted`, `PartsSwitchTogether`,
`KeepsKernelIntent`, `NeverLoadsInStandby`, `ListIsInForce`, `ProtectionKeepsRecord`,
`UsesTheLinkGiven`. The properties speak of the main thread between handlers, and a handler is a
sequence of steps between which other threads act. `SwitchInv` therefore says for each handler and
each rest of it that can still be to do (`InHandler`) how far the parts have been switched and what
the setting and the count ask for; `Places` turns that into what holds before a step, whatever
handler it belongs to, so that each step is proved once. `ListInv` says that the list of locks is
the recorded one, or is still empty because nothing has been started, or that they are known to be apart; `KeepInv` that what a
reconciliation has cleared is waiting in the step that sends it again. `RecordInv` is the three together. `ListIsInForce` and
`ProtectionKeepsRecord` assume nothing about saves and replays: where one fails `apart` is set, and the properties
except that state and no other. `ProtectionKeepsRecord` says by which ways a file leaves the record while the service
protects: it is trusted, or it was cleared to be sent again and went to the driver, found the table full, or the process
ended before its turn. `UsesTheLinkGiven` says that this
component takes the link for no more than `KernelLink` allows; with `ImplementsLink` that is what joins it
to `DriverLink`, since `Attach` is an attempt of `KernelLink` exactly (`AttachIsAttempt`).

**`DriverTableProofs`** has three parts: the table with its write-behind, the reconciliation built
on it, the set of banned numbers. About `KernelList`: `KernelTypeCorrect`,
`NothingLearnedIsForgotten`; `PersistInv` adds to
`LearnedIsPending` which thread may be writing at which stage of the driver (`FlushersInTurn`, `StartsInTurn`), and
that a copy the worker is about to write lacks only entries that will be copied again (`CopyIsRecent`). The theorem speaks of
the time in which no write has failed, and a write that covers the table ends the exception (`failed`).
About `TrustReconcile`: `ImplementsKernelList`, `NothingLearnedIsForgottenHere`,
`DenialsTypeCorrect`, `TrustIsGivenBack`, `OthersAreKept`. The first shows each step of the composition to
be a `KernelNext` step or to leave the kernel's variables alone, and the theorems of the first part
then hold of the composition by temporal reasoning alone. `ReconcileInv` says what a reconciliation
has achieved at each of its stages; the two action properties follow at the stage that ends it.

About `BannedPids`: `BannedTypeCorrect`, `NeverDenied`, `CountIsHonest`, `LookUpsAreExact`, `ExitsLiftBans`.
`Inv` = `TypeInv` ∧ `NoTwice` ∧ `HolderInv` ∧ `MaskCovers` ∧ `CountInv` ∧ `LookInv`: no number has two
slots, the holder of the lock is at a step its operation has, the count differs from the number of
occupied slots by exactly what the holder still has to add or take, and a ban that stood throughout
is still ahead of the look-up's scan.

**`ContainmentProofs`**: `SuspendedAreRecorded`, `TableStaysWithinLimit`, `TheClearedRun`,
`TheHeldStayHeld`. The invariant `IInv` adds to `SuspendedIsRecorded` the types, that a number without
a process has no suspension (a thaw and the clean-up timer may then forget the entries of the dead), that no more suspensions
are lost than there are, and that whoever was frozen on top of a lost suspension has exactly one more (`LostIsSuspended`), and that
the table is finite and within its limit. `CountsOK` puts this together, and `CountByNumber` takes it apart number by
number. `ResumeCounts`, `ThawKeeps` and `FreezeKeeps` are the lemmas the steps share. The two
action properties go through the actions and use it where a thaw must find the entry.

**`TaintProofs`**: `TheLimitHolds`, `TheFileIsCurrent`, `TrustTakesTaintBack`, `AllowTakesTaintBack`. The last
three properties speak of the main thread between handlers; the invariant adds what holds between the
two saves of one: a batch about to go in has room (`RoomOK`, with the cardinality theorems) and holds no
trusted file (`FreshOK`), and only the event whose rules are being dropped may still be tainted (`AllowOK`).
`LoadFacts` is what a start can make of the file: what is recorded, or nothing and `unread`. `TheFileIsCurrent` excepts the time from a
failed save or a failed load to the next save that works.

**`EventRingProofs`**: `RingTypeCorrect`, `NoLostWakeup`, `SendsOnlyOnOpenPort`,
`RegisteredNeverWriteAfterFree`, `ImplementsQueue`. `Stages` says what is set up or torn down at each
stage of loading and unloading, `PortGuarded` who may be inside the rundown protection when the port
is closed, `WakeupsKept` that an event is covered by a signal, by a callback about to give one, or by a sender
about to look, and `Numbered` that the slots between tail and head hold the numbers that follow those
handed out. `ImplementsQueue` is the refinement for every size of the ring.
`RegisteredNeverWriteAfterFree` is the half of `NoWriteAfterFree` that is true: callbacks that are taken back
before the ring goes.

**`ReputationProofs`**: `ReputationTypeCorrect`, `AnswersAreOwn`, `ConclusionsAreToldOnce`,
`RoundsAreAskedOnce`, `NoneIsLeftInFlight`, `LimitsHold`. The three threads meet in the hand-over
record and in the queue, so the invariant `Inv` says for each thread what it may rely on where it
stands: `LaneOK` ties the state of the lane to the round in it, `MainOK` and `LanerOK` to what the
event thread and the lane's thread hold, `AskedOnce` that no question reaches the lane twice, `QueueOK`
that what the consumer asks about has left the queue. `ConclusionsReachOne` follows because giving up and
answering are each one step under the lock and the lane can be in only one of the states they leave.
`LimitsHold` is a second invariant, over cardinalities.

Only model-checked: the liveness properties (`PendingGetsArmed`, `OutageReported`,
`FirstAttachHeals`, `WakesUp`, `StandsBy`, `LearnedIsWritten`, `PromptsEnd`, `WorkIsDone`, `StopEnds`,
`OldestLeaves`, `UnloadEnds`). They need fairness, hence `ENABLED`, which the prover does not treat.

## 6 Where code and text disagree

One run shows a violation. The other statements below are definitions marked `Not so` in the named
module: a sentence of the repository that the code does not keep. To see a trace, put the
definition in the cfg of its module in place of the properties there, as `INVARIANT` or `PROPERTY`.

* `EventRing_unload` (run), `NoWriteAfterFree`: the unload frees the ring with the remark that all callbacks are gone and
  no new event comes (`Driver.c:97–99`), but the file filter is unregistered after that. A file callback that
  passed the unlocked check of the ring (`Comms.c:855`) writes its event into freed memory (`:862`). The failure
  paths of `DriverEntry` (`Driver.c:238`, `:249`, `:261`) have the same order. Events of file callbacks that
  come after the sender has exited are never sent. `HashScan.c` repeats the pattern with its own ring.
* `DriverLink`, `DropHeals`: the watchdog says a connection cut off half-way is healed like one that never
  came up (`EventSourceCoordinator.cpp:432`). `readLoop` leaves with `running` set, so `start()`
  returns at its first line, for ever. The same holds of a reader that stops for a reason of its own, whose log
  says that the main thread will connect again (`DriverEventSource.cpp:1158–1159`).
* `DriverLink`, `GapsAreReported`: what the driver did not take is summed up and reported instead of logged and passed over
  (`DriverEventSource.cpp:331–339`). Only the answer to one command of a kind counts (the CLEAR, or a probe); the rules that
  follow it may all fail (`:612` ignores their results) and the kind is reported as there.
* `ExecBlock`, `UnreadIsKept`: a list that cannot be parsed is "kept so that it can be looked into"
  (`UserModeExecBlock.cpp:456`). The service goes on with an empty list, and the first entry added or list cleared is saved
  over the file, with every denial it held. (Trace: `SaveFaults = {}`.)
* `ProtectionLifetime`, `HandlesOwned`: the class says it is the only owner of its handles
  (`UserModeExecBlock.h:49`) and that replay runs once at start-up (`:70`). Each wake-up arms the
  entries and then replays over them; the handles just opened belong to no entry. (Trace: `n1` with the target `f1`,
  as in `MCTargets == [n \in Needle |-> IF n = n1 THEN {f1} ELSE {}]`.)
* `ProtectionLifetime`, `StandbyDisposesNothing`: the sweep must stop in standby too (`Worker.cpp:4435`). A start into
  standby never sets the worker's flag, and a hit is disposed of.
* `ProtectionLifetime`, `RecordKept`: standby leaves the saved list alone and drops no entry found malicious
  (`UserModeExecBlock.h:95–96`). In a standby that began at start-up nothing was replayed; a hit of the sweep is added to
  the empty table, and `addEntry` saves that over the recorded list (`UserModeExecBlock.cpp:189`). How the record may shrink while the service
  protects is `RecordGrowsInProtection`, which is proved.
* `KernelList`, `DelayLosesNothing`: what was learned is not lost by the delayed write (`Policy.c:447–448`). The mask is
  emptied before the write, and a write that fails (`:388–397`, `:426–432`) tells nobody: the entry is in the registry only if another
  comes to be written.
* `KernelList`, `StartKeepsBaseline`: the driver starts from its baseline in the registry (`Driver.c:341–347`). The port is open from
  `:215` on. A command that comes after the path is saved (`:346`) and before the table is read finds no worker and writes by itself: the
  registry then holds that entry alone, and the load reads it back.
* `KernelList`, `UnloadKeepsLearned`: unloading flushes what is left, so nothing learned is lost (`Policy.c:447`). The
  writer stops before the port closes; a command in between is not written.
* `KernelList`, `RegistryIsBaseline`: the registry is the authoritative copy after every ADD and CLEAR
  (`DriverEventSource.cpp:1453`). The driver does not write a CLEAR back, so trusting the only denied
  program lasts until the next load.
* `BannedPids`, `ReuseIsInnocent`: an exit removes the number so that a process that gets it later is not hurt
  (`ProcessMonitor.c:312`). The scanner hashes the file before it bans; the process may be gone by then.
* `Containment`, `HeldIsReal`: `freeze()` answers yes for a number whose frozen entry is still there
  (`UserModeProcessContainment.cpp:237`), but only `disposeOf`, which nothing calls, removes the frozen entry of a process that
  ended. The next process with that number is reported as frozen and runs.
* `Containment`, `StopResumesAll`: the destructor thaws everything, since nothing would come back for what is left
  (`UserModeProcessContainment.cpp:75–76`). It drops the records and ignores whether the resumes succeed (`:89–90`); a process whose resume was
  refused stays suspended for good. In a thaw the same is at least logged (`:301–308`).
* `Quarantine`, `AnswerIsVaulted`: a second file at a quarantined path is answered as quarantined
  (`QuarantineManager.cpp:228`) while the vault holds the first, and the new file stays where it is.
* `Quarantine`, `IndexSurvives`: the fallback of the atomic write (`AtomicFile.h:36`) can fail half way and leave no index;
  the vault files are then nameless.
* `TaintRules`, `TrustedNotTainted`: `main.cpp:2257–2261` says why what was denied must be reconciled with trust at
  every start, too, but only `reconcileKernelBlocksAfterTrust` is called there (`:2272`), not `purgeTaintRulesAfterTrust`. A
  directory the settings came to trust, or a service that went down between the two saves of adding a trust entry
  (`:2058`), leaves a file trusted and still tainted.
* `TaintRules`, `TrustStaysInTheFile`: that all trust entries vanish silently at a start is called the least acceptable loss
  (`AtomicFile.h:13`), and the atomic write is there against it. A file that cannot be opened or parsed is an empty set of
  rules (`RuleStore.cpp:22`, `:27`), and the next save writes that over the file.
* `Reputation`, `MaliciousIsPermanent`: malicious is meant to be for good (`ReputationCache.cpp:59`), but a later
  answer "unknown" overwrites the entry (`:86`).

Seen while reading, without a definition:

* *Containment.* `Worker.cpp:1335` says that killing a process clears its record; it does not (above), so entries add up to the
  limit, and `cutOffChildren()` answers yes for a new owner of the number, too.
  `freeze()` on a frozen process does not update the automatic thaw, against `Worker.cpp:863–866`.
  The freeze on detection (`Worker.cpp:676–682`) is never reached, since `wantsVerdict()` is constant.
  A prompt answered late acts on the event's process number (`Worker.cpp:874`).
* *Quarantine.* An entry made while the index cannot be read is dropped by the next successful load and
  its vault file becomes nameless (`QuarantineManager.cpp:201`). A deletion left to the next reboot goes by path, so it
  hits a file that was restored in between (`:316`).
* *Taint.* The eviction counts duplicates (`Worker.cpp:2828`). A directory of `TrustedDirectories` that a save has
  written into `rules.json` stays trusted after it was removed from the settings (`main.cpp:636`). A taint that lands while a prompt of other
  origin is open is not dropped by a remembered Allow (`Worker.cpp:887`), and a remembered Allow for an interpreter's
  start matches every script it runs.
* *Reputation.* The lane's hash is not in `inflight_` (`ReputationManager.cpp:187`), so it can be asked about twice. A file
  turned away by a busy lane is queued only if it is seen for the first time. After a failed query "asked again
  when it is next met" (`:258`) does not happen for a file already seen. The token bucket waits long when the clock is set back (`RateLimiting.cpp:215`).
* *Events.* `FltSendMessage` with no timeout loses events while no reader waits. `EtwProcessEventSource::stop`
  (`:1019`) keeps its queue, unlike the driver's source, so events from before a standby are handed on after it; its `drain`
  takes the whole queue against the comment at `:626`. The coordinator decides by the state of the link when
  an event is drained, not when it happened (`EventSourceCoordinator.cpp:575–621`): around a connect or a loss an event is dropped or reported twice.
* *Protocol.* "There is no removal of one entry in the protocol" (`DriverEventSource.cpp:1450`,
  `Worker.cpp:1411`) against the DEL commands of `Protocol.h`. `Driver.h:144–147` says that only the
  banned set needs a lock, `:328–342` give every set one.
* *Lifetime.* A stale deferred call can skip the grace period (`main.cpp:2387` against 2295). Turning
  the kernel off leaves the driver loaded in the standby that follows (`EventSourceCoordinator.cpp:371`
  against 244). `EventSource=Driver` is switched off by any change of settings (`main.cpp:1052` against
  2224).
* *Link.* The successor of an abandoned reader pushes an empty configuration
  (`DriverEventSource.cpp:1268`). `blockExecPath` says yes whatever became of the command (1442–1449).
  `protocolMismatch`, once set, is never cleared (`EventSourceCoordinator.cpp:116` shows it).
* *Reconciliation.* Without a link it reports success, because clearing the service's own list always
  succeeds (`EventSourceCoordinator.cpp:528–531` against `main.cpp:2263–2265`). It reads the registry, up
  to 300 ms behind the table, so a denial learned just now is lost by CLEAR. Trusting a directory
  frees no kernel entry. With a link, what was on the service's own list is sent to the driver, which answers an ADD with success
  when its table is full; an end of the process between the clearing and the resending loses what was not sent
  (`Worker.cpp:1767–1769`). Images that differ only in the drive share an entry.
* *User-mode list.* An entry armed on one drive is never resolved again (`UserModeExecBlock.cpp:221`
  against 84).
* *Update.* The roll-back (`UpdateService.cpp:296–397`) ignores its own failures while its answer says that the
  version was not changed; nothing repairs a crash between rename and copy.

## 7 What is not modelled

PROJECT.json gives the reason part by part. In short:

* observation only: `UserModeBehaviorSource`, `EtwProcessEventSource`;
* calls to the operating system whose result the models take as given: process inspection,
  `SystemHardening` but for the deny-execute entry, `ThreatRemediator`;
* stateless scoring, and tables of windows and counters on one thread, where the data decide and not the order:
  analysers, detection rules, behaviour monitors, `AttackChainEngine`, the built-in rules;
* data formats: IPC frames, the mapping of driver messages to events, the stores but for when they are saved;
* one thread that renames and copies: `UpdateService` (its disagreements are in section 6);
* other programs: UI, servers, training, packaging.

Inside modelled components: event routing in the coordinator; the driver's other lists (same shape),
matching and authentication; the PID sets other than the banned one, which use the same primitives
without the count; `disposeOf` and the automatic thaw of the containment, which the code never reaches;
suspending and resuming by hand from the list of processes (`main.cpp:1584–1680`); rules with wildcards for the
actor; the file of the reputation cache and the limits of its sources; the ring of the hash scanner. In `Quarantine` a crash is
one of the process: what was written stays written (no unflushed disk cache), and an index that opens can be read to its end
(`QuarantineManager.cpp:175–187` treats a read that breaks off as a damaged file). In `DriverLink` the configuration is the one
pushed on attaching; changes to it while attached, and the enumeration that starts memory protection, are left out.

By lines, most of the repository is of these kinds — analysers, user interface, calls to the
operating system — so the map covers the part of it in which order, failure and concurrency decide, and
not a large share of its lines.

## 8 State and outlook

All modules of the original plan that concern order, failure or concurrency are written, checked and
proved about; of what the runs check, only liveness is not. What a next step would take up:

1. Abstract specifications in the manner of `BlockList`, `KernelLink` and `EventQueue` for the
   components that have none: what `Reputation` promises an event, and what `Containment`
   promises a process.
2. The locks of `ProtectionLifetime` as an implementation of `BlockList`: the theorem of `ExecBlock` is about a caller that
   replays once into an empty table, which the wake-up does not keep (`HandlesOwned`).
3. The hash scanner's ring as a second instance of `EventQueue`, and `UserModeNetworkBlock` as a second
   implementation of `BlockList`.
4. `UpdateService`: rename aside, copy, roll back, with a crash in between.
5. The order of the stages of a verdict in the rule engine against a reference definition.
