----------------------------- MODULE Containment -----------------------------
(***************************************************************************)
(* What the service does to a process it holds for malicious, and how the  *)
(* user gets the process back: the prompts of the Worker, its             *)
(* killMalicious, and the table of UserModeProcessContainment.             *)
(*                                                                         *)
(* Everything here runs on the main thread, one handler after the other;   *)
(* the processes it acts on start, act and end meanwhile, and their        *)
(* numbers are given out again.  An event names its process by number and  *)
(* image and reaches its handler late: queued, after a look-up in the      *)
(* background, or after a prompt that stood open for minutes.              *)
(*                                                                         *)
(* Not here: the bans of the kernel (BannedPids), what is denied for the   *)
(* next start (TrustReconcile), how a verdict is found (any is taken). The *)
(* freeze on detection (Worker.cpp:676) is left out because its condition, *)
(* a source that does not wait for verdicts, is never met: the coordinator *)
(* answers TRUE always.  So no entry thaws by itself.                      *)
(***************************************************************************)
EXTENDS Integers, FiniteSets, Sequences

CONSTANTS
    Pids,         \* process numbers
    Images,       \* image paths
    Critical,     \* images of critical and protected processes
    MaxEntries,   \* the limit of the table (64)
    MaxPrompts,   \* the limit of the open prompts (512)
    MaxMail,      \* bound: events on their way to the main thread
    MaxLost,      \* bound: unrecorded suspensions of one process
    Gone          \* no process has this number

ASSUME ContainmentAssumption ==
    /\ Critical \subseteq Images
    /\ Gone \notin Images
    /\ MaxEntries \in Nat \ {0}
    /\ MaxPrompts \in Nat \ {0}
    /\ MaxMail \in Nat \ {0}
    /\ MaxLost \in Nat

VARIABLES
    proc,      \* the image of the process with a number, or Gone
    susp,      \* how often the service has suspended that process
    lost,      \* how many of these no table knows of any more
    entries,   \* entries_: number -> [frozen, job, image]
    trusted,   \* images the user trusts
    pending,   \* pending_: the open prompts, oldest first
    overdue,   \* numbers of the prompts whose deadline has passed
    mail,      \* events and answers of look-ups on their way
    at,        \* where the main thread is
    subject,   \* the event it works on
    todo,      \* prompts it still has to resolve by default
    asking,    \* the event whose prompt it will open then
    up         \* the service runs

vars == <<proc, susp, lost, entries, trusted, pending, overdue, mail, at,
          subject, todo, asking, up>>

world   == <<proc, susp, lost, entries>>
prompts == <<pending, overdue>>
thread  == <<at, subject, todo, asking>>

Event    == [pid : Pids, image : Images]
Senders  == {"engine", "lookup"}
Prompt   == [id : 1..MaxPrompts, event : Event, timed : BOOLEAN]
Entry    == [frozen : BOOLEAN, job : BOOLEAN, image : Images]
Steps    == {"idle", "default", "kill", "freeze", "cutoff", "terminate", "wait"}
NoEvent  == [pid |-> Gone, image |-> Gone]

TypeOK ==
    /\ proc \in [Pids -> Images \cup {Gone}]
    /\ susp \in [Pids -> Nat]
    /\ lost \in [Pids -> Nat]
    /\ DOMAIN entries \subseteq Pids
    /\ entries \in [DOMAIN entries -> Entry]
    /\ trusted \subseteq Images
    /\ pending \in Seq(Prompt)
    /\ overdue \subseteq 1..MaxPrompts
    /\ mail \subseteq [event : Event, from : Senders]
    /\ at \in Steps
    /\ subject \in Event \cup {NoEvent}
    /\ todo \subseteq Prompt
    /\ asking \in Event \cup {NoEvent}
    /\ up \in BOOLEAN

Init ==
    /\ proc \in [Pids -> Images \cup {Gone}]
    /\ susp = [p \in Pids |-> 0]
    /\ lost = susp
    /\ entries = [p \in {} |-> [frozen |-> FALSE, job |-> FALSE, image |-> Gone]]
    /\ trusted = {}
    /\ pending = << >>
    /\ overdue = {}
    /\ mail = {}
    /\ at = "idle"
    /\ subject = NoEvent
    /\ todo = {}
    /\ asking = NoEvent
    /\ up = TRUE

Idle == up /\ at = "idle"

-----------------------------------------------------------------------------
(* The table.  An operator that ends in To gives the table a call leaves    *)
(* behind; the suspension of the process is changed beside it.              *)

Frozen(p) == p \in DOMAIN entries /\ entries[p].frozen
CutOff(p) == p \in DOMAIN entries /\ entries[p].job
HasRoom(p) == p \in DOMAIN entries \/ Cardinality(DOMAIN entries) < MaxEntries

\* refuseTarget: critical or protected, or no longer there to be asked.
RefuseTarget(p) == proc[p] = Gone \/ proc[p] \in Critical

Put(p, entry) == [q \in DOMAIN entries \cup {p} |-> IF q = p THEN entry ELSE entries[q]]

\* Thawing clears the mark, drops an entry without a job, and only then
\* resumes the process that has the number now.
ThawTo(ps) ==
    [q \in {r \in DOMAIN entries : r \notin ps \/ ~ entries[r].frozen \/ entries[r].job}
        |-> IF q \in ps THEN [entries[q] EXCEPT !.frozen = FALSE] ELSE entries[q]]

\* tryResume of one number after the other; the system may refuse any of
\* them, and the process stays suspended with no record of it.
Held(ps) == {p \in ps : Frozen(p) /\ susp[p] > 0}

Resume(ps) ==
    \E refused \in SUBSET Held(ps) :
        /\ \A p \in refused : lost[p] < MaxLost
        /\ susp' = [p \in Pids |-> IF p \in Held(ps) \ refused THEN susp[p] - 1 ELSE susp[p]]
        /\ lost' = [p \in Pids |-> IF p \in refused THEN lost[p] + 1 ELSE lost[p]]

Thaw_ForgetsResume(ps) ==
    /\ entries' = ThawTo(ps)
    /\ UNCHANGED <<susp, lost>>

Thaw(ps) ==
    /\ entries' = ThawTo(ps)
    /\ Resume(ps)

-----------------------------------------------------------------------------
(* Handlers return to whatever the main thread has left to do in the same   *)
(* call: further prompts to resolve, then the prompt that made room.        *)

Kill(e) ==
    /\ at' = "kill"
    /\ subject' = e

Return(ps) ==
    /\ at' = IF ps # {} \/ asking # NoEvent THEN "default" ELSE "idle"
    /\ subject' = NoEvent

FreeId == CHOOSE n \in 1..MaxPrompts : \A i \in DOMAIN pending : pending[i].id # n

PromptFor(e, timed) == [id |-> FreeId, event |-> e, timed |-> timed]

\* The Ask branch of onEvent: over the limit the oldest prompt is resolved
\* by default first.
Ask(e) ==
    \/ /\ Len(pending) < MaxPrompts
       /\ \E timed \in BOOLEAN : pending' = Append(pending, PromptFor(e, timed))
       /\ UNCHANGED <<overdue, thread>>
    \/ /\ Len(pending) >= MaxPrompts
       /\ pending' = Tail(pending)
       /\ overdue' = overdue \ {Head(pending).id}
       /\ todo' = {Head(pending)}
       /\ asking' = e
       /\ at' = "default"
       /\ UNCHANGED subject

\* onEvent, as far as it acts on processes: a trusted actor is left alone,
\* a verdict short of Block may start a look-up in the background.
HandleEvent(e) ==
    /\ Idle
    /\ [event |-> e, from |-> "engine"] \in mail
    /\ \/ /\ e.image \in trusted
          /\ mail' = mail \ {[event |-> e, from |-> "engine"]}
          /\ UNCHANGED <<prompts, thread>>
       \/ /\ e.image \notin trusted
          /\ \/ /\ mail' = mail \ {[event |-> e, from |-> "engine"]}
                /\ Kill(e)
                /\ UNCHANGED <<prompts, todo, asking>>
             \/ /\ \E lookup \in BOOLEAN :
                     mail' = (mail \ {[event |-> e, from |-> "engine"]})
                             \cup (IF lookup THEN {[event |-> e, from |-> "lookup"]} ELSE {})
                /\ \/ Ask(e)
                   \/ UNCHANGED <<prompts, thread>>
    /\ UNCHANGED <<world, trusted, up>>

\* onReputationMalicious, onEgressMalicious and the sweep: trust is looked
\* up again, the process is not.
HandleLookup(e) ==
    /\ Idle
    /\ [event |-> e, from |-> "lookup"] \in mail
    /\ mail' = mail \ {[event |-> e, from |-> "lookup"]}
    /\ IF e.image \in trusted THEN UNCHANGED <<at, subject>> ELSE Kill(e)
    /\ UNCHANGED <<world, trusted, prompts, todo, asking, up>>

\* onPromptResponse.
Remaining(ps) == SelectSeq(pending, LAMBDA q : q \notin ps)

AnswerAllow(q) ==
    /\ Idle
    /\ pending' = Remaining({q})
    /\ overdue' = overdue \ {q.id}
    /\ Thaw({q.event.pid})
    /\ UNCHANGED <<proc, trusted, mail, thread, up>>

AnswerBlock(q) ==
    /\ Idle
    /\ pending' = Remaining({q})
    /\ overdue' = overdue \ {q.id}
    /\ Kill(q.event)
    /\ UNCHANGED <<world, trusted, mail, todo, asking, up>>

\* onPromptTimeoutTick: first all that are due are taken out, then resolved.
Expired == {pending[i] : i \in {j \in DOMAIN pending : pending[j].id \in overdue}}

PromptTimeoutTick_Skips ==
    /\ Idle
    /\ Expired # {}
    /\ todo' = {}
    /\ overdue' = {}
    /\ at' = "idle"
    /\ UNCHANGED <<world, trusted, pending, mail, subject, asking, up>>

PromptTimeoutTick ==
    /\ Idle
    /\ Expired # {}
    /\ todo' = Expired
    /\ pending' = Remaining(Expired)
    /\ overdue' = {}
    /\ at' = "default"
    /\ UNCHANGED <<world, trusted, mail, subject, asking, up>>

\* resolvePromptByDefault, for one of those taken out; the setting is what
\* the user has made it by now.
ResolveByDefault ==
    /\ at = "default"
    /\ \E q \in todo :
          /\ todo' = todo \ {q}
          /\ \/ /\ Thaw({q.event.pid})
                /\ Return(todo \ {q})
             \/ /\ Kill(q.event)
                /\ UNCHANGED <<entries, susp, lost>>
    /\ UNCHANGED <<proc, trusted, prompts, mail, asking, up>>

\* Back in onEvent: there is room for the prompt that asked for it.
AskAtLast ==
    /\ at = "default"
    /\ todo = {}
    /\ asking # NoEvent
    /\ \E timed \in BOOLEAN : pending' = Append(pending, PromptFor(asking, timed))
    /\ asking' = NoEvent
    /\ at' = "idle"
    /\ UNCHANGED <<world, trusted, overdue, mail, subject, todo, up>>

-----------------------------------------------------------------------------
(* killMalicious, step by step; processes end between its steps.            *)

\* A number nobody has is not acted upon.
FindProcess ==
    /\ at = "kill"
    /\ IF proc[subject.pid] = Gone
          THEN Return(todo)
          ELSE at' = "freeze" /\ UNCHANGED subject
    /\ UNCHANGED <<world, trusted, prompts, mail, todo, asking, up>>

\* freeze(pid, image, why, autoThaw = false).
Freeze_EventImage ==
    LET p == subject.pid IN
    /\ at = "freeze"
    /\ at' = "cutoff"
    /\ \/ /\ ~ RefuseTarget(p)
          /\ ~ Frozen(p)
          /\ HasRoom(p)
          /\ susp' = [susp EXCEPT ![p] = @ + 1]
          /\ entries' = Put(p, [frozen |-> TRUE, job |-> CutOff(p), image |-> subject.image])
       \/ UNCHANGED <<susp, entries>>
    /\ UNCHANGED <<proc, lost, trusted, prompts, mail, subject, todo, asking, up>>

Freeze ==
    LET p == subject.pid IN
    /\ at = "freeze"
    /\ at' = "cutoff"
    /\ \/ /\ ~ RefuseTarget(p)
          /\ ~ Frozen(p)
          /\ HasRoom(p)
          /\ susp' = [susp EXCEPT ![p] = @ + 1]
          /\ entries' = Put(p, [frozen |-> TRUE, job |-> CutOff(p), image |-> proc[p]])
       \/ UNCHANGED <<susp, entries>>
    /\ UNCHANGED <<proc, lost, trusted, prompts, mail, subject, todo, asking, up>>

\* cutOffChildren(pid, onlyWhenTerminating = true): the limit cannot be taken
\* back, so all that is left of it here is the entry.
LimitChildren ==
    LET p == subject.pid IN
    /\ at = "cutoff"
    /\ at' = "terminate"
    /\ \/ /\ ~ RefuseTarget(p)
          /\ ~ CutOff(p)
          /\ HasRoom(p)
          /\ entries' = Put(p, IF p \in DOMAIN entries
                                  THEN [entries[p] EXCEPT !.job = TRUE]
                                  ELSE [frozen |-> FALSE, job |-> TRUE, image |-> proc[p]])
       \/ UNCHANGED entries
    /\ UNCHANGED <<proc, susp, lost, trusted, prompts, mail, subject, todo, asking, up>>

\* terminateProcessTree and the kill by the driver: it ends, or it does not.
Terminate ==
    LET p == subject.pid IN
    /\ at = "terminate"
    /\ at' = "wait"
    /\ \/ /\ proc[p] \notin Critical
          /\ proc' = [proc EXCEPT ![p] = Gone]
          /\ susp' = [susp EXCEPT ![p] = 0]
          /\ lost' = [lost EXCEPT ![p] = 0]
       \/ UNCHANGED <<proc, susp, lost>>
    /\ UNCHANGED <<entries, trusted, prompts, mail, subject, todo, asking, up>>

\* waitForExit and the report; the entry stays in either case.
WaitForExit ==
    /\ at = "wait"
    /\ Return(todo)
    /\ UNCHANGED <<world, trusted, prompts, mail, todo, asking, up>>

-----------------------------------------------------------------------------
(* Trust, timers, the end of the service.                                   *)

\* trustAddRequested and step 1b of reconcileKernelBlocksAfterTrust, which
\* goes through everything that is trusted by now.
TrustImage(i) ==
    /\ Idle
    /\ trusted' = trusted \cup {i}
    /\ Thaw({p \in DOMAIN entries : entries[p].frozen /\ entries[p].image \in trusted \cup {i}})
    /\ UNCHANGED <<proc, prompts, mail, thread, up>>

DistrustImage(i) ==
    /\ Idle
    /\ trusted' = trusted \ {i}
    /\ UNCHANGED <<world, prompts, mail, thread, up>>

\* onTtlTick: no entry is marked to thaw by itself; entries that hold only the
\* job of a process that has ended are dropped.
TtlTick_Thaws ==
    /\ Idle
    /\ Thaw({p \in DOMAIN entries : entries[p].frozen})
    /\ UNCHANGED <<proc, trusted, prompts, mail, thread, up>>

TtlTick ==
    /\ Idle
    /\ LET dead == {p \in DOMAIN entries : ~ entries[p].frozen /\ entries[p].job
                                           /\ proc[p] = Gone} IN
       entries' = [p \in DOMAIN entries \ dead |-> entries[p]]
    /\ UNCHANGED <<proc, susp, lost, trusted, prompts, mail, thread, up>>

NoEntries == [p \in {} |-> entries[p]]

\* The destructor drops the table and then resumes what was frozen in it.
Stop ==
    /\ Idle
    /\ Resume(DOMAIN entries)
    /\ entries' = NoEntries
    /\ pending' = << >>
    /\ overdue' = {}
    /\ mail' = {}
    /\ up' = FALSE
    /\ UNCHANGED <<proc, trusted, thread>>

\* The service is ended in the middle of anything; nobody resumes what it
\* has suspended, and nobody knows of it.
Killed ==
    /\ up
    /\ \A p \in Pids : susp[p] <= MaxLost
    /\ lost' = susp
    /\ entries' = NoEntries
    /\ pending' = << >>
    /\ overdue' = {}
    /\ mail' = {}
    /\ at' = "idle"
    /\ subject' = NoEvent
    /\ todo' = {}
    /\ asking' = NoEvent
    /\ up' = FALSE
    /\ UNCHANGED <<proc, susp, trusted>>

Restart ==
    /\ ~ up
    /\ up' = TRUE
    /\ UNCHANGED <<world, trusted, prompts, mail, thread>>

-----------------------------------------------------------------------------
(* The processes and the clock.                                             *)

InHand(p) == at # "idle" /\ subject.pid = p

\* A freed number is given out again, though not within one handler (300 ms).
ProcessStarts(p, i) ==
    /\ proc[p] = Gone
    /\ ~ InHand(p)
    /\ proc' = [proc EXCEPT ![p] = i]
    /\ UNCHANGED <<susp, lost, entries, trusted, prompts, mail, thread, up>>

ProcessEnds(p) ==
    /\ proc[p] # Gone
    /\ proc' = [proc EXCEPT ![p] = Gone]
    /\ susp' = [susp EXCEPT ![p] = 0]
    /\ lost' = [lost EXCEPT ![p] = 0]
    /\ UNCHANGED <<entries, trusted, prompts, mail, thread, up>>

ProcessActs(p) ==
    /\ up
    /\ proc[p] # Gone
    /\ susp[p] = 0
    /\ Cardinality(mail) < MaxMail
    /\ mail' = mail \cup {[event |-> [pid |-> p, image |-> proc[p]], from |-> "engine"]}
    /\ UNCHANGED <<world, trusted, prompts, thread, up>>

DeadlinePasses(n) ==
    /\ up
    /\ \E i \in DOMAIN pending : pending[i].id = n /\ pending[i].timed
    /\ n \notin overdue
    /\ overdue' = overdue \cup {n}
    /\ UNCHANGED <<world, trusted, pending, mail, thread, up>>

Answer == \E i \in DOMAIN pending : AnswerAllow(pending[i]) \/ AnswerBlock(pending[i])

Work ==
    \/ ResolveByDefault \/ AskAtLast
    \/ FindProcess \/ Freeze \/ LimitChildren \/ Terminate \/ WaitForExit

Next ==
    \/ Work
    \/ \E m \in mail : HandleEvent(m.event) \/ HandleLookup(m.event)
    \/ Answer
    \/ PromptTimeoutTick
    \/ TtlTick
    \/ \E i \in Images : TrustImage(i) \/ DistrustImage(i)
    \/ Stop \/ Killed \/ Restart
    \/ \E p \in Pids : ProcessEnds(p) \/ ProcessActs(p) \/ \E i \in Images : ProcessStarts(p, i)
    \/ \E n \in 1..MaxPrompts : DeadlinePasses(n)

Spec == Init /\ [][Next]_vars

\* A handler runs to its end; deadlines pass; the timer of a second is served,
\* though other handlers keep coming in between.
Fairness ==
    /\ WF_vars(Work)
    /\ SF_vars(PromptTimeoutTick)
    /\ \A n \in 1..MaxPrompts : SF_vars(DeadlinePasses(n))

FairSpec == Spec /\ Fairness

-----------------------------------------------------------------------------
(* A process is suspended at most once more than the system refused to      *)
(* resume it and killed services left it behind; that one suspension has a  *)
(* frozen entry that names the image of the process, so that trust, an      *)
(* answer and the destructor find it.  The service itself drops no record   *)
(* of a suspension it does not try to end.                                  *)
SuspendedIsRecorded ==
    \A p \in Pids : susp[p] # lost[p] =>
        /\ susp[p] = lost[p] + 1
        /\ Frozen(p)
        /\ entries[p].image = proc[p]

(* The table never outgrows its limit.                                      *)
WithinLimit == Cardinality(DOMAIN entries) <= MaxEntries

(* What killMalicious reports of a process that survived is true: it is     *)
(* frozen if the table says so.                                             *)
(* Not so: README, section 6.                                              *)
HeldIsReal ==
    at = "wait" /\ proc[subject.pid] # Gone /\ Frozen(subject.pid) => susp[subject.pid] > 0

(* When the user has trusted an image, or the user or the default has let a *)
(* prompt pass, what the service has suspended of these processes runs,     *)
(* whichever event and whichever name suspended them: the only suspensions  *)
(* left are those the system refused to end, now or before, and those of a  *)
(* service that was killed.                                                 *)
LetGo(p) ==
    \/ proc'[p] \in trusted' \ trusted
    \/ \E i \in DOMAIN pending : pending[i].event.pid = p /\ AnswerAllow(pending[i])
    \/ at = "default" /\ at' # "kill" /\ \E q \in todo \ todo' : q.event.pid = p
ClearedRuns ==
    [][\A p \in Pids : LetGo(p) => susp'[p] = lost'[p]]_vars

(* A process that was suspended is resumed only because its image is        *)
(* trusted, a prompt about its number was let pass, or the service stopped: *)
(* no timer releases what was found malicious.                              *)
Decided(p) ==
    \/ proc[p] \in trusted' /\ \E i \in Images : TrustImage(i)
    \/ \E i \in DOMAIN pending : pending[i].event.pid = p /\ AnswerAllow(pending[i])
    \/ at = "default" /\ \E q \in todo : q.event.pid = p
    \/ up /\ ~ up'
HeldUntilDecided ==
    [][\A p \in Pids : susp'[p] < susp[p] /\ proc'[p] = proc[p] => Decided(p)]_vars

(* A prompt with a deadline is resolved: by an answer, by the default, or   *)
(* with the service.                                                        *)
TimedPrompt(n) == \E i \in DOMAIN pending : pending[i].id = n /\ pending[i].timed
PromptsEnd == \A n \in 1..MaxPrompts : TimedPrompt(n) ~> ~ TimedPrompt(n)

(* The destructor resumes every process the table holds as frozen.          *)
(* Not so: README, section 6.                                              *)
StopResumesAll == [][Stop => \A p \in Pids : susp'[p] = lost[p]]_vars
=============================================================================
