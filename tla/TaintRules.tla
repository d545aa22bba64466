----------------------------- MODULE TaintRules -----------------------------
(***************************************************************************)
(* The rules that follow a blocked program's files: taintDroppedFiles and  *)
(* what takes such rules back (an answer of the user, a trusted file, the  *)
(* limit, their end), with the rules the user makes, the trust entries and *)
(* the rules file.                                                         *)
(*                                                                         *)
(* Everything but the signing and hashing of the candidates runs on the    *)
(* main thread.  A handler that saves twice is two steps, because the      *)
(* service can go down between the saves.  Other rules and the stages      *)
(* around the rules can give any verdict.  Not here: rules with wildcards  *)
(* for the actor, and one file at two paths.                               *)
(***************************************************************************)
EXTENDS Naturals, Sequences, FiniteSets

CONSTANTS
    Exec,       \* dropped programs
    Modules,    \* dropped modules
    Scripts,    \* dropped scripts and packages, that an interpreter runs
    Hosts,      \* programs that were not dropped
    NoFile,     \* an event that is only about its actor
    Covers,     \* what the trust entries cover: a file, or the files below a directory
    Seeds,      \* the directories appsettings can name as trusted
    PromptIds,  \* the prompts that can be open at a time
    PerBlock,   \* kTaintMaxPerBlock
    Limit,      \* kTaintMaxTotal
    MaxJobs,    \* a bound on the jobs that wait
    MaxBatches, \* a bound on the batches of rules
    MaxAnswers, \* a bound on the user's rules
    MaxFailures \* a bound on the saves and loads that fail

Carried == Modules \cup Scripts
Files   == Exec \cup Carried

ASSUME TaintAssumption ==
    /\ IsFiniteSet(Files)
    /\ NoFile \notin Files \cup Hosts
    /\ Exec \cap Carried = {} /\ Modules \cap Scripts = {}
    /\ Hosts \cap Files = {}
    /\ Covers \subseteq SUBSET (Files \cup Hosts) /\ Seeds \subseteq Covers
    /\ PerBlock \in Nat /\ Limit \in Nat /\ 2 * PerBlock <= Limit
    /\ MaxJobs \in Nat /\ MaxBatches \in Nat /\ MaxAnswers \in Nat
    /\ MaxFailures \in Nat

\* The module or script that the actor loads or runs, if it is about one.
Event   == [actor : Exec \cup Hosts, with : Carried \cup {NoFile}]
Actions == {"Allow", "Ask", "Block"}

Taint  == [form : {"path", "hash", "carried"}, file : Files, hard : BOOLEAN, born : Nat]
Answer == [actor : Exec \cup Hosts, target : Modules \cup {NoFile},
           action : Actions, life : {"session", "lasting"}]

VARIABLES
    taints,    \* the taint rules in force
    answers,   \* the rules the user made
    trust,     \* the trust entries
    store,     \* rules.json
    prompts,   \* pending_
    jobs,      \* taintPool_, and what it posted to the main thread
    step,      \* what the main thread still has to do in its handler
    batches,   \* time: batches of taint rules made so far
    failures,  \* the saves and loads that failed so far
    unsaved,   \* history: the last save failed
    unread,    \* history: the file could not be read at the start, nor replaced since
    inherited, \* history: files that were tainted and trusted at the start
    allowed    \* history: tainted events the user allowed, not tainted again

rules   == <<taints, answers, trust>>
saved   == <<store, failures, unsaved, unread>>
history == <<inherited, allowed>>
vars    == <<rules, saved, prompts, jobs, step, batches, history>>

Store   == [taints : SUBSET Taint, answers : SUBSET Answer, trust : SUBSET Covers]
NoRules == [taints |-> {}, answers |-> {}, trust |-> {}]
Prompt  == [event : Event, taint : BOOLEAN]
NoPrompt == [event |-> NoFile]
Job     == [hard : SUBSET Files, soft : SUBSET Files]
Idle    == [at |-> "idle"]
Step    == {Idle, [at |-> "purge"]} \cup [at : {"drop"}, event : Event]
             \cup [at : {"inject"}, made : SUBSET Taint]

TypeOK ==
    /\ taints \subseteq Taint
    /\ answers \subseteq Answer
    /\ trust \subseteq Covers
    /\ store \in Store
    /\ prompts \in [PromptIds -> Prompt \cup {NoPrompt}]
    /\ jobs \in Seq(Job)
    /\ step \in Step
    /\ batches \in Nat
    /\ failures \in Nat
    /\ unsaved \in BOOLEAN /\ unread \in BOOLEAN
    /\ inherited \subseteq Files
    /\ allowed \subseteq Event

Init ==
    /\ taints = {} /\ answers = {} /\ trust = {}
    /\ store = NoRules
    /\ prompts = [id \in PromptIds |-> NoPrompt]
    /\ jobs = <<>>
    /\ step = Idle
    /\ batches = 0
    /\ failures = 0 /\ unsaved = FALSE /\ unread = FALSE
    /\ inherited = {} /\ allowed = {}

-----------------------------------------------------------------------------
(* The rules.                                                               *)

Trusted(f) == \E cover \in trust : f \in cover

\* DefenseRule::matches, for a taint rule and for a rule of the user.
Taints(r, e) == r.file = (IF r.form = "carried" THEN e.with ELSE e.actor)
                /\ (r.form = "carried" \/ e.with \notin Modules)
Target(e) == IF e.with \in Modules THEN e.with ELSE NoFile
Answers(r, e) == r.actor = e.actor /\ r.target = Target(e)

\* Which of the matching rules is heard: by tier, by how specific it is, then
\* the stricter one.
Strength(action) == CASE action = "Block" -> 2 [] action = "Ask" -> 1 [] OTHER -> 0
TaintAction(r)   == IF r.hard THEN "Block" ELSE "Ask"
TaintRank(r) ==
    Strength(TaintAction(r)) +
    (CASE r.form = "hash" -> 250
       [] r.form = "path" -> 240
       [] r.file \in Scripts -> 30 + (IF r.hard THEN 100 ELSE 0)
       [] OTHER -> 20 + (IF r.hard THEN 100 ELSE 0))
AnswerRank(r) == 250 + Strength(r.action)

\* evaluate, as far as these rules decide.
HeardTaints(e) ==
    {r \in taints : /\ Taints(r, e)
                    /\ \A o \in taints : Taints(o, e) => TaintRank(r) >= TaintRank(o)
                    /\ \A o \in answers : Answers(o, e) => TaintRank(r) >= AnswerRank(o)}

Verdicts(e) ==
    IF Trusted(e.actor)
    THEN {[action |-> "Allow", taint |-> FALSE]}
    ELSE [action : Actions, taint : {FALSE}]
           \cup {[action |-> TaintAction(r), taint |-> TRUE] : r \in HeardTaints(e)}

\* RuleStore::save.  When the temporary file cannot be used the file is
\* written in place, and removed when that fails half-way; a file that a
\* crash in the middle left torn is no better than none.
Save(t, a, c) ==
    \/ /\ store' = [taints |-> t, answers |-> {r \in a : r.life # "session"}, trust |-> c]
       /\ unsaved' = FALSE /\ unread' = FALSE
       /\ UNCHANGED failures
    \/ /\ failures < MaxFailures
       /\ failures' = failures + 1
       /\ store' \in {store, NoRules}
       /\ unsaved' = TRUE
       /\ UNCHANGED unread

SaveIf(changed, t, a, c) ==
    IF changed THEN Save(t, a, c) ELSE UNCHANGED saved

-----------------------------------------------------------------------------
(* Tainting what a blocked program dropped.                                 *)

\* taintDroppedFiles: which files it wrote, and which came along with it,
\* is the process chain's business.
QueueTaint(e, grade) ==
    \/ /\ ~ Trusted(e.actor)
       /\ Len(jobs) < MaxJobs
       /\ \E direct, along \in SUBSET {f \in Files : ~ Trusted(f)} :
            /\ direct \cap along = {}
            /\ direct \cup along # {}
            /\ jobs' = Append(jobs, IF grade = "Block"
                                    THEN [hard |-> direct, soft |-> along]
                                    ELSE [hard |-> {}, soft |-> direct \cup along])
    \/ UNCHANGED jobs

\* The rules of the files that are there and not signed.
Made(found, hashed, hard) ==
    {[form |-> IF f \in Exec THEN "path" ELSE "carried",
      file |-> f, hard |-> f \in hard, born |-> batches] : f \in found}
    \cup {[form |-> "hash", file |-> f, hard |-> f \in hard, born |-> batches] : f \in hashed}

\* evictOldTaintRules.  Rules of one batch are of one age.
Surplus(incoming) ==
    IF Cardinality(taints) + incoming <= Limit THEN 0
    ELSE IF incoming > Limit THEN Cardinality(taints)
    ELSE Cardinality(taints) + incoming - Limit

Evicted(gone, incoming) ==
    /\ Cardinality(gone) = Surplus(incoming)
    /\ \A g \in gone, k \in taints \ gone : g.born <= k.born

\* A job comes back to the main thread: trust is asked again, room is made.
Landing_TrustsTheJob(found) == found

Landing(found) == {f \in found : ~ Trusted(f)}

Land ==
    /\ step = Idle
    /\ jobs # <<>>
    /\ batches < MaxBatches
    /\ jobs' = Tail(jobs)
    /\ \E found \in SUBSET (Head(jobs).hard \cup Head(jobs).soft), hashed \in SUBSET Exec :
         LET made == Made(Landing(found), Landing(found) \cap hashed, Head(jobs).hard) IN
         /\ Cardinality(found) <= PerBlock
         /\ IF made = {}
            THEN UNCHANGED <<taints, saved, step, batches>>
            ELSE \E gone \in SUBSET taints :
                   /\ Evicted(gone, Cardinality(made))
                   /\ taints' = taints \ gone
                   /\ SaveIf(gone # {}, taints', answers, trust)
                   /\ step' = [at |-> "inject", made |-> made]
                   /\ batches' = batches + 1
    /\ UNCHANGED <<answers, trust, prompts, history>>

\* The rule injector: a rule that is there already is not added again.
SameRule(r, o) == r.form = o.form /\ r.file = o.file /\ r.hard = o.hard

Inject ==
    /\ step.at = "inject"
    /\ LET new == {r \in step.made : \A o \in taints : ~ SameRule(r, o)} IN
       /\ taints' = taints \cup new
       /\ SaveIf(new # {}, taints', answers, trust)
       /\ allowed' = {e \in allowed : \A r \in new : ~ Taints(r, e)}
    /\ step' = Idle
    /\ UNCHANGED <<answers, trust, prompts, jobs, batches, inherited>>

-----------------------------------------------------------------------------
(* Events, prompts and their answers.                                       *)

\* Worker::onEvent.  The settings can turn an Ask into either of the others;
\* a block that was an Ask, or is no sure one, leaves softer rules or none.
OnEvent(e) ==
    /\ step = Idle
    /\ \E v \in Verdicts(e) :
         \/ /\ v.action = "Ask"
            /\ \E id \in PromptIds :
                 /\ prompts[id] = NoPrompt
                 /\ prompts' = [prompts EXCEPT ![id] = [event |-> e, taint |-> v.taint]]
            /\ UNCHANGED jobs
         \/ /\ v.action # "Allow"
            /\ QueueTaint(e, v.action)
            /\ UNCHANGED prompts
    /\ UNCHANGED <<rules, saved, step, batches, history>>

Remember(e, action, life) ==
    IF life = "no" THEN answers
    ELSE answers \cup {[actor |-> e.actor, target |-> Target(e), action |-> action, life |-> life]}

\* Worker::onPromptResponse.
OnPromptResponse(id, action, life) ==
    /\ step = Idle
    /\ prompts[id] # NoPrompt
    /\ prompts' = [prompts EXCEPT ![id] = NoPrompt]
    /\ LET e == prompts[id].event IN
       /\ answers' = Remember(e, action, life)
       /\ Cardinality(answers') <= MaxAnswers
       /\ SaveIf(life # "no", taints, answers', trust)
       /\ IF action = "Block"
          THEN QueueTaint(e, "Ask") /\ UNCHANGED <<step, allowed>>
          ELSE /\ UNCHANGED jobs
               /\ IF prompts[id].taint
                  THEN step' = [at |-> "drop", event |-> e] /\ allowed' = allowed \cup {e}
                  ELSE UNCHANGED <<step, allowed>>
    /\ UNCHANGED <<taints, trust, batches, inherited>>

\* dropTaintRulesMatching: every taint rule of the files whose rules match.
Matching_TheOneHeard(e) == {r \in taints : r \in HeardTaints(e)}

Matching(e) ==
    LET named == {r.file : r \in {t \in taints : Taints(t, e)}} IN
    {r \in taints : r.file \in named}

Drop ==
    /\ step.at = "drop"
    /\ taints' = taints \ Matching(step.event)
    /\ SaveIf(taints' # taints, taints', answers, trust)
    /\ step' = Idle
    /\ UNCHANGED <<answers, trust, prompts, jobs, batches, history>>

\* resolvePromptByDefault, when the time is up or the prompts are too many.
ResolvePromptByDefault(id) ==
    /\ step = Idle
    /\ prompts[id] # NoPrompt
    /\ prompts' = [prompts EXCEPT ![id] = NoPrompt]
    /\ QueueTaint(prompts[id].event, "Ask")
    /\ UNCHANGED <<rules, saved, step, batches, history>>

-----------------------------------------------------------------------------
(* The user's rules and trust entries, and their end.                       *)

AddTrust(cover) ==
    /\ step = Idle
    /\ trust' = trust \cup {cover}
    /\ SaveIf(cover \notin trust, taints, answers, trust')
    /\ step' = [at |-> "purge"]
    /\ UNCHANGED <<taints, answers, prompts, jobs, batches, history>>

\* purgeTaintRulesAfterTrust.
PurgeTaintRulesAfterTrust ==
    /\ step.at = "purge"
    /\ taints' = {r \in taints : ~ Trusted(r.file)}
    /\ SaveIf(taints' # taints, taints', answers, trust)
    /\ step' = Idle
    /\ UNCHANGED <<answers, trust, prompts, jobs, batches, history>>

AddRule(r) ==
    /\ step = Idle
    /\ r.life = "lasting"
    /\ answers' = answers \cup {r}
    /\ Cardinality(answers') <= MaxAnswers
    /\ Save(taints, answers', trust)
    /\ UNCHANGED <<taints, trust, prompts, jobs, step, batches, history>>

RemoveRule_WithoutSaving(t, a, c) ==
    /\ taints' = taints \ t /\ answers' = answers \ a /\ trust' = trust \ c
    /\ UNCHANGED saved

RemoveRule(t, a, c) ==
    /\ taints' = taints \ t /\ answers' = answers \ a /\ trust' = trust \ c
    /\ Save(taints', answers', trust')

DeleteRule ==
    /\ step = Idle
    /\ \/ \E r \in taints : RemoveRule({r}, {}, {})
       \/ \E r \in answers : RemoveRule({}, {r}, {})
       \/ \E c \in trust : RemoveRule({}, {}, {c})
    /\ UNCHANGED <<prompts, jobs, step, batches, history>>

\* A rule whose time is up counts nowhere: not when rules are matched, listed
\* or saved, and not when they are loaded.  A lasting answer was given for an
\* hour, a day or for good.
Expire ==
    /\ step = Idle
    /\ \/ \E r \in taints \cup store.taints :
            /\ taints' = taints \ {r}
            /\ store' = [store EXCEPT !.taints = @ \ {r}]
            /\ UNCHANGED answers
       \/ \E r \in answers \cup store.answers :
            /\ r.life = "lasting"
            /\ answers' = answers \ {r}
            /\ store' = [store EXCEPT !.answers = @ \ {r}]
            /\ UNCHANGED taints
    /\ UNCHANGED <<trust, prompts, jobs, step, batches, failures, unsaved, unread, history>>

\* RuleStore::load.  A file that is there but cannot be opened or parsed
\* counts as one without rules, and nobody is told.
Load(read) ==
    \/ read = store /\ unread' = FALSE /\ UNCHANGED failures
    \/ /\ failures < MaxFailures
       /\ failures' = failures + 1
       /\ read = NoRules
       /\ unread' = TRUE

\* The service goes down, at any step, and is started again: the rules of the
\* file, and the directories that appsettings names.
Restart ==
    /\ \E read \in {store, NoRules} :
         /\ Load(read)
         /\ taints' = read.taints
         /\ answers' = read.answers
         /\ \E seeded \in SUBSET Seeds : trust' = read.trust \cup seeded
    /\ prompts' = [id \in PromptIds |-> NoPrompt]
    /\ jobs' = <<>>
    /\ step' = Idle
    /\ unsaved' = FALSE
    /\ inherited' = {f \in Files : /\ \E r \in taints' : r.file = f
                                   /\ \E cover \in trust' : f \in cover}
    /\ allowed' = {}
    /\ UNCHANGED <<store, batches>>

Next ==
    \/ Land \/ Inject
    \/ \E e \in Event : OnEvent(e)
    \/ \E id \in PromptIds, action \in {"Allow", "Block"},
          life \in {"no", "session", "lasting"} : OnPromptResponse(id, action, life)
    \/ \E id \in PromptIds : ResolvePromptByDefault(id)
    \/ Drop
    \/ \E cover \in Covers : AddTrust(cover)
    \/ PurgeTaintRulesAfterTrust
    \/ \E r \in Answer : AddRule(r)
    \/ DeleteRule \/ Expire \/ Restart

Spec == Init /\ [][Next]_vars

-----------------------------------------------------------------------------
(* Properties.                                                              *)

\* The rule store is a fixed budget: there are never more taint rules than
\* the limit, whatever lands while old ones expire, are saved or come back.
TaintWithinLimit == Cardinality(taints) <= Limit

\* Whenever the service can go down, the rules file says what is in force,
\* except for what only this session knows and the directories appsettings
\* brought, unless the last save failed or the file could not be read: a
\* restart brings nothing back that was taken away, and loses nothing.
StoreCurrent ==
    ~ unsaved /\ ~ unread =>
        /\ store.taints = taints
        /\ store.answers = {r \in answers : r.life # "session"}
        /\ store.trust \subseteq trust
        /\ trust \ store.trust \subseteq Seeds

\* Trusting a file takes its taint back, also when the rules of an earlier
\* block are still being made in the background; only what a restart found
\* tainted and trusted is left.
TrustEndsTaint ==
    step.at # "purge" =>
        \A r \in taints : Trusted(r.file) => r.file \in inherited

\* The user allowed a file he was asked about because it was tainted: no
\* taint rule is left that would ask again, until the file is tainted anew.
AllowEndsTaint ==
    step = Idle => \A e \in allowed : \A r \in taints : ~ Taints(r, e)

\* "Trust must take everything back": a trusted file is never tainted.
\* Not so: README, section 6.
TrustedNotTainted ==
    step.at # "purge" => \A r \in taints : ~ Trusted(r.file)

\* The user's trust entries are not lost by a start and a save that works: a
\* trust entry leaves the file only when the user deletes it.
\* Not so: README, section 6.
TrustStaysInTheFile ==
    [][~ DeleteRule /\ failures' = failures => (store.trust \subseteq store'.trust)]_vars
=============================================================================
