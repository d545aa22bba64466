---------------------------- MODULE TaintProofs -----------------------------
(***************************************************************************)
(* The taint rules, for any files, trust entries and limit.  The invariant *)
(* says that a batch on its way into the engine has its room and is about  *)
(* files nobody trusts, and that a running drop is for the only allowed    *)
(* event that may still be tainted.                                        *)
(***************************************************************************)
EXTENDS TaintRules, FiniteSetTheorems, TLAPS

CountOK ==
    /\ IsFiniteSet(taints) /\ Cardinality(taints) <= Limit
    /\ IsFiniteSet(store.taints) /\ Cardinality(store.taints) <= Limit

RoomOK ==
    step.at = "inject" =>
        /\ IsFiniteSet(step.made)
        /\ Cardinality(taints) + Cardinality(step.made) <= Limit

FreshOK ==
    step.at = "inject" => \A r \in step.made : ~ Trusted(r.file)

AllowOK ==
    \A e \in allowed : (step.at = "drop" => e # step.event)
                         => \A r \in taints : ~ Taints(r, e)

LastingOK == \A r \in store.answers : r.life # "session"

Inv == /\ TypeOK /\ CountOK /\ RoomOK /\ StoreCurrent /\ LastingOK
       /\ TrustEndsTaint /\ FreshOK /\ AllowOK

-----------------------------------------------------------------------------
(* Facts the steps share.                                                   *)

\* What a step of the main thread carries.
LEMMA StepFacts ==
    ASSUME step \in Step
    PROVE  /\ step = Idle <=> step.at = "idle"
           /\ step.at = "inject" => step.made \in SUBSET Taint
           /\ step.at = "drop" => step.event \in Event
  BY SMT DEF Step, Idle

\* A save writes rules.
LEMMA SaveType ==
    ASSUME NEW t \in SUBSET Taint, NEW a \in SUBSET Answer, NEW c \in SUBSET Covers,
           store \in Store, failures \in Nat, unsaved \in BOOLEAN, unread \in BOOLEAN,
           Save(t, a, c) \/ UNCHANGED saved
    PROVE  store' \in Store /\ failures' \in Nat /\ unsaved' \in BOOLEAN /\ unread' \in BOOLEAN
  <1>1. CASE UNCHANGED saved
    BY <1>1 DEF saved
  <1>2. CASE Save(t, a, c)
    <2>1. {r \in a : r.life # "session"} \in SUBSET Answer /\ NoRules \in Store
      BY DEF NoRules, Store
    <2>2. store' \in Store
      BY <1>2, <2>1 DEF Save, Store
    <2>3. failures' \in {failures, failures + 1} /\ unsaved' \in BOOLEAN
      BY <1>2, Zenon DEF Save
    <2>4. unread' \in BOOLEAN
      BY <1>2, Zenon DEF Save
    <2> QED
      BY <2>2, <2>3, <2>4
  <1> QED
    BY <1>1, <1>2

\* What is saved is current, or the save failed.
LEMMA SaveIsCurrent ==
    ASSUME NEW t, NEW a, NEW c, Save(t, a, c)
    PROVE  ~ unsaved' => /\ store'.taints = t
                         /\ store'.answers = {r \in a : r.life # "session"}
                         /\ store'.trust = c
  BY DEF Save

\* What a save leaves in the file was there or is what was saved.
LEMMA SavedTaints ==
    ASSUME NEW t, NEW a, NEW c, Save(t, a, c) \/ UNCHANGED saved
    PROVE  store'.taints \in {t, store.taints, {}}
  BY DEF Save, saved, NoRules

\* What a start reads is the file or nothing.
LEMMA LoadFacts ==
    ASSUME failures \in Nat, store \in Store, LastingOK, Restart
    PROVE  \E read \in Store :
             /\ (read = store /\ ~ unread') \/ (read = NoRules /\ unread')
             /\ read.taints \in {store.taints, {}}
             /\ \A r \in read.answers : r.life # "session"
             /\ taints' = read.taints /\ answers' = read.answers
             /\ \E seeded \in SUBSET Seeds : trust' = read.trust \cup seeded
             /\ failures' \in Nat /\ unread' \in BOOLEAN
  <1>1. PICK read \in {store, NoRules} :
             /\ Load(read)
             /\ taints' = read.taints /\ answers' = read.answers
             /\ \E seeded \in SUBSET Seeds : trust' = read.trust \cup seeded
    BY DEF Restart
  <1>2. NoRules \in Store /\ NoRules.taints = {} /\ NoRules.answers = {}
    BY DEF NoRules, Store
  <1>3. CASE read = store /\ unread' = FALSE /\ UNCHANGED failures
    BY <1>1, <1>3 DEF LastingOK
  <1>4. CASE failures' = failures + 1 /\ read = NoRules /\ unread' = TRUE
    BY <1>1, <1>2, <1>4
  <1>5. \/ read = store /\ unread' = FALSE /\ UNCHANGED failures
        \/ failures' = failures + 1 /\ read = NoRules /\ unread' = TRUE
    BY <1>1 DEF Load
  <1> QED
    BY <1>3, <1>4, <1>5, Zenon

\* What a taint rule is made of.
LEMMA RuleType ==
    ASSUME NEW form \in {"path", "hash", "carried"}, NEW f \in Files, NEW hard \in BOOLEAN,
           NEW born \in Nat
    PROVE  [form |-> form, file |-> f, hard |-> hard, born |-> born] \in Taint
  BY DEF Taint

\* A batch has at most two rules for a file.
LEMMA MadeIsSmall ==
    ASSUME TaintAssumption, NEW found \in SUBSET Files, NEW hashed \in SUBSET found,
           NEW hard, batches \in Nat, Cardinality(found) <= PerBlock
    PROVE  /\ Made(found, hashed, hard) \in SUBSET Taint
           /\ IsFiniteSet(Made(found, hashed, hard))
           /\ Cardinality(Made(found, hashed, hard)) <= Limit
  <1> DEFINE P(f) == [form |-> IF f \in Exec THEN "path" ELSE "carried",
                      file |-> f, hard |-> f \in hard, born |-> batches]
             H(f) == [form |-> "hash", file |-> f, hard |-> f \in hard, born |-> batches]
             Ps == {P(f) : f \in found}
             Hs == {H(f) : f \in hashed}
  <1>1. IsFiniteSet(found) /\ IsFiniteSet(hashed)
        /\ Cardinality(hashed) <= Cardinality(found)
        /\ Cardinality(found) \in Nat /\ Cardinality(hashed) \in Nat
    <2>1. IsFiniteSet(found)
      BY FS_Subset DEF TaintAssumption
    <2>2. IsFiniteSet(hashed) /\ Cardinality(hashed) <= Cardinality(found)
      BY <2>1, FS_Subset
    <2> QED
      BY <2>1, <2>2, FS_CardinalityType
  <1>2. IsFiniteSet(Ps) /\ Cardinality(Ps) <= Cardinality(found)
    <2>1. [f \in found |-> P(f)] \in Surjection(found, Ps)
      BY Zenon DEF Surjection
    <2> QED
      BY <1>1, <2>1, FS_Surjection
  <1>3. IsFiniteSet(Hs) /\ Cardinality(Hs) <= Cardinality(hashed)
    <2>1. [f \in hashed |-> H(f)] \in Surjection(hashed, Hs)
      BY Zenon DEF Surjection
    <2> QED
      BY <1>1, <2>1, FS_Surjection
  <1>4. Made(found, hashed, hard) = Ps \cup Hs
    BY Zenon DEF Made
  <1>5. IsFiniteSet(Ps \cup Hs) /\ IsFiniteSet(Ps \cap Hs)
        /\ Cardinality(Ps \cup Hs) = Cardinality(Ps) + Cardinality(Hs) - Cardinality(Ps \cap Hs)
    BY <1>2, <1>3, FS_Union, FS_Intersection
  <1>6. Cardinality(Ps) \in Nat /\ Cardinality(Hs) \in Nat /\ Cardinality(Ps \cap Hs) \in Nat
    BY <1>2, <1>3, <1>5, FS_CardinalityType
  <1>7. Ps \cup Hs \in SUBSET Taint
    <2>1. \A f \in found : P(f) \in Taint /\ H(f) \in Taint
      <3> TAKE f \in found
      <3>1. f \in Files
        OBVIOUS
      <3>2. (f \in hard) \in BOOLEAN
        BY SMT
      <3> QED
        BY <3>1, <3>2, RuleType, Zenon
    <2> HIDE DEF P, H
    <2> QED
      BY <2>1
  <1> HIDE DEF Ps, Hs
  <1>8. Cardinality(Ps \cup Hs) <= Limit
    BY <1>1, <1>2, <1>3, <1>5, <1>6, SMT DEF TaintAssumption
  <1> QED
    BY <1>4, <1>5, <1>7, <1>8

\* After an eviction there is room for what made it necessary.
LEMMA EvictedMakesRoom ==
    ASSUME TaintAssumption, IsFiniteSet(taints), Cardinality(taints) <= Limit,
           NEW gone \in SUBSET taints, NEW incoming \in Nat, incoming <= Limit,
           Evicted(gone, incoming)
    PROVE  /\ IsFiniteSet(taints \ gone)
           /\ Cardinality(taints \ gone) + incoming <= Limit
           /\ Cardinality(taints \ gone) <= Limit
  <1>1. /\ IsFiniteSet(taints \ gone)
        /\ Cardinality(taints \ gone) = Cardinality(taints) - Cardinality(taints \cap gone)
    BY FS_Difference
  <1>2. taints \cap gone = gone
    OBVIOUS
  <1>3. Cardinality(taints) \in Nat
    BY FS_CardinalityType
  <1>4. Cardinality(gone) = Surplus(incoming)
    BY DEF Evicted
  <1>5. Cardinality(taints \ gone) = Cardinality(taints) - Cardinality(gone)
    BY <1>1, <1>2
  <1>6. Limit \in Nat
    BY DEF TaintAssumption
  <1> QED
    BY <1>1, <1>3, <1>4, <1>5, <1>6, SMT DEF Surplus

\* Fewer rules are within the limit as well.
LEMMA FewerWithinLimit ==
    ASSUME TaintAssumption, NEW S, NEW T \in SUBSET S, IsFiniteSet(S), Cardinality(S) <= Limit
    PROVE  IsFiniteSet(T) /\ Cardinality(T) <= Limit /\ Cardinality(T) <= Cardinality(S)
  <1>1. IsFiniteSet(T) /\ Cardinality(T) <= Cardinality(S)
    BY FS_Subset
  <1>2. Cardinality(T) \in Nat /\ Cardinality(S) \in Nat
    BY <1>1, FS_CardinalityType
  <1> QED
    BY <1>1, <1>2, SMT DEF TaintAssumption

\* Queueing a job queues a job.
LEMMA QueueType ==
    ASSUME jobs \in Seq(Job), NEW e, NEW grade, QueueTaint(e, grade)
    PROVE  jobs' \in Seq(Job)
  <1>1. CASE UNCHANGED jobs
    BY <1>1
  <1>2. CASE ~ UNCHANGED jobs
    <2>1. PICK direct \in SUBSET Files, along \in SUBSET Files :
             jobs' = Append(jobs, IF grade = "Block"
                                  THEN [hard |-> direct, soft |-> along]
                                  ELSE [hard |-> {}, soft |-> direct \cup along])
      BY <1>2 DEF QueueTaint
    <2>2. [hard |-> direct, soft |-> along] \in Job
          /\ [hard |-> {}, soft |-> direct \cup along] \in Job
      BY DEF Job
    <2> QED
      BY <2>1, <2>2
  <1> QED
    BY <1>1, <1>2

\* What a job that comes back leaves behind, when it makes rules.
Batch(gone, made) ==
    /\ IsFiniteSet(made) /\ Cardinality(made) \in Nat /\ Cardinality(made) <= Limit
    /\ \A r \in made : ~ Trusted(r.file)
    /\ Evicted(gone, Cardinality(made))
    /\ taints' = taints \ gone
    /\ SaveIf(gone # {}, taints', answers, trust)
    /\ step' = [at |-> "inject", made |-> made]
    /\ batches' = batches + 1

\* A job lands without effect, or with a batch that has room.
LEMMA LandFacts ==
    ASSUME TaintAssumption, TypeOK, Land
    PROVE  /\ jobs' \in Seq(Job)
           /\ \/ UNCHANGED <<taints, saved, step, batches>>
              \/ \E gone \in SUBSET taints, made \in SUBSET Taint : Batch(gone, made)
  <1>1. jobs \in Seq(Job) /\ jobs # <<>> /\ jobs' = Tail(jobs)
    BY DEF TypeOK, Land
  <1>2. Head(jobs) \in Job /\ jobs' \in Seq(Job)
    BY <1>1
  <1>3. PICK found \in SUBSET (Head(jobs).hard \cup Head(jobs).soft), hashed \in SUBSET Exec :
          LET made == Made(Landing(found), Landing(found) \cap hashed, Head(jobs).hard) IN
          /\ Cardinality(found) <= PerBlock
          /\ IF made = {}
             THEN UNCHANGED <<taints, saved, step, batches>>
             ELSE \E gone \in SUBSET taints :
                    /\ Evicted(gone, Cardinality(made))
                    /\ taints' = taints \ gone
                    /\ SaveIf(gone # {}, taints', answers, trust)
                    /\ step' = [at |-> "inject", made |-> made]
                    /\ batches' = batches + 1
    BY DEF Land
  <1> DEFINE made == Made(Landing(found), Landing(found) \cap hashed, Head(jobs).hard)
  <1>4. found \in SUBSET Files /\ Landing(found) \in SUBSET found
    BY <1>2 DEF Job, Landing
  <1>5. IsFiniteSet(found) /\ Cardinality(Landing(found)) <= Cardinality(found)
        /\ Cardinality(Landing(found)) \in Nat /\ Cardinality(found) \in Nat
    <2>1. IsFiniteSet(found)
      BY <1>4, FS_Subset DEF TaintAssumption
    <2>2. IsFiniteSet(Landing(found)) /\ Cardinality(Landing(found)) <= Cardinality(found)
      BY <1>4, <2>1, FS_Subset
    <2> QED
      BY <2>1, <2>2, FS_CardinalityType
  <1>6. Cardinality(Landing(found)) <= PerBlock
    <2>1. Cardinality(found) <= PerBlock
      BY <1>3
    <2> QED
      BY <1>5, <2>1, SMT DEF TaintAssumption
  <1>7. /\ made \in SUBSET Taint /\ IsFiniteSet(made)
        /\ Cardinality(made) <= Limit /\ Cardinality(made) \in Nat
    <2>1. batches \in Nat /\ Landing(found) \in SUBSET Files
      BY <1>4 DEF TypeOK
    <2>2. made \in SUBSET Taint /\ IsFiniteSet(made) /\ Cardinality(made) <= Limit
      BY <1>6, <2>1, MadeIsSmall
    <2> QED
      BY <2>2, FS_CardinalityType
  <1>8. \A r \in made : ~ Trusted(r.file)
    <2>1. \A f \in Landing(found) : ~ Trusted(f)
      BY DEF Landing
    <2> QED
      BY <2>1 DEF Made
  <1>9. CASE made = {}
    BY <1>2, <1>3, <1>9
  <1>10. CASE made # {}
    <2>1. PICK gone \in SUBSET taints :
             /\ Evicted(gone, Cardinality(made))
             /\ taints' = taints \ gone
             /\ SaveIf(gone # {}, taints', answers, trust)
             /\ step' = [at |-> "inject", made |-> made]
             /\ batches' = batches + 1
      BY <1>3, <1>10
    <2> HIDE DEF made
    <2>2. Batch(gone, made)
      BY <1>7, <1>8, <2>1 DEF Batch
    <2> QED
      BY <1>2, <1>7, <2>2
  <1> QED
    BY <1>9, <1>10

-----------------------------------------------------------------------------
(* Type correctness.                                                        *)

LEMMA TypePreserved ==
    ASSUME TaintAssumption, TypeOK, LastingOK, [Next]_vars
    PROVE  TypeOK'
  <1> USE DEF TypeOK
  <1>0. Idle \in Step /\ [at |-> "purge"] \in Step
        /\ (\A e \in Event : [at |-> "drop", event |-> e] \in Step)
        /\ (\A made \in SUBSET Taint : [at |-> "inject", made |-> made] \in Step)
    BY DEF Step
  <1>1. CASE UNCHANGED vars
    BY <1>1 DEF vars, rules, saved, history
  <1>2. CASE Land
    <2>1. jobs' \in Seq(Job)
      BY <1>2, LandFacts
    <2>2. CASE UNCHANGED <<taints, saved, step, batches>>
      BY <1>2, <2>1, <2>2 DEF Land, saved, history
    <2>3. CASE \E gone \in SUBSET taints, made \in SUBSET Taint : Batch(gone, made)
      <3>1. PICK gone \in SUBSET taints, made \in SUBSET Taint : Batch(gone, made)
        BY <2>3
      <3>2. taints' \in SUBSET Taint /\ step' \in Step /\ batches' \in Nat
        BY <1>0, <3>1 DEF Batch
      <3>3. Save(taints', answers, trust) \/ UNCHANGED saved
        BY <3>1 DEF Batch, SaveIf
      <3>4. store' \in Store /\ failures' \in Nat /\ unsaved' \in BOOLEAN /\ unread' \in BOOLEAN
        BY <3>2, <3>3, SaveType
      <3> QED
        BY <1>2, <2>1, <3>2, <3>4 DEF Land, history
    <2> QED
      BY <1>2, <2>2, <2>3, LandFacts
  <1>3. CASE Inject
    <2>1. step.made \in SUBSET Taint
      BY <1>3, StepFacts DEF Inject
    <2>2. taints' \in SUBSET Taint /\ allowed' \subseteq Event /\ step' \in Step
      BY <1>0, <1>3, <2>1 DEF Inject
    <2>3. Save(taints', answers, trust) \/ UNCHANGED saved
      BY <1>3 DEF Inject, SaveIf
    <2>4. store' \in Store /\ failures' \in Nat /\ unsaved' \in BOOLEAN /\ unread' \in BOOLEAN
      BY <2>2, <2>3, SaveType
    <2> QED
      BY <1>3, <2>2, <2>4 DEF Inject
  <1>4. ASSUME NEW e \in Event, OnEvent(e)
        PROVE  TypeOK'
    <2>1. jobs' \in Seq(Job)
      BY <1>4, QueueType DEF OnEvent
    <2>2. prompts' \in [PromptIds -> Prompt \cup {NoPrompt}]
      <3>1. \A v \in Verdicts(e) : v.taint \in BOOLEAN
        <4>1. [action |-> "Allow", taint |-> FALSE].taint \in BOOLEAN
          OBVIOUS
        <4>2. \A v \in [action : Actions, taint : {FALSE}] : v.taint \in BOOLEAN
          OBVIOUS
        <4>3. \A v \in {[action |-> TaintAction(r), taint |-> TRUE] : r \in HeardTaints(e)} :
                 v.taint \in BOOLEAN
          <5>1. \A r \in HeardTaints(e) :
                   [action |-> TaintAction(r), taint |-> TRUE].taint \in BOOLEAN
            OBVIOUS
          <5> QED
            BY <5>1, Zenon
        <4> QED
          BY <4>1, <4>2, <4>3, Zenon DEF Verdicts
      <3>2. \A v \in Verdicts(e) : [event |-> e, taint |-> v.taint] \in Prompt
        BY <3>1 DEF Prompt
      <3> QED
        BY <1>4, <3>2 DEF OnEvent
    <2> QED
      BY <1>4, <2>1, <2>2 DEF OnEvent, rules, saved, history
  <1>5. ASSUME NEW id \in PromptIds, NEW action \in {"Allow", "Block"},
               NEW life \in {"no", "session", "lasting"}, OnPromptResponse(id, action, life)
        PROVE  TypeOK'
    <2> DEFINE e == prompts[id].event
    <2>1. prompts[id] \in Prompt
      BY <1>5 DEF OnPromptResponse
    <2>2. e \in Event /\ e.actor \in Exec \cup Hosts /\ Target(e) \in Modules \cup {NoFile}
      BY <2>1 DEF Prompt, Event, Target
    <2>3. answers' \in SUBSET Answer
      <3>1. answers' = Remember(e, action, life)
        BY <1>5 DEF OnPromptResponse
      <3>2. life # "no" => [actor |-> e.actor, target |-> Target(e), action |-> action,
                            life |-> life] \in Answer
        BY <2>2 DEF Answer, Actions
      <3> QED
        BY <3>1, <3>2 DEF Remember
    <2>4. Save(taints, answers', trust) \/ UNCHANGED saved
      BY <1>5 DEF OnPromptResponse, SaveIf
    <2>5. store' \in Store /\ failures' \in Nat /\ unsaved' \in BOOLEAN /\ unread' \in BOOLEAN
      BY <2>3, <2>4, SaveType
    <2>6. jobs' \in Seq(Job)
      BY <1>5, QueueType DEF OnPromptResponse
    <2>7. step' \in Step /\ allowed' \subseteq Event
      BY <1>0, <1>5, <2>2 DEF OnPromptResponse
    <2>8. prompts' \in [PromptIds -> Prompt \cup {NoPrompt}]
      BY <1>5 DEF OnPromptResponse
    <2> QED
      BY <1>5, <2>3, <2>5, <2>6, <2>7, <2>8 DEF OnPromptResponse
  <1>6. ASSUME NEW id \in PromptIds, ResolvePromptByDefault(id)
        PROVE  TypeOK'
    <2>1. jobs' \in Seq(Job)
      BY <1>6, QueueType DEF ResolvePromptByDefault
    <2> QED
      BY <1>6, <2>1 DEF ResolvePromptByDefault, rules, saved, history
  <1>7. CASE Drop
    <2>1. taints' \in SUBSET Taint /\ step' \in Step
      BY <1>0, <1>7 DEF Drop
    <2>2. Save(taints', answers, trust) \/ UNCHANGED saved
      BY <1>7 DEF Drop, SaveIf
    <2>3. store' \in Store /\ failures' \in Nat /\ unsaved' \in BOOLEAN /\ unread' \in BOOLEAN
      BY <2>1, <2>2, SaveType
    <2> QED
      BY <1>7, <2>1, <2>3 DEF Drop, history
  <1>8. ASSUME NEW cover \in Covers, AddTrust(cover)
        PROVE  TypeOK'
    <2>1. trust' \in SUBSET Covers /\ step' \in Step
      BY <1>0, <1>8 DEF AddTrust
    <2>2. Save(taints, answers, trust') \/ UNCHANGED saved
      BY <1>8 DEF AddTrust, SaveIf
    <2>3. store' \in Store /\ failures' \in Nat /\ unsaved' \in BOOLEAN /\ unread' \in BOOLEAN
      BY <2>1, <2>2, SaveType
    <2> QED
      BY <1>8, <2>1, <2>3 DEF AddTrust, history
  <1>9. CASE PurgeTaintRulesAfterTrust
    <2>1. taints' \in SUBSET Taint /\ step' \in Step
      BY <1>0, <1>9 DEF PurgeTaintRulesAfterTrust
    <2>2. Save(taints', answers, trust) \/ UNCHANGED saved
      BY <1>9 DEF PurgeTaintRulesAfterTrust, SaveIf
    <2>3. store' \in Store /\ failures' \in Nat /\ unsaved' \in BOOLEAN /\ unread' \in BOOLEAN
      BY <2>1, <2>2, SaveType
    <2> QED
      BY <1>9, <2>1, <2>3 DEF PurgeTaintRulesAfterTrust, history
  <1>10. ASSUME NEW r \in Answer, AddRule(r)
         PROVE  TypeOK'
    <2>1. answers' \in SUBSET Answer /\ Save(taints, answers', trust)
      BY <1>10 DEF AddRule
    <2>2. store' \in Store /\ failures' \in Nat /\ unsaved' \in BOOLEAN /\ unread' \in BOOLEAN
      BY <2>1, SaveType
    <2> QED
      BY <1>10, <2>1, <2>2 DEF AddRule, history
  <1>11. CASE DeleteRule
    <2>1. /\ taints' \in SUBSET Taint /\ answers' \in SUBSET Answer /\ trust' \in SUBSET Covers
          /\ Save(taints', answers', trust')
      BY <1>11 DEF DeleteRule, RemoveRule
    <2>2. store' \in Store /\ failures' \in Nat /\ unsaved' \in BOOLEAN /\ unread' \in BOOLEAN
      BY <2>1, SaveType
    <2> QED
      BY <1>11, <2>1, <2>2 DEF DeleteRule, history
  <1>12. CASE Expire
    <2>1. taints' \in SUBSET Taint /\ answers' \in SUBSET Answer /\ store' \in Store
      BY <1>12 DEF Expire, Store
    <2>2. /\ trust' = trust /\ prompts' = prompts /\ jobs' = jobs /\ step' = step
          /\ batches' = batches /\ failures' = failures /\ unsaved' = unsaved
          /\ unread' = unread /\ inherited' = inherited /\ allowed' = allowed
      BY <1>12 DEF Expire, history
    <2> QED
      BY <2>1, <2>2
  <1>13. CASE Restart
    <2>0. PICK read \in Store :
             /\ taints' = read.taints /\ answers' = read.answers
             /\ \E seeded \in SUBSET Seeds : trust' = read.trust \cup seeded
             /\ failures' \in Nat /\ unread' \in BOOLEAN
      BY <1>13, LoadFacts
    <2>1. /\ taints' \in SUBSET Taint /\ answers' \in SUBSET Answer /\ trust' \in SUBSET Covers
          /\ step' \in Step /\ inherited' \subseteq Files
      BY <1>0, <1>13, <2>0 DEF Restart, Store, TaintAssumption
    <2>2. prompts' \in [PromptIds -> Prompt \cup {NoPrompt}]
      <3>1. prompts' = [id \in PromptIds |-> NoPrompt]
        BY <1>13 DEF Restart
      <3> QED
        BY <3>1
    <2>3. jobs' \in Seq(Job) /\ unsaved' \in BOOLEAN /\ allowed' \subseteq Event
      <3>1. jobs' = <<>> /\ unsaved' = FALSE /\ allowed' = {}
        BY <1>13 DEF Restart
      <3>2. <<>> \in Seq(Job)
        BY SMT
      <3> QED
        BY <3>1, <3>2, Zenon
    <2>4. store' = store /\ batches' = batches
      BY <1>13 DEF Restart
    <2> QED
      BY <2>0, <2>1, <2>2, <2>3, <2>4
  <1> QED
    BY <1>1, <1>2, <1>3, <1>4, <1>5, <1>6, <1>7, <1>8, <1>9, <1>10, <1>11, <1>12, <1>13
       DEF Next

-----------------------------------------------------------------------------
(* The invariant.                                                           *)

\* The file has at most as many taint rules as were saved.
LEMMA CountPreserved ==
    ASSUME TaintAssumption, Inv, [Next]_vars
    PROVE  CountOK' /\ RoomOK'
  <1> USE DEF Inv
  <1>0. /\ IsFiniteSet(taints) /\ Cardinality(taints) <= Limit /\ Cardinality(taints) \in Nat
        /\ IsFiniteSet({}) /\ Cardinality({}) <= Limit
        /\ IsFiniteSet(store.taints) /\ Cardinality(store.taints) <= Limit
    BY FS_CardinalityType, FS_EmptySet DEF CountOK, TaintAssumption
  \* Rules that only shrink stay within the limit, saved or not.
  <1>1. ASSUME taints' \in SUBSET taints,
               store'.taints \in {taints', taints, store.taints, {}},
               step'.at # "inject"
        PROVE  CountOK' /\ RoomOK'
    <2>1. IsFiniteSet(taints') /\ Cardinality(taints') <= Limit
      BY <1>0, <1>1, FewerWithinLimit
    <2> QED
      BY <1>0, <1>1, <2>1 DEF CountOK, RoomOK
  <1>2. CASE UNCHANGED vars
    BY <1>2 DEF CountOK, RoomOK, vars, rules, saved
  <1>3. CASE Land
    <2>1. step.at # "inject"
      BY <1>3 DEF Land, Idle
    <2>2. CASE UNCHANGED <<taints, saved, step, batches>>
      BY <2>1, <2>2 DEF CountOK, RoomOK, saved
    <2>3. CASE \E gone \in SUBSET taints, made \in SUBSET Taint : Batch(gone, made)
      <3>1. PICK gone \in SUBSET taints, made \in SUBSET Taint : Batch(gone, made)
        BY <2>3
      <3>2. /\ IsFiniteSet(taints \ gone) /\ Cardinality(taints \ gone) <= Limit
            /\ Cardinality(taints \ gone) + Cardinality(made) <= Limit
        BY <1>0, <3>1, EvictedMakesRoom DEF Batch
      <3>3. taints' = taints \ gone /\ step'.at = "inject" /\ step'.made = made
            /\ IsFiniteSet(made)
        BY <3>1 DEF Batch
      <3>4. Save(taints', answers, trust) \/ UNCHANGED saved
        BY <3>1 DEF Batch, SaveIf
      <3>5. store'.taints \in {taints', store.taints, {}}
        BY <3>4, SavedTaints
      <3> QED
        BY <1>0, <3>2, <3>3, <3>5 DEF CountOK, RoomOK
    <2> QED
      BY <1>3, <2>2, <2>3, LandFacts
  <1>4. CASE Inject
    <2> DEFINE new == {r \in step.made : \A o \in taints : ~ SameRule(r, o)}
    <2>1. step.at = "inject" /\ taints' = taints \cup new /\ step' = Idle
          /\ SaveIf(new # {}, taints', answers, trust)
      BY <1>4 DEF Inject
    <2>2. IsFiniteSet(step.made) /\ Cardinality(taints) + Cardinality(step.made) <= Limit
          /\ Cardinality(step.made) \in Nat
      BY <2>1, FS_CardinalityType DEF RoomOK
    <2>3. IsFiniteSet(new) /\ Cardinality(new) <= Cardinality(step.made)
          /\ Cardinality(new) \in Nat
      <3>1. new \in SUBSET step.made
        OBVIOUS
      <3>2. IsFiniteSet(new) /\ Cardinality(new) <= Cardinality(step.made)
        BY <2>2, <3>1, FS_Subset
      <3> QED
        BY <3>2, FS_CardinalityType
    <2> HIDE DEF new
    <2>4. IsFiniteSet(taints \cup new)
          /\ Cardinality(taints \cup new)
               = Cardinality(taints) + Cardinality(new) - Cardinality(taints \cap new)
          /\ Cardinality(taints \cap new) \in Nat
      <3>1. IsFiniteSet(taints \cap new)
        BY <1>0, FS_Intersection
      <3> QED
        BY <1>0, <2>3, <3>1, FS_Union, FS_CardinalityType
    <2>5. IsFiniteSet(taints') /\ Cardinality(taints') <= Limit
      <3>1. Limit \in Nat
        BY DEF TaintAssumption
      <3>2. Cardinality(taints \cup new) <= Limit
        BY <1>0, <2>2, <2>3, <2>4, <3>1, SMT
      <3> QED
        BY <2>1, <2>4, <3>2
    <2>6. store'.taints \in {taints', store.taints, {}}
      BY <2>1, SavedTaints DEF SaveIf
    <2> QED
      BY <1>0, <2>1, <2>5, <2>6 DEF CountOK, RoomOK, Idle
  <1>5. ASSUME NEW e \in Event, OnEvent(e)
        PROVE  CountOK' /\ RoomOK'
    BY <1>1, <1>5 DEF OnEvent, rules, saved, Idle
  <1>6. ASSUME NEW id \in PromptIds, NEW action \in {"Allow", "Block"},
               NEW life \in {"no", "session", "lasting"}, OnPromptResponse(id, action, life)
        PROVE  CountOK' /\ RoomOK'
    <2>1. store'.taints \in {taints, store.taints, {}}
      <3>1. Save(taints, answers', trust) \/ UNCHANGED saved
        BY <1>6 DEF OnPromptResponse, SaveIf
      <3> QED
        BY <3>1, SavedTaints
    <2>2. step'.at # "inject" /\ taints' = taints
      BY <1>6 DEF OnPromptResponse, Idle
    <2> QED
      BY <1>1, <2>1, <2>2
  <1>7. ASSUME NEW id \in PromptIds, ResolvePromptByDefault(id)
        PROVE  CountOK' /\ RoomOK'
    BY <1>1, <1>7 DEF ResolvePromptByDefault, rules, saved, Idle
  <1>8. CASE Drop
    <2>1. taints' \in SUBSET taints /\ step' = Idle
          /\ SaveIf(taints' # taints, taints', answers, trust)
      BY <1>8 DEF Drop
    <2>2. store'.taints \in {taints', store.taints, {}}
      BY <2>1, SavedTaints DEF SaveIf
    <2> QED
      BY <1>1, <2>1, <2>2 DEF Idle
  <1>9. ASSUME NEW cover \in Covers, AddTrust(cover)
        PROVE  CountOK' /\ RoomOK'
    <2>1. taints' = taints /\ step'.at # "inject"
          /\ SaveIf(cover \notin trust, taints, answers, trust')
      BY <1>9 DEF AddTrust
    <2>2. store'.taints \in {taints, store.taints, {}}
      BY <2>1, SavedTaints DEF SaveIf
    <2> QED
      BY <1>1, <2>1, <2>2
  <1>10. CASE PurgeTaintRulesAfterTrust
    <2>1. taints' \in SUBSET taints /\ step' = Idle
          /\ SaveIf(taints' # taints, taints', answers, trust)
      BY <1>10 DEF PurgeTaintRulesAfterTrust
    <2>2. store'.taints \in {taints', store.taints, {}}
      BY <2>1, SavedTaints DEF SaveIf
    <2> QED
      BY <1>1, <2>1, <2>2 DEF Idle
  <1>11. ASSUME NEW r \in Answer, AddRule(r)
         PROVE  CountOK' /\ RoomOK'
    <2>1. taints' = taints /\ step' = Idle /\ Save(taints, answers', trust)
      BY <1>11 DEF AddRule
    <2>2. store'.taints \in {taints, store.taints, {}}
      BY <2>1, SavedTaints
    <2> QED
      BY <1>1, <2>1, <2>2 DEF Idle
  <1>12. CASE DeleteRule
    <2>1. taints' \in SUBSET taints /\ step' = Idle /\ Save(taints', answers', trust')
      BY <1>12 DEF DeleteRule, RemoveRule
    <2>2. store'.taints \in {taints', store.taints, {}}
      BY <2>1, SavedTaints
    <2> QED
      BY <1>1, <2>1, <2>2 DEF Idle
  <1>13. CASE Expire
    <2>1. taints' \in SUBSET taints /\ store'.taints \in SUBSET store.taints /\ step' = Idle
      BY <1>13 DEF Expire, TypeOK, Store
    <2>2. IsFiniteSet(taints') /\ Cardinality(taints') <= Limit
      BY <1>0, <2>1, FewerWithinLimit
    <2>3. IsFiniteSet(store'.taints) /\ Cardinality(store'.taints) <= Limit
      BY <1>0, <2>1, FewerWithinLimit
    <2> QED
      BY <2>1, <2>2, <2>3 DEF CountOK, RoomOK, Idle
  <1>14. CASE Restart
    <2>1. taints' \in {store.taints, {}}
      BY <1>14, LoadFacts DEF TypeOK
    <2>2. store' = store /\ step' = Idle
      BY <1>14 DEF Restart
    <2> QED
      BY <1>0, <2>1, <2>2 DEF CountOK, RoomOK, Idle
  <1> QED
    BY <1>2, <1>3, <1>4, <1>5, <1>6, <1>7, <1>8, <1>9, <1>10, <1>11, <1>12, <1>13, <1>14
       DEF Next

\* Every handler saves what it changes.
LEMMA StorePreserved ==
    ASSUME TaintAssumption, Inv, [Next]_vars
    PROVE  StoreCurrent'
  <1> USE DEF Inv
  \* A save of what is in force, or nothing to save.
  <1>1. ASSUME Save(taints', answers', trust')
        PROVE  StoreCurrent'
    BY <1>1, SaveIsCurrent DEF StoreCurrent
  <1>2. ASSUME UNCHANGED rules, UNCHANGED saved
        PROVE  StoreCurrent'
    BY <1>2 DEF StoreCurrent, rules, saved
  <1>3. CASE UNCHANGED vars
    BY <1>2, <1>3 DEF vars
  <1>4. CASE Land
    <2>1. answers' = answers /\ trust' = trust
      BY <1>4 DEF Land
    <2>2. CASE UNCHANGED <<taints, saved, step, batches>>
      BY <1>2, <2>1, <2>2 DEF rules
    <2>3. CASE \E gone \in SUBSET taints, made \in SUBSET Taint : Batch(gone, made)
      <3>1. PICK gone \in SUBSET taints, made \in SUBSET Taint : Batch(gone, made)
        BY <2>3
      <3>2. taints' = taints \ gone /\ SaveIf(gone # {}, taints', answers', trust')
        BY <2>1, <3>1 DEF Batch
      <3>3. CASE gone = {}
        BY <1>2, <2>1, <3>2, <3>3 DEF SaveIf, rules
      <3>4. CASE gone # {}
        BY <1>1, <3>2, <3>4 DEF SaveIf
      <3> QED
        BY <3>3, <3>4
    <2> QED
      BY <1>4, <2>2, <2>3, LandFacts
  <1>5. CASE Inject
    <2> DEFINE new == {r \in step.made : \A o \in taints : ~ SameRule(r, o)}
    <2>1. taints' = taints \cup new /\ answers' = answers /\ trust' = trust
          /\ SaveIf(new # {}, taints', answers', trust')
      BY <1>5 DEF Inject
    <2>2. CASE new = {}
      BY <1>2, <2>1, <2>2 DEF SaveIf, rules
    <2>3. CASE new # {}
      BY <1>1, <2>1, <2>3 DEF SaveIf
    <2> QED
      BY <2>2, <2>3
  <1>6. ASSUME NEW e \in Event, OnEvent(e)
        PROVE  StoreCurrent'
    BY <1>2, <1>6 DEF OnEvent
  <1>7. ASSUME NEW id \in PromptIds, NEW action \in {"Allow", "Block"},
               NEW life \in {"no", "session", "lasting"}, OnPromptResponse(id, action, life)
        PROVE  StoreCurrent'
    <2>1. taints' = taints /\ trust' = trust
          /\ answers' = Remember(prompts[id].event, action, life)
          /\ SaveIf(life # "no", taints', answers', trust')
      BY <1>7 DEF OnPromptResponse
    <2>2. CASE life = "no"
      BY <1>2, <2>1, <2>2 DEF SaveIf, Remember, rules
    <2>3. CASE life # "no"
      BY <1>1, <2>1, <2>3 DEF SaveIf
    <2> QED
      BY <2>2, <2>3
  <1>8. ASSUME NEW id \in PromptIds, ResolvePromptByDefault(id)
        PROVE  StoreCurrent'
    BY <1>2, <1>8 DEF ResolvePromptByDefault
  <1>9. CASE Drop
    BY <1>1, <1>2, <1>9 DEF Drop, SaveIf, rules
  <1>10. ASSUME NEW cover \in Covers, AddTrust(cover)
         PROVE  StoreCurrent'
    <2>1. taints' = taints /\ answers' = answers /\ trust' = trust \cup {cover}
          /\ SaveIf(cover \notin trust, taints', answers', trust')
      BY <1>10 DEF AddTrust
    <2>2. CASE cover \in trust
      BY <1>2, <2>1, <2>2 DEF SaveIf, rules
    <2>3. CASE cover \notin trust
      BY <1>1, <2>1, <2>3 DEF SaveIf
    <2> QED
      BY <2>2, <2>3
  <1>11. CASE PurgeTaintRulesAfterTrust
    BY <1>1, <1>2, <1>11 DEF PurgeTaintRulesAfterTrust, SaveIf, rules
  <1>12. ASSUME NEW r \in Answer, AddRule(r)
         PROVE  StoreCurrent'
    BY <1>1, <1>12 DEF AddRule
  <1>13. CASE DeleteRule
    BY <1>1, <1>13 DEF DeleteRule, RemoveRule
  <1>14. CASE Expire
    <2>1. /\ unsaved' = unsaved /\ unread' = unread
          /\ trust' = trust /\ store'.trust = store.trust
      BY <1>14 DEF Expire, TypeOK, Store
    <2>2. CASE \E r \in taints \cup store.taints :
                  /\ taints' = taints \ {r}
                  /\ store' = [store EXCEPT !.taints = @ \ {r}]
                  /\ UNCHANGED answers
      BY <2>1, <2>2 DEF StoreCurrent, TypeOK, Store
    <2>3. CASE \E r \in answers \cup store.answers :
                  /\ r.life = "lasting"
                  /\ answers' = answers \ {r}
                  /\ store' = [store EXCEPT !.answers = @ \ {r}]
                  /\ UNCHANGED taints
      BY <2>1, <2>3 DEF StoreCurrent, TypeOK, Store
    <2> QED
      BY <1>14, <2>2, <2>3 DEF Expire
  <1>15. CASE Restart
    <2>1. ~ unread' =>
            /\ taints' = store.taints /\ answers' = store.answers
            /\ \E seeded \in SUBSET Seeds : trust' = store.trust \cup seeded
      BY <1>15, LoadFacts DEF TypeOK
    <2>2. store.answers = {r \in store.answers : r.life # "session"}
      BY DEF LastingOK
    <2>3. store' = store
      BY <1>15 DEF Restart
    <2> QED
      BY <2>1, <2>2, <2>3 DEF StoreCurrent
  <1> QED
    BY <1>3, <1>4, <1>5, <1>6, <1>7, <1>8, <1>9, <1>10, <1>11, <1>12, <1>13, <1>14, <1>15
       DEF Next

\* No answer of a session alone reaches the file.
LEMMA LastingPreserved ==
    ASSUME Inv, [Next]_vars
    PROVE  LastingOK'
  <1> USE DEF Inv
  <1>1. ASSUME NEW t, NEW a, NEW c, Save(t, a, c)
        PROVE  LastingOK'
    <2>1. store'.answers \in {{r \in a : r.life # "session"}, store.answers, {}}
      BY <1>1 DEF Save, NoRules
    <2> QED
      BY <2>1 DEF LastingOK
  <1>2. ASSUME store'.answers \in SUBSET store.answers
        PROVE  LastingOK'
    BY <1>2 DEF LastingOK
  <1>3. CASE UNCHANGED saved
    BY <1>2, <1>3 DEF saved
  <1>4. CASE Expire
    BY <1>2, <1>4 DEF Expire, TypeOK, Store
  <1>5. CASE Restart
    BY <1>2, <1>5 DEF Restart
  <1>6. CASE Land
    BY <1>1, <1>3, <1>6 DEF Land, SaveIf, saved
  <1>7. CASE Inject \/ Drop \/ PurgeTaintRulesAfterTrust
    BY <1>1, <1>3, <1>7 DEF Inject, Drop, PurgeTaintRulesAfterTrust, SaveIf
  <1>8. CASE \E e \in Event : OnEvent(e)
    BY <1>3, <1>8 DEF OnEvent
  <1>9. CASE \E id \in PromptIds : ResolvePromptByDefault(id)
    BY <1>3, <1>9 DEF ResolvePromptByDefault
  <1>10. ASSUME NEW id \in PromptIds, NEW action \in {"Allow", "Block"},
                NEW life \in {"no", "session", "lasting"}, OnPromptResponse(id, action, life)
         PROVE  LastingOK'
    BY <1>1, <1>3, <1>10 DEF OnPromptResponse, SaveIf
  <1>11. CASE \E cover \in Covers : AddTrust(cover)
    BY <1>1, <1>3, <1>11 DEF AddTrust, SaveIf
  <1>12. CASE \E r \in Answer : AddRule(r)
    BY <1>1, <1>12 DEF AddRule
  <1>13. CASE DeleteRule
    BY <1>1, <1>13 DEF DeleteRule, RemoveRule
  <1>14. CASE UNCHANGED vars
    BY <1>3, <1>14 DEF vars
  <1> QED
    BY <1>4, <1>5, <1>6, <1>7, <1>8, <1>9, <1>10, <1>11, <1>12, <1>13, <1>14 DEF Next

\* Trust is asked again when a job lands, and purged when an entry is added.
LEMMA TrustPreserved ==
    ASSUME TaintAssumption, Inv, [Next]_vars
    PROVE  TrustEndsTaint' /\ FreshOK'
  <1> USE DEF Inv
  \* Fewer rules, fewer entries, and no new batch.
  <1>1. ASSUME taints' \in SUBSET taints, trust' \in SUBSET trust, inherited' = inherited,
               step.at # "purge", step'.at # "inject"
        PROVE  TrustEndsTaint' /\ FreshOK'
    <2>1. \A r \in taints : Trusted(r.file)' => Trusted(r.file)
      BY <1>1 DEF Trusted
    <2> QED
      BY <1>1, <2>1 DEF TrustEndsTaint, FreshOK
  <1>2. CASE UNCHANGED vars
    BY <1>2 DEF vars, rules, history, TrustEndsTaint, FreshOK, Trusted
  <1>3. CASE Land
    <2>1. step.at = "idle" /\ trust' = trust /\ inherited' = inherited
      BY <1>3 DEF Land, Idle, history
    <2>2. CASE UNCHANGED <<taints, saved, step, batches>>
      BY <1>1, <2>1, <2>2
    <2>3. CASE \E gone \in SUBSET taints, made \in SUBSET Taint : Batch(gone, made)
      <3>1. PICK gone \in SUBSET taints, made \in SUBSET Taint : Batch(gone, made)
        BY <2>3
      <3>2. taints' = taints \ gone /\ step'.made = made /\ \A r \in made : ~ Trusted(r.file)
        BY <3>1 DEF Batch
      <3>3. \A r : Trusted(r.file)' <=> Trusted(r.file)
        BY <2>1 DEF Trusted
      <3>4. FreshOK'
        BY <3>2, <3>3 DEF FreshOK
      <3>5. TrustEndsTaint'
        BY <2>1, <3>2, <3>3 DEF TrustEndsTaint
      <3> QED
        BY <3>4, <3>5
    <2> QED
      BY <1>3, <2>2, <2>3, LandFacts
  <1>4. CASE Inject
    <2>1. /\ step.at = "inject" /\ trust' = trust /\ inherited' = inherited /\ step' = Idle
          /\ taints' \in SUBSET (taints \cup step.made)
      BY <1>4 DEF Inject
    <2>2. \A r \in step.made : ~ Trusted(r.file)
      BY <2>1 DEF FreshOK
    <2>3. \A r : Trusted(r.file)' <=> Trusted(r.file)
      BY <2>1 DEF Trusted
    <2> QED
      BY <2>1, <2>2, <2>3 DEF TrustEndsTaint, FreshOK, Idle
  <1>5. ASSUME NEW e \in Event, OnEvent(e)
        PROVE  TrustEndsTaint' /\ FreshOK'
    BY <1>1, <1>5 DEF OnEvent, rules, history, Idle
  <1>6. ASSUME NEW id \in PromptIds, NEW action \in {"Allow", "Block"},
               NEW life \in {"no", "session", "lasting"}, OnPromptResponse(id, action, life)
        PROVE  TrustEndsTaint' /\ FreshOK'
    BY <1>1, <1>6 DEF OnPromptResponse, Idle
  <1>7. ASSUME NEW id \in PromptIds, ResolvePromptByDefault(id)
        PROVE  TrustEndsTaint' /\ FreshOK'
    BY <1>1, <1>7 DEF ResolvePromptByDefault, rules, history, Idle
  <1>8. CASE Drop
    BY <1>1, <1>8 DEF Drop, history, Idle
  <1>9. ASSUME NEW cover \in Covers, AddTrust(cover)
        PROVE  TrustEndsTaint' /\ FreshOK'
    BY <1>9 DEF AddTrust, TrustEndsTaint, FreshOK
  <1>10. CASE PurgeTaintRulesAfterTrust
    <2>1. taints' = {r \in taints : ~ Trusted(r.file)} /\ trust' = trust /\ step' = Idle
      BY <1>10 DEF PurgeTaintRulesAfterTrust
    <2>2. \A r : Trusted(r.file)' <=> Trusted(r.file)
      BY <2>1 DEF Trusted
    <2> QED
      BY <2>1, <2>2 DEF TrustEndsTaint, FreshOK, Idle
  <1>11. ASSUME NEW r \in Answer, AddRule(r)
         PROVE  TrustEndsTaint' /\ FreshOK'
    BY <1>1, <1>11 DEF AddRule, history, Idle
  <1>12. CASE DeleteRule
    BY <1>1, <1>12 DEF DeleteRule, RemoveRule, history, Idle
  <1>13. CASE Expire
    <2>1. taints' \in SUBSET taints /\ trust' = trust /\ inherited' = inherited
          /\ step = Idle /\ step' = Idle
      BY <1>13 DEF Expire, history
    <2> QED
      BY <1>1, <2>1 DEF Idle
  <1>14. CASE Restart
    <2>1. taints' \subseteq Taint
      BY <1>14, LoadFacts DEF TypeOK, Store
    <2>2. \A r \in taints' : r.file \in Files
      BY <2>1 DEF Taint
    <2>3. inherited' = {f \in Files : /\ \E r \in taints' : r.file = f
                                      /\ \E cover \in trust' : f \in cover}
          /\ step' = Idle
      BY <1>14 DEF Restart
    <2> QED
      BY <2>2, <2>3 DEF TrustEndsTaint, FreshOK, Trusted, Idle
  <1> QED
    BY <1>2, <1>3, <1>4, <1>5, <1>6, <1>7, <1>8, <1>9, <1>10, <1>11, <1>12, <1>13, <1>14
       DEF Next

\* An allowed event is either being cleaned or clean.
LEMMA AllowPreserved ==
    ASSUME TaintAssumption, Inv, [Next]_vars
    PROVE  AllowOK'
  <1> USE DEF Inv
  \* Fewer rules, fewer allowed events, outside of a drop.
  <1>1. ASSUME taints' \in SUBSET taints, allowed' \in SUBSET allowed, step.at # "drop"
        PROVE  AllowOK'
    BY <1>1 DEF AllowOK
  <1>2. CASE UNCHANGED vars
    BY <1>2 DEF vars, rules, history, AllowOK
  <1>3. CASE Land
    <2>1. step.at = "idle" /\ allowed' = allowed
      BY <1>3 DEF Land, Idle, history
    <2>2. taints' \in SUBSET taints
      BY <1>3, LandFacts DEF Batch
    <2> QED
      BY <1>1, <2>1, <2>2
  <1>4. CASE Inject
    <2> DEFINE new == {r \in step.made : \A o \in taints : ~ SameRule(r, o)}
    <2>1. /\ step.at = "inject" /\ taints' = taints \cup new
          /\ allowed' = {e \in allowed : \A r \in new : ~ Taints(r, e)}
      BY <1>4 DEF Inject
    <2> HIDE DEF new
    <2>2. \A e \in allowed' : \A r \in taints' : ~ Taints(r, e)
      BY <2>1 DEF AllowOK
    <2> QED
      BY <2>2 DEF AllowOK
  <1>5. ASSUME NEW e \in Event, OnEvent(e)
        PROVE  AllowOK'
    BY <1>1, <1>5 DEF OnEvent, rules, history, Idle
  <1>6. ASSUME NEW id \in PromptIds, NEW action \in {"Allow", "Block"},
               NEW life \in {"no", "session", "lasting"}, OnPromptResponse(id, action, life)
        PROVE  AllowOK'
    <2> DEFINE e == prompts[id].event
    <2>1. step = Idle /\ taints' = taints
      BY <1>6 DEF OnPromptResponse
    <2>2. CASE allowed' = allowed
      BY <1>1, <2>1, <2>2 DEF Idle
    <2>3. CASE step' = [at |-> "drop", event |-> e] /\ allowed' = allowed \cup {e}
      <3>1. \A d \in allowed : \A r \in taints : ~ Taints(r, d)
        BY <2>1 DEF AllowOK, Idle
      <3>2. step'.at = "drop" /\ step'.event = e
        BY <2>3
      <3> HIDE DEF e
      <3> QED
        BY <2>1, <2>3, <3>1, <3>2 DEF AllowOK
    <2> QED
      BY <1>6, <2>2, <2>3 DEF OnPromptResponse
  <1>7. ASSUME NEW id \in PromptIds, ResolvePromptByDefault(id)
        PROVE  AllowOK'
    BY <1>1, <1>7 DEF ResolvePromptByDefault, rules, history, Idle
  <1>8. CASE Drop
    <2>1. step.at = "drop" /\ taints' = taints \ Matching(step.event) /\ allowed' = allowed
      BY <1>8 DEF Drop, history
    <2>2. \A r \in taints : Taints(r, step.event) => r \in Matching(step.event)
      BY Zenon DEF Matching
    <2>3. \A e \in allowed : e # step.event => \A r \in taints : ~ Taints(r, e)
      BY <2>1 DEF AllowOK
    <2> QED
      BY <2>1, <2>2, <2>3 DEF AllowOK
  <1>9. ASSUME NEW cover \in Covers, AddTrust(cover)
        PROVE  AllowOK'
    BY <1>1, <1>9 DEF AddTrust, history, Idle
  <1>10. CASE PurgeTaintRulesAfterTrust
    BY <1>1, <1>10 DEF PurgeTaintRulesAfterTrust, history
  <1>11. ASSUME NEW r \in Answer, AddRule(r)
         PROVE  AllowOK'
    BY <1>1, <1>11 DEF AddRule, history, Idle
  <1>12. CASE DeleteRule
    BY <1>1, <1>12 DEF DeleteRule, RemoveRule, history, Idle
  <1>13. CASE Expire
    <2>1. taints' \in SUBSET taints /\ allowed' = allowed /\ step = Idle
      BY <1>13 DEF Expire, history
    <2> QED
      BY <1>1, <2>1 DEF Idle
  <1>14. CASE Restart
    BY <1>14 DEF Restart, AllowOK
  <1> QED
    BY <1>2, <1>3, <1>4, <1>5, <1>6, <1>7, <1>8, <1>9, <1>10, <1>11, <1>12, <1>13, <1>14
       DEF Next

\* The service starts with no rules.
LEMMA InitInv ==
    ASSUME TaintAssumption, Init
    PROVE  Inv
  <1> USE DEF Init
  <1>1. <<>> \in Seq(Job) /\ Idle \in Step /\ NoRules \in Store /\ 0 \in Nat
    BY SMT DEF Step, Store, NoRules
  <1>2. prompts \in [PromptIds -> Prompt \cup {NoPrompt}]
    <2>1. prompts = [id \in PromptIds |-> NoPrompt]
      OBVIOUS
    <2> QED
      BY <2>1
  <1>3. TypeOK
    BY <1>1, <1>2 DEF TypeOK
  <1>4. IsFiniteSet({}) /\ Cardinality({}) = 0 /\ 0 <= Limit
    BY FS_EmptySet DEF TaintAssumption
  <1>5. CountOK /\ RoomOK
    BY <1>4 DEF CountOK, RoomOK, NoRules, Idle
  <1>6. StoreCurrent /\ LastingOK
    BY DEF StoreCurrent, LastingOK, NoRules
  <1>7. TrustEndsTaint /\ FreshOK /\ AllowOK
    BY DEF TrustEndsTaint, FreshOK, AllowOK, Idle
  <1> QED
    BY <1>3, <1>5, <1>6, <1>7 DEF Inv

\* The invariant is inductive.
LEMMA Invariance == Spec => []Inv
  <1>1. ASSUME Inv, [Next]_vars
        PROVE  Inv'
    <2>1. TypeOK'
      BY <1>1, TypePreserved, TaintAssumption DEF Inv
    <2>2. CountOK' /\ RoomOK' /\ StoreCurrent' /\ LastingOK'
      BY <1>1, CountPreserved, StorePreserved, LastingPreserved, TaintAssumption
    <2>3. TrustEndsTaint' /\ FreshOK' /\ AllowOK'
      BY <1>1, TrustPreserved, AllowPreserved, TaintAssumption
    <2> QED
      BY <2>1, <2>2, <2>3 DEF Inv
  <1> QED
    BY <1>1, InitInv, TaintAssumption, PTL DEF Spec

-----------------------------------------------------------------------------
(* The theorems.                                                            *)

\* The rules, the file and the jobs are what the model says they are, for any
\* files and any entries.
THEOREM TaintTypes == Spec => []TypeOK
  <1>1. Inv => TypeOK
    BY DEF Inv
  <1> QED
    BY <1>1, Invariance, PTL

\* Whatever lands while rules end, are saved or come back, there are at most
\* Limit taint rules: an eviction makes the room its batch needs, and no
\* other step of the main thread comes in between.
THEOREM TheLimitHolds == Spec => []TaintWithinLimit
  <1>1. Inv => TaintWithinLimit
    BY DEF Inv, CountOK, TaintWithinLimit
  <1> QED
    BY <1>1, Invariance, PTL

\* Every handler saves what it changes, so a restart at any step brings back
\* what was in force, unless the last save failed or the file was there and
\* could not be read; the first save that works ends either exception.
THEOREM TheFileIsCurrent == Spec => []StoreCurrent
  <1>1. Inv => StoreCurrent
    BY DEF Inv
  <1> QED
    BY <1>1, Invariance, PTL

\* Trust is asked again when a job lands and purged when an entry is added,
\* so only a restart can leave a trusted file tainted.
THEOREM TrustTakesTaintBack == Spec => []TrustEndsTaint
  <1>1. Inv => TrustEndsTaint
    BY DEF Inv
  <1> QED
    BY <1>1, Invariance, PTL

\* An Allow takes back every taint rule that matches the event it answered,
\* so the same question comes only for a file that was tainted anew.
THEOREM AllowTakesTaintBack == Spec => []AllowEndsTaint
  <1>1. Inv => AllowEndsTaint
    BY DEF Inv, AllowOK, AllowEndsTaint, Idle
  <1> QED
    BY <1>1, Invariance, PTL
=============================================================================
