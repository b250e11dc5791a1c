------------------------------- MODULE Learning -------------------------------
(***************************************************************************)
(* Which model answers a message, and what the agent learns from the answer:   *)
(* core/brain.py (layers 5, 7 and 8), core/models.py, core/response_quality.py,*)
(* brain/learning.py and brain/skills.py.                                   *)
(*                                                                         *)
(* Two writers keep the skills of one file.  The learner loads it once and     *)
(* writes its own copy back with every skill it meets; _auto_update_skills    *)
(* loads the file, adds to it and writes it for every reply.  So the learner  *)
(* undoes what only the other one has seen, and what both see counts twice.   *)
(* The two paths are one file or two, by where the data directory is.        *)
(***************************************************************************)
EXTENDS Naturals, FiniteSets

CONSTANTS Inquiries,      \* messages
          Skills,         \* the registered skills
          LearnerSees,    \* those LearningSystem recognises in a reply
          UpdaterSees,    \* those _auto_update_skills recognises
          Mastery         \* MASTERY_THRESHOLD

ASSUME LearningAssumption ==
    /\ IsFiniteSet(Inquiries) /\ IsFiniteSet(Skills)
    /\ LearnerSees \subseteq Skills /\ UpdaterSees \subseteq Skills
    /\ Mastery \in Nat \ {0}

Tiers == {"fast", "balanced", "powerful"}
SkillStatuses == {"unknown", "learned", "mastered", "failed"}

VARIABLES
    anthropic,   \* the provider's models are the ones the escalation names
    apart,       \* the two paths to skills.json differ
    skillFile,   \* the learner's file, and the other one
    known,       \* the learner's registry
    learner,     \* LearningSystem exists
    failedWith,  \* _model_failures: the model that failed a skill last
    message,     \* where each message is, and the model it runs on
    beaten       \* the models a reply has failed on in this process (history)

learningVars == <<anthropic, apart, skillFile, known, learner, failedWith, message, beaten>>

Skill == [status : SkillStatuses, ok : Nat, bad : Nat]
NewSkill == [status |-> "unknown", ok |-> 0, bad |-> 0]

\* What a record of a skill can be
Plausible(k) ==
    /\ k.status = "mastered" <=> k.ok >= Mastery
    /\ k.status = "failed" <=> k.ok = 0 /\ k.bad > 0

LearningTypeOK ==
    /\ {anthropic, apart, learner} \subseteq BOOLEAN
    /\ skillFile \in [{"here", "there"} -> [Skills -> Skill]] /\ known \in [Skills -> Skill]
    /\ \A s \in Skills :
          Plausible(known[s]) /\ Plausible(skillFile["here"][s]) /\ Plausible(skillFile["there"][s])
    /\ failedWith \in [Skills -> Tiers \cup {"none"}] /\ beaten \subseteq Tiers
    /\ message \in [Inquiries -> [at : {"new", "model", "again", "reply", "done"}, model : Tiers]]

LearningInit ==
    /\ anthropic \in BOOLEAN /\ apart \in BOOLEAN
    /\ skillFile = [p \in {"here", "there"} |-> [s \in Skills |-> NewSkill]]
    /\ known = [s \in Skills |-> NewSkill] /\ learner = FALSE
    /\ failedWith = [s \in Skills |-> "none"] /\ beaten = {}
    /\ message = [m \in Inquiries |-> [at |-> "new", model |-> "fast"]]

-----------------------------------------------------------------------------
\* Skill.record_success and record_failure
RecordSuccess(k) ==
    [k EXCEPT !.ok = @ + 1,
              !.status = IF k.ok + 1 >= Mastery THEN "mastered"
                         ELSE IF @ \in {"unknown", "failed"} THEN "learned" ELSE @]
RecordFailure(k) == [k EXCEPT !.bad = @ + 1, !.status = IF k.ok = 0 THEN "failed" ELSE @]

\* classify_task and get_model; a programming task goes to the build pipeline.
TaskTier(task) == IF task \in {"simple", "factual"} THEN "fast" ELSE "balanced"

\* _escalate_model: the model above the one that failed, none above the last; its names are
\* those of one provider.
MutantAbove(tier) == {t \in Tiers : anthropic /\ tier # "powerful" /\ t = "powerful"}
Above(tier) ==
    {t \in Tiers : /\ anthropic
                   /\ \/ tier = "fast" /\ t = "balanced"
                      \/ tier = "balanced" /\ t = "powerful"}

\* The learner's registry is what the file holds when it is first asked for.
Registry == IF learner THEN known ELSE skillFile["here"]

\* adapt_model: a failed skill the message names, and a model above the one that failed it.
\* A skill is named by a message whose whole text is part of its name or description.
Overrides(named) ==
    UNION {Above(failedWith[s]) : s \in {x \in named : Registry[x].status = "failed"}}

\* Layer 5: the budget is asked when there is an override, and may forbid it.
RouteMessage(m) ==
    /\ message[m].at = "new"
    /\ learner' = TRUE /\ known' = Registry
    /\ \E task \in {"simple", "chat"}, named \in SUBSET LearnerSees, allowed \in BOOLEAN :
          \E model \in IF allowed /\ Overrides(named) # {} THEN Overrides(named)
                      ELSE {TaskTier(task)} :
             message' = [message EXCEPT ![m] = [at |-> "model", model |-> model]]
    /\ UNCHANGED <<anthropic, apart, skillFile, failedWith, beaten>>

\* An intent, the cache or the build pipeline answers, or the provider fails: nothing is
\* learnt.
AnswerUnlearnt(m) ==
    /\ message[m].at \in {"new", "model"}
    /\ message' = [message EXCEPT ![m].at = "done"]
    /\ UNCHANGED <<anthropic, apart, skillFile, known, learner, failedWith, beaten>>

\* Layer 7: a poor reply of the cheapest model, made without tools, is asked for once more if
\* the budget allows it; assess_quality knows that model by its name.
MayAskAgain(m) == message[m].model = "fast" /\ anthropic
FirstReply(m) ==
    /\ message[m].at = "model"
    /\ \E place \in {"reply", "again"} :
          /\ place = "again" => MayAskAgain(m)
          /\ message' = [message EXCEPT ![m].at = place]
    /\ UNCHANGED <<anthropic, apart, skillFile, known, learner, failedWith, beaten>>
SecondReply(m) ==
    /\ message[m].at = "again"
    /\ \E model \in {"balanced", "fast"} :              \* the first reply stays if this one fails
          message' = [message EXCEPT ![m] = [at |-> "reply", model |-> model]]
    /\ UNCHANGED <<anthropic, apart, skillFile, known, learner, failedWith, beaten>>

\* Layer 8, process_outcome: words of success and none of failure make the reply a success of
\* every skill it mentions, anything else a failure; each record is saved, with all others.
Outcome(copy, uses, well) ==
    [s \in Skills |-> IF s \notin uses THEN copy[s]
                      ELSE IF well THEN RecordSuccess(copy[s]) ELSE RecordFailure(copy[s])]

\* _auto_update_skills, in the same breath: words of both kinds, or of neither, say nothing.
\* It knows fewer words than the learner, of success and of failure.
Counted(uses, good, wrong) == IF good = wrong THEN {} ELSE uses \cap UpdaterSees

LearnFrom(m) ==
    /\ message[m].at = "reply"
    /\ \E uses \in SUBSET Skills, good \in BOOLEAN, wrong \in BOOLEAN, well \in BOOLEAN :
          LET seen == uses \cap LearnerSees
              copy == Outcome(known, seen, well)
              here == IF seen # {} THEN copy ELSE skillFile["here"]
              added(file) == Outcome(file, Counted(uses, good, wrong), good)
          IN /\ well => ~wrong
             /\ known' = copy
             /\ skillFile' = IF apart THEN [here |-> here, there |-> added(skillFile["there"])]
                             ELSE [skillFile EXCEPT !["here"] = added(here)]
             /\ failedWith' = [s \in Skills |-> IF s \in seen /\ ~well THEN message[m].model
                                                ELSE failedWith[s]]
             /\ beaten' = IF well \/ seen = {} THEN beaten ELSE beaten \cup {message[m].model}
    /\ message' = [message EXCEPT ![m].at = "done"]
    /\ UNCHANGED <<anthropic, apart, learner>>

\* The process dies: what is only in memory is gone, messages under way with it.
ForgetAll ==
    /\ learner /\ learner' = FALSE
    /\ known' = [s \in Skills |-> NewSkill]
    /\ failedWith' = [s \in Skills |-> "none"] /\ beaten' = {}
    /\ message' = [m \in Inquiries |-> IF message[m].at = "new" THEN message[m]
                                   ELSE [message[m] EXCEPT !.at = "done"]]
    /\ UNCHANGED <<anthropic, apart, skillFile>>

LearningNext ==
    \/ \E m \in Inquiries : RouteMessage(m) \/ AnswerUnlearnt(m) \/ FirstReply(m) \/ SecondReply(m)
                        \/ LearnFrom(m)
    \/ ForgetAll

LearningSpec == LearningInit /\ [][LearningNext]_learningVars

(***************************************************************************)
(* Properties                                                              *)
(***************************************************************************)
\* The strongest model, which no task on this path asks for, runs only after a reply of the
\* one below it has failed in this process: however messages overlap, the ladder is climbed
\* rung by rung, and what was learnt of the models is not older than the process.
LadderIsClimbed ==
    \A m \in Inquiries :
        message[m].model = "powerful" /\ message[m].at # "done" => "balanced" \in beaten
===============================================================================
