------------------------------ MODULE WorkProofs ------------------------------
(***************************************************************************)
(* Theorems about the parts of the agent that run work: the job runner,     *)
(* pipelines, recurring workflows, what is retained of their results, the   *)
(* build engine, reviews, the update of the agent itself and the work loop;  *)
(* for any jobs, steps, workflows, records, operations, findings, files and *)
(* lists of work.                                                           *)
(***************************************************************************)
EXTENDS JobRunner, Pipelines, Workflows, Retention, SelfUpdate, BuildEngine, Reviews, WorkLoop,
        NumberLemmas, SequenceTheorems, FiniteSetTheorems, TLAPS

(***************************************************************************)
(* The job runner: jobs, their retries and the slots they run in            *)
(***************************************************************************)

Distinct(s) == \A i, k \in DOMAIN s : s[i] = s[k] => i = k

\* What storing a job does: at the bound the oldest record makes room, and the store
\* is full afterwards.
LEMMA StoredRecords ==
    ASSUME NEW s \in Seq(Jobs), NEW j \in Jobs, NEW bound \in Nat \ {0},
           Len(s) <= bound, Distinct(s), j \notin Members(s)
    PROVE  /\ Stored(s, j, bound) \in Seq(Jobs)
           /\ Len(Stored(s, j, bound)) <= bound
           /\ Distinct(Stored(s, j, bound))
           /\ j \in Members(Stored(s, j, bound))
           /\ Members(Stored(s, j, bound)) \subseteq Members(s) \cup {j}
           /\ \A i \in Members(s) : \/ i \in Members(Stored(s, j, bound))
                                    \/ Len(Stored(s, j, bound)) = bound
           /\ Len(s) = bound => Len(Stored(s, j, bound)) = bound
<1> DEFINE t == IF Len(s) >= bound THEN Tail(s) ELSE s
           d == IF Len(s) >= bound THEN 1 ELSE 0
<1>1. t \in Seq(Jobs) /\ Len(t) = Len(s) - d /\ d \in {0, 1} /\ Len(s) >= d
  <2>1. CASE Len(s) >= bound
    BY <2>1, HeadTailProperties
  <2>2. CASE Len(s) < bound
    BY <2>2
  <2> QED
    BY <2>1, <2>2
<1>2. \A i \in 1..Len(t) : t[i] = s[i + d]
  <2>1. CASE Len(s) >= bound
    BY <2>1, HeadTailProperties
  <2>2. CASE Len(s) < bound
    BY <2>2
  <2> QED
    BY <2>1, <2>2
<1>3. Stored(s, j, bound) = Append(t, j)
  BY DEF Stored
<1> HIDE DEF t
<1> DEFINE u == Append(t, j)
<1>4. /\ u \in Seq(Jobs) /\ Len(u) = Len(t) + 1 /\ u[Len(t) + 1] = j
      /\ \A i \in 1..Len(t) : u[i] = t[i]
  BY <1>1, AppendProperties
<1> HIDE DEF u
<1> HIDE DEF d
<1>5. /\ \A i \in 1..Len(t) : u[i] = s[i + d] /\ i + d \in 1..Len(s)
      /\ DOMAIN u = 1..(Len(t) + 1) /\ DOMAIN s = 1..Len(s)
      /\ Len(t) \in Nat /\ Len(s) \in Nat /\ Len(s) = Len(t) + d
  <2>1. Len(t) \in Nat /\ Len(s) \in Nat /\ DOMAIN s = 1..Len(s) /\ d \in Nat
    BY <1>1
  <2>2. Len(s) = Len(t) + d
    BY <1>1, <2>1
  <2>3. DOMAIN u = 1..(Len(t) + 1)
    BY <1>4
  <2>4. \A i \in 1..Len(t) : i + d \in 1..Len(s)
    BY <2>1, <2>2
  <2>5. \A i \in 1..Len(t) : u[i] = s[i + d]
    BY <1>2, <1>4
  <2> QED
    BY <2>1, <2>2, <2>3, <2>4, <2>5
<1>6. Len(u) <= bound /\ (Len(s) = bound => Len(u) = bound)
  BY <1>1, <1>4 DEF d
<1>7. \A i \in 1..Len(s) : s[i] # j
  BY <1>5 DEF Members
<1>8. ASSUME NEW i \in DOMAIN u, NEW k \in DOMAIN u, u[i] = u[k]
      PROVE  i = k
  <2>1. CASE i \in 1..Len(t) /\ k \in 1..Len(t)
    <3>1. i + d = k + d
      BY <1>5, <1>8, <2>1 DEF Distinct
    <3> QED
      BY <1>1, <2>1, <3>1
  <2>2. CASE i = Len(t) + 1 \/ k = Len(t) + 1
    BY <1>4, <1>5, <1>7, <1>8, <2>2
  <2> QED
    BY <1>5, <2>1, <2>2
<1>9. j \in Members(u) /\ Members(u) \subseteq Members(s) \cup {j}
  <2>1. \A i \in DOMAIN u : i = Len(t) + 1 \/ i \in 1..Len(t)
    BY <1>5
  <2>2. Len(t) + 1 \in DOMAIN u
    BY <1>5
  <2> QED
    BY <1>4, <1>5, <2>1, <2>2 DEF Members
<1>10. ASSUME NEW i \in 1..Len(s)
       PROVE  s[i] \in Members(u) \/ Len(u) = bound
  <2>1. CASE d = 1
    BY <1>1, <1>4, <2>1 DEF d
  <2>2. CASE d = 0
    <3>1. i \in 1..Len(t) /\ i \in DOMAIN u /\ u[i] = s[i]
      BY <1>5, <2>2
    <3> QED
      BY <3>1 DEF Members
  <2> QED
    BY <1>1, <2>1, <2>2
<1>11. Stored(s, j, bound) = u
  BY <1>3 DEF u
<1>12. \A i \in Members(s) : i \in Members(u) \/ Len(u) = bound
  BY <1>5, <1>10 DEF Members
<1>13. Distinct(u)
  BY <1>8 DEF Distinct
<1> QED
  BY <1>4, <1>6, <1>9, <1>11, <1>12, <1>13

-------------------------------------------------------------------------------
Live == {"waiting", "calling", "sleeping"}

\* Tracked, of one job and without the set of stores.
Filed(j) ==
    /\ status[j] = "none" =>
          j \notin active /\ j \notin Members(completed) /\ j \notin Members(dead)
    /\ status[j] \in {"scheduled", "running"} =>
          /\ j \in active /\ j \notin Members(completed) /\ j \notin Members(dead)
          /\ task[j] \in Live
    /\ status[j] \in {"completed", "cancelled"} =>
          /\ j \notin active /\ j \notin Members(dead)
          /\ j \in Members(completed) \/ Len(completed) = MaxCompleted
    /\ status[j] = "dead_lettered" =>
          /\ j \notin active /\ j \notin Members(completed)
          /\ j \in Members(dead) \/ Len(dead) = MaxDead

\* What is kept of each job, no record twice, a live task only behind a job that has
\* not ended, and a backoff only with attempts left.
JobInv ==
    /\ JobTypeOK
    /\ \A j \in Jobs : Filed(j)
    /\ Distinct(completed) /\ Distinct(dead)
    /\ \A j \in Jobs : task[j] \in Live => status[j] \in {"scheduled", "running"}
    /\ \A j \in Jobs : task[j] = "sleeping" => attempt[j] < MaxRetries

\* Filed, of every job, is Tracked.
LEMMA FiledIsTracked ==
    ASSUME \A j \in Jobs : Filed(j)
    PROVE  Tracked
<1> SUFFICES ASSUME NEW j \in Jobs,
                    NEW kept, kept = {store \in {"active", "completed", "dead"} :
                       \/ store = "active" /\ j \in active
                       \/ store = "completed" /\ j \in Members(completed)
                       \/ store = "dead" /\ j \in Members(dead)}
             PROVE  /\ status[j] = "none" => kept = {}
                    /\ status[j] \in {"scheduled", "running"} =>
                          kept = {"active"} /\ task[j] \in Live
                    /\ status[j] \in {"completed", "cancelled"} =>
                          kept = {"completed"} \/ (kept = {} /\ Len(completed) = MaxCompleted)
                    /\ status[j] = "dead_lettered" =>
                          kept = {"dead"} \/ (kept = {} /\ Len(dead) = MaxDead)
  BY DEF Tracked, Live
<1>1. Filed(j)
  OBVIOUS
<1> QED
  BY <1>1 DEF Filed

\* A live job is filed in one of the two bounded stores.
LEMMA FilingKeepsFiled ==
    ASSUME JobInv, NEW j \in Jobs, status[j] \in {"scheduled", "running"},
           NEW end \in {"completed", "cancelled", "dead_lettered"},
           NEW place \in {"gone", "cancelled"},
           status' = [status EXCEPT ![j] = end], task' = [task EXCEPT ![j] = place],
           active' = active \ {j},
           IF end = "dead_lettered"
           THEN dead' = Stored(dead, j, MaxDead) /\ UNCHANGED completed
           ELSE completed' = Stored(completed, j, MaxCompleted) /\ UNCHANGED dead
    PROVE  /\ \A i \in Jobs : Filed(i)'
           /\ Distinct(completed)' /\ Distinct(dead)'
           /\ completed' \in Seq(Jobs) /\ Len(completed') <= MaxCompleted
           /\ dead' \in Seq(Jobs) /\ Len(dead') <= MaxDead
           /\ \A i \in Jobs : task'[i] \in Live => status'[i] \in {"scheduled", "running"}
<1>1. /\ j \in active /\ j \notin Members(completed) /\ j \notin Members(dead)
      /\ completed \in Seq(Jobs) /\ Len(completed) <= MaxCompleted
      /\ dead \in Seq(Jobs) /\ Len(dead) <= MaxDead
      /\ Distinct(completed) /\ Distinct(dead)
      /\ MaxCompleted \in Nat \ {0} /\ MaxDead \in Nat \ {0}
  BY JobAssumption DEF JobInv, Filed, JobTypeOK
<1>2. /\ status \in [Jobs -> {"none", "scheduled", "running"} \cup Terminal]
      /\ task \in [Jobs -> Places]
  BY DEF JobInv, JobTypeOK
<1>3. \A i \in Jobs : IF i = j THEN status'[i] = end /\ task'[i] = place
                               ELSE status'[i] = status[i] /\ task'[i] = task[i]
  BY <1>2
<1>4. \A i \in Jobs : task'[i] \in Live => status'[i] \in {"scheduled", "running"}
  BY <1>3 DEF JobInv, Live
<1>5. CASE end = "dead_lettered"
  <2>1. dead' = Stored(dead, j, MaxDead) /\ completed' = completed
    BY <1>5
  <2>2. /\ dead' \in Seq(Jobs) /\ Len(dead') <= MaxDead /\ Distinct(dead')
        /\ j \in Members(dead') /\ Members(dead') \subseteq Members(dead) \cup {j}
        /\ \A i \in Members(dead) : i \in Members(dead') \/ Len(dead') = MaxDead
        /\ Len(dead) = MaxDead => Len(dead') = MaxDead
    BY <1>1, <2>1, StoredRecords
  <2>3. ASSUME NEW i \in Jobs
        PROVE  Filed(i)'
    <3>1. CASE i = j
      BY <1>1, <1>3, <1>5, <2>1, <2>2, <3>1 DEF Filed
    <3>2. CASE i # j
      BY <1>3, <2>1, <2>2, <3>2 DEF Filed, JobInv
    <3> QED
      BY <3>1, <3>2
  <2> QED
    BY <1>1, <1>4, <2>1, <2>2, <2>3 DEF Distinct
<1>6. CASE end # "dead_lettered"
  <2>1. completed' = Stored(completed, j, MaxCompleted) /\ dead' = dead
    BY <1>6
  <2>2. /\ completed' \in Seq(Jobs) /\ Len(completed') <= MaxCompleted /\ Distinct(completed')
        /\ j \in Members(completed')
        /\ Members(completed') \subseteq Members(completed) \cup {j}
        /\ \A i \in Members(completed) :
              i \in Members(completed') \/ Len(completed') = MaxCompleted
        /\ Len(completed) = MaxCompleted => Len(completed') = MaxCompleted
    BY <1>1, <2>1, StoredRecords
  <2>3. ASSUME NEW i \in Jobs
        PROVE  Filed(i)'
    <3>1. CASE i = j
      BY <1>1, <1>3, <1>6, <2>1, <2>2, <3>1 DEF Filed
    <3>2. CASE i # j
      BY <1>3, <2>1, <2>2, <3>2 DEF Filed, JobInv
    <3> QED
      BY <3>1, <3>2
  <2> QED
    BY <1>1, <1>4, <2>1, <2>2, <2>3 DEF Distinct
<1> QED
  BY <1>5, <1>6

\* What is left of the semaphore's queue is a queue of jobs.
LEMMA DequeueTyped ==
    ASSUME NEW j \in Jobs, waiters \in Seq(Jobs), Dequeue(j)
    PROVE  waiters' \in Seq(Jobs)
<1>1. CASE UNCHANGED waiters
  BY <1>1
<1>2. ASSUME NEW k \in DOMAIN waiters,
             waiters' = SubSeq(waiters, 1, k - 1) \o SubSeq(waiters, k + 1, Len(waiters))
      PROVE  waiters' \in Seq(Jobs)
  <2> DEFINE front == SubSeq(waiters, 1, k - 1)
             back == SubSeq(waiters, k + 1, Len(waiters))
  <2>1. k \in 1..Len(waiters) /\ Len(waiters) \in Nat
    BY <1>2
  <2>2. front \in Seq(Jobs)
    <3>1. \A i \in 1..(k - 1) : waiters[i] \in Jobs
      BY <2>1
    <3> QED
      BY <2>1, <3>1, SubSeqProperties
  <2>3. back \in Seq(Jobs)
    <3>1. \A i \in (k + 1)..Len(waiters) : waiters[i] \in Jobs
      BY <2>1
    <3> QED
      BY <2>1, <3>1, SubSeqProperties
  <2> QED
    BY <1>2, <2>2, <2>3, ConcatProperties
<1> QED
  BY <1>1, <1>2 DEF Dequeue

\* The runner that has been given no job satisfies it.
LEMMA InitJobInv == JobInit => JobInv
<1> SUFFICES ASSUME JobInit
             PROVE  JobInv
  OBVIOUS
<1>1. Members(completed) = {} /\ Members(dead) = {} /\ Distinct(completed) /\ Distinct(dead)
  BY DEF JobInit, Members, Distinct
<1>2. JobTypeOK
  BY JobAssumption DEF JobInit, JobTypeOK, Places
<1>3. \A j \in Jobs : Filed(j)
  BY <1>1 DEF JobInit, Filed
<1> QED
  BY <1>1, <1>2, <1>3 DEF JobInv, JobInit, Live

\* A step that moves one job's task, and files nothing.
LEMMA MovingKeepsFiled ==
    ASSUME JobInv, NEW j \in Jobs, NEW place \in Places, NEW now,
           \/ /\ {status[j], now} \subseteq {"scheduled", "running"}
              /\ place \in Live
           \/ /\ now = status[j]
              /\ place \notin Live /\ task[j] \notin Live,
           status' = [status EXCEPT ![j] = now], task' = [task EXCEPT ![j] = place],
           UNCHANGED <<active, completed, dead>>
    PROVE  /\ \A i \in Jobs : Filed(i)'
           /\ \A i \in Jobs : task'[i] \in Live => status'[i] \in {"scheduled", "running"}
           /\ status' \in [Jobs -> {"none", "scheduled", "running"} \cup Terminal]
           /\ task' \in [Jobs -> Places]
<1>1. /\ status \in [Jobs -> {"none", "scheduled", "running"} \cup Terminal]
      /\ task \in [Jobs -> Places]
  BY DEF JobInv, JobTypeOK
<1>2. \A i \in Jobs : IF i = j THEN status'[i] = now /\ task'[i] = place
                               ELSE status'[i] = status[i] /\ task'[i] = task[i]
  BY <1>1
<1>3. now \in {"none", "scheduled", "running"} \cup Terminal
  BY <1>1
<1>4. ASSUME NEW i \in Jobs
      PROVE  Filed(i)'
  <2>1. Filed(i)
    BY DEF JobInv
  <2>2. CASE i # j
    BY <1>2, <2>1, <2>2 DEF Filed
  <2>3. CASE i = j /\ status[j] \in {"scheduled", "running"} /\ place \in Live
                   /\ now \in {"scheduled", "running"}
    BY <1>2, <2>1, <2>3 DEF Filed
  <2>4. CASE i = j /\ now = status[j] /\ task[j] \notin Live
    BY <1>2, <2>1, <2>4 DEF Filed
  <2> QED
    BY <2>2, <2>3, <2>4
<1>5. \A i \in Jobs : task'[i] \in Live => status'[i] \in {"scheduled", "running"}
  BY <1>2 DEF JobInv
<1> QED
  BY <1>1, <1>3, <1>4, <1>5

\* Every step keeps it.
LEMMA NextJobInv == JobInv /\ [JobNext]_jobVars => JobInv'
<1> SUFFICES ASSUME JobInv, [JobNext]_jobVars
             PROVE  JobInv'
  OBVIOUS
<1> DEFINE Attempts == \A i \in Jobs : task[i] = "sleeping" => attempt[i] < MaxRetries
<1>1. /\ status \in [Jobs -> {"none", "scheduled", "running"} \cup Terminal]
      /\ attempt \in [Jobs -> 0..MaxRetries]
      /\ task \in [Jobs -> Places]
      /\ waiters \in Seq(Jobs) /\ holders \subseteq Jobs /\ active \subseteq Jobs
      /\ completed \in Seq(Jobs) /\ Len(completed) <= MaxCompleted
      /\ dead \in Seq(Jobs) /\ Len(dead) <= MaxDead
      /\ failures \in Nat
      /\ MaxRetries \in Nat
      /\ Distinct(completed) /\ Distinct(dead)
      /\ Attempts
  BY JobAssumption DEF JobInv, JobTypeOK
<1>2. ASSUME NEW j \in Jobs, Schedule(j)
      PROVE  JobInv'
  <2>1. /\ status[j] = "none"
        /\ status' = [status EXCEPT ![j] = "scheduled"] /\ task' = [task EXCEPT ![j] = "waiting"]
        /\ waiters' = Append(waiters, j) /\ active' = active \cup {j}
        /\ UNCHANGED <<attempt, holders, completed, dead, failures>>
    BY <1>2 DEF Schedule
  <2>2. \A i \in Jobs : IF i = j THEN status'[i] = "scheduled" /\ task'[i] = "waiting"
                                 ELSE status'[i] = status[i] /\ task'[i] = task[i]
    BY <1>1, <2>1
  <2>3. JobTypeOK'
    BY <1>1, <2>1 DEF JobTypeOK, Places
  <2>4. ASSUME NEW i \in Jobs
        PROVE  Filed(i)'
    <3>1. Filed(i)
      BY DEF JobInv
    <3>2. CASE i = j
      BY <2>1, <2>2, <3>1, <3>2 DEF Filed, Live
    <3>3. CASE i # j
      BY <2>1, <2>2, <3>1, <3>3 DEF Filed
    <3> QED
      BY <3>2, <3>3
  <2>5. Distinct(completed)' /\ Distinct(dead)' /\ Attempts'
    BY <1>1, <2>1, <2>2 DEF Distinct
  <2>6. \A i \in Jobs : task'[i] \in Live => status'[i] \in {"scheduled", "running"}
    BY <2>2 DEF JobInv
  <2> QED
    BY <2>3, <2>4, <2>5, <2>6 DEF JobInv
<1>3. ASSUME NEW j \in Jobs, task'[j] \in Places,
             \/ /\ {status[j], status'[j]} \subseteq {"scheduled", "running"}
                /\ task'[j] \in Live
             \/ /\ status'[j] = status[j]
                /\ task'[j] \notin Live /\ task[j] \notin Live,
             status' = [status EXCEPT ![j] = status'[j]],
             task' = [task EXCEPT ![j] = task'[j]],
             UNCHANGED <<active, completed, dead>>,
             attempt' \in [Jobs -> 0..MaxRetries], waiters' \in Seq(Jobs),
             holders' \subseteq Jobs, failures' \in Nat, Attempts'
      PROVE  JobInv'
  <2>1. /\ \A i \in Jobs : Filed(i)'
        /\ \A i \in Jobs : task'[i] \in Live => status'[i] \in {"scheduled", "running"}
        /\ status' \in [Jobs -> {"none", "scheduled", "running"} \cup Terminal]
        /\ task' \in [Jobs -> Places]
    BY <1>3, MovingKeepsFiled
  <2>2. JobTypeOK'
    BY <1>1, <1>3, <2>1 DEF JobTypeOK
  <2>3. Distinct(completed)' /\ Distinct(dead)'
    BY <1>1, <1>3 DEF Distinct
  <2> QED
    BY <1>3, <2>1, <2>2, <2>3 DEF JobInv
<1>4. ASSUME NEW j \in Jobs, Start(j)
      PROVE  JobInv'
  <2>1. task[j] = "waiting"
    BY <1>4 DEF Start, FirstInLine
  <2>2. status[j] \in {"scheduled", "running"}
    BY <2>1 DEF JobInv, Live
  <2>3. waiters' \in Seq(Jobs)
    BY <1>1, <1>4, DequeueTyped DEF Start
  <2>4. /\ status' = [status EXCEPT ![j] = "running"] /\ task' = [task EXCEPT ![j] = "calling"]
        /\ holders' = holders \cup {j}
        /\ UNCHANGED <<attempt, active, completed, dead, failures>>
    BY <1>4 DEF Start
  <2>5. Attempts' /\ holders' \subseteq Jobs
    BY <1>1, <2>4
  <2>6. /\ status'[j] = "running" /\ task'[j] = "calling"
        /\ status' = [status EXCEPT ![j] = status'[j]]
        /\ task' = [task EXCEPT ![j] = task'[j]]
    BY <1>1, <2>4
  <2>7. task'[j] \in Live /\ task'[j] \in Places
    BY <2>6 DEF Live, Places
  <2> QED
    BY <1>1, <1>3, <2>2, <2>3, <2>4, <2>5, <2>6, <2>7
<1>5. ASSUME NEW j \in Jobs, FailOnce(j)
      PROVE  JobInv'
  <2>1. status[j] \in {"scheduled", "running"}
    BY <1>5 DEF FailOnce, JobInv, Live
  <2>2. /\ status' = [status EXCEPT ![j] = status[j]] /\ task' = [task EXCEPT ![j] = "sleeping"]
        /\ attempt[j] < MaxRetries /\ failures' = failures + 1
        /\ UNCHANGED <<attempt, waiters, holders, active, completed, dead>>
    BY <1>1, <1>5 DEF FailOnce
  <2>3. Attempts' /\ failures' \in Nat
    BY <1>1, <2>2
  <2>6. /\ status'[j] = status[j] /\ task'[j] = "sleeping"
        /\ status' = [status EXCEPT ![j] = status'[j]]
        /\ task' = [task EXCEPT ![j] = task'[j]]
    BY <1>1, <2>2
  <2>7. task'[j] \in Live /\ task'[j] \in Places
    BY <2>2, <2>6 DEF Live, Places
  <2> QED
    BY <1>1, <1>3, <2>1, <2>2, <2>3, <2>6, <2>7
<1>6. ASSUME NEW j \in Jobs, Retry(j)
      PROVE  JobInv'
  <2>1. status[j] \in {"scheduled", "running"}
    BY <1>6 DEF Retry, JobInv, Live
  <2>2. /\ status' = [status EXCEPT ![j] = status[j]] /\ task' = [task EXCEPT ![j] = "calling"]
        /\ attempt' = [attempt EXCEPT ![j] = @ + 1] /\ attempt[j] < MaxRetries
        /\ UNCHANGED <<waiters, holders, active, completed, dead, failures>>
    BY <1>1, <1>6 DEF Retry
  <2>3. attempt[j] + 1 \in 0..MaxRetries
    BY <1>1, <2>2
  <2>4. Attempts' /\ attempt' \in [Jobs -> 0..MaxRetries]
    BY <1>1, <2>2, <2>3
  <2>6. /\ status'[j] = status[j] /\ task'[j] = "calling"
        /\ status' = [status EXCEPT ![j] = status'[j]]
        /\ task' = [task EXCEPT ![j] = task'[j]]
    BY <1>1, <2>2
  <2>7. task'[j] \in Live /\ task'[j] \in Places
    BY <2>2, <2>6 DEF Live, Places
  <2> QED
    BY <1>1, <1>3, <2>1, <2>2, <2>4, <2>6, <2>7
<1>7. ASSUME NEW j \in Jobs, Unwind(j)
      PROVE  JobInv'
  <2>1. waiters' \in Seq(Jobs)
    BY <1>1, <1>7, DequeueTyped DEF Unwind
  <2>2. /\ status' = [status EXCEPT ![j] = status[j]] /\ task' = [task EXCEPT ![j] = "gone"]
        /\ task[j] = "cancelled" /\ holders' = holders \ {j}
        /\ UNCHANGED <<attempt, active, completed, dead, failures>>
    BY <1>1, <1>7 DEF Unwind, Leave
  <2>3. Attempts' /\ holders' \subseteq Jobs
    BY <1>1, <2>2
  <2>6. /\ status'[j] = status[j] /\ task'[j] = "gone"
        /\ status' = [status EXCEPT ![j] = status'[j]]
        /\ task' = [task EXCEPT ![j] = task'[j]]
    BY <1>1, <2>2
  <2>7. task'[j] \notin Live /\ task'[j] \in Places /\ task[j] \notin Live
    BY <2>2, <2>6 DEF Live, Places
  <2> QED
    BY <1>1, <1>3, <2>1, <2>2, <2>3, <2>6, <2>7
<1>8. ASSUME NEW j \in Jobs, status[j] \in {"scheduled", "running"},
             status'[j] \in Terminal, task'[j] \in {"gone", "cancelled"},
             status' = [status EXCEPT ![j] = status'[j]],
             task' = [task EXCEPT ![j] = task'[j]],
             active' = active \ {j},
             IF status'[j] = "dead_lettered"
             THEN dead' = Stored(dead, j, MaxDead) /\ UNCHANGED completed
             ELSE completed' = Stored(completed, j, MaxCompleted) /\ UNCHANGED dead,
             holders' \subseteq Jobs, failures' \in Nat, UNCHANGED <<attempt, waiters>>
      PROVE  JobInv'
  <2>1. /\ \A i \in Jobs : Filed(i)'
        /\ Distinct(completed)' /\ Distinct(dead)'
        /\ completed' \in Seq(Jobs) /\ Len(completed') <= MaxCompleted
        /\ dead' \in Seq(Jobs) /\ Len(dead') <= MaxDead
        /\ \A i \in Jobs : task'[i] \in Live => status'[i] \in {"scheduled", "running"}
    BY <1>8, FilingKeepsFiled DEF Terminal
  <2>2. /\ status' \in [Jobs -> {"none", "scheduled", "running"} \cup Terminal]
        /\ task' \in [Jobs -> Places] /\ active' \subseteq Jobs
    BY <1>1, <1>8 DEF Terminal, Places
  <2>3. JobTypeOK'
    BY <1>1, <1>8, <2>1, <2>2 DEF JobTypeOK
  <2>4. \A i \in Jobs : task'[i] = "sleeping" => task[i] = "sleeping"
    BY <1>1, <1>8
  <2>5. Attempts'
    BY <1>1, <1>8, <2>4
  <2> QED
    BY <2>1, <2>3, <2>5 DEF JobInv
<1>9. ASSUME NEW j \in Jobs, Succeed(j)
      PROVE  JobInv'
  <2>1. status[j] \in {"scheduled", "running"}
    BY <1>9 DEF Succeed, JobInv, Live
  <2>2. /\ status' = [status EXCEPT ![j] = "completed"] /\ task' = [task EXCEPT ![j] = "gone"]
        /\ active' = active \ {j} /\ holders' \subseteq Jobs /\ failures' \in Nat
        /\ UNCHANGED <<attempt, waiters>>
    BY <1>1, <1>9 DEF Succeed, Leave
  <2>3. /\ status'[j] = "completed" /\ task'[j] = "gone"
        /\ status' = [status EXCEPT ![j] = status'[j]]
        /\ task' = [task EXCEPT ![j] = task'[j]]
    BY <1>1, <2>2
  <2>4. completed' = Stored(completed, j, MaxCompleted) /\ UNCHANGED dead
    BY <1>9 DEF Succeed
  <2>5. status'[j] \in Terminal /\ task'[j] \in {"gone", "cancelled"}
    BY <2>3 DEF Terminal
  <2> QED
    BY <1>8, <2>1, <2>2, <2>3, <2>4, <2>5
<1>10. ASSUME NEW j \in Jobs, GiveUp(j)
       PROVE  JobInv'
  <2>1. status[j] \in {"scheduled", "running"}
    BY <1>10 DEF GiveUp, JobInv, Live
  <2>2. /\ status' = [status EXCEPT ![j] = "dead_lettered"] /\ task' = [task EXCEPT ![j] = "gone"]
        /\ active' = active \ {j} /\ holders' \subseteq Jobs /\ failures' \in Nat
        /\ UNCHANGED <<attempt, waiters>>
    BY <1>1, <1>10 DEF GiveUp, Leave
  <2>3. /\ status'[j] = "dead_lettered" /\ task'[j] = "gone"
        /\ status' = [status EXCEPT ![j] = status'[j]]
        /\ task' = [task EXCEPT ![j] = task'[j]]
    BY <1>1, <2>2
  <2>4. dead' = Stored(dead, j, MaxDead) /\ UNCHANGED completed
    BY <1>10 DEF GiveUp
  <2>5. status'[j] \in Terminal /\ task'[j] \in {"gone", "cancelled"}
    BY <2>3 DEF Terminal
  <2> QED
    BY <1>8, <2>1, <2>2, <2>3, <2>4, <2>5
<1>11. ASSUME NEW j \in Jobs, Cancel(j)
       PROVE  JobInv'
  <2>1. status[j] \in {"scheduled", "running"}
    <3>1. Filed(j) /\ j \in active
      BY <1>11 DEF Cancel, JobInv
    <3> QED
      BY <1>1, <3>1 DEF Filed, Terminal
  <2>2. /\ status' = [status EXCEPT ![j] = "cancelled"] /\ task' = [task EXCEPT ![j] = "cancelled"]
        /\ active' = active \ {j} /\ holders' \subseteq Jobs /\ failures' \in Nat
        /\ UNCHANGED <<attempt, waiters>>
    BY <1>1, <1>11 DEF Cancel
  <2>3. /\ status'[j] = "cancelled" /\ task'[j] = "cancelled"
        /\ status' = [status EXCEPT ![j] = status'[j]]
        /\ task' = [task EXCEPT ![j] = task'[j]]
    BY <1>1, <2>2
  <2>4. completed' = Stored(completed, j, MaxCompleted) /\ UNCHANGED dead
    BY <1>11 DEF Cancel
  <2>5. status'[j] \in Terminal /\ task'[j] \in {"gone", "cancelled"}
    BY <2>3 DEF Terminal
  <2> QED
    BY <1>8, <2>1, <2>2, <2>3, <2>4, <2>5
<1>12. CASE UNCHANGED <<status, attempt, task, waiters, holders, active, completed, dead>>
            /\ failures' \in Nat
  BY <1>12 DEF JobInv, JobTypeOK, Filed, Distinct
<1>13. CASE Age
  BY <1>1, <1>12, <1>13 DEF Age
<1>14. CASE UNCHANGED jobVars
  BY <1>1, <1>12, <1>14 DEF jobVars
<1> QED
  BY <1>2, <1>4, <1>5, <1>6, <1>7, <1>9, <1>10, <1>11, <1>13, <1>14 DEF JobNext, Run

\* The strengthening the theorems below rest on: see JobInv.
THEOREM JobInvariant == JobSpec => []JobInv
<1>1. JobInit => JobInv
  BY InitJobInv
<1>2. JobInv /\ [JobNext]_jobVars => JobInv'
  BY NextJobInv
<1> QED
  BY <1>1, <1>2, PTL DEF JobSpec

-------------------------------------------------------------------------------
(* The runner's state has its type and its stores their bounds (max_completed_history, *)
(* max_dead_letters), whatever is scheduled, fails, times out or is cancelled.          *)
THEOREM JobsTyped == JobSpec => []JobTypeOK
<1>1. JobInv => JobTypeOK
  BY DEF JobInv
<1> QED
  BY <1>1, JobInvariant, PTL

(* "All jobs are tracked from creation to completion/failure": every job is in the one  *)
(* store its status names, or was dropped by that store at its bound, and has a live     *)
(* task for as long as it is active.                                                      *)
THEOREM JobsAreTracked == JobSpec => []Tracked
<1>1. JobInv => Tracked
  BY FiledIsTracked DEF JobInv
<1> QED
  BY <1>1, JobInvariant, PTL

\* One step's part of TerminalIsFinal.
LEMMA EndedStays ==
    JobInv /\ [JobNext]_jobVars =>
      [\A j \in Jobs : status[j] \in Terminal =>
          status'[j] = status[j] /\ attempt'[j] = attempt[j]]_jobVars
<1> SUFFICES ASSUME JobInv, JobNext, NEW i \in Jobs, status[i] \in Terminal
             PROVE  status'[i] = status[i] /\ attempt'[i] = attempt[i]
  OBVIOUS
<1>1. /\ i \notin active /\ task[i] \notin Live
      /\ status \in [Jobs -> {"none", "scheduled", "running"} \cup Terminal]
      /\ attempt \in [Jobs -> 0..MaxRetries]
      /\ status[i] \notin {"none", "scheduled", "running"}
  <2>1. Filed(i)
    BY DEF JobInv
  <2> QED
    BY <2>1 DEF JobInv, JobTypeOK, Filed, Terminal
<1>2. ASSUME NEW j \in Jobs, Schedule(j) \/ Run(j) \/ Cancel(j)
      PROVE  status'[i] = status[i] /\ attempt'[i] = attempt[i]
  <2>1. CASE Schedule(j)
    BY <1>1, <2>1 DEF Schedule
  <2>2. CASE Start(j)
    BY <1>1, <2>2 DEF Start, FirstInLine, Live
  <2>3. CASE Succeed(j)
    BY <1>1, <2>3 DEF Succeed, Live
  <2>4. CASE FailOnce(j)
    BY <1>1, <2>4 DEF FailOnce
  <2>5. CASE Retry(j)
    BY <1>1, <2>5 DEF Retry, Live
  <2>6. CASE GiveUp(j)
    BY <1>1, <2>6 DEF GiveUp, Live
  <2>7. CASE Unwind(j)
    BY <1>1, <2>7 DEF Unwind
  <2>8. CASE Cancel(j)
    BY <1>1, <2>8 DEF Cancel
  <2> QED
    BY <1>2, <2>1, <2>2, <2>3, <2>4, <2>5, <2>6, <2>7, <2>8 DEF Run
<1>3. CASE Age
  BY <1>3 DEF Age
<1> QED
  BY <1>2, <1>3 DEF JobNext

(* A job that was completed, cancelled or dead-lettered keeps that status and its count  *)
(* of retries: a task cut by cancel() neither completes, retries nor dead-letters it.     *)
THEOREM EndedIsFinal == JobSpec => TerminalIsFinal
<1>1. JobInv /\ [JobNext]_jobVars =>
        [\A j \in Jobs : status[j] \in Terminal =>
            status'[j] = status[j] /\ attempt'[j] = attempt[j]]_jobVars
  BY EndedStays
<1> QED
  BY <1>1, JobInvariant, PTL DEF JobSpec, TerminalIsFinal
-------------------------------------------------------------------------------
(* The runner is a job service. *)

\* i stands before l in s.
Precedes(s, i, l) == \E p, q \in DOMAIN s : p < q /\ s[p] = i /\ s[q] = l

\* s without its k-th element
WithoutAt(s, k) == SubSeq(s, 1, k - 1) \o SubSeq(s, k + 1, Len(s))

\* A queue that an element leaves keeps the others, in their order.
LEMMA OneLeaves ==
    ASSUME NEW S, NEW s \in Seq(S), NEW k \in DOMAIN s, Distinct(s)
    PROVE  /\ Distinct(WithoutAt(s, k)) /\ Members(WithoutAt(s, k)) = Members(s) \ {s[k]}
           /\ \A i, l \in S \ {s[k]} : Precedes(WithoutAt(s, k), i, l) <=> Precedes(s, i, l)
<1> DEFINE t == WithoutAt(s, k)
           front == SubSeq(s, 1, k - 1)
           back == SubSeq(s, k + 1, Len(s))
           n == Len(s)
<1>1. n \in Nat /\ k \in 1..n /\ DOMAIN s = 1..n /\ \A i \in 1..n : s[i] \in S
  OBVIOUS
<1>2. front \in Seq(S) /\ Len(front) = k - 1 /\ \A i \in 1..k - 1 : front[i] = s[i]
  <2>1. /\ front \in Seq(S)
        /\ Len(front) = IF 1 <= k - 1 THEN (k - 1) - 1 + 1 ELSE 0
        /\ \A i \in 1..(k - 1) - 1 + 1 : front[i] = s[1 + i - 1]
    <3>1. \A i \in 1..k - 1 : s[i] \in S
      BY <1>1
    <3> QED
      BY <1>1, <3>1, SubSeqProperties
  <2> QED
    BY <1>1, <2>1
<1>3. back \in Seq(S) /\ Len(back) = n - k /\ \A i \in 1..n - k : back[i] = s[i + k]
  <2>1. /\ back \in Seq(S)
        /\ Len(back) = IF k + 1 <= n THEN n - (k + 1) + 1 ELSE 0
        /\ \A i \in 1..n - (k + 1) + 1 : back[i] = s[(k + 1) + i - 1]
    <3>1. \A i \in k + 1..n : s[i] \in S
      BY <1>1
    <3> QED
      BY <1>1, <3>1, SubSeqProperties
  <2>2. /\ \A i \in 1..n - k : i \in 1..n - (k + 1) + 1 /\ (k + 1) + i - 1 = i + k
        /\ (IF k + 1 <= n THEN n - (k + 1) + 1 ELSE 0) = n - k
    BY <1>1
  <2> HIDE DEF back, n
  <2> QED
    BY <2>1, <2>2
<1>4. t = front \o back
  BY DEF WithoutAt
<1> HIDE DEF front, back, n, t
<1>5. /\ Len(t) = n - 1 /\ DOMAIN t = 1..n - 1
      /\ \A i \in 1..n - 1 : t[i] = IF i <= k - 1 THEN front[i] ELSE back[i - (k - 1)]
  <2>1. /\ front \o back \in Seq(S)
        /\ Len(front \o back) = Len(front) + Len(back)
        /\ \A i \in 1..Len(front) + Len(back) :
              (front \o back)[i] = IF i <= Len(front) THEN front[i] ELSE back[i - Len(front)]
    BY <1>2, <1>3, ConcatProperties
  <2>2. Len(front) + Len(back) = n - 1
    BY <1>1, <1>2, <1>3
  <2>3. t \in Seq(S) /\ Len(t) = n - 1 /\ DOMAIN t = 1..n - 1
    BY <1>4, <2>1, <2>2
  <2>4. \A i \in 1..n - 1 : t[i] = IF i <= Len(front) THEN front[i] ELSE back[i - Len(front)]
    BY <1>4, <2>1, <2>2
  <2> QED
    BY <1>2, <2>3, <2>4
<1>6. \A i \in 1..n - 1 : t[i] = IF i < k THEN s[i] ELSE s[i + 1]
  <2> SUFFICES ASSUME NEW i \in 1..n - 1 PROVE t[i] = IF i < k THEN s[i] ELSE s[i + 1]
    OBVIOUS
  <2>1. CASE i < k
    BY <1>1, <1>2, <1>5, <2>1
  <2>2. CASE ~(i < k)
    <3>1. i - (k - 1) \in 1..n - k /\ (i - (k - 1)) + k = i + 1 /\ ~(i <= k - 1)
      <4>1. n \in Nat /\ k \in 1..n /\ i \in Int /\ k <= i /\ i <= n - 1
        BY <1>1, <2>2
      <4> QED
        BY <4>1
    <3>2. t[i] = back[i - (k - 1)]
      BY <1>5, <3>1
    <3>3. back[i - (k - 1)] = s[(i - (k - 1)) + k]
      BY <1>3, <3>1
    <3> QED
      BY <2>2, <3>1, <3>2, <3>3
  <2> QED
    BY <2>1, <2>2
\* The place in s of the i-th of t, and the other way round
<1> DEFINE At(i) == IF i < k THEN i ELSE i + 1
           From(p) == IF p < k THEN p ELSE p - 1
<1>7. ASSUME NEW i \in 1..n - 1 PROVE At(i) \in 1..n /\ At(i) # k /\ t[i] = s[At(i)]
  <2>1. t[i] = IF i < k THEN s[i] ELSE s[i + 1]
    BY <1>6
  <2>2. CASE i < k
    BY <1>1, <2>1, <2>2
  <2>3. CASE ~(i < k)
    BY <1>1, <2>1, <2>3
  <2> QED
    BY <2>2, <2>3
<1>8. ASSUME NEW p \in (1..n) \ {k} PROVE From(p) \in 1..n - 1 /\ At(From(p)) = p
  <2>1. CASE p < k
    BY <1>1, <2>1
  <2>2. CASE p > k
    BY <1>1, <2>2
  <2> QED
    BY <1>1, <2>1, <2>2
<1>9. \A i, l \in 1..n - 1 : i < l <=> At(i) < At(l)
  BY <1>1
<1>10. \A i, l \in 1..n - 1 : At(i) = At(l) => i = l
  BY <1>1
<1> HIDE DEF At, From
<1>11. Distinct(t)
  BY <1>1, <1>5, <1>7, <1>10 DEF Distinct
<1>12. Members(t) = Members(s) \ {s[k]}
  <2>1. Members(t) \subseteq Members(s) \ {s[k]}
    BY <1>1, <1>5, <1>7 DEF Distinct, Members
  <2>2. ASSUME NEW p \in 1..n, s[p] # s[k] PROVE s[p] \in Members(t)
    <3>1. p \in (1..n) \ {k}
      BY <2>2
    <3> QED
      BY <1>5, <1>7, <1>8, <3>1 DEF Members
  <2> QED
    BY <1>1, <2>1, <2>2 DEF Members
<1>13. ASSUME NEW i \in S \ {s[k]}, NEW l \in S \ {s[k]}
       PROVE  Precedes(t, i, l) <=> Precedes(s, i, l)
  <2>1. ASSUME NEW p \in 1..n - 1, NEW q \in 1..n - 1, p < q, t[p] = i, t[q] = l
        PROVE  Precedes(s, i, l)
    BY <1>1, <1>7, <1>9, <2>1 DEF Precedes
  <2>2. ASSUME NEW p \in 1..n, NEW q \in 1..n, p < q, s[p] = i, s[q] = l
        PROVE  Precedes(t, i, l)
    <3>1. p \in (1..n) \ {k} /\ q \in (1..n) \ {k}
      BY <2>2
    <3>2. /\ From(p) \in 1..n - 1 /\ At(From(p)) = p /\ t[From(p)] = i
          /\ From(q) \in 1..n - 1 /\ At(From(q)) = q /\ t[From(q)] = l
      BY <1>7, <1>8, <2>2, <3>1
    <3>3. From(p) < From(q)
      BY <1>9, <2>2, <3>2
    <3> QED
      BY <1>5, <3>2, <3>3 DEF Precedes
  <2> QED
    BY <1>1, <1>5, <2>1, <2>2 DEF Precedes
<1> QED
  BY <1>11, <1>12, <1>13 DEF t

\* One that joins a queue is behind everyone in it.
LEMMA OneJoins ==
    ASSUME NEW S, NEW s \in Seq(S), NEW j \in S, j \notin Members(s), Distinct(s)
    PROVE  /\ Distinct(Append(s, j)) /\ Members(Append(s, j)) = Members(s) \cup {j}
           /\ \A i, l \in S : Precedes(Append(s, j), i, l) <=>
                                 Precedes(s, i, l) \/ (l = j /\ i \in Members(s))
<1> DEFINE n == Len(s)
           t == Append(s, j)
<1>1. n \in Nat /\ DOMAIN s = 1..n
  OBVIOUS
<1>2. /\ DOMAIN t = 1..n + 1 /\ t[n + 1] = j
      /\ \A i \in 1..n : t[i] = s[i] /\ i \in 1..n + 1 /\ i < n + 1
  BY <1>1, AppendProperties
<1>3. \A i \in 1..n + 1 : i \in 1..n \/ i = n + 1
  BY <1>1
<1>4. \A p, q \in 1..n + 1 : p < q => p \in 1..n
  BY <1>1
<1> HIDE DEF n, t
<1>5. Distinct(t)
  BY <1>1, <1>2, <1>3 DEF Distinct, Members
<1>6. Members(t) = Members(s) \cup {j}
  <2>1. n + 1 \in 1..n + 1
    BY <1>1
  <2> QED
    BY <1>1, <1>2, <1>3, <2>1 DEF Members
<1>7. ASSUME NEW i \in S, NEW l \in S
      PROVE  Precedes(t, i, l) <=> Precedes(s, i, l) \/ (l = j /\ i \in Members(s))
  <2>1. ASSUME NEW p \in 1..n + 1, NEW q \in 1..n + 1, p < q, t[p] = i, t[q] = l
        PROVE  Precedes(s, i, l) \/ (l = j /\ i \in Members(s))
    <3>1. p \in 1..n /\ s[p] = i
      BY <1>2, <1>4, <2>1
    <3>2. CASE q \in 1..n
      BY <1>1, <1>2, <2>1, <3>1, <3>2 DEF Precedes
    <3>3. CASE q = n + 1
      BY <1>1, <1>2, <2>1, <3>1, <3>3 DEF Members
    <3> QED
      BY <1>3, <3>2, <3>3
  <2>2. Precedes(s, i, l) => Precedes(t, i, l)
    BY <1>1, <1>2 DEF Precedes
  <2>3. ASSUME l = j, NEW p \in 1..n, s[p] = i PROVE Precedes(t, i, l)
    <3>1. n + 1 \in 1..n + 1
      BY <1>1
    <3> QED
      BY <1>2, <2>3, <3>1 DEF Precedes
  <2> QED
    BY <1>1, <1>2, <2>1, <2>2, <2>3 DEF Precedes, Members
<1> QED
  BY <1>5, <1>6, <1>7 DEF t

\* Who waits for a slot stands in the semaphore's queue once, which holds nobody else but
\* cancelled tasks; who is in an attempt or between two holds a slot.
SlotInv ==
    /\ Distinct(waiters)
    /\ \A j \in Jobs :
          /\ status[j] = "scheduled" <=> task[j] = "waiting"
          /\ status[j] = "none" => task[j] = "none"
          /\ task[j] = "waiting" => j \in Members(waiters)
          /\ j \in Members(waiters) => task[j] \in {"waiting", "cancelled"}
          /\ task[j] \in {"calling", "sleeping"} => j \in holders

\* A job whose status is running is in an attempt or between two.
LEMMA RunningHolds ==
    ASSUME JobInv, SlotInv, NEW j \in Jobs
    PROVE  /\ status[j] = "running" => task[j] \in {"calling", "sleeping"} /\ j \in holders
           /\ task[j] \in {"calling", "sleeping"} => status[j] = "running"
           /\ j \in active => status[j] \in {"scheduled", "running"}
<1>1. Filed(j)
  BY DEF JobInv
<1>2. task[j] \in Live => status[j] \in {"scheduled", "running"}
  BY DEF JobInv
<1>3. status[j] \in {"none", "scheduled", "running"} \cup Terminal
  BY DEF JobInv, JobTypeOK
<1> QED
  BY <1>1, <1>2, <1>3 DEF Filed, SlotInv, Live, Terminal

\* A task that leaves the semaphore's queue, if it is in there, leaves the others in it.
LEMMA DequeueKeepsOthers ==
    ASSUME JobInv, SlotInv, NEW j \in Jobs, Dequeue(j)
    PROVE  /\ Distinct(waiters') /\ Members(waiters') = Members(waiters) \ {j}
           /\ \A i, l \in Jobs \ {j} : Precedes(waiters', i, l) <=> Precedes(waiters, i, l)
<1>1. waiters \in Seq(Jobs) /\ Distinct(waiters)
  BY DEF JobInv, JobTypeOK, SlotInv
<1>2. CASE j \notin Members(waiters) /\ UNCHANGED waiters
  BY <1>1, <1>2
<1>3. ASSUME NEW k \in DOMAIN waiters, waiters[k] = j,
             waiters' = SubSeq(waiters, 1, k - 1) \o SubSeq(waiters, k + 1, Len(waiters))
      PROVE  /\ Distinct(waiters') /\ Members(waiters') = Members(waiters) \ {j}
             /\ \A i, l \in Jobs \ {j} : Precedes(waiters', i, l) <=> Precedes(waiters, i, l)
  <2>1. waiters' = WithoutAt(waiters, k)
    BY <1>3 DEF WithoutAt
  <2>2. /\ Distinct(WithoutAt(waiters, k))
        /\ Members(WithoutAt(waiters, k)) = Members(waiters) \ {waiters[k]}
        /\ \A i, l \in Jobs \ {waiters[k]} :
              Precedes(WithoutAt(waiters, k), i, l) <=> Precedes(waiters, i, l)
    BY <1>1, OneLeaves
  <2> QED
    BY <1>3, <2>1, <2>2
<1> QED
  BY <1>2, <1>3 DEF Dequeue

\* The turns, as JobService sees them
Turns == {p \in Jobs \X Jobs : Ahead(p[1], p[2])}

\* One comes before another by the places of the two in the queue.
LEMMA AheadIsPrecedes ==
    ASSUME NEW i, NEW l
    PROVE  /\ Ahead(i, l) <=> task[i] = "waiting" /\ task[l] = "waiting" /\ Precedes(waiters, i, l)
           /\ Ahead(i, l)' <=> task'[i] = "waiting" /\ task'[l] = "waiting" /\ Precedes(waiters', i, l)
BY DEF Ahead, Precedes

\* The turns stay when nobody begins or ceases to wait.
LEMMA TurnsStay ==
    ASSUME \A i \in Jobs : task'[i] = "waiting" <=> task[i] = "waiting",
           \A i, l \in Jobs : task[i] = "waiting" /\ task[l] = "waiting"
                                 => (Precedes(waiters', i, l) <=> Precedes(waiters, i, l))
    PROVE  Turns' = Turns
<1>1. \A i, l \in Jobs : Ahead(i, l)' <=> Ahead(i, l)
  BY AheadIsPrecedes
<1>2. \A p \in Jobs \X Jobs : p[1] \in Jobs /\ p[2] \in Jobs
  OBVIOUS
<1> QED
  BY <1>1, <1>2 DEF Turns

\* One that ceases to wait gives up its turn, and no other turn changes.
LEMMA TurnIsLeft ==
    ASSUME NEW j \in Jobs, task'[j] # "waiting",
           \A i \in Jobs \ {j} : task'[i] = "waiting" <=> task[i] = "waiting",
           \A i, l \in Jobs \ {j} : task[i] = "waiting" /\ task[l] = "waiting"
                                 => (Precedes(waiters', i, l) <=> Precedes(waiters, i, l))
    PROVE  Turns' = {p \in Turns : p[1] # j /\ p[2] # j}
<1>1. \A i, l \in Jobs \ {j} : Ahead(i, l)' <=> Ahead(i, l)
  BY AheadIsPrecedes
<1>2. \A i, l \in Jobs : Ahead(i, l)' => i # j /\ l # j
  BY AheadIsPrecedes
<1>3. \A p \in Jobs \X Jobs : p[1] \in Jobs /\ p[2] \in Jobs
  OBVIOUS
<1> QED
  BY <1>1, <1>2, <1>3 DEF Turns

\* The start of SlotInv and every step.
LEMMA InitSlotInv == JobInit => SlotInv
<1> SUFFICES ASSUME JobInit PROVE SlotInv
  OBVIOUS
<1>1. DOMAIN waiters = {} /\ Members(waiters) = {}
  BY DEF JobInit, Members
<1> QED
  BY <1>1 DEF JobInit, SlotInv, Distinct

\* A step that moves the task of one job and leaves the queue alone, or takes that job
\* out of it.
LEMMA MoveKeepsSlots ==
    ASSUME JobInv, SlotInv, NEW j \in Jobs,
           \A i \in Jobs \ {j} : status'[i] = status[i] /\ task'[i] = task[i],
           UNCHANGED waiters \/ Dequeue(j),
           status'[j] \notin {"scheduled", "none"}, task'[j] \notin {"waiting", "none"},
           j \in Members(waiters) /\ UNCHANGED waiters => task'[j] = "cancelled",
           holders \ {j} \subseteq holders',
           task'[j] \in {"calling", "sleeping"} => j \in holders'
    PROVE  SlotInv'
<1>3. /\ Distinct(waiters')
      /\ \A i \in Jobs \ {j} : i \in Members(waiters') <=> i \in Members(waiters)
      /\ j \in Members(waiters') => UNCHANGED waiters
  <2>1. CASE UNCHANGED waiters
    BY <2>1 DEF SlotInv
  <2>2. CASE Dequeue(j)
    BY <2>2, DequeueKeepsOthers
  <2> QED
    BY <2>1, <2>2
<1>4. ASSUME NEW i \in Jobs
      PROVE  /\ status'[i] = "scheduled" <=> task'[i] = "waiting"
             /\ status'[i] = "none" => task'[i] = "none"
             /\ task'[i] = "waiting" => i \in Members(waiters')
             /\ i \in Members(waiters') => task'[i] \in {"waiting", "cancelled"}
             /\ task'[i] \in {"calling", "sleeping"} => i \in holders'
  <2>1. CASE i = j
    BY <1>3, <2>1
  <2>2. CASE i # j
    BY <1>3, <2>2 DEF SlotInv
  <2> QED
    BY <2>1, <2>2
<1> QED
  BY <1>3, <1>4 DEF SlotInv

\* Every step keeps it.
LEMMA NextSlotInv == JobInv /\ SlotInv /\ [JobNext]_jobVars => SlotInv'
<1> SUFFICES ASSUME JobInv, SlotInv, [JobNext]_jobVars PROVE SlotInv'
  OBVIOUS
<1>1. /\ status \in [Jobs -> {"none", "scheduled", "running"} \cup Terminal]
      /\ task \in [Jobs -> Places]
      /\ waiters \in Seq(Jobs)
  BY DEF JobInv, JobTypeOK
<1>2. ASSUME NEW j \in Jobs, Schedule(j) PROVE SlotInv'
  <2>1. status[j] = "none" /\ task[j] = "none" /\ j \notin Members(waiters)
    BY <1>2 DEF Schedule, SlotInv
  <2>2. \A i \in Jobs :
           IF i = j THEN status'[i] = "scheduled" /\ task'[i] = "waiting"
                    ELSE status'[i] = status[i] /\ task'[i] = task[i]
    BY <1>1, <1>2 DEF Schedule
  <2>3. Distinct(waiters') /\ Members(waiters') = Members(waiters) \cup {j} /\ holders' = holders
    BY <1>1, <1>2, <2>1, OneJoins DEF Schedule, SlotInv
  <2>4. ASSUME NEW i \in Jobs
        PROVE  /\ status'[i] = "scheduled" <=> task'[i] = "waiting"
               /\ status'[i] = "none" => task'[i] = "none"
               /\ task'[i] = "waiting" => i \in Members(waiters')
               /\ i \in Members(waiters') => task'[i] \in {"waiting", "cancelled"}
               /\ task'[i] \in {"calling", "sleeping"} => i \in holders'
    <3>1. CASE i = j
      BY <2>2, <2>3, <3>1
    <3>2. CASE i # j
      BY <2>2, <2>3, <3>2 DEF SlotInv
    <3> QED
      BY <3>1, <3>2
  <2> QED
    BY <2>3, <2>4 DEF SlotInv
<1>3. ASSUME NEW j \in Jobs, Start(j) PROVE SlotInv'
  <2>1. j \in Members(waiters) /\ task[j] = "waiting"
    BY <1>3 DEF Start, FirstInLine, Members
  <2>2. waiters' # waiters
    <3>1. j \notin Members(waiters')
      BY <1>3, DequeueKeepsOthers DEF Start
    <3> QED
      BY <2>1, <3>1
  <2>3. /\ status' = [status EXCEPT ![j] = "running"] /\ task' = [task EXCEPT ![j] = "calling"]
        /\ Dequeue(j) /\ holders' = holders \cup {j}
    BY <1>3 DEF Start
  <2>4. /\ \A i \in Jobs \ {j} : status'[i] = status[i] /\ task'[i] = task[i]
        /\ status'[j] = "running" /\ task'[j] = "calling"
    BY <1>1, <2>1, <2>3
  <2> QED
    BY <2>4, <2>2, <2>3, MoveKeepsSlots
<1>4. ASSUME NEW j \in Jobs, task[j] \in {"calling", "sleeping"}
      PROVE  j \notin Members(waiters) /\ j \in holders /\ status = [status EXCEPT ![j] = status[j]]
             /\ status[j] = "running"
  BY <1>1, <1>4, RunningHolds DEF SlotInv
<1>5. ASSUME NEW j \in Jobs, Succeed(j) PROVE SlotInv'
  <2>1. /\ status' = [status EXCEPT ![j] = "completed"] /\ task' = [task EXCEPT ![j] = "gone"]
        /\ holders' = holders \ {j} /\ UNCHANGED waiters /\ task[j] = "calling"
    BY <1>5 DEF Succeed, Leave
  <2>2. /\ \A i \in Jobs \ {j} : status'[i] = status[i] /\ task'[i] = task[i]
        /\ status'[j] = "completed" /\ task'[j] = "gone"
    BY <1>1, <2>1
  <2> QED
    BY <2>2, <1>4, <2>1, MoveKeepsSlots
<1>6. ASSUME NEW j \in Jobs, FailOnce(j) PROVE SlotInv'
  <2>1. /\ UNCHANGED status /\ task' = [task EXCEPT ![j] = "sleeping"]
        /\ holders' = holders /\ UNCHANGED waiters /\ task[j] = "calling"
    BY <1>6 DEF FailOnce
  <2>2. status' = [status EXCEPT ![j] = "running"]
    BY <1>4, <2>1
  <2>3. /\ \A i \in Jobs \ {j} : status'[i] = status[i] /\ task'[i] = task[i]
        /\ status'[j] = "running" /\ task'[j] = "sleeping"
    BY <1>1, <2>1, <2>2
  <2> QED
    BY <2>3, <1>4, <2>1, <2>2, MoveKeepsSlots
<1>7. ASSUME NEW j \in Jobs, Retry(j) PROVE SlotInv'
  <2>1. /\ UNCHANGED status /\ task' = [task EXCEPT ![j] = "calling"]
        /\ holders' = holders /\ UNCHANGED waiters /\ task[j] = "sleeping"
    BY <1>7 DEF Retry
  <2>2. status' = [status EXCEPT ![j] = "running"]
    BY <1>4, <2>1
  <2>3. /\ \A i \in Jobs \ {j} : status'[i] = status[i] /\ task'[i] = task[i]
        /\ status'[j] = "running" /\ task'[j] = "calling"
    BY <1>1, <2>1, <2>2
  <2> QED
    BY <2>3, <1>4, <2>1, <2>2, MoveKeepsSlots
<1>8. ASSUME NEW j \in Jobs, GiveUp(j) PROVE SlotInv'
  <2>1. /\ status' = [status EXCEPT ![j] = "dead_lettered"] /\ task' = [task EXCEPT ![j] = "gone"]
        /\ holders' = holders \ {j} /\ UNCHANGED waiters /\ task[j] = "calling"
    BY <1>8 DEF GiveUp, Leave
  <2>2. /\ \A i \in Jobs \ {j} : status'[i] = status[i] /\ task'[i] = task[i]
        /\ status'[j] = "dead_lettered" /\ task'[j] = "gone"
    BY <1>1, <2>1
  <2> QED
    BY <2>2, <1>4, <2>1, MoveKeepsSlots
<1>9. ASSUME NEW j \in Jobs, Unwind(j) PROVE SlotInv'
  <2>1. /\ UNCHANGED status /\ task' = [task EXCEPT ![j] = "gone"]
        /\ holders' = holders \ {j} /\ Dequeue(j) /\ task[j] = "cancelled"
    BY <1>9 DEF Unwind, Leave
  <2>2. status' = [status EXCEPT ![j] = status[j]] /\ status[j] \notin {"scheduled", "none"}
    BY <1>1, <2>1 DEF SlotInv
  <2>3. j \notin Members(waiters')
    BY <2>1, DequeueKeepsOthers
  <2>4. j \in Members(waiters) /\ UNCHANGED waiters => FALSE
    BY <2>3
  <2>5. /\ \A i \in Jobs \ {j} : status'[i] = status[i] /\ task'[i] = task[i]
        /\ status'[j] = status[j] /\ task'[j] = "gone"
    BY <1>1, <2>1, <2>2
  <2> QED
    BY <2>5, <2>1, <2>2, <2>4, MoveKeepsSlots
<1>10. ASSUME NEW j \in Jobs, Cancel(j) PROVE SlotInv'
  <2>1. /\ status' = [status EXCEPT ![j] = "cancelled"] /\ task' = [task EXCEPT ![j] = "cancelled"]
        /\ holders' = holders /\ UNCHANGED waiters
    BY <1>10 DEF Cancel
  <2>2. /\ \A i \in Jobs \ {j} : status'[i] = status[i] /\ task'[i] = task[i]
        /\ status'[j] = "cancelled" /\ task'[j] = "cancelled"
    BY <1>1, <2>1
  <2> QED
    BY <2>2, <2>1, MoveKeepsSlots
<1>11. CASE Age \/ UNCHANGED jobVars
  <2>1. UNCHANGED <<status, task, waiters, holders>>
    BY <1>11 DEF Age, jobVars
  <2> QED
    BY <2>1 DEF SlotInv, Distinct, Members
<1> QED
  BY <1>2, <1>3, <1>5, <1>6, <1>7, <1>8, <1>9, <1>10, <1>11 DEF JobNext, Run

\* What is shown as running never exceeds the slots.
LEMMA RunningFits ==
    ASSUME JobInv, SlotInv
    PROVE  Cardinality({j \in Jobs : status[j] = "running"}) <= Cardinality(holders)
<1>1. {j \in Jobs : status[j] = "running"} \subseteq holders
  BY RunningHolds
<1>2. IsFiniteSet(holders)
  BY JobAssumption, FS_Subset DEF JobInv, JobTypeOK
<1> QED
  BY <1>1, <1>2, FS_Subset

\* A job that is scheduled is behind all that are.
LEMMA ScheduleAccepts ==
    ASSUME JobInv, SlotInv, NEW j \in Jobs, Schedule(j)
    PROVE  Service!Accept(j)
<1>1. /\ task \in [Jobs -> Places] /\ waiters \in Seq(Jobs)
      /\ status[j] = "none" /\ task[j] = "none" /\ j \notin Members(waiters)
  BY DEF Schedule, SlotInv, JobInv, JobTypeOK
<1>2. \A i \in Jobs : task'[i] = "waiting" <=> task[i] = "waiting" \/ i = j
  BY <1>1 DEF Schedule
<1>3. \A i, l \in Jobs :
         Precedes(waiters', i, l) <=> Precedes(waiters, i, l) \/ (l = j /\ i \in Members(waiters))
  BY <1>1, OneJoins DEF Schedule, SlotInv
<1>4. \A i \in Jobs : task[i] = "waiting" => i \in Members(waiters) /\ i # j
  BY <1>1 DEF SlotInv
<1>5. \A i \in Jobs : ~Precedes(waiters, j, i) /\ ~Precedes(waiters, i, j)
  BY <1>1 DEF Precedes, Members
<1>6. \A i, l \in Jobs : Ahead(i, l)' <=> Ahead(i, l) \/ (l = j /\ task[i] = "waiting")
  <2> SUFFICES ASSUME NEW i \in Jobs, NEW l \in Jobs
               PROVE  Ahead(i, l)' <=> Ahead(i, l) \/ (l = j /\ task[i] = "waiting")
    OBVIOUS
  <2>1. /\ Ahead(i, l) <=> task[i] = "waiting" /\ task[l] = "waiting" /\ Precedes(waiters, i, l)
        /\ Ahead(i, l)' <=> task'[i] = "waiting" /\ task'[l] = "waiting" /\ Precedes(waiters', i, l)
    BY AheadIsPrecedes
  <2>2. CASE l = j
    BY <1>1, <1>2, <1>3, <1>4, <1>5, <2>1, <2>2
  <2>3. CASE l # j
    BY <1>1, <1>2, <1>3, <1>4, <1>5, <2>1, <2>3
  <2> QED
    BY <2>2, <2>3
<1>7. Turns' = Turns \cup {<<i, j>> : i \in {k \in Jobs : status[k] = "scheduled"}}
  <2>1. \A i \in Jobs : status[i] = "scheduled" <=> task[i] = "waiting"
    BY DEF SlotInv
  <2>2. \A p \in Jobs \X Jobs : p = <<p[1], p[2]>> /\ p[1] \in Jobs /\ p[2] \in Jobs
    OBVIOUS
  <2>3. ASSUME NEW p \in Jobs \X Jobs
        PROVE  p \in Turns' <=>
                  p \in Turns \cup {<<i, j>> : i \in {k \in Jobs : status[k] = "scheduled"}}
    <3>1. p \in Turns' <=> Ahead(p[1], p[2]) \/ (p[2] = j /\ task[p[1]] = "waiting")
      BY <1>6, <2>2 DEF Turns
    <3>2. p \in Turns <=> Ahead(p[1], p[2])
      BY DEF Turns
    <3>3. p \in {<<i, j>> : i \in {k \in Jobs : status[k] = "scheduled"}} <=>
             p[2] = j /\ task[p[1]] = "waiting"
      BY <2>1, <2>2
    <3> QED
      BY <3>1, <3>2, <3>3
  <2>4. /\ Turns \subseteq Jobs \X Jobs /\ Turns' \subseteq Jobs \X Jobs
        /\ {<<i, j>> : i \in {k \in Jobs : status[k] = "scheduled"}} \subseteq Jobs \X Jobs
    BY DEF Turns
  <2> QED
    BY <2>3, <2>4
<1>8. status[j] = "none" /\ status' = [status EXCEPT ![j] = "scheduled"] /\ UNCHANGED attempt
  BY DEF Schedule
<1> QED
  BY <1>7, <1>8 DEF Service!Accept, Turns

\* A job that enters the semaphore is the first of those that wait, and a slot is free.
LEMMA StartBegins ==
    ASSUME JobInv, SlotInv, NEW j \in Jobs, Start(j)
    PROVE  Service!Begin(j)
<1>1. /\ task \in [Jobs -> Places] /\ waiters \in Seq(Jobs) /\ holders \subseteq Jobs
  BY DEF JobInv, JobTypeOK
<1>2. PICK k \in DOMAIN waiters :
         /\ waiters[k] = j /\ task[j] = "waiting"
         /\ \A i \in 1..(k - 1) : task[waiters[i]] # "waiting"
  BY DEF Start, FirstInLine
<1>3. \A p \in Turns : p[2] # j
  <2> SUFFICES ASSUME NEW p \in Turns, p[2] = j PROVE FALSE
    OBVIOUS
  <2>1. task[p[1]] = "waiting" /\ Precedes(waiters, p[1], j)
    BY AheadIsPrecedes DEF Turns
  <2>2. PICK a, b \in DOMAIN waiters : a < b /\ waiters[a] = p[1] /\ waiters[b] = j
    BY <2>1 DEF Precedes
  <2>3. b = k
    BY <1>2, <2>2 DEF SlotInv, Distinct
  <2>4. a \in 1..(k - 1)
    BY <1>1, <2>2, <2>3
  <2> QED
    BY <1>2, <2>1, <2>2, <2>4
<1>4. Turns' = {p \in Turns : p[1] # j /\ p[2] # j}
  <2>1. task'[j] # "waiting" /\ \A i \in Jobs \ {j} : task'[i] = "waiting" <=> task[i] = "waiting"
    BY <1>1 DEF Start
  <2>2. \A i, l \in Jobs \ {j} : Precedes(waiters', i, l) <=> Precedes(waiters, i, l)
    BY DequeueKeepsOthers DEF Start
  <2> QED
    BY <2>1, <2>2, TurnIsLeft
<1>5. Cardinality({i \in Jobs : status[i] = "running"}) < MaxConcurrent
  <2>1. IsFiniteSet(holders) /\ IsFiniteSet({i \in Jobs : status[i] = "running"})
    BY <1>1, JobAssumption, FS_Subset
  <2>2. /\ Cardinality(holders) \in Nat
        /\ Cardinality({i \in Jobs : status[i] = "running"}) \in Nat
    BY <2>1, FS_CardinalityType
  <2>3. Cardinality(holders) < MaxConcurrent
    BY DEF Start
  <2> QED
    BY <2>2, <2>3, RunningFits, JobAssumption
<1>6. status[j] = "scheduled" /\ status' = [status EXCEPT ![j] = "running"] /\ UNCHANGED attempt
  BY <1>2 DEF Start, SlotInv
<1>7. Service!Cardinality(Service!Running) < MaxConcurrent
  <2>1. Service!Cardinality(Service!Running) = Cardinality(Service!Running)
    BY DEF Service!Cardinality, Cardinality
  <2> QED
    BY <1>5, <2>1 DEF Service!Running
<1>8. Service!Leaves(j)
  BY <1>4 DEF Service!Leaves, Turns
<1>9. Turns = {p \in Jobs \X Jobs : Ahead(p[1], p[2])}
  BY DEF Turns
<1>10. \A p \in {p \in Jobs \X Jobs : Ahead(p[1], p[2])} : p[2] # j
  BY <1>3, <1>9
<1> QED
  BY <1>6, <1>7, <1>8, <1>10, Zenon DEF Service!Begin

\* The other steps of a job
LEMMA RunServes ==
    ASSUME JobInv, SlotInv, NEW j \in Jobs, Succeed(j) \/ FailOnce(j) \/ Retry(j) \/ GiveUp(j)
    PROVE  \/ Service!Finish(j) \/ Service!TryAgain(j) \/ Service!Abandon(j)
           \/ UNCHANGED Service!serviceVars
<1>1. task \in [Jobs -> Places] /\ attempt \in [Jobs -> 0..MaxRetries] /\ MaxRetries \in Nat
  BY JobAssumption DEF JobInv, JobTypeOK
<1>2. task[j] \in {"calling", "sleeping"} /\ status[j] = "running"
  BY RunningHolds DEF Succeed, FailOnce, Retry, GiveUp
<1>3. UNCHANGED waiters /\ \A i \in Jobs : task'[i] = "waiting" <=> task[i] = "waiting"
  BY <1>1, <1>2 DEF Succeed, FailOnce, Retry, GiveUp, Leave
<1>4. Turns' = Turns
  <2>1. \A i, l \in Jobs : Precedes(waiters', i, l) <=> Precedes(waiters, i, l)
    BY <1>3
  <2> QED
    BY <1>3, <2>1, TurnsStay
<1>5. CASE Succeed(j)
  BY <1>2, <1>4, <1>5 DEF Succeed, Service!Finish, Turns
<1>6. CASE FailOnce(j)
  BY <1>4, <1>6 DEF FailOnce, Service!serviceVars, Turns
<1>7. CASE Retry(j)
  <2>1. attempt[j] < MaxRetries
    BY <1>7 DEF Retry, JobInv
  <2> QED
    BY <1>2, <1>4, <1>7, <2>1 DEF Retry, Service!TryAgain, Turns
<1>8. CASE GiveUp(j)
  <2>1. attempt[j] = MaxRetries
    BY <1>1, <1>8 DEF GiveUp
  <2> QED
    BY <1>2, <1>4, <1>8, <2>1 DEF GiveUp, Service!Abandon, Turns
<1> QED
  BY <1>5, <1>6, <1>7, <1>8

\* A job that is cancelled gives up its turn; its task leaves the queue unnoticed.
LEMMA CancelServes ==
    ASSUME JobInv, SlotInv, NEW j \in Jobs, Cancel(j) \/ Unwind(j)
    PROVE  Service!CallOff(j) \/ UNCHANGED Service!serviceVars
<1>1. task \in [Jobs -> Places]
  BY DEF JobInv, JobTypeOK
<1>2. CASE Cancel(j)
  <2>1. /\ task'[j] # "waiting" /\ UNCHANGED waiters
        /\ \A i \in Jobs \ {j} : task'[i] = "waiting" <=> task[i] = "waiting"
    BY <1>1, <1>2 DEF Cancel
  <2>2. Turns' = {p \in Turns : p[1] # j /\ p[2] # j}
    BY <2>1, TurnIsLeft
  <2>3. status[j] \in {"scheduled", "running"}
    BY <1>2, RunningHolds DEF Cancel
  <2> QED
    BY <1>2, <2>2, <2>3 DEF Cancel, Service!CallOff, Service!Leaves, Turns
<1>3. CASE Unwind(j)
  <2>1. task[j] = "cancelled" /\ \A i \in Jobs : task'[i] = "waiting" <=> task[i] = "waiting"
    BY <1>1, <1>3 DEF Unwind, Leave
  <2>2. \A i, l \in Jobs \ {j} : Precedes(waiters', i, l) <=> Precedes(waiters, i, l)
    BY <1>3, DequeueKeepsOthers DEF Unwind
  <2>3. Turns' = Turns
    BY <2>1, <2>2, TurnsStay
  <2> QED
    BY <1>3, <2>3 DEF Unwind, Service!serviceVars, Turns
<1> QED
  BY <1>2, <1>3

\* Every step of the runner is a step of the service, or none of its business.
LEMMA StepKeepsService ==
    JobInv /\ SlotInv /\ [JobNext]_jobVars => [Service!ServiceNext]_(Service!serviceVars)
<1> SUFFICES ASSUME JobInv, SlotInv, [JobNext]_jobVars
             PROVE  Service!ServiceNext \/ UNCHANGED Service!serviceVars
  OBVIOUS
<1>1. ASSUME NEW j \in Jobs, Schedule(j) \/ Run(j) \/ Cancel(j)
      PROVE  Service!ServiceNext \/ UNCHANGED Service!serviceVars
  <2>1. \/ Service!Accept(j) \/ Service!Begin(j) \/ Service!TryAgain(j)
        \/ Service!Finish(j) \/ Service!Abandon(j) \/ Service!CallOff(j)
        \/ UNCHANGED Service!serviceVars
    BY <1>1, ScheduleAccepts, StartBegins, RunServes, CancelServes DEF Run
  <2> QED
    BY <2>1 DEF Service!ServiceNext
<1>2. CASE Age \/ UNCHANGED jobVars
  <2>1. UNCHANGED <<status, attempt, task, waiters>>
    BY <1>2 DEF Age, jobVars
  <2>2. Turns' = Turns
    BY <2>1, TurnsStay
  <2> QED
    BY <2>1, <2>2 DEF Service!serviceVars, Turns
<1> QED
  BY <1>1, <1>2 DEF JobNext

(* The runner implements JobService: whatever fails, times out or is cancelled, and     *)
(* wherever it is in the semaphore's queue then, accepted jobs begin in their turn, no    *)
(* more than the slots at a time, and end once.                                            *)
THEOREM JobsAreServed == JobSpec => KeepsService
<1>1. JobInit => Service!ServiceInit
  <2> SUFFICES ASSUME JobInit PROVE Service!ServiceInit
    OBVIOUS
  <2>1. \A i, l \in Jobs : ~Ahead(i, l)
    BY DEF JobInit, Ahead
  <2>2. \A p \in Jobs \X Jobs : p[1] \in Jobs /\ p[2] \in Jobs
    OBVIOUS
  <2>3. {p \in Jobs \X Jobs : Ahead(p[1], p[2])} = {}
    BY <2>1, <2>2
  <2> QED
    BY <2>3 DEF JobInit, Service!ServiceInit
<1>2. JobInv /\ SlotInv /\ [JobNext]_jobVars => SlotInv'
  BY NextSlotInv
<1>3. JobInv /\ SlotInv /\ [JobNext]_jobVars => [Service!ServiceNext]_(Service!serviceVars)
  BY StepKeepsService
<1> QED
  BY <1>1, <1>2, <1>3, InitSlotInv, JobInvariant, PTL
     DEF JobSpec, KeepsService, Service!ServiceSpec

-------------------------------------------------------------------------------
(***************************************************************************)
(* Pipelines: what a step is credited with                                  *)
(***************************************************************************)

\* A run that awaits stage k has submitted the k - 1 before it and each completed; nobody has
\* been told yet how it ended.
OwnAnswers ==
    \A r \in Runs : at[r] # 0 => /\ answers[r] = [s \in 1..at[r] - 1 |-> "completed"]
                                 /\ told[r] = "nothing"
PipelineInv ==
    /\ at \in [Runs -> 0..Stages]
    /\ answers \in [Runs -> Seq({"completed", "failed"})]
    /\ told \in [Runs -> {"nothing", "ok", "failed"}]
    /\ OwnAnswers /\ OkIsOwn

\* One more stage of a run completes.
LEMMA OneMoreCompleted ==
    ASSUME NEW n \in Nat, NEW s, s = [i \in 1..n |-> "completed"]
    PROVE  Append(s, "completed") = [i \in 1..n + 1 |-> "completed"]
<1>1. s \in Seq({"completed"}) /\ Len(s) = n
  OBVIOUS
<1> QED
  BY <1>1

\* What FinalizePipeline does to a run that was at stage k
LEMMA RunFinalized ==
    ASSUME PipelineInv, NEW r \in Runs, NEW statuses, NEW ended \in {"completed", "failed"},
           at[r] # 0, StageEnds(r, ended), FinalizePipeline(r, statuses),
           AllCompleted(statuses) => ended = "completed" /\ at[r] = Stages
    PROVE  PipelineInv'
<1> USE PipelineAssumption
<1>0. /\ at \in [Runs -> 0..Stages] /\ answers \in [Runs -> Seq({"completed", "failed"})]
      /\ told \in [Runs -> {"nothing", "ok", "failed"}]
      /\ OwnAnswers /\ OkIsOwn
  BY DEF PipelineInv
<1>1. answers' = [answers EXCEPT ![r] = Append(@, ended)]
  BY DEF StageEnds
<1>2. /\ told' = [told EXCEPT ![r] = IF AllCompleted(statuses) THEN "ok" ELSE "failed"]
      /\ at' = [at EXCEPT ![r] = 0]
  BY DEF FinalizePipeline
<1>3. /\ at' \in [Runs -> 0..Stages] /\ told' \in [Runs -> {"nothing", "ok", "failed"}]
      /\ answers' \in [Runs -> Seq({"completed", "failed"})]
  BY <1>0, <1>1, <1>2
<1>4. ASSUME NEW q \in Runs, q # r
      PROVE  at'[q] = at[q] /\ answers'[q] = answers[q] /\ told'[q] = told[q]
  BY <1>0, <1>1, <1>2, <1>4
<1>5. at'[r] = 0
  BY <1>0, <1>2
<1>6. OwnAnswers'
  BY <1>0, <1>4, <1>5 DEF OwnAnswers
<1>7. told'[r] = "ok" => answers'[r] = [s \in StageNumbers |-> "completed"]
  <2> SUFFICES ASSUME told'[r] = "ok" PROVE answers'[r] = [s \in StageNumbers |-> "completed"]
    OBVIOUS
  <2>1. AllCompleted(statuses)
    BY <1>0, <1>2
  <2>2. ended = "completed" /\ at[r] = Stages
    BY <2>1
  <2>3. answers[r] = [s \in 1..Stages - 1 |-> "completed"]
    BY <1>0, <2>2 DEF OwnAnswers
  <2>4. Append(answers[r], "completed") = [s \in 1..(Stages - 1) + 1 |-> "completed"]
    BY <2>3, OneMoreCompleted, Stages - 1 \in Nat
  <2>5. answers'[r] = Append(answers[r], "completed")
    BY <1>0, <1>1, <2>2
  <2>6. (Stages - 1) + 1 = Stages
    OBVIOUS
  <2> QED
    BY <2>4, <2>5, <2>6 DEF StageNumbers
<1>8. OkIsOwn'
  BY <1>0, <1>4, <1>7 DEF OkIsOwn
<1> QED
  BY <1>3, <1>6, <1>8 DEF PipelineInv

\* Whatever the shared stages are, a run's own answers are those of the stages it submitted.
LEMMA PipelineInvariant == PipelinesSpec => []PipelineInv
<1> USE PipelineAssumption
<1>1. PipelinesInit => PipelineInv
  BY DEF PipelinesInit, PipelineInv, OwnAnswers, OkIsOwn
<1>2. PipelineInv /\ [PipelinesNext]_pipelineVars => PipelineInv'
  <2> SUFFICES ASSUME PipelineInv, [PipelinesNext]_pipelineVars PROVE PipelineInv'
    OBVIOUS
  <2>0. /\ at \in [Runs -> 0..Stages] /\ answers \in [Runs -> Seq({"completed", "failed"})]
        /\ told \in [Runs -> {"nothing", "ok", "failed"}]
        /\ OwnAnswers /\ OkIsOwn
    BY DEF PipelineInv
  <2>1. ASSUME NEW r \in Runs, Execute(r) PROVE PipelineInv'
    <3>1. /\ at' = [at EXCEPT ![r] = 1] /\ answers' = [answers EXCEPT ![r] = <<>>]
          /\ told' = [told EXCEPT ![r] = "nothing"]
      BY <2>1 DEF Execute
    <3>2. <<>> = [s \in 1..1 - 1 |-> "completed"] /\ <<>> \in Seq({"completed", "failed"})
      OBVIOUS
    <3>3. /\ at' \in [Runs -> 0..Stages] /\ told' \in [Runs -> {"nothing", "ok", "failed"}]
          /\ answers' \in [Runs -> Seq({"completed", "failed"})]
      BY <2>0, <3>1, <3>2
    <3>4. OwnAnswers'
      BY <2>0, <3>1, <3>2 DEF OwnAnswers
    <3>5. OkIsOwn'
      BY <2>0, <3>1 DEF OkIsOwn
    <3> QED
      BY <3>3, <3>4, <3>5 DEF PipelineInv
  <2>2. ASSUME NEW r \in Runs, Proceed(r) PROVE PipelineInv'
    <3>1. /\ at[r] \in 1..Stages - 1 /\ at' = [at EXCEPT ![r] = @ + 1] /\ told' = told
          /\ answers' = [answers EXCEPT ![r] = Append(@, "completed")]
      BY <2>2 DEF Proceed, StageEnds
    <3>2. /\ at' \in [Runs -> 0..Stages] /\ told' \in [Runs -> {"nothing", "ok", "failed"}]
          /\ answers' \in [Runs -> Seq({"completed", "failed"})]
      BY <2>0, <3>1
    <3>3. answers[r] = [s \in 1..at[r] - 1 |-> "completed"] /\ told[r] = "nothing"
      BY <2>0, <3>1 DEF OwnAnswers
    <3>4. at[r] - 1 \in Nat /\ (at[r] - 1) + 1 = at[r] /\ (at[r] + 1) - 1 = at[r]
      BY <3>1
    <3>5. Append(answers[r], "completed") = [s \in 1..at[r] |-> "completed"]
      BY <3>3, <3>4, OneMoreCompleted
    <3>6. at'[r] = at[r] + 1 /\ answers'[r] = [s \in 1..at'[r] - 1 |-> "completed"]
      BY <2>0, <3>1, <3>4, <3>5
    <3>7. OwnAnswers'
      BY <2>0, <3>1, <3>3, <3>6 DEF OwnAnswers
    <3>8. OkIsOwn'
      BY <2>0, <3>1, <3>3 DEF OkIsOwn
    <3> QED
      BY <3>2, <3>7, <3>8 DEF PipelineInv
  <2>3. ASSUME NEW r \in Runs, Complete(r) PROVE PipelineInv'
    <3>1. at[r] = Stages /\ StageEnds(r, "completed")
          /\ FinalizePipeline(r, [stage EXCEPT ![Stages] = "completed"])
      BY <2>3 DEF Complete
    <3> QED
      BY <3>1, RunFinalized
  <2>4. ASSUME NEW r \in Runs, Fail(r) PROVE PipelineInv'
    <3> DEFINE statuses == [s \in StageNumbers |-> IF s < at[r] THEN stage[s]
                                           ELSE IF s = at[r] THEN "failed" ELSE "skipped"]
    <3>1. at[r] # 0 /\ StageEnds(r, "failed") /\ FinalizePipeline(r, statuses)
      BY <2>4 DEF Fail
    <3>2. at[r] \in StageNumbers
      BY <2>0, <3>1 DEF StageNumbers
    <3>3. statuses[at[r]] = "failed"
      BY <2>0, <3>2 DEF StageNumbers
    <3>4. ~AllCompleted(statuses)
      BY <3>2, <3>3 DEF AllCompleted
    <3> QED
      BY <3>1, <3>4, RunFinalized
  <2>5. CASE PipelineRestart
    BY <2>5 DEF PipelineRestart, PipelineInv, OwnAnswers, OkIsOwn
  <2>6. CASE UNCHANGED pipelineVars
    BY <2>6 DEF pipelineVars, PipelineInv, OwnAnswers, OkIsOwn
  <2> QED
    BY <2>1, <2>2, <2>3, <2>4, <2>5, <2>6 DEF PipelinesNext
<1> QED
  BY <1>1, <1>2, PTL DEF PipelinesSpec

\* However runs of one pipeline overlap, whoever is told ok had every stage of their own run
\* completed: JobPipeline.execute_pipeline reads the shared stages.
THEOREM OkIsOwnAlways == PipelinesSpec => []OkIsOwn
<1>1. PipelineInv => OkIsOwn
  BY DEF PipelineInv
<1> QED
  BY <1>1, PipelineInvariant, PTL

\* What the stages and the row can hold, and how many answers a run can have
StageTables == [StageNumbers -> StageStatuses]
RowsTyped ==
    /\ stage \in StageTables /\ result \in Results
    /\ record \in [stage : StageTables, result : Results]
    /\ \A r \in Runs : Len(answers[r]) <= Stages

\* One answer more, of a run at stage k, is no more than k.
LEMMA AnswersFit ==
    ASSUME PipelineInv, NEW r \in Runs, NEW ended \in {"completed", "failed"}, at[r] # 0,
           \A q \in Runs : Len(answers[q]) <= Stages, StageEnds(r, ended)
    PROVE  \A q \in Runs : Len(answers'[q]) <= Stages
<1> USE PipelineAssumption
<1>0. at \in [Runs -> 0..Stages] /\ answers \in [Runs -> Seq({"completed", "failed"})] /\ OwnAnswers
  BY DEF PipelineInv
<1> DEFINE k == at[r]
           s == answers[r]
           longer == Append(s, ended)
<1>1. k \in 1..Stages /\ s = [i \in 1..k - 1 |-> "completed"]
  BY <1>0 DEF OwnAnswers
<1>2. answers' = [answers EXCEPT ![r] = longer]
  BY DEF StageEnds
<1>3. Len(longer) = k
  <2> HIDE DEF k, s
  <2>1. s \in Seq({"completed"}) /\ Len(s) = k - 1
    BY <1>1
  <2>2. Len(longer) = Len(s) + 1
    BY <2>1
  <2> QED
    BY <1>1, <2>1, <2>2
<1>4. ASSUME NEW q \in Runs PROVE Len(answers'[q]) <= Stages
  <2> HIDE DEF longer
  <2>1. CASE q = r
    <3>1. answers'[q] = longer
      BY <1>0, <1>2, <2>1
    <3> QED
      BY <1>1, <1>3, <3>1
  <2>2. CASE q # r
    BY <1>0, <1>2, <2>2
  <2> QED
    BY <2>1, <2>2
<1> QED
  BY <1>4

\* The shared stages, the row and the runs of a pipeline are well formed, however its runs
\* overlap and whichever write is lost (control/pipeline.py).
THEOREM PipelinesTyped == PipelinesSpec => []PipelinesTypeOK
<1> USE PipelineAssumption
<1>1. PipelinesInit => RowsTyped
  BY DEF PipelinesInit, RowsTyped, StageTables, StageStatuses, Results
<1>2. PipelineInv /\ RowsTyped /\ [PipelinesNext]_pipelineVars => RowsTyped'
  <2> SUFFICES ASSUME PipelineInv, RowsTyped, [PipelinesNext]_pipelineVars PROVE RowsTyped'
    OBVIOUS
  <2>0. /\ stage \in StageTables /\ result \in Results
        /\ record \in [stage : StageTables, result : Results]
        /\ \A r \in Runs : Len(answers[r]) <= Stages
        /\ at \in [Runs -> 0..Stages] /\ answers \in [Runs -> Seq({"completed", "failed"})]
    BY DEF RowsTyped, PipelineInv
  <2>1. ASSUME stage' \in StageTables, result' \in Results,
               record' \in [stage : StageTables, result : Results],
               \A r \in Runs : Len(answers'[r]) <= Stages
        PROVE  RowsTyped'
    BY <2>1 DEF RowsTyped, StageTables
  <2>2. \A s \in StageNumbers, v \in StageStatuses : [stage EXCEPT ![s] = v] \in StageTables
    BY <2>0 DEF StageTables
  <2>3. ASSUME NEW r \in Runs, Execute(r) PROVE RowsTyped'
    <3>1. 1 \in StageNumbers /\ "running" \in StageStatuses /\ "executing" \in Results
      BY DEF StageNumbers, StageStatuses, Results
    <3>2. answers' = [answers EXCEPT ![r] = <<>>] /\ Len(<<>>) <= Stages
      BY <2>3 DEF Execute
    <3> QED
      BY <2>0, <2>1, <2>2, <2>3, <3>1, <3>2 DEF Execute
  <2>4. ASSUME NEW r \in Runs, Proceed(r) PROVE RowsTyped'
    <3>1. /\ at[r] \in StageNumbers /\ at[r] + 1 \in StageNumbers /\ at[r] # 0
          /\ {"running", "completed"} \subseteq StageStatuses
      BY <2>4 DEF Proceed, StageNumbers, StageStatuses
    <3>2. stage' = [stage EXCEPT ![at[r]] = "completed", ![at[r] + 1] = "running"]
      BY <2>4 DEF Proceed
    <3>3. stage' \in StageTables
      BY <2>0, <3>1, <3>2 DEF StageTables
    <3>4. \A q \in Runs : Len(answers'[q]) <= Stages
      BY <2>0, <2>4, <3>1, AnswersFit DEF Proceed
    <3> QED
      BY <2>0, <2>1, <2>4, <3>3, <3>4 DEF Proceed
  <2>5. ASSUME NEW r \in Runs, NEW ended \in {"completed", "failed"}, NEW statuses \in StageTables,
               at[r] # 0, StageEnds(r, ended), FinalizePipeline(r, statuses)
        PROVE  RowsTyped'
    <3>1. \A q \in Runs : Len(answers'[q]) <= Stages
      BY <2>0, <2>5, AnswersFit
    <3>2. stage' \in StageTables /\ result' \in Results
      BY <2>5 DEF FinalizePipeline, Results
    <3>3. record' \in {record, [stage |-> stage', result |-> result']}
      BY <2>5 DEF FinalizePipeline
    <3> QED
      BY <2>0, <2>1, <3>1, <3>2, <3>3
  <2>6. ASSUME NEW r \in Runs, Complete(r) PROVE RowsTyped'
    <3>1. /\ at[r] # 0 /\ StageEnds(r, "completed")
          /\ FinalizePipeline(r, [stage EXCEPT ![Stages] = "completed"])
      BY <2>6 DEF Complete
    <3>2. [stage EXCEPT ![Stages] = "completed"] \in StageTables
      <4>1. Stages \in StageNumbers /\ "completed" \in StageStatuses
        BY DEF StageNumbers, StageStatuses
      <4> QED
        BY <2>2, <4>1
    <3> QED
      BY <2>5, <3>1, <3>2
  <2>7. ASSUME NEW r \in Runs, Fail(r) PROVE RowsTyped'
    <3> DEFINE statuses == [s \in StageNumbers |-> IF s < at[r] THEN stage[s]
                                           ELSE IF s = at[r] THEN "failed" ELSE "skipped"]
    <3>1. at[r] # 0 /\ StageEnds(r, "failed") /\ FinalizePipeline(r, statuses)
      BY <2>7 DEF Fail
    <3>2. statuses \in StageTables
      BY <2>0 DEF StageTables, StageStatuses
    <3> HIDE DEF statuses
    <3> QED
      BY <2>5, <3>1, <3>2
  <2>8. CASE PipelineRestart
    <3>1. \A r \in Runs : Len(answers'[r]) <= Stages
      BY <2>8 DEF PipelineRestart
    <3>2. /\ stage' = record.stage /\ result' = record.result /\ record' = record
      BY <2>8 DEF PipelineRestart
    <3> QED
      BY <2>0, <2>1, <3>1, <3>2
  <2>9. CASE UNCHANGED pipelineVars
    BY <2>0, <2>1, <2>9 DEF pipelineVars
  <2> QED
    BY <2>3, <2>4, <2>6, <2>7, <2>8, <2>9 DEF PipelinesNext
<1>3. PipelineInv /\ RowsTyped => PipelinesTypeOK
  <2> SUFFICES ASSUME PipelineInv, RowsTyped PROVE PipelinesTypeOK
    OBVIOUS
  <2>1. ASSUME NEW r \in Runs
        PROVE  answers[r] \in UNION {[1..n -> {"completed", "failed"}] : n \in 0..Stages}
    <3>1. answers[r] \in Seq({"completed", "failed"}) /\ Len(answers[r]) <= Stages
      BY DEF PipelineInv, RowsTyped
    <3>2. answers[r] \in [1..Len(answers[r]) -> {"completed", "failed"}] /\ Len(answers[r]) \in 0..Stages
      BY <3>1, LenProperties
    <3> QED
      BY <3>2
  <2>2. answers \in [Runs -> UNION {[1..n -> {"completed", "failed"}] : n \in 0..Stages}]
    BY <2>1 DEF PipelineInv
  <2>3. at \in [Runs -> StageNumbers \cup {0}]
    <3>1. 0..Stages = StageNumbers \cup {0}
      BY DEF StageNumbers
    <3> QED
      BY <3>1 DEF PipelineInv
  <2> QED
    BY <2>2, <2>3 DEF PipelineInv, RowsTyped, PipelinesTypeOK, StageTables
<1> QED
  BY <1>1, <1>2, <1>3, PipelineInvariant, PTL DEF PipelinesSpec

-------------------------------------------------------------------------------
(***************************************************************************)
(* Recurring workflows                                                      *)
(***************************************************************************)

\* Whatever is recorded of an entry, it stays one.
LEMMA RecordedEntry ==
    ASSUME NEW e \in Entry, NEW success \in BOOLEAN
    PROVE  Recorded(e, success) \in Entry /\ Later(e) \in Entry
<1> USE WorkflowAssumption
<1>1. /\ e = [status |-> e.status, due |-> e.due, errors |-> e.errors] /\ e.due \in BOOLEAN
      /\ e.status \in {"none", "active", "paused", "failed"} /\ e.errors \in 0..MaxErrors
  BY DEF Entry
<1>2. Later(e) \in Entry
  BY <1>1 DEF Entry, Later
<1>3. CASE success
  <2>1. Recorded(e, success) = [e EXCEPT !.errors = 0, !.due = FALSE] /\ 0 \in 0..MaxErrors
    BY <1>3 DEF Recorded
  <2> QED
    BY <1>1, <1>2, <2>1 DEF Entry
<1>4. CASE ~success /\ e.errors + 1 >= MaxErrors
  <2>1. /\ Recorded(e, success) = [e EXCEPT !.errors = MaxErrors, !.status = "failed"]
        /\ MaxErrors \in 0..MaxErrors
    BY <1>4 DEF Recorded
  <2> QED
    BY <1>1, <1>2, <2>1 DEF Entry
<1>5. CASE ~success /\ ~(e.errors + 1 >= MaxErrors)
  <2>1. /\ Recorded(e, success) = [e EXCEPT !.errors = e.errors + 1, !.due = FALSE]
        /\ e.errors + 1 \in 0..MaxErrors
    BY <1>1, <1>5 DEF Recorded
  <2> QED
    BY <1>1, <1>2, <2>1 DEF Entry
<1> QED
  BY <1>3, <1>4, <1>5

\* Writing an entry keeps both tables typed.
LEMMA StoresTyped ==
    ASSUME workflow \in [Recurring -> Entry], stored \in [Recurring -> Entry],
           NEW w \in Recurring, NEW e \in Entry, Stores(w, e)
    PROVE  workflow' \in [Recurring -> Entry] /\ stored' \in [Recurring -> Entry]
  BY DEF Stores

\* What a pass of the loop has still to run: no more than there are workflows
Passes == UNION {[1..n -> Recurring] : n \in 0..Cardinality(Recurring)}

\* The rest of a pass is one.
LEMMA RestOfPass ==
    ASSUME pass \in Passes, pass # <<>>
    PROVE  Head(pass) \in Recurring /\ Tail(pass) \in Passes
<1> DEFINE N == Cardinality(Recurring)
<1>0. N \in Nat
  BY WorkflowAssumption, FS_CardinalityType
<1> HIDE DEF N
<1>1. PICK n \in 0..N : pass \in [1..n -> Recurring]
  BY DEF Passes, N
<1>2. pass \in Seq(Recurring) /\ Len(pass) = n
  BY <1>0, <1>1
<1>3. Head(pass) \in Recurring /\ Tail(pass) \in Seq(Recurring) /\ Len(Tail(pass)) = n - 1
  BY <1>2, HeadTailProperties
<1>4. n - 1 \in 0..N
  BY <1>0, <1>2, <1>3, LenProperties, EmptySeq
<1>5. Tail(pass) \in [1..n - 1 -> Recurring]
  BY <1>3, LenProperties
<1> QED
  BY <1>3, <1>4, <1>5 DEF Passes, N

\* A pass that begins has each of the due workflows once.
LEMMA OrdersArePasses ==
    ASSUME NEW q \in Orders(DueWorkflows)
    PROVE  q \in Passes
<1>1. DueWorkflows \subseteq Recurring /\ IsFiniteSet(Recurring)
  BY WorkflowAssumption DEF DueWorkflows
<1>2. Cardinality(DueWorkflows) \in 0..Cardinality(Recurring)
  BY <1>1, FS_Subset, FS_CardinalityType
<1>3. q \in [1..Cardinality(DueWorkflows) -> Recurring]
  BY <1>1 DEF Orders
<1> QED
  BY <1>2, <1>3 DEF Passes

\* The loop is inside a pass as long as it has something to run.
WorkflowsInv == WorkflowsTypeOK /\ (polling => pass # <<>>)

\* The manager, the rows and the pass of the loop are well formed (control/recurring.py and
\* core/cron.py), whatever fails, and at any restart.
THEOREM WorkflowsTyped == WorkflowsSpec => []WorkflowsTypeOK
<1> USE WorkflowAssumption
<1>0. [status |-> "none", due |-> FALSE, errors |-> 0] \in Entry
  BY DEF Entry
<1>00. <<>> \in Passes
  <2>1. <<>> \in [1..0 -> Recurring] /\ 0 \in 0..Cardinality(Recurring)
    BY FS_CardinalityType
  <2> QED
    BY <2>1 DEF Passes
<1>1. WorkflowsInit => WorkflowsInv
  BY <1>0, <1>00 DEF WorkflowsInit, WorkflowsInv, WorkflowsTypeOK, Passes
<1>2. WorkflowsInv /\ [WorkflowsNext]_workflowVars => WorkflowsInv'
  <2> SUFFICES ASSUME WorkflowsInv, [WorkflowsNext]_workflowVars PROVE WorkflowsInv'
    OBVIOUS
  <2>0. /\ workflow \in [Recurring -> Entry] /\ stored \in [Recurring -> Entry]
        /\ attached \in BOOLEAN /\ polling \in BOOLEAN /\ pass \in Passes
        /\ polling => pass # <<>>
    BY DEF WorkflowsInv, WorkflowsTypeOK, Passes
  <2>1. ASSUME /\ workflow' \in [Recurring -> Entry] /\ stored' \in [Recurring -> Entry]
               /\ attached' \in BOOLEAN /\ polling' \in BOOLEAN /\ pass' \in Passes
               /\ polling' => pass' # <<>>
        PROVE  WorkflowsInv'
    BY <2>1 DEF WorkflowsInv, WorkflowsTypeOK, Passes
  <2>2. CASE Attach
    BY <2>0, <2>1, <2>2 DEF Attach
  <2>3. CASE BeginPass
    <3>1. /\ DueWorkflows # {} /\ pass' \in Orders(DueWorkflows) /\ polling' = TRUE
          /\ UNCHANGED <<workflow, stored, attached>>
      BY <2>3 DEF BeginPass
    <3>2. pass' \in Passes
      BY <3>1, OrdersArePasses
    <3>3. pass' # <<>>
      <4>1. PICK w \in DueWorkflows : TRUE
        BY <3>1
      <4>2. \E i \in DOMAIN pass' : pass'[i] = w
        BY <3>1, <4>1 DEF Orders
      <4> QED
        BY <4>2
    <3> QED
      BY <2>0, <2>1, <3>1, <3>2, <3>3
  <2>4. ASSUME NEW success \in BOOLEAN, Record(success) PROVE WorkflowsInv'
    <3>1. /\ polling /\ Stores(Head(pass), Recorded(workflow[Head(pass)], success))
          /\ pass' = Tail(pass) /\ polling' = (Len(pass) > 1) /\ UNCHANGED attached
      BY <2>4 DEF Record, NextInPass
    <3>2. Head(pass) \in Recurring /\ Tail(pass) \in Passes
      BY <2>0, <3>1, RestOfPass
    <3>3. Recorded(workflow[Head(pass)], success) \in Entry
      BY <2>0, <3>2, RecordedEntry
    <3>4. workflow' \in [Recurring -> Entry] /\ stored' \in [Recurring -> Entry]
      BY <2>0, <3>1, <3>2, <3>3, StoresTyped
    <3>5. Len(pass) > 1 => Tail(pass) # <<>>
      <4>1. pass \in Seq(Recurring) /\ pass # <<>>
        BY <2>0, <3>1 DEF Passes
      <4> DEFINE n == Len(pass)
                 rest == Tail(pass)
      <4>2. Len(rest) = n - 1 /\ n \in Nat
        BY <4>1, HeadTailProperties, LenProperties
      <4>3. Len(<<>>) = 0
        OBVIOUS
      <4> SUFFICES n > 1 => rest # <<>>
        OBVIOUS
      <4> HIDE DEF n, rest
      <4> QED
        BY <4>2, <4>3
    <3>6. polling' \in BOOLEAN /\ attached' \in BOOLEAN
      BY <2>0, <3>1
    <3>7. pass' \in Passes /\ (polling' => pass' # <<>>)
      BY <3>1, <3>2, <3>5
    <3> QED
      BY <2>1, <3>4, <3>6, <3>7
  <2>5. CASE WorkflowsRestart
    BY <1>0, <1>00, <2>0, <2>1, <2>5 DEF WorkflowsRestart
  <2>6. ASSUME NEW w \in Recurring, CreateWorkflow(w) \/ Pause(w) \/ Activate(w) PROVE WorkflowsInv'
    <3>1. [status |-> "active", due |-> FALSE, errors |-> 0] \in Entry
      BY DEF Entry
    <3>2. [workflow[w] EXCEPT !.status = "paused"] \in Entry
      BY <2>0 DEF Entry
    <3>3. /\ UNCHANGED <<attached, pass, polling>>
          /\ \E e \in Entry : Stores(w, e)
      BY <2>6, <3>1, <3>2 DEF CreateWorkflow, Pause, Activate
    <3>4. workflow' \in [Recurring -> Entry] /\ stored' \in [Recurring -> Entry]
      BY <2>0, <3>3, StoresTyped
    <3> QED
      BY <2>0, <2>1, <3>3, <3>4
  <2>7. ASSUME NEW w \in Recurring, Elapse(w) PROVE WorkflowsInv'
    <3>1. /\ workflow' = [workflow EXCEPT ![w] = Later(workflow[w])]
          /\ stored' = [stored EXCEPT ![w] = Later(stored[w])]
          /\ UNCHANGED <<attached, pass, polling>>
      BY <2>7 DEF Elapse
    <3>2. Later(workflow[w]) \in Entry /\ Later(stored[w]) \in Entry
      BY <2>0, RecordedEntry
    <3> QED
      BY <2>0, <2>1, <3>1, <3>2
  <2>8. CASE UNCHANGED workflowVars
    BY <2>0, <2>1, <2>8 DEF workflowVars
  <2> QED
    BY <2>2, <2>3, <2>4, <2>5, <2>6, <2>7, <2>8 DEF WorkflowsNext, WorkflowLoop, Raised
<1>3. WorkflowsInv => WorkflowsTypeOK
  BY DEF WorkflowsInv
<1> QED
  BY <1>1, <1>2, <1>3, PTL DEF WorkflowsSpec

-------------------------------------------------------------------------------
(***************************************************************************)
(* Retention                                                                *)
(***************************************************************************)

\* The rows by their last update: no more than there are artifacts
Recencies == UNION {[1..n -> Artifacts] : n \in 0..Cardinality(Artifacts)}

\* Rows that were written come first, and no row is there that was not there or written.
LEMMA TouchedRows ==
    ASSUME recency \in Recencies, NEW S \in SUBSET Artifacts, Touched(S)
    PROVE  recency' \in Recencies
<1>0. IsFiniteSet(Artifacts)
  BY RetentionAssumption
<1> DEFINE T == S \cup {recency[i] : i \in DOMAIN recency}
<1>1. T \subseteq Artifacts
  BY DEF Recencies
<1>2. recency' \in Arrangements(T)
  BY DEF Touched
<1> HIDE DEF T
<1>3. Cardinality(T) \in 0..Cardinality(Artifacts)
  BY <1>0, <1>1, FS_Subset, FS_CardinalityType
<1>4. recency' \in [1..Cardinality(T) -> Artifacts]
  BY <1>1, <1>2 DEF Arrangements
<1> QED
  BY <1>3, <1>4 DEF Recencies

\* The retained copies are well formed, and no row is listed that no artifact has
\* (control/state.py), however pruning is cut short.
THEOREM RetentionTyped == RetentionSpec => []RetentionTypeOK
<1> DEFINE States == {"none", "active", "expired", "pruned"}
<1>1. RetentionInit => RetentionTypeOK
  <2>1. <<>> \in [1..0 -> Artifacts] /\ 0 \in 0..Cardinality(Artifacts)
    BY RetentionAssumption, FS_CardinalityType
  <2> QED
    BY <2>1 DEF RetentionInit, RetentionTypeOK
<1>2. RetentionTypeOK /\ [RetentionNext]_retentionVars => RetentionTypeOK'
  <2> SUFFICES ASSUME RetentionTypeOK, [RetentionNext]_retentionVars PROVE RetentionTypeOK'
    OBVIOUS
  <2>0. retained \in [Artifacts -> States] /\ passed \subseteq Artifacts /\ recency \in Recencies
    BY DEF RetentionTypeOK, Recencies
  <2>1. ASSUME retained' \in [Artifacts -> States], passed' \subseteq Artifacts, recency' \in Recencies
        PROVE  RetentionTypeOK'
    BY <2>1 DEF RetentionTypeOK, Recencies
  <2>2. Listed \subseteq Artifacts /\ \A S : Stale(S) \subseteq S
    BY <2>0 DEF Listed, Recencies, Stale
  <2>3. ASSUME NEW S \in SUBSET Artifacts, retained' \in [Artifacts -> States], Touched(S), UNCHANGED passed
        PROVE  RetentionTypeOK'
    <3>1. recency' \in Recencies
      BY <2>0, <2>3, TouchedRows
    <3> QED
      BY <2>0, <2>1, <2>3, <3>1
  <2>4. ASSUME NEW a \in Artifacts, Retain(a) PROVE RetentionTypeOK'
    <3>1. retained' = [retained EXCEPT ![a] = Fresh(a)] /\ Fresh(a) \in States
      BY <2>4 DEF Retain, Fresh
    <3>2. retained' \in [Artifacts -> States]
      BY <2>0, <3>1
    <3> QED
      BY <2>3, <2>4, <3>2 DEF Retain
  <2>5. ASSUME NEW a \in Artifacts, ExpireAt(a) PROVE RetentionTypeOK'
    BY <2>0, <2>1, <2>5 DEF ExpireAt
  <2>6. ASSUME NEW S \in SUBSET Artifacts, Refresh(S) PROVE RetentionTypeOK'
    <3>1. /\ retained' = [a \in Artifacts |-> IF a \in Stale(S) THEN "expired" ELSE retained[a]]
          /\ Touched(Stale(S)) /\ UNCHANGED passed
      BY <2>6 DEF Refresh
    <3>2. retained' \in [Artifacts -> States] /\ Stale(S) \in SUBSET Artifacts
      BY <2>0, <2>2, <3>1
    <3> QED
      BY <2>3, <3>1, <3>2
  <2>7. ASSUME NEW done \in SUBSET Prunable, Prune(done) PROVE RetentionTypeOK'
    <3>1. /\ retained' = [a \in Artifacts |-> IF a \in done THEN "pruned"
                              ELSE IF a \in Stale(Listed) THEN "expired" ELSE retained[a]]
          /\ Touched(Stale(Listed) \cup done) /\ UNCHANGED passed
      BY <2>7 DEF Prune
    <3>2. Stale(Listed) \cup done \in SUBSET Artifacts
      BY <2>2, <2>7 DEF Prunable
    <3>3. retained' \in [Artifacts -> States]
      BY <2>0, <3>1
    <3> QED
      BY <2>3, <3>1, <3>2, <3>3
  <2>8. CASE UNCHANGED retentionVars
    BY <2>0, <2>1, <2>8 DEF retentionVars
  <2> QED
    BY <2>2, <2>4, <2>5, <2>6, <2>7, <2>8 DEF RetentionNext, PruneAll, PruneCut
<1> QED
  BY <1>1, <1>2, PTL DEF RetentionSpec

-------------------------------------------------------------------------------
(***************************************************************************)
(* The self-update: what its steps may do to the work tree                  *)
(***************************************************************************)

UpdateInv == SelfUpdateTypeOK /\ UpdateKeepsWork /\ OldCodeIsExplained

UpdateRecords == [at : UpdatePlaces, behind : BOOLEAN, answer : UpdateAnswers]

\* A request goes on, or is answered.
LEMMA RequestProceeds ==
    ASSUME SelfUpdateTypeOK, NEW u \in UpdateRequests, NEW place \in UpdatePlaces, Proceeds(u, place)
    PROVE  /\ update' \in [UpdateRequests -> UpdateRecords] /\ update'[u].at = place
           /\ \A v \in UpdateRequests \ {u} : update'[v] = update[v]
<1>1. update \in [UpdateRequests -> UpdateRecords] /\ update[u] \in UpdateRecords
  BY DEF SelfUpdateTypeOK, UpdateRecords
<1>2. [update[u] EXCEPT !.at = place] \in UpdateRecords
  BY <1>1 DEF UpdateRecords
<1> QED
  BY <1>1, <1>2 DEF Proceeds, UpdateRecords

\* A request that is answered is over, and no other is touched.
LEMMA RequestAnswered ==
    ASSUME SelfUpdateTypeOK, NEW u \in UpdateRequests, NEW outcome \in UpdateAnswers,
           AnswersWith(u, outcome)
    PROVE  /\ update' \in [UpdateRequests -> UpdateRecords] /\ update'[u].at = "answered"
           /\ \A v \in UpdateRequests \ {u} : update'[v] = update[v]
<1>1. update \in [UpdateRequests -> UpdateRecords] /\ update[u] \in UpdateRecords
  BY DEF SelfUpdateTypeOK, UpdateRecords
<1>2. update'[u] = [update[u] EXCEPT !.at = "answered", !.answer = outcome]
  BY <1>1 DEF AnswersWith
<1>3. update'[u] = [at |-> "answered", behind |-> update[u].behind, answer |-> outcome]
  BY <1>1, <1>2 DEF UpdateRecords
<1>4. update'[u] \in UpdateRecords /\ update'[u].at = "answered"
  BY <1>1, <1>3 DEF UpdateRecords, UpdatePlaces
<1> QED
  BY <1>1, <1>4 DEF AnswersWith

\* Nor is another touched by counting what HEAD is behind.
LEMMA RequestCounted ==
    ASSUME SelfUpdateTypeOK, NEW u \in UpdateRequests, NEW seen \in BOOLEAN,
           update' = [update EXCEPT ![u].at = "counted", ![u].behind = seen]
    PROVE  /\ update' \in [UpdateRequests -> UpdateRecords]
           /\ \A v \in UpdateRequests \ {u} : update'[v] = update[v]
<1>1. update \in [UpdateRequests -> UpdateRecords] /\ update[u] \in UpdateRecords
  BY DEF SelfUpdateTypeOK, UpdateRecords
<1>2. update'[u] = [update[u] EXCEPT !.at = "counted", !.behind = seen]
  BY <1>1
<1>3. update'[u] = [at |-> "counted", behind |-> seen, answer |-> update[u].answer]
  BY <1>1, <1>2 DEF UpdateRecords
<1>4. update'[u] \in UpdateRecords
  BY <1>1, <1>3 DEF UpdateRecords, UpdatePlaces
<1> QED
  BY <1>1, <1>4

\* Where the pull takes HEAD, and the ref
LEMMA PullStaysTyped ==
    ASSUME SelfUpdateTypeOK
    PROVE  /\ PullFetches \in 0..LastCommit /\ PullTarget \in 0..LastCommit
           /\ FastForwards => /\ checkout'.own = checkout.own /\ checkout'.merged = checkout.merged
                              /\ checkout'.dirty = checkout.dirty
                              /\ checkout' \in [base : 0..LastCommit, own : 0..LastOwn,
                                                merged : BOOLEAN, dirty : BOOLEAN]
<1>1. PullFetches \in 0..LastCommit /\ PullTarget \in 0..LastCommit
  BY DEF SelfUpdateTypeOK, PullFetches, PullTarget
<1> QED
  BY <1>1 DEF SelfUpdateTypeOK, FastForwards

\* The operator's commits and edits outlive every update, and a process behind its checkout is
\* about to be restarted or to answer the request that moved it (core/self_update.py).
THEOREM UpdatesAreSafe == UpdateSpec => [](SelfUpdateTypeOK /\ UpdateIsHonest)
<1> USE SelfUpdateAssumption
<1>1. SelfUpdateInit => UpdateInv
  <2> SUFFICES ASSUME SelfUpdateInit PROVE UpdateInv
    OBVIOUS
  <2>1. [at |-> "idle", behind |-> FALSE, answer |-> "none"]
            \in [at : UpdatePlaces, behind : BOOLEAN, answer : UpdateAnswers]
    BY DEF UpdatePlaces, UpdateAnswers
  <2>2. SelfUpdateTypeOK
    <3>1. update \in [UpdateRequests -> [at : UpdatePlaces, behind : BOOLEAN, answer : UpdateAnswers]]
      BY <2>1 DEF SelfUpdateInit
    <3>2. /\ checkout \in [base : 0..LastCommit, own : 0..LastOwn, merged : BOOLEAN, dirty : BOOLEAN]
          /\ {draft, leaving, unseen} \subseteq BOOLEAN
      <4>1. {draft, leaving, unseen} \subseteq BOOLEAN
        BY Zenon DEF SelfUpdateInit
      <4>2. checkout \in [base : 0..LastCommit, own : 0..LastOwn, merged : BOOLEAN, dirty : BOOLEAN]
        BY SMT DEF SelfUpdateInit
      <4> QED
        BY <4>1, <4>2
    <3>3. /\ upstreamHead \in 0..LastCommit /\ fetched \in 0..LastCommit /\ running \in 0..LastCommit
          /\ mine \in 0..LastOwn /\ deployment \in Deployments /\ restarts \in {"off", "on"}
      BY DEF SelfUpdateInit
    <3> QED
      BY <3>1, <3>2, <3>3 DEF SelfUpdateTypeOK
  <2>3. UpdateKeepsWork /\ OldCodeIsExplained
    BY DEF SelfUpdateInit, UpdateKeepsWork, OldCodeIsExplained
  <2> QED
    BY <2>2, <2>3 DEF UpdateInv
<1>2. UpdateInv /\ [UpdateNext]_updateVars => UpdateInv'
  <2> SUFFICES ASSUME UpdateInv, [UpdateNext]_updateVars PROVE UpdateInv'
    OBVIOUS
  <2>0. /\ deployment \in Deployments /\ restarts \in {"off", "on"}
        /\ checkout \in [base : 0..LastCommit, own : 0..LastOwn, merged : BOOLEAN, dirty : BOOLEAN]
        /\ upstreamHead \in 0..LastCommit /\ fetched \in 0..LastCommit /\ running \in 0..LastCommit
        /\ mine \in 0..LastOwn /\ {draft, leaving, unseen} \subseteq BOOLEAN
        /\ update \in [UpdateRequests -> UpdateRecords]
        /\ SelfUpdateTypeOK /\ UpdateKeepsWork /\ OldCodeIsExplained
    BY DEF UpdateInv, SelfUpdateTypeOK, UpdateRecords
  \* A request moves and the checkout does not.
  <2>1. ASSUME NEW u \in UpdateRequests, ~Stands(u, "pulled"),
               update' \in [UpdateRequests -> UpdateRecords],
               \A v \in UpdateRequests \ {u} : update'[v] = update[v],
               fetched' \in 0..LastCommit,
               UNCHANGED <<deployment, restarts, checkout, upstreamHead, operatorVars, processVars, unseen>>
        PROVE  UpdateInv'
    <3>2. SelfUpdateTypeOK'
      BY <2>0, <2>1 DEF SelfUpdateTypeOK, UpdateRecords, operatorVars, processVars
    <3>3. UpdateKeepsWork'
      BY <2>0, <2>1 DEF UpdateKeepsWork, operatorVars
    <3>4. OldCodeIsExplained'
      BY <2>0, <2>1 DEF OldCodeIsExplained, processVars, Stands
    <3> QED
      BY <3>2, <3>3, <3>4 DEF UpdateInv
  \* ... because it proceeds or is answered.
  <2>12. ASSUME NEW u \in UpdateRequests, NEW place \in UpdatePlaces, Proceeds(u, place),
                ~Stands(u, "pulled"), fetched' \in 0..LastCommit,
                UNCHANGED <<deployment, restarts, checkout, upstreamHead, operatorVars, processVars, unseen>>
         PROVE  UpdateInv'
    BY <2>0, <2>1, <2>12, RequestProceeds
  <2>13. ASSUME NEW u \in UpdateRequests, NEW outcome \in UpdateAnswers, AnswersWith(u, outcome),
                ~Stands(u, "pulled"), fetched' \in 0..LastCommit,
                UNCHANGED <<deployment, restarts, checkout, upstreamHead, operatorVars, processVars, unseen>>
         PROVE  UpdateInv'
    BY <2>0, <2>1, <2>13, RequestAnswered
  <2>14. /\ {"denied", "no_repo", "no_remote", "dirty", "up_to_date", "fast_forward_unavailable",
             "updated", "error"} \subseteq UpdateAnswers
         /\ {"asked", "clean", "fetched", "pulling", "pulled"} \subseteq UpdatePlaces
    BY DEF UpdateAnswers, UpdatePlaces
  <2>15. ASSUME NothingMoves
         PROVE  /\ fetched' \in 0..LastCommit
                /\ UNCHANGED <<deployment, restarts, checkout, upstreamHead, operatorVars, processVars, unseen>>
    BY <2>0, <2>15 DEF NothingMoves
  <2>2. ASSUME NEW u \in UpdateRequests,
               \/ DenyUpdate(u) \/ AskForUpdate(u) \/ CheckTree(u) \/ FetchUpstream(u)
               \/ CountBehind(u) \/ CountAhead(u) \/ PullRefused(u)
        PROVE  UpdateInv'
    <3>1. CASE DenyUpdate(u)
      <4>1. AnswersWith(u, "denied") /\ NothingMoves /\ ~Stands(u, "pulled")
        BY <3>1 DEF DenyUpdate, Stands
      <4> QED
        BY <2>13, <2>14, <2>15, <4>1
    <3>2. CASE AskForUpdate(u)
      <4>1. \/ AnswersWith(u, "error") \/ AnswersWith(u, "no_repo") \/ AnswersWith(u, "no_remote")
            \/ Proceeds(u, "asked")
        BY <3>2 DEF AskForUpdate
      <4>2. NothingMoves /\ ~Stands(u, "pulled")
        BY <3>2 DEF AskForUpdate, Stands
      <4> QED
        BY <2>12, <2>13, <2>14, <2>15, <4>1, <4>2
    <3>3. CASE CheckTree(u)
      <4>1. AnswersWith(u, "error") \/ AnswersWith(u, "dirty") \/ Proceeds(u, "clean")
        BY <3>3 DEF CheckTree
      <4>2. NothingMoves /\ ~Stands(u, "pulled")
        BY <3>3 DEF CheckTree, Stands
      <4> QED
        BY <2>12, <2>13, <2>14, <2>15, <4>1, <4>2
    <3>4. CASE FetchUpstream(u)
      <4>1. AnswersWith(u, "error") \/ Proceeds(u, "fetched")
        BY <3>4 DEF FetchUpstream
      <4>2. /\ fetched' \in 0..LastCommit /\ ~Stands(u, "pulled")
            /\ UNCHANGED <<deployment, restarts, checkout, upstreamHead, operatorVars, processVars, unseen>>
        BY <2>0, <3>4 DEF FetchUpstream, Stands
      <4> QED
        BY <2>12, <2>13, <2>14, <4>1, <4>2
    <3>5. CASE CountBehind(u)
      <4>0. (fetched > checkout.base) \in BOOLEAN
        OBVIOUS
      <4>1. PICK seen \in BOOLEAN : update' = [update EXCEPT ![u].at = "counted", ![u].behind = seen]
        BY <4>0, <3>5 DEF CountBehind
      <4>2. NothingMoves /\ ~Stands(u, "pulled")
        BY <3>5 DEF CountBehind, Stands
      <4> QED
        BY <2>0, <2>1, <2>15, <4>1, <4>2, RequestCounted
    <3>6. CASE CountAhead(u)
      <4>1. \/ AnswersWith(u, "up_to_date") \/ AnswersWith(u, "fast_forward_unavailable")
            \/ Proceeds(u, "pulling")
        BY <3>6 DEF CountAhead
      <4>2. NothingMoves /\ ~Stands(u, "pulled")
        BY <3>6 DEF CountAhead, Stands
      <4> QED
        BY <2>12, <2>13, <2>14, <2>15, <4>1, <4>2
    <3>7. CASE PullRefused(u)
      <4>1. AnswersWith(u, "error") /\ ~Stands(u, "pulled") /\ fetched' \in 0..LastCommit
            /\ UNCHANGED <<deployment, restarts, checkout, upstreamHead, operatorVars, processVars, unseen>>
        BY <2>0, <3>7, PullStaysTyped DEF PullRefused, Stands
      <4> QED
        BY <2>13, <2>14, <4>1
    <3> QED
      BY <2>2, <3>1, <3>2, <3>3, <3>4, <3>5, <3>6, <3>7
  <2>3. ASSUME NEW u \in UpdateRequests, PullTakes(u) PROVE UpdateInv'
    <3>1. /\ Proceeds(u, "pulled") /\ FastForwards /\ fetched' = PullFetches
          /\ UNCHANGED <<deployment, restarts, upstreamHead, operatorVars, processVars, unseen>>
      BY <2>3 DEF PullTakes
    <3>2. update' \in [UpdateRequests -> UpdateRecords] /\ update'[u].at = "pulled"
      BY <2>0, <2>14, <3>1, RequestProceeds
    <3>3. SelfUpdateTypeOK' /\ UpdateKeepsWork'
      BY <2>0, <3>1, <3>2, PullStaysTyped
         DEF SelfUpdateTypeOK, UpdateKeepsWork, UpdateRecords, operatorVars, processVars
    <3>4. OldCodeIsExplained'
      BY <3>2 DEF OldCodeIsExplained, Stands
    <3> QED
      BY <3>3, <3>4 DEF UpdateInv
  <2>4. ASSUME NEW u \in UpdateRequests, PullKilled(u) PROVE UpdateInv'
    <3>1. /\ Stands(u, "pulling") /\ AnswersWith(u, "error") /\ fetched' = PullFetches
          /\ UNCHANGED <<deployment, restarts, upstreamHead, operatorVars, processVars>>
          /\ \/ FastForwards /\ unseen' = TRUE
             \/ checkout' = [checkout EXCEPT !.dirty = TRUE] /\ unseen' = unseen
      BY <2>4 DEF PullKilled
    <3>2. /\ update' \in [UpdateRequests -> UpdateRecords]
          /\ \A v \in UpdateRequests \ {u} : update'[v] = update[v]
      BY <2>0, <2>14, <3>1, RequestAnswered
    <3>3. CASE FastForwards /\ unseen' = TRUE
      <4>1. SelfUpdateTypeOK' /\ UpdateKeepsWork'
        BY <2>0, <3>1, <3>2, <3>3, PullStaysTyped
           DEF SelfUpdateTypeOK, UpdateKeepsWork, UpdateRecords, operatorVars, processVars
      <4>2. OldCodeIsExplained'
        BY <3>3 DEF OldCodeIsExplained
      <4> QED
        BY <4>1, <4>2 DEF UpdateInv
    <3>4. CASE checkout' = [checkout EXCEPT !.dirty = TRUE] /\ unseen' = unseen
      <4>1. SelfUpdateTypeOK' /\ UpdateKeepsWork'
        BY <2>0, <3>1, <3>2, <3>4, PullStaysTyped
           DEF SelfUpdateTypeOK, UpdateKeepsWork, UpdateRecords, operatorVars, processVars
      <4>2. checkout'.base = checkout.base
        BY <2>0, <3>4
      <4>3. OldCodeIsExplained'
        BY <2>0, <3>1, <3>2, <3>4, <4>2 DEF OldCodeIsExplained, Stands, processVars
      <4> QED
        BY <4>1, <4>3 DEF UpdateInv
    <3> QED
      BY <3>1, <3>3, <3>4
  <2>5. ASSUME NEW u \in UpdateRequests, AnswerUpdated(u) PROVE UpdateInv'
    <3>1. /\ AnswersWith(u, "updated") /\ leaving' = (leaving \/ restarts = "on")
          /\ UNCHANGED <<deployment, restarts, checkout, upstreamHead, fetched, operatorVars, running, unseen>>
      BY <2>5 DEF AnswerUpdated, Scheduled
    <3>2. update' \in [UpdateRequests -> UpdateRecords]
      BY <2>0, <2>14, <3>1, RequestAnswered
    <3>3. SelfUpdateTypeOK' /\ UpdateKeepsWork'
      BY <2>0, <3>1, <3>2 DEF SelfUpdateTypeOK, UpdateKeepsWork, UpdateRecords, operatorVars
    <3>4. OldCodeIsExplained'
      BY <3>1 DEF OldCodeIsExplained
    <3> QED
      BY <3>3, <3>4 DEF UpdateInv
  <2>6. ASSUME ProcessStarts(checkout.base), 
               \/ checkout' = checkout /\ unseen' = unseen
               \/ FastForwards /\ unseen' = TRUE,
               fetched' \in 0..LastCommit
        PROVE  UpdateInv'
    <3>1. /\ running' = checkout.base /\ leaving' = FALSE
          /\ UNCHANGED <<deployment, restarts, upstreamHead, operatorVars>>
          /\ update' = [u \in UpdateRequests |->
                    IF update[u].at \in {"idle", "answered"} THEN update[u]
                    ELSE [update[u] EXCEPT !.at = "lost"]]
      BY <2>6 DEF ProcessStarts
    <3>2. update' \in [UpdateRequests -> UpdateRecords]
      <4>1. ASSUME NEW u \in UpdateRequests PROVE [update[u] EXCEPT !.at = "lost"] \in UpdateRecords
        BY <2>0 DEF UpdateRecords, UpdatePlaces
      <4> QED
        BY <2>0, <3>1, <4>1
    <3>3. SelfUpdateTypeOK' /\ UpdateKeepsWork'
      BY <2>0, <2>6, <3>1, <3>2, PullStaysTyped
         DEF SelfUpdateTypeOK, UpdateKeepsWork, UpdateRecords, operatorVars
    <3>4. OldCodeIsExplained'
      BY <2>0, <2>6, <3>1 DEF OldCodeIsExplained
    <3> QED
      BY <3>3, <3>4 DEF UpdateInv
  <2>7. CASE LeaveForNewCode
    <3>1. ProcessStarts(checkout.base)
      BY <2>7 DEF LeaveForNewCode
    <3>2. \/ UNCHANGED <<checkout, fetched, unseen>>
          \/ FastForwards /\ fetched' = PullFetches /\ unseen' = TRUE
      BY <2>7 DEF LeaveForNewCode
    <3>3. fetched' \in 0..LastCommit
      BY <2>0, <3>2, PullStaysTyped
    <3>4. \/ checkout' = checkout /\ unseen' = unseen
          \/ FastForwards /\ unseen' = TRUE
      BY <3>2
    <3> QED
      BY <2>6, <3>1, <3>3, <3>4
  <2>8. CASE StartAgain
    <3>1. ProcessStarts(checkout.base) /\ UNCHANGED <<checkout, fetched, unseen>>
      BY <2>8 DEF StartAgain
    <3>2. fetched' \in 0..LastCommit
      BY <2>0, <3>1
    <3>3. checkout' = checkout /\ unseen' = unseen
      BY <3>1
    <3> QED
      BY <2>6, <3>1, <3>2, <3>3
  <2>9. CASE UpstreamGrows
    BY <2>0, <2>9 DEF UpstreamGrows, UpdateInv, SelfUpdateTypeOK, UpdateKeepsWork, OldCodeIsExplained,
                      operatorVars, processVars, Stands
  <2>10. ASSUME EditTree \/ CleanTree \/ CommitEdits PROVE UpdateInv'
    <3>1. checkout'.base = checkout.base /\ checkout'.merged = checkout.merged
      BY <2>0, <2>10 DEF EditTree, CleanTree, CommitEdits
    <3>2. /\ checkout'.own = mine' /\ (draft' => checkout'.dirty)
          /\ checkout' \in [base : 0..LastCommit, own : 0..LastOwn, merged : BOOLEAN, dirty : BOOLEAN]
          /\ mine' \in 0..LastOwn /\ draft' \in BOOLEAN
      <4>1. CASE EditTree
        BY <2>0, <4>1 DEF EditTree, UpdateKeepsWork
      <4>2. CASE CleanTree
        BY <2>0, <4>2 DEF CleanTree, UpdateKeepsWork
      <4>3. CASE CommitEdits
        <5>1. /\ mine < LastOwn /\ mine' = mine + 1 /\ draft' = FALSE
              /\ checkout' = [checkout EXCEPT !.own = @ + 1, !.dirty = FALSE]
          BY <4>3 DEF CommitEdits
        <5>2. checkout' = [base |-> checkout.base, own |-> checkout.own + 1,
                           merged |-> checkout.merged, dirty |-> FALSE]
          BY <2>0, <5>1
        <5>3. checkout.own = mine
          BY <2>0 DEF UpdateKeepsWork
        <5>4. mine + 1 \in 0..LastOwn /\ checkout.own + 1 = mine + 1
          BY <2>0, <5>1, <5>3
        <5>5. checkout' \in [base : 0..LastCommit, own : 0..LastOwn, merged : BOOLEAN, dirty : BOOLEAN]
          BY <2>0, <5>2, <5>4
        <5> QED
          BY <5>1, <5>2, <5>4, <5>5
      <4> QED
        BY <2>10, <4>1, <4>2, <4>3
    <3>3. UNCHANGED <<deployment, restarts, upstreamHead, fetched, update, processVars, unseen>>
      BY <2>10 DEF EditTree, CleanTree, CommitEdits
    <3>4. SelfUpdateTypeOK' /\ UpdateKeepsWork'
      BY <2>0, <3>1, <3>2, <3>3 DEF SelfUpdateTypeOK, UpdateKeepsWork, UpdateRecords, processVars
    <3>5. OldCodeIsExplained'
      BY <2>0, <3>1, <3>3 DEF OldCodeIsExplained, Stands, processVars
    <3> QED
      BY <3>4, <3>5 DEF UpdateInv
  <2>11. CASE UNCHANGED updateVars
    BY <2>0, <2>11 DEF updateVars, UpdateInv, SelfUpdateTypeOK, UpdateKeepsWork, OldCodeIsExplained,
                       operatorVars, processVars, Stands
  <2> QED
    BY <2>2, <2>3, <2>4, <2>5, <2>7, <2>8, <2>9, <2>10, <2>11 DEF UpdateNext
<1>3. UpdateInv => SelfUpdateTypeOK /\ UpdateIsHonest
  BY DEF UpdateInv, UpdateIsHonest
<1> QED
  BY <1>1, <1>2, <1>3, PTL DEF UpdateSpec

-------------------------------------------------------------------------------
(***************************************************************************)
(* The build engine: attempts, what they change and what verifies them      *)
(***************************************************************************)

\* What RunPlan goes through: the files, and what was recorded, after each operation
IsRunOf(g, t, operations, n) ==
    g = [i \in 0..n |-> IF i = 0 THEN [files |-> t, ok |-> TRUE, results |-> <<>>]
                       ELSE NextOperation(g[i - 1], operations[i])]

\* There is one, whatever the length of the plan: otherwise there were a shortest prefix of it
\* without one.
LEMMA StepsExist ==
    ASSUME NEW t, NEW operations, NEW n \in Nat
    PROVE  \E g : IsRunOf(g, t, operations, n)
<1> DEFINE base == [files |-> t, ok |-> TRUE, results |-> <<>>]
           Body(g, i) == IF i = 0 THEN base ELSE NextOperation(g[i - 1], operations[i])
           Reaches(k) == \E g : g = [i \in 0..k |-> Body(g, i)]
           Bad == {k \in 0..n : ~Reaches(k)}
<1>0. \A g, k : IsRunOf(g, t, operations, k) <=> g = [i \in 0..k |-> Body(g, i)]
  BY DEF IsRunOf
<1>1. SUFFICES ASSUME Bad # {} PROVE FALSE
  <2>1. Reaches(n) => \E g : IsRunOf(g, t, operations, n)
    <3> HIDE DEF Body
    <3> QED
      BY <1>0
  <2>2. Bad = {} => Reaches(n)
    <3> HIDE DEF Reaches
    <3> QED
      OBVIOUS
  <2> QED
    BY <2>1, <2>2
<1>2. PICK k \in Bad : \A j \in Bad : k <= j
  <2>1. Bad \subseteq Nat
    OBVIOUS
  <2> HIDE DEF Bad
  <2> QED
    BY <1>1, <2>1, LeastNumber
<1>3. Reaches(0)
  <2> DEFINE g == [i \in 0..0 |-> base]
  <2>1. g = [i \in 0..0 |-> Body(g, i)]
    <3>1. \A i \in 0..0 : Body(g, i) = base
      OBVIOUS
    <3> HIDE DEF Body
    <3> QED
      BY <3>1
  <2> QED
    BY <2>1
<1>4. k \in 1..n /\ k - 1 \in 0..n /\ k - 1 \in Nat /\ k \in Nat
  <2>1. k \in 0..n /\ ~Reaches(k)
    BY <1>2
  <2> HIDE DEF Reaches
  <2>2. k # 0
    BY <1>3, <2>1
  <2> QED
    BY <2>1, <2>2
<1>5. Reaches(k - 1)
  <2>1. k - 1 \notin Bad
    <3>1. \A j \in Bad : k <= j
      BY <1>2
    <3> HIDE DEF Bad
    <3> QED
      BY <1>4, <3>1
  <2> HIDE DEF Reaches
  <2> QED
    BY <1>4, <2>1
<1>6. PICK g : g = [i \in 0..k - 1 |-> Body(g, i)]
  BY <1>5
<1> DEFINE h == [i \in 0..k |-> IF i < k THEN g[i] ELSE NextOperation(g[k - 1], operations[k])]
<1>7. ASSUME NEW i \in 0..k PROVE h[i] = Body(h, i)
  <2>1. CASE i = 0
    BY <1>4, <1>6, <2>1
  <2>2. CASE i # 0 /\ i < k
    <3>1. i \in 0..k - 1 /\ i - 1 \in 0..k - 1 /\ i - 1 < k /\ i - 1 \in 0..k
      BY <1>4, <2>2
    <3>2. h[i] = g[i] /\ h[i - 1] = g[i - 1]
      BY <2>2, <3>1
    <3>3. g[i] = Body(g, i)
      BY <1>6, <3>1
    <3> QED
      BY <2>2, <3>2, <3>3
  <2>3. CASE i = k
    <3>1. k # 0 /\ k - 1 \in 0..k /\ k - 1 < k /\ ~(k < k)
      BY <1>4
    <3>2. h[k] = NextOperation(g[k - 1], operations[k]) /\ h[k - 1] = g[k - 1]
      BY <3>1
    <3> QED
      BY <2>3, <3>1, <3>2
  <2> QED
    BY <1>4, <2>1, <2>2, <2>3
<1>8. h = [i \in 0..k |-> Body(h, i)]
  <2>1. DOMAIN h = 0..k /\ h = [i \in 0..k |-> h[i]]
    OBVIOUS
  <2> HIDE DEF h, Body
  <2> QED
    BY <1>7, <2>1
<1>9. Reaches(k)
  <2> HIDE DEF h
  <2> QED
    BY <1>8
<1> QED
  BY <1>2, <1>9

\* RunPlan is where they end.
LEMMA PlanIsRunInSteps ==
    ASSUME NEW t, NEW operations, Len(operations) \in Nat
    PROVE  \E g : /\ IsRunOf(g, t, operations, Len(operations))
                 /\ RunPlan(t, operations) = g[Len(operations)]
<1>1. \E g : IsRunOf(g, t, operations, Len(operations))
  BY StepsExist
<1>2. RunPlan(t, operations)
        = (CHOOSE g : IsRunOf(g, t, operations, Len(operations)))[Len(operations)]
  BY DEF RunPlan, IsRunOf
<1> QED
  BY <1>1, <1>2

\* What an operation may touch
PathsOf(o) == {o.path} \cup (IF o.type = "move_file" THEN {o.source} ELSE {})

\* Putting a text at a path leaves every other path alone.
LEMMA PutKeeps ==
    ASSUME NEW t, DOMAIN t = Files, NEW f, NEW text
    PROVE  /\ DOMAIN Put(t, f, text).files = Files
           /\ \A g \in Files : g # f => Put(t, f, text).files[g] = t[g]
  BY DEF Put, Done

\* An operation changes no file but those it names.
LEMMA AppliedKeeps ==
    ASSUME NEW t, DOMAIN t = Files, NEW o, o.type \in OperationTypes
    PROVE  /\ DOMAIN Applied(t, o).files = Files
           /\ \A g \in Files : g \notin PathsOf(o) => Applied(t, o).files[g] = t[g]
<1> DEFINE Keeps(done) == /\ DOMAIN done.files = Files
                          /\ \A g \in Files : g \notin PathsOf(o) => done.files[g] = t[g]
<1>1. Keeps(Noop(t)) /\ Keeps(Failing(t))
  BY DEF Noop, Failing, Done
<1>2. ASSUME NEW text PROVE Keeps(Put(t, o.path, text))
  BY PutKeeps DEF PathsOf
<1> HIDE DEF Keeps
<1>3. Keeps(WriteFile(t, o)) /\ Keeps(AppendText(t, o)) /\ Keeps(DeleteFile(t, o))
  BY <1>1, <1>2 DEF WriteFile, AppendText, DeleteFile
<1>4. Keeps(ReplaceText(t, o)) /\ Keeps(DeleteText(t, o))
  BY <1>1, <1>2 DEF ReplaceText, DeleteText
<1>5. Keeps(InsertBefore(t, o)) /\ Keeps(InsertAfter(t, o))
  BY <1>1, <1>2 DEF InsertBefore, InsertAfter, Insert
<1>6. Keeps(CopyFile(t, o)) /\ Keeps(JsonSet(t, o))
  BY <1>1, <1>2 DEF CopyFile, JsonSet
<1>7. CASE o.type = "move_file"
  <2>1. Keeps(Done("applied", [t EXCEPT ![o.path] = t[o.source], ![o.source] = NoFile]))
    BY <1>7 DEF Keeps, Done, PathsOf
  <2>2. Keeps(MoveFile(t, o))
    BY <1>1, <2>1 DEF MoveFile
  <2>3. Keeps(Applied(t, o))
    BY <1>1, <1>7, <2>2 DEF Applied
  <2> QED
    BY <2>3 DEF Keeps
<1>8. CASE o.type # "move_file"
  <2>1. CASE Outside \in {o.path, o.source}
    BY <1>1, <2>1 DEF Applied, Keeps
  <2>2. CASE Outside \notin {o.path, o.source}
    <3>1. Applied(t, o) \in {WriteFile(t, o), AppendText(t, o), ReplaceText(t, o),
                             InsertBefore(t, o), InsertAfter(t, o), DeleteText(t, o),
                             CopyFile(t, o), JsonSet(t, o), DeleteFile(t, o)}
      BY <1>8, <2>2 DEF Applied, OperationTypes
    <3>2. Keeps(Applied(t, o))
      BY <1>3, <1>4, <1>5, <1>6, <3>1
    <3> QED
      BY <3>2 DEF Keeps
  <2> QED
    BY <2>1, <2>2
<1> QED
  BY <1>7, <1>8

\* A plan changes no file but those it names, wherever it stops.
LEMMA PlanKeeps ==
    ASSUME NEW t, DOMAIN t = Files, NEW q \in Requests
    PROVE  /\ DOMAIN RunPlan(t, q.plan).files = Files
           /\ \A f \in Files \ Named(q.plan) : RunPlan(t, q.plan).files[f] = t[f]
<1> DEFINE n == Len(q.plan)
           Keeps(s) == /\ DOMAIN s.files = Files
                       /\ \A f \in Files \ Named(q.plan) : s.files[f] = t[f]
<1>1. /\ n \in Nat /\ DOMAIN q.plan = 1..n
      /\ \A i \in 1..n : q.plan[i].type \in OperationTypes
  BY EngineAssumption DEF ValidOperation
<1>2. PICK g : /\ IsRunOf(g, t, q.plan, n)
               /\ RunPlan(t, q.plan) = g[n]
  BY <1>1, PlanIsRunInSteps
<1>3. /\ g[0] = [files |-> t, ok |-> TRUE, results |-> <<>>]
      /\ \A i \in 1..n : g[i] = NextOperation(g[i - 1], q.plan[i])
  <2> HIDE DEF n
  <2>1. 0 \in 0..n /\ \A i \in 1..n : i \in 0..n /\ i # 0
    BY <1>1
  <2>2. \A i \in 0..n : g[i] = IF i = 0 THEN [files |-> t, ok |-> TRUE, results |-> <<>>]
                               ELSE NextOperation(g[i - 1], q.plan[i])
    BY <1>2, Zenon DEF IsRunOf
  <2> QED
    BY <2>1, <2>2
<1> HIDE DEF n
<1>4. Keeps(g[0])
  BY <1>3
<1>5. ASSUME NEW i \in 1..n, Keeps(g[i - 1]) PROVE Keeps(g[i])
  <2> DEFINE s == g[i - 1]
             o == q.plan[i]
  <2>1. g[i] = NextOperation(s, o) /\ o.type \in OperationTypes
    BY <1>1, <1>3
  <2>2. PathsOf(o) \subseteq Named(q.plan)
    BY <1>1 DEF PathsOf, Named
  <2>3. CASE ~s.ok
    BY <1>5, <2>1, <2>3 DEF NextOperation
  <2>4. CASE s.ok
    <3>1. g[i].files = Applied(s.files, o).files
      BY <2>1, <2>4 DEF NextOperation
    <3>2. /\ DOMAIN Applied(s.files, o).files = Files
          /\ \A f \in Files : f \notin PathsOf(o) => Applied(s.files, o).files[f] = s.files[f]
      BY <1>5, <2>1, AppliedKeeps
    <3> QED
      BY <1>5, <2>2, <3>1, <3>2
  <2> QED
    BY <2>3, <2>4
<1>6. \A i \in 0..n : Keeps(g[i])
  <2> DEFINE Bad == {i \in 0..n : ~Keeps(g[i])}
  <2>1. SUFFICES ASSUME Bad # {} PROVE FALSE
    OBVIOUS
  <2> HIDE DEF Keeps
  <2>2. Bad \subseteq Nat
    OBVIOUS
  <2>3. PICK i \in Bad : \A j \in Bad : i <= j
    <3> HIDE DEF Bad
    <3> QED
      BY <2>1, <2>2, LeastNumber
  <2>4. i \in 1..n /\ i - 1 \in 0..n /\ i - 1 < i
    BY <1>1, <1>4, <2>3
  <2>5. Keeps(g[i - 1])
    BY <2>3, <2>4
  <2> QED
    BY <1>5, <2>3, <2>4, <2>5
<1> QED
  BY <1>1, <1>2, <1>6

\* A job's fields: every step keeps them, and assigns some.
JobFields == {"status", "request", "attempt", "skip", "planned", "mode", "results", "built",
              "suite", "changes", "report", "accepted"}
JobShape(j) == j = [x \in JobFields |-> j[x]]

\* The workspace is the repository as it was synced, but for the paths the plan names.
TreeIsExplained == \A f \in Files \ Named(job.request.plan) : tree[f] = Synced(synced)[f]

\* Results are of a build that was made, and there are none yet when a model writes the plan
\* or when the first attempt begins; afterwards there are some.
ResultsInOrder ==
    /\ DOMAIN job.suite # {} => job.built /\ job.planned
    /\ reached = "built" => job.built /\ job.planned
    /\ reached \in {"idle", "building"} => DOMAIN job.suite = {}
    /\ reached = "workspace" /\ ~job.skip /\ ~brought => DOMAIN job.suite = {}
    /\ reached = "judging" => DOMAIN job.suite # {}

\* A suite that passed, and that was not brought here, speaks of the files there are.
PassedIsOfTree ==
    ~brought => /\ DOMAIN job.suite # {} /\ Passed(job.suite) => checked = tree
                /\ reached = "judging" => checked = tree

\* What acceptance rests on
VerifiedJob(j) == DOMAIN j.suite # {} /\ (Passed(j.suite) \/ AllOptional(j.request))

\* An acceptance is of the suite there is, but while a suite that replaces another is judged.
AcceptedIsVerified == job.accepted /\ (job.skip \/ reached # "judging") => VerifiedJob(job)

CompletedIsVerified ==
    job.status = "completed" =>
        reached = "ended" /\ VerifiedJob(job) /\ (~brought => checked = tree)

EngineInv ==
    /\ EngineTypeOK /\ JobShape(job)
    /\ TreeIsExplained /\ ChangesAreExplained
    /\ ResultsInOrder /\ PassedIsOfTree /\ AcceptedIsVerified /\ CompletedIsVerified

\* Every workspace has a check to run, and no suite is empty.
LEMMA SuitesCheckSomething ==
    ASSUME NEW t, NEW s \in Suites(t)
    PROVE  DOMAIN s # {} /\ DOMAIN s \subseteq Checks
<1>1. DOMAIN s = Discovered(t)
  BY DEF Suites
<1>2. Defaults[1] \in Checks /\ Range(Defaults) \subseteq Checks
  BY EngineAssumption DEF Range
<1>3. Discovered(t) # {} /\ Discovered(t) \subseteq Checks
  <2> DEFINE found == {c \in Range(Defaults) \cup {"typecheck"} : Surfaced(t, c)}
  <2>1. Discovered(t) = IF found = {} THEN {Defaults[1]} ELSE found
    BY DEF Discovered
  <2>2. found \subseteq Checks
    BY <1>2 DEF Checks
  <2> HIDE DEF found
  <2> QED
    BY <1>2, <2>1, <2>2
<1> QED
  BY <1>1, <1>3

\* Criteria accept a build whose checks failed only when none of them is required.
LEMMA AcceptanceRests ==
    ASSUME NEW j, NEW t, NEW a \in Acceptances(j, t)
    PROVE  /\ a \in BOOLEAN
           /\ a => Passed(j.suite) \/ AllOptional(j.request)
<1>1. CASE j.request.criteria = <<>>
  <2>1. a = Passed(j.suite)
    BY <1>1 DEF Acceptances
  <2> QED
    BY <2>1 DEF Passed
<1>2. CASE j.request.criteria # <<>>
  <2> DEFINE required == {i \in DOMAIN j.request.criteria : j.request.criteria[i].required}
             may(i) == IF Passed(j.suite) THEN Verdicts(j.request.criteria[i], j, t) ELSE {FALSE}
  <2>1. a \in {b \in BOOLEAN : IF b THEN \A i \in required : TRUE \in may(i)
                                ELSE \E i \in required : FALSE \in may(i)}
    BY <1>2 DEF Acceptances
  <2>2. a \in BOOLEAN /\ (a => \A i \in required : TRUE \in may(i))
    BY <2>1
  <2>3. a /\ ~Passed(j.suite) => required = {}
    BY <2>2
  <2>4. required = {} => AllOptional(j.request)
    BY <1>2 DEF AllOptional
  <2> QED
    BY <2>2, <2>3, <2>4
<1> QED
  BY <1>1, <1>2

\* Filing a job decides its status and nothing else.
LEMMA FiledJob ==
    ASSUME NEW j, JobShape(j), j.status \in {"running", "completed", "failed", "blocked"}
    PROVE  LET e == Final(j) IN
           /\ JobShape(e) /\ e.status \in {"completed", "failed", "blocked"}
           /\ e.status = "completed" => j.status = "completed" \/ (j.status = "running" /\ j.accepted)
           /\ e.request = j.request /\ e.attempt = j.attempt /\ e.skip = j.skip
           /\ e.planned = j.planned /\ e.mode = j.mode /\ e.built = j.built
           /\ e.suite = j.suite /\ e.changes = j.changes /\ e.accepted = j.accepted
<1>2. CASE j.status # "running"
  BY <1>2 DEF Final
<1>3. CASE j.status = "running"
  <2> DEFINE e == [j EXCEPT !.status = IF j.accepted THEN "completed" ELSE "failed"]
  <2>1. Final(j) = e
    BY <1>3 DEF Final
  <2>2. /\ JobShape(e) /\ e.status = IF j.accepted THEN "completed" ELSE "failed"
        /\ e.request = j.request /\ e.attempt = j.attempt /\ e.skip = j.skip
        /\ e.planned = j.planned /\ e.mode = j.mode /\ e.built = j.built
        /\ e.suite = j.suite /\ e.changes = j.changes /\ e.accepted = j.accepted
    BY DEF JobShape, JobFields
  <2> HIDE DEF e
  <2> QED
    BY <1>3, <2>1, <2>2
<1> QED
  BY <1>2, <1>3

\* The change set is explained by the plan, by what the sync leaves behind and by what the
\* owner did; and a completed build was verified as it stands (build/service.py), whatever
\* the plan, the checks, the criteria, the resumes and the clean-ups.
THEOREM BuildsAreExplained ==
    EngineSpec => [](EngineTypeOK /\ ContentIsExplained)
<1> USE EngineAssumption
<1>1. EngineInit => EngineInv
  <2> SUFFICES ASSUME EngineInit PROVE EngineInv
    OBVIOUS
  <2>1. PICK q \in Requests : job = NewJob(q)
    BY DEF EngineInit
  <2>2. /\ job.status = "running" /\ job.request = q /\ job.attempt = 1 /\ job.skip = FALSE
        /\ job.planned = ~q.written /\ job.mode = "marker" /\ job.built = FALSE
        /\ job.suite = NotChecked /\ job.changes = {} /\ job.accepted = FALSE
    BY <2>1 DEF NewJob
  <2>3. JobShape(job)
    BY <2>1 DEF NewJob, JobShape, JobFields
  <2>4. DOMAIN NotChecked = {}
    BY DEF NotChecked
  <2>5. DOMAIN Original = Files /\ DOMAIN Synced(Original) = Files
    BY DEF Synced
  <2>6. EngineTypeOK
    <3>1. 1 \in 1..MaxAttempts
      OBVIOUS
    <3> QED
      BY <2>2, <2>4, <2>5, <3>1 DEF EngineInit, EngineTypeOK
  <2>7. TreeIsExplained /\ ChangesAreExplained
    BY <2>2 DEF EngineInit, TreeIsExplained, ChangesAreExplained
  <2>8. ResultsInOrder /\ PassedIsOfTree /\ AcceptedIsVerified /\ CompletedIsVerified
    BY <2>2, <2>4 DEF EngineInit, ResultsInOrder, PassedIsOfTree, AcceptedIsVerified,
                     CompletedIsVerified
  <2> QED
    BY <2>3, <2>6, <2>7, <2>8 DEF EngineInv
<1>2. EngineInv /\ [EngineNext]_engineVars => EngineInv'
  <2> SUFFICES ASSUME EngineInv, [EngineNext]_engineVars PROVE EngineInv'
    OBVIOUS
  <2>0. /\ EngineTypeOK /\ JobShape(job)
        /\ TreeIsExplained /\ ChangesAreExplained
        /\ ResultsInOrder /\ PassedIsOfTree /\ AcceptedIsVerified /\ CompletedIsVerified
    BY DEF EngineInv
  <2>1. CASE RunBuild
    <3>1. /\ reached = "idle" /\ reached' = "workspace" /\ job' = job /\ tree' = Synced(repo)
          /\ synced' = repo /\ UNCHANGED <<repo, drift, checked, brought>> /\ onDisk' = TRUE
      BY <2>1 DEF RunBuild
    <3>2. EngineTypeOK'
      BY <2>0, <3>1 DEF EngineTypeOK, Synced
    <3>3. TreeIsExplained' /\ ChangesAreExplained'
      BY <2>0, <3>1 DEF TreeIsExplained, ChangesAreExplained
    <3>4. ResultsInOrder' /\ PassedIsOfTree' /\ AcceptedIsVerified' /\ CompletedIsVerified'
      BY <2>0, <3>1 DEF ResultsInOrder, PassedIsOfTree, AcceptedIsVerified, CompletedIsVerified
    <3> QED
      BY <2>0, <3>1, <3>2, <3>3, <3>4 DEF EngineInv
  <2>2. CASE WritePlan
    <3>0. /\ reached = "workspace" /\ ~job.planned
          /\ UNCHANGED <<repo, tree, onDisk, synced, drift, checked, brought>>
      BY <2>2 DEF WritePlan
    <3>1. DOMAIN job.suite = {} /\ job.status # "completed"
      BY <2>0, <3>0 DEF ResultsInOrder, CompletedIsVerified
    <3>2. CASE job' = [job EXCEPT !.planned = TRUE] /\ reached' = "building"
      <4>1. /\ JobShape(job') /\ job'.planned = TRUE /\ job'.status = job.status
            /\ job'.request = job.request /\ job'.attempt = job.attempt /\ job'.skip = job.skip
            /\ job'.mode = job.mode /\ job'.built = job.built /\ job'.suite = job.suite
            /\ job'.changes = job.changes /\ job'.accepted = job.accepted
        BY <2>0, <3>2 DEF JobShape, JobFields
      <4>2. EngineTypeOK'
        BY <2>0, <3>0, <3>2, <4>1 DEF EngineTypeOK
      <4>3. TreeIsExplained' /\ ChangesAreExplained'
        BY <2>0, <3>0, <4>1 DEF TreeIsExplained, ChangesAreExplained
      <4>4. ResultsInOrder' /\ PassedIsOfTree' /\ AcceptedIsVerified' /\ CompletedIsVerified'
        BY <2>0, <3>0, <3>1, <3>2, <4>1
           DEF ResultsInOrder, PassedIsOfTree, AcceptedIsVerified, CompletedIsVerified, VerifiedJob
      <4> QED
        BY <4>1, <4>2, <4>3, <4>4 DEF EngineInv
    <3>3. CASE End([job EXCEPT !.built = TRUE, !.status = "failed", !.accepted = FALSE])
      <4> DEFINE j == [job EXCEPT !.built = TRUE, !.status = "failed", !.accepted = FALSE]
      <4>1. /\ JobShape(j) /\ j.status = "failed" /\ j.request = job.request
            /\ j.attempt = job.attempt /\ j.skip = job.skip /\ j.planned = job.planned
            /\ j.mode = job.mode /\ j.built = TRUE /\ j.suite = job.suite
            /\ j.changes = job.changes /\ j.accepted = FALSE
        BY <2>0 DEF JobShape, JobFields
      <4>2. job' = Final(j) /\ reached' = "ended"
        BY <3>3 DEF End
      <4> HIDE DEF j
      <4>3. /\ JobShape(job') /\ job'.status \in {"failed", "blocked"} /\ job'.request = job.request
            /\ job'.attempt = job.attempt /\ job'.skip = job.skip /\ job'.planned = job.planned
            /\ job'.mode = job.mode /\ job'.built = TRUE /\ job'.suite = job.suite
            /\ job'.changes = job.changes /\ job'.accepted = FALSE
        BY <4>1, <4>2, FiledJob
      <4>4. EngineTypeOK'
        BY <2>0, <3>0, <4>2, <4>3 DEF EngineTypeOK
      <4>5. TreeIsExplained' /\ ChangesAreExplained'
        BY <2>0, <3>0, <4>3 DEF TreeIsExplained, ChangesAreExplained
      <4>6. ResultsInOrder' /\ PassedIsOfTree' /\ AcceptedIsVerified' /\ CompletedIsVerified'
        BY <2>0, <3>0, <3>1, <4>2, <4>3
           DEF ResultsInOrder, PassedIsOfTree, AcceptedIsVerified, CompletedIsVerified, VerifiedJob
      <4> QED
        BY <4>3, <4>4, <4>5, <4>6 DEF EngineInv
    <3> QED
      BY <2>2, <3>2, <3>3 DEF WritePlan
  <2>3. ASSUME NEW j, JobShape(j), j.status = "failed", j.request = job.request,
               j.attempt = job.attempt, j.skip = job.skip, j.planned = job.planned,
               j.mode = "engine" \/ j.mode = job.mode, j.built = job.built,
               j.suite = job.suite, j.changes = job.changes, j.accepted = job.accepted,
               End(j), tree' = tree \/ tree' = RunPlan(tree, job.request.plan).files,
               ~brought => tree' = tree \/ DOMAIN job.suite = {},
               reached # "judging", UNCHANGED <<repo, onDisk, synced, drift, checked, brought>>
        PROVE  EngineInv'
    <3>1. /\ JobShape(job') /\ job'.status \in {"failed", "blocked"} /\ job'.request = job.request
          /\ job'.attempt = job.attempt /\ job'.skip = job.skip /\ job'.planned = job.planned
          /\ job'.mode \in {"marker", "engine"} /\ job'.built = job.built /\ job'.suite = job.suite
          /\ job'.changes = job.changes /\ job'.accepted = job.accepted /\ reached' = "ended"
      BY <2>0, <2>3, FiledJob DEF End, EngineTypeOK
    <3>2. /\ DOMAIN tree' = Files
          /\ \A f \in Files \ Named(job.request.plan) : tree'[f] = tree[f]
      BY <2>0, <2>3, PlanKeeps DEF EngineTypeOK
    <3>3. EngineTypeOK'
      BY <2>0, <2>3, <3>1, <3>2 DEF EngineTypeOK
    <3>4. TreeIsExplained' /\ ChangesAreExplained'
      BY <2>0, <2>3, <3>1, <3>2 DEF TreeIsExplained, ChangesAreExplained
    <3>5. ResultsInOrder' /\ AcceptedIsVerified' /\ CompletedIsVerified'
      BY <2>0, <2>3, <3>1
         DEF ResultsInOrder, AcceptedIsVerified, CompletedIsVerified, VerifiedJob
    <3>6. PassedIsOfTree'
      BY <2>0, <2>3, <3>1 DEF PassedIsOfTree
    <3> QED
      BY <3>1, <3>3, <3>4, <3>5, <3>6 DEF EngineInv
  <2>4. CASE DockerBuild
    <3>0. reached = "building" /\ UNCHANGED <<repo, onDisk, synced, drift, checked, brought>>
      BY <2>4 DEF DockerBuild
    <3>1. DOMAIN job.suite = {}
      BY <2>0, <3>0 DEF ResultsInOrder
    <3>2. CASE LET ran == RunPlan(tree, job.request.plan)
               IN /\ tree' = ran.files
                  /\ End([job EXCEPT !.mode = "engine", !.results = ran.results,
                                     !.status = "failed"])
      <4> DEFINE ran == RunPlan(tree, job.request.plan)
                 j == [job EXCEPT !.mode = "engine", !.results = ran.results, !.status = "failed"]
      <4>1. /\ JobShape(j) /\ j.status = "failed" /\ j.request = job.request
            /\ j.attempt = job.attempt /\ j.skip = job.skip /\ j.planned = job.planned
            /\ j.mode = "engine" /\ j.built = job.built /\ j.suite = job.suite
            /\ j.changes = job.changes /\ j.accepted = job.accepted
        BY <2>0 DEF JobShape, JobFields
      <4>2. End(j) /\ tree' = ran.files
        BY <3>2
      <4> HIDE DEF j
      <4> QED
        BY <2>3, <3>0, <3>1, <4>1, <4>2
    <3>3. CASE UNCHANGED tree /\ End([job EXCEPT !.status = "failed"])
      <4> DEFINE j == [job EXCEPT !.status = "failed"]
      <4>1. /\ JobShape(j) /\ j.status = "failed" /\ j.request = job.request
            /\ j.attempt = job.attempt /\ j.skip = job.skip /\ j.planned = job.planned
            /\ j.mode = job.mode /\ j.built = job.built /\ j.suite = job.suite
            /\ j.changes = job.changes /\ j.accepted = job.accepted
        BY <2>0 DEF JobShape, JobFields
      <4>2. End(j) /\ tree' = tree
        BY <3>3
      <4> HIDE DEF j
      <4> QED
        BY <2>3, <3>0, <4>1, <4>2
    <3> QED
      BY <2>4, <3>2, <3>3 DEF DockerBuild
  <2>5. CASE HostBuild
    <3> DEFINE ran == RunPlan(tree, job.request.plan)
               j == [job EXCEPT !.mode = "engine", !.results = ran.results]
    <3>0. /\ reached = "workspace" /\ job.planned
          /\ UNCHANGED <<repo, onDisk, synced, drift, checked, brought>>
      BY <2>5 DEF HostBuild
    <3>1. job.status # "completed"
      BY <2>0, <3>0 DEF CompletedIsVerified
    <3>2. CASE Reused(job, "built")
      <4>1. job.built /\ reached' = "built" /\ UNCHANGED <<tree, job>>
        BY <2>5, <3>2 DEF HostBuild, Reused
      <4>2. EngineTypeOK'
        BY <2>0, <3>0, <4>1 DEF EngineTypeOK
      <4>3. TreeIsExplained' /\ ChangesAreExplained'
        BY <2>0, <3>0, <4>1 DEF TreeIsExplained, ChangesAreExplained
      <4>4. ResultsInOrder' /\ PassedIsOfTree' /\ AcceptedIsVerified' /\ CompletedIsVerified'
        BY <2>0, <3>0, <3>1, <4>1
           DEF ResultsInOrder, PassedIsOfTree, AcceptedIsVerified, CompletedIsVerified
      <4> QED
        BY <2>0, <4>1, <4>2, <4>3, <4>4 DEF EngineInv
    <3>3. CASE ~Reused(job, "built")
      <4>1. ~brought => DOMAIN job.suite = {}
        BY <2>0, <3>0, <3>3 DEF ResultsInOrder, Reused
      <4>2. CASE ran.ok
        <5>1. tree' = ran.files /\ job' = [j EXCEPT !.built = TRUE] /\ reached' = "built"
          BY <2>5, <3>3, <4>2 DEF HostBuild
        <5>2. /\ JobShape(job') /\ job'.planned = job.planned /\ job'.status = job.status
              /\ job'.request = job.request /\ job'.attempt = job.attempt /\ job'.skip = job.skip
              /\ job'.mode = "engine" /\ job'.built = TRUE /\ job'.suite = job.suite
              /\ job'.changes = job.changes /\ job'.accepted = job.accepted
          BY <2>0, <5>1 DEF JobShape, JobFields
        <5>3. /\ DOMAIN tree' = Files
              /\ \A f \in Files \ Named(job.request.plan) : tree'[f] = tree[f]
          BY <2>0, <5>1, PlanKeeps DEF EngineTypeOK
        <5>4. EngineTypeOK'
          BY <2>0, <3>0, <5>1, <5>2, <5>3 DEF EngineTypeOK
        <5>5. TreeIsExplained' /\ ChangesAreExplained'
          BY <2>0, <3>0, <5>2, <5>3 DEF TreeIsExplained, ChangesAreExplained
        <5>6. ResultsInOrder'
          BY <2>0, <3>0, <5>1, <5>2 DEF ResultsInOrder
        <5>8. AcceptedIsVerified' /\ CompletedIsVerified'
          BY <2>0, <3>0, <3>1, <5>1, <5>2
             DEF AcceptedIsVerified, CompletedIsVerified, VerifiedJob
        <5>7. PassedIsOfTree'
          BY <2>0, <3>0, <4>1, <5>1, <5>2 DEF PassedIsOfTree
        <5> QED
          BY <5>2, <5>4, <5>5, <5>6, <5>8, <5>7 DEF EngineInv
      <4>3. CASE ~ran.ok
        <5> DEFINE failing == [j EXCEPT !.status = "failed"]
        <5>1. tree' = ran.files /\ End(failing)
          BY <2>5, <3>3, <4>3 DEF HostBuild
        <5>2. /\ JobShape(failing) /\ failing.status = "failed" /\ failing.request = job.request
              /\ failing.attempt = job.attempt /\ failing.skip = job.skip
              /\ failing.planned = job.planned /\ failing.mode = "engine"
              /\ failing.built = job.built /\ failing.suite = job.suite
              /\ failing.changes = job.changes /\ failing.accepted = job.accepted
          BY <2>0 DEF JobShape, JobFields
        <5> HIDE DEF failing
        <5> QED
          BY <2>3, <3>0, <4>1, <5>1, <5>2
      <4> QED
        BY <4>2, <4>3
    <3> QED
      BY <3>2, <3>3
  <2>6. CASE Verify
    <3>0. /\ reached = "built" /\ reached' = "judging"
          /\ UNCHANGED <<repo, tree, onDisk, synced>> /\ drift' = ChangeSet(repo, synced)
          /\ checked' = IF Reused(job, "verified") THEN checked ELSE tree
          /\ brought' = (brought /\ Reused(job, "verified"))
      BY <2>6 DEF Verify
    <3>1. PICK suite \in IF Reused(job, "verified") THEN {job.suite} ELSE Suites(tree) :
             job' = [job EXCEPT !.suite = suite, !.changes = ChangeSet(repo, tree)]
      BY <2>6 DEF Verify
    <3>3. /\ JobShape(job') /\ job'.planned = job.planned /\ job'.status = job.status
          /\ job'.request = job.request /\ job'.attempt = job.attempt /\ job'.skip = job.skip
          /\ job'.mode = job.mode /\ job'.built = job.built /\ job'.suite = suite
          /\ job'.changes = ChangeSet(repo, tree) /\ job'.accepted = job.accepted
      BY <2>0, <3>1 DEF JobShape, JobFields
    <3>4. DOMAIN suite # {} /\ DOMAIN suite \subseteq Checks
      <4>1. CASE Reused(job, "verified")
        BY <2>0, <3>1, <4>1 DEF Reused, EngineTypeOK
      <4>2. CASE ~Reused(job, "verified")
        BY <3>1, <4>2, SuitesCheckSomething
      <4> QED
        BY <4>1, <4>2
    <3>5. EngineTypeOK'
      <4>1. ChangeSet(repo, tree) \subseteq Files /\ ChangeSet(repo, synced) \subseteq Files
        BY DEF ChangeSet
      <4>2. DOMAIN checked' = Files /\ brought' \in BOOLEAN
        BY <2>0, <3>0 DEF EngineTypeOK
      <4> HIDE DEF ChangeSet
      <4> QED
        BY <2>0, <3>0, <3>3, <3>4, <4>1, <4>2 DEF EngineTypeOK
    <3>6. TreeIsExplained' /\ ChangesAreExplained'
      <4>1. TreeIsExplained'
        BY <2>0, <3>0, <3>3 DEF TreeIsExplained
      <4>2. ASSUME NEW f \in ChangeSet(repo, tree), f \notin Named(job.request.plan),
                   f \notin LeftBehind
            PROVE  f \in ChangeSet(repo, synced)
        <5>1. f \in Files /\ repo[f] # tree[f]
          BY <4>2 DEF ChangeSet
        <5>2. tree[f] = synced[f]
          BY <2>0, <4>2, <5>1 DEF TreeIsExplained, Synced
        <5> QED
          BY <5>1, <5>2 DEF ChangeSet
      <4>3. job'.changes \subseteq Named(job'.request.plan) \cup LeftBehind \cup drift'
        BY <3>0, <3>3, <4>2
      <4> QED
        BY <4>1, <4>3 DEF ChangesAreExplained
    <3>7. Reused(job, "verified") => suite = job.suite /\ Passed(suite) /\ job.skip
      BY <3>1 DEF Reused
    <3>8. ResultsInOrder'
      BY <2>0, <3>0, <3>3, <3>4 DEF ResultsInOrder
    <3>9. PassedIsOfTree'
      <4>1. CASE Reused(job, "verified")
        BY <2>0, <3>0, <3>3, <3>4, <3>7, <4>1 DEF PassedIsOfTree
      <4>2. CASE ~Reused(job, "verified")
        BY <3>0, <4>2 DEF PassedIsOfTree
      <4> QED
        BY <4>1, <4>2
    <3>10. AcceptedIsVerified'
      <4> SUFFICES ASSUME job.accepted, job.skip PROVE VerifiedJob(job')
        BY <3>0, <3>3 DEF AcceptedIsVerified
      <4>1. VerifiedJob(job)
        BY <2>0 DEF AcceptedIsVerified
      <4>2. Reused(job, "verified") <=> DOMAIN job.suite # {} /\ Passed(job.suite)
        BY DEF Reused
      <4> QED
        BY <3>3, <3>4, <3>7, <4>1, <4>2 DEF VerifiedJob
    <3>11. CompletedIsVerified'
      BY <2>0, <3>0, <3>3 DEF CompletedIsVerified
    <3> QED
      BY <3>3, <3>5, <3>6, <3>8, <3>9, <3>10, <3>11 DEF EngineInv
  <2>7. CASE Judge
    <3>0. reached = "judging" /\ UNCHANGED <<repo, tree, onDisk, synced, drift, checked, brought>>
      BY <2>7 DEF Judge
    <3>1. job.status # "completed" /\ DOMAIN job.suite # {} /\ (~brought => checked = tree)
      BY <2>0, <3>0 DEF CompletedIsVerified, ResultsInOrder, PassedIsOfTree
    <3>2. ASSUME NEW j, JobShape(j), End(j), j.status \in {job.status, "failed", "blocked"},
                 j.request = job.request, j.attempt = job.attempt, j.skip = job.skip,
                 j.planned = job.planned, j.mode = job.mode, j.built = job.built,
                 j.suite = job.suite, j.changes = job.changes, j.accepted \in BOOLEAN,
                 j.accepted => VerifiedJob(job)
          PROVE  EngineInv'
      <4>1. job.status \in {"running", "failed", "blocked"}
        BY <2>0, <3>1 DEF EngineTypeOK
      <4>2. job' = Final(j) /\ reached' = "ended"
        BY <3>2 DEF End
      <4>3. /\ JobShape(job') /\ job'.status \in {"completed", "failed", "blocked"}
            /\ job'.status = "completed" => j.accepted
            /\ job'.request = job.request /\ job'.attempt = job.attempt /\ job'.skip = job.skip
            /\ job'.planned = job.planned /\ job'.mode = job.mode /\ job'.built = job.built
            /\ job'.suite = job.suite /\ job'.changes = job.changes /\ job'.accepted = j.accepted
        BY <3>2, <4>1, <4>2, FiledJob
      <4>4. EngineTypeOK'
        BY <2>0, <3>0, <3>2, <4>2, <4>3 DEF EngineTypeOK
      <4>5. TreeIsExplained' /\ ChangesAreExplained'
        BY <2>0, <3>0, <4>3 DEF TreeIsExplained, ChangesAreExplained
      <4>6. VerifiedJob(job) => VerifiedJob(job')
        BY <4>3 DEF VerifiedJob
      <4>7. ResultsInOrder' /\ PassedIsOfTree'
        BY <2>0, <3>0, <3>1, <4>2, <4>3 DEF ResultsInOrder, PassedIsOfTree
      <4>8. AcceptedIsVerified' /\ CompletedIsVerified'
        BY <3>0, <3>1, <3>2, <4>2, <4>3, <4>6 DEF AcceptedIsVerified, CompletedIsVerified
      <4> QED
        BY <4>3, <4>4, <4>5, <4>7, <4>8 DEF EngineInv
    <3>3. CASE /\ Passed(job.suite) /\ job.request.gate # "none"
               /\ End([job EXCEPT !.status = "failed"])
      <4> DEFINE j == [job EXCEPT !.status = "failed"]
      <4>1. /\ JobShape(j) /\ j.status = "failed" /\ j.request = job.request
            /\ j.attempt = job.attempt /\ j.skip = job.skip /\ j.planned = job.planned
            /\ j.mode = job.mode /\ j.built = job.built /\ j.suite = job.suite
            /\ j.changes = job.changes /\ j.accepted = job.accepted
        BY <2>0 DEF JobShape, JobFields
      <4>2. End(j) /\ VerifiedJob(job) /\ job.accepted \in BOOLEAN
        BY <2>0, <3>1, <3>3 DEF VerifiedJob, EngineTypeOK
      <4> HIDE DEF j
      <4> QED
        BY <3>2, <4>1, <4>2
    <3>4. ASSUME NEW report, NEW a,
                 LET j == [job EXCEPT !.report = report,
                                      !.status = IF Blocks(job.request.gate, report)
                                                 THEN "blocked" ELSE @]
                 IN /\ a \in IF Reused(j, "accepted") THEN {TRUE} ELSE Acceptances(j, tree)
                    /\ End([j EXCEPT !.accepted = a])
          PROVE  EngineInv'
      <4> DEFINE st == IF Blocks(job.request.gate, report) THEN "blocked" ELSE job.status
                 j == [job EXCEPT !.report = report,
                                  !.status = IF Blocks(job.request.gate, report)
                                             THEN "blocked" ELSE @]
                 k == [j EXCEPT !.accepted = a]
      <4>1. a \in IF Reused(j, "accepted") THEN {TRUE} ELSE Acceptances(j, tree)
        BY <3>4
      <4>2. End(k)
        BY <3>4
      <4>4. st \in {job.status, "blocked"}
        OBVIOUS
      <4>5. /\ JobShape(j) /\ j.status = st /\ j.request = job.request
            /\ j.attempt = job.attempt /\ j.skip = job.skip /\ j.planned = job.planned
            /\ j.mode = job.mode /\ j.built = job.built /\ j.suite = job.suite
            /\ j.changes = job.changes /\ j.accepted = job.accepted
        BY <2>0 DEF JobShape, JobFields
      <4> HIDE DEF j, st
      <4>6. a \in BOOLEAN /\ (a => VerifiedJob(job))
        <5>1. CASE Reused(j, "accepted")
          <6>1. job.skip /\ job.accepted /\ a = TRUE
            BY <4>1, <4>5, <5>1 DEF Reused
          <6> QED
            BY <2>0, <6>1 DEF AcceptedIsVerified
        <5>2. CASE ~Reused(j, "accepted")
          <6>1. a \in BOOLEAN /\ (a => Passed(j.suite) \/ AllOptional(j.request))
            BY <4>1, <5>2, AcceptanceRests
          <6> QED
            BY <3>1, <4>5, <6>1 DEF VerifiedJob
        <5> QED
          BY <5>1, <5>2
      <4>7. /\ JobShape(k) /\ k.status = st /\ k.request = job.request
            /\ k.attempt = job.attempt /\ k.skip = job.skip /\ k.planned = job.planned
            /\ k.mode = job.mode /\ k.built = job.built /\ k.suite = job.suite
            /\ k.changes = job.changes /\ k.accepted = a
        BY <4>5 DEF JobShape, JobFields
      <4> HIDE DEF k
      <4> QED
        BY <3>2, <4>2, <4>4, <4>6, <4>7
    <3> QED
      BY <2>7, <3>3, <3>4 DEF Judge
  <2>8. ASSUME Resumable, NEW skip \in BOOLEAN, job' = Copied(job, skip), reached' = "workspace",
               UNCHANGED <<repo, drift, checked>>, onDisk' = TRUE, DOMAIN tree' = Files,
               DOMAIN synced' = Files, brought' \in BOOLEAN,
               ~brought' => skip /\ ~brought /\ tree' = tree,
               \A f \in Files \ Named(job.request.plan) : tree'[f] = Synced(synced')[f]
        PROVE  EngineInv'
    <3>2. /\ JobShape(job') /\ job'.planned = job.planned /\ job'.status = "running"
          /\ job'.request = job.request /\ job'.attempt = job.attempt + 1 /\ job'.skip = skip
          /\ job'.mode = job.mode /\ job'.built = job.built /\ job'.suite = job.suite
          /\ job'.changes = {} /\ job'.accepted = job.accepted
      BY <2>0, <2>8 DEF Copied, JobShape, JobFields
    <3>3. reached = "ended" /\ job.attempt < MaxAttempts
      BY <2>8 DEF Resumable
    <3>4. EngineTypeOK'
      BY <2>0, <2>8, <3>2, <3>3 DEF EngineTypeOK
    <3>5. TreeIsExplained' /\ ChangesAreExplained'
      BY <2>8, <3>2 DEF TreeIsExplained, ChangesAreExplained
    <3>6. ResultsInOrder' /\ PassedIsOfTree'
      BY <2>0, <2>8, <3>2 DEF ResultsInOrder, PassedIsOfTree
    <3>7. AcceptedIsVerified' /\ CompletedIsVerified'
      BY <2>0, <3>2, <3>3 DEF AcceptedIsVerified, CompletedIsVerified, VerifiedJob
    <3> QED
      BY <3>2, <3>4, <3>5, <3>6, <3>7 DEF EngineInv
  <2>9. CASE ResumeInPlace
    <3>1. /\ Resumable /\ onDisk /\ job' = Copied(job, TRUE) /\ reached' = "workspace"
          /\ UNCHANGED <<repo, tree, onDisk, synced, drift, checked, brought>>
      BY <2>9 DEF ResumeInPlace
    <3>2. onDisk' = TRUE /\ DOMAIN tree' = Files /\ DOMAIN synced' = Files /\ brought' \in BOOLEAN
      BY <2>0, <3>1 DEF EngineTypeOK
    <3>3. \A f \in Files \ Named(job.request.plan) : tree'[f] = Synced(synced')[f]
      BY <2>0, <3>1 DEF TreeIsExplained
    <3> QED
      BY <2>8, <3>1, <3>2, <3>3
  <2>10. CASE ResumeElsewhere
    <3>1. /\ Resumable /\ job' = Copied(job, FALSE) /\ reached' = "workspace"
          /\ tree' = Synced(repo) /\ synced' = repo /\ onDisk' = TRUE /\ brought' = TRUE
          /\ UNCHANGED <<repo, drift, checked>>
      BY <2>10 DEF ResumeElsewhere
    <3>2. DOMAIN tree' = Files /\ DOMAIN synced' = Files
      BY <2>0, <3>1 DEF EngineTypeOK, Synced
    <3> QED
      BY <2>8, <3>1, <3>2
  <2>11. CASE CleanUp
    <3>1. /\ onDisk' = FALSE
          /\ UNCHANGED <<repo, tree, job, reached, synced, drift, checked, brought>>
      BY <2>11 DEF CleanUp
    <3>2. EngineTypeOK'
      BY <2>0, <3>1 DEF EngineTypeOK
    <3>3. TreeIsExplained' /\ ChangesAreExplained'
      BY <2>0, <3>1 DEF TreeIsExplained, ChangesAreExplained
    <3>4. ResultsInOrder' /\ PassedIsOfTree' /\ AcceptedIsVerified' /\ CompletedIsVerified'
      BY <2>0, <3>1 DEF ResultsInOrder, PassedIsOfTree, AcceptedIsVerified, CompletedIsVerified
    <3> QED
      BY <2>0, <3>1, <3>2, <3>3, <3>4 DEF EngineInv
  <2>12. CASE OwnerWorks
    <3>1. /\ repo' \in Upstream
          /\ UNCHANGED <<tree, onDisk, job, reached, synced, drift, checked, brought>>
      BY <2>12 DEF OwnerWorks
    <3>2. EngineTypeOK'
      BY <2>0, <3>1 DEF EngineTypeOK
    <3>3. TreeIsExplained' /\ ChangesAreExplained'
      BY <2>0, <3>1 DEF TreeIsExplained, ChangesAreExplained
    <3>4. ResultsInOrder' /\ PassedIsOfTree' /\ AcceptedIsVerified' /\ CompletedIsVerified'
      BY <2>0, <3>1 DEF ResultsInOrder, PassedIsOfTree, AcceptedIsVerified, CompletedIsVerified
    <3> QED
      BY <2>0, <3>1, <3>2, <3>3, <3>4 DEF EngineInv
  <2>13. CASE UNCHANGED engineVars
    <3>1. UNCHANGED <<repo, tree, onDisk, job, reached, synced, drift, checked, brought>>
      BY <2>13 DEF engineVars
    <3>2. EngineTypeOK'
      BY <2>0, <3>1 DEF EngineTypeOK
    <3>3. TreeIsExplained' /\ ChangesAreExplained'
      BY <2>0, <3>1 DEF TreeIsExplained, ChangesAreExplained
    <3>4. ResultsInOrder' /\ PassedIsOfTree' /\ AcceptedIsVerified' /\ CompletedIsVerified'
      BY <2>0, <3>1 DEF ResultsInOrder, PassedIsOfTree, AcceptedIsVerified, CompletedIsVerified
    <3> QED
      BY <2>0, <3>1, <3>2, <3>3, <3>4 DEF EngineInv
  <2> QED
    BY <2>1, <2>2, <2>4, <2>5, <2>6, <2>7, <2>9, <2>10, <2>11, <2>12, <2>13 DEF EngineNext
<1>3. EngineInv => EngineTypeOK /\ ContentIsExplained
  BY DEF EngineInv, CompletedIsVerified, VerifiedJob, VerifiedAsItStands, ContentIsExplained
<1> QED
  BY <1>1, <1>2, <1>3, PTL DEF EngineSpec

-------------------------------------------------------------------------------
(***************************************************************************)
(* Reviews: the report, its delivery and what both say of the findings      *)
(***************************************************************************)

ReviewFields == {"intake", "repo", "status", "workspace", "report"}
IsReport(r) == r = [x \in {"findings", "verdict", "stated"} |-> r[x]]
\* Where no finding is left, the summary may still count critical ones that are gone.
StatesNoMore(r) == r.findings = {} => \A s \in Severities \ {"critical"} : r.stated[s] = 0
Judged(r) == r.verdict = Verdict(r.findings) /\ StatesNoMore(r)
Repeats(a, r) == a.kind = "trace" \/ (a.report.findings = r.findings /\ a.report.verdict = r.verdict)

\* The artifacts saved so far are the first of those the review has, and repeat its report.
SavedFor(r) ==
    /\ \E S : artifacts \in Seq(S)
    /\ Len(artifacts) <= Len(Outputs(r.findings))
    /\ \A n \in 1..Len(artifacts) :
          artifacts[n].kind = Outputs(r.findings)[n] /\ Repeats(artifacts[n], r)
WholeFor(r) ==
    /\ SavedFor(r) /\ Judged(r)
    /\ Len(artifacts) = Len(Outputs(r.findings)) /\ retentions = Len(artifacts)

NothingSaved == artifacts = <<>> /\ retentions = 0 /\ review.status # "completed"

ReviewShape == review = [x \in ReviewFields |-> review[x]] /\ IsReport(review.report)
AfterSaves == afterSave \in {"workspace", "close", "over", "unwind"}
BeforeSaving ==
    reviewStage \in {"idle", "workspace", "policy", "analyze"}
        \/ (reviewStage \in {"save", "sync"} /\ afterSave = "workspace")
    => NothingSaved
Saving ==
    reviewStage \in {"store", "retain"} =>
        /\ SavedFor(review.report) /\ Judged(review.report) /\ review.status # "completed"
        /\ reviewStage = "store" =>
              Len(artifacts) < Len(Outputs(review.report.findings)) /\ retentions = Len(artifacts)
        /\ reviewStage = "retain" => retentions + 1 = Len(artifacts)
CompletedReviewIsWhole ==
    review.status = "completed" =>
        /\ WholeFor(review.report) /\ reviewStage \in {"save", "sync", "close", "over"}
        /\ reviewStage \in {"save", "sync"} => afterSave = "close"
RowIsReview ==
    reviewRow.status = "completed" =>
        /\ review.status = "completed" /\ reviewRow.report = review.report
        /\ reviewStage \in {"sync", "close", "over"}
        /\ review.report.findings # {} => review.report.stated = Counts(review.report.findings)
DeliveryIsReview ==
    delivery # NoRequest =>
        /\ reviewRow.status = "completed"
        /\ delivery.findings = reviewRow.report.findings /\ delivery.verdict = reviewRow.report.verdict
        /\ delivery.quorum = 2 <=> HasCritical(reviewRow.report.findings)
        /\ delivery.artifacts = retentions

ReviewsInv ==
    /\ ReviewShape /\ AfterSaves /\ BeforeSaving /\ Saving
    /\ CompletedReviewIsWhole /\ RowIsReview /\ DeliveryIsReview

\* The artifacts of a review: five of them, or six with its findings.
LEMMA OutputsAreMany ==
    ASSUME NEW findings
    PROVE  /\ Outputs(findings) \in Seq(Kinds) /\ Len(Outputs(findings)) \in Nat \ {0}
           /\ Outputs(findings) = [n \in 1..Len(Outputs(findings)) |-> Outputs(findings)[n]]
<1>1. Outputs(findings) \in Seq(Kinds) /\ Len(Outputs(findings)) \in Nat \ {0}
  <2> DEFINE a == <<"markdown", "json", "trace">>
             b == IF findings = {} THEN <<>> ELSE <<"findings">>
             c == <<"operator_summary", "pr_comment">>
  <2>1. a \in Seq(Kinds) /\ Len(a) = 3 /\ c \in Seq(Kinds) /\ Len(c) = 2
    BY DEF Kinds
  <2>2. b \in Seq(Kinds) /\ Len(b) \in Nat
    <3>1. <<>> \in Seq(Kinds) /\ Len(<<>>) = 0
      OBVIOUS
    <3>2. <<"findings">> \in Seq(Kinds) /\ Len(<<"findings">>) = 1
      BY DEF Kinds
    <3> QED
      BY <3>1, <3>2
  <2>3. Outputs(findings) = a \o b \o c
    BY DEF Outputs
  <2> HIDE DEF a, b, c
  <2>4. \A s, t \in Seq(Kinds) : s \o t \in Seq(Kinds) /\ Len(s \o t) = Len(s) + Len(t)
    BY ConcatProperties
  <2> DEFINE ab == a \o b
  <2>5. ab \in Seq(Kinds) /\ Len(ab) = Len(a) + Len(b)
    BY <2>1, <2>2, <2>4
  <2> HIDE DEF ab
  <2>6. ab \o c \in Seq(Kinds) /\ Len(ab \o c) = Len(ab) + Len(c)
    BY <2>1, <2>4, <2>5
  <2>7. Outputs(findings) = ab \o c
    BY <2>3 DEF ab
  <2> QED
    BY <2>1, <2>2, <2>5, <2>6, <2>7
<1> QED
  BY <1>1

\* The samples among findings are secrets, and so critical.
SamplesAreSecrets(findings) == \A f \in findings : f.sample => f.severity = "critical"

\* Whatever the analyzers found: only a security pattern finds a sample, and a secret it is.
LEMMA AnalyzersFindSecrets ==
    ASSUME NEW r, NEW i, NEW git
    PROVE  /\ SamplesAreSecrets(Audit(r, i)) /\ SamplesAreSecrets(Release(r, i))
           /\ SamplesAreSecrets(PullRequest(r, git))
           /\ Audit(r, i) \subseteq Release(r, i)
<1>2. \A condition, about, severity : SamplesAreSecrets(Notice(condition, about, severity))
  BY DEF Finding, Notice, SamplesAreSecrets
<1>3. \A A, B : SamplesAreSecrets(A) /\ SamplesAreSecrets(B) => SamplesAreSecrets(A \cup B)
  BY DEF SamplesAreSecrets
<1>4. \A R, n : SamplesAreSecrets(Security(r, R, n))
  <2> SUFFICES ASSUME NEW R, NEW n, NEW f \in Security(r, R, n), f.sample
               PROVE  f.severity = "critical"
    BY DEF SamplesAreSecrets
  <2>1. PICK p, flaw : f = Finding(flaw, p, PatternSeverity(flaw),
                                   flaw \in {"mock secret", "sample secret"})
    BY DEF Security
  <2>2. flaw \in {"mock secret", "sample secret"} /\ f.severity = PatternSeverity(flaw)
    BY <2>1 DEF Finding
  <2> QED
    BY <2>2 DEF PatternSeverity, Secrets
<1>5. SamplesAreSecrets(Structure(r, i))
  <2> DEFINE seen == FirstListed(r, i.include \ (i.exclude \cup Hidden \cup Generated), i.maxFiles)
             large == {Finding("large file", f, "low", FALSE) : f \in seen \cap Oversized}
  <2>1. SamplesAreSecrets(large)
    <3>1. ASSUME NEW x \in large PROVE ~x.sample
      <4>1. PICK f : x = Finding("large file", f, "low", FALSE)
        BY <3>1
      <4> QED
        BY <4>1 DEF Finding
    <3> QED
      BY <3>1 DEF SamplesAreSecrets
  <2> DEFINE untested == seen \cap TestLike = {}
             absent == Notice(untested /\ ~i.scoped, "no tests", "high")
                       \cup Notice(untested /\ i.scoped, "no tests in scope", "low")
             missed == Notice(~r.ci, "no CI", "medium") \cup Notice(~r.readme, "no README", "low")
  <2>2. SamplesAreSecrets(absent) /\ SamplesAreSecrets(missed)
    BY <1>2, <1>3
  <2>3. Structure(r, i) = IF r.kind # "directory" THEN Notice(TRUE, "path not found", "critical")
                          ELSE absent \cup missed \cup large
    BY DEF Structure
  <2> HIDE DEF large, absent, missed, untested, seen
  <2>4. SamplesAreSecrets(absent \cup missed)
    BY <1>3, <2>2
  <2>5. SamplesAreSecrets((absent \cup missed) \cup large)
    BY <1>3, <2>1, <2>4
  <2> QED
    BY <1>2, <2>3, <2>5
<1>6. SamplesAreSecrets(Audit(r, i))
  BY <1>3, <1>4, <1>5 DEF Audit
<1>7. SamplesAreSecrets(Release(r, i)) /\ Audit(r, i) \subseteq Release(r, i)
  BY <1>2, <1>3, <1>6 DEF Release
<1>8. SamplesAreSecrets(Diff(r, git))
  BY <1>2, <1>3 DEF Diff
<1>9. SamplesAreSecrets({})
  BY DEF SamplesAreSecrets
<1>10. SamplesAreSecrets(PullRequest(r, git))
  BY <1>3, <1>4, <1>8, <1>9 DEF PullRequest
<1> QED
  BY <1>6, <1>7, <1>10

\* Of findings whose samples are secrets, what the verifier removes is critical, and the
\* verdict is that of those it left.
LEMMA ReportIsJudged ==
    ASSUME NEW findings, NEW counted \in SUBSET findings, SamplesAreSecrets(findings)
    PROVE  IsReport(Report(findings, counted)) /\ Judged(Report(findings, counted))
<1> DEFINE report == Report(findings, counted)
<1>1. /\ IsReport(report) /\ report.verdict = Verdict(report.findings)
      /\ report.findings = Verified(findings) /\ report.stated = Counts(counted)
  BY DEF Report, IsReport
<1>2. ASSUME Verified(findings) = {}, NEW s \in Severities \ {"critical"}
      PROVE  Counts(counted)[s] = 0
  <2>1. \A f \in findings : InTests(f) /\ f.sample
    BY <1>2 DEF Verified
  <2>2. {f \in counted : f.severity = s} = {}
    BY <1>2, <2>1 DEF SamplesAreSecrets
  <2> QED
    BY <2>2, FS_EmptySet DEF Counts
<1> HIDE DEF report
<1>3. StatesNoMore(report)
  BY <1>1, <1>2 DEF StatesNoMore
<1> QED
  BY <1>1, <1>3 DEF Judged, report

\* Whatever the analyzers found, the verdict is that of the findings the verifier left.
LEMMA ReportsAreJudged ==
    ASSUME NEW r, NEW i, NEW report \in ReportsOn(r, i)
    PROVE  IsReport(report) /\ Judged(report)
<1>1. CASE i.type = "repo_audit"
  BY <1>1, AnalyzersFindSecrets, ReportIsJudged DEF ReportsOn
<1>2. CASE i.type = "release_review"
  BY <1>2, AnalyzersFindSecrets, ReportIsJudged DEF ReportsOn
<1>3. CASE i.type # "repo_audit" /\ i.type # "release_review"
  <2>1. PICK git \in GitOutcomes(r) : report = Report(PullRequest(r, git), PullRequest(r, git))
    BY <1>3 DEF ReportsOn
  <2> QED
    BY <2>1, AnalyzersFindSecrets, ReportIsJudged
<1> QED
  BY <1>1, <1>2, <1>3

\* Saving the row touches neither the findings nor the verdict, and states the findings.
LEMMA RefreshedAgrees ==
    ASSUME NEW r, IsReport(r)
    PROVE  /\ IsReport(Refreshed(r))
           /\ Refreshed(r).findings = r.findings /\ Refreshed(r).verdict = r.verdict
           /\ r.findings # {} => Refreshed(r).stated = Counts(r.findings)
           /\ r.findings = {} => Refreshed(r) = r
  BY DEF Refreshed, IsReport

\* Two sign exactly if a critical finding is left.
LEMMA QuorumIsByCritical ==
    ASSUME NEW r, Judged(r)
    PROVE  QuorumFor(r) = 2 <=> HasCritical(r.findings)
<1>1. CASE HasCritical(r.findings)
  BY <1>1 DEF QuorumFor, Judged, Verdict
<1>2. CASE ~HasCritical(r.findings)
  <2>1. {f \in r.findings : f.severity = "critical"} = {}
    BY <1>2 DEF HasCritical
  <2>2. Cardinality({}) = 0
    BY FS_EmptySet
  <2>3. Counts(r.findings)["critical"] = 0
    BY <2>1, <2>2 DEF Counts, Severities
  <2>4. r.verdict # "fail"
    BY <1>2 DEF Judged, Verdict
  <2> QED
    BY <1>2, <2>3, <2>4 DEF QuorumFor
<1> QED
  BY <1>1, <1>2

\* What a completed row says of the artifacts is kept by every step that saves any of them.
LEMMA ReviewsInvariant == ReviewsSpec => []ReviewsInv
<1>1. ReviewsInit => ReviewsInv
  <2> SUFFICES ASSUME ReviewsInit PROVE ReviewsInv
    OBVIOUS
  <2>1. /\ review.status = "created" /\ review.report = EmptyReport
        /\ review = [x \in ReviewFields |-> review[x]]
    <3>1. \E i, r : review = [intake |-> i, repo |-> r, status |-> "created",
                             workspace |-> FALSE, report |-> EmptyReport]
      BY DEF ReviewsInit
    <3> QED
      BY <3>1 DEF ReviewFields
  <2>2. IsReport(EmptyReport)
    BY DEF IsReport, EmptyReport
  <2>3. /\ reviewRow.status = "none" /\ artifacts = <<>> /\ retentions = 0
        /\ reviewStage = "idle" /\ afterSave = "over" /\ delivery = NoRequest
    BY DEF ReviewsInit, NoReview
  <2> QED
    BY <2>1, <2>2, <2>3 DEF ReviewsInv, ReviewShape, AfterSaves, BeforeSaving, NothingSaved, Saving,
       CompletedReviewIsWhole, RowIsReview, DeliveryIsReview
<1>2. ReviewsInv /\ [ReviewsNext]_reviewVars => ReviewsInv'
  <2> SUFFICES ASSUME ReviewsInv, [ReviewsNext]_reviewVars PROVE ReviewsInv'
    OBVIOUS
  <2>0. /\ ReviewShape /\ AfterSaves /\ BeforeSaving /\ Saving
        /\ CompletedReviewIsWhole /\ RowIsReview /\ DeliveryIsReview
    BY DEF ReviewsInv
  <2>1. ASSUME NEW i \in ReviewIntakes, NEW r \in Repositories, Submit(i, r) PROVE ReviewsInv'
    <3>1. /\ reviewStage = "idle" /\ artifacts = <<>> /\ retentions = 0
          /\ UNCHANGED <<reviewRow, artifacts, retentions, delivery>>
          /\ reviewStage' = "save" /\ afterSave' \in {"workspace", "over"}
          /\ reviewRow.status # "completed" /\ delivery = NoRequest
      BY <2>0, <2>1 DEF Submit, BeforeSaving, NothingSaved, RowIsReview, DeliveryIsReview
    <3>2. /\ review'.status \in {"validating", "failed"}
          /\ review'.report = review.report
          /\ review' = [x \in ReviewFields |-> review'[x]]
      BY <2>0, <2>1 DEF Submit, ReviewShape, ReviewFields
    <3>3. ReviewShape' /\ AfterSaves'
      BY <2>0, <3>1, <3>2 DEF ReviewShape, AfterSaves
    <3> QED
      BY <3>1, <3>2, <3>3 DEF ReviewsInv, BeforeSaving, NothingSaved, Saving, CompletedReviewIsWhole,
                              RowIsReview, DeliveryIsReview
  <2>2. CASE SaveRow
    <3>1. /\ reviewStage = "save" /\ reviewStage' = "sync"
          /\ UNCHANGED <<artifacts, retentions, afterSave, delivery>>
          /\ reviewRow' = [status |-> review.status, report |-> Refreshed(review.report)]
          /\ review' = [review EXCEPT !.report = Refreshed(@)]
      BY <2>2 DEF SaveRow
    <3>2. /\ IsReport(Refreshed(review.report))
          /\ Refreshed(review.report).findings = review.report.findings
          /\ Refreshed(review.report).verdict = review.report.verdict
          /\ review.report.findings # {} =>
                Refreshed(review.report).stated = Counts(review.report.findings)
          /\ review.report.findings = {} => Refreshed(review.report) = review.report
      BY <2>0, RefreshedAgrees DEF ReviewShape
    <3>3. /\ review'.status = review.status /\ review'.report = Refreshed(review.report)
          /\ review' = [x \in ReviewFields |-> review'[x]]
      BY <2>0, <3>1 DEF ReviewShape, ReviewFields
    <3>4. ReviewShape' /\ AfterSaves' /\ BeforeSaving' /\ Saving'
      BY <2>0, <3>1, <3>2, <3>3 DEF ReviewShape, AfterSaves, BeforeSaving, NothingSaved, Saving
    <3>5. ASSUME review.status = "completed" PROVE WholeFor(review.report)' /\ afterSave = "close"
      <4>1. WholeFor(review.report) /\ afterSave = "close"
        BY <2>0, <3>1, <3>5 DEF CompletedReviewIsWhole
      <4> QED
        BY <3>1, <3>2, <3>3, <4>1 DEF WholeFor, SavedFor, Judged, StatesNoMore, Repeats
    <3>6. CompletedReviewIsWhole'
      BY <3>1, <3>3, <3>5 DEF CompletedReviewIsWhole
    <3>7. RowIsReview'
      BY <3>1, <3>2, <3>3 DEF RowIsReview
    <3>8. delivery' = NoRequest
      BY <2>0, <3>1 DEF RowIsReview, DeliveryIsReview
    <3>9. DeliveryIsReview'
      BY <3>8 DEF DeliveryIsReview, NoRequest
    <3> QED
      BY <3>4, <3>6, <3>7, <3>9 DEF ReviewsInv
  <2>3. CASE SyncProduct
    <3>1. /\ reviewStage = "sync" /\ reviewStage' = afterSave
          /\ UNCHANGED <<review, reviewRow, artifacts, retentions, afterSave, delivery>>
      BY <2>3 DEF SyncProduct
    <3>2. reviewStage' \notin {"store", "retain", "idle", "policy", "analyze", "save", "sync"}
      BY <2>0, <3>1 DEF AfterSaves
    <3>3. BeforeSaving' /\ Saving'
      BY <2>0, <3>1, <3>2 DEF BeforeSaving, Saving, NothingSaved
    <3>4. CompletedReviewIsWhole' /\ RowIsReview'
      BY <2>0, <3>1 DEF CompletedReviewIsWhole, RowIsReview, WholeFor, SavedFor
    <3> QED
      BY <2>0, <3>1, <3>3, <3>4 DEF ReviewsInv, ReviewShape, AfterSaves, DeliveryIsReview
  <2>4. CASE OpenWorkspace
    <3>1. /\ reviewStage = "workspace" /\ reviewStage' = "policy"
          /\ UNCHANGED <<reviewRow, artifacts, retentions, afterSave, delivery>>
          /\ \E w : review' = [review EXCEPT !.workspace = w]
      BY <2>4 DEF OpenWorkspace
    <3>2. /\ review'.status = review.status /\ review'.report = review.report
          /\ review' = [x \in ReviewFields |-> review'[x]]
      BY <2>0, <3>1 DEF ReviewShape, ReviewFields
    <3>3. NothingSaved /\ NothingSaved' /\ reviewRow'.status # "completed" /\ delivery' = NoRequest
      BY <2>0, <3>1, <3>2 DEF BeforeSaving, NothingSaved, RowIsReview, DeliveryIsReview
    <3> QED
      BY <2>0, <3>1, <3>2, <3>3 DEF ReviewsInv, ReviewShape, AfterSaves, BeforeSaving, Saving,
         CompletedReviewIsWhole, RowIsReview, DeliveryIsReview, NothingSaved
  <2>5. CASE Policy
    <3>1. /\ reviewStage = "policy" /\ reviewStage' \in {"analyze", "save"}
          /\ reviewStage' = "analyze" => afterSave' = afterSave
          /\ reviewStage' = "save" => afterSave' = "close"
          /\ UNCHANGED <<reviewRow, artifacts, retentions, delivery>>
          /\ \E s \in {"running", "blocked"} : review' = [review EXCEPT !.status = s]
      BY <2>5 DEF Policy
    <3>2. /\ review'.status # "completed" /\ review'.report = review.report
          /\ review' = [x \in ReviewFields |-> review'[x]]
      BY <2>0, <3>1 DEF ReviewShape, ReviewFields
    <3>3. NothingSaved /\ NothingSaved' /\ reviewRow'.status # "completed" /\ delivery' = NoRequest
      BY <2>0, <3>1, <3>2 DEF BeforeSaving, NothingSaved, RowIsReview, DeliveryIsReview
    <3> QED
      BY <2>0, <3>1, <3>2, <3>3 DEF ReviewsInv, ReviewShape, AfterSaves, BeforeSaving, Saving,
         CompletedReviewIsWhole, RowIsReview, DeliveryIsReview, NothingSaved
  <2>6. CASE Analyze
    <3>1. /\ reviewStage = "analyze" /\ reviewStage' = "store"
          /\ UNCHANGED <<reviewRow, artifacts, retentions, afterSave, delivery>>
          /\ \E report \in ReportsOn(review.repo, review.intake) :
                review' = [review EXCEPT !.report = report, !.status = "verifying"]
      BY <2>6 DEF Analyze
    <3>2. PICK report \in ReportsOn(review.repo, review.intake) :
                review' = [review EXCEPT !.report = report, !.status = "verifying"]
      BY <3>1
    <3>3. IsReport(report) /\ Judged(report)
      BY ReportsAreJudged
    <3>4. /\ review'.status = "verifying" /\ review'.report = report
          /\ review' = [x \in ReviewFields |-> review'[x]]
      BY <2>0, <3>2 DEF ReviewShape, ReviewFields
    <3>5. NothingSaved /\ reviewRow'.status # "completed" /\ delivery' = NoRequest
      BY <2>0, <3>1 DEF BeforeSaving, NothingSaved, RowIsReview, DeliveryIsReview
    <3>6. Len(Outputs(report.findings)) \in Nat \ {0}
      BY OutputsAreMany
    <3>7. artifacts' = <<>> /\ retentions' = 0
      BY <3>1, <3>5 DEF NothingSaved
    <3>8. SavedFor(review.report)' /\ Judged(review.report)' /\ Len(artifacts') = 0
      BY <3>3, <3>4, <3>6, <3>7 DEF SavedFor, Judged
    <3>9. Saving'
      BY <3>1, <3>4, <3>6, <3>7, <3>8 DEF Saving
    <3> QED
      BY <2>0, <3>1, <3>3, <3>4, <3>5, <3>9 DEF ReviewsInv, ReviewShape, AfterSaves, BeforeSaving,
         CompletedReviewIsWhole, RowIsReview, DeliveryIsReview
  <2>7. CASE StoreArtifact
    <3> DEFINE r == review.report
               k == Outputs(r.findings)[Len(artifacts) + 1]
               a == [kind |-> k, report |-> IF k = "trace" THEN EmptyReport ELSE r]
    <3>1. /\ reviewStage = "store" /\ reviewStage' = "retain" /\ artifacts' = Append(artifacts, a)
          /\ UNCHANGED <<review, reviewRow, retentions, afterSave, delivery>>
      BY <2>7 DEF StoreArtifact
    <3>2. /\ SavedFor(r) /\ Judged(r) /\ review.status # "completed"
          /\ Len(artifacts) < Len(Outputs(r.findings)) /\ retentions = Len(artifacts)
      BY <2>0, <3>1 DEF Saving
    <3>3. a.kind = k /\ Repeats(a, r)
      BY DEF Repeats
    <3> HIDE DEF a
    <3>4. PICK S : artifacts \in Seq(S)
      BY <3>2 DEF SavedFor
    <3>5. /\ artifacts' \in Seq(S \cup {a}) /\ Len(artifacts) \in Nat
          /\ Len(artifacts') = Len(artifacts) + 1 /\ artifacts'[Len(artifacts) + 1] = a
          /\ \A n \in 1..Len(artifacts) : artifacts'[n] = artifacts[n]
      <4>1. artifacts \in Seq(S \cup {a}) /\ a \in S \cup {a}
        BY <3>4
      <4> QED
        BY <3>1, <4>1
    <3>6. Len(Outputs(r.findings)) \in Nat
      BY OutputsAreMany
    <3>7. SavedFor(r)'
      <4>1. \A n \in 1..Len(artifacts') : n \in 1..Len(artifacts) \/ n = Len(artifacts) + 1
        BY <3>5
      <4>2. \A n \in 1..Len(artifacts') :
               artifacts'[n].kind = Outputs(r.findings)[n] /\ Repeats(artifacts'[n], r)
        BY <3>2, <3>3, <3>5, <4>1 DEF SavedFor
      <4>3. Len(artifacts') <= Len(Outputs(r.findings))
        BY <3>2, <3>5, <3>6
      <4>4. \E T : artifacts' \in Seq(T)
        BY <3>5
      <4>5. r' = r
        BY <3>1
      <4> HIDE DEF r
      <4> QED
        BY <4>2, <4>3, <4>4, <4>5 DEF SavedFor, Repeats
    <3>8. Saving'
      BY <3>1, <3>2, <3>5, <3>7 DEF Saving, Judged
    <3>9. reviewRow'.status # "completed" /\ delivery' = NoRequest
      BY <2>0, <3>1, <3>2 DEF RowIsReview, DeliveryIsReview
    <3> QED
      BY <2>0, <3>1, <3>2, <3>8, <3>9 DEF ReviewsInv, ReviewShape, AfterSaves, BeforeSaving,
         CompletedReviewIsWhole, RowIsReview, DeliveryIsReview
  <2>8. CASE RetainArtifact
    <3> DEFINE r == review.report
    <3>1. /\ reviewStage = "retain" /\ retentions' = retentions + 1
          /\ UNCHANGED <<reviewRow, artifacts, delivery>>
      BY <2>8 DEF RetainArtifact
    <3>2. /\ SavedFor(r) /\ Judged(r) /\ review.status # "completed"
          /\ retentions + 1 = Len(artifacts)
      BY <2>0, <3>1 DEF Saving
    <3>3. Len(Outputs(r.findings)) \in Nat /\ Len(artifacts) \in Nat
          /\ Len(artifacts) <= Len(Outputs(r.findings))
      BY <3>2, OutputsAreMany DEF SavedFor
    <3>4. reviewRow'.status # "completed" /\ delivery' = NoRequest
      BY <2>0, <3>1, <3>2 DEF RowIsReview, DeliveryIsReview
    <3>5. CASE Len(artifacts) < Len(Outputs(r.findings))
      <4>1. reviewStage' = "store" /\ UNCHANGED <<review, afterSave>>
        BY <2>8, <3>5 DEF RetainArtifact
      <4>2. SavedFor(review.report)' /\ Judged(review.report)'
        BY <3>1, <3>2, <4>1 DEF SavedFor, Judged
      <4>3. Saving'
        BY <3>1, <3>2, <3>5, <4>1, <4>2 DEF Saving
      <4> QED
        BY <2>0, <3>2, <3>4, <4>1, <4>3 DEF ReviewsInv, ReviewShape, AfterSaves, BeforeSaving,
           CompletedReviewIsWhole, RowIsReview, DeliveryIsReview
    <3>6. CASE ~(Len(artifacts) < Len(Outputs(r.findings)))
      <4>1. /\ reviewStage' = "save" /\ afterSave' = "close"
            /\ review' = [review EXCEPT !.status = "completed"]
        BY <2>8, <3>6 DEF RetainArtifact
      <4>2. /\ review'.status = "completed" /\ review'.report = review.report
            /\ review' = [x \in ReviewFields |-> review'[x]]
        BY <2>0, <4>1 DEF ReviewShape, ReviewFields
      <4>3. Len(artifacts) = Len(Outputs(r.findings))
        BY <3>3, <3>6
      <4>4. WholeFor(review.report)'
        BY <3>1, <3>2, <4>2, <4>3 DEF WholeFor, SavedFor, Judged
      <4> QED
        BY <2>0, <3>4, <4>1, <4>2, <4>4 DEF ReviewsInv, ReviewShape, AfterSaves, BeforeSaving,
           Saving, CompletedReviewIsWhole, RowIsReview, DeliveryIsReview
    <3> QED
      BY <3>5, <3>6
  <2>9. CASE CloseSpace
    <3>1. /\ reviewStage \in {"close", "unwind"} /\ reviewStage' = "over"
          /\ UNCHANGED <<review, reviewRow, artifacts, retentions, afterSave, delivery>>
      BY <2>9 DEF CloseSpace
    <3>2. CompletedReviewIsWhole' /\ RowIsReview'
      BY <2>0, <3>1 DEF CompletedReviewIsWhole, RowIsReview, WholeFor, SavedFor
    <3> QED
      BY <2>0, <3>1, <3>2 DEF ReviewsInv, ReviewShape, AfterSaves, BeforeSaving, Saving,
         DeliveryIsReview
  <2>10. CASE Raises
    <3>1. UNCHANGED <<reviewRow, artifacts, retentions, delivery>>
      BY <2>10 DEF Raises
    <3>2. CASE reviewStage' = "over" /\ UNCHANGED <<review, afterSave>> /\ reviewStage \in {"save", "sync"}
      <4>1. CompletedReviewIsWhole' /\ RowIsReview'
        BY <2>0, <3>1, <3>2 DEF CompletedReviewIsWhole, RowIsReview, WholeFor, SavedFor
      <4> QED
        BY <2>0, <3>1, <3>2, <4>1 DEF ReviewsInv, ReviewShape, AfterSaves, BeforeSaving, Saving,
           DeliveryIsReview
    <3>3. CASE \/ /\ \/ reviewStage \in {"analyze", "store", "retain"}
                     \/ reviewStage \in {"save", "sync"} /\ afterSave = "close"
                  /\ Guarded(review.status)
               \/ /\ reviewStage = "policy"
                  /\ Guarded(IF HostReadAllowed(review.intake) THEN review.status ELSE "blocked")
      <4>1. PICK now \in {review.status, "blocked"} : Guarded(now)
        BY <3>3
      <4>2. CASE review.status # "completed"
        <5>1. reviewRow.status # "completed" /\ delivery = NoRequest
          BY <2>0, <4>2 DEF RowIsReview, DeliveryIsReview
        <5>2. /\ \E s \in {"failed", now} : review' = [review EXCEPT !.status = s]
              /\ \/ reviewStage' = "save" /\ afterSave' = "unwind"
                 \/ reviewStage' = "close" /\ afterSave' = afterSave
          BY <4>1 DEF Guarded
        <5>3. /\ review'.status # "completed" /\ review'.report = review.report
              /\ review' = [x \in ReviewFields |-> review'[x]]
          BY <2>0, <4>2, <5>2 DEF ReviewShape, ReviewFields
        <5> QED
          BY <2>0, <3>1, <5>1, <5>2, <5>3 DEF ReviewsInv, ReviewShape, AfterSaves, BeforeSaving,
             Saving, CompletedReviewIsWhole, RowIsReview, DeliveryIsReview
      <4>3. CASE review.status = "completed"
        <5>1. reviewStage \in {"save", "sync"} /\ Guarded("completed")
          BY <2>0, <3>3, <4>3 DEF CompletedReviewIsWhole
        <5>2. /\ review' = [review EXCEPT !.status = "completed"]
              /\ reviewStage' = "close" /\ afterSave' = afterSave
          BY <5>1 DEF Guarded
        <5>3. /\ review'.status = "completed" /\ review'.report = review.report
              /\ review' = [x \in ReviewFields |-> review'[x]]
          BY <2>0, <4>3, <5>2 DEF ReviewShape, ReviewFields
        <5>4. CompletedReviewIsWhole' /\ RowIsReview'
          BY <2>0, <3>1, <4>3, <5>2, <5>3 DEF CompletedReviewIsWhole, RowIsReview, WholeFor, SavedFor, Judged
        <5> QED
          BY <2>0, <3>1, <5>2, <5>3, <5>4 DEF ReviewsInv, ReviewShape, AfterSaves, BeforeSaving,
             Saving, DeliveryIsReview
      <4> QED
        BY <4>2, <4>3
    <3> QED
      BY <2>10, <3>2, <3>3 DEF Raises
  <2>11. CASE ReviewDeath
    <3>1. /\ reviewStage' = "over"
          /\ UNCHANGED <<review, reviewRow, artifacts, retentions, afterSave, delivery>>
      BY <2>11 DEF ReviewDeath
    <3>2. CompletedReviewIsWhole' /\ RowIsReview'
      BY <2>0, <3>1 DEF CompletedReviewIsWhole, RowIsReview, WholeFor, SavedFor
    <3> QED
      BY <2>0, <3>1, <3>2 DEF ReviewsInv, ReviewShape, AfterSaves, BeforeSaving, Saving,
         DeliveryIsReview
  <2>12. CASE RequestDelivery
    <3> DEFINE r == reviewRow.report
    <3>1. /\ reviewRow.status = "completed"
          /\ delivery' = [quorum |-> QuorumFor(r), verdict |-> r.verdict,
                          findings |-> BundleFindings, artifacts |-> Len(artifacts)]
          /\ UNCHANGED <<review, reviewRow, artifacts, retentions, reviewStage, afterSave>>
      BY <2>12 DEF RequestDelivery
    <3>2. WholeFor(r)
      BY <2>0, <3>1 DEF RowIsReview, CompletedReviewIsWhole
    <3>3. BundleFindings = r.findings
      <4> DEFINE lists == {n \in DOMAIN artifacts : artifacts[n].kind = "findings"}
      <4>1. CASE lists = {}
        BY <4>1 DEF BundleFindings
      <4>2. CASE lists # {}
        <5>1. PICK n \in lists : n = CHOOSE m \in lists : TRUE
          BY <4>2
        <5>2. BundleFindings = artifacts[n].report.findings
          BY <4>2, <5>1 DEF BundleFindings
        <5>3. n \in 1..Len(artifacts) /\ artifacts[n].kind = "findings"
          BY <3>2 DEF WholeFor, SavedFor
        <5>4. Repeats(artifacts[n], r)
          BY <3>2, <5>3 DEF WholeFor, SavedFor
        <5> QED
          BY <5>2, <5>3, <5>4 DEF Repeats
      <4> QED
        BY <4>1, <4>2
    <3>4. QuorumFor(r) = 2 <=> HasCritical(r.findings)
      BY <3>2, QuorumIsByCritical DEF WholeFor
    <3>5. DeliveryIsReview'
      BY <3>1, <3>2, <3>3, <3>4 DEF DeliveryIsReview, WholeFor
    <3>6. CompletedReviewIsWhole' /\ RowIsReview' /\ Saving' /\ BeforeSaving'
      BY <2>0, <3>1 DEF CompletedReviewIsWhole, RowIsReview, WholeFor, SavedFor, Saving, BeforeSaving, NothingSaved
    <3> QED
      BY <2>0, <3>1, <3>5, <3>6 DEF ReviewsInv, ReviewShape, AfterSaves
  <2>13. CASE UNCHANGED reviewVars
    BY <2>0, <2>13 DEF ReviewsInv, reviewVars, ReviewShape, AfterSaves, BeforeSaving, NothingSaved,
       Saving, CompletedReviewIsWhole, RowIsReview, DeliveryIsReview, WholeFor, SavedFor
  <2> QED
    BY <2>1, <2>2, <2>3, <2>4, <2>5, <2>6, <2>7, <2>8, <2>9, <2>10, <2>11, <2>12, <2>13
       DEF ReviewsNext
<1> QED
  BY <1>1, <1>2, PTL DEF ReviewsSpec

\* A completed row, its artifacts and its delivery agree, and its summary states the
\* findings that are left; if none is left, at most critical ones that are gone
\* (review/service.py, _save_job).
THEOREM ReviewsAreWhole == ReviewsSpec => []ReviewsAgree
<1>1. ReviewsInv => ReviewsAgree
  <2> SUFFICES ASSUME ReviewsInv PROVE ReviewsAgree
    OBVIOUS
  <2>0. RowIsReview /\ CompletedReviewIsWhole /\ DeliveryIsReview
    BY DEF ReviewsInv
  <2>1. ASSUME reviewRow.status = "completed"
        PROVE  LET report == reviewRow.report
               IN  /\ [n \in DOMAIN artifacts |-> artifacts[n].kind] = Outputs(report.findings)
                   /\ retentions = Len(artifacts)
                   /\ \A a \in ToSet(artifacts) :
                         \/ a.kind = "trace"
                         \/ a.report.findings = report.findings /\ a.report.verdict = report.verdict
                   /\ report.verdict = "fail" <=> HasCritical(report.findings)
                   /\ IF report.findings # {} THEN report.stated = Counts(report.findings)
                      ELSE \A s \in Severities \ {"critical"} : report.stated[s] = 0
    <3> DEFINE r == reviewRow.report
    <3>1. WholeFor(r) /\ (r.findings # {} => r.stated = Counts(r.findings))
      BY <2>0, <2>1 DEF RowIsReview, CompletedReviewIsWhole
    <3> HIDE DEF r
    <3>2. DOMAIN artifacts = 1..Len(artifacts)
      BY <3>1 DEF WholeFor, SavedFor
    <3>3. [n \in DOMAIN artifacts |-> artifacts[n].kind] = Outputs(r.findings)
      <4>1. /\ Len(artifacts) = Len(Outputs(r.findings))
            /\ \A n \in 1..Len(artifacts) : artifacts[n].kind = Outputs(r.findings)[n]
        BY <3>1 DEF WholeFor, SavedFor
      <4>2. Outputs(r.findings) = [n \in 1..Len(Outputs(r.findings)) |-> Outputs(r.findings)[n]]
        BY OutputsAreMany
      <4> QED
        BY <3>2, <4>1, <4>2
    <3>4. \A a \in ToSet(artifacts) : Repeats(a, r)
      BY <3>1, <3>2 DEF ToSet, WholeFor, SavedFor
    <3>5. r.verdict = "fail" <=> HasCritical(r.findings)
      BY <3>1 DEF WholeFor, Judged, Verdict
    <3>6. StatesNoMore(r)
      BY <3>1 DEF WholeFor, Judged
    <3> QED
      BY <3>1, <3>3, <3>4, <3>5, <3>6 DEF r, Repeats, WholeFor, StatesNoMore
  <2>2. delivery # NoRequest =>
              /\ delivery.findings = reviewRow.report.findings
              /\ delivery.verdict = reviewRow.report.verdict
              /\ delivery.quorum = 2 <=> HasCritical(reviewRow.report.findings)
              /\ delivery.artifacts = retentions
    BY <2>0 DEF DeliveryIsReview
  <2> QED
    BY <2>1, <2>2 DEF ReviewsAgree
<1> QED
  BY <1>1, ReviewsInvariant, PTL

\* What a report holds
ReportVerdicts == {"", "fail", "pass_with_findings", "pass"}
ReportTyped(r) ==
    /\ IsFiniteSet(r.findings) /\ r.verdict \in ReportVerdicts /\ r.stated \in [Severities -> Nat]

\* The values a function takes on a finite set are finitely many.
LEMMA ImageIsFinite ==
    ASSUME NEW S, IsFiniteSet(S), NEW f, DOMAIN f = S, f = [x \in S |-> f[x]]
    PROVE  IsFiniteSet({f[x] : x \in S})
<1> DEFINE T == {f[x] : x \in S}
<1>1. f \in Surjection(S, T)
  BY DEF Surjection
<1> HIDE DEF T
<1> QED
  BY <1>1, FS_Surjection DEF T

\* What there is of a file type is counted.
LEMMA CountsAreNumbers ==
    ASSUME NEW findings, IsFiniteSet(findings)
    PROVE  Counts(findings) \in [Severities -> Nat]
<1>1. ASSUME NEW s \in Severities PROVE Cardinality({f \in findings : f.severity = s}) \in Nat
  <2>1. {f \in findings : f.severity = s} \subseteq findings
    OBVIOUS
  <2> QED
    BY <2>1, FS_Subset, FS_CardinalityType
<1> QED
  BY <1>1 DEF Counts

\* The files an analyzer looks at are finitely many of those there are.
LEMMA ListedFilesAreFew ==
    ASSUME NEW r \in Repositories, NEW wanted, NEW n
    PROVE  /\ IsFiniteSet(FirstListed(r, wanted, n))
           /\ FirstListed(r, wanted, n) \subseteq wanted
           /\ FirstListed(r, wanted, n) \subseteq Paths
<1> DEFINE s == r.listing
           all == {s[k] : k \in 1..Len(s)}
<1>1. s \in Seq(Paths) /\ DOMAIN s = 1..Len(s) /\ Len(s) \in Nat /\ s = [k \in 1..Len(s) |-> s[k]]
  <2>1. \A q \in Repositories : q.listing \in Seq(Paths)
    BY ReviewsAssumption
  <2>2. s \in Seq(Paths)
    BY <2>1
  <2> HIDE DEF s
  <2> QED
    BY <2>2
<1>2. IsFiniteSet(1..Len(s))
  BY <1>1, FS_Interval
<1>3. IsFiniteSet(all)
  <2> HIDE DEF s
  <2> QED
    BY <1>1, <1>2, ImageIsFinite
<1>4. /\ FirstListed(r, wanted, n) \subseteq all
      /\ FirstListed(r, wanted, n) \subseteq wanted
  BY <1>1 DEF FirstListed
<1>5. all \subseteq Paths
  BY <1>1
<1> HIDE DEF all
<1> QED
  BY <1>3, <1>4, <1>5, FS_Subset

\* One finding or none
LEMMA NoticesAreFew ==
    ASSUME NEW condition, NEW about, NEW severity
    PROVE  IsFiniteSet(Notice(condition, about, severity))
  BY FS_EmptySet, FS_Singleton DEF Notice

\* Two sets of findings make a finite one.
LEMMA FindingsJoin ==
    ASSUME NEW A, NEW B, IsFiniteSet(A), IsFiniteSet(B)
    PROVE  IsFiniteSet(A \cup B)
  BY FS_Union

\* The structure analyzer reports finitely many findings.
LEMMA StructureIsFinite ==
    ASSUME NEW r \in Repositories, NEW i
    PROVE  IsFiniteSet(Structure(r, i))
<1> DEFINE seen == FirstListed(r, i.include \ (i.exclude \cup Hidden \cup Generated), i.maxFiles)
           large == seen \cap Oversized
           found == [f \in large |-> Finding("large file", f, "low", FALSE)]
           a == Notice(seen \cap TestLike = {} /\ ~i.scoped, "no tests", "high")
           b == Notice(seen \cap TestLike = {} /\ i.scoped, "no tests in scope", "low")
           c == Notice(~r.ci, "no CI", "medium")
           d == Notice(~r.readme, "no README", "low")
           e == {Finding("large file", f, "low", FALSE) : f \in large}
<1>1. IsFiniteSet(large)
  <2>1. IsFiniteSet(seen)
    BY ListedFilesAreFew
  <2> HIDE DEF seen
  <2> QED
    BY <2>1, FS_Intersection
<1>2. IsFiniteSet(e)
  <2> HIDE DEF large
  <2>1. DOMAIN found = large /\ found = [f \in large |-> found[f]]
    OBVIOUS
  <2>2. e = {found[f] : f \in large}
    OBVIOUS
  <2> HIDE DEF e, found
  <2> QED
    BY <1>1, <2>1, <2>2, ImageIsFinite
<1>3. IsFiniteSet(a) /\ IsFiniteSet(b) /\ IsFiniteSet(c) /\ IsFiniteSet(d)
  BY NoticesAreFew
<1>4. Structure(r, i) = Notice(TRUE, "path not found", "critical")
      \/ Structure(r, i) = a \cup b \cup c \cup d \cup e
  BY DEF Structure
<1>5. IsFiniteSet(Notice(TRUE, "path not found", "critical"))
  BY NoticesAreFew
<1> HIDE DEF a, b, c, d, e
<1>6. IsFiniteSet(a \cup b \cup c \cup d \cup e)
  <2>1. IsFiniteSet(a \cup b)
    BY <1>3, FindingsJoin
  <2>2. IsFiniteSet(a \cup b \cup c)
    BY <1>3, <2>1, FindingsJoin
  <2>3. IsFiniteSet(a \cup b \cup c \cup d)
    BY <1>3, <2>2, FindingsJoin
  <2> QED
    BY <1>2, <2>3, FindingsJoin
<1> QED
  BY <1>4, <1>5, <1>6

\* So does the security analyzer.
LEMMA SecurityIsFinite ==
    ASSUME NEW r \in Repositories, NEW covered, NEW n
    PROVE  IsFiniteSet(Security(r, covered, n))
<1> DEFINE files == FirstListed(r, (Readable \cap covered) \ Hidden, n)
           flaws(f) == Flaws[f] \ (IF f \in TestLike THEN {"mock secret"} ELSE {})
           of(f) == {Finding(flaw, f, PatternSeverity(flaw), flaw \in {"mock secret", "sample secret"}) :
                        flaw \in flaws(f)}
           every == [f \in files |-> of(f)]
<1>1. IsFiniteSet(files) /\ files \subseteq Paths
  BY ListedFilesAreFew
<1>2. Security(r, covered, n) = UNION {of(f) : f \in files}
  BY DEF Security
<1> HIDE DEF files
<1>3. ASSUME NEW f \in files PROVE IsFiniteSet(of(f))
  <2> DEFINE S == flaws(f)
             each == [flaw \in S |-> Finding(flaw, f, PatternSeverity(flaw),
                                             flaw \in {"mock secret", "sample secret"})]
  <2>1. IsFiniteSet(S)
    <3>1. IsFiniteSet(Flaws[f]) /\ S \subseteq Flaws[f]
      BY <1>1, ReviewsAssumption
    <3> QED
      BY <3>1, FS_Subset
  <2> HIDE DEF S
  <2>2. DOMAIN each = S /\ each = [flaw \in S |-> each[flaw]]
    OBVIOUS
  <2>3. IsFiniteSet({each[flaw] : flaw \in S})
    <3> HIDE DEF each
    <3> QED BY <2>1, <2>2, ImageIsFinite
  <2>4. of(f) = {each[flaw] : flaw \in S}
    BY DEF S
  <2> QED
    BY <2>3, <2>4
<1> HIDE DEF of
<1>4. IsFiniteSet({of(f) : f \in files})
  <2>1. DOMAIN every = files /\ every = [f \in files |-> every[f]]
    OBVIOUS
  <2>2. {of(f) : f \in files} = {every[f] : f \in files}
    OBVIOUS
  <2> HIDE DEF every
  <2> QED
    BY <1>1, <2>1, <2>2, ImageIsFinite
<1>5. IsFiniteSet(UNION {of(f) : f \in files})
  BY <1>3, <1>4, FS_UNION
<1> QED
  BY <1>2, <1>5

\* The verifier leaves out and lowers findings, and adds none.
LEMMA VerifiedIsFinite ==
    ASSUME NEW findings, IsFiniteSet(findings)
    PROVE  IsFiniteSet(Verified(findings))
<1> DEFINE left == {f \in findings : ~(InTests(f) /\ f.sample)}
           lowered == [f \in left |-> IF InTests(f) THEN [f EXCEPT !.severity = "low"] ELSE f]
<1>1. IsFiniteSet(left)
  <2>1. left \subseteq findings
    OBVIOUS
  <2> QED
    BY <2>1, FS_Subset
<1>2. Verified(findings) = {IF InTests(f) THEN [f EXCEPT !.severity = "low"] ELSE f : f \in left}
  BY DEF Verified
<1> HIDE DEF left
<1>3. DOMAIN lowered = left /\ lowered = [f \in left |-> lowered[f]]
  OBVIOUS
<1>4. Verified(findings) = {lowered[f] : f \in left}
  BY <1>2
<1> HIDE DEF lowered
<1> QED
  BY <1>1, <1>3, <1>4, ImageIsFinite

\* A report of finite findings is typed.
LEMMA ReportIsTyped ==
    ASSUME NEW findings, IsFiniteSet(findings), NEW counted, IsFiniteSet(counted)
    PROVE  ReportTyped(Report(findings, counted))
<1>1. IsFiniteSet(Verified(findings)) /\ Counts(counted) \in [Severities -> Nat]
  BY VerifiedIsFinite, CountsAreNumbers
<1>2. Verdict(Verified(findings)) \in ReportVerdicts
  BY DEF Verdict, ReportVerdicts
<1> QED
  BY <1>1, <1>2 DEF Report, ReportTyped

\* Whatever is reviewed, and whatever git answers, the report is.
LEMMA ReportsAreTyped ==
    ASSUME NEW r \in Repositories, NEW i, NEW report \in ReportsOn(r, i)
    PROVE  ReportTyped(report)
<1>1. IsFiniteSet(Audit(r, i))
  BY StructureIsFinite, SecurityIsFinite, FindingsJoin DEF Audit
<1>2. IsFiniteSet(Release(r, i))
  <2> DEFINE a == Notice(~r.changelog, "no CHANGELOG", "medium")
             b == Notice(~r.package, "no package configuration", "medium")
  <2>1. IsFiniteSet(a) /\ IsFiniteSet(b) /\ Release(r, i) = Audit(r, i) \cup a \cup b
    BY NoticesAreFew DEF Release
  <2> HIDE DEF a, b
  <2>2. IsFiniteSet(Audit(r, i) \cup a)
    BY <1>1, <2>1, FindingsJoin
  <2> QED
    BY <2>1, <2>2, FindingsJoin
<1>3. ASSUME NEW git PROVE IsFiniteSet(PullRequest(r, git))
  <2> DEFINE changed == ToSet(ChangedFiles(r, git))
             a == Notice(git = "refuses", "git diff failed", "critical")
             b == Notice(git = "missing", "git not available", "critical")
             c == Notice(git \in {"hangs", "hangs late"}, "git diff timed out", "high")
             d == Notice(git = "answers" /\ Len(r.changed) > LargeChange, "large changeset", "medium")
             e == Notice(/\ git = "answers"
                         /\ changed \cap Sensitive # {} /\ changed \cap TestLike = {},
                         "sensitive changes without tests", "high")
  <2>1. IsFiniteSet(a) /\ IsFiniteSet(b) /\ IsFiniteSet(c) /\ IsFiniteSet(d) /\ IsFiniteSet(e)
    BY NoticesAreFew
  <2>2. Diff(r, git) = a \cup b \cup c \cup d \cup e
    BY DEF Diff
  <2> HIDE DEF a, b, c, d, e
  <2>3. IsFiniteSet(a \cup b \cup c)
    <3>1. IsFiniteSet(a \cup b)
      BY <2>1, FindingsJoin
    <3> QED
      BY <2>1, <3>1, FindingsJoin
  <2>4. IsFiniteSet(Diff(r, git))
    <3>1. IsFiniteSet(a \cup b \cup c \cup d)
      BY <2>1, <2>3, FindingsJoin
    <3> QED
      BY <2>1, <2>2, <3>1, FindingsJoin
  <2> DEFINE reach == UNION {Endings[p] : p \in ToSet(Leading(ChangedFiles(r, git), MaxPatterns))}
             more == IF ChangedFiles(r, git) = <<>> THEN {}
                     ELSE Security(r, reach, Len(ChangedFiles(r, git)))
  <2>5. IsFiniteSet(more)
    <3> HIDE DEF reach
    <3> QED
      BY SecurityIsFinite, FS_EmptySet
  <2>6. PullRequest(r, git) = Diff(r, git) \cup more
    BY DEF PullRequest
  <2> HIDE DEF more
  <2> QED
    BY <2>4, <2>5, <2>6, FindingsJoin
<1>4. CASE i.type = "repo_audit"
  BY <1>1, <1>4, ReportIsTyped DEF ReportsOn
<1>5. CASE i.type = "release_review"
  BY <1>1, <1>2, <1>5, ReportIsTyped DEF ReportsOn
<1>6. CASE i.type # "repo_audit" /\ i.type # "release_review"
  <2>1. PICK git \in GitOutcomes(r) : report = Report(PullRequest(r, git), PullRequest(r, git))
    BY <1>6 DEF ReportsOn
  <2> QED
    BY <1>3, <2>1, ReportIsTyped
<1> QED
  BY <1>4, <1>5, <1>6

\* What an artifact is, and what the run, its rows and its delivery are made of
ArtifactTyped(a) == a.kind \in Kinds /\ ReportTyped(a.report)
ReviewsTyped ==
    /\ review.status \in ReviewStatuses /\ reviewRow.status \in ReviewStatuses
    /\ product.status \in ReviewStatuses
    /\ ReportTyped(review.report) /\ ReportTyped(reviewRow.report)
    /\ \E S : artifacts \in Seq(S)
    /\ \A n \in 1..Len(artifacts) : ArtifactTyped(artifacts[n])
    /\ retentions \in 0..Len(artifacts)
    /\ space \in {"none", "created", "active", "completed", "failed"}
    /\ delivery.quorum \in 0..2
    /\ reviewStage # "idle" => review.repo \in Repositories

\* Saving the row leaves a report one.
LEMMA RefreshedIsTyped ==
    ASSUME NEW r, IsReport(r), ReportTyped(r)
    PROVE  ReportTyped(Refreshed(r))
<1>1. Counts(r.findings) \in [Severities -> Nat]
  BY CountsAreNumbers DEF ReportTyped
<1> QED
  BY <1>1 DEF Refreshed, IsReport, ReportTyped

\* A review's reports, rows and artifacts are well formed, its findings finitely many, and no
\* more is retained than was saved (review/service.py), wherever it dies or raises.
THEOREM ReviewsAreTyped == ReviewsSpec => []ReviewsTypeOK
<1>0. ReportTyped(EmptyReport)
  <2>1. IsFiniteSet({})
    BY FS_EmptySet
  <2> QED
    BY <2>1, CountsAreNumbers DEF EmptyReport, ReportTyped, ReportVerdicts
<1>1. ReviewsInit => ReviewsTyped
  <2> SUFFICES ASSUME ReviewsInit PROVE ReviewsTyped
    OBVIOUS
  <2>1. artifacts = <<>>
    BY DEF ReviewsInit
  <2>3. <<>> \in Seq({}) /\ Len(<<>>) = 0
    OBVIOUS
  <2>2. delivery.quorum = 0 /\ reviewRow.report = EmptyReport /\ review.report = EmptyReport
    BY DEF ReviewsInit, NoRequest, NoReview
  <2>4. \E S : artifacts \in Seq(S)
    BY <2>1, <2>3
  <2>5. \A n \in 1..Len(artifacts) : ArtifactTyped(artifacts[n])
    BY <2>1, <2>3
  <2>6. /\ retentions \in 0..Len(artifacts) /\ delivery.quorum \in 0..2
        /\ space = "none" /\ reviewStage = "idle"
    <3>1. retentions = 0 /\ space = "none" /\ reviewStage = "idle"
      BY DEF ReviewsInit
    <3>2. Len(artifacts) = 0
      BY <2>1, <2>3
    <3> QED
      BY <2>2, <3>1, <3>2
  <2>7. /\ review.status = "created" /\ reviewRow.status = "none" /\ product.status = "none"
    BY DEF ReviewsInit, NoReview
  <2> QED
    BY <1>0, <2>2, <2>4, <2>5, <2>6, <2>7 DEF ReviewsTyped, ReviewStatuses
<1>2. ReviewsInv /\ ReviewsTyped /\ [ReviewsNext]_reviewVars => ReviewsTyped'
  <2> SUFFICES ASSUME ReviewsInv, ReviewsTyped, [ReviewsNext]_reviewVars PROVE ReviewsTyped'
    OBVIOUS
  <2> DEFINE Spaces == {"none", "created", "active", "completed", "failed"}
  <2>0. /\ review.status \in ReviewStatuses /\ reviewRow.status \in ReviewStatuses
        /\ product.status \in ReviewStatuses
        /\ ReportTyped(review.report) /\ ReportTyped(reviewRow.report)
        /\ \A n \in 1..Len(artifacts) : ArtifactTyped(artifacts[n])
        /\ retentions \in 0..Len(artifacts) /\ space \in Spaces /\ delivery.quorum \in 0..2
        /\ reviewStage # "idle" => review.repo \in Repositories
        /\ ReviewShape
    BY DEF ReviewsTyped, ReviewsInv
  <2>00. PICK S : artifacts \in Seq(S)
    BY DEF ReviewsTyped
  <2>01. /\ review = [x \in ReviewFields |-> review[x]] /\ IsReport(review.report)
         /\ ReviewFields = {"intake", "repo", "status", "workspace", "report"}
    BY <2>0 DEF ReviewShape, ReviewFields
  \* The review alone changes, and what comes next.
  <2>1. ASSUME UNCHANGED <<reviewRow, product, artifacts, retentions, delivery>>, space' \in Spaces,
               review'.status \in ReviewStatuses, ReportTyped(review'.report),
               reviewStage' # "idle" => review'.repo \in Repositories
        PROVE  ReviewsTyped'
    BY <2>0, <2>00, <2>1 DEF ReviewsTyped
  <2>2. ASSUME NEW i \in ReviewIntakes, NEW r \in Repositories, Submit(i, r) PROVE ReviewsTyped'
    <3>1. /\ review' = [review EXCEPT !.intake = i, !.repo = r,
                              !.status = IF ValidIntake(i) THEN "validating" ELSE "failed"]
          /\ UNCHANGED <<reviewRow, product, artifacts, retentions, space, delivery>>
      BY <2>2 DEF Submit
    <3>2. /\ review'.repo = r /\ review'.status \in {"validating", "failed"}
          /\ review'.report = review.report
      BY <2>01, <3>1
    <3> QED
      BY <2>0, <2>1, <3>1, <3>2 DEF ReviewStatuses
  <2>3. CASE SaveRow
    <3>1. /\ review' = [review EXCEPT !.report = Refreshed(review.report)]
          /\ reviewRow' = [status |-> review.status, report |-> Refreshed(review.report)]
          /\ reviewStage = "save"
          /\ UNCHANGED <<product, artifacts, retentions, space, delivery>>
      BY <2>3 DEF SaveRow
    <3>2. ReportTyped(Refreshed(review.report))
      BY <2>0, <2>01, RefreshedIsTyped
    <3>3. /\ review'.report = Refreshed(review.report) /\ review'.status = review.status
          /\ review'.repo = review.repo
      BY <2>01, <3>1
    <3> QED
      BY <2>0, <2>00, <3>1, <3>2, <3>3 DEF ReviewsTyped
  <2>4. CASE SyncProduct
    <3>1. /\ product'.status = review.status /\ reviewStage = "sync"
          /\ UNCHANGED <<review, reviewRow, artifacts, retentions, space, delivery>>
      BY <2>4 DEF SyncProduct
    <3> QED
      BY <2>0, <2>00, <3>1 DEF ReviewsTyped
  <2>5. CASE OpenWorkspace
    <3>1. PICK opened \in {"none", "created", "active"} :
             space' = opened /\ review' = [review EXCEPT !.workspace = opened = "active"]
      BY <2>5 DEF OpenWorkspace
    <3>2. /\ review'.report = review.report /\ review'.status = review.status
          /\ review'.repo = review.repo
      BY <2>01, <3>1
    <3>3. /\ reviewStage # "idle"
          /\ UNCHANGED <<reviewRow, product, artifacts, retentions, delivery>>
      BY <2>5 DEF OpenWorkspace
    <3> QED
      BY <2>0, <2>1, <3>1, <3>2, <3>3
  <2>6. CASE Policy
    <3>1. PICK now \in {"running", "blocked"} : review' = [review EXCEPT !.status = now]
      BY <2>6 DEF Policy
    <3>2. /\ review'.report = review.report /\ review'.status = now
          /\ review'.repo = review.repo
      BY <2>01, <3>1
    <3>3. /\ reviewStage # "idle"
          /\ UNCHANGED <<reviewRow, product, artifacts, retentions, space, delivery>>
      BY <2>6 DEF Policy
    <3> QED
      BY <2>0, <2>1, <3>1, <3>2, <3>3 DEF ReviewStatuses
  <2>7. CASE Analyze
    <3>1. PICK report \in ReportsOn(review.repo, review.intake) :
             review' = [review EXCEPT !.report = report, !.status = "verifying"]
      BY <2>7 DEF Analyze
    <3>2. /\ review'.report = report /\ review'.status = "verifying"
          /\ review'.repo = review.repo
      BY <2>01, <3>1
    <3>3. /\ reviewStage # "idle"
          /\ UNCHANGED <<reviewRow, product, artifacts, retentions, space, delivery>>
      BY <2>7 DEF Analyze
    <3>4. ReportTyped(report)
      BY <2>0, <3>1, <3>3, ReportsAreTyped
    <3> QED
      BY <2>0, <2>1, <3>2, <3>3, <3>4 DEF ReviewStatuses
  <2>8. CASE StoreArtifact
    <3> DEFINE kind == Outputs(review.report.findings)[Len(artifacts) + 1]
               a == [kind |-> kind,
                     report |-> IF kind = "trace" THEN EmptyReport ELSE review.report]
    <3>1. /\ artifacts' = Append(artifacts, a) /\ reviewStage = "store"
          /\ UNCHANGED <<review, reviewRow, product, retentions, space, delivery>>
      BY <2>8 DEF StoreArtifact
    <3>2. kind \in Kinds
      <4>1. Len(artifacts) < Len(Outputs(review.report.findings)) /\ Len(artifacts) \in Nat
        BY <2>00, <3>1 DEF ReviewsInv, Saving
      <4> DEFINE o == Outputs(review.report.findings)
      <4>2. o \in Seq(Kinds) /\ Len(o) \in Nat
        BY OutputsAreMany
      <4> HIDE DEF o
      <4>3. Len(artifacts) < Len(o)
        BY <4>1 DEF o
      <4>4. Len(artifacts) + 1 \in 1..Len(o)
        BY <4>1, <4>2, <4>3
      <4> QED
        BY <4>2, <4>4, ElementOfSeq DEF o
    <3> HIDE DEF kind
    <3>3. ArtifactTyped(a)
      BY <1>0, <2>0, <3>2 DEF ArtifactTyped
    <3> HIDE DEF a
    <3>4. /\ artifacts' \in Seq(S \cup {a}) /\ Len(artifacts') = Len(artifacts) + 1
          /\ Len(artifacts) \in Nat
          /\ \A n \in 1..Len(artifacts) + 1 :
                artifacts'[n] = IF n = Len(artifacts) + 1 THEN a ELSE artifacts[n]
      <4>1. artifacts \in Seq(S \cup {a})
        BY <2>00
      <4>2. artifacts' = Append(artifacts, a)
        BY <3>1
      <4> QED
        BY <4>1, <4>2, AppendProperties
    <3>5. \A n \in 1..Len(artifacts') : ArtifactTyped(artifacts'[n])
      <4> SUFFICES ASSUME NEW n \in 1..Len(artifacts') PROVE ArtifactTyped(artifacts'[n])
        OBVIOUS
      <4>1. CASE n = Len(artifacts) + 1
        <5>1. artifacts'[n] = a
          BY <3>4, <4>1
        <5> QED
          BY <3>3, <5>1
      <4>2. CASE n # Len(artifacts) + 1
        <5>1. n \in 1..Len(artifacts) /\ artifacts'[n] = artifacts[n]
          BY <3>4, <4>2
        <5> QED
          BY <2>0, <5>1
      <4> QED
        BY <4>1, <4>2
    <3>6. retentions' \in 0..Len(artifacts')
      BY <2>0, <3>1, <3>4
    <3>7. \E T : artifacts' \in Seq(T)
      BY <3>4
    <3> QED
      BY <2>0, <3>1, <3>5, <3>6, <3>7 DEF ReviewsTyped
  <2>9. CASE RetainArtifact
    <3>1. /\ retentions' = retentions + 1 /\ reviewStage = "retain"
          /\ review' = review \/ review' = [review EXCEPT !.status = "completed"]
          /\ UNCHANGED <<reviewRow, product, artifacts, space, delivery>>
      BY <2>9 DEF RetainArtifact
    <3>2. /\ review'.report = review.report /\ review'.status \in {review.status, "completed"}
          /\ review'.repo = review.repo
      BY <2>01, <3>1
    <3>3. retentions' \in 0..Len(artifacts)
      <4>1. retentions + 1 = Len(artifacts) /\ Len(artifacts) \in Nat
        BY <2>00, <3>1 DEF ReviewsInv, Saving
      <4> QED
        BY <3>1, <4>1
    <3> QED
      BY <2>0, <2>00, <3>1, <3>2, <3>3 DEF ReviewsTyped, ReviewStatuses
  <2>10. CASE CloseSpace
    <3>1. /\ UNCHANGED <<review, reviewRow, product, artifacts, retentions, delivery>>
          /\ reviewStage # "idle" /\ space' \in {space, "completed", "failed"}
      BY <2>10 DEF CloseSpace
    <3> QED
      BY <2>0, <2>1, <3>1
  <2>11. CASE Raises
    <3>1. /\ UNCHANGED <<reviewRow, product, artifacts, retentions, space, delivery>>
          /\ reviewStage # "idle"
          /\ \/ review' = review
             \/ \E now \in {"failed", "blocked", review.status} : review' = [review EXCEPT !.status = now]
      BY <2>11 DEF Raises, Guarded
    <3>2. /\ review'.report = review.report /\ review'.status \in {review.status, "failed", "blocked"}
          /\ review'.repo = review.repo
      BY <2>01, <3>1
    <3> QED
      BY <2>0, <2>1, <3>1, <3>2 DEF ReviewStatuses
  <2>12. CASE ReviewDeath
    BY <2>0, <2>1, <2>12 DEF ReviewDeath
  <2>13. CASE RequestDelivery
    <3>1. /\ UNCHANGED <<review, reviewRow, product, artifacts, retentions, space, reviewStage>>
          /\ delivery'.quorum = QuorumFor(reviewRow.report)
      BY <2>13 DEF RequestDelivery
    <3>2. delivery'.quorum \in 0..2
      BY <3>1 DEF QuorumFor
    <3> QED
      BY <2>0, <2>00, <3>1, <3>2 DEF ReviewsTyped
  <2>14. CASE UNCHANGED reviewVars
    BY <2>0, <2>1, <2>14 DEF reviewVars
  <2> QED
    BY <2>2, <2>3, <2>4, <2>5, <2>6, <2>7, <2>8, <2>9, <2>10, <2>11, <2>12, <2>13, <2>14
       DEF ReviewsNext
<1>3. ReviewsTyped => ReviewsTypeOK
  <2> SUFFICES ASSUME ReviewsTyped PROVE ReviewsTypeOK
    OBVIOUS
  <2>1. \A a \in ToSet(artifacts) : ArtifactTyped(a)
    BY DEF ReviewsTyped, ToSet
  <2>2. \A r \in {review.report, reviewRow.report} \cup {a.report : a \in ToSet(artifacts)} :
           ReportTyped(r)
    BY <2>1 DEF ReviewsTyped, ArtifactTyped
  <2> QED
    BY <2>1, <2>2 DEF ReviewsTyped, ReviewsTypeOK, ReportTyped, ArtifactTyped, ReportVerdicts
<1> QED
  BY <1>1, <1>2, <1>3, ReviewsInvariant, PTL DEF ReviewsSpec

-------------------------------------------------------------------------------
(***************************************************************************)
(* The work loop: the line of work, and when its worker pauses              *)
(***************************************************************************)

Failure(i) == outcomes[i].mark = "failed"

\* What the strikes count, unless the last outcome is a success still being told of: the
\* failures since the last success or pause.  Only during a pause are there enough for one.
StrikesAreARow ==
    LET last == Len(outcomes)
    IN  /\ InARow(strikes, last)
        /\ \/ strikes = last
           \/ last - strikes \in pauses
           \/ ~Failure(last - strikes)
StrikesInv ==
    LET last == Len(outcomes)
    IN  /\ workerAt \in {"off", "resting", "working"} =>
              StrikesAreARow /\ strikes < Patience /\ (last \in pauses => strikes = 0)
        /\ workerAt = "telling" =>
              /\ last # 0 /\ last \notin pauses
              /\ Failure(last) => StrikesAreARow
        /\ workerAt = "pausing" => last \in pauses
WorkInv == WorkTypeOK /\ WorkIsKept /\ StrikesInv /\ PausesWhenItShould

\* What add_work takes are pieces of work, and they fit.
LEMMA FittingFits ==
    ASSUME WorkTypeOK, NEW l \in Seq(Works), NEW chat \in WorkChats
    PROVE  /\ Fitting(l, chat) \in Seq(Pieces)
           /\ Len(workQueue) + Len(Fitting(l, chat)) <= QueueSize
<1> DEFINE n == Smaller(Len(l), QueueSize - Len(workQueue))
<1>1. /\ l \in Seq(Works) /\ Len(l) \in Nat /\ Len(workQueue) \in Nat /\ QueueSize \in Nat
      /\ Len(workQueue) <= QueueSize
  BY WorkLoopAssumption DEF WorkTypeOK
<1>2. n \in Nat /\ n <= Len(l) /\ n <= QueueSize - Len(workQueue)
  BY <1>1 DEF Smaller
<1>3. Fitting(l, chat) = [i \in 1..n |-> [what |-> l[i], chat |-> chat]]
  BY DEF Fitting
<1> HIDE DEF n
<1>4. \A i \in 1..n : [what |-> l[i], chat |-> chat] \in Pieces
  BY <1>1, <1>2 DEF Pieces
<1>5. Fitting(l, chat) \in Seq(Pieces) /\ Len(Fitting(l, chat)) = n
  BY <1>2, <1>3, <1>4
<1> QED
  BY <1>1, <1>2, <1>5

\* The pieces that are done are a sequence of pieces.
LEMMA DoneIsSeq ==
    ASSUME WorkTypeOK
    PROVE  DonePieces \in Seq(Pieces)
<1>1. outcomes \in Seq([piece : Pieces, mark : Marks]) /\ Len(outcomes) \in Nat
  BY DEF WorkTypeOK
<1>2. DOMAIN outcomes = 1..Len(outcomes) /\ \A i \in DOMAIN outcomes : outcomes[i].piece \in Pieces
  <2>1. \A i \in 1..Len(outcomes) : outcomes[i] \in [piece : Pieces, mark : Marks]
    BY <1>1, ElementOfSeq
  <2>2. DOMAIN outcomes = 1..Len(outcomes)
    BY <1>1
  <2>3. \A o \in [piece : Pieces, mark : Marks] : o.piece \in Pieces
    OBVIOUS
  <2> QED
    BY <2>1, <2>2, <2>3
<1>3. DonePieces = [i \in 1..Len(outcomes) |-> outcomes[i].piece]
  BY <1>2, <1>1 DEF DonePieces
<1> QED
  BY <1>1, <1>2, <1>3

\* Work is put at the end of the line, ...
LEMMA QueueKeepsLine ==
    ASSUME WorkTypeOK, WorkIsKept, NEW f \in Seq(Pieces),
           workQueue' = workQueue \o f, workAccepted' = workAccepted \o f,
           UNCHANGED <<inHand, outcomes>>
    PROVE  WorkIsKept'
<1>1. DonePieces' = DonePieces
  BY DEF DonePieces
<1>2. DonePieces \in Seq(Pieces) /\ inHand \in Seq(Pieces) /\ workQueue \in Seq(Pieces)
  <2>1. inHand \in Seq(Pieces)
    <3>1. CASE inHand = <<>>
      BY <3>1
    <3>2. ASSUME NEW p \in Pieces, inHand = <<p>> PROVE inHand \in Seq(Pieces)
      BY <3>2
    <3> QED BY <3>1, <3>2 DEF WorkTypeOK
  <2> QED
    BY <2>1, DoneIsSeq DEF WorkTypeOK
<1>3. DonePieces \o inHand \in Seq(Pieces)
  BY <1>2, ConcatProperties
<1>4. (DonePieces \o inHand) \o (workQueue \o f) = ((DonePieces \o inHand) \o workQueue) \o f
  <2> DEFINE front == DonePieces \o inHand
  <2>1. front \in Seq(Pieces) /\ workQueue \in Seq(Pieces) /\ f \in Seq(Pieces)
    BY <1>2, <1>3
  <2> HIDE DEF front
  <2>2. (front \o workQueue) \o f = front \o (workQueue \o f)
    BY <2>1, ConcatAssociative
  <2> QED
    BY <2>2 DEF front
<1> QED
  BY <1>1, <1>4 DEF WorkIsKept

\* ... taken at its front, ...
LEMMA TakeKeepsLine ==
    ASSUME WorkTypeOK, WorkIsKept, inHand = <<>>, workQueue # <<>>,
           inHand' = <<Head(workQueue)>>, workQueue' = Tail(workQueue),
           UNCHANGED <<workAccepted, outcomes>>
    PROVE  WorkIsKept'
<1>1. DonePieces' = DonePieces
  BY DEF DonePieces
<1>2. /\ DonePieces \in Seq(Pieces) /\ workQueue \in Seq(Pieces)
      /\ Tail(workQueue) \in Seq(Pieces) /\ Head(workQueue) \in Pieces
  BY DoneIsSeq DEF WorkTypeOK
<1>3. <<Head(workQueue)>> \in Seq(Pieces)
  BY <1>2
<1>4. <<Head(workQueue)>> \o Tail(workQueue) = workQueue
  BY <1>2, <1>3
<1>5. (DonePieces \o <<Head(workQueue)>>) \o Tail(workQueue)
         = DonePieces \o (<<Head(workQueue)>> \o Tail(workQueue))
  BY <1>2, <1>3, ConcatAssociative
<1>6. DonePieces \o <<>> = DonePieces
  BY <1>2, ConcatEmptySeq
<1> QED
  BY <1>1, <1>4, <1>5, <1>6 DEF WorkIsKept

\* ... and goes from the worker's hand to what is done.
LEMMA EndKeepsLine ==
    ASSUME WorkTypeOK, WorkIsKept, NEW mark \in Marks, NEW p \in Pieces, inHand = <<p>>,
           outcomes' = Append(outcomes, [piece |-> p, mark |-> mark]), inHand' = <<>>,
           UNCHANGED <<workQueue, workAccepted>>
    PROVE  WorkIsKept'
<1>1. /\ DonePieces \in Seq(Pieces) /\ outcomes \in Seq([piece : Pieces, mark : Marks])
      /\ Len(outcomes) \in Nat /\ DOMAIN outcomes = 1..Len(outcomes)
  BY DoneIsSeq DEF WorkTypeOK
<1>2. /\ DOMAIN outcomes' = 1..Len(outcomes) + 1
      /\ \A i \in 1..Len(outcomes) : outcomes'[i] = outcomes[i]
      /\ outcomes'[Len(outcomes) + 1].piece = p
  BY <1>1
<1>3. DonePieces' = Append(DonePieces, p)
  <2>1. DOMAIN DonePieces = 1..Len(outcomes) /\ Len(DonePieces) = Len(outcomes)
    BY <1>1 DEF DonePieces
  <2>2. /\ DOMAIN Append(DonePieces, p) = 1..Len(outcomes) + 1
        /\ \A i \in 1..Len(outcomes) : Append(DonePieces, p)[i] = outcomes[i].piece
        /\ Append(DonePieces, p)[Len(outcomes) + 1] = p
    BY <1>1, <2>1 DEF DonePieces
  <2>3. DonePieces' = [i \in 1..Len(outcomes) + 1 |-> outcomes'[i].piece]
    BY <1>2 DEF DonePieces
  <2>4. Append(DonePieces, p) = [i \in 1..Len(outcomes) + 1 |-> Append(DonePieces, p)[i]]
    <3>1. Append(DonePieces, p) \in Seq(Pieces)
      BY <1>1
    <3>2. Len(Append(DonePieces, p)) = Len(outcomes) + 1
      BY <1>1, <2>1
    <3>3. \A s \in Seq(Pieces) : s = [i \in 1..Len(s) |-> s[i]]
      OBVIOUS
    <3> QED BY <3>1, <3>2, <3>3
  <2>5. \A i \in 1..Len(outcomes) + 1 : Append(DonePieces, p)[i] = outcomes'[i].piece
    <3>1. \A i \in 1..Len(outcomes) + 1 : i \in 1..Len(outcomes) \/ i = Len(outcomes) + 1
      BY <1>1
    <3> QED BY <1>2, <2>2, <3>1
  <2> QED
    BY <2>3, <2>4, <2>5
<1>4. DonePieces' = DonePieces \o <<p>>
  BY <1>1, <1>3, AppendIsConcat
<1>5. DonePieces' \o <<>> = DonePieces'
  <2>1. DonePieces' \in Seq(Pieces)
    BY <1>1, <1>3
  <2> QED BY <2>1, ConcatEmptySeq
<1> QED
  BY <1>4, <1>5 DEF WorkIsKept

-------------------------------------------------------------------------------
\* A step that adds no outcome and no pause, and takes nothing, leaves the strikes as they
\* are wherever they are asked for.
LEMMA StrikesStand ==
    ASSUME WorkInv, UNCHANGED <<inHand, outcomes, strikes, pauses>>,
           \/ workerAt' \in {workerAt, "stopped"}
           \/ workerAt = "off" /\ workerAt' = "resting"
    PROVE  StrikesInv' /\ PausesWhenItShould'
BY DEF WorkInv, WorkTypeOK, StrikesInv, StrikesAreARow, Failure, InARow, PausesWhenItShould

\* What the outcomes are once one is added
LEMMA OutcomeIsAdded ==
    ASSUME WorkTypeOK, NEW p \in Pieces, NEW mark \in Marks,
           outcomes' = Append(outcomes, [piece |-> p, mark |-> mark])
    PROVE  /\ outcomes' \in Seq([piece : Pieces, mark : Marks])
           /\ Len(outcomes) \in Nat /\ Len(outcomes') = Len(outcomes) + 1
           /\ DOMAIN outcomes = 1..Len(outcomes) /\ DOMAIN outcomes' = 1..Len(outcomes) + 1
           /\ \A i \in 1..Len(outcomes) : outcomes'[i] = outcomes[i]
           /\ outcomes'[Len(outcomes) + 1].mark = mark
BY DEF WorkTypeOK

\* Enough failures in a row are never waited for while the worker rests: it paused.
LEMMA RestingMeansPaused ==
    ASSUME WorkInv, workerAt \in {"off", "resting", "working"}, InARow(Patience, Len(outcomes)),
           Len(outcomes) # 0
    PROVE  Len(outcomes) \in pauses
<1> DEFINE last == Len(outcomes)
<1>1. /\ StrikesAreARow /\ strikes < Patience
      /\ last \in Nat /\ strikes \in Nat /\ Patience \in Nat /\ DOMAIN outcomes = 1..last
      /\ pauses \subseteq 1..last
  BY WorkLoopAssumption DEF WorkInv, StrikesInv, WorkTypeOK
<1>2. Patience <= last /\ strikes <= last /\ last # 0
  BY <1>1 DEF InARow, StrikesAreARow
<1>0. /\ strikes = last \/ last - strikes \in pauses \/ ~Failure(last - strikes)
      /\ \A i \in 1..last : last - Patience < i /\ i <= last =>
            Failure(i) /\ (i # last => i \notin pauses)
  BY <1>1 DEF StrikesAreARow, InARow, Failure
<1> HIDE DEF last
<1>3. strikes # last
  BY <1>1, <1>2
<1>4. last - strikes \in 1..last /\ last - Patience < last - strikes /\ last - strikes <= last
  BY <1>1, <1>2, <1>3
<1>5. Failure(last - strikes) /\ (last - strikes # last => last - strikes \notin pauses)
  BY <1>0, <1>4
<1>6. last \in pauses
  BY <1>0, <1>3, <1>5
<1> QED
  BY <1>6 DEF last

\* What StrikesAreARow says of the failures the strikes count
LEMMA RowOfFailures ==
    ASSUME WorkTypeOK, StrikesAreARow
    PROVE  /\ strikes <= Len(outcomes)
           /\ \A i \in 1..Len(outcomes) : Len(outcomes) - strikes < i =>
                 Failure(i) /\ (i # Len(outcomes) => i \notin pauses)
<1>1. DOMAIN outcomes = 1..Len(outcomes) /\ Len(outcomes) \in Nat
  BY DEF WorkTypeOK
<1>2. \A i \in 1..Len(outcomes) : i <= Len(outcomes)
  BY <1>1
<1> QED
  BY <1>1, <1>2 DEF StrikesAreARow, InARow, Failure

\* A row of failures does not depend on what comes after it.
LEMMA RowStands ==
    ASSUME WorkTypeOK, NEW p \in Pieces, NEW mark \in Marks,
           outcomes' = Append(outcomes, [piece |-> p, mark |-> mark]),
           pauses' \subseteq pauses \cup {Len(outcomes) + 1}, pauses \subseteq pauses',
           NEW k \in 1..Len(outcomes), NEW n \in Nat
    PROVE  InARow(n, k)' <=> InARow(n, k)
<1>1. /\ Len(outcomes) \in Nat /\ DOMAIN outcomes = 1..Len(outcomes)
      /\ DOMAIN outcomes' = 1..Len(outcomes) + 1
      /\ \A i \in 1..Len(outcomes) : outcomes'[i] = outcomes[i]
  BY OutcomeIsAdded
<1>2. \A i \in 1..Len(outcomes) : i \in pauses' <=> i \in pauses
  BY <1>1
<1>3. \A i \in 1..Len(outcomes) + 1 : i <= k => i \in 1..Len(outcomes)
  BY <1>1
<1>4. \A i \in 1..Len(outcomes) : i \in 1..Len(outcomes) + 1
  BY <1>1
<1> QED
  BY <1>1, <1>2, <1>3, <1>4 DEF InARow

\* The pauses of a behaviour that goes on are those there were and perhaps one for the last.
LEMMA PausesGoOn ==
    ASSUME WorkInv, workerAt = "working", NEW p \in Pieces, NEW mark \in Marks,
           outcomes' = Append(outcomes, [piece |-> p, mark |-> mark]), inHand # <<>>,
           inHand' = <<>>, pauses' \subseteq pauses \cup {Len(outcomes) + 1},
           pauses \subseteq pauses', NEW n \in Nat, n = Len(outcomes) + 1,
           n \in pauses' => InARow(Patience, n)'
    PROVE  PausesWhenItShould'
<1>1. /\ Len(outcomes) \in Nat /\ DOMAIN outcomes = 1..Len(outcomes)
      /\ DOMAIN outcomes' = 1..n /\ Len(outcomes') = n
      /\ Patience \in Nat
  BY OutcomeIsAdded, WorkLoopAssumption DEF WorkInv
<1>2. SUFFICES ASSUME NEW k \in 1..n
               PROVE  /\ k \in pauses' => InARow(Patience, k)'
                      /\ InARow(Patience, k)' /\ k < n => k \in pauses'
  BY <1>1 DEF PausesWhenItShould
<1>3. CASE k = n
  BY <1>1, <1>3
<1>4. CASE k # n
  <2>1. k \in 1..Len(outcomes)
    BY <1>1, <1>4
  <2>2. InARow(Patience, k)' <=> InARow(Patience, k)
    BY <1>1, <2>1, RowStands DEF WorkInv
  <2>3. (k \in pauses => InARow(Patience, k)) /\ (InARow(Patience, k) => k \in pauses)
    BY <1>1, <2>1 DEF WorkInv, PausesWhenItShould
  <2>4. k \in pauses' <=> k \in pauses
    BY <1>1, <2>1
  <2> QED
    BY <2>2, <2>3, <2>4
<1> QED
  BY <1>3, <1>4

\* One more failure makes the row of them one longer, ...
LEMMA FailureCounts ==
    ASSUME WorkInv, workerAt = "working", NEW p \in Pieces,
           NEW n \in Nat, n = Len(outcomes), NEW s \in Nat, s = strikes,
           outcomes' = Append(outcomes, [piece |-> p, mark |-> "failed"]),
           strikes' = strikes + 1, pauses' = pauses
    PROVE  StrikesAreARow' /\ strikes' <= Patience
<1>1. /\ Len(outcomes) \in Nat /\ DOMAIN outcomes = 1..Len(outcomes) /\ "failed" \in Marks
      /\ DOMAIN outcomes' = 1..Len(outcomes) + 1 /\ Len(outcomes') = Len(outcomes) + 1
      /\ \A i \in 1..Len(outcomes) : outcomes'[i] = outcomes[i]
      /\ outcomes'[Len(outcomes) + 1].mark = "failed"
      /\ Patience \in Nat
  BY OutcomeIsAdded, WorkLoopAssumption DEF WorkInv, WorkTypeOK, Marks
<1>2. StrikesAreARow /\ strikes < Patience /\ (n \in pauses => strikes = 0)
  BY DEF WorkInv, StrikesInv
<1>3. /\ strikes <= n
      /\ \A i \in 1..n : n - s < i =>
            outcomes[i].mark = "failed" /\ (i # n => i \notin pauses)
  BY <1>2, RowOfFailures DEF WorkInv, Failure
<1>4. InARow(s + 1, n + 1)'
  <2>1. s + 1 <= n + 1
    BY <1>1, <1>3
  <2>2. ASSUME NEW i \in 1..n + 1, n + 1 - (s + 1) < i
        PROVE  /\ outcomes'[i].mark = "failed"
               /\ i # n + 1 => i \notin pauses
    <3>1. CASE i = n + 1
      BY <1>1, <3>1
    <3>2. CASE i # n + 1
      <4>1. i \in 1..n /\ n - s < i
        BY <1>1, <2>2, <3>2
      <4>2. i = n => i \notin pauses
        BY <1>1, <1>2, <4>1
      <4> QED
        BY <1>1, <1>3, <4>1, <4>2
    <3> QED
      BY <3>1, <3>2
  <2> QED
    BY <1>1, <2>1, <2>2 DEF InARow
<1>5. n + 1 - (s + 1) = n - s /\ Len(outcomes') = n + 1 /\ strikes' = s + 1
  BY <1>1
<1>6. \/ s + 1 = n + 1
      \/ n - s \in pauses
      \/ outcomes'[n - s].mark # "failed"
  <2>1. CASE strikes = n
    BY <2>1
  <2>2. CASE strikes # n
    <3>1. n - s \in 1..n
      BY <1>1, <1>3, <2>2
    <3> QED
      BY <1>1, <1>2, <2>2, <3>1 DEF StrikesAreARow, Failure
  <2> QED
    BY <2>1, <2>2
<1>7. strikes' <= Patience
  BY <1>1, <1>2
<1>8. StrikesAreARow'
  BY <1>4, <1>5, <1>6 DEF StrikesAreARow, Failure, InARow
<1> QED
  BY <1>7, <1>8

\* ... and a success ends it.
LEMMA SuccessEndsRow ==
    ASSUME outcomes' \in Seq([piece : Pieces, mark : Marks]), NEW n \in Nat, Len(outcomes') = n,
           outcomes'[n].mark # "failed", strikes' = 0
    PROVE  StrikesAreARow'
<1>1. DOMAIN outcomes' = 1..n /\ 0 <= n /\ n - 0 = n
  OBVIOUS
<1>2. \A i \in 1..n : ~(n - 0 < i /\ i <= n)
  OBVIOUS
<1>3. InARow(0, n)'
  BY <1>1, <1>2 DEF InARow
<1> QED
  BY <1>1, <1>3 DEF StrikesAreARow, Failure

\* The worker ends a piece.
LEMMA EndKeepsStrikes ==
    ASSUME WorkInv, NEW mark \in Marks, EndPiece(mark)
    PROVE  WorkTypeOK' /\ StrikesInv' /\ PausesWhenItShould'
<1>0. PICK n \in Nat : n = Len(outcomes)
  BY DEF WorkInv, WorkTypeOK
<1>1. /\ WorkTypeOK /\ StrikesAreARow /\ strikes < Patience /\ (n \in pauses => strikes = 0)
      /\ workerAt = "working" /\ inHand # <<>> /\ strikes \in Nat
      /\ Patience \in Nat /\ Patience # 0 /\ n \in Nat
  BY <1>0, WorkLoopAssumption DEF WorkInv, StrikesInv, WorkTypeOK, EndPiece
<1>2. PICK p \in Pieces : inHand = <<p>>
  BY <1>1 DEF WorkTypeOK
<1>3. /\ outcomes' = Append(outcomes, [piece |-> p, mark |-> mark]) /\ inHand' = <<>>
      /\ UNCHANGED <<workQueue, workAccepted>>
  BY <1>2 DEF EndPiece
<1>4. /\ outcomes' \in Seq([piece : Pieces, mark : Marks]) /\ Len(outcomes') = n + 1
      /\ DOMAIN outcomes = 1..n /\ DOMAIN outcomes' = 1..n + 1
      /\ \A i \in 1..n : outcomes'[i] = outcomes[i]
      /\ outcomes'[n + 1].mark = mark
  BY <1>0, <1>1, <1>3, OutcomeIsAdded
<1>5. pauses \subseteq 1..n /\ n + 1 \notin pauses /\ pauses \subseteq 1..n + 1
  BY <1>1, <1>4 DEF WorkTypeOK
<1>6. /\ workerAt' \in {"resting", "telling", "pausing"} /\ strikes' \in 0..Patience
      /\ pauses' \subseteq 1..n + 1
      => WorkTypeOK'
  BY <1>1, <1>3, <1>4 DEF WorkTypeOK
<1>7. /\ workerAt' = "telling" /\ pauses' = pauses
      /\ strikes' = (IF mark = "failed" THEN strikes + 1 ELSE strikes)
  BY DEF EndPiece
<1>8. PausesWhenItShould'
  <2>1. n = Len(outcomes) /\ n + 1 = Len(outcomes) + 1 /\ n + 1 \in Nat
    BY <1>0
  <2> QED
    BY <1>1, <1>3, <1>5, <1>7, <2>1, PausesGoOn
<1>9. CASE mark = "done"
  <2>1. strikes' \in 0..Patience
    BY <1>1, <1>7, <1>9
  <2>2. StrikesInv'
    BY <1>4, <1>5, <1>7, <1>9 DEF StrikesInv, Failure
  <2> QED
    BY <1>5, <1>6, <1>7, <1>8, <2>1, <2>2
<1>10. CASE mark = "failed"
  <2>1. StrikesAreARow' /\ strikes' <= Patience
    BY <1>0, <1>1, <1>3, <1>7, <1>10, FailureCounts
  <2>2. strikes' \in 0..Patience
    BY <1>1, <1>7, <1>10, <2>1
  <2>3. StrikesInv'
    BY <1>1, <1>4, <1>5, <1>7, <2>1 DEF StrikesInv
  <2> QED
    BY <1>5, <1>6, <1>7, <1>8, <2>2, <2>3
<1> QED
  BY <1>9, <1>10 DEF Marks

\* The worker takes a piece: it does not when it should have paused.
LEMMA TakeKeepsStrikes ==
    ASSUME WorkInv, TakePiece
    PROVE  WorkTypeOK' /\ StrikesInv' /\ PausesWhenItShould'
<1>1. /\ workerAt = "resting" /\ workerAt' = "working" /\ workQueue # <<>> /\ inHand = <<>>
      /\ inHand' = <<Head(workQueue)>> /\ workQueue' = Tail(workQueue)
      /\ UNCHANGED <<strikes, workAccepted, outcomes, pauses>>
  BY DEF TakePiece, WorkInv, WorkTypeOK
<1>2. /\ workQueue \in Seq(Pieces) /\ Len(workQueue) <= QueueSize /\ QueueSize \in Nat
      /\ Len(outcomes) \in Nat /\ DOMAIN outcomes = 1..Len(outcomes)
  BY WorkLoopAssumption DEF WorkInv, WorkTypeOK
<1>3. WorkTypeOK'
  <2>1. /\ Tail(workQueue) \in Seq(Pieces) /\ Len(Tail(workQueue)) <= QueueSize
        /\ Head(workQueue) \in Pieces
    BY <1>1, <1>2
  <2>2. inHand' \in {<<q>> : q \in Pieces} /\ inHand' # <<>>
    BY <1>1, <2>1
  <2> QED
    BY <1>1, <2>1, <2>2 DEF WorkInv, WorkTypeOK
<1>4. StrikesInv'
  BY <1>1 DEF WorkInv, StrikesInv, StrikesAreARow, InARow, Failure
<1>5. PausesWhenItShould'
  <2>1. Len(outcomes) # 0 /\ InARow(Patience, Len(outcomes)) => Len(outcomes) \in pauses
    BY <1>1, RestingMeansPaused
  <2>2. \A k \in DOMAIN outcomes : InARow(Patience, k)' <=> InARow(Patience, k)
    BY <1>1 DEF InARow
  <2>3. \A k \in DOMAIN outcomes :
           /\ k \in pauses => InARow(Patience, k)
           /\ InARow(Patience, k) => k \in pauses
    BY <1>2, <2>1 DEF WorkInv, PausesWhenItShould
  <2> QED
    BY <1>1, <2>2, <2>3 DEF PausesWhenItShould
<1> QED
  BY <1>3, <1>4, <1>5

\* A chat was told, and now the strikes are counted.
LEMMA ToldKeepsStrikes ==
    ASSUME WorkInv, Told
    PROVE  WorkTypeOK' /\ StrikesInv' /\ PausesWhenItShould'
<1>0. PICK n \in Nat : n = Len(outcomes)
  BY DEF WorkInv, WorkTypeOK
<1>1. /\ workerAt = "telling" /\ inHand = <<>> /\ n # 0 /\ n \notin pauses
      /\ Failure(n) => StrikesAreARow
      /\ DOMAIN outcomes = 1..n /\ pauses \subseteq 1..n /\ n \in 1..n
      /\ outcomes \in Seq([piece : Pieces, mark : Marks])
      /\ strikes \in 0..Patience /\ Patience \in Nat /\ Patience # 0
      /\ UNCHANGED <<workQueue, inHand, workAccepted, outcomes>>
  BY <1>0, WorkLoopAssumption DEF Told, WorkInv, StrikesInv, WorkTypeOK
<1>2. outcomes[n].mark \in Marks
  <2>1. outcomes[n] \in [piece : Pieces, mark : Marks]
    BY <1>0, <1>1, ElementOfSeq
  <2> QED
    BY <2>1
<1>3. /\ workerAt' \in {"resting", "pausing"} /\ strikes' \in 0..Patience
      /\ pauses' \subseteq 1..n
      => WorkTypeOK'
  BY <1>1 DEF WorkInv, WorkTypeOK
<1>4. CASE outcomes[n].mark = "done" /\ workerAt' = "resting" /\ strikes' = 0 /\ pauses' = pauses
  <2>1. StrikesAreARow'
    BY <1>0, <1>1, <1>4, SuccessEndsRow
  <2>2. StrikesInv'
    BY <1>0, <1>1, <1>4, <2>1 DEF StrikesInv
  <2>3. PausesWhenItShould'
    BY <1>0, <1>1, <1>4 DEF WorkInv, PausesWhenItShould, InARow
  <2> QED
    BY <1>1, <1>3, <1>4, <2>2, <2>3
<1>5. CASE /\ outcomes[n].mark = "failed" /\ workerAt' = "resting" /\ strikes' = strikes
           /\ strikes < Patience /\ pauses' = pauses
  <2>1. StrikesAreARow
    BY <1>1, <1>5 DEF Failure
  <2>2. StrikesInv'
    BY <1>0, <1>1, <1>5, <2>1 DEF StrikesInv, StrikesAreARow, InARow, Failure
  <2>3. PausesWhenItShould'
    BY <1>0, <1>1, <1>5 DEF WorkInv, PausesWhenItShould, InARow
  <2> QED
    BY <1>1, <1>3, <1>5, <2>2, <2>3
<1>6. CASE /\ outcomes[n].mark = "failed" /\ workerAt' = "pausing" /\ strikes' = strikes
           /\ strikes >= Patience /\ pauses' = pauses \cup {n}
  <2>1. StrikesAreARow /\ strikes = Patience
    BY <1>1, <1>6 DEF Failure
  <2>2. InARow(Patience, n)
    BY <1>0, <2>1 DEF StrikesAreARow
  <2>3. InARow(Patience, n)'
    BY <1>1, <1>6, <2>2 DEF InARow
  <2>4. ASSUME NEW k \in 1..n, k # n
        PROVE  InARow(Patience, k)' <=> InARow(Patience, k)
    <3>1. \A i \in 1..n : i <= k => i # n
      BY <2>4
    <3> QED
      BY <1>1, <1>6, <3>1 DEF InARow
  <2>5. \A k \in 1..n : k # n => (k \in pauses' <=> k \in pauses)
    BY <1>6
  <2>6. \A k \in 1..n : k # n => k < n
    BY <1>0
  <2>7. \A k \in 1..n : k \in pauses' => InARow(Patience, k)'
    BY <1>0, <1>1, <1>6, <2>3, <2>4, <2>5 DEF WorkInv, PausesWhenItShould
  <2>8. \A k \in 1..n : InARow(Patience, k)' => k \in pauses'
    BY <1>0, <1>1, <1>6, <2>4, <2>5, <2>6 DEF WorkInv, PausesWhenItShould
  <2>9. PausesWhenItShould'
    BY <1>1, <2>7, <2>8 DEF PausesWhenItShould
  <2>10. StrikesInv'
    BY <1>0, <1>1, <1>6 DEF StrikesInv
  <2> QED
    BY <1>1, <1>3, <1>6, <2>9, <2>10
<1>7. \/ outcomes[n].mark = "done" /\ workerAt' = "resting" /\ strikes' = 0 /\ pauses' = pauses
      \/ /\ outcomes[n].mark = "failed" /\ workerAt' = "resting" /\ strikes' = strikes
         /\ strikes < Patience /\ pauses' = pauses
      \/ /\ outcomes[n].mark = "failed" /\ workerAt' = "pausing" /\ strikes' = strikes
         /\ strikes >= Patience /\ pauses' = pauses \cup {n}
  BY <1>0, <1>1, <1>2 DEF Told, GoesTo, Marks
<1> QED
  BY <1>4, <1>5, <1>6, <1>7

\* A pause that is over, or a process that begins, has counted nothing yet.
LEMMA FreshStrikes ==
    ASSUME WorkInv, PauseEnds
    PROVE  StrikesInv' /\ PausesWhenItShould'
<1>0. PICK n \in Nat : n = Len(outcomes)
  BY DEF WorkInv, WorkTypeOK
<1>1. /\ n \in pauses /\ DOMAIN outcomes = 1..n /\ Patience \in Nat /\ Patience # 0
      /\ workerAt' = "resting" /\ strikes' = 0 /\ UNCHANGED <<inHand, outcomes, pauses>>
  BY <1>0, WorkLoopAssumption DEF WorkInv, StrikesInv, WorkTypeOK, PauseEnds
<1>2. \A i \in 1..n : ~(n - 0 < i /\ i <= n)
  OBVIOUS
<1>3. InARow(0, n)' /\ n - 0 = n
  BY <1>1, <1>2 DEF InARow
<1>4. StrikesAreARow'
  BY <1>0, <1>1, <1>3 DEF StrikesAreARow
<1>5. StrikesInv'
  BY <1>0, <1>1, <1>4 DEF StrikesInv
<1>6. PausesWhenItShould'
  BY <1>1 DEF WorkInv, PausesWhenItShould, InARow
<1> QED
  BY <1>5, <1>6

\* A process that begins: nothing was accepted and nothing done.
LEMMA FreshProcess ==
    /\ WorkInit => WorkInv
    /\ WorkRestart => WorkInv'
<1>1. Patience \in Nat /\ Patience # 0 /\ QueueSize \in Nat
  BY WorkLoopAssumption
<1>2. ASSUME WorkInit PROVE WorkInv
  <2>1. /\ workQueue = <<>> /\ inHand = <<>> /\ workerAt = "off" /\ strikes = 0
        /\ workAccepted = <<>> /\ outcomes = <<>> /\ pauses = {}
    BY <1>2 DEF WorkInit
  <2>2. DonePieces = <<>>
    BY <2>1 DEF DonePieces
  <2>3. WorkTypeOK
    BY <1>1, <2>1 DEF WorkTypeOK
  <2>4. WorkIsKept
    BY <2>1, <2>2 DEF WorkIsKept
  <2>5. StrikesInv
    BY <1>1, <2>1 DEF StrikesInv, StrikesAreARow, InARow
  <2>6. PausesWhenItShould
    BY <2>1 DEF PausesWhenItShould
  <2> QED
    BY <2>3, <2>4, <2>5, <2>6 DEF WorkInv
<1>3. ASSUME WorkRestart PROVE WorkInv'
  <2>1. /\ workQueue' = <<>> /\ inHand' = <<>> /\ workerAt' = "off" /\ strikes' = 0
        /\ workAccepted' = <<>> /\ outcomes' = <<>> /\ pauses' = {}
    BY <1>3 DEF WorkRestart
  <2>2. DonePieces' = <<>>
    BY <2>1 DEF DonePieces
  <2>3. WorkTypeOK'
    BY <1>1, <2>1 DEF WorkTypeOK
  <2>4. WorkIsKept'
    BY <2>1, <2>2 DEF WorkIsKept
  <2>5. StrikesInv'
    BY <1>1, <2>1 DEF StrikesInv, StrikesAreARow, InARow
  <2>6. PausesWhenItShould'
    BY <2>1 DEF PausesWhenItShould
  <2> QED
    BY <2>3, <2>4, <2>5, <2>6 DEF WorkInv
<1> QED
  BY <1>2, <1>3

-------------------------------------------------------------------------------
\* Every step of the work loop keeps its invariant.
LEMMA WorkStepKeeps ==
    ASSUME WorkInv, [WorkNext]_workVars
    PROVE  WorkInv'
<1>0. WorkTypeOK /\ WorkIsKept /\ StrikesInv /\ PausesWhenItShould
  BY DEF WorkInv
<1>1. CASE StartWorker
  BY <1>0, <1>1, StrikesStand DEF StartWorker, WorkInv, WorkTypeOK, WorkIsKept, DonePieces
<1>2. CASE StopWorker
  BY <1>0, <1>2, StrikesStand DEF StopWorker, WorkInv, WorkTypeOK, WorkIsKept, DonePieces
<1>3. CASE TakePiece
  <2>1. WorkIsKept'
    BY <1>0, <1>3, TakeKeepsLine DEF TakePiece, WorkTypeOK
  <2> QED
    BY <1>3, <2>1, TakeKeepsStrikes DEF WorkInv
<1>4. CASE Told
  <2>1. WorkIsKept'
    BY <1>0, <1>4 DEF Told, WorkIsKept, DonePieces
  <2> QED
    BY <1>4, <2>1, ToldKeepsStrikes DEF WorkInv
<1>5. CASE PauseEnds
  <2>1. WorkTypeOK'
    BY <1>0, <1>5, WorkLoopAssumption DEF PauseEnds, WorkTypeOK
  <2>2. WorkIsKept'
    BY <1>0, <1>5 DEF PauseEnds, WorkIsKept, DonePieces
  <2> QED
    BY <1>5, <2>1, <2>2, FreshStrikes DEF WorkInv
<1>6. CASE WorkRestart
  BY <1>6, FreshProcess
<1>7. ASSUME NEW mark \in Marks, EndPiece(mark) PROVE WorkInv'
  <2>1. PICK p \in Pieces : inHand = <<p>>
    BY <1>0, <1>7 DEF EndPiece, WorkTypeOK
  <2>2. /\ outcomes' = Append(outcomes, [piece |-> p, mark |-> mark]) /\ inHand' = <<>>
        /\ UNCHANGED <<workQueue, workAccepted>>
    BY <1>7, <2>1 DEF EndPiece
  <2>3. WorkIsKept'
    BY <1>0, <2>1, <2>2, EndKeepsLine
  <2> QED
    BY <1>7, <2>3, EndKeepsStrikes DEF WorkInv
<1>8. ASSUME NEW m \in WorkMessages, NEW chat \in WorkChats,
             NEW group \in BOOLEAN, NEW owner \in BOOLEAN, QueueWork(m, chat, group, owner)
      PROVE  WorkInv'
  <2> DEFINE l == ListedWork(m)
             f == Fitting(l, chat)
  <2>0. l \in Seq(Works)
    <3>1. m.items \in Seq(Works)
      BY WorkLoopAssumption DEF IsWorkMessage
    <3>2. l = m.items \/ l = <<>>
      BY DEF ListedWork
    <3>3. <<>> \in Seq(Works)
      OBVIOUS
    <3> HIDE DEF l
    <3> QED BY <3>1, <3>2, <3>3
  <2>1. f \in Seq(Pieces) /\ Len(workQueue) + Len(f) <= QueueSize
    BY <1>0, <2>0, FittingFits
  <2>2. /\ workQueue' = workQueue \o f /\ workAccepted' = workAccepted \o f
        /\ UNCHANGED <<inHand, workerAt, strikes, outcomes, pauses>>
    BY <1>8 DEF QueueWork
  <2> HIDE DEF f
  <2>3. WorkIsKept'
    BY <1>0, <2>1, <2>2, QueueKeepsLine
  <2>4. /\ workQueue \o f \in Seq(Pieces) /\ Len(workQueue \o f) = Len(workQueue) + Len(f)
        /\ workAccepted \o f \in Seq(Pieces)
    BY <1>0, <2>1, ConcatProperties DEF WorkTypeOK
  <2>5. WorkTypeOK'
    BY <1>0, <2>1, <2>2, <2>4 DEF WorkTypeOK
  <2>6. StrikesInv' /\ PausesWhenItShould'
    BY <2>2, StrikesStand
  <2> QED
    BY <2>3, <2>5, <2>6 DEF WorkInv
<1>9. ASSUME NEW answer \in WorkAnswers, EndPiece(MarkOf(answer)) PROVE WorkInv'
  <2>1. MarkOf(answer) \in Marks
    BY DEF MarkOf, Marks
  <2> QED
    BY <1>7, <1>9, <2>1
<1>10. CASE UNCHANGED workVars
  BY <1>10 DEF workVars, WorkInv, WorkTypeOK, WorkIsKept, DonePieces, StrikesInv, StrikesAreARow,
     PausesWhenItShould, InARow, Failure
<1> QED
  BY <1>1, <1>2, <1>3, <1>4, <1>5, <1>6, <1>8, <1>9, <1>10 DEF WorkNext

\* core/agent_loop.py: the queue is within its size, and the worker has a piece in its hand
\* while it works or was stopped at it, and at no other time.
THEOREM WorkTypeCorrect == WorkSpec => []WorkTypeOK
<1>1. WorkInit => WorkInv
  BY FreshProcess
<1>2. WorkInv /\ [WorkNext]_workVars => WorkInv'
  BY WorkStepKeeps
<1>3. WorkInv => WorkTypeOK
  BY DEF WorkInv
<1> QED
  BY <1>1, <1>2, <1>3, PTL DEF WorkSpec

\* core/agent_loop.py, add_work and _worker: for any lists of work, queue size and patience,
\* every piece that is accepted is done once, in its turn, unless it is in hand or queued, and
\* the worker pauses after that many failures in a row, and at no other time.
THEOREM WorkLoopAlwaysServes == WorkSpec => []WorkLoopServes
<1>1. WorkInit => WorkInv
  BY FreshProcess
<1>2. WorkInv /\ [WorkNext]_workVars => WorkInv'
  BY WorkStepKeeps
<1>3. WorkInv => WorkLoopServes
  BY DEF WorkInv, WorkLoopServes
<1> QED
  BY <1>1, <1>2, <1>3, PTL DEF WorkSpec
===============================================================================
