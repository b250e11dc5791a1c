----------------------------- MODULE LedgerProofs -----------------------------
(***************************************************************************)
(* Theorems about the parts of the agent that keep accounts: the vault, the *)
(* task table, the finance tracker, what an intake is held against it, the  *)
(* settlement of payments, and calls of provider APIs; for any entries,     *)
(* tasks, amounts and calls.                                                *)
(***************************************************************************)
EXTENDS Vault, TaskTable, Intake, Settlement, ApiCalls, NumberLemmas, SequenceTheorems,
        FiniteSetTheorems, TLAPS

(***************************************************************************)
(* The vault                                                                *)
(***************************************************************************)

\* What is on disk: a v2 header is what _save makes of the salt the file is sealed under,
\* and a v1 file's salt is still where _locate_legacy_salt looks for it.
OnDisk ==
    /\ format = "none" <=> sealed = NoSession
    /\ format = "v2" => header = HeaderOf(sealed.salt)
    /\ format = "v1" => sealed.salt \in LegacySalts

VaultInv == VaultTypeOK /\ OnDisk /\ promised = body

\* A manager's key and salt seal the file so that the next reader finds the salt.
LEMMA SaveIsOnDisk ==
    ASSUME NEW s \in Sessions, NEW content \in SUBSET Names, Save(s, content)
    PROVE  /\ OnDisk'
           /\ format' = "v2" /\ header' \in Salts /\ sealed' \in Sessions
           /\ body' = content
<1>1. s # NoSession
  BY VaultAssumption DEF Sessions, Salts
<1>2. HeaderOf(s.salt) \in Salts
  BY DEF HeaderOf, Sessions, Salts
<1> QED
  BY <1>1, <1>2 DEF Save, OnDisk

\* A state that leaves the file alone and salt.bin in place keeps what is on disk, and so
\* does one that removes salt.bin when there is no v1 file.
LEMMA FileKept ==
    ASSUME VaultTypeOK, OnDisk, UNCHANGED fileVars,
           saltBin' = saltBin \/ format # "v1"
    PROVE  OnDisk'
BY DEF fileVars, OnDisk, LegacySalts, HeaderOf

\* _get_fernet leaves a manager with a session of its key.
LEMMA OpenTyped ==
    ASSUME VaultTypeOK, NEW m \in Managers, NEW key \in Keys, NEW salt \in Salts,
           Opens(m, key, salt)
    PROVE  session' \in [Managers -> Sessions \cup {NoSession}]
<1>1. [key |-> key, salt |-> salt] \in Sessions
  BY DEF Sessions
<1> QED
  BY <1>1 DEF VaultTypeOK, Opens

\* A vault of any age, or none: what an older version wrote is on disk as that version left it.
LEMMA VaultInitially == VaultInit => VaultInv
<1> SUFFICES ASSUME VaultInit PROVE VaultInv
  OBVIOUS
<1>1. CASE format = "none"
  BY <1>1 DEF VaultInit, VaultInv, VaultTypeOK, OnDisk, Salts
<1>2. ASSUME NEW key \in Keys, NEW salt \in {Static} \cup Random,
             format = "v1", sealed = [key |-> key, salt |-> salt], body = Names,
             saltBin = {salt} \ {Static}
      PROVE  VaultInv
  <2>1. sealed \in Sessions /\ sealed # NoSession /\ sealed.salt = salt
    BY <1>2, VaultAssumption DEF Sessions, Salts
  <2>2. saltBin \subseteq Random /\ salt \in LegacySalts
    BY <1>2 DEF LegacySalts
  <2> QED
    BY <1>2, <2>1, <2>2 DEF VaultInit, VaultInv, VaultTypeOK, OnDisk, Salts
<1> QED
  BY <1>1, <1>2 DEF VaultInit

\* Opening the vault in any of its ways
LEMMA OpenKeepsInv ==
    ASSUME VaultInv, NEW m \in Managers, NEW key \in Keys, VaultOpen(m, key)
    PROVE  VaultInv'
<1> USE DEF VaultInv
<1>1. CASE OpenFresh(m, key)
  <2>1. format = "none"
    BY <1>1 DEF OpenFresh, Exists, OnDisk
  <2>2. OnDisk'
    BY <1>1, <2>1, FileKept DEF OpenFresh
  <2>3. PICK salt \in Drawn : Opens(m, key, salt)
    BY <1>1 DEF OpenFresh
  <2>4. session' \in [Managers -> Sessions \cup {NoSession}]
    BY <2>3, OpenTyped DEF Drawn, Salts
  <2> QED
    BY <1>1, <2>2, <2>4 DEF OpenFresh, VaultTypeOK, CleanupSaltFile, fileVars
<1>2. CASE OpenUnreadable(m, key)
  <2>1. PICK salt \in Drawn : Opens(m, key, salt)
    BY <1>2 DEF OpenUnreadable
  <2>2. session' \in [Managers -> Sessions \cup {NoSession}]
    BY <2>1, OpenTyped DEF Drawn, Salts
  <2> QED
    BY <1>2, <2>2, FileKept DEF OpenUnreadable, VaultTypeOK, fileVars
<1>3. CASE OpenV2(m, key)
  <2>1. session' \in [Managers -> Sessions \cup {NoSession}]
    BY <1>3, OpenTyped DEF OpenV2, VaultTypeOK
  <2>2. OnDisk'
    BY <1>3, FileKept DEF OpenV2
  <2> QED
    BY <1>3, <2>1, <2>2 DEF OpenV2, VaultTypeOK, CleanupSaltFile, fileVars
<1>4. CASE OpenWrongKey(m, key) \/ MigrateFails(m, key)
  <2>1. PICK salt \in LegacySalts : Opens(m, key, salt)
    BY <1>4 DEF OpenWrongKey, MigrateFails
  <2>2. session' \in [Managers -> Sessions \cup {NoSession}]
    BY <2>1, OpenTyped DEF LegacySalts, Salts, VaultTypeOK
  <2>3. UNCHANGED <<fileVars, saltBin, promised>>
    BY <1>4 DEF OpenWrongKey, MigrateFails
  <2> QED
    BY <2>2, <2>3, FileKept DEF VaultTypeOK, fileVars
<1>5. CASE Migrate(m, key)
  <2>1. PICK salt \in Drawn : Save([key |-> key, salt |-> salt], body) /\ Opens(m, key, salt)
    BY <1>5 DEF Migrate
  <2>2. salt \in Salts /\ [key |-> key, salt |-> salt] \in Sessions
    BY <2>1 DEF Drawn, Salts, Sessions
  <2>3. session' \in [Managers -> Sessions \cup {NoSession}]
    BY <2>1, <2>2, OpenTyped
  <2>4. /\ OnDisk' /\ format' = "v2" /\ header' \in Salts /\ sealed' \in Sessions
        /\ body' = body
    BY <2>1, <2>2, SaveIsOnDisk DEF VaultTypeOK
  <2> QED
    BY <1>5, <2>3, <2>4 DEF Migrate, VaultTypeOK, CleanupSaltFile
<1> QED
  BY <1>1, <1>2, <1>3, <1>4, <1>5 DEF VaultOpen

\* Every step
LEMMA VaultStepKeepsInv == VaultInv /\ [VaultNext]_vaultVars => VaultInv'
<1> SUFFICES ASSUME VaultInv, [VaultNext]_vaultVars PROVE VaultInv'
  OBVIOUS
<1> USE DEF VaultInv
<1>1. ASSUME NEW m \in Managers, NEW key \in Keys, VaultOpen(m, key) PROVE VaultInv'
  BY <1>1, OpenKeepsInv
<1>2. ASSUME NEW m \in Managers, NEW name \in Names, SetSecret(m, name) PROVE VaultInv'
  <2>1. session[m] \in Sessions
    BY <1>2 DEF SetSecret, Loads, VaultTypeOK
  <2>2. /\ OnDisk' /\ format' = "v2" /\ header' \in Salts /\ sealed' \in Sessions
        /\ body' = body \cup {name}
    BY <1>2, <2>1, SaveIsOnDisk DEF SetSecret, VaultTypeOK
  <2> QED
    BY <1>2, <2>2 DEF SetSecret, VaultTypeOK
<1>3. ASSUME NEW m \in Managers, NEW name \in Names, DeleteSecret(m, name) PROVE VaultInv'
  <2>1. session[m] \in Sessions
    BY <1>3 DEF DeleteSecret, Loads, VaultTypeOK
  <2>2. /\ OnDisk' /\ format' = "v2" /\ header' \in Salts /\ sealed' \in Sessions
        /\ body' = body \ {name}
    BY <1>3, <2>1, SaveIsOnDisk DEF DeleteSecret, VaultTypeOK
  <2> QED
    BY <1>3, <2>2 DEF DeleteSecret, VaultTypeOK
<1>4. ASSUME NEW m \in Managers, VaultClose(m) PROVE VaultInv'
  <2>1. UNCHANGED <<fileVars, saltBin, promised>> /\ OnDisk'
    BY <1>4, FileKept DEF VaultClose
  <2> QED
    BY <1>4, <2>1 DEF VaultClose, VaultTypeOK, fileVars
<1>5. CASE UNCHANGED vaultVars
  <2>1. OnDisk'
    BY <1>5, FileKept DEF vaultVars
  <2> QED
    BY <1>5, <2>1 DEF vaultVars, fileVars, VaultTypeOK
<1> QED
  BY <1>1, <1>2, <1>3, <1>4, <1>5 DEF VaultNext

\* The invariant holds in every state of every behaviour of the vault.
THEOREM VaultInvariant == VaultSpec => []VaultInv
<1>1. VaultInit => VaultInv
  BY VaultInitially
<1>2. VaultInv /\ [VaultNext]_vaultVars => VaultInv'
  BY VaultStepKeepsInv
<1> QED
  BY <1>1, <1>2, PTL DEF VaultSpec

\* SecretsManager: whatever fails and with whatever keys the vault is opened, a secret
\* that was stored is in the file, under a salt the next manager finds (or in a file that
\* was clipped after a failed migration).
THEOREM SecretsAreKept == VaultSpec => []SecretsKept
<1>1. VaultInv => SecretsKept
  <2> SUFFICES ASSUME VaultInv, Exists PROVE Findable \/ Clipped
    BY DEF VaultInv, SecretsKept
  <2>1. format \in {"v1", "v2"}
    BY DEF VaultInv, VaultTypeOK, OnDisk, Exists
  <2>2. CASE format = "v1"
    BY <2>2 DEF VaultInv, OnDisk, Findable
  <2>3. CASE format = "v2"
    BY <2>3 DEF VaultInv, OnDisk, Findable, Clipped, HeaderOf
  <2> QED
    BY <2>1, <2>2, <2>3
<1> QED
  BY <1>1, VaultInvariant, PTL

-------------------------------------------------------------------------------
(***************************************************************************)
(* The task table                                                           *)
(***************************************************************************)

\* A status that says more than that the task exists is accounted for.
Earned(t, status, done) ==
    /\ status \in TaskStatuses
    /\ status = "completed" => t \in done
    /\ status = "queued" => Dependencies[t] \subseteq done

TaskInv ==
    /\ TaskTypeOK
    /\ \A t \in Tasks : Earned(t, tasks[t], finished) /\ Earned(t, taskRows[t], finished)
    /\ \A i \in DOMAIN taskWrites : Earned(taskWrites[i].task, taskWrites[i].status, finished)

\* Where all of a task's dependencies are completed, it may wait in the queue.
LEMMA ReadyIsEarned ==
    ASSUME TaskInv, NEW t \in Tasks, AllDepsCompleted(t)
    PROVE  Earned(t, "queued", finished)
BY TaskAssumption DEF TaskInv, Earned, AllDepsCompleted, TaskStatuses

\* A call sets a status it has earned.
LEMMA SetsEarned ==
    ASSUME TaskInv, NEW t \in Tasks, NEW to, NEW by \in CallKinds, NEW of \in Tasks,
           NEW before \in Seq(TaskWrite), Len(before) + 1 <= TaskCalls,
           \A i \in DOMAIN before : Earned(before[i].task, before[i].status, finished),
           Sets(t, to, by, of, before), finished \subseteq finished', finished' \subseteq Tasks,
           Earned(t, to, finished'),
           taskRows' \in [Tasks -> TaskStatuses], \A s \in Tasks : Earned(s, taskRows'[s], finished),
           grown' \subseteq Tasks
    PROVE  TaskInv'
<1> DEFINE write == [task |-> t, status |-> to, by |-> by, of |-> of]
<1>1. tasks' = [tasks EXCEPT ![t] = to] /\ taskWrites' = Append(before, write)
  BY DEF Sets
<1>2. write \in TaskWrite /\ to \in TaskStatuses
  BY DEF TaskWrite, Earned
<1>3. taskWrites' \in Seq(TaskWrite) /\ Len(taskWrites') = Len(before) + 1
  BY <1>1, <1>2, AppendProperties
<1>4. ASSUME NEW i \in DOMAIN taskWrites' PROVE Earned(taskWrites'[i].task, taskWrites'[i].status, finished')
  <2>1. i \in 1..Len(before) + 1
    BY <1>3
  <2>2. CASE i = Len(before) + 1
    <3>1. taskWrites'[i] = write
      BY <1>1, <1>2, <2>2, AppendProperties
    <3>2. taskWrites'[i].task = t /\ taskWrites'[i].status = to
      BY <3>1
    <3> QED
      BY <3>2 DEF Earned
  <2>3. CASE i \in 1..Len(before)
    <3>1. taskWrites'[i] = before[i]
      BY <1>1, <1>2, <2>3, AppendProperties
    <3>2. Earned(before[i].task, before[i].status, finished)
      BY <2>3
    <3> QED
      BY <3>1, <3>2 DEF Earned
  <2> QED
    BY <2>1, <2>2, <2>3
<1>5. TaskTypeOK'
  <2>1. tasks' \in [Tasks -> TaskStatuses]
    BY <1>1, <1>2 DEF TaskInv, TaskTypeOK
  <2> QED
    BY <1>3, <2>1, TaskAssumption DEF TaskTypeOK
<1>6. \A s \in Tasks : Earned(s, tasks'[s], finished') /\ Earned(s, taskRows'[s], finished')
  <2>1. \A s \in Tasks : Earned(s, tasks'[s], finished')
    <3>1. \A s \in Tasks : Earned(s, tasks[s], finished)
      BY DEF TaskInv
    <3>2. tasks \in [Tasks -> TaskStatuses]
      BY DEF TaskInv, TaskTypeOK
    <3> QED
      BY <1>1, <3>1, <3>2 DEF Earned
  <2> QED
    BY <2>1 DEF Earned
<1> QED
  BY <1>4, <1>5, <1>6 DEF TaskInv

\* A task that waits in the queue, in memory or in its row, has all it depends on completed:
\* TaskManager's creation, completion and restart, in any overlap.
THEOREM QueueHoldsReadyTasks == TaskSpec => [](TaskTypeOK /\ QueuedIsReady)
<1> USE TaskAssumption
<1>1. TaskInit => TaskInv
  BY DEF TaskInit, TaskInv, TaskTypeOK, Earned, TaskStatuses
<1>2. TaskInv /\ [TaskNext]_taskVars => TaskInv'
  <2> SUFFICES ASSUME TaskInv, [TaskNext]_taskVars PROVE TaskInv'
    OBVIOUS
  <2>0. /\ tasks \in [Tasks -> TaskStatuses] /\ taskRows \in [Tasks -> TaskStatuses]
        /\ taskWrites \in Seq(TaskWrite) /\ Len(taskWrites) <= TaskCalls /\ Len(taskWrites) \in Nat
        /\ grown \subseteq Tasks /\ finished \subseteq Tasks
        /\ \A t \in Tasks : Earned(t, tasks[t], finished) /\ Earned(t, taskRows[t], finished)
        /\ \A i \in DOMAIN taskWrites : Earned(taskWrites[i].task, taskWrites[i].status, finished)
    BY DEF TaskInv, TaskTypeOK
  <2>1. ASSUME NEW t \in Tasks, NEW to, NEW by \in CallKinds, Begins(t, to, by),
               finished \subseteq finished', finished' \subseteq Tasks, Earned(t, to, finished'),
               UNCHANGED taskRows, grown' \subseteq Tasks
        PROVE  TaskInv'
    <3>1. Len(taskWrites) + 1 <= TaskCalls /\ Sets(t, to, by, t, taskWrites)
      BY <2>0, <2>1 DEF Begins
    <3> QED
      BY <2>0, <2>1, <3>1, SetsEarned
  <2>2. ASSUME NEW t \in Tasks, CreateTask(t) PROVE TaskInv'
    <3>1. /\ Begins(t, IF AllDepsCompleted(t) THEN "queued" ELSE "blocked", "create")
          /\ UNCHANGED <<taskRows, finished>> /\ grown' = grown \cup Walks
      BY <2>2 DEF CreateTask
    <3>2. PICK to \in {"queued", "blocked"} : Begins(t, to, "create") /\ Earned(t, to, finished')
      <4>1. CASE AllDepsCompleted(t)
        BY <3>1, <4>1, ReadyIsEarned
      <4>2. CASE ~AllDepsCompleted(t)
        BY <3>1, <4>2 DEF Earned, TaskStatuses
      <4> QED
        BY <4>1, <4>2
    <3>3. Walks \subseteq Tasks
      <4>1. \A i \in DOMAIN taskWrites : taskWrites[i].of \in Tasks
        <5>1. ASSUME NEW i \in DOMAIN taskWrites PROVE taskWrites[i] \in TaskWrite
          BY <2>0
        <5> QED
          BY <5>1 DEF TaskWrite
      <4> QED
        BY <4>1 DEF Walks
    <3>4. "create" \in CallKinds
      BY DEF CallKinds
    <3> QED
      BY <2>0, <2>1, <3>1, <3>2, <3>3, <3>4
  <2>3. ASSUME NEW t \in Tasks, StartTask(t) PROVE TaskInv'
    <3>1. Begins(t, "running", "start") /\ UNCHANGED <<taskRows, grown, finished>>
      BY <2>3 DEF StartTask
    <3>2. Earned(t, "running", finished') /\ "start" \in CallKinds
      BY DEF Earned, TaskStatuses, CallKinds
    <3> QED
      BY <2>0, <2>1, <3>1, <3>2
  <2>4. ASSUME NEW t \in Tasks, CompleteTask(t) PROVE TaskInv'
    <3>1. Begins(t, "completed", "complete") /\ UNCHANGED <<taskRows, grown>>
          /\ finished' = finished \cup {t}
      BY <2>4 DEF CompleteTask
    <3>2. Earned(t, "completed", finished') /\ "complete" \in CallKinds
      BY <3>1 DEF Earned, TaskStatuses, CallKinds
    <3> QED
      BY <2>0, <2>1, <3>1, <3>2
  <2>5. ASSUME NEW t \in Tasks, FailTask(t) PROVE TaskInv'
    <3>1. Begins(t, "failed", "fail") /\ UNCHANGED <<taskRows, grown, finished>>
      BY <2>5 DEF FailTask
    <3>2. Earned(t, "failed", finished') /\ "fail" \in CallKinds
      BY DEF Earned, TaskStatuses, CallKinds
    <3> QED
      BY <2>0, <2>1, <3>1, <3>2
  <2>6. CASE WriteAnswered
    <3> DEFINE write == Head(taskWrites)
    <3>1. /\ taskWrites # <<>>
          /\ taskRows' = [taskRows EXCEPT ![write.task] = write.status]
          /\ \/ Walk(write.of, Tail(taskWrites))
             \/ tasks' = tasks /\ taskWrites' = Tail(taskWrites)
          /\ grown' \in {grown, grown \ {write.of}} /\ finished' = finished
      BY <2>6 DEF WriteAnswered
    <3>2. /\ write \in TaskWrite /\ write = taskWrites[1] /\ 1 \in DOMAIN taskWrites
          /\ Tail(taskWrites) \in Seq(TaskWrite) /\ Len(Tail(taskWrites)) = Len(taskWrites) - 1
          /\ \A i \in 1..Len(Tail(taskWrites)) : Tail(taskWrites)[i] = taskWrites[i + 1]
      BY <2>0, <3>1, HeadTailProperties, EmptySeq
    <3>3. Earned(write.task, write.status, finished) /\ write.task \in Tasks /\ write.of \in Tasks
      BY <2>0, <3>2 DEF TaskWrite
    <3> HIDE DEF write
    <3>4. taskRows' \in [Tasks -> TaskStatuses] /\ \A s \in Tasks : Earned(s, taskRows'[s], finished)
      BY <2>0, <3>1, <3>3 DEF Earned
    <3>5. \A i \in DOMAIN Tail(taskWrites) :
              Earned(Tail(taskWrites)[i].task, Tail(taskWrites)[i].status, finished)
      <4> SUFFICES ASSUME NEW i \in DOMAIN Tail(taskWrites)
                   PROVE  Earned(Tail(taskWrites)[i].task, Tail(taskWrites)[i].status, finished)
        OBVIOUS
      <4>1. i \in 1..Len(Tail(taskWrites)) /\ i + 1 \in DOMAIN taskWrites
        BY <2>0, <3>2
      <4> QED
        BY <2>0, <3>2, <4>1
    <3>6. grown' \subseteq Tasks
      BY <2>0, <3>1
    <3>7. CASE tasks' = tasks /\ taskWrites' = Tail(taskWrites)
      <4>1. TaskTypeOK'
        BY <2>0, <3>1, <3>2, <3>4, <3>6, <3>7 DEF TaskTypeOK
      <4> QED
        BY <2>0, <3>1, <3>4, <3>5, <3>7, <4>1 DEF TaskInv, Earned
    <3>8. ASSUME NEW t \in Tasks, Unblocks(t, write.of),
                 Sets(t, "queued", "unblock", write.of, Tail(taskWrites))
          PROVE  TaskInv'
      <4>1. Earned(t, "queued", finished)
        BY <3>8, ReadyIsEarned DEF Unblocks
      <4>2. Earned(t, "queued", finished') /\ "unblock" \in CallKinds
        BY <3>1, <4>1 DEF Earned, CallKinds
      <4>3. Len(Tail(taskWrites)) + 1 <= TaskCalls
        BY <2>0, <3>2
      <4> QED
        BY <2>0, <3>1, <3>2, <3>3, <3>4, <3>5, <3>6, <3>8, <4>2, <4>3, SetsEarned
    <3> QED
      BY <3>1, <3>7, <3>8 DEF Walk
  <2>7. CASE TaskRestart
    <3>1. PICK n \in 0..Len(taskWrites) :
            taskRows' = [t \in Tasks |->
                 IF {i \in 1..n : taskWrites[i].task = t} = {} THEN taskRows[t]
                 ELSE taskWrites[CHOOSE i \in {k \in 1..n : taskWrites[k].task = t} :
                          \A j \in {k \in 1..n : taskWrites[k].task = t} : j <= i].status]
      BY <2>7 DEF TaskRestart
    <3>2. tasks' = taskRows' /\ taskWrites' = <<>> /\ grown' = {} /\ finished' = finished
      BY <2>7 DEF TaskRestart
    <3>3. ASSUME NEW t \in Tasks PROVE Earned(t, taskRows'[t], finished)
      <4> DEFINE last == {i \in 1..n : taskWrites[i].task = t}
                 newest == CHOOSE i \in last : \A j \in last : j <= i
      <4>1. CASE last = {}
        BY <2>0, <3>1, <4>1
      <4>2. CASE last # {}
        <5>1. last \subseteq 0..n /\ n \in Nat
          OBVIOUS
        <5>2. \E i \in last : \A j \in last : j <= i
          <6> HIDE DEF last
          <6> QED
            BY <4>2, <5>1, GreatestNumber
        <5>3. newest \in last
          <6> HIDE DEF last
          <6> QED
            BY <5>2
        <5>4. newest \in DOMAIN taskWrites /\ taskWrites[newest].task = t
          BY <2>0, <5>3
        <5>5. taskRows'[t] = taskWrites[newest].status
          BY <3>1, <4>2
        <5> HIDE DEF newest
        <5> QED
          BY <2>0, <5>4, <5>5
      <4> QED
        BY <4>1, <4>2
    <3>4. taskRows' \in [Tasks -> TaskStatuses]
      <4>1. DOMAIN taskRows' = Tasks /\ taskRows' = [t \in Tasks |-> taskRows'[t]]
        BY <3>1
      <4> QED
        BY <3>3, <4>1 DEF Earned
    <3>5. TaskTypeOK'
      BY <2>0, <3>2, <3>4 DEF TaskTypeOK
    <3> QED
      BY <3>2, <3>3, <3>5 DEF TaskInv, Earned
  <2>8. CASE UNCHANGED taskVars
    BY <2>8 DEF taskVars, TaskInv, TaskTypeOK, Earned
  <2> QED
    BY <2>2, <2>3, <2>4, <2>5, <2>6, <2>7, <2>8 DEF TaskNext
<1>3. TaskInv => TaskTypeOK /\ QueuedIsReady
  BY DEF TaskInv, QueuedIsReady, Earned
<1> QED
  BY <1>1, <1>2, <1>3, PTL DEF TaskSpec

-------------------------------------------------------------------------------
(***************************************************************************)
(* The finance tracker: what was decided and what is written of it          *)
(***************************************************************************)

\* The order in which a transaction's status can move
Leads(a, b) ==
    \/ a = b \/ a = "none"
    \/ a = "proposed" /\ b # "none"
    \/ a = "approved" /\ b = "completed"

\* Rows, pending writes and kept tell one story of each transaction: the row comes first,
\* then the writes in their order, then the kept.
InOrder(kept, rows, pending) ==
    /\ kept \in [Expenses -> Statuses] /\ rows \in [Expenses -> Statuses] /\ pending \in Seq(Write)
    /\ \A x \in Expenses : Leads(rows[x], kept[x])
    /\ \A i \in DOMAIN pending :
          /\ pending[i].status # "none"
          /\ Leads(rows[pending[i].tx], pending[i].status)
          /\ Leads(pending[i].status, kept[pending[i].tx])
          /\ pending[i].by \in {"decision", "income"}
                => pending[i].status \in {"approved", "rejected", "completed"}
    /\ \A i, j \in DOMAIN pending :
          i < j /\ pending[i].tx = pending[j].tx => Leads(pending[i].status, pending[j].status)

\* What was told of a transaction whose status is level
Kept(heard, level) ==
    /\ "approved" \in heard => level \in {"approved", "completed"}
    /\ "rejected" \in heard => level = "rejected"
    /\ "completed" \in heard => level = "completed"

FinanceInv ==
    /\ FinanceTypeOK /\ InOrder(tx, txRow, writes)
    /\ \A x \in Expenses : Kept(toldTx[x], txRow[x])

\* The order is one, and what was told outlives every move along it.
LEMMA LeadsIsTransitive ==
    \A a, b, c \in Statuses : Leads(a, b) /\ Leads(b, c) => Leads(a, c)
BY DEF Leads, Statuses

\* A decision somebody heard of stands in every status it leads to.
LEMMA KeptOnwards ==
    ASSUME NEW heard, NEW a \in Statuses, NEW b \in Statuses, Kept(heard, a), Leads(a, b),
           heard \subseteq {"approved", "rejected", "completed"}
    PROVE  Kept(heard, b)
BY DEF Kept, Leads, Statuses

\* A change goes to kept and to the end of the writes.
LEMMA ChangeInOrder ==
    ASSUME NEW kept, NEW rows, NEW pending, InOrder(kept, rows, pending),
           NEW x \in Expenses, NEW level \in Statuses, level # "none",
           NEW by \in {"proposal", "income", "decision", "sweep"},
           Leads(kept[x], level),
           by \in {"decision", "income"} => level \in {"approved", "rejected", "completed"}
    PROVE  InOrder([kept EXCEPT ![x] = level], rows, Append(pending, Snapshot(x, level, by)))
<1> DEFINE after == [kept EXCEPT ![x] = level]
           more == Append(pending, Snapshot(x, level, by))
           w == Snapshot(x, level, by)
           n == Len(pending)
<1>0. /\ kept \in [Expenses -> Statuses] /\ rows \in [Expenses -> Statuses] /\ pending \in Seq(Write)
      /\ \A y \in Expenses : Leads(rows[y], kept[y])
      /\ \A i \in DOMAIN pending :
          /\ pending[i].status # "none"
          /\ Leads(rows[pending[i].tx], pending[i].status)
          /\ Leads(pending[i].status, kept[pending[i].tx])
          /\ pending[i].by \in {"decision", "income"}
                => pending[i].status \in {"approved", "rejected", "completed"}
      /\ \A i, j \in DOMAIN pending :
          i < j /\ pending[i].tx = pending[j].tx => Leads(pending[i].status, pending[j].status)
  BY DEF InOrder
<1>1. w \in Write /\ w.tx = x /\ w.status = level /\ w.by = by
  BY DEF Write, Snapshot
<1> HIDE DEF w
<1>2. /\ more \in Seq(Write) /\ Len(more) = n + 1 /\ n \in Nat /\ DOMAIN pending = 1..n
      /\ DOMAIN more = 1..n + 1
      /\ more[n + 1] = w /\ \A i \in 1..n : more[i] = pending[i]
  BY <1>0, <1>1, AppendProperties DEF w
<1>3. /\ after \in [Expenses -> Statuses] /\ after[x] = level
      /\ \A y \in Expenses \ {x} : after[y] = kept[y]
  BY <1>0
<1> HIDE DEF after, more, n
<1>4. ASSUME NEW i \in 1..n
      PROVE  pending[i].tx \in Expenses /\ pending[i].status \in Statuses
  <2>1. pending[i] \in Write
    BY <1>0, <1>2
  <2> QED
    BY <2>1 DEF Write
<1>5. \A y \in Expenses : Leads(rows[y], after[y])
  <2>1. Leads(rows[x], level)
    BY <1>0, LeadsIsTransitive
  <2> QED
    BY <1>0, <1>3, <2>1
<1>6. ASSUME NEW i \in 1..n
      PROVE  Leads(pending[i].status, after[pending[i].tx])
  <2>1. CASE pending[i].tx = x
    <3>1. Leads(pending[i].status, kept[x]) /\ kept[x] \in Statuses
      BY <1>0, <1>2, <2>1
    <3> QED
      BY <1>3, <1>4, <2>1, <3>1, LeadsIsTransitive
  <2>2. CASE pending[i].tx # x
    BY <1>0, <1>2, <1>3, <1>4, <2>2
  <2> QED
    BY <2>1, <2>2
<1>7. ASSUME NEW i \in DOMAIN more
      PROVE  /\ more[i].status # "none"
             /\ Leads(rows[more[i].tx], more[i].status)
             /\ Leads(more[i].status, after[more[i].tx])
             /\ more[i].by \in {"decision", "income"}
                   => more[i].status \in {"approved", "rejected", "completed"}
  <2>1. CASE i = n + 1
    <3>1. more[i].tx = x /\ more[i].status = level /\ more[i].by = by
      BY <1>1, <1>2, <2>1
    <3>2. Leads(level, level)
      BY DEF Leads
    <3> QED
      BY <1>3, <1>5, <3>1, <3>2
  <2>2. CASE i \in 1..n
    <3>1. more[i] = pending[i] /\ i \in DOMAIN pending
      BY <1>2, <2>2
    <3> QED
      BY <1>0, <1>6, <2>2, <3>1
  <2> QED
    BY <1>2, <2>1, <2>2
<1>8. ASSUME NEW i \in DOMAIN more, NEW j \in DOMAIN more, i < j, more[i].tx = more[j].tx
      PROVE  Leads(more[i].status, more[j].status)
  <2>1. i \in 1..n /\ more[i] = pending[i]
    BY <1>2, <1>8
  <2>2. CASE j = n + 1
    <3>1. more[j].tx = x /\ more[j].status = level
      BY <1>1, <1>2, <2>2
    <3>2. Leads(pending[i].status, after[x])
      BY <1>6, <1>8, <2>1, <3>1
    <3> QED
      BY <1>3, <2>1, <3>1, <3>2
  <2>3. CASE j \in 1..n
    BY <1>0, <1>2, <1>8, <2>1, <2>3
  <2> QED
    BY <1>2, <2>2, <2>3
<1>9. InOrder(after, rows, more)
  BY <1>0, <1>2, <1>3, <1>5, <1>7, <1>8 DEF InOrder
<1> QED
  BY <1>9 DEF after, more, w

\* SQLite answers the first write: the row is written, or it is not.
LEMMA AnswerInOrder ==
    ASSUME NEW kept, NEW rows, NEW pending, InOrder(kept, rows, pending), pending # <<>>
    PROVE  /\ InOrder(kept, rows, Tail(pending))
           /\ InOrder(kept, [rows EXCEPT ![Head(pending).tx] = Head(pending).status], Tail(pending))
           /\ Head(pending) \in Write /\ Head(pending) = pending[1] /\ 1 \in DOMAIN pending
<1> DEFINE w == Head(pending)
           rest == Tail(pending)
           written == [rows EXCEPT ![w.tx] = w.status]
<1>0. /\ kept \in [Expenses -> Statuses] /\ rows \in [Expenses -> Statuses] /\ pending \in Seq(Write)
      /\ \A y \in Expenses : Leads(rows[y], kept[y])
      /\ \A i \in DOMAIN pending :
          /\ pending[i].status # "none"
          /\ Leads(rows[pending[i].tx], pending[i].status)
          /\ Leads(pending[i].status, kept[pending[i].tx])
          /\ pending[i].by \in {"decision", "income"}
                => pending[i].status \in {"approved", "rejected", "completed"}
      /\ \A i, j \in DOMAIN pending :
          i < j /\ pending[i].tx = pending[j].tx => Leads(pending[i].status, pending[j].status)
  BY DEF InOrder
<1>1. /\ w \in Write /\ w = pending[1] /\ rest \in Seq(Write) /\ Len(rest) = Len(pending) - 1
      /\ \A i \in 1..Len(rest) : rest[i] = pending[i + 1]
      /\ Len(pending) \in Nat \ {0} /\ DOMAIN pending = 1..Len(pending) /\ DOMAIN rest = 1..Len(rest)
  BY <1>0, HeadTailProperties, EmptySeq
<1>2. w.tx \in Expenses /\ w.status \in Statuses
  BY <1>1 DEF Write
<1> HIDE DEF w, rest
<1>3. /\ written \in [Expenses -> Statuses] /\ written[w.tx] = w.status
      /\ \A y \in Expenses \ {w.tx} : written[y] = rows[y]
  BY <1>0, <1>2
<1> HIDE DEF written
<1>4. ASSUME NEW i \in DOMAIN rest
      PROVE  /\ i + 1 \in DOMAIN pending /\ rest[i] = pending[i + 1] /\ 1 < i + 1 /\ 1 \in DOMAIN pending
             /\ i \in Nat
  BY <1>1
<1>5. ASSUME NEW i \in DOMAIN rest, NEW j \in DOMAIN rest, i < j, rest[i].tx = rest[j].tx
      PROVE  Leads(rest[i].status, rest[j].status)
  <2>1. i + 1 < j + 1
    BY <1>4, <1>5
  <2> QED
    BY <1>0, <1>4, <1>5, <2>1
<1>6. InOrder(kept, rows, rest)
  BY <1>0, <1>1, <1>4, <1>5 DEF InOrder
<1>7. \A y \in Expenses : Leads(written[y], kept[y])
  BY <1>0, <1>1, <1>2, <1>3
<1>8. ASSUME NEW i \in DOMAIN rest
      PROVE  Leads(written[rest[i].tx], rest[i].status)
  <2>1. rest[i] \in Write
    BY <1>1
  <2>2. rest[i].tx \in Expenses
    BY <2>1 DEF Write
  <2>3. CASE rest[i].tx = w.tx
    <3>1. Leads(pending[1].status, pending[i + 1].status)
      BY <1>0, <1>1, <1>4, <2>3
    <3> QED
      BY <1>1, <1>3, <1>4, <2>3, <3>1
  <2>4. CASE rest[i].tx # w.tx
    BY <1>0, <1>3, <1>4, <2>2, <2>4
  <2> QED
    BY <2>3, <2>4
<1>9. InOrder(kept, written, rest)
  BY <1>0, <1>1, <1>3, <1>4, <1>5, <1>7, <1>8 DEF InOrder
<1> QED
  BY <1>1, <1>6, <1>9 DEF w, rest, written

\* What callers of approve, reject and complete were told of a transaction stays so, in its
\* row and in kept, whatever waits for SQLite or fails there and whenever the process dies
\* (finance/tracker.py); the dead-man switch cancels nothing that was decided.
THEOREM ToldDecisionsAreKept == FinanceSpec => [](FinanceTypeOK /\ DecisionsKept)
<1> USE FinanceAssumption
<1>1. FinanceInit => FinanceInv
  <2> SUFFICES ASSUME FinanceInit PROVE FinanceInv
    OBVIOUS
  <2>1. FinanceTypeOK
    <3>1. 0 \in 0..LastDay /\ "none" \in Statuses
      BY DEF Statuses
    <3>2. tx \in [Expenses -> Statuses] /\ txRow \in [Expenses -> Statuses]
      BY <3>1 DEF FinanceInit
    <3>3. born \in [Expenses -> 0..LastDay] /\ day \in 0..LastDay
      BY <3>1 DEF FinanceInit
    <3>4. writes \in Seq(Write)
      BY DEF FinanceInit
    <3>5. toldTx \in [Expenses -> SUBSET {"approved", "rejected", "completed"}]
      BY DEF FinanceInit
    <3> QED
      BY <3>2, <3>3, <3>4, <3>5 DEF FinanceInit, FinanceTypeOK
  <2>2. InOrder(tx, txRow, writes)
    BY DEF FinanceInit, InOrder, Statuses, Leads
  <2>3. \A x \in Expenses : Kept(toldTx[x], txRow[x])
    BY DEF FinanceInit, Kept
  <2> QED
    BY <2>1, <2>2, <2>3 DEF FinanceInv
<1>2. FinanceInv /\ [FinanceNext]_financeVars => FinanceInv'
  <2> SUFFICES ASSUME FinanceInv, [FinanceNext]_financeVars PROVE FinanceInv'
    OBVIOUS
  <2> DEFINE Heard == SUBSET {"approved", "rejected", "completed"}
  <2>0. /\ tx \in [Expenses -> Statuses] /\ txRow \in [Expenses -> Statuses]
        /\ income \subseteq Expenses /\ born \in [Expenses -> 0..LastDay] /\ day \in 0..LastDay
        /\ writes \in Seq(Write)
        /\ holder \in BOOLEAN /\ sweep \in {"off", "on", "grown"}
        /\ proposed \subseteq Expenses
        /\ toldTx \in [Expenses -> Heard]
        /\ InOrder(tx, txRow, writes)
        /\ \A x \in Expenses : Kept(toldTx[x], txRow[x])
    BY DEF FinanceInv, FinanceTypeOK
  \* What each step has to show
  <2>1. ASSUME InOrder(tx, txRow, writes)', \A x \in Expenses : Kept(toldTx'[x], txRow'[x]),
               income' \subseteq Expenses, born' \in [Expenses -> 0..LastDay], day' \in 0..LastDay,
               holder' \in BOOLEAN, sweep' \in {"off", "on", "grown"}, proposed' \subseteq Expenses,
               toldTx' \in [Expenses -> Heard]
        PROVE  FinanceInv'
    <3>1. tx' \in [Expenses -> Statuses] /\ txRow' \in [Expenses -> Statuses] /\ writes' \in Seq(Write)
      BY <2>1 DEF InOrder
    <3>2. FinanceTypeOK'
      BY <2>1, <3>1 DEF FinanceTypeOK
    <3> QED
      BY <2>1, <3>2 DEF FinanceInv
  <2>2. ASSUME NEW x \in Expenses, NEW level \in {"proposed", "completed"},
               NEW by \in {"proposal", "income"}, by = "income" => level = "completed",
               Enters(x, level, by), income' \subseteq Expenses
        PROVE  FinanceInv'
    <3>1. /\ tx[x] = "none" /\ tx' = [tx EXCEPT ![x] = level] /\ born' = [born EXCEPT ![x] = day]
          /\ writes' = Append(writes, Snapshot(x, level, by))
          /\ sweep' = IF sweep = "on" THEN "grown" ELSE sweep
          /\ UNCHANGED <<txRow, day, holder, proposed, toldTx>>
      BY <2>2 DEF Enters
    <3>2. Leads(tx[x], level) /\ level \in Statuses /\ level # "none"
      BY <3>1 DEF Leads, Statuses
    <3>3. InOrder([tx EXCEPT ![x] = level], txRow, Append(writes, Snapshot(x, level, by)))
      BY <2>0, <2>2, <3>2, ChangeInOrder
    <3>4. InOrder(tx, txRow, writes)'
      BY <3>1, <3>3 DEF InOrder
    <3>5. born' \in [Expenses -> 0..LastDay] /\ sweep' \in {"off", "on", "grown"}
      BY <2>0, <3>1
    <3> QED
      BY <2>0, <2>1, <2>2, <3>1, <3>4, <3>5
  <2>3. ASSUME NEW x \in Expenses, ProposeExpense(x) \/ RecordIncome(x) PROVE FinanceInv'
    <3>1. CASE ProposeExpense(x)
      BY <2>0, <2>2, <3>1 DEF ProposeExpense
    <3>2. CASE RecordIncome(x)
      BY <2>0, <2>2, <3>2 DEF RecordIncome
    <3> QED
      BY <2>3, <3>1, <3>2
  <2>4. ASSUME NEW x \in Expenses, NEW verdict \in DOMAIN Decision, DecideExpense(x, verdict)
        PROVE  FinanceInv'
    <3>1. /\ tx[x] = Decision[verdict] /\ tx' = [tx EXCEPT ![x] = verdict]
          /\ writes' = Append(writes, Snapshot(x, verdict, "decision"))
          /\ holder' = TRUE /\ UNCHANGED <<txRow, income, born, day, sweep, proposed, toldTx>>
      BY <2>4 DEF DecideExpense
    <3>2. /\ Leads(tx[x], verdict) /\ verdict \in Statuses /\ verdict # "none"
          /\ verdict \in {"approved", "rejected", "completed"}
      BY <3>1 DEF Leads, Statuses, Decision
    <3>3. InOrder([tx EXCEPT ![x] = verdict], txRow, Append(writes, Snapshot(x, verdict, "decision")))
      BY <2>0, <3>2, ChangeInOrder
    <3>4. InOrder(tx, txRow, writes)'
      BY <3>1, <3>3 DEF InOrder
    <3> QED
      BY <2>0, <2>1, <3>1, <3>4
  <2>5. ASSUME NEW x \in Expenses, NEW rows, NEW pending, InOrder(tx, rows, pending), Cancels(x)
        PROVE  InOrder(tx', rows, Append(pending, Snapshot(x, "cancelled", "sweep")))
    <3>1. tx[x] = "proposed" /\ tx' = [tx EXCEPT ![x] = "cancelled"]
      BY <2>5 DEF Cancels, StaleProposal
    <3>2. Leads(tx[x], "cancelled") /\ "cancelled" \in Statuses
      BY <3>1 DEF Leads, Statuses
    <3> QED
      BY <2>5, <3>1, <3>2, ChangeInOrder
  <2>6. ASSUME NEW x \in Expenses, CheckStaleProposals(x) PROVE FinanceInv'
    <3>1. /\ Cancels(x) /\ sweep' = "on" /\ writes' = Append(writes, Snapshot(x, "cancelled", "sweep"))
          /\ UNCHANGED <<txRow, income, born, day, holder, proposed, toldTx>>
      BY <2>6 DEF CheckStaleProposals
    <3>2. InOrder(tx', txRow, Append(writes, Snapshot(x, "cancelled", "sweep")))
      BY <2>0, <2>5, <3>1
    <3>3. InOrder(tx, txRow, writes)'
      BY <3>1, <3>2 DEF InOrder
    <3> QED
      BY <2>0, <2>1, <3>1, <3>3
  \* A write is answered: the row, and with it what is told, moves along the order.
  <2>7. ASSUME NEW stores \in BOOLEAN, RowAnswered(stores)
        PROVE  /\ InOrder(tx, txRow', Tail(writes)) /\ Head(writes) \in Write
               /\ txRow' \in [Expenses -> Statuses]
               /\ \A x \in Expenses : Leads(txRow[x], txRow'[x]) /\ Kept(toldTx[x], txRow'[x])
               /\ UNCHANGED <<income, born, day>>
               /\ stores => txRow'[Head(writes).tx] = Head(writes).status
               /\ Head(writes).by \in {"decision", "income"}
                    => Head(writes).status \in {"approved", "rejected", "completed"}
    <3>1. /\ writes # <<>> /\ UNCHANGED <<income, born, day>>
          /\ txRow' = IF stores THEN [txRow EXCEPT ![Head(writes).tx] = Head(writes).status] ELSE txRow
      BY <2>7 DEF RowAnswered
    <3>2. /\ InOrder(tx, txRow, Tail(writes))
          /\ InOrder(tx, [txRow EXCEPT ![Head(writes).tx] = Head(writes).status], Tail(writes))
          /\ Head(writes) \in Write /\ Head(writes) = writes[1] /\ 1 \in DOMAIN writes
      BY <2>0, <3>1, AnswerInOrder
    <3>3. InOrder(tx, txRow', Tail(writes))
      BY <3>1, <3>2
    <3>4. /\ Leads(txRow[Head(writes).tx], Head(writes).status)
          /\ Head(writes).by \in {"decision", "income"}
                => Head(writes).status \in {"approved", "rejected", "completed"}
      BY <2>0, <3>2 DEF InOrder
    <3>5. Head(writes).tx \in Expenses /\ Head(writes).status \in Statuses
      BY <3>2 DEF Write
    <3>6. txRow' \in [Expenses -> Statuses] /\ (stores => txRow'[Head(writes).tx] = Head(writes).status)
      BY <2>0, <3>1, <3>5
    <3>7. ASSUME NEW x \in Expenses PROVE Leads(txRow[x], txRow'[x]) /\ Kept(toldTx[x], txRow'[x])
      <4>1. Leads(txRow[x], txRow'[x])
        BY <2>0, <3>1, <3>4, <3>5 DEF Leads
      <4>2. toldTx[x] \subseteq {"approved", "rejected", "completed"}
        BY <2>0
      <4> QED
        BY <2>0, <3>6, <4>1, <4>2, KeptOnwards
    <3> QED
      BY <3>1, <3>2, <3>3, <3>4, <3>6, <3>7
  <2>8. ASSUME NEW stores \in BOOLEAN, DecisionAnswered(stores) PROVE FinanceInv'
    <3> DEFINE x == Head(writes).tx
               level == Head(writes).status
    <3>1. /\ RowAnswered(stores) /\ Head(writes).by \in {"decision", "income"}
          /\ writes' = Tail(writes) /\ holder' = (holder /\ Head(writes).by # "decision")
          /\ toldTx' = IF stores THEN [toldTx EXCEPT ![x] = @ \cup {level}] ELSE toldTx
          /\ UNCHANGED <<tx, sweep, proposed>>
      BY <2>8 DEF DecisionAnswered
    <3>2. /\ InOrder(tx, txRow', Tail(writes)) /\ Head(writes) \in Write
          /\ \A y \in Expenses : Kept(toldTx[y], txRow'[y])
          /\ UNCHANGED <<income, born, day>>
          /\ stores => txRow'[x] = level
          /\ level \in {"approved", "rejected", "completed"}
      BY <2>7, <3>1
    <3>3. InOrder(tx, txRow, writes)'
      BY <3>1, <3>2 DEF InOrder
    <3>4. x \in Expenses
      BY <3>2 DEF Write
    <3> HIDE DEF x, level
    <3>5. toldTx' \in [Expenses -> Heard]
      <4>1. toldTx[x] \cup {level} \in Heard
        BY <2>0, <3>2, <3>4
      <4> QED
        BY <2>0, <3>1, <4>1
    <3>6. ASSUME NEW y \in Expenses PROVE Kept(toldTx'[y], txRow'[y])
      <4>1. CASE toldTx'[y] = toldTx[y]
        BY <3>2, <4>1
      <4>2. CASE stores /\ y = x
        <5>1. toldTx'[x] = toldTx[x] \cup {level} /\ txRow'[x] = level /\ Kept(toldTx[x], level)
          BY <2>0, <3>1, <3>2, <3>4, <4>2
        <5> QED
          BY <3>2, <4>2, <5>1 DEF Kept
      <4> QED
        BY <2>0, <3>1, <4>1, <4>2
    <3>7. holder' \in BOOLEAN
      BY <2>0, <3>1
    <3> QED
      BY <2>0, <2>1, <3>1, <3>2, <3>3, <3>5, <3>6, <3>7
  <2>9. ASSUME NEW stores \in BOOLEAN, ProposalAnswered(stores) PROVE FinanceInv'
    <3>1. /\ RowAnswered(stores) /\ writes' = Tail(writes)
          /\ proposed' = IF stores THEN proposed \cup {Head(writes).tx} ELSE proposed
          /\ UNCHANGED <<tx, holder, sweep, toldTx>>
      BY <2>9 DEF ProposalAnswered
    <3>2. /\ InOrder(tx, txRow', Tail(writes)) /\ Head(writes) \in Write
          /\ \A y \in Expenses : Kept(toldTx[y], txRow'[y])
          /\ UNCHANGED <<income, born, day>>
      BY <2>7, <3>1
    <3>3. InOrder(tx, txRow, writes)'
      BY <3>1, <3>2 DEF InOrder
    <3>4. proposed' \subseteq Expenses
      BY <2>0, <3>1, <3>2 DEF Write
    <3> QED
      BY <2>0, <2>1, <3>1, <3>2, <3>3, <3>4
  <2>10. ASSUME NEW stores \in BOOLEAN, SweepAnswered(stores) PROVE FinanceInv'
    <3>1. /\ RowAnswered(stores) /\ UNCHANGED <<holder, proposed, toldTx>>
          /\ \/ /\ \E x \in Expenses :
                      /\ Cancels(x)
                      /\ writes' = Append(Tail(writes), Snapshot(x, "cancelled", "sweep"))
                /\ sweep' = "on"
             \/ tx' = tx /\ writes' = Tail(writes) /\ sweep' = "off"
      BY <2>10 DEF SweepAnswered
    <3>2. /\ InOrder(tx, txRow', Tail(writes)) /\ Head(writes) \in Write
          /\ \A y \in Expenses : Kept(toldTx[y], txRow'[y])
          /\ UNCHANGED <<income, born, day>>
      BY <2>7, <3>1
    <3>3. CASE tx' = tx /\ writes' = Tail(writes) /\ sweep' = "off"
      <4>1. InOrder(tx, txRow, writes)'
        BY <3>2, <3>3 DEF InOrder
      <4> QED
        BY <2>0, <2>1, <3>1, <3>2, <3>3, <4>1
    <3>4. ASSUME NEW x \in Expenses, Cancels(x), sweep' = "on",
                 writes' = Append(Tail(writes), Snapshot(x, "cancelled", "sweep"))
          PROVE  FinanceInv'
      <4>1. InOrder(tx', txRow', Append(Tail(writes), Snapshot(x, "cancelled", "sweep")))
        <5>1. tx[x] = "proposed" /\ tx' = [tx EXCEPT ![x] = "cancelled"]
          BY <3>4 DEF Cancels, StaleProposal
        <5>2. Leads(tx[x], "cancelled") /\ "cancelled" \in Statuses
          BY <5>1 DEF Leads, Statuses
        <5> QED
          BY <3>2, <5>1, <5>2, ChangeInOrder
      <4>2. InOrder(tx, txRow, writes)'
        BY <3>4, <4>1 DEF InOrder
      <4> QED
        BY <2>0, <2>1, <3>1, <3>2, <3>4, <4>2
    <3> QED
      BY <3>1, <3>3, <3>4
  <2>11. CASE Midnight
    <3>1. day' \in 0..LastDay /\ UNCHANGED <<tx, txRow, income, born, writes, holder, sweep, proposed, toldTx>>
      BY <2>0, <2>11 DEF Midnight
    <3>2. InOrder(tx, txRow, writes)'
      BY <2>0, <3>1 DEF InOrder
    <3> QED
      BY <2>0, <2>1, <3>1, <3>2
  <2>12. CASE FinanceRestart
    <3>1. PICK n \in 0..Len(writes) : txRow' = RowsAfter(n)
      BY <2>12 DEF FinanceRestart
    <3>2. /\ tx' = txRow' /\ income' = {x \in income : txRow'[x] # "none"}
          /\ born' = [x \in Expenses |-> IF txRow'[x] = "none" THEN 0 ELSE born[x]]
          /\ writes' = <<>> /\ holder' = FALSE /\ sweep' = "off" /\ UNCHANGED <<day, proposed, toldTx>>
      BY <2>12 DEF FinanceRestart
    <3>3. ASSUME NEW x \in Expenses
          PROVE  txRow'[x] \in Statuses /\ Leads(txRow[x], txRow'[x])
      <4> DEFINE of == {i \in 1..n : writes[i].tx = x}
      <4>0. txRow'[x] = IF of = {} THEN txRow[x] ELSE writes[Max(of)].status
        BY <3>1 DEF RowsAfter
      <4>1. CASE of = {}
        BY <2>0, <4>0, <4>1 DEF Leads
      <4>2. CASE of # {}
        <5>1. of \subseteq 0..n /\ n \in Nat /\ \A i \in of : i \in DOMAIN writes /\ writes[i].tx = x
          BY <2>0
        <5> HIDE DEF of
        <5>2. \E i \in of : \A j \in of : j <= i
          BY <4>2, <5>1, GreatestNumber
        <5>3. Max(of) \in of
          <6>1. \E i \in of : \A j \in of : i >= j
            BY <5>1, <5>2
          <6> QED
            BY <6>1 DEF Max
        <5>4. Leads(txRow[x], writes[Max(of)].status) /\ writes[Max(of)] \in Write
          <6>1. Max(of) \in DOMAIN writes /\ writes[Max(of)].tx = x
            BY <5>1, <5>3
          <6>2. \A i \in DOMAIN writes : Leads(txRow[writes[i].tx], writes[i].status)
            BY <2>0 DEF InOrder
          <6>3. \A i \in DOMAIN writes : writes[i] \in Write
            BY <2>0
          <6> QED
            BY <6>1, <6>2, <6>3
        <5>5. writes[Max(of)].status \in Statuses
          BY <5>4 DEF Write
        <5>6. txRow'[x] = writes[Max(of)].status
          BY <4>0, <4>2
        <5> QED
          BY <5>4, <5>5, <5>6
      <4> QED
        BY <4>1, <4>2
    <3>4. txRow' \in [Expenses -> Statuses]
      <4>1. txRow' = [x \in Expenses |-> txRow'[x]]
        BY <3>1 DEF RowsAfter
      <4> QED
        BY <3>3, <4>1
    <3>5. \A x \in Expenses : Kept(toldTx'[x], txRow'[x])
      <4> SUFFICES ASSUME NEW x \in Expenses PROVE Kept(toldTx[x], txRow'[x])
        BY <3>2
      <4>1. toldTx[x] \subseteq {"approved", "rejected", "completed"} /\ txRow[x] \in Statuses
        BY <2>0
      <4> QED
        BY <2>0, <3>3, <4>1, KeptOnwards
    <3>6. InOrder(tx, txRow, writes)'
      BY <3>2, <3>4 DEF InOrder, Leads
    <3>7. born' \in [Expenses -> 0..LastDay] /\ income' \subseteq Expenses
      BY <2>0, <3>2
    <3> QED
      BY <2>0, <2>1, <3>2, <3>5, <3>6, <3>7
  <2>13. CASE UNCHANGED financeVars
    BY <2>13 DEF financeVars, FinanceInv, FinanceTypeOK, InOrder, Kept
  <2> QED
    BY <2>3, <2>4, <2>6, <2>8, <2>9, <2>10, <2>11, <2>12, <2>13 DEF FinanceNext
<1>3. FinanceInv => FinanceTypeOK /\ DecisionsKept
  <2> SUFFICES ASSUME FinanceInv PROVE FinanceTypeOK /\ DecisionsKept
    OBVIOUS
  <2>1. ASSUME NEW x \in Expenses PROVE Kept(toldTx[x], txRow[x]) /\ Kept(toldTx[x], tx[x])
    <3>1. /\ Kept(toldTx[x], txRow[x]) /\ Leads(txRow[x], tx[x])
          /\ txRow[x] \in Statuses /\ tx[x] \in Statuses
          /\ toldTx[x] \subseteq {"approved", "rejected", "completed"}
      BY DEF FinanceInv, FinanceTypeOK, InOrder
    <3> QED
      BY <3>1, KeptOnwards
  <2> QED
    BY <2>1 DEF FinanceInv, DecisionsKept, StandsBy, Kept
<1> QED
  BY <1>1, <1>2, <1>3, PTL DEF FinanceSpec

-------------------------------------------------------------------------------
(***************************************************************************)
(* Operator intake: what more of everything costs                           *)
(***************************************************************************)

\* The loop that adds amounts up takes its members in some order.
First(s) == CHOOSE x \in s : TRUE
IsTotals(f, S) ==
    f = [s \in SUBSET S |-> IF s = {} THEN 0 ELSE Amount[First(s)] + f[s \ {First(s)}]]

\* What it adds up, for the sets of up to n members.
UpTo(S, n) == {s \in SUBSET S : Cardinality(s) <= n}
IsTotalsUpTo(f, S, n) ==
    f = [s \in UpTo(S, n) |-> IF s = {} THEN 0 ELSE Amount[First(s)] + f[s \ {First(s)}]]

\* The first of a finite set leaves a smaller one.
LEMMA Firsts ==
    ASSUME NEW S, IsFiniteSet(S), NEW s \in SUBSET S
    PROVE  /\ IsFiniteSet(s) /\ Cardinality(s) \in Nat
           /\ Cardinality(s) = 0 <=> s = {}
           /\ s # {} => /\ First(s) \in s /\ s \ {First(s)} \in SUBSET S
                        /\ Cardinality(s \ {First(s)}) = Cardinality(s) - 1
<1>1. IsFiniteSet(s) /\ Cardinality(s) \in Nat
  BY FS_Subset, FS_CardinalityType
<1>2. Cardinality(s) = 0 <=> s = {}
  BY <1>1, FS_EmptySet
<1>3. ASSUME s # {}
      PROVE  /\ First(s) \in s /\ s \ {First(s)} \in SUBSET S
             /\ Cardinality(s \ {First(s)}) = Cardinality(s) - 1
  <2>1. First(s) \in s
    BY <1>3 DEF First
  <2>2. Cardinality(s \ {First(s)}) = Cardinality(s) - 1
    BY <1>1, <2>1, FS_RemoveElement
  <2> QED
    BY <2>1, <2>2
<1> QED
  BY <1>1, <1>2, <1>3

\* Such a loop exists.
LEMMA TotalsUpToExist ==
    ASSUME NEW S, IsFiniteSet(S), NEW n \in Nat
    PROVE  \E f : IsTotalsUpTo(f, S, n)
<1> DEFINE Bad == {k \in Nat : ~ \E f : IsTotalsUpTo(f, S, k)}
<1> SUFFICES ASSUME n \in Bad PROVE FALSE
  OBVIOUS
<1>1. PICK k \in Bad : \A m \in Bad : k <= m
  <2>1. Bad \in SUBSET Nat /\ Bad # {}
    OBVIOUS
  <2> HIDE DEF Bad
  <2> QED
    BY <2>1, LeastNumber
<1>2. CASE k = 0
  <2>1. \A s \in UpTo(S, 0) : s = {}
    <3> SUFFICES ASSUME NEW s \in UpTo(S, 0) PROVE s = {}
      OBVIOUS
    <3>1. s \in SUBSET S /\ Cardinality(s) <= 0
      BY DEF UpTo
    <3>2. Cardinality(s) \in Nat /\ (Cardinality(s) = 0 <=> s = {})
      BY <3>1, Firsts
    <3> QED
      BY <3>1, <3>2
  <2>2. \A z : [s \in UpTo(S, 0) |-> 0]
                = [s \in UpTo(S, 0) |-> IF s = {} THEN 0 ELSE Amount[First(s)] + z[s \ {First(s)}]]
    BY <2>1
  <2>3. IsTotalsUpTo([s \in UpTo(S, 0) |-> 0], S, 0)
    BY <2>2 DEF IsTotalsUpTo
  <2> QED
    BY <1>1, <1>2, <2>3
<1>3. CASE k # 0
  <2>1. k - 1 \in Nat /\ k - 1 \notin Bad
    BY <1>1, <1>3
  <2>2. PICK f : IsTotalsUpTo(f, S, k - 1)
    BY <2>1
  <2> DEFINE total(s) == IF s = {} THEN 0 ELSE Amount[First(s)] + f[s \ {First(s)}]
             g == [s \in UpTo(S, k) |-> total(s)]
  <2>3. ASSUME NEW s \in UpTo(S, k), s # {}
        PROVE  g[s \ {First(s)}] = f[s \ {First(s)}]
    <3>1. s \ {First(s)} \in UpTo(S, k - 1) /\ s \ {First(s)} \in UpTo(S, k)
      <4>1. s \in SUBSET S /\ Cardinality(s) <= k /\ k \in Nat
        BY DEF UpTo
      <4>2. /\ s \ {First(s)} \in SUBSET S
            /\ Cardinality(s) \in Nat /\ Cardinality(s \ {First(s)}) = Cardinality(s) - 1
        BY <2>3, <4>1, Firsts
      <4> QED
        BY <4>1, <4>2 DEF UpTo
    <3>2. g[s \ {First(s)}] = total(s \ {First(s)})
      BY <3>1
    <3>3. f[s \ {First(s)}] = total(s \ {First(s)})
      BY <2>2, <3>1, Zenon DEF IsTotalsUpTo
    <3> QED
      BY <3>2, <3>3
  <2>4. \A s \in UpTo(S, k) :
          total(s) = IF s = {} THEN 0 ELSE Amount[First(s)] + g[s \ {First(s)}]
    <3> HIDE DEF g
    <3> QED
      BY <2>3
  <2>5. IsTotalsUpTo(g, S, k)
    <3> HIDE DEF total
    <3>1. g = [s \in UpTo(S, k) |-> IF s = {} THEN 0 ELSE Amount[First(s)] + g[s \ {First(s)}]]
      <4> DEFINE h == [s \in UpTo(S, k) |-> IF s = {} THEN 0 ELSE Amount[First(s)] + g[s \ {First(s)}]]
      <4>1. \A s \in UpTo(S, k) : g[s] = h[s]
        BY <2>4
      <4>2. DOMAIN g = UpTo(S, k) /\ DOMAIN h = UpTo(S, k)
        OBVIOUS
      <4>3. g = [s \in UpTo(S, k) |-> g[s]] /\ h = [s \in UpTo(S, k) |-> h[s]]
        OBVIOUS
      <4> HIDE DEF g, h
      <4>4. g = h
        BY <4>1, <4>3
      <4> QED
        BY <4>4 DEF h
    <3> QED
      BY <3>1 DEF IsTotalsUpTo
  <2> QED
    BY <1>1, <2>5
<1> QED
  BY <1>2, <1>3

\* A sum of amounts is a number.
LEMMA SumsAreNumbers ==
    ASSUME NEW S \in SUBSET Expenses
    PROVE  MapThenSumSet(LAMBDA x : Amount[x], S) \in Nat
<1>0. IsFiniteSet(S)
  BY FS_Subset, FinanceAssumption
<1>1. PICK f : IsTotals(f, S)
  <2>1. Cardinality(S) \in Nat
    BY <1>0, FS_CardinalityType
  <2>2. UpTo(S, Cardinality(S)) = SUBSET S
    <3>1. \A s \in SUBSET S : Cardinality(s) <= Cardinality(S)
      BY <1>0, FS_Subset
    <3> QED
      BY <3>1 DEF UpTo
  <2>3. PICK f : IsTotalsUpTo(f, S, Cardinality(S))
    BY <1>0, <2>1, TotalsUpToExist
  <2> QED
    BY <2>2, <2>3 DEF IsTotals, IsTotalsUpTo
<1>2. PICK g : g = (CHOOSE h : IsTotals(h, S)) /\ IsTotals(g, S)
  BY <1>1
<1>3. MapThenSumSet(LAMBDA x : Amount[x], S) = g[S]
  BY <1>2 DEF MapThenSumSet, MapThenFoldSet, First, IsTotals
<1> DEFINE Bad == {n \in Nat : \E s \in SUBSET S : Cardinality(s) = n /\ g[s] \notin Nat}
<1>4. ASSUME NEW s \in SUBSET S PROVE g[s] = IF s = {} THEN 0 ELSE Amount[First(s)] + g[s \ {First(s)}]
  BY <1>2, Zenon DEF IsTotals
<1>5. Bad = {}
  <2> SUFFICES ASSUME Bad # {} PROVE FALSE
    OBVIOUS
  <2>1. PICK n \in Bad : \A m \in Bad : n <= m
    <3>1. Bad \in SUBSET Nat
      OBVIOUS
    <3> HIDE DEF Bad
    <3> QED
      BY <3>1, LeastNumber
  <2>2. PICK s \in SUBSET S : Cardinality(s) = n /\ g[s] \notin Nat
    BY <2>1
  <2>3. s # {}
    BY <1>4, <2>2
  <2>4. /\ First(s) \in s /\ s \ {First(s)} \in SUBSET S
        /\ Cardinality(s \ {First(s)}) = n - 1 /\ n # 0
    BY <1>0, <2>2, <2>3, Firsts
  <2>5. n - 1 \in Nat /\ n - 1 \notin Bad
    BY <2>1, <2>4
  <2>6. g[s \ {First(s)}] \in Nat
    BY <2>4, <2>5
  <2>7. Amount[First(s)] \in Nat
    BY <2>4, FinanceAssumption
  <2> QED
    BY <1>4, <2>2, <2>3, <2>6, <2>7
<1>6. Cardinality(S) \in Nat
  BY <1>0, FS_CardinalityType
<1> QED
  BY <1>3, <1>5, <1>6

\* What has been spent, in any state of the ledger, is an amount.
LEMMA SpentIsAnAmount == Spent.daily \in Nat /\ Spent.monthly \in Nat
<1> DEFINE counted(since) == {x \in Expenses \ income : tx[x] \in {"approved", "completed"}
                                                       /\ born[x] >= since}
<1>1. \A since : counted(since) \in SUBSET Expenses
  OBVIOUS
<1> HIDE DEF counted
<1>2. \A since : MapThenSumSet(LAMBDA x : Amount[x], counted(since)) \in Nat
  BY <1>1, SumsAreNumbers
<1> QED
  BY <1>2 DEF Spent, counted

-------------------------------------------------------------------------------
\* The intakes with at least as much in every field
AtLeast(g, i) ==
    /\ g.work = i.work /\ g.build = i.build /\ g.source = i.source
    /\ i.diff => g.diff
    /\ i.review => g.review
    /\ g.targets >= i.targets /\ g.operations >= i.operations /\ g.criteria >= i.criteria
    /\ g.structured >= i.structured /\ g.focusAreas >= i.focusAreas

\* An intake that has grown asks for at least what it asked for.
LEMMA GrownIsMore ==
    ASSUME NEW i \in OperatorIntake, NEW g \in Grown(i)
    PROVE  g \in OperatorIntake /\ AtLeast(g, i)
<1>0. /\ Targets \subseteq Nat /\ Operations \subseteq Nat /\ Criteria \subseteq Nat
      /\ Structured \subseteq Nat /\ FocusAreas \subseteq Nat
  BY IntakeAssumption
<1>8. /\ i.targets \in Nat /\ i.operations \in Nat /\ i.criteria \in Nat
      /\ i.structured \in Nat /\ i.focusAreas \in Nat
  BY <1>0 DEF OperatorIntake
<1> USE <1>0
<1>1. ASSUME NEW n \in Larger(Targets, i.targets), g = [i EXCEPT !.targets = n]
      PROVE  g \in OperatorIntake /\ AtLeast(g, i)
  <2>1. n \in Targets /\ n > i.targets
    BY <1>1 DEF Larger
  <2>2. g \in OperatorIntake
    BY <1>1, <2>1 DEF OperatorIntake
  <2>3. /\ g.targets = n
        /\ g.work = i.work /\ g.build = i.build /\ g.source = i.source /\ g.diff = i.diff
        /\ g.review = i.review /\ g.operations = i.operations /\ g.criteria = i.criteria
        /\ g.structured = i.structured /\ g.focusAreas = i.focusAreas
    BY <1>1 DEF OperatorIntake
  <2> QED
    BY <1>8, <2>1, <2>2, <2>3 DEF AtLeast
<1>2. ASSUME NEW n \in Larger(Operations, i.operations), g = [i EXCEPT !.operations = n]
      PROVE  g \in OperatorIntake /\ AtLeast(g, i)
  <2>1. n \in Operations /\ n > i.operations
    BY <1>2 DEF Larger
  <2>2. g \in OperatorIntake
    BY <1>2, <2>1 DEF OperatorIntake
  <2>3. /\ g.operations = n
        /\ g.work = i.work /\ g.build = i.build /\ g.source = i.source /\ g.diff = i.diff
        /\ g.review = i.review /\ g.targets = i.targets /\ g.criteria = i.criteria
        /\ g.structured = i.structured /\ g.focusAreas = i.focusAreas
    BY <1>2 DEF OperatorIntake
  <2> QED
    BY <1>8, <2>1, <2>2, <2>3 DEF AtLeast
<1>3. ASSUME NEW n \in Larger(Criteria, i.criteria), g = [i EXCEPT !.criteria = n]
      PROVE  g \in OperatorIntake /\ AtLeast(g, i)
  <2>1. n \in Criteria /\ n > i.criteria
    BY <1>3 DEF Larger
  <2>2. g \in OperatorIntake
    BY <1>3, <2>1 DEF OperatorIntake
  <2>3. /\ g.criteria = n
        /\ g.work = i.work /\ g.build = i.build /\ g.source = i.source /\ g.diff = i.diff
        /\ g.review = i.review /\ g.targets = i.targets /\ g.operations = i.operations
        /\ g.structured = i.structured /\ g.focusAreas = i.focusAreas
    BY <1>3 DEF OperatorIntake
  <2> QED
    BY <1>8, <2>1, <2>2, <2>3 DEF AtLeast
<1>4. ASSUME NEW n \in Larger(Structured, i.structured), g = [i EXCEPT !.structured = n]
      PROVE  g \in OperatorIntake /\ AtLeast(g, i)
  <2>1. n \in Structured /\ n > i.structured
    BY <1>4 DEF Larger
  <2>2. g \in OperatorIntake
    BY <1>4, <2>1 DEF OperatorIntake
  <2>3. /\ g.structured = n
        /\ g.work = i.work /\ g.build = i.build /\ g.source = i.source /\ g.diff = i.diff
        /\ g.review = i.review /\ g.targets = i.targets /\ g.operations = i.operations
        /\ g.criteria = i.criteria /\ g.focusAreas = i.focusAreas
    BY <1>4 DEF OperatorIntake
  <2> QED
    BY <1>8, <2>1, <2>2, <2>3 DEF AtLeast
<1>5. ASSUME NEW n \in Larger(FocusAreas, i.focusAreas), g = [i EXCEPT !.focusAreas = n]
      PROVE  g \in OperatorIntake /\ AtLeast(g, i)
  <2>1. n \in FocusAreas /\ n > i.focusAreas
    BY <1>5 DEF Larger
  <2>2. g \in OperatorIntake
    BY <1>5, <2>1 DEF OperatorIntake
  <2>3. /\ g.focusAreas = n
        /\ g.work = i.work /\ g.build = i.build /\ g.source = i.source /\ g.diff = i.diff
        /\ g.review = i.review /\ g.targets = i.targets /\ g.operations = i.operations
        /\ g.criteria = i.criteria /\ g.structured = i.structured
    BY <1>5 DEF OperatorIntake
  <2> QED
    BY <1>8, <2>1, <2>2, <2>3 DEF AtLeast
<1>6. ASSUME g = [i EXCEPT !.diff = TRUE] \/ g = [i EXCEPT !.review = TRUE]
      PROVE  g \in OperatorIntake /\ AtLeast(g, i)
  <2>1. g \in OperatorIntake
    BY <1>6 DEF OperatorIntake
  <2>2. /\ g.work = i.work /\ g.build = i.build /\ g.source = i.source
        /\ i.diff => g.diff
        /\ i.review => g.review
    BY <1>6 DEF OperatorIntake
  <2>3. /\ g.targets = i.targets /\ g.operations = i.operations /\ g.criteria = i.criteria
        /\ g.structured = i.structured /\ g.focusAreas = i.focusAreas
    BY <1>6 DEF OperatorIntake
  <2> QED
    BY <1>8, <2>1, <2>2, <2>3 DEF AtLeast
<1>7. \/ \E n \in Larger(Targets, i.targets) : g = [i EXCEPT !.targets = n]
      \/ \E n \in Larger(Operations, i.operations) : g = [i EXCEPT !.operations = n]
      \/ \E n \in Larger(Criteria, i.criteria) : g = [i EXCEPT !.criteria = n]
      \/ \E n \in Larger(Structured, i.structured) : g = [i EXCEPT !.structured = n]
      \/ \E n \in Larger(FocusAreas, i.focusAreas) : g = [i EXCEPT !.focusAreas = n]
      \/ g = [i EXCEPT !.diff = TRUE] \/ g = [i EXCEPT !.review = TRUE]
  BY DEF Grown
<1> QED
  BY <1>1, <1>2, <1>3, <1>4, <1>5, <1>6, <1>7

\* Asking for more of the same kind of work is never less scope.
LEMMA ScopeGrows ==
    ASSUME NEW i \in OperatorIntake, NEW g \in OperatorIntake, AtLeast(g, i),
           Builds(g) = Builds(i)
    PROVE  ScopeScore(i) \in Nat /\ ScopeScore(g) \in Nat /\ ScopeScore(i) <= ScopeScore(g)
<1>1. /\ i.targets \in Nat /\ i.operations \in Nat /\ i.criteria \in Nat /\ i.structured \in Nat
      /\ i.focusAreas \in Nat /\ i.diff \in BOOLEAN /\ i.review \in BOOLEAN
      /\ g.targets \in Nat /\ g.operations \in Nat /\ g.criteria \in Nat /\ g.structured \in Nat
      /\ g.focusAreas \in Nat /\ g.diff \in BOOLEAN /\ g.review \in BOOLEAN
  <2>1. /\ Targets \subseteq Nat /\ Operations \subseteq Nat /\ Criteria \subseteq Nat
        /\ Structured \subseteq Nat /\ FocusAreas \subseteq Nat
    BY IntakeAssumption
  <2> QED
    BY <2>1 DEF OperatorIntake
<1>2. PICK a1, a2 : /\ a1 = Worth(i.source = "url", 1) /\ a2 = Worth(g.source = "url", 1)
                    /\ a1 \in Nat /\ a2 \in Nat /\ a1 <= a2
  BY DEF Worth, AtLeast
<1>3. PICK b1, b2 : /\ b1 = Worth(i.diff, 2) /\ b2 = Worth(g.diff, 2)
                    /\ b1 \in Nat /\ b2 \in Nat /\ b1 <= b2
  BY <1>1 DEF AtLeast, Worth
<1>4. PICK c1, c2 : /\ c1 = AtMost(i.targets, 4) /\ c2 = AtMost(g.targets, 4)
                    /\ c1 \in Nat /\ c2 \in Nat /\ c1 <= c2
  BY <1>1 DEF AtLeast, AtMost
<1>5. PICK d1, d2 : /\ d1 = AtMost(i.operations, 4) /\ d2 = AtMost(g.operations, 4)
                    /\ d1 \in Nat /\ d2 \in Nat /\ d1 <= d2
  BY <1>1 DEF AtLeast, AtMost
<1>6. PICK e1, e2 : /\ e1 = AtMost(i.criteria, 4) /\ e2 = AtMost(g.criteria, 4)
                    /\ e1 \in Nat /\ e2 \in Nat /\ e1 <= e2
  BY <1>1 DEF AtLeast, AtMost
<1>7. PICK f1, f2 : /\ f1 = Worth(i.criteria > 0, AtMost(i.structured, 2))
                    /\ f2 = Worth(g.criteria > 0, AtMost(g.structured, 2))
                    /\ f1 \in Nat /\ f2 \in Nat /\ f1 <= f2
  BY <1>1 DEF AtLeast, AtMost, Worth
<1>8. PICK h1, h2 : /\ h1 = AtMost(i.focusAreas, 3) /\ h2 = AtMost(g.focusAreas, 3)
                    /\ h1 \in Nat /\ h2 \in Nat /\ h1 <= h2
  BY <1>1 DEF AtLeast, AtMost
<1>9. PICK k : /\ k = Worth(Builds(i), 2) /\ k = Worth(Builds(g), 2) /\ k \in Nat
  BY DEF Worth
<1>10. PICK l1, l2 : /\ l1 = Worth(Builds(i) /\ i.review, 1) /\ l2 = Worth(Builds(g) /\ g.review, 1)
                     /\ l1 \in Nat /\ l2 \in Nat /\ l1 <= l2
  BY <1>1 DEF AtLeast, Worth
<1>11. /\ ScopeScore(i) = a1 + b1 + c1 + d1 + e1 + f1 + h1 + k + l1
       /\ ScopeScore(g) = a2 + b2 + c2 + d2 + e2 + f2 + h2 + k + l2
  BY <1>2, <1>3, <1>4, <1>5, <1>6, <1>7, <1>8, <1>9, <1>10 DEF ScopeScore
<1> QED
  BY <1>2, <1>3, <1>4, <1>5, <1>6, <1>7, <1>8, <1>9, <1>10, <1>11

\* What an intake asks for more of costs no less and risks no less.
LEMMA CostGrows ==
    ASSUME NEW i \in OperatorIntake, NEW g \in OperatorIntake, AtLeast(g, i),
           Builds(g) = Builds(i)
    PROVE  Cost(i) \in Nat /\ Cost(g) \in Nat /\ Cost(i) <= Cost(g)
<1>0. ScopeScore(i) \in Nat /\ ScopeScore(g) \in Nat /\ ScopeScore(i) <= ScopeScore(g)
  BY ScopeGrows
<1>1. /\ i.targets \in Nat /\ i.operations \in Nat /\ i.criteria \in Nat /\ i.structured \in Nat
      /\ i.focusAreas \in Nat /\ i.diff \in BOOLEAN /\ i.review \in BOOLEAN
      /\ g.targets \in Nat /\ g.operations \in Nat /\ g.criteria \in Nat /\ g.structured \in Nat
      /\ g.focusAreas \in Nat /\ g.diff \in BOOLEAN /\ g.review \in BOOLEAN
  <2>1. /\ Targets \subseteq Nat /\ Operations \subseteq Nat /\ Criteria \subseteq Nat
        /\ Structured \subseteq Nat /\ FocusAreas \subseteq Nat
    BY IntakeAssumption
  <2> QED
    BY <2>1 DEF OperatorIntake
<1>2. PICK a1, a2 : /\ a1 = AtMost(i.targets, 6) /\ a2 = AtMost(g.targets, 6)
                    /\ a1 \in Nat /\ a2 \in Nat /\ a1 <= a2
  BY <1>1 DEF AtLeast, AtMost
<1>3. PICK b1, b2 : /\ b1 = AtMost(i.operations, 8) /\ b2 = AtMost(g.operations, 8)
                    /\ b1 \in Nat /\ b2 \in Nat /\ b1 <= b2
  BY <1>1 DEF AtLeast, AtMost
<1>4. PICK c1, c2 : /\ c1 = AtMost(i.criteria, 6) /\ c2 = AtMost(g.criteria, 6)
                    /\ c1 \in Nat /\ c2 \in Nat /\ c1 <= c2
  BY <1>1 DEF AtLeast, AtMost
<1>5. PICK d1, d2 : /\ d1 = AtMost(i.structured, 4) /\ d2 = AtMost(g.structured, 4)
                    /\ d1 \in Nat /\ d2 \in Nat /\ d1 <= d2
  BY <1>1 DEF AtLeast, AtMost
<1>6. PICK e1, e2 : /\ e1 = AtMost(i.focusAreas, 4) /\ e2 = AtMost(g.focusAreas, 4)
                    /\ e1 \in Nat /\ e2 \in Nat /\ e1 <= e2
  BY <1>1 DEF AtLeast, AtMost
<1>7. PICK f1, f2 : /\ f1 = Worth(i.diff, 10) /\ f2 = Worth(g.diff, 10)
                    /\ f1 \in Nat /\ f2 \in Nat /\ f1 <= f2
  BY <1>1 DEF AtLeast, Worth
<1>8. PICK h1, h2, k1, k2 :
         /\ h1 = Worth(ScopeSize(i) = "medium", 25) /\ h2 = Worth(ScopeSize(g) = "medium", 25)
         /\ k1 = Worth(ScopeSize(i) = "large", 60) /\ k2 = Worth(ScopeSize(g) = "large", 60)
         /\ h1 \in Nat /\ h2 \in Nat /\ k1 \in Nat /\ k2 \in Nat /\ h1 + k1 <= h2 + k2
  BY <1>0 DEF ScopeSize, Worth
<1>9. PICK l1, l2 :
         /\ l1 = IF Builds(i)
                 THEN 60 + Worth(i.review, 20) + Worth(i.build = "integration", 40)
                         + Worth(i.build = "devops", 30) + Worth(i.build = "testing", 10)
                 ELSE 15
         /\ l2 = IF Builds(g)
                 THEN 60 + Worth(g.review, 20) + Worth(g.build = "integration", 40)
                         + Worth(g.build = "devops", 30) + Worth(g.build = "testing", 10)
                 ELSE 15
         /\ l1 \in Nat /\ l2 \in Nat /\ l1 <= l2
  <2>1. PICK r1, r2 : /\ r1 = Worth(i.review, 20) /\ r2 = Worth(g.review, 20)
                      /\ r1 \in Nat /\ r2 \in Nat /\ r1 <= r2
    BY <1>1 DEF AtLeast, Worth
  <2>2. PICK x, y, z : /\ x = Worth(i.build = "integration", 40) /\ x = Worth(g.build = "integration", 40)
                       /\ y = Worth(i.build = "devops", 30) /\ y = Worth(g.build = "devops", 30)
                       /\ z = Worth(i.build = "testing", 10) /\ z = Worth(g.build = "testing", 10)
                       /\ x \in Nat /\ y \in Nat /\ z \in Nat
    BY DEF AtLeast, Worth
  <2> QED
    BY <2>1, <2>2
<1>10. /\ Cost(i) = a1 * 8 + b1 * 7 + c1 * 11 + d1 * 6 + e1 * 4 + f1 + h1 + k1 + l1
       /\ Cost(g) = a2 * 8 + b2 * 7 + c2 * 11 + d2 * 6 + e2 * 4 + f2 + h2 + k2 + l2
  BY <1>2, <1>3, <1>4, <1>5, <1>6, <1>7, <1>8, <1>9 DEF Cost
<1> QED
  BY <1>2, <1>3, <1>4, <1>5, <1>6, <1>7, <1>8, <1>9, <1>10

\* A high risk stays high.
LEMMA RiskGrows ==
    ASSUME NEW i \in OperatorIntake, NEW g \in OperatorIntake, AtLeast(g, i),
           Builds(g) = Builds(i), Risk(i) = "high"
    PROVE  Risk(g) = "high"
<1>1. ScopeScore(i) \in Nat /\ ScopeScore(g) \in Nat /\ ScopeScore(i) <= ScopeScore(g)
  BY ScopeGrows
<1>2. ScopeSize(i) = "large" => ScopeSize(g) = "large"
  BY <1>1 DEF ScopeSize
<1>3. Builds(i) /\ (ScopeSize(i) = "large" \/ i.build \in {"integration", "devops"})
  BY DEF Risk
<1> QED
  BY <1>2, <1>3 DEF Risk, AtLeast

\* What the budget blocks it blocks with more asked for and more spent.
LEMMA BlocksGrow ==
    ASSUME NEW little \in Nat, NEW much \in Nat, little <= much,
           NEW spent, NEW later, spent.daily \in Nat, spent.monthly \in Nat,
           later.daily \in Nat, later.monthly \in Nat,
           spent.daily <= later.daily, spent.monthly <= later.monthly
    PROVE  /\ HardCapHit(little, spent) => HardCapHit(much, later)
           /\ InBuffer(little, spent) => InBuffer(much, later)
  BY BudgetAssumption DEF HardCapHit, InBuffer

\* What the budget blocks, without the record check_budget answers with: a stop
\* loss is hit only where a hard cap or its buffer is.
LEMMA BudgetBlocksMeans ==
    ASSUME NEW i, NEW spent, Cost(i) \in Nat, spent.daily \in Nat, spent.monthly \in Nat
    PROVE  BudgetBlocks(i, spent) <=> HardCapHit(Cost(i), spent) \/ InBuffer(Cost(i), spent)
<1>1. /\ Check(Cost(i), spent).hardCapHit = HardCapHit(Cost(i), spent)
      /\ Check(Cost(i), spent).stopLossHit = StopLossHit(Cost(i), spent)
      /\ Check(Cost(i), spent).allowed = (~HardCapHit(Cost(i), spent) /\ ~StopLossHit(Cost(i), spent))
  BY DEF Check
<1>2. ~HardCapHit(Cost(i), spent) =>
         Cost(i) <= DailyHardCap - spent.daily /\ Cost(i) <= MonthlyHardCap - spent.monthly
  BY BudgetAssumption DEF HardCapHit
<1> QED
  BY <1>1, <1>2 DEF BudgetBlocks, WithinBudget, StopLossHit

\* An intake that runs at once runs at once with less in it, and with less spent.
LEMMA LessRunsAtOnce ==
    ASSUME NEW i \in OperatorIntake, NEW g \in OperatorIntake, AtLeast(g, i),
           Builds(g) = Builds(i),
           NEW spent, NEW later, spent.daily \in Nat, spent.monthly \in Nat,
           later.daily \in Nat, later.monthly \in Nat,
           spent.daily <= later.daily, spent.monthly <= later.monthly,
           RunsAtOnce(g, later)
    PROVE  RunsAtOnce(i, spent)
<1>1. Cost(i) \in Nat /\ Cost(g) \in Nat /\ Cost(i) <= Cost(g)
  BY CostGrows
<1>2. ~HardCapHit(Cost(g), later) /\ ~InBuffer(Cost(g), later)
  BY <1>1, BudgetBlocksMeans DEF RunsAtOnce
<1>3. ~HardCapHit(Cost(i), spent) /\ ~InBuffer(Cost(i), spent)
  BY <1>1, <1>2, BlocksGrow
<1>4. ~BudgetBlocks(i, spent)
  BY <1>1, <1>3, BudgetBlocksMeans
<1>5. ~(Cost(g) > SingleTxCap) /\ Risk(g) # "high"
  BY DEF RunsAtOnce, NeedsApproval, Check
<1>6. ~(Cost(i) > SingleTxCap) /\ Risk(i) # "high"
  BY <1>1, <1>5, RiskGrows, BudgetAssumption
<1>7. ~NeedsApproval(i, spent)
  BY <1>6 DEF NeedsApproval, Check
<1> QED
  BY <1>4, <1>7 DEF RunsAtOnce

\* In any state whose intake is one.
LEMMA AskedRunsAtOnce ==
    ASSUME asked \in OperatorIntake
    PROVE  BiggerIsNeverEasier
<1> PICK spent : spent = Spent
  OBVIOUS
<1>1. spent.daily \in Nat /\ spent.monthly \in Nat
  BY SpentIsAnAmount
<1>2. ASSUME NEW i \in Grown(asked), NEW more \in {0} \cup {Amount[x] : x \in Expenses},
             ResolvedWork(i) = ResolvedWork(asked),
             RunsAtOnce(i, [daily |-> spent.daily + more, monthly |-> spent.monthly + more])
      PROVE  RunsAtOnce(asked, spent)
  <2>1. more \in Nat
    BY FinanceAssumption
  <2>2. PICK later : later = [daily |-> spent.daily + more, monthly |-> spent.monthly + more]
    OBVIOUS
  <2>3. /\ later.daily \in Nat /\ later.monthly \in Nat
        /\ spent.daily <= later.daily /\ spent.monthly <= later.monthly
    BY <1>1, <2>1, <2>2
  <2>4. i \in OperatorIntake /\ AtLeast(i, asked)
    BY GrownIsMore
  <2>5. Builds(i) = Builds(asked)
    BY <1>2 DEF Builds
  <2> QED
    BY <1>1, <1>2, <2>2, <2>3, <2>4, <2>5, LessRunsAtOnce
<1> QED
  BY <1>2 DEF BiggerIsNeverEasier

\* The intakes an operator begins with are intakes.
LEMMA FirstAreIntakes == FirstIntakes \subseteq OperatorIntake
<1>1. ASSUME NEW work \in WorkTypes, NEW build \in BuildTypes,
             NEW source \in {"none", "repo", "both", "url", "unsupported"}, NEW sound \in BOOLEAN,
             NEW described \in {"no", "yes", "as a change"}
      PROVE  Plain(work, build, source, sound, described) \in OperatorIntake
  BY IntakeAssumption DEF Plain, OperatorIntake
<1>2. "implementation" \in BuildTypes
  BY IntakeAssumption
<1> SUFFICES ASSUME NEW i \in FirstIntakes PROVE i \in OperatorIntake
  OBVIOUS
<1>3. CASE \/ i \in {Plain(work, "implementation", "repo", TRUE, "yes") : work \in WorkTypes}
           \/ i \in {Plain(work, "implementation", "url", TRUE, "yes") : work \in WorkTypes}
  BY <1>1, <1>2, <1>3
<1>4. CASE i \in {Plain("build", build, "repo", TRUE, "yes") : build \in BuildTypes}
  BY <1>1, <1>4 DEF WorkTypes
<1>5. CASE i \in {Plain("auto", "implementation", "repo", TRUE, described) :
                     described \in {"no", "as a change"}}
  BY <1>1, <1>2, <1>5 DEF WorkTypes
<1>6. CASE i \in {Plain("build", "implementation", source, TRUE, "yes") :
                     source \in {"none", "both", "unsupported"}}
  BY <1>1, <1>2, <1>6 DEF WorkTypes
<1>7. CASE i = Plain("build", "implementation", "repo", FALSE, "yes")
  BY <1>1, <1>2, <1>7 DEF WorkTypes
<1>8. CASE i = Plain("build", "implementation", "repo", TRUE, "no")
  BY <1>1, <1>2, <1>8 DEF WorkTypes
<1> QED
  BY <1>3, <1>4, <1>5, <1>6, <1>7, <1>8 DEF FirstIntakes

\* The first plan is of such an intake.
LEMMA FirstIsTyped == IntakeInit => IntakeTypeOK
BY FirstAreIntakes DEF IntakeInit, IntakeTypeOK, Outcomes

\* Planning, asking for more and a moving upstream leave an intake and what came of it.
LEMMA IntakeStaysTyped ==
    ASSUME IntakeTypeOK, [IntakeNext]_intakeVars
    PROVE  IntakeTypeOK'
<1>1. CASE SubmitIntake
  <2>1. \A i \in OperatorIntake : ResolvedWork(i) \in {"build", "review"}
    BY DEF ResolvedWork, OperatorIntake, WorkTypes
  <2>2. /\ asked' = asked /\ upstream' = upstream /\ plan' = JobPlan(asked)
        /\ mirror' \in {"absent", "partial", "current", "stale"}
    BY <1>1 DEF SubmitIntake, Acquire, Clone, IntakeTypeOK
  <2>3. submitted' \in {"blocked", "over budget", "awaits two", "awaits one", "not acquired",
                       "raised", ResolvedWork(asked)}
    BY <1>1 DEF SubmitIntake
  <2> QED
    BY <2>1, <2>2, <2>3 DEF IntakeTypeOK, Outcomes
<1>2. CASE AskForMore
  <2>1. asked' \in OperatorIntake
    BY <1>2, GrownIsMore DEF AskForMore, IntakeTypeOK
  <2> QED
    BY <1>2, <2>1 DEF AskForMore, IntakeTypeOK, Outcomes
<1>3. CASE UpstreamMoves
  BY <1>3 DEF UpstreamMoves, IntakeTypeOK
<1>4. CASE UNCHANGED intakeVars
  BY <1>4 DEF intakeVars, IntakeTypeOK
<1> QED
  BY <1>1, <1>2, <1>3, <1>4 DEF IntakeNext

(* Asking for more never makes an intake easier to run: for any policy, any ledger and    *)
(* any counts of targets, operations, criteria and focus areas, an intake that would run   *)
(* without a signature and within the budget would also do so with less in any field.      *)
THEOREM BiggerNeverRunsSooner == IntakeSpec => [](IntakeTypeOK /\ BiggerIsNeverEasier)
<1>1. IntakeInit => IntakeTypeOK
  BY FirstIsTyped
<1>2. IntakeTypeOK /\ [IntakeNext /\ UNCHANGED financeVars]_<<intakeVars, financeVars>>
        => IntakeTypeOK'
  BY IntakeStaysTyped DEF intakeVars
<1>3. IntakeTypeOK => BiggerIsNeverEasier
  BY AskedRunsAtOnce DEF IntakeTypeOK
<1> QED
  BY <1>1, <1>2, <1>3, PTL DEF IntakeSpec

-------------------------------------------------------------------------------
(***************************************************************************)
(* Payment settlement                                                       *)
(***************************************************************************)

\* What a step in which the provider may take money for k does to the account.
LEMMA CreditOnly ==
    ASSUME SettlementTypeOK, NEW k \in Calls, Credit(k) \/ UNCHANGED credited
    PROVE  /\ credited' \in [Ids -> Nat]
           /\ \A i \in Ids : credited'[i] >= credited[i]
           /\ \A i \in Ids : i # k.id => credited'[i] = credited[i]
<1>1. k.id \in Ids /\ credited \in [Ids -> Nat]
  BY DEF Calls, SettlementTypeOK
<1> QED
  BY <1>1 DEF Credit

\* A status and the row it is written to, if the write does not fail.
LEMMA PersistOnly ==
    ASSUME SettlementTypeOK, NEW i \in Ids, NEW new \in Status, Persist(i, new)
    PROVE  /\ memory' = [memory EXCEPT ![i] = new]
           /\ row' = [row EXCEPT ![i] = new] \/ row' = row
           /\ PersistOutcomes = {TRUE} => row' = [row EXCEPT ![i] = new]
           /\ memory' \in [Ids -> Status] /\ row' \in [Ids -> Status]
<1>1. PICK saved \in PersistOutcomes :
         row' = IF saved THEN [row EXCEPT ![i] = new] ELSE row
  BY DEF Persist
<1>2. memory' = [memory EXCEPT ![i] = new] /\ memory' \in [Ids -> Status]
  BY DEF Persist, SettlementTypeOK
<1>3. saved \in BOOLEAN
  BY SettlementAssumption
<1>4. row' = [row EXCEPT ![i] = new] \/ row' = row
  BY <1>1, <1>3
<1>5. PersistOutcomes = {TRUE} => row' = [row EXCEPT ![i] = new]
  BY <1>1
<1>6. row' \in [Ids -> Status]
  BY <1>4 DEF SettlementTypeOK
<1> QED
  BY <1>2, <1>4, <1>5, <1>6

\* A caller that is not idle is inside a call for some settlement.
LEMMA InFlight ==
    ASSUME SettlementTypeOK, NEW c \in Callers, call[c] # Idle
    PROVE  /\ call[c] \in Calls
           /\ call[c].id \in Ids
           /\ call[c].for \in {"topup", "retry"}
           /\ call[c].attempt \in 0..MaxReposts
  BY DEF SettlementTypeOK, Calls

\* A call whose fields are changed within their ranges is a call.
LEMMA CallsClosed ==
    ASSUME NEW k \in Calls
    PROVE  /\ \A p \in {"posting", "backoff"} : [k EXCEPT !.step = p] \in Calls
           /\ \A f \in {"topup", "retry"} : [k EXCEPT !.for = f] \in Calls
           /\ \A n \in 0..MaxReposts : [k EXCEPT !.attempt = n] \in Calls
  BY DEF Calls

\* A new settlement takes an identifier nothing was filed under.
LEMMA NextIsUnused ==
    ASSUME NEW i \in Ids, IsNext(i)
    PROVE  origin[i] = "none"
  BY DEF IsNext, Unused

-------------------------------------------------------------------------------
\* Type correctness is inductive on its own.
LEMMA NextTyped ==
    ASSUME SettlementTypeOK, [SettlementNext]_settlementVars
    PROVE  SettlementTypeOK'
<1> USE SettlementAssumption
<1>1. CASE PaymentRequired
  <2>1. PICK i \in Ids : Create(i, "service")
    BY <1>1 DEF PaymentRequired
  <2>2. memory' \in [Ids -> Status] /\ row' \in [Ids -> Status]
    BY <2>1, PersistOnly DEF Create, Status
  <2> QED
    BY <1>1, <2>1, <2>2 DEF PaymentRequired, Create, SettlementTypeOK
<1>2. ASSUME NEW i \in Ids, Approve(i) \/ Deny(i) \/ BlockTopup(i)
      PROVE  SettlementTypeOK'
  <2>1. memory' \in [Ids -> Status] /\ row' \in [Ids -> Status]
    BY <1>2, PersistOnly DEF Approve, Deny, BlockTopup, Status
  <2> QED
    BY <1>2, <2>1 DEF Approve, Deny, BlockTopup, SettlementTypeOK
<1>3. ASSUME NEW i \in Ids, NEW c \in Callers, StartTopup(c, i)
      PROVE  SettlementTypeOK'
  BY <1>3 DEF StartTopup, SettlementTypeOK, Calls
<1>4. ASSUME NEW c \in Callers, TopupAnswered(c)
      PROVE  SettlementTypeOK'
  <2>1. call[c] \in Calls /\ call[c].id \in Ids
    BY <1>4, InFlight DEF TopupAnswered
  <2>2. memory' \in [Ids -> Status] /\ row' \in [Ids -> Status]
    BY <1>4, <2>1, PersistOnly DEF TopupAnswered, Status
  <2>3. credited' \in [Ids -> Nat]
    BY <1>4, <2>1, CreditOnly DEF TopupAnswered
  <2>4. [call[c] EXCEPT !.for = "retry", !.attempt = 0] \in Calls
    BY <2>1, CallsClosed, 0 \in 0..MaxReposts
  <2>5. PICK next \in Calls \cup {Idle} : call' = [call EXCEPT ![c] = next]
    BY <1>4, <2>4 DEF TopupAnswered
  <2>6. call' \in [Callers -> Calls \cup {Idle}]
    BY <2>5 DEF SettlementTypeOK
  <2> QED
    BY <1>4, <2>2, <2>3, <2>6 DEF TopupAnswered, SettlementTypeOK
<1>5. ASSUME NEW c \in Callers, RetryAnswered(c)
      PROVE  SettlementTypeOK'
  <2>1. credited' \in [Ids -> Nat]
    BY <1>5, InFlight, CreditOnly DEF RetryAnswered
  <2> QED
    BY <1>5, <2>1 DEF RetryAnswered, SettlementTypeOK
<1>6. ASSUME NEW c \in Callers, AttemptLost(c)
      PROVE  SettlementTypeOK'
  <2>1. call[c] \in Calls
    BY <1>6, InFlight DEF AttemptLost
  <2>2. credited' \in [Ids -> Nat]
    BY <1>6, <2>1, CreditOnly DEF AttemptLost
  <2>3. BackOff(call[c]) \in Calls
    <3>1. [call[c] EXCEPT !.step = "backoff"] \in Calls
      BY <2>1, CallsClosed
    <3>2. /\ call[c].attempt + 1 \in 0..MaxReposts
          /\ [call[c] EXCEPT !.step = "backoff"].attempt = call[c].attempt
      BY <1>6, <2>1 DEF AttemptLost, AttemptsLeft, Calls
    <3> QED
      BY <3>1, <3>2, CallsClosed DEF BackOff
  <2> QED
    BY <1>6, <2>2, <2>3 DEF AttemptLost, SettlementTypeOK
<1>7. ASSUME NEW c \in Callers, Repost(c)
      PROVE  SettlementTypeOK'
  <2>1. call[c] \in Calls
    BY <1>7, InFlight DEF Repost
  <2>2. [call[c] EXCEPT !.step = "posting"] \in Calls
    BY <2>1 DEF Calls
  <2> QED
    BY <1>7, <2>2 DEF Repost, SettlementTypeOK
<1>8. ASSUME NEW c \in Callers, CallFails(c)
      PROVE  SettlementTypeOK'
  <2>1. call[c] \in Calls /\ call[c].id \in Ids
    BY <1>8, InFlight DEF CallFails
  <2>2. memory' \in [Ids -> Status] /\ row' \in [Ids -> Status]
    BY <1>8, <2>1, PersistOnly DEF CallFails, Failed, Status, SettlementTypeOK
  <2>3. credited' \in [Ids -> Nat]
    BY <1>8, <2>1, CreditOnly DEF CallFails
  <2> QED
    BY <1>8, <2>2, <2>3 DEF CallFails, SettlementTypeOK
<1>9. ASSUME NEW c \in Callers, CallUnpaid(c)
      PROVE  SettlementTypeOK'
  BY <1>9, InFlight DEF CallUnpaid, Written, SettlementTypeOK, Status
<1>10. CASE Restart
  BY <1>10 DEF Restart, SettlementTypeOK, Status
<1>11. CASE UNCHANGED settlementVars
  BY <1>11 DEF settlementVars, SettlementTypeOK
<1> QED
  BY <1>1, <1>2, <1>3, <1>4, <1>5, <1>6, <1>7, <1>8, <1>9, <1>10, <1>11
     DEF SettlementNext, Answer

\* The initial state has its type.
LEMMA InitTyped == SettlementInit => SettlementTypeOK
  BY SettlementAssumption DEF SettlementInit, SettlementTypeOK, Status

(* The type invariant; in particular no call makes more attempts than MaxReposts + 1. *)
THEOREM SettlementTyped == SettlementSpec => []SettlementTypeOK
  BY InitTyped, NextTyped, PTL DEF SettlementSpec

-------------------------------------------------------------------------------
\* Only the answer to a top-up makes a status `executed', and it is paid by then.
LEMMA NextPaid ==
    ASSUME SettlementTypeOK, ExecutedIsPaid, [SettlementNext]_settlementVars
    PROVE  ExecutedIsPaid'
<1>1. ASSUME NEW i \in Ids, NEW new \in Status \ {"executed"}, Persist(i, new),
             \A k \in Ids : credited'[k] \in Nat /\ credited'[k] >= credited[k]
      PROVE  ExecutedIsPaid'
  <2>1. /\ memory' = [memory EXCEPT ![i] = new]
        /\ row' = [row EXCEPT ![i] = new] \/ row' = row
    BY <1>1, PersistOnly
  <2>2. \A k \in Ids : memory'[k] = "executed" => memory[k] = "executed"
    BY <1>1, <2>1 DEF SettlementTypeOK
  <2>3. \A k \in Ids : row'[k] = "executed" => row[k] = "executed"
    BY <1>1, <2>1 DEF SettlementTypeOK
  <2> QED
    BY <1>1, <2>2, <2>3 DEF ExecutedIsPaid, SettlementTypeOK
<1>2. ASSUME UNCHANGED <<memory, row>>,
             \A i \in Ids : credited'[i] \in Nat /\ credited'[i] >= credited[i]
      PROVE  ExecutedIsPaid'
  BY <1>2 DEF ExecutedIsPaid, SettlementTypeOK
<1>3. CASE PaymentRequired
  BY <1>1, <1>3 DEF PaymentRequired, Create, Status, SettlementTypeOK
<1>4. ASSUME NEW i \in Ids, Approve(i) \/ Deny(i) \/ BlockTopup(i)
      PROVE  ExecutedIsPaid'
  BY <1>1, <1>4 DEF Approve, Deny, BlockTopup, Status, SettlementTypeOK
<1>5. ASSUME NEW c \in Callers, TopupAnswered(c)
      PROVE  ExecutedIsPaid'
  <2>1. call[c] \in Calls /\ call[c].id \in Ids
    BY <1>5, InFlight DEF TopupAnswered
  <2>2. Credit(call[c]) /\ Pays(call[c]) /\ Persist(call[c].id, "executed")
    BY <1>5 DEF TopupAnswered, Pays
  <2>3. credited'[call[c].id] > 0
    BY <2>1, <2>2 DEF Credit, SettlementTypeOK
  <2>4. \A i \in Ids : credited'[i] \in Nat /\ credited'[i] >= credited[i]
    BY <2>1, <2>2, CreditOnly
  <2>5. /\ memory' = [memory EXCEPT ![call[c].id] = "executed"]
        /\ row' = [row EXCEPT ![call[c].id] = "executed"] \/ row' = row
    BY <2>1, <2>2, PersistOnly DEF Status
  <2> QED
    BY <2>3, <2>4, <2>5 DEF ExecutedIsPaid, SettlementTypeOK
<1>6. ASSUME NEW c \in Callers, RetryAnswered(c) \/ AttemptLost(c)
      PROVE  ExecutedIsPaid'
  <2>1. call[c] \in Calls /\ (Credit(call[c]) \/ UNCHANGED credited) /\ UNCHANGED <<memory, row>>
    BY <1>6, InFlight DEF RetryAnswered, AttemptLost
  <2> QED
    BY <2>1, <1>2, CreditOnly
<1>7. ASSUME NEW c \in Callers, CallFails(c)
      PROVE  ExecutedIsPaid'
  <2>1. call[c] \in Calls /\ call[c].id \in Ids
    BY <1>7, InFlight DEF CallFails
  <2>2. \A i \in Ids : credited'[i] \in Nat /\ credited'[i] >= credited[i]
    BY <1>7, <2>1, CreditOnly DEF CallFails
  <2>3. CASE UNCHANGED <<memory, row>>
    BY <1>2, <2>2, <2>3
  <2>4. CASE Persist(call[c].id, "failed")
    BY <1>1, <2>1, <2>2, <2>4 DEF Status
  <2> QED
    BY <1>7, <2>3, <2>4 DEF CallFails, Failed
<1>8. ASSUME NEW c \in Callers, CallUnpaid(c)
      PROVE  ExecutedIsPaid'
  BY <1>8, InFlight DEF CallUnpaid, Written, ExecutedIsPaid, SettlementTypeOK
<1>9. CASE Restart
  BY <1>9 DEF Restart, ExecutedIsPaid, SettlementTypeOK
<1>10. CASE UNCHANGED <<memory, row, credited>>
  BY <1>10 DEF ExecutedIsPaid
<1> QED
  BY <1>3, <1>4, <1>5, <1>6, <1>7, <1>8, <1>9, <1>10
     DEF SettlementNext, Answer, StartTopup, Repost, settlementVars

(* Whatever raced, was lost or was reloaded, a settlement filed as executed was paid.   *)
THEOREM ExecutionWasPaid == SettlementSpec => []ExecutedIsPaid
<1>1. SettlementInit => ExecutedIsPaid
  BY DEF SettlementInit, ExecutedIsPaid
<1> QED
  BY <1>1, NextPaid, SettlementTyped, PTL DEF SettlementSpec

-------------------------------------------------------------------------------
\* Before it is approved a settlement has no call and has cost nothing.
Untouched(i) ==
    /\ credited[i] = 0
    /\ \A c \in Callers : call[c] # Idle => call[c].id # i

\* The process holds what the rows say, and a request whose row is absent, pending
\* or denied is untouched.  Both need writes that do not fail.
DenialInv ==
    /\ SettlementTypeOK
    /\ \A i \in Ids :
         /\ memory[i] # "absent" => memory[i] = row[i]
         /\ origin[i] = "none" => row[i] = "absent"
         /\ row[i] \in {"absent", "pending", "denied"} => Untouched(i)

\* A step about i that writes a row and leaves every other settlement alone.
LEMMA StepOfOne ==
    ASSUME DenialInv, SettlementTypeOK', NEW i \in Ids, NEW new \in Status,
           memory' = [memory EXCEPT ![i] = new], row' = [row EXCEPT ![i] = new],
           new # "absent",
           \A k \in Ids : k # i => credited'[k] = credited[k],
           \A c \in Callers : call'[c] # Idle => call'[c].id = i \/ call'[c] = call[c],
           new \in {"pending", "denied"} => Untouched(i)',
           \A k \in Ids : origin'[k] = "none" => origin[k] = "none" /\ k # i
    PROVE  DenialInv'
<1>1. /\ memory'[i] = new /\ row'[i] = new
      /\ \A k \in Ids : k # i => memory'[k] = memory[k] /\ row'[k] = row[k]
  BY DEF DenialInv, SettlementTypeOK
<1>2. ASSUME NEW k \in Ids, k # i, Untouched(k)
      PROVE  Untouched(k)'
  BY <1>2 DEF Untouched
<1>3. ASSUME NEW k \in Ids, k # i
      PROVE  /\ memory'[k] # "absent" => memory'[k] = row'[k]
             /\ origin'[k] = "none" => row'[k] = "absent"
             /\ row'[k] \in {"absent", "pending", "denied"} => Untouched(k)'
  BY <1>1, <1>2, <1>3 DEF DenialInv
<1> QED
  BY <1>1, <1>3 DEF DenialInv

\* A step that writes nothing, and credits or ends a call already made.
LEMMA StepOfNone ==
    ASSUME DenialInv, SettlementTypeOK', NEW c \in Callers, call[c] # Idle,
           UNCHANGED <<memory, row, origin>>,
           \A k \in Ids : k # call[c].id => credited'[k] = credited[k],
           \A b \in Callers : call'[b] # Idle =>
                call'[b] = call[b] \/ call'[b].id = call[c].id
    PROVE  DenialInv'
<1>1. ASSUME NEW k \in Ids, Untouched(k)
      PROVE  Untouched(k)'
  BY <1>1 DEF Untouched
<1> QED
  BY <1>1 DEF DenialInv

\* Every step keeps it, when no write is lost.
LEMMA NextDenial ==
    ASSUME PersistOutcomes = {TRUE}, DenialInv, [SettlementNext]_settlementVars
    PROVE  DenialInv'
<1>0. SettlementTypeOK /\ SettlementTypeOK'
  BY NextTyped DEF DenialInv
<1>1. CASE PaymentRequired
  <2>1. PICK i \in Ids : Create(i, "service")
    BY <1>1 DEF PaymentRequired
  <2>2. memory' = [memory EXCEPT ![i] = "pending"] /\ row' = [row EXCEPT ![i] = "pending"]
    BY <1>0, <2>1, PersistOnly DEF Create, Status
  <2>3. origin' = [origin EXCEPT ![i] = "service"] /\ UNCHANGED <<call, credited>>
    BY <1>1, <2>1 DEF PaymentRequired, Create
  <2>4. Untouched(i)'
    BY <2>1, <2>3, NextIsUnused DEF Create, DenialInv, Untouched
  <2>5. \A k \in Ids : origin'[k] = "none" => origin[k] = "none" /\ k # i
    BY <1>0, <2>3 DEF SettlementTypeOK
  <2> QED
    BY <1>0, <2>2, <2>3, <2>4, <2>5, StepOfOne DEF Status
<1>2. ASSUME NEW i \in Ids, Approve(i) \/ Deny(i) \/ BlockTopup(i)
      PROVE  DenialInv'
  <2>1. PICK new \in {"approved", "denied", "failed"} :
          /\ Persist(i, new)
          /\ new = "denied" => memory[i] = "pending"
          /\ memory[i] # "absent"
          /\ UNCHANGED <<origin, call, credited>>
    BY <1>2 DEF Approve, Deny, BlockTopup
  <2>2. memory' = [memory EXCEPT ![i] = new] /\ row' = [row EXCEPT ![i] = new]
    BY <1>0, <2>1, PersistOnly DEF Status
  <2>3. new = "denied" => Untouched(i)'
    BY <2>1 DEF DenialInv, Untouched
  <2>4. \A k \in Ids : origin'[k] = "none" => origin[k] = "none" /\ k # i
    BY <2>1 DEF DenialInv
  <2> QED
    BY <1>0, <2>1, <2>2, <2>3, <2>4, StepOfOne DEF Status
<1>3. ASSUME NEW i \in Ids, NEW c \in Callers, StartTopup(c, i)
      PROVE  DenialInv'
  <2>1. row[i] = "approved" /\ UNCHANGED <<memory, row, origin, credited>>
    BY <1>3 DEF StartTopup, DenialInv
  <2>2. \A b \in Callers : call'[b] # Idle => call'[b] = call[b] \/ call'[b].id = i
    BY <1>0, <1>3 DEF StartTopup, SettlementTypeOK
  <2>3. ASSUME NEW k \in Ids, k # i, Untouched(k)
        PROVE  Untouched(k)'
    BY <2>1, <2>2, <2>3 DEF Untouched
  <2> QED
    BY <1>0, <2>1, <2>3 DEF DenialInv
<1>4. ASSUME NEW c \in Callers, TopupAnswered(c)
      PROVE  DenialInv'
  <2>1. call[c] \in Calls /\ call[c].id \in Ids /\ call[c] # Idle
    BY <1>0, <1>4, InFlight DEF TopupAnswered
  <2>2. /\ memory' = [memory EXCEPT ![call[c].id] = "executed"]
        /\ row' = [row EXCEPT ![call[c].id] = "executed"]
    BY <1>0, <1>4, <2>1, PersistOnly DEF TopupAnswered, Status
  <2>3. \A k \in Ids : k # call[c].id => credited'[k] = credited[k]
    BY <1>0, <1>4, <2>1, CreditOnly DEF TopupAnswered
  <2>4. [call[c] EXCEPT !.for = "retry", !.attempt = 0].id = call[c].id
    BY <2>1 DEF Calls
  <2>5. PICK next : call' = [call EXCEPT ![c] = next] /\ (next # Idle => next.id = call[c].id)
    BY <1>4, <2>4 DEF TopupAnswered
  <2>6. \A b \in Callers : call'[b] # Idle => call'[b].id = call[c].id \/ call'[b] = call[b]
    BY <1>0, <2>5 DEF SettlementTypeOK
  <2>7. \A k \in Ids : origin'[k] = "none" => origin[k] = "none" /\ k # call[c].id
    BY <1>4, <2>1 DEF TopupAnswered, DenialInv, Untouched
  <2> QED
    BY <1>0, <2>1, <2>2, <2>3, <2>6, <2>7, StepOfOne DEF Status
<1>5. ASSUME NEW c \in Callers, RetryAnswered(c)
      PROVE  DenialInv'
  <2>1. call[c] \in Calls /\ call[c] # Idle
    BY <1>0, <1>5, InFlight DEF RetryAnswered
  <2>2. \A k \in Ids : k # call[c].id => credited'[k] = credited[k]
    BY <1>0, <1>5, <2>1, CreditOnly DEF RetryAnswered
  <2>3. \A b \in Callers : call'[b] # Idle => call'[b] = call[b]
    BY <1>0, <1>5 DEF RetryAnswered, SettlementTypeOK
  <2> QED
    BY <1>0, <1>5, <2>1, <2>2, <2>3, StepOfNone DEF RetryAnswered
<1>6. ASSUME NEW c \in Callers, AttemptLost(c) \/ Repost(c)
      PROVE  DenialInv'
  <2>1. call[c] \in Calls /\ call[c] # Idle
    BY <1>0, <1>6, InFlight DEF AttemptLost, Repost
  <2>2. \A k \in Ids : k # call[c].id => credited'[k] = credited[k]
    BY <1>0, <1>6, <2>1, CreditOnly DEF AttemptLost, Repost
  <2>3. BackOff(call[c]).id = call[c].id /\ [call[c] EXCEPT !.step = "posting"].id = call[c].id
    BY <2>1 DEF BackOff, Calls
  <2>4. \A b \in Callers : call'[b] = call[b] \/ call'[b].id = call[c].id
    BY <1>0, <1>6, <2>3 DEF AttemptLost, Repost, SettlementTypeOK
  <2> QED
    BY <1>0, <1>6, <2>1, <2>2, <2>4, StepOfNone DEF AttemptLost, Repost
<1>7. ASSUME NEW c \in Callers, CallFails(c)
      PROVE  DenialInv'
  <2>1. call[c] \in Calls /\ call[c].id \in Ids /\ call[c] # Idle
    BY <1>0, <1>7, InFlight DEF CallFails
  <2>2. \A k \in Ids : k # call[c].id => credited'[k] = credited[k]
    BY <1>0, <1>7, <2>1, CreditOnly DEF CallFails
  <2>3. \A b \in Callers : call'[b] # Idle => call'[b] = call[b]
    BY <1>0, <1>7 DEF CallFails, SettlementTypeOK
  <2>4. CASE UNCHANGED <<memory, row>>
    BY <1>0, <1>7, <2>1, <2>2, <2>3, <2>4, StepOfNone DEF CallFails
  <2>5. CASE Persist(call[c].id, "failed")
    <3>1. /\ memory' = [memory EXCEPT ![call[c].id] = "failed"]
          /\ row' = [row EXCEPT ![call[c].id] = "failed"]
      BY <1>0, <2>1, <2>5, PersistOnly DEF Status
    <3>2. \A k \in Ids : origin'[k] = "none" => origin[k] = "none" /\ k # call[c].id
      BY <1>7, <2>1 DEF CallFails, DenialInv, Untouched
    <3> QED
      BY <1>0, <2>1, <2>2, <2>3, <3>1, <3>2, StepOfOne DEF Status
  <2> QED
    BY <1>7, <2>4, <2>5 DEF CallFails, Failed
<1>8. ASSUME NEW c \in Callers, CallUnpaid(c)
      PROVE  DenialInv'
  <2>1. call[c] \in Calls /\ call[c].id \in Ids /\ call[c] # Idle
    BY <1>0, <1>8, InFlight DEF CallUnpaid
  <2>2. PICK first \in Ids, filedAs \in {"topup", "service"} :
          /\ IsNext(first)
          /\ origin' = [origin EXCEPT ![first] = filedAs]
          /\ memory' = Written(Written(memory, TRUE, first, "pending"),
                               call[c].for = "topup", call[c].id, "failed")
          /\ row' = Written(Written(row, TRUE, first, "pending"),
                            call[c].for = "topup", call[c].id, "failed")
    BY <1>8 DEF CallUnpaid
  <2>3. UNCHANGED credited /\ \A b \in Callers : call'[b] # Idle => call'[b] = call[b]
    BY <1>0, <1>8 DEF CallUnpaid, SettlementTypeOK
  <2>4. origin[first] = "none" /\ row[first] = "absent" /\ Untouched(first)
    BY <2>2, NextIsUnused DEF DenialInv
  <2>5. row[call[c].id] \notin {"absent", "pending", "denied"} /\ first # call[c].id
    BY <2>1, <2>4 DEF DenialInv, Untouched
  <2>6. \A k \in Ids : Untouched(k) => Untouched(k)'
    BY <2>3 DEF Untouched
  <2>7. \A k \in Ids : /\ k = first => memory'[k] = "pending" /\ row'[k] = "pending"
                       /\ k = call[c].id /\ call[c].for = "topup" =>
                             memory'[k] = "failed" /\ row'[k] = "failed"
                       /\ k # first /\ ~(k = call[c].id /\ call[c].for = "topup") =>
                             memory'[k] = memory[k] /\ row'[k] = row[k]
    BY <1>0, <2>1, <2>2, <2>5 DEF Written, SettlementTypeOK
  <2>8. \A k \in Ids : origin'[k] = "none" => origin[k] = "none" /\ k # first
    BY <1>0, <2>2 DEF SettlementTypeOK
  <2> QED
    BY <1>0, <2>4, <2>5, <2>6, <2>7, <2>8 DEF DenialInv
<1>9. CASE Restart
  <2>1. \A k \in Ids : memory'[k] # "absent" => memory'[k] = row[k]
    BY <1>9 DEF Restart
  <2>2. UNCHANGED <<row, origin, credited>> /\ \A b \in Callers : call'[b] = Idle
    BY <1>9 DEF Restart
  <2> QED
    BY <1>0, <2>1, <2>2 DEF DenialInv, Untouched
<1>10. CASE UNCHANGED settlementVars
  BY <1>10 DEF settlementVars, DenialInv, SettlementTypeOK, Untouched
<1> QED
  BY <1>1, <1>2, <1>3, <1>4, <1>5, <1>6, <1>7, <1>8, <1>9, <1>10
     DEF SettlementNext, Answer

(* When no write of a settlement fails, an operator's denial holds: no money is taken    *)
(* for a denied settlement, across concurrent executions, lost answers and restarts.     *)
THEOREM DenialSpendsNothing ==
    ASSUME PersistOutcomes = {TRUE}
    PROVE  SettlementSpec => []DeniedSpendsNothing
<1>1. SettlementInit => DenialInv
  BY InitTyped DEF SettlementInit, DenialInv, Untouched
<1>2. DenialInv /\ [SettlementNext]_settlementVars => DenialInv'
  BY NextDenial
<1>3. DenialInv => DeniedSpendsNothing
  BY DEF DenialInv, DeniedSpendsNothing, Untouched
<1> QED
  BY <1>1, <1>2, <1>3, PTL DEF SettlementSpec

\* When no write is lost, a settlement's status and the provider's account agree.
THEOREM CreditsMatch ==
    ASSUME PersistOutcomes = {TRUE}
    PROVE  SettlementSpec => []CreditMatchesStatus
<1>1. DeniedSpendsNothing /\ ExecutedIsPaid => CreditMatchesStatus
  BY DEF CreditMatchesStatus
<1> QED
  BY <1>1, ExecutionWasPaid, DenialSpendsNothing, PTL
-------------------------------------------------------------------------------
(* Settlement keeps an account. *)

\* What may become of one bill in a step
BillMoves(b) ==
    \/ Billing!Bill(b) \/ Billing!Decide(b) \/ Billing!Charge(b)
    \/ Billing!Pay(b) \/ Billing!Fail(b) \/ Billing!Rest(b)

\* A bill whose row and charges a step leaves alone rests.
LEMMA OthersRest ==
    ASSUME NEW b, row'[b] = row[b], credited'[b] = credited[b]
    PROVE  BillMoves(b)
BY DEF BillMoves, Billing!Rest

\* A call is only made for a bill that was granted, whatever became of it since.
LEMMA CallsAreGranted ==
    ASSUME DenialInv, NEW c \in Callers, call[c] # Idle
    PROVE  row[call[c].id] \in Billing!AfterGrant
<1>1. call[c].id \in Ids
  BY InFlight DEF DenialInv
<1>2. row[call[c].id] \in Status \ {"absent", "pending", "denied"}
  BY <1>1 DEF DenialInv, Untouched, SettlementTypeOK
<1> QED
  BY <1>2 DEF Status, Billing!AfterGrant

\* What an answer may charge: the one bill that the call is for, and once
LEMMA ChargedOnce ==
    ASSUME SettlementTypeOK, NEW k \in Calls, Credit(k) \/ UNCHANGED credited, NEW b \in Ids
    PROVE  /\ credited'[b] = credited[b] \/ (b = k.id /\ credited'[b] = credited[b] + 1)
           /\ Credit(k) /\ Pays(k) /\ b = k.id => credited'[b] = credited[b] + 1
           /\ credited[b] \in Nat
<1>1. k.id \in Ids /\ credited \in [Ids -> Nat]
  BY DEF Calls, SettlementTypeOK
<1> QED
  BY <1>1 DEF Credit

\* An answer to a call, as far as the bill b goes
LEMMA AnswerMovesBill ==
    ASSUME PersistOutcomes = {TRUE}, DenialInv, NEW c \in Callers, Answer(c), NEW b \in Ids
    PROVE  BillMoves(b)
<1>1. /\ SettlementTypeOK
      /\ call[c] # Idle /\ call[c] \in Calls /\ call[c].id \in Ids
      /\ row[call[c].id] \in Billing!AfterGrant
      /\ row \in [Ids -> Status]
  <2>1. call[c] # Idle /\ SettlementTypeOK
    BY DEF DenialInv, Answer, TopupAnswered, RetryAnswered, AttemptLost, Repost, CallFails,
           CallUnpaid
  <2> QED
    BY <2>1, InFlight, CallsAreGranted DEF SettlementTypeOK
<1>2. CASE TopupAnswered(c)
  <2>1. row' = [row EXCEPT ![call[c].id] = "executed"]
    BY <1>1, <1>2, PersistOnly DEF TopupAnswered, Status
  <2>2. /\ credited'[b] = credited[b] \/ (b = call[c].id /\ credited'[b] = credited[b] + 1)
        /\ b = call[c].id => credited'[b] = credited[b] + 1
        /\ credited[b] \in Nat
    BY <1>1, <1>2, ChargedOnce DEF TopupAnswered, Pays
  <2>3. CASE b = call[c].id
    <3>1. row'[b] = "executed" /\ credited'[b] > 0
      BY <1>1, <2>1, <2>2, <2>3
    <3> QED
      BY <1>1, <2>2, <2>3, <3>1 DEF BillMoves, Billing!Pay
  <2>4. CASE b # call[c].id
    BY <1>1, <2>1, <2>2, <2>4, OthersRest
  <2> QED
    BY <2>3, <2>4
<1>3. CASE RetryAnswered(c) \/ AttemptLost(c) \/ Repost(c)
  <2>1. row' = row
    BY <1>3 DEF RetryAnswered, AttemptLost, Repost
  <2>2. Credit(call[c]) \/ UNCHANGED credited
    BY <1>3 DEF RetryAnswered, AttemptLost, Repost
  <2>3. credited'[b] = credited[b] \/ (b = call[c].id /\ credited'[b] = credited[b] + 1)
    BY <1>1, <2>2, ChargedOnce
  <2> QED
    BY <1>1, <2>1, <2>3, OthersRest DEF BillMoves, Billing!Charge
<1>4. CASE CallFails(c)
  <2>1. row' = row \/ row' = [row EXCEPT ![call[c].id] = "failed"]
    <3>1. UNCHANGED <<memory, row>> \/ Persist(call[c].id, "failed")
      BY <1>4 DEF CallFails, Failed
    <3> QED
      BY <1>1, <3>1, PersistOnly DEF Status
  <2>2. Credit(call[c]) \/ UNCHANGED credited
    BY <1>4 DEF CallFails
  <2>3. credited'[b] = credited[b] \/ (b = call[c].id /\ credited'[b] = credited[b] + 1)
    BY <1>1, <2>2, ChargedOnce
  <2>4. CASE row'[b] = row[b]
    BY <1>1, <2>3, <2>4, OthersRest DEF BillMoves, Billing!Charge
  <2>5. CASE b = call[c].id /\ row'[b] = "failed"
    BY <1>1, <2>3, <2>5 DEF BillMoves, Billing!Fail
  <2> QED
    BY <1>1, <2>1, <2>4, <2>5
<1>5. CASE CallUnpaid(c)
  <2>1. PICK first \in Ids :
          /\ IsNext(first)
          /\ row' = Written(Written(row, TRUE, first, "pending"),
                            call[c].for = "topup", call[c].id, "failed")
    BY <1>5 DEF CallUnpaid
  <2>2. credited' = credited
    BY <1>5 DEF CallUnpaid
  <2>3. row[first] = "absent" /\ first # call[c].id
    BY <1>1, <2>1, NextIsUnused DEF DenialInv, Billing!AfterGrant
  <2>4. CASE b = first
    <3>1. row'[b] = "pending"
      BY <1>1, <2>1, <2>3, <2>4 DEF Written
    <3> QED
      BY <2>2, <2>3, <2>4, <3>1 DEF BillMoves, Billing!Bill
  <2>5. CASE b = call[c].id
    <3>1. row'[b] = row[b] \/ row'[b] = "failed"
      BY <1>1, <2>1, <2>3, <2>5 DEF Written
    <3> QED
      BY <1>1, <2>2, <2>5, <3>1, OthersRest DEF BillMoves, Billing!Fail
  <2>6. CASE b # first /\ b # call[c].id
    <3>1. row'[b] = row[b]
      BY <1>1, <2>1, <2>6 DEF Written
    <3> QED
      BY <2>2, <3>1, OthersRest
  <2> QED
    BY <2>4, <2>5, <2>6
<1> QED
  BY <1>2, <1>3, <1>4, <1>5 DEF Answer

\* What the operator or the gateway decides, as far as the bill b goes
LEMMA DecisionMovesBill ==
    ASSUME PersistOutcomes = {TRUE}, DenialInv, NEW i \in Ids, NEW b \in Ids,
           Approve(i) \/ Deny(i) \/ BlockTopup(i)
    PROVE  BillMoves(b)
<1>1. SettlementTypeOK /\ row \in [Ids -> Status] /\ memory[i] # "absent"
  BY DEF DenialInv, SettlementTypeOK, Approve, Deny, BlockTopup
<1>2. row[i] = memory[i] /\ credited' = credited
  BY <1>1 DEF DenialInv, Approve, Deny, BlockTopup
<1>3. PICK new \in {"approved", "denied", "failed"} :
         /\ Persist(i, new)
         /\ IF new = "failed" THEN memory[i] = "approved" ELSE memory[i] = "pending"
  BY DEF Approve, Deny, BlockTopup
<1>4. row' = [row EXCEPT ![i] = new]
  BY <1>1, <1>3, PersistOnly DEF Status
<1>5. CASE b # i
  BY <1>1, <1>2, <1>4, <1>5, OthersRest
<1>6. CASE b = i /\ new = "failed"
  <2>1. row[b] \in Billing!AfterGrant /\ row'[b] = "failed"
    BY <1>1, <1>2, <1>3, <1>4, <1>6 DEF Billing!AfterGrant
  <2> QED
    BY <1>2, <2>1 DEF BillMoves, Billing!Fail
<1>7. CASE b = i /\ new # "failed"
  <2>1. row[b] = "pending" /\ row'[b] \in {"approved", "denied"}
    BY <1>1, <1>2, <1>3, <1>4, <1>7
  <2> QED
    BY <1>2, <2>1 DEF BillMoves, Billing!Decide
<1> QED
  BY <1>5, <1>6, <1>7

\* Every step moves each bill as the account allows.
LEMMA StepMovesBills ==
    ASSUME PersistOutcomes = {TRUE}, DenialInv, [SettlementNext]_settlementVars, NEW b \in Ids
    PROVE  BillMoves(b)
<1>1. SettlementTypeOK /\ row \in [Ids -> Status]
  BY DEF DenialInv, SettlementTypeOK
<1>2. CASE PaymentRequired
  <2>1. PICK i \in Ids : Create(i, "service")
    BY <1>2 DEF PaymentRequired
  <2>2. row' = [row EXCEPT ![i] = "pending"] /\ row[i] = "absent" /\ credited' = credited
    BY <1>1, <1>2, <2>1, PersistOnly, NextIsUnused
       DEF PaymentRequired, Create, Status, DenialInv
  <2>3. CASE b = i
    BY <1>1, <2>2, <2>3 DEF BillMoves, Billing!Bill
  <2>4. CASE b # i
    BY <1>1, <2>2, <2>4, OthersRest
  <2> QED
    BY <2>3, <2>4
<1>3. ASSUME NEW i \in Ids, NEW c \in Callers, StartTopup(c, i) PROVE BillMoves(b)
  BY <1>3, OthersRest DEF StartTopup
<1>4. CASE Restart \/ UNCHANGED settlementVars
  BY <1>4, OthersRest DEF Restart, settlementVars
<1> QED
  BY <1>2, <1>3, <1>4, AnswerMovesBill, DecisionMovesBill DEF SettlementNext

(* When no write of a settlement fails, what is on record of the bills and what the     *)
(* provider takes implement Account: no decision is taken back, a refusal costs nothing  *)
(* for good, and what counts as paid was charged, across concurrent executions, lost     *)
(* answers and restarts.                                                                  *)
THEOREM SettlementKeepsAccount ==
    ASSUME PersistOutcomes = {TRUE}
    PROVE  SettlementSpec => KeepsAccount
<1>1. SettlementInit => DenialInv /\ Billing!AccountInit
  BY InitTyped DEF SettlementInit, DenialInv, Untouched, Billing!AccountInit
<1>2. DenialInv /\ [SettlementNext]_settlementVars => DenialInv'
  BY NextDenial
<1>3. DenialInv /\ DenialInv' /\ [SettlementNext]_settlementVars
         => [Billing!AccountNext]_(Billing!accountVars)
  <2> SUFFICES ASSUME DenialInv, DenialInv', [SettlementNext]_settlementVars
               PROVE  Billing!AccountNext
    OBVIOUS
  <2>1. \A b \in Ids : BillMoves(b)
    BY StepMovesBills
  <2>2. row' \in [Ids -> Status] /\ credited' \in [Ids -> Nat]
    BY DEF DenialInv, SettlementTypeOK
  <2>3. row' = [b \in Ids |-> row'[b]] /\ credited' = [b \in Ids |-> credited'[b]]
    BY <2>2
  <2> QED
    BY <2>1, <2>3 DEF Billing!AccountNext, BillMoves
<1> QED
  BY <1>1, <1>2, <1>3, PTL DEF SettlementSpec, KeepsAccount, Billing!AccountSpec

-------------------------------------------------------------------------------
(***************************************************************************)
(* Calls of provider APIs                                                   *)
(***************************************************************************)

\* What one step does to the windows and the clock
WindowsKept == UNCHANGED <<hits, stamps, apiNow>>
OneDropsOld == \E w \in Windows : DropOld(w) /\ UNCHANGED apiNow
OneLetsThrough == \E w \in Windows : HasRoom(w) /\ LetThrough(w) /\ UNCHANGED apiNow
WindowsCleared ==
    hits' = [w \in Windows |-> {}] /\ stamps' = [w \in Windows |-> <<>>] /\ UNCHANGED apiNow
ClockMoves == UNCHANGED <<hits, stamps>> /\ apiNow' = apiNow + 1

\* What going on to the next routes does to a call and its rows
GoneOn(c, made) ==
    \E q \in ProviderIndex :
        /\ made.provider <= q /\ (made.route # 0 => q = made.provider)
        /\ \/ /\ FileRows(c, made, made.provider, q, "running")
              /\ \E k \in 1..Len(ApiRoutes) :
                    apiCall' = [apiCall EXCEPT ![c] =
                       [made EXCEPT !.at = "asking", !.provider = q, !.route = k, !.attempt = 1]]
           \/ FileRows(c, made, made.provider, q, "blocked") /\ ApiEnds(c, q)

\* A route's window is one of the windows.
LEMMA WindowOfRoute ==
    ASSUME NEW r \in DOMAIN ApiRoutes
    PROVE  WindowOf(r) \in Windows
BY ApiCallsAssumption DEF WindowOf, Windows, IsApiRoute

\* Wherever the loops over routes and providers stop, this is what they leave.
LEMMA GoingOn ==
    ASSUME ApiTypeOK, NEW c \in ApiCallers, NEW made \in CallRecords, NEW r \in Nat, r >= 1,
           GoesOn(c, made, r), UNCHANGED apiNow
    PROVE  GoneOn(c, made) /\ (WindowsKept \/ OneDropsOld \/ OneLetsThrough)
<1> DEFINE last == IF made.route = 0 /\ made.across THEN Len(ApiProviders) ELSE made.provider
<1>1. /\ Len(ApiProviders) \in Nat /\ Len(ApiRoutes) \in Nat
      /\ DOMAIN ApiRoutes = 1..Len(ApiRoutes)
      /\ made.provider \in 1..Len(ApiProviders)
  BY ApiCallsAssumption DEF CallRecords, ProviderIndex
<1>2. last \in ProviderIndex /\ made.provider <= last /\ (made.route # 0 => last = made.provider)
  BY <1>1 DEF ProviderIndex
<1>3. CASE /\ FileRows(c, made, made.provider, last, "blocked") /\ ApiEnds(c, last)
           /\ UNCHANGED <<hits, stamps>>
  <2>1. GoneOn(c, made)
    <3> HIDE DEF last
    <3> QED BY <1>2, <1>3 DEF GoneOn
  <2> QED
    BY <1>3, <2>1 DEF WindowsKept
<1>4. ASSUME NEW q \in made.provider..last,
             NEW k \in NextRoutes(made, q, IF q = made.provider THEN r ELSE 1),
             NEW scheme \in TargetSchemes,
             \/ AskRoute(c, made, made.provider, q, k, scheme)
             \/ RefuseRoute(c, made, made.provider, q, k, scheme)
      PROVE  GoneOn(c, made) /\ (WindowsKept \/ OneDropsOld \/ OneLetsThrough)
  <2>1. /\ q \in ProviderIndex /\ made.provider <= q /\ (made.route # 0 => q = made.provider)
        /\ k \in 1..Len(ApiRoutes)
    <3> HIDE DEF last
    <3>1. q \in Int /\ made.provider <= q /\ q <= last
      BY <1>1, <1>2 DEF ProviderIndex
    <3>2. k \in 1..Len(ApiRoutes)
      BY <1>1 DEF NextRoutes
    <3> QED BY <1>1, <1>2, <3>1, <3>2 DEF ProviderIndex
  <2>2. WindowOf(k) \in Windows
    BY <1>1, <2>1, WindowOfRoute
  <2>3. GoneOn(c, made)
    <3> HIDE DEF last
    <3> QED BY <1>4, <2>1 DEF GoneOn, AskRoute, RefuseRoute
  <2>4. WindowsKept \/ OneDropsOld \/ OneLetsThrough
    BY <1>4, <2>2 DEF AskRoute, RefuseRoute, WindowsKept, OneDropsOld, OneLetsThrough
  <2> QED
    BY <2>3, <2>4
<1> QED
  <2>1. \/ \E q \in made.provider..last :
              \E k \in NextRoutes(made, q, IF q = made.provider THEN r ELSE 1) :
                 \E scheme \in TargetSchemes :
                    \/ AskRoute(c, made, made.provider, q, k, scheme)
                    \/ RefuseRoute(c, made, made.provider, q, k, scheme)
        \/ /\ FileRows(c, made, made.provider, last, "blocked") /\ ApiEnds(c, last)
           /\ UNCHANGED <<hits, stamps>>
    BY DEF GoesOn
  <2> HIDE DEF last
  <2> QED BY <1>3, <1>4, <2>1

\* The record a call is made with, and the one it has, are records of a call.
LEMMA MadeIsRecord ==
    ASSUME NEW capability \in ApiCapabilities, NEW resource \in BOOLEAN, NEW across \in BOOLEAN,
           NEW named \in BOOLEAN, NEW p \in ProviderIndex
    PROVE  [NotMade EXCEPT !.capability = capability, !.resource = resource,
               !.across = across, !.named = named, !.provider = p] \in CallRecords
<1>1. 0 \in 0..Len(ApiRoutes) /\ 0 \in 0..CallRetries + 1
  <2>1. Len(ApiRoutes) \in Nat /\ CallRetries \in Nat
    BY ApiCallsAssumption
  <2> QED
    BY <2>1
<1> QED
  BY <1>1 DEF NotMade, CallRecords

\* So is the record of a call that is over.
LEMMA EndedIsRecord ==
    ASSUME NEW q \in ProviderIndex
    PROVE  [NotMade EXCEPT !.at = "over", !.provider = q] \in CallRecords
<1>1. 0 \in 0..Len(ApiRoutes) /\ 0 \in 0..CallRetries + 1
  <2>1. Len(ApiRoutes) \in Nat /\ CallRetries \in Nat
    BY ApiCallsAssumption
  <2> QED
    BY <2>1
<1> QED
  BY <1>1 DEF NotMade, CallRecords

\* What a step may do to the windows and the clock
LEMMA WindowSteps ==
    ASSUME ApiTypeOK, [ApiNext]_apiVars
    PROVE  WindowsKept \/ OneDropsOld \/ OneLetsThrough \/ WindowsCleared \/ ClockMoves
<1>1. CASE UNCHANGED apiVars
  BY <1>1 DEF apiVars, WindowsKept
<1>2. ASSUME NEW c \in ApiCallers, NEW capability \in ApiCapabilities, NEW resource \in BOOLEAN,
             NEW across \in BOOLEAN, NEW named \in BOOLEAN, NEW p \in ProviderIndex,
             MakeCall(c, capability, resource, across, named, p)
      PROVE  WindowsKept \/ OneDropsOld \/ OneLetsThrough
  <2> DEFINE made == [NotMade EXCEPT !.capability = capability, !.resource = resource,
                          !.across = across, !.named = named, !.provider = p]
  <2>1. made \in CallRecords
    BY MadeIsRecord
  <2>2. GoesOn(c, made, 1) /\ UNCHANGED apiNow
    BY <1>2 DEF MakeCall
  <2> HIDE DEF made
  <2> QED BY <2>1, <2>2, GoingOn
<1>3. ASSUME NEW c \in ApiCallers, TryNextRoute(c)
      PROVE  WindowsKept \/ OneDropsOld \/ OneLetsThrough
  <2> DEFINE made == apiCall[c]
             r == apiCall[c].route + 1
  <2>1. made \in CallRecords /\ r \in Nat /\ r >= 1
    BY ApiCallsAssumption DEF ApiTypeOK, CallRecords
  <2>2. GoesOn(c, made, r) /\ UNCHANGED apiNow
    BY <1>3 DEF TryNextRoute
  <2> HIDE DEF made, r
  <2> QED BY <2>1, <2>2, GoingOn
<1>4. ASSUME NEW c \in ApiCallers,
             \/ AnswerDown(c) \/ AskAgain(c) \/ AnswerRefused(c) \/ Interrupted(c)
             \/ \E n \in 0..AllEvidence : AnswerServed(c, n)
      PROVE  WindowsKept
  BY <1>4 DEF AnswerDown, AskAgain, AnswerRefused, Interrupted, AnswerServed, WindowsKept
<1>5. CASE ApiRestart
  BY <1>5 DEF ApiRestart, WindowsCleared
<1>6. CASE Tick
  BY <1>6 DEF Tick, ClockMoves
<1> QED
  BY <1>1, <1>2, <1>3, <1>4, <1>5, <1>6 DEF ApiNext

-------------------------------------------------------------------------------
\* A window's entries are in the order of time, and none that counts has been dropped.
StampsAreOrdered ==
    \A w \in Windows : \A i, j \in DOMAIN stamps[w] : i <= j => stamps[w][i] <= stamps[w][j]
StampsArePast == \A w \in Windows : \A i \in DOMAIN stamps[w] : stamps[w][i] <= apiNow
RecentAreKept ==
    \A w \in Windows : \A i \in DOMAIN stamps[w] :
        apiNow - stamps[w][i] < CallWindow => i \in hits[w]
WindowTypeOK ==
    /\ hits \in [Windows -> SUBSET Nat] /\ stamps \in [Windows -> Seq(Nat)]
    /\ \A w \in Windows : hits[w] \subseteq DOMAIN stamps[w]
    /\ apiNow \in Nat
RateInv ==
    WindowTypeOK /\ StampsAreOrdered /\ StampsArePast /\ RecentAreKept /\ RateIsKept

\* Whatever a step does to the windows, they stay ordered and complete and the rate is kept.
LEMMA RateInvStep ==
    ASSUME RateInv,
           WindowsKept \/ OneDropsOld \/ OneLetsThrough \/ WindowsCleared \/ ClockMoves
    PROVE  RateInv'
<1> USE DEF RateInv
<1>0. CallLimit \in Nat \ {0} /\ CallWindow \in Nat \ {0}
  BY ApiCallsAssumption
<1>1. CASE WindowsKept
  BY <1>1 DEF WindowsKept, WindowTypeOK, StampsAreOrdered, StampsArePast, RecentAreKept, RateIsKept
<1>2. CASE ClockMoves
  <2>1. WindowTypeOK' /\ StampsAreOrdered' /\ RateIsKept'
    BY <1>2 DEF ClockMoves, WindowTypeOK, StampsAreOrdered, RateIsKept
  <2>2. ASSUME NEW w \in Windows, NEW i \in DOMAIN stamps[w]
        PROVE  /\ stamps[w][i] \in Nat /\ stamps[w][i] <= apiNow + 1
               /\ apiNow + 1 - stamps[w][i] < CallWindow => i \in hits[w]
    <3>1. stamps[w][i] \in Nat
      BY DEF WindowTypeOK
    <3>2. stamps[w][i] <= apiNow /\ (apiNow - stamps[w][i] < CallWindow => i \in hits[w])
      BY DEF StampsArePast, RecentAreKept
    <3> QED BY <1>0, <3>1, <3>2 DEF WindowTypeOK
  <2>3. StampsArePast'
    BY <1>2, <2>2 DEF ClockMoves, StampsArePast
  <2>4. RecentAreKept'
    <3>1. hits' = hits /\ stamps' = stamps /\ apiNow' = apiNow + 1
      BY <1>2 DEF ClockMoves
    <3>2. \A w \in Windows : \A i \in DOMAIN stamps[w] :
             apiNow + 1 - stamps[w][i] < CallWindow => i \in hits[w]
      BY <2>2
    <3> SUFFICES ASSUME NEW w \in Windows, NEW i \in DOMAIN stamps'[w],
                        apiNow' - stamps'[w][i] < CallWindow
                 PROVE  i \in hits'[w]
      BY DEF RecentAreKept
    <3>3. i \in DOMAIN stamps[w] /\ stamps'[w][i] = stamps[w][i]
      BY <3>1
    <3>4. stamps[w][i] \in Nat /\ apiNow \in Nat
      BY <3>3 DEF WindowTypeOK
    <3>5. apiNow + 1 - stamps[w][i] < CallWindow
      BY <1>0, <3>1, <3>3, <3>4
    <3> QED BY <3>1, <3>2, <3>3, <3>5
  <2> QED
    BY <2>1, <2>3, <2>4
<1>3. CASE WindowsCleared
  BY <1>3 DEF WindowsCleared, WindowTypeOK, StampsAreOrdered, StampsArePast, RecentAreKept,
              RateIsKept
<1>4. CASE OneDropsOld
  <2>1. PICK w \in Windows : DropOld(w) /\ apiNow' = apiNow
    BY <1>4 DEF OneDropsOld
  <2>2. /\ stamps' = stamps /\ hits' \in [Windows -> SUBSET Nat]
        /\ hits'[w] = RecentHits(w)
        /\ \A v \in Windows : v # w => hits'[v] = hits[v]
    BY <2>1 DEF DropOld, RecentHits, WindowTypeOK
  <2>3. WindowTypeOK'
    BY <2>1, <2>2 DEF WindowTypeOK, RecentHits
  <2>4. RecentAreKept'
    BY <2>1, <2>2 DEF RecentAreKept, RecentHits
  <2> QED
    BY <2>1, <2>2, <2>3, <2>4 DEF StampsAreOrdered, StampsArePast, RateIsKept
<1>5. CASE OneLetsThrough
  <2>1. PICK w \in Windows : HasRoom(w) /\ LetThrough(w) /\ apiNow' = apiNow
    BY <1>5 DEF OneLetsThrough
  <2> DEFINE n == Len(stamps[w])
  <2>2. /\ n = Len(stamps[w]) /\ n \in Nat /\ DOMAIN stamps[w] = 1..n
        /\ apiNow \in Nat /\ stamps[w] \in Seq(Nat)
    BY DEF WindowTypeOK
  <2> HIDE DEF n
  <2>3. /\ stamps'[w] = Append(stamps[w], apiNow)
        /\ \A v \in Windows : v # w => stamps'[v] = stamps[v]
        /\ stamps' \in [Windows -> Seq(Nat)]
    BY <2>1, <2>2 DEF LetThrough, WindowTypeOK
  <2>4. /\ DOMAIN stamps'[w] = 1..n + 1
        /\ \A i \in 1..n : stamps'[w][i] = stamps[w][i]
        /\ stamps'[w][n + 1] = apiNow
    BY <2>2, <2>3
  <2>5. /\ hits' \in [Windows -> SUBSET Nat]
        /\ hits'[w] = RecentHits(w) \cup {n + 1}
        /\ \A v \in Windows : v # w => hits'[v] = hits[v]
    BY <2>1, <2>2 DEF LetThrough, RecentHits, WindowTypeOK
  <2>6. RecentHits(w) \subseteq 1..n
    BY <2>2 DEF RecentHits, WindowTypeOK
  <2>7. \A i \in 1..n : stamps[w][i] \in Nat /\ stamps[w][i] <= apiNow
    BY <2>2 DEF StampsArePast
  <2>8. WindowTypeOK'
    <3>1. \A v \in Windows : hits'[v] \subseteq DOMAIN stamps'[v]
      <4>1. hits'[w] \subseteq DOMAIN stamps'[w]
        BY <2>2, <2>4, <2>5, <2>6
      <4> QED BY <2>3, <2>5, <4>1 DEF WindowTypeOK
    <3> QED BY <2>1, <2>3, <2>5, <3>1 DEF WindowTypeOK
  <2>9. StampsAreOrdered'
    <3>1. ASSUME NEW i \in 1..n + 1, NEW j \in 1..n + 1, i <= j
          PROVE  stamps'[w][i] <= stamps'[w][j]
      <4>1. CASE j = n + 1
        <5>1. i \in 1..n \/ i = n + 1
          BY <2>2
        <5> QED BY <2>2, <2>4, <2>7, <4>1, <5>1
      <4>2. CASE j # n + 1
        <5>1. i \in 1..n /\ j \in 1..n
          BY <2>2, <3>1, <4>2
        <5> QED BY <2>2, <2>4, <3>1, <5>1 DEF StampsAreOrdered
      <4> QED BY <4>1, <4>2
    <3> QED BY <2>3, <2>4, <3>1 DEF StampsAreOrdered
  <2>10. StampsArePast'
    <3>1. \A i \in 1..n + 1 : stamps'[w][i] <= apiNow
      BY <2>2, <2>4, <2>7
    <3> QED BY <2>1, <2>3, <2>4, <3>1 DEF StampsArePast
  <2>11. RecentAreKept'
    <3>1. ASSUME NEW i \in 1..n + 1, apiNow - stamps'[w][i] < CallWindow
          PROVE  i \in hits'[w]
      <4>1. CASE i = n + 1
        BY <2>5, <4>1
      <4>2. CASE i # n + 1
        <5>1. i \in 1..n /\ stamps'[w][i] = stamps[w][i]
          BY <2>2, <2>4, <4>2
        <5>2. i \in hits[w]
          BY <2>2, <3>1, <5>1 DEF RecentAreKept
        <5> QED BY <2>5, <3>1, <5>1, <5>2 DEF RecentHits
      <4> QED BY <4>1, <4>2
    <3> QED BY <2>1, <2>3, <2>4, <2>5, <3>1 DEF RecentAreKept
  <2>12. ASSUME NEW i \in 1..n, i + CallLimit = n + 1
         PROVE  apiNow - stamps[w][i] >= CallWindow
    <3>1. SUFFICES ASSUME apiNow - stamps[w][i] < CallWindow PROVE FALSE
      BY <1>0, <2>2, <2>7
    <3>2. i..n \subseteq RecentHits(w)
      <4>1. ASSUME NEW j \in i..n PROVE j \in RecentHits(w)
        <5>1. j \in 1..n /\ i <= j
          BY <2>2
        <5>2. stamps[w][i] <= stamps[w][j]
          BY <2>2, <5>1 DEF StampsAreOrdered
        <5>3. apiNow - stamps[w][j] < CallWindow
          BY <1>0, <2>2, <2>7, <3>1, <5>1, <5>2
        <5> QED BY <2>2, <5>1, <5>3 DEF RecentAreKept, RecentHits
      <4> QED BY <4>1
    <3>3. IsFiniteSet(1..n)
      <4>1. 1 \in Int /\ n \in Int
        BY <2>2
      <4> QED BY <4>1, FS_Interval
    <3>4. IsFiniteSet(RecentHits(w))
      BY <2>6, <3>3, FS_Subset
    <3>5. Cardinality(i..n) = n - i + 1
      BY <2>2, FS_Interval
    <3>6. Cardinality(i..n) <= Cardinality(RecentHits(w))
      BY <3>2, <3>4, FS_Subset
    <3>7. Cardinality(RecentHits(w)) \in Nat
      BY <3>4, FS_CardinalityType
    <3> QED
      BY <1>0, <2>1, <2>2, <2>12, <3>5, <3>6, <3>7 DEF HasRoom
  <2>13. RateIsKept'
    <3>1. ASSUME NEW i \in 1..n + 1, i + CallLimit \in 1..n + 1
          PROVE  stamps'[w][i + CallLimit] - stamps'[w][i] >= CallWindow
      <4>1. i \in 1..n
        BY <1>0, <2>2, <3>1
      <4>2. CASE i + CallLimit = n + 1
        BY <2>4, <2>12, <4>1, <4>2
      <4>3. CASE i + CallLimit # n + 1
        <5>1. i + CallLimit \in 1..n
          BY <1>0, <2>2, <3>1, <4>1, <4>3
        <5> QED BY <2>2, <2>4, <4>1, <5>1 DEF RateIsKept
      <4> QED BY <4>2, <4>3
    <3> QED BY <2>3, <2>4, <3>1 DEF RateIsKept
  <2> QED
    BY <2>8, <2>9, <2>10, <2>11, <2>13
<1> QED
  BY <1>1, <1>2, <1>3, <1>4, <1>5

-------------------------------------------------------------------------------
\* Until a call is over none of its operations was answered or cut off.
CallsAreClean ==
    \A c \in ApiCallers : apiCall[c].at # "over" =>
        \A p \in ProviderIndex :
            <<c, p>> \notin served /\ <<c, p>> \notin dropped /\ evidence[<<c, p>>] = 0
\* A call in flight is at a route, and its job is shown as running.
CallsAreAtRoutes ==
    \A c \in ApiCallers :
        /\ Underway(c) => apiCall[c].route # 0 /\ apiRow[Operation(c)] = "running"
        /\ apiCall[c].at = "asking" => apiCall[c].attempt >= 1
        /\ apiCall[c].at = "pausing" => apiCall[c].attempt \in 1..CallRetries
CallsInv == ApiTypeOK /\ CallsAreClean /\ CallsAreAtRoutes /\ ApiCallsAreHonest

\* There is a first provider.
LEMMA FirstProvider == 1 \in ProviderIndex
<1>1. Len(ApiProviders) \in Nat \ {0}
  BY ApiCallsAssumption
<1> QED
  BY <1>1 DEF ProviderIndex

\* The job a call is at is one of its operations.
LEMMA OperationIsOwn ==
    ASSUME ApiTypeOK, NEW c \in ApiCallers
    PROVE  Operation(c) \in ApiOperations /\ Operation(c)[1] = c
BY FirstProvider DEF Operation, JobOf, ApiOperations, ApiTypeOK, CallRecords

\* What a filing leaves of the rows
LEMMA FilingRows ==
    ASSUME ApiTypeOK, NEW c \in ApiCallers, NEW made \in CallRecords,
           NEW p \in ProviderIndex, NEW q \in ProviderIndex,
           NEW filed \in {"running", "blocked"}, FileRows(c, made, p, q, filed)
    PROVE  /\ apiRow' \in [ApiOperations -> {"none", "running", "completed", "failed", "blocked"}]
           /\ JobOf(c, made, q) \in ApiOperations /\ JobOf(c, made, q)[1] = c
           /\ apiRow'[JobOf(c, made, q)] = filed
           /\ \A o \in ApiOperations :
                 \/ apiRow'[o] = apiRow[o]
                 \/ o[1] = c /\ apiRow'[o] = "blocked"
                 \/ o = JobOf(c, made, q) /\ apiRow'[o] = filed
<1>1. \A o \in ApiOperations :
         apiRow'[o] = IF o = JobOf(c, made, q) THEN filed
                      ELSE IF \E k \in p..q - 1 : o = JobOf(c, made, k) THEN "blocked"
                      ELSE apiRow[o]
  BY DEF FileRows
<1>2. JobOf(c, made, q) \in ApiOperations /\ \A k : JobOf(c, made, k)[1] = c
  BY FirstProvider DEF ApiOperations, JobOf
<1>3. \A o \in ApiOperations :
         apiRow[o] \in {"none", "running", "completed", "failed", "blocked"}
  BY DEF ApiTypeOK
<1>4. \A o \in ApiOperations :
         apiRow'[o] \in {"none", "running", "completed", "failed", "blocked"}
  BY <1>1, <1>3
<1>5. apiRow' \in [ApiOperations -> {"none", "running", "completed", "failed", "blocked"}]
  BY <1>4 DEF FileRows
<1> QED
  BY <1>1, <1>2, <1>5

\* A call that goes on, for the first time or to another route, keeps all of this.
LEMMA GoneOnKeeps ==
    ASSUME CallsInv, NEW c \in ApiCallers, NEW made \in CallRecords, GoneOn(c, made),
           \/ apiCall[c].at = "new"
           \/ Underway(c) /\ made = apiCall[c],
           WindowTypeOK', UNCHANGED <<evidence, served, dropped>>
    PROVE  CallsInv'
<1> USE DEF CallsInv
<1>1. PICK q \in ProviderIndex :
         /\ made.provider <= q /\ (made.route # 0 => q = made.provider)
         /\ \/ /\ FileRows(c, made, made.provider, q, "running")
               /\ \E k \in 1..Len(ApiRoutes) :
                     apiCall' = [apiCall EXCEPT ![c] =
                        [made EXCEPT !.at = "asking", !.provider = q, !.route = k, !.attempt = 1]]
            \/ FileRows(c, made, made.provider, q, "blocked") /\ ApiEnds(c, q)
  BY DEF GoneOn
<1> DEFINE job == JobOf(c, made, q)
<1>2. made.provider \in ProviderIndex
  BY DEF CallRecords
<1>3. apiCall[c].at # "over" /\ apiCall[c] \in CallRecords
  BY DEF Underway, ApiTypeOK
<1>4. \A p \in ProviderIndex :
         <<c, p>> \notin served /\ <<c, p>> \notin dropped /\ evidence[<<c, p>>] = 0
  BY <1>3 DEF CallsAreClean
<1>6. /\ Len(ApiRoutes) \in Nat /\ CallRetries \in Nat
      /\ 1 \in 0..CallRetries + 1 /\ 0 \in 0..CallRetries + 1 /\ 0 \in 0..Len(ApiRoutes)
  BY ApiCallsAssumption
<1>7. \A o \in ApiOperations : o[1] = c => o = <<c, o[2]>> /\ o[2] \in ProviderIndex
  BY DEF ApiOperations
<1>8. \A o \in ApiOperations : o[1] = c => o \notin served /\ o \notin dropped /\ evidence[o] = 0
  BY <1>4, <1>7
<1>12. \A o \in ApiOperations : o[1] = c =>
          apiRow[o] # "completed" /\ (apiRow[o] = "running" => o = job)
  <2> SUFFICES ASSUME NEW o \in ApiOperations, o[1] = c
               PROVE  apiRow[o] # "completed" /\ (apiRow[o] = "running" => o = job)
    OBVIOUS
  <2>1. /\ apiRow[o] = "running" => o \in dropped \/ (Underway(o[1]) /\ Operation(o[1]) = o)
        /\ apiRow[o] = "completed" => o \in served
    BY DEF ApiCallsAreHonest
  <2>2. apiRow[o] # "completed" /\ (apiRow[o] = "running" => Underway(c) /\ Operation(c) = o)
    BY <1>8, <2>1
  <2>3. Underway(c) => Operation(c) = job
    BY <1>1 DEF CallsAreAtRoutes, Underway, Operation
  <2> QED
    BY <2>2, <2>3
<1>9. ASSUME NEW d \in ApiCallers, d # c, apiCall' = [apiCall EXCEPT ![c] = apiCall'[c]]
      PROVE  /\ apiCall'[d] = apiCall[d] /\ Underway(d)' = Underway(d)
             /\ Operation(d)' = Operation(d)
  BY <1>9 DEF Underway, Operation, JobOf, ApiTypeOK
<1>10. CASE /\ FileRows(c, made, made.provider, q, "running")
            /\ \E k \in 1..Len(ApiRoutes) :
                  apiCall' = [apiCall EXCEPT ![c] =
                     [made EXCEPT !.at = "asking", !.provider = q, !.route = k, !.attempt = 1]]
  <2>1. PICK k \in 1..Len(ApiRoutes) :
           apiCall' = [apiCall EXCEPT ![c] =
              [made EXCEPT !.at = "asking", !.provider = q, !.route = k, !.attempt = 1]]
    BY <1>10
  <2> DEFINE now == [made EXCEPT !.at = "asking", !.provider = q, !.route = k, !.attempt = 1]
  <2>2. now \in CallRecords
    <3>1. k \in 0..Len(ApiRoutes)
      BY <1>6
    <3> QED BY <1>6, <3>1 DEF CallRecords
  <2>3. /\ now.at = "asking" /\ now.provider = q /\ now.route = k /\ now.attempt = 1
        /\ k # 0 /\ now.named = made.named
    BY <1>6 DEF CallRecords
  <2>4. apiCall' = [apiCall EXCEPT ![c] = now]
    BY <2>1
  <2> HIDE DEF now
  <2>5. apiCall'[c] = now /\ apiCall' \in [ApiCallers -> CallRecords]
    BY <2>2, <2>4 DEF ApiTypeOK
  <2>6. Underway(c)' /\ Operation(c)' = job
    BY <2>3, <2>5 DEF Underway, Operation, JobOf
  <2>7. \A d \in ApiCallers : d # c => /\ apiCall'[d] = apiCall[d] /\ Underway(d)' = Underway(d)
           /\ Operation(d)' = Operation(d)
    BY <1>9, <1>10, <2>4, <2>5
  <2>8. ApiTypeOK'
    BY <1>2, <1>10, <2>5, FilingRows DEF ApiTypeOK, WindowTypeOK
  <2>9. CallsAreClean'
    BY <1>4, <2>7 DEF CallsAreClean
  <2>10. CallsAreAtRoutes'
    <3>1. /\ apiRow'[job] = "running"
          /\ \A o \in ApiOperations : o[1] # c => apiRow'[o] = apiRow[o]
      BY <1>2, <1>10, FilingRows
    <3>2. ASSUME NEW d \in ApiCallers, d # c
          PROVE  apiRow'[Operation(d)] = apiRow[Operation(d)]
      <4>1. Operation(d) \in ApiOperations /\ Operation(d)[1] = d
        BY OperationIsOwn
      <4> QED BY <3>1, <3>2, <4>1
    <3> QED BY <2>3, <2>5, <2>6, <2>7, <3>1, <3>2 DEF CallsAreAtRoutes
  <2>11. ApiCallsAreHonest'
    <3>1. \A o \in ApiOperations :
             \/ apiRow'[o] = apiRow[o]
             \/ o[1] = c /\ apiRow'[o] = "blocked"
             \/ o = job /\ apiRow'[o] = "running"
      BY <1>2, <1>10, FilingRows
    <3>4. job[1] = c
      BY DEF JobOf
    <3> SUFFICES ASSUME NEW o \in ApiOperations
                 PROVE  /\ apiRow'[o] = "running" =>
                              o \in dropped \/ (Underway(o[1])' /\ Operation(o[1])' = o)
                        /\ apiRow'[o] = "completed" => o \in served /\ evidence[o] = AllEvidence
                        /\ apiRow'[o] \in {"blocked", "failed"} => o \notin served /\ evidence[o] = 0
      BY DEF ApiCallsAreHonest
    <3>2. CASE o[1] = c
      BY <1>8, <1>12, <2>6, <3>1, <3>2
    <3>3. CASE o[1] # c
      <4>1. o[1] \in ApiCallers /\ apiRow'[o] = apiRow[o]
        BY <3>1, <3>3, <3>4 DEF ApiOperations
      <4>2. Underway(o[1])' = Underway(o[1]) /\ Operation(o[1])' = Operation(o[1])
        BY <2>7, <3>3, <4>1
      <4> QED BY <4>1, <4>2 DEF ApiCallsAreHonest
    <3> QED BY <3>2, <3>3
  <2> QED
    BY <2>8, <2>9, <2>10, <2>11
<1>11. CASE FileRows(c, made, made.provider, q, "blocked") /\ ApiEnds(c, q)
  <2> DEFINE now == [NotMade EXCEPT !.at = "over", !.provider = q]
  <2>1. apiCall' = [apiCall EXCEPT ![c] = now] /\ now.at = "over"
    BY <1>11 DEF ApiEnds, NotMade
  <2>2. now \in CallRecords
    BY EndedIsRecord
  <2> HIDE DEF now
  <2>3. apiCall'[c] = now /\ apiCall' \in [ApiCallers -> CallRecords] /\ ~Underway(c)'
    BY <2>1, <2>2 DEF ApiTypeOK, Underway
  <2>4. \A d \in ApiCallers : d # c => /\ apiCall'[d] = apiCall[d] /\ Underway(d)' = Underway(d)
           /\ Operation(d)' = Operation(d)
    BY <1>9, <1>11, <2>1, <2>3
  <2>5. ApiTypeOK'
    BY <1>2, <1>11, <2>3, FilingRows DEF ApiTypeOK, WindowTypeOK
  <2>6. CallsAreClean'
    BY <1>11, <2>1, <2>3, <2>4 DEF CallsAreClean
  <2>7. CallsAreAtRoutes'
    <3>1. \A o \in ApiOperations : o[1] # c => apiRow'[o] = apiRow[o]
      BY <1>2, <1>11, FilingRows
    <3>2. ASSUME NEW d \in ApiCallers, d # c
          PROVE  apiRow'[Operation(d)] = apiRow[Operation(d)]
      <4>1. Operation(d) \in ApiOperations /\ Operation(d)[1] = d
        BY OperationIsOwn
      <4> QED BY <3>1, <3>2, <4>1
    <3> QED BY <2>1, <2>3, <2>4, <3>2 DEF CallsAreAtRoutes
  <2>8. ApiCallsAreHonest'
    <3>1. /\ apiRow'[job] = "blocked"
          /\ \A o \in ApiOperations :
                apiRow'[o] = apiRow[o] \/ (o[1] = c /\ apiRow'[o] = "blocked")
      BY <1>2, <1>11, FilingRows
    <3> SUFFICES ASSUME NEW o \in ApiOperations
                 PROVE  /\ apiRow'[o] = "running" =>
                              o \in dropped \/ (Underway(o[1])' /\ Operation(o[1])' = o)
                        /\ apiRow'[o] = "completed" => o \in served /\ evidence[o] = AllEvidence
                        /\ apiRow'[o] \in {"blocked", "failed"} => o \notin served /\ evidence[o] = 0
      BY DEF ApiCallsAreHonest
    <3>2. CASE o[1] = c
      BY <1>8, <1>12, <3>1, <3>2
    <3>3. CASE o[1] # c
      <4>1. o[1] \in ApiCallers /\ apiRow'[o] = apiRow[o]
        BY <3>1, <3>3 DEF ApiOperations
      <4>2. Underway(o[1])' = Underway(o[1]) /\ Operation(o[1])' = Operation(o[1])
        BY <2>4, <3>3, <4>1
      <4> QED BY <4>1, <4>2 DEF ApiCallsAreHonest
    <3> QED BY <3>2, <3>3
  <2> QED
    BY <2>5, <2>6, <2>7, <2>8
<1> QED
  BY <1>1, <1>10, <1>11

\* A call that ends where it is: its row is left as it is, or becomes `filed'.
LEMMA EndingKeeps ==
    ASSUME CallsInv, NEW c \in ApiCallers, Underway(c), ApiEnds(c, apiCall[c].provider),
           NEW filed \in {"running", "failed", "completed"}, NEW n \in 0..AllEvidence,
           apiRow' = [apiRow EXCEPT ![Operation(c)] = filed],
           evidence' = [evidence EXCEPT ![Operation(c)] = n],
           \/ filed = "running" /\ Operation(c) \in dropped' /\ served \subseteq served'
           \/ filed = "failed" /\ UNCHANGED served /\ n = 0
           \/ filed = "completed" /\ served' = served \cup {Operation(c)} /\ n = AllEvidence,
           served' \in {served, served \cup {Operation(c)}},
           dropped' \in {dropped, dropped \cup {Operation(c)}},
           WindowTypeOK'
    PROVE  CallsInv'
<1> USE DEF CallsInv
<1> DEFINE now == [NotMade EXCEPT !.at = "over", !.provider = apiCall[c].provider]
<1>1. /\ apiCall[c].provider \in ProviderIndex /\ Operation(c) \in ApiOperations
      /\ Operation(c)[1] = c
  BY OperationIsOwn DEF ApiTypeOK, CallRecords
<1>2. now \in CallRecords /\ now.at = "over" /\ apiCall' = [apiCall EXCEPT ![c] = now]
  BY <1>1, EndedIsRecord DEF ApiEnds, NotMade
<1> HIDE DEF now
<1>3. apiCall'[c] = now /\ apiCall' \in [ApiCallers -> CallRecords] /\ ~Underway(c)'
  BY <1>2 DEF ApiTypeOK, Underway
<1>4. ASSUME NEW d \in ApiCallers, d # c
      PROVE  /\ apiCall'[d] = apiCall[d] /\ Underway(d)' = Underway(d)
             /\ Operation(d)' = Operation(d)
  BY <1>2, <1>4 DEF Underway, Operation, JobOf, ApiTypeOK
<1>5. ASSUME NEW o \in ApiOperations, o # Operation(c)
      PROVE  /\ apiRow'[o] = apiRow[o] /\ evidence'[o] = evidence[o]
             /\ (o \in served' <=> o \in served) /\ (o \in dropped' <=> o \in dropped)
  BY <1>5 DEF ApiTypeOK
<1>6. apiRow'[Operation(c)] = filed /\ evidence'[Operation(c)] = n
  BY <1>1 DEF ApiTypeOK
<1>7. ApiTypeOK'
  BY <1>1, <1>3 DEF ApiTypeOK, WindowTypeOK
<1>8. CallsAreClean'
  <2> SUFFICES ASSUME NEW d \in ApiCallers, apiCall'[d].at # "over", NEW p \in ProviderIndex
               PROVE  /\ <<d, p>> \notin served' /\ <<d, p>> \notin dropped'
                      /\ evidence'[<<d, p>>] = 0
    BY DEF CallsAreClean
  <2>1. d # c
    BY <1>2, <1>3
  <2>2. <<d, p>> \in ApiOperations /\ <<d, p>> # Operation(c)
    BY <1>1, <2>1 DEF ApiOperations
  <2> QED
    BY <1>4, <1>5, <2>1, <2>2 DEF CallsAreClean
<1>9. CallsAreAtRoutes'
  <2>1. ASSUME NEW d \in ApiCallers, d # c
        PROVE  apiRow'[Operation(d)] = apiRow[Operation(d)]
    <3>1. Operation(d) \in ApiOperations /\ Operation(d) # Operation(c)
      BY <1>1, <2>1, OperationIsOwn
    <3> QED BY <1>5, <3>1
  <2> QED
    BY <1>2, <1>3, <1>4, <2>1 DEF CallsAreAtRoutes
<1>10. ApiCallsAreHonest'
  <2> SUFFICES ASSUME NEW o \in ApiOperations
               PROVE  /\ apiRow'[o] = "running" =>
                            o \in dropped' \/ (Underway(o[1])' /\ Operation(o[1])' = o)
                      /\ apiRow'[o] = "completed" => o \in served' /\ evidence'[o] = AllEvidence
                      /\ apiRow'[o] \in {"blocked", "failed"} => o \notin served' /\ evidence'[o] = 0
    BY DEF ApiCallsAreHonest
  <2>1. CASE o = Operation(c)
    <3>1. Operation(c) \notin served
      BY <1>1, FirstProvider DEF CallsAreClean, Underway, Operation, JobOf
    <3> QED BY <1>6, <2>1, <3>1
  <2>2. CASE o # Operation(c)
    <3>1. /\ apiRow'[o] = apiRow[o] /\ evidence'[o] = evidence[o]
          /\ (o \in served' <=> o \in served) /\ (o \in dropped' <=> o \in dropped)
      BY <1>5, <2>2
    <3>2. /\ apiRow[o] = "running" => o \in dropped \/ (Underway(o[1]) /\ Operation(o[1]) = o)
          /\ apiRow[o] = "completed" => o \in served /\ evidence[o] = AllEvidence
          /\ apiRow[o] \in {"blocked", "failed"} => o \notin served /\ evidence[o] = 0
      BY DEF ApiCallsAreHonest
    <3>3. ASSUME Underway(o[1]), Operation(o[1]) = o
          PROVE  Underway(o[1])' /\ Operation(o[1])' = o
      <4>1. o[1] \in ApiCallers /\ o[1] # c
        BY <2>2, <3>3 DEF ApiOperations
      <4> QED BY <1>4, <3>3, <4>1
    <3> QED BY <3>1, <3>2, <3>3
  <2> QED
    BY <2>1, <2>2
<1> QED
  BY <1>7, <1>8, <1>9, <1>10

\* A call that waits, or asks again, stays where it is.
LEMMA WaitingKeeps ==
    ASSUME CallsInv, NEW c \in ApiCallers, NEW now \in CallRecords, Underway(c),
           apiCall' = [apiCall EXCEPT ![c] = now],
           now.at \in {"asking", "pausing"}, now.provider = apiCall[c].provider,
           now.named = apiCall[c].named, now.route # 0,
           now.at = "asking" => now.attempt >= 1,
           now.at = "pausing" => now.attempt \in 1..CallRetries,
           WindowTypeOK', UNCHANGED <<apiRow, evidence, served, dropped>>
    PROVE  CallsInv'
<1> USE DEF CallsInv
<1>1. apiCall'[c] = now /\ apiCall' \in [ApiCallers -> CallRecords] /\ Underway(c)'
  BY DEF ApiTypeOK, Underway
<1>2. \A d \in ApiCallers : Operation(d)' = Operation(d) /\ Underway(d)' = Underway(d)
  BY <1>1 DEF Operation, JobOf, Underway, ApiTypeOK
<1>3. \A d \in ApiCallers : d # c => apiCall'[d] = apiCall[d]
  BY DEF ApiTypeOK
<1>4. ApiTypeOK'
  BY <1>1 DEF ApiTypeOK, WindowTypeOK
<1>5. CallsAreClean'
  <2> SUFFICES ASSUME NEW d \in ApiCallers, apiCall'[d].at # "over", NEW p \in ProviderIndex
               PROVE  /\ <<d, p>> \notin served /\ <<d, p>> \notin dropped
                      /\ evidence[<<d, p>>] = 0
    BY DEF CallsAreClean
  <2>1. apiCall[d].at # "over" /\ apiCall'[d].provider = apiCall[d].provider
    BY <1>1, <1>3 DEF Underway
  <2> QED
    BY <1>2, <2>1 DEF CallsAreClean
<1>6. CallsAreAtRoutes'
  BY <1>1, <1>2, <1>3 DEF CallsAreAtRoutes
<1>7. ApiCallsAreHonest'
  <2>1. \A o \in ApiOperations : o[1] \in ApiCallers
    BY DEF ApiOperations
  <2> QED
    BY <1>2, <2>1 DEF ApiCallsAreHonest
<1> QED
  BY <1>4, <1>5, <1>6, <1>7

\* A restart cuts off every call that is in flight.
LEMMA RestartKeeps ==
    ASSUME CallsInv, ApiRestart, WindowTypeOK'
    PROVE  CallsInv'
<1> USE DEF CallsInv
<1> DEFINE cut == {Operation(c) : c \in {d \in ApiCallers : Underway(d)}}
<1>1. /\ dropped' = dropped \cup cut
      /\ UNCHANGED <<apiRow, evidence, served>>
  BY DEF ApiRestart
<1>2. \A c \in ApiCallers :
         apiCall'[c] = IF Underway(c)
                       THEN [NotMade EXCEPT !.at = "over", !.provider = apiCall[c].provider]
                       ELSE apiCall[c]
  BY DEF ApiRestart
<1>3. ASSUME NEW c \in ApiCallers
      PROVE  /\ apiCall'[c] \in CallRecords /\ ~Underway(c)'
             /\ Underway(c) => apiCall'[c].at = "over"
             /\ ~Underway(c) => apiCall'[c] = apiCall[c]
  <2>1. apiCall[c] \in CallRecords /\ apiCall[c].provider \in ProviderIndex
    BY DEF ApiTypeOK, CallRecords
  <2>2. [NotMade EXCEPT !.at = "over", !.provider = apiCall[c].provider] \in CallRecords
    BY <2>1, EndedIsRecord
  <2>3. [NotMade EXCEPT !.at = "over", !.provider = apiCall[c].provider].at = "over"
    BY DEF NotMade
  <2> QED
    BY <1>2, <2>1, <2>2, <2>3 DEF Underway
<1>4. ASSUME NEW o \in cut PROVE o \in ApiOperations /\ Underway(o[1])
  BY OperationIsOwn
<1>5. ASSUME NEW o \in ApiOperations, Underway(o[1]), Operation(o[1]) = o PROVE o \in cut
  BY <1>5 DEF ApiOperations
<1> HIDE DEF cut
<1>6. ApiTypeOK'
  <2>1. apiCall' \in [ApiCallers -> CallRecords]
    BY <1>3 DEF ApiRestart
  <2> QED
    BY <1>1, <1>4, <2>1 DEF ApiTypeOK, WindowTypeOK
<1>7. CallsAreClean'
  <2> SUFFICES ASSUME NEW c \in ApiCallers, apiCall'[c].at # "over", NEW p \in ProviderIndex
               PROVE  /\ <<c, p>> \notin served /\ <<c, p>> \notin dropped'
                      /\ evidence[<<c, p>>] = 0
    BY <1>1 DEF CallsAreClean
  <2>1. ~Underway(c) /\ apiCall'[c] = apiCall[c]
    BY <1>3
  <2>2. <<c, p>> \notin cut
    BY <1>4, <2>1
  <2> QED
    BY <1>1, <2>1, <2>2 DEF CallsAreClean
<1>8. CallsAreAtRoutes'
  BY <1>3 DEF CallsAreAtRoutes, Underway
<1>9. ApiCallsAreHonest'
  BY <1>1, <1>5 DEF ApiCallsAreHonest
<1> QED
  BY <1>6, <1>7, <1>8, <1>9

\* Before any call is made there is nothing to be wrong about.
LEMMA CallsInvInit == ApiInit => CallsInv /\ RateInv
<1> SUFFICES ASSUME ApiInit PROVE CallsInv /\ RateInv
  OBVIOUS
<1> USE DEF ApiInit
<1>1. WindowTypeOK
  BY DEF WindowTypeOK
<1>2. StampsAreOrdered /\ StampsArePast /\ RecentAreKept /\ RateIsKept
  BY DEF StampsAreOrdered, StampsArePast, RecentAreKept, RateIsKept
<1>3. NotMade \in CallRecords
  <2>1. /\ 0 \in 0..Len(ApiRoutes) /\ 0 \in 0..CallRetries + 1 /\ 1 \in ProviderIndex
    <3>1. Len(ApiRoutes) \in Nat /\ CallRetries \in Nat /\ Len(ApiProviders) \in Nat \ {0}
      BY ApiCallsAssumption
    <3> QED BY <3>1 DEF ProviderIndex
  <2> QED
    BY <2>1 DEF NotMade, CallRecords
<1>4. ApiTypeOK
  <2>1. 0 \in 0..AllEvidence
    BY DEF AllEvidence
  <2> QED
    BY <1>1, <1>3, <2>1 DEF ApiTypeOK, WindowTypeOK
<1>5. \A c \in ApiCallers : apiCall[c].at = "new" /\ ~Underway(c)
  BY DEF Underway, NotMade
<1>6. CallsAreClean /\ CallsAreAtRoutes
  BY <1>5 DEF CallsAreClean, CallsAreAtRoutes, ApiOperations
<1>7. ApiCallsAreHonest
  BY DEF ApiCallsAreHonest
<1> QED
  BY <1>1, <1>2, <1>4, <1>6, <1>7 DEF CallsInv, RateInv

\* Each step of a call keeps what is true of it and of its rows.
LEMMA CallsInvStep ==
    ASSUME CallsInv, WindowTypeOK', [ApiNext]_apiVars
    PROVE  CallsInv'
<1>0. ApiTypeOK
  BY DEF CallsInv
<1>1. CASE UNCHANGED apiVars
  <2>1. \A c \in ApiCallers : Underway(c)' = Underway(c) /\ Operation(c)' = Operation(c)
    BY <1>1 DEF apiVars, Underway, Operation, JobOf
  <2>2. \A o \in ApiOperations : o[1] \in ApiCallers
    BY DEF ApiOperations
  <2> QED
    BY <1>1, <2>1, <2>2 DEF apiVars, CallsInv, ApiTypeOK, CallsAreClean, CallsAreAtRoutes,
       ApiCallsAreHonest
<1>2. ASSUME NEW c \in ApiCallers, NEW capability \in ApiCapabilities, NEW resource \in BOOLEAN,
             NEW across \in BOOLEAN, NEW named \in BOOLEAN, NEW p \in ProviderIndex,
             MakeCall(c, capability, resource, across, named, p)
      PROVE  CallsInv'
  <2> DEFINE made == [NotMade EXCEPT !.capability = capability, !.resource = resource,
                          !.across = across, !.named = named, !.provider = p]
  <2>1. made \in CallRecords
    BY MadeIsRecord
  <2>2. /\ GoesOn(c, made, 1) /\ apiCall[c].at = "new"
        /\ UNCHANGED <<apiNow, evidence, served, dropped>>
    BY <1>2 DEF MakeCall
  <2> HIDE DEF made
  <2>3. GoneOn(c, made)
    BY <1>0, <2>1, <2>2, GoingOn
  <2> QED
    BY <2>1, <2>2, <2>3, GoneOnKeeps
<1>3. ASSUME NEW c \in ApiCallers, TryNextRoute(c)
      PROVE  CallsInv'
  <2> DEFINE made == apiCall[c]
             r == apiCall[c].route + 1
  <2>1. made \in CallRecords /\ r \in Nat /\ r >= 1 /\ Underway(c)
    BY <1>0, <1>3, ApiCallsAssumption DEF ApiTypeOK, CallRecords, TryNextRoute, Underway
  <2>2. GoesOn(c, made, r) /\ UNCHANGED <<apiNow, evidence, served, dropped>>
    BY <1>3 DEF TryNextRoute
  <2>3. made = apiCall[c]
    OBVIOUS
  <2> HIDE DEF made, r
  <2>4. GoneOn(c, made)
    BY <1>0, <2>1, <2>2, GoingOn
  <2> QED
    BY <2>1, <2>2, <2>3, <2>4, GoneOnKeeps
<1>4. ASSUME NEW c \in ApiCallers, AnswerDown(c)
      PROVE  CallsInv'
  <2> DEFINE now == [apiCall[c] EXCEPT !.at = "pausing"]
  <2>1. apiCall[c] \in CallRecords /\ apiCall[c].at = "asking" /\ Underway(c)
    BY <1>0, <1>4 DEF ApiTypeOK, AnswerDown, Underway
  <2>2. apiCall[c].route # 0 /\ apiCall[c].attempt \in 1..CallRetries
    <3>1. apiCall[c].attempt \in Nat /\ CallRetries \in Nat
      BY <2>1, ApiCallsAssumption DEF CallRecords
    <3> QED BY <1>4, <2>1, <3>1 DEF CallsInv, CallsAreAtRoutes, AnswerDown
  <2>3. /\ now \in CallRecords /\ now.at = "pausing" /\ now.provider = apiCall[c].provider
        /\ now.named = apiCall[c].named /\ now.route # 0 /\ now.attempt \in 1..CallRetries
    BY <2>1, <2>2 DEF CallRecords
  <2>4. /\ apiCall' = [apiCall EXCEPT ![c] = now]
        /\ UNCHANGED <<apiRow, evidence, served, dropped>>
    BY <1>4 DEF AnswerDown
  <2> HIDE DEF now
  <2> QED BY <2>1, <2>3, <2>4, WaitingKeeps
<1>5. ASSUME NEW c \in ApiCallers, AskAgain(c)
      PROVE  CallsInv'
  <2> DEFINE now == [apiCall[c] EXCEPT !.at = "asking", !.attempt = @ + 1]
  <2>1. apiCall[c] \in CallRecords /\ apiCall[c].at = "pausing" /\ Underway(c)
    BY <1>0, <1>5 DEF ApiTypeOK, AskAgain, Underway
  <2>2. apiCall[c].route # 0 /\ apiCall[c].attempt \in 1..CallRetries
    BY <2>1 DEF CallsInv, CallsAreAtRoutes
  <2>3. /\ now \in CallRecords /\ now.at = "asking" /\ now.provider = apiCall[c].provider
        /\ now.named = apiCall[c].named /\ now.route # 0 /\ now.attempt >= 1
    <3>1. apiCall[c].attempt + 1 \in 0..CallRetries + 1 /\ apiCall[c].attempt + 1 >= 1
      BY <2>2, ApiCallsAssumption
    <3> QED BY <2>1, <2>2, <3>1 DEF CallRecords
  <2>4. /\ apiCall' = [apiCall EXCEPT ![c] = now]
        /\ UNCHANGED <<apiRow, evidence, served, dropped>>
    BY <1>0, <1>5 DEF AskAgain, ApiTypeOK
  <2> HIDE DEF now
  <2> QED BY <2>1, <2>3, <2>4, WaitingKeeps
<1>6. ASSUME NEW c \in ApiCallers, Underway(c)
      PROVE  /\ apiRow = [apiRow EXCEPT ![Operation(c)] = "running"]
             /\ evidence = [evidence EXCEPT ![Operation(c)] = 0]
  <2>1. Operation(c) \in ApiOperations /\ apiCall[c].provider \in ProviderIndex
    BY <1>0, OperationIsOwn DEF ApiTypeOK, CallRecords
  <2>2. apiRow[Operation(c)] = "running" /\ evidence[Operation(c)] = 0
    BY <1>6, <2>1, FirstProvider
    DEF CallsInv, CallsAreClean, CallsAreAtRoutes, Underway, Operation, JobOf
  <2> QED
    BY <1>0, <2>1, <2>2 DEF ApiTypeOK
<1>7. ASSUME NEW c \in ApiCallers, AnswerRefused(c)
      PROVE  CallsInv'
  <2>1. Underway(c)
    BY <1>7 DEF AnswerRefused, Underway
  <2>2. /\ apiRow' = [apiRow EXCEPT ![Operation(c)] = "failed"]
        /\ evidence' = [evidence EXCEPT ![Operation(c)] = 0]
    BY <1>6, <1>7, <2>1 DEF AnswerRefused
  <2>3. ApiEnds(c, apiCall[c].provider) /\ served' = served /\ dropped' = dropped
    BY <1>7 DEF AnswerRefused
  <2> QED
    <3>1. 0 \in 0..AllEvidence
      BY DEF AllEvidence
    <3> QED BY <2>1, <2>2, <2>3, <3>1, EndingKeeps
<1>8. ASSUME NEW c \in ApiCallers, NEW n \in 0..AllEvidence, AnswerServed(c, n)
      PROVE  CallsInv'
  <2>1. Underway(c)
    BY <1>8 DEF AnswerServed, Underway
  <2>2. /\ served' = served \cup {Operation(c)}
        /\ evidence' = [evidence EXCEPT ![Operation(c)] = n]
        /\ ApiEnds(c, apiCall[c].provider)
    BY <1>8 DEF AnswerServed, Keeps
  <2>3. CASE /\ n = AllEvidence /\ apiRow' = [apiRow EXCEPT ![Operation(c)] = "completed"]
             /\ UNCHANGED dropped
    BY <2>1, <2>2, <2>3, EndingKeeps
  <2>4. CASE dropped' = dropped \cup {Operation(c)} /\ UNCHANGED apiRow
    <3>1. apiRow' = [apiRow EXCEPT ![Operation(c)] = "running"]
      BY <1>6, <2>1, <2>4
    <3> QED BY <2>1, <2>2, <2>4, <3>1, EndingKeeps
  <2> QED
    BY <1>8, <2>3, <2>4 DEF AnswerServed
<1>9. ASSUME NEW c \in ApiCallers, Interrupted(c)
      PROVE  CallsInv'
  <2>1. /\ Underway(c) /\ ApiEnds(c, apiCall[c].provider)
        /\ dropped' = dropped \cup {Operation(c)} /\ served' = served
    BY <1>9 DEF Interrupted
  <2>2. /\ apiRow' = [apiRow EXCEPT ![Operation(c)] = "running"]
        /\ evidence' = [evidence EXCEPT ![Operation(c)] = 0]
    BY <1>6, <1>9, <2>1 DEF Interrupted
  <2>3. 0 \in 0..AllEvidence /\ Operation(c) \in dropped' /\ served \subseteq served'
    BY <2>1 DEF AllEvidence
  <2> QED
    BY <2>1, <2>2, <2>3, EndingKeeps
<1>10. CASE ApiRestart
  BY <1>10, RestartKeeps
<1>11. CASE Tick
  <2>1. \A c \in ApiCallers : Underway(c)' = Underway(c) /\ Operation(c)' = Operation(c)
    BY <1>11 DEF Tick, Underway, Operation, JobOf
  <2>2. \A o \in ApiOperations : o[1] \in ApiCallers
    BY DEF ApiOperations
  <2> QED
    BY <1>11, <2>1, <2>2 DEF Tick, CallsInv, ApiTypeOK, WindowTypeOK, CallsAreClean,
       CallsAreAtRoutes, ApiCallsAreHonest
<1> QED
  BY <1>1, <1>2, <1>3, <1>4, <1>5, <1>7, <1>8, <1>9, <1>10, <1>11 DEF ApiNext

\* Both at once: what the windows hold and what the rows say
LEMMA ApiInvariance == ApiSpec => [](CallsInv /\ RateInv)
<1>1. ApiInit => CallsInv /\ RateInv
  BY CallsInvInit
<1>2. CallsInv /\ RateInv /\ [ApiNext]_apiVars => (CallsInv /\ RateInv)'
  <2> SUFFICES ASSUME CallsInv, RateInv, [ApiNext]_apiVars PROVE (CallsInv /\ RateInv)'
    OBVIOUS
  <2>1. WindowsKept \/ OneDropsOld \/ OneLetsThrough \/ WindowsCleared \/ ClockMoves
    BY WindowSteps DEF CallsInv
  <2>2. RateInv'
    BY <2>1, RateInvStep
  <2>3. WindowTypeOK'
    BY <2>2 DEF RateInv
  <2>4. CallsInv'
    BY <2>3, CallsInvStep
  <2> QED
    BY <2>2, <2>4
<1> QED
  BY <1>1, <1>2, PTL DEF ApiSpec

\* Calls of provider APIs keep their shapes, for any callers, providers, routes and limits.
THEOREM ApiTypeCorrect == ApiSpec => []ApiTypeOK
<1>1. CallsInv => ApiTypeOK
  BY DEF CallsInv
<1> QED
  BY <1>1, ApiInvariance, PTL

\* No window of any policy and host is ever over its limit, however many calls interleave.
THEOREM RateAlwaysKept == ApiSpec => []RateIsKept
<1>1. RateInv => RateIsKept
  BY DEF RateInv
<1> QED
  BY <1>1, ApiInvariance, PTL

\* What the job records say of a call is so.
THEOREM ApiCallsAlwaysHonest == ApiSpec => []ApiCallsAreHonest
<1>1. CallsInv => ApiCallsAreHonest
  BY DEF CallsInv
<1> QED
  BY <1>1, ApiInvariance, PTL
===============================================================================
