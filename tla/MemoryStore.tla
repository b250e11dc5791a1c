------------------------------- MODULE MemoryStore ------------------------------
(***************************************************************************)
(* memory/store.py, and the consolidation that works on it (memory/            *)
(* consolidation.py): an index in memory and its rows in SQLite.  A coroutine   *)
(* changes the index, hands SQLite's thread a statement and goes on when that   *)
(* answers; stores, queries, the decay job and the consolidation overlap there. *)
(* A memory's decay_factor is counted in steps of the decay rate.             *)
(***************************************************************************)
EXTENDS Integers, Sequences, FiniteSets

CONSTANTS Memories,      \* the entries of a run of the model
          Kind,          \* their memory types; a procedural one goes the way of a semantic one
          Content,       \* what each of them says: its first 80 characters tell it apart
          MaxMemories,   \* max_memories
          Writers,       \* the stores that may overlap, the consolidation's own among them
          FullDecay,     \* a decay_factor of 1.0
          Boost          \* what an access adds to it

ASSUME MemoryAssumption ==
    /\ IsFiniteSet(Memories) /\ DOMAIN Content = Memories
    /\ Kind \in [Memories -> {"episodic", "semantic"}]
    /\ MaxMemories \in Nat \ {0} /\ Writers \in Nat \ {0}
    /\ FullDecay \in Nat \ {0} /\ Boost \in Nat \ {0}

VARIABLES
    index,       \* the entries of _index, each with its decay_factor
    used,        \* the identifiers that have been given out
    memoryRows,  \* the committed rows
    undone,      \* the rows an eviction has deleted and nothing has committed yet
    statements,  \* what SQLite's thread has still to do, and for whom
    dying,       \* what the decay job has still to delete
    dream        \* the consolidation: its phase, the episodes it has still to look at, and those
                 \* it has seen (of those that begin alike, the one it keeps)

memoryVars == <<index, used, memoryRows, undone, statements, dying, dream>>

Indexed == DOMAIN index

\* next is the entry an eviction makes room for, and the entry itself everywhere else.
Statement == [do : {"insert", "delete"}, entry : Memories, next : Memories,
              by : {"store", "decay", "dream"}]

MemoryTypeOK ==
    /\ Indexed \subseteq Memories /\ index \in [Indexed -> 0..FullDecay]
    /\ used \subseteq Memories
    /\ undone \subseteq memoryRows /\ memoryRows \subseteq Memories
    /\ statements \in Seq(Statement) /\ dying \subseteq Memories
    /\ dream \in [phase : {"off", "extracting", "deduplicating"}, left : SUBSET Memories,
                  seen : SUBSET Memories]

Awake == [phase |-> "off", left |-> {}, seen |-> {}]

MemoryInit ==
    /\ index = <<>> /\ used = {} /\ memoryRows = {} /\ undone = {}
    /\ statements = <<>> /\ dying = {} /\ dream = Awake

-----------------------------------------------------------------------------
Asks(do, m, next, by) == [do |-> do, entry |-> m, next |-> next, by |-> by]
Waits(by) == \E i \in DOMAIN statements : statements[i].by = by
Evicting == {i \in DOMAIN statements : statements[i].next # statements[i].entry}

With(m) == [e \in Indexed \cup {m} |-> IF e = m THEN FullDecay ELSE index[e]]
Without(m) == [e \in Indexed \ {m} |-> index[e]]

\* access(), by every entry a query returns
AtMostFull(n) == IF n > FullDecay THEN FullDecay ELSE n
Reinforced(entries) ==
    [e \in Indexed |-> IF e \in entries THEN AtMostFull(index[e] + Boost) ELSE index[e]]

\* store(), to its first statement: at capacity the entry that has decayed most makes room
\* first, and the new one enters when SQLite has answered.
Worst == {w \in Indexed : \A e \in Indexed : index[w] <= index[e]}

MutantAtCapacity == Cardinality(Indexed) > MaxMemories
AtCapacity == Cardinality(Indexed) >= MaxMemories

Remembers(m, by) ==
    /\ m \notin used /\ used' = used \cup {m}
    /\ \/ /\ AtCapacity
          /\ \E w \in Worst :
                /\ index' = Without(w)
                /\ statements' = Append(statements, Asks("delete", w, m, by))
       \/ /\ ~AtCapacity /\ index' = With(m)
          /\ statements' = Append(statements, Asks("insert", m, m, by))

StoreMemory(m) ==
    /\ Cardinality({i \in DOMAIN statements : statements[i].by = "store"}) < Writers - 1
    /\ Remembers(m, "store")
    /\ UNCHANGED <<memoryRows, undone, dying, dream>>

\* query(), up to the entries it returns: the statements behind it write counters only.
Query(m) ==
    /\ m \in Indexed /\ index' = Reinforced({m})
    /\ UNCHANGED <<used, memoryRows, undone, statements, dying, dream>>

\* delete(): nothing where the entry has gone already
Deletes(m, by) ==
    IF m \in Indexed
    THEN index' = Without(m) /\ statements' = Append(statements, Asks("delete", m, m, by))
    ELSE UNCHANGED <<index, statements>>

-----------------------------------------------------------------------------
\* apply_decay: one pass over the index, then one deletion after another of what had gone
\* then, whatever has become of it since.
ApplyDecay ==
    LET decayed == [e \in Indexed |-> IF index[e] = 0 THEN 0 ELSE index[e] - 1] IN
    /\ dying = {} /\ ~Waits("decay") /\ Indexed # {}
    /\ index' = decayed
    /\ dying' = {e \in Indexed : decayed[e] = 0}
    /\ UNCHANGED <<used, memoryRows, undone, statements, dream>>

DecayDeletes(m) ==
    /\ m \in dying /\ ~Waits("decay") /\ dying' = dying \ {m}
    /\ Deletes(m, "decay")
    /\ UNCHANGED <<used, memoryRows, undone, dream>>

-----------------------------------------------------------------------------
\* consolidate(): it reads the episodes, and reading reinforces them.
Consolidate ==
    LET episodes == {e \in Indexed : Kind[e] = "episodic"} IN
    /\ dream = Awake /\ ~Waits("dream") /\ episodes # {}
    /\ index' = Reinforced(episodes)
    /\ dream' = [phase |-> "extracting", left |-> episodes, seen |-> {}]
    /\ UNCHANGED <<used, memoryRows, undone, statements, dying>>

\* What an episode matches is kept as a lesson unless one says so already, which the
\* question reinforces; it may match nothing.
Extract(m) ==
    LET lessons == {e \in Indexed : Kind[e] = "semantic" /\ Content[e] = Content[m]} IN
    /\ dream.phase = "extracting" /\ m \in dream.left /\ ~Waits("dream")
    /\ dream' = [dream EXCEPT !.left = @ \ {m}, !.seen = @ \cup {m}]
    /\ \/ UNCHANGED <<index, used, statements>>
       \/ \E e \in lessons : index' = Reinforced({e}) /\ UNCHANGED <<used, statements>>
       \/ /\ lessons = {}
          /\ \E new \in Memories :
                /\ Kind[new] = "semantic" /\ Content[new] = Content[m]
                /\ Remembers(new, "dream")
    /\ UNCHANGED <<memoryRows, undone, dying>>

\* The frequent topics, if any, are a lesson of their own, new each time.
Summarise ==
    /\ dream.phase = "extracting" /\ dream.left = {} /\ ~Waits("dream")
    /\ \/ \E new \in Memories : Kind[new] = "semantic" /\ Remembers(new, "dream")
       \/ UNCHANGED <<index, used, statements>>
    /\ dream' = [phase |-> "deduplicating", left |-> dream.seen, seen |-> {}]
    /\ UNCHANGED <<memoryRows, undone, dying>>

\* _deduplicate_episodic: of two episodes that begin alike the less important one goes.
Deduplicate(m) ==
    /\ dream.phase = "deduplicating" /\ m \in dream.left /\ ~Waits("dream")
    /\ LET alike == {e \in dream.seen : Content[e] = Content[m]}
           rest == dream.left \ {m}
       IN \/ /\ alike = {} /\ UNCHANGED <<index, statements>>
             /\ dream' = [dream EXCEPT !.left = rest, !.seen = @ \cup {m}]
          \/ /\ alike # {} /\ Deletes(m, "dream")
             /\ dream' = [dream EXCEPT !.left = rest]
          \/ \E e \in alike :
                /\ Deletes(e, "dream")
                /\ dream' = [dream EXCEPT !.left = rest, !.seen = (@ \ {e}) \cup {m}]
    /\ UNCHANGED <<used, memoryRows, undone, dying>>

WakeUp ==
    /\ dream.phase = "deduplicating" /\ dream.left = {} /\ ~Waits("dream") /\ dream' = Awake
    /\ UNCHANGED <<index, used, memoryRows, undone, statements, dying>>

-----------------------------------------------------------------------------
\* SQLite answers.  An eviction commits nothing, and lets its store go on.
EvictionAnswered ==
    LET answered == Head(statements) IN
    /\ statements # <<>> /\ answered.next # answered.entry
    /\ undone' = undone \cup ({answered.entry} \cap memoryRows)
    /\ index' = With(answered.next)
    /\ statements' = Append(Tail(statements), Asks("insert", answered.next, answered.next, answered.by))
    /\ UNCHANGED <<used, memoryRows, dying, dream>>

StatementAnswered ==
    LET answered == Head(statements)
        kept == memoryRows \ undone
    IN
    /\ statements # <<>> /\ answered.next = answered.entry
    /\ memoryRows' = IF answered.do = "insert" THEN kept \cup {answered.entry} ELSE kept \ {answered.entry}
    /\ undone' = {} /\ statements' = Tail(statements)
    /\ UNCHANGED <<index, used, dying, dream>>

\* The process dies and starts again from the rows: an eviction nothing has committed is
\* undone unless a query committed it, and a row holds the decay of its last query.
MemoryRestart ==
    /\ memoryRows' \in {memoryRows, memoryRows \ undone}
    /\ index' \in [memoryRows' -> 0..FullDecay]
    /\ undone' = {} /\ statements' = <<>> /\ dying' = {} /\ dream' = Awake
    /\ UNCHANGED used

MemoryNext ==
    \/ \E m \in Memories :
          \/ StoreMemory(m) \/ Query(m)
          \/ DecayDeletes(m) \/ Extract(m) \/ Deduplicate(m)
    \/ ApplyDecay \/ Consolidate \/ Summarise \/ WakeUp
    \/ EvictionAnswered \/ StatementAnswered \/ MemoryRestart

MemorySpec == MemoryInit /\ [][MemoryNext]_memoryVars

(***************************************************************************)
(* Properties                                                              *)
(***************************************************************************)
\* Remembers that overlap make room for one another's entries, and the index outgrows
\* max_memories; but never by more than the stores that were under way at once, less one.
GrowthIsBounded == Cardinality(Indexed) + Cardinality(Evicting) <= MaxMemories + Writers - 1

\* When SQLite has nothing left to do, the rows are the index: stores, evictions, decay and
\* the consolidation never leave a row the store has forgotten or an entry it would lose.
RowsAreIndex == statements = <<>> => memoryRows \ undone = Indexed

StoreStaysTrue == GrowthIsBounded /\ RowsAreIndex
===============================================================================
