----------------------------- MODULE MessageRouter -----------------------------
(***************************************************************************)
(* core/router.py: the message bus between the agent's modules.  send()     *)
(* puts a message in a priority queue and then stores it in SQLite; one     *)
(* loop takes messages out, awaits their handlers, and removes them from    *)
(* SQLite; failures are retried after a backoff and end in a dead-letter    *)
(* queue; stop() drains what is left; init() replays what SQLite holds.     *)
(*                                                                         *)
(* Every await is a step.  aiosqlite runs the statements of a connection on *)
(* one thread in the order they were issued: `writes' holds those issued    *)
(* and not yet committed, and a coroutine that issued one waits for it.  A   *)
(* write takes effect or raises without effect.                             *)
(*                                                                         *)
(* The loop is cancelled before stop() drains, as Agent.stop does, so one    *)
(* coroutine at a time delivers: `worker' is the loop, then the drain.       *)
(***************************************************************************)
EXTENDS Integers, Sequences, FiniteSets

CONSTANTS Messages,      \* Message objects, responses included
          Modules,       \* ModuleID values messages are addressed to
          Target,        \* the target of each message
          Priority,      \* its priority value: the smaller is delivered first
          MaxRetries,    \* max_retries of a message
          MaxDead,       \* DeadLetterQueue(max_size)
          MaxSeq,        \* bound: no send from outside and no restart once _seq is there
          WriteOutcomes, \* {TRUE}, or {TRUE, FALSE} when SQLite may raise
          ClockResets,   \* {FALSE}, or with TRUE when a restart may follow a reboot
          NoMessage

ASSUME RouterAssumption ==
    /\ Target \in [Messages -> Modules]
    /\ Priority \in [Messages -> Nat]
    /\ MaxRetries \in Nat /\ MaxSeq \in Nat
    /\ MaxDead \in Nat \ {0}
    /\ WriteOutcomes \subseteq BOOLEAN /\ ClockResets \subseteq BOOLEAN
    /\ NoMessage \notin Messages

VARIABLES
    queue,     \* the entries of _queue: message, sequence number, retry_count
    rows,      \* the rows of pending_messages
    writes,    \* statements issued on the connection and not committed, in order
    dead,      \* DeadLetterQueue._entries in insertion order
    worker,    \* what the delivering coroutine is doing
    handlers,  \* the keys of _handlers
    mode,      \* running, draining (inside stop()), or closed
    seq,       \* _seq
    expired,   \* messages older than their ttl_seconds
    used,      \* messages somebody has already created
    accepted,  \* history variable: messages whose store() returned
    handled,   \* history variable: messages a handler returned for
    forgotten, \* history variable: messages whose remove() returned
    raised     \* history variable: messages one of whose writes raised

memory == <<queue, dead, worker, handlers, mode, seq>>
history == <<used, accepted, handled, forgotten, raised>>
vars == <<memory, rows, writes, expired, history>>

Entry == [m : Messages, seq : Nat, tries : 0..MaxRetries]
Statement == [op : {"store", "remove"}, row : Entry]
Letter == [m : Messages, tries : 0..MaxRetries]
Idle == [phase |-> "idle", m |-> NoMessage, tries |-> 0, response |-> NoMessage]
Phases == {"idle", "handling", "removing", "removed", "responding", "backoff", "restoring"}
Worker == [phase : Phases, m : Messages \cup {NoMessage}, tries : 0..MaxRetries,
           response : Messages \cup {NoMessage}]

RouterTypeOK ==
    /\ queue \subseteq Entry /\ rows \subseteq Entry
    /\ writes \in Seq(Statement)
    /\ dead \in Seq(Letter) /\ Len(dead) <= MaxDead
    /\ worker \in Worker
    /\ handlers \subseteq Modules
    /\ mode \in {"running", "draining", "closed"}
    /\ seq \in Nat
    /\ expired \subseteq Messages

RouterInit ==
    /\ queue = {} /\ rows = {} /\ writes = <<>> /\ dead = <<>>
    /\ worker = Idle
    /\ handlers = Modules
    /\ mode = "running"
    /\ seq = 0
    /\ expired = {} /\ used = {}
    /\ accepted = {} /\ handled = {} /\ forgotten = {} /\ raised = {}

-------------------------------------------------------------------------------
\* DeadLetterQueue.add: the oldest entry makes room, whether or not m has one
\* already; a message that has one keeps its place.
Buried(letters, m, tries) ==
    LET room   == IF Len(letters) >= MaxDead THEN Tail(letters) ELSE letters
        letter == [m |-> m, tries |-> tries]
    IN  IF \E i \in DOMAIN room : room[i].m = m
        THEN [i \in DOMAIN room |-> IF room[i].m = m THEN letter ELSE room[i]]
        ELSE Append(room, letter)
Bury(m, tries) == dead' = Buried(dead, m, tries)

\* send(): the message is queued, then its row is issued; the order of the two is
\* the order in the code, and put() on an unbounded queue does not suspend.
\* `letters' is the dead-letter queue send() finds.
Deliverable(m) == m \notin expired /\ Target[m] \in handlers

Enqueue(m, tries, letters) ==
    /\ Deliverable(m)
    /\ LET entry == [m |-> m, seq |-> seq + 1, tries |-> tries]
       IN  /\ queue' = queue \cup {entry}
           /\ writes' = Append(writes, [op |-> "store", row |-> entry])
    /\ seq' = seq + 1
    /\ dead' = letters

Reject(m, tries, letters) ==
    /\ ~Deliverable(m)
    /\ dead' = Buried(letters, m, tries)
    /\ UNCHANGED <<queue, writes, seq>>

Send(m) ==
    /\ mode # "closed" /\ m \notin used /\ seq < MaxSeq
    /\ used' = used \cup {m}
    /\ Enqueue(m, 0, dead) \/ Reject(m, 0, dead)
    /\ UNCHANGED <<rows, worker, handlers, mode, expired, accepted, handled, forgotten, raised>>

\* An operator takes a message out of the dead-letter queue and sends it again.
MutantUnburied(i) == dead                                     \* reads, does not pop
Unburied(i) == SubSeq(dead, 1, i - 1) \o SubSeq(dead, i + 1, Len(dead))

RetryDead ==
    /\ mode # "closed" /\ seq < MaxSeq
    /\ \E i \in DOMAIN dead :
          \/ Enqueue(dead[i].m, dead[i].tries, Unburied(i))
          \/ Reject(dead[i].m, dead[i].tries, Unburied(i))
    /\ UNCHANGED <<rows, worker, handlers, mode, expired, history>>

-------------------------------------------------------------------------------
\* The loop and the drain

Before(e, f) ==
    \/ Priority[e.m] < Priority[f.m]
    \/ Priority[e.m] = Priority[f.m] /\ e.seq < f.seq

Foremost(e) == e \in queue /\ \A f \in queue \ {e} : Before(e, f)

Take(e) ==
    /\ worker = Idle /\ mode # "closed" /\ Foremost(e)
    /\ e.m \notin expired /\ Target[e.m] \in handlers
    /\ queue' = queue \ {e}
    /\ worker' = [phase |-> "handling", m |-> e.m, tries |-> e.tries, response |-> NoMessage]
    /\ UNCHANGED <<rows, writes, dead, handlers, mode, seq, expired, history>>

\* Expired, or its handler has gone.  The drain drops an expired message without
\* a letter; no row is removed.
Discard(e) ==
    /\ worker = Idle /\ mode # "closed" /\ Foremost(e)
    /\ e.m \in expired \/ Target[e.m] \notin handlers
    /\ queue' = queue \ {e}
    /\ IF mode = "draining" /\ e.m \in expired THEN UNCHANGED dead ELSE Bury(e.m, e.tries)
    /\ UNCHANGED <<rows, writes, worker, handlers, mode, seq, expired, history>>

\* The handler returned, with a response or without one.
Return ==
    /\ worker.phase = "handling"
    /\ \E response \in (Messages \ used) \cup {NoMessage} :
         /\ worker' = [worker EXCEPT !.phase = "removing", !.response = response]
         /\ used' = used \cup ({response} \ {NoMessage})
    /\ handled' = handled \cup {worker.m}
    /\ writes' = Append(writes, [op |-> "remove",
                                 row |-> [m |-> worker.m, seq |-> 0, tries |-> 0]])
    /\ UNCHANGED <<queue, rows, dead, handlers, mode, seq, expired, accepted, forgotten, raised>>

Respond ==
    /\ worker.phase = "removed"
    /\ \/ /\ worker.response = NoMessage
          /\ worker' = Idle
          /\ UNCHANGED <<queue, writes, seq, dead>>
       \/ /\ worker.response # NoMessage
          /\ Enqueue(worker.response, 0, dead)
          /\ worker' = [worker EXCEPT !.phase = "responding"]
       \/ /\ worker.response # NoMessage
          /\ Reject(worker.response, 0, dead)
          /\ worker' = Idle
    /\ UNCHANGED <<rows, handlers, mode, expired, history>>

\* _maybe_retry: back off, or bury the message and leave its row
RetriesLeft == worker.tries < MaxRetries

MaybeRetry ==
    \/ RetriesLeft /\ worker' = [worker EXCEPT !.phase = "backoff"] /\ UNCHANGED dead
    \/ ~RetriesLeft /\ worker' = Idle /\ Bury(worker.m, worker.tries)

MutantHandlerFails ==                                \* gives the row up as well
    /\ worker.phase = "handling"
    /\ MaybeRetry
    /\ writes' = Append(writes, [op |-> "remove",
                                 row |-> [m |-> worker.m, seq |-> 0, tries |-> 0]])
    /\ UNCHANGED <<queue, rows, handlers, mode, seq, expired, history>>

\* It raised, or the delivery timeout struck.
HandlerFails ==
    /\ worker.phase = "handling"
    /\ MaybeRetry
    /\ UNCHANGED <<queue, rows, writes, handlers, mode, seq, expired, history>>

\* The backoff is over: send() of a copy whose retry_count is one more.
Wake ==
    /\ worker.phase = "backoff"
    /\ \/ Enqueue(worker.m, worker.tries + 1, dead) /\ worker' = [worker EXCEPT !.phase = "restoring"]
       \/ Reject(worker.m, worker.tries + 1, dead) /\ worker' = Idle
    /\ UNCHANGED <<rows, handlers, mode, expired, history>>

-------------------------------------------------------------------------------
\* SQLite

FirstWrite == 1

Others(i) == SubSeq(writes, 1, i - 1) \o SubSeq(writes, i + 1, Len(writes))

\* Which coroutine awaits the statement w: the worker, or else a caller of send().
Awaited(w) ==
    \/ w.op = "remove" /\ worker.phase = "removing" /\ worker.m = w.row.m
    \/ w.op = "store" /\ worker.phase = "responding" /\ worker.response = w.row.m
    \/ w.op = "store" /\ worker.phase = "restoring" /\ worker.m = w.row.m

Commit ==
    /\ writes # <<>>
    /\ LET w == writes[FirstWrite]
           rest == {e \in rows : e.m # w.row.m}
       IN  /\ rows' = IF w.op = "store" THEN rest \cup {w.row} ELSE rest
           /\ writes' = Others(FirstWrite)
           /\ accepted' = IF w.op = "store" THEN accepted \cup {w.row.m} ELSE accepted
           /\ forgotten' = IF w.op = "remove" THEN forgotten \cup {w.row.m} ELSE forgotten
           /\ worker' = IF ~Awaited(w) THEN worker
                        ELSE IF w.op = "remove" THEN [worker EXCEPT !.phase = "removed"]
                        ELSE Idle
    /\ UNCHANGED <<queue, dead, handlers, mode, seq, expired, used, handled, raised>>

\* remove() or the response's store() raises inside the try of _deliver: the message
\* is retried although it was handled.  The store() of a retry raises out of
\* _deliver: the loop logs it, stop() passes it on.
WriteRaises ==
    /\ writes # <<>> /\ FALSE \in WriteOutcomes
    /\ LET w == writes[FirstWrite]
       IN  /\ writes' = Others(FirstWrite)
           /\ raised' = raised \cup {w.row.m} \cup (IF Awaited(w) THEN {worker.m} ELSE {})
           /\ \/ Awaited(w) /\ worker.phase # "restoring" /\ MaybeRetry /\ UNCHANGED mode
              \/ /\ Awaited(w) /\ worker.phase = "restoring"
                 /\ worker' = Idle
                 /\ mode' = IF mode = "draining" THEN "closed" ELSE mode
                 /\ UNCHANGED dead
              \/ ~Awaited(w) /\ UNCHANGED <<worker, dead, mode>>
    /\ UNCHANGED <<queue, rows, handlers, seq, expired, used, accepted, handled, forgotten>>

-------------------------------------------------------------------------------
\* register_handler, unregister_handler
Register(n) ==
    /\ handlers' = handlers \cup {n}
    /\ UNCHANGED <<queue, rows, writes, dead, worker, mode, seq, expired, history>>

Unregister(n) ==
    /\ handlers' = handlers \ {n}
    /\ UNCHANGED <<queue, rows, writes, dead, worker, mode, seq, expired, history>>

\* time.monotonic() - created_at_mono passes ttl_seconds
Expire(m) ==
    /\ m \in used /\ expired' = expired \cup {m}
    /\ UNCHANGED <<memory, rows, writes, history>>

\* Agent.stop cancels the loop, and with it the handler or the backoff it was in;
\* then stop() drains the queue, and closes the connection when it is empty.
Stop ==
    /\ mode = "running"
    /\ mode' = "draining" /\ worker' = Idle
    /\ UNCHANGED <<queue, rows, writes, dead, handlers, seq, expired, history>>

MutantClose ==                                       \* does not wait for the drain
    /\ mode = "draining" /\ worker = Idle
    /\ mode' = "closed"
    /\ UNCHANGED <<queue, rows, writes, dead, worker, handlers, seq, expired, history>>

Close ==
    /\ mode = "draining" /\ queue = {} /\ worker = Idle
    /\ mode' = "closed"
    /\ UNCHANGED <<queue, rows, writes, dead, worker, handlers, seq, expired, history>>

\* A process dies or has stopped, and the next one runs init().  created_at_mono is
\* in the row, so a message stays expired, until a reboot resets the monotonic clock.
MutantSeqAfter(loaded) == 0                                  \* starts over
SeqAfter(loaded) ==
    IF loaded = {} THEN 0 ELSE 1 + CHOOSE n \in {e.seq : e \in loaded} :
                                      \A e \in loaded : e.seq <= n

Restart ==
    /\ seq < MaxSeq
    /\ \E reset \in ClockResets : expired' = IF reset THEN {} ELSE expired
    /\ LET loaded == {e \in rows : e.m \notin expired'}
       IN  queue' = loaded /\ seq' = SeqAfter(loaded)
    /\ writes' = <<>> /\ dead' = <<>> /\ worker' = Idle
    /\ handlers' = Modules /\ mode' = "running"
    /\ UNCHANGED <<rows, history>>

-------------------------------------------------------------------------------
Work ==
    \/ \E e \in queue : Take(e) \/ Discard(e)
    \/ Return \/ Respond \/ HandlerFails \/ Wake
    \/ Close

RouterNext ==
    \/ Work
    \/ Commit \/ WriteRaises
    \/ \E m \in Messages : Send(m) \/ Expire(m)
    \/ RetryDead
    \/ \E n \in Modules : Register(n) \/ Unregister(n)
    \/ Stop
    \/ Restart

\* The delivering coroutine is scheduled, wait_for bounds a handler and sleep a
\* backoff, and SQLite's thread runs.  Callers, stops and crashes are not assumed.
RouterSpec == RouterInit /\ [][RouterNext]_vars /\ WF_vars(Work) /\ WF_vars(Commit)
-------------------------------------------------------------------------------
Held == IF worker.phase \in {"idle", "restoring"} THEN {} ELSE {worker.m}
InProcess(m) == m \in Held \/ \E e \in queue : e.m = m
Owed(m) == (worker.phase \in {"handling", "backoff"} /\ worker.m = m) \/ \E e \in queue : e.m = m

(* Crash recovery (MessagePersistence): a message whose send() returned stays in the *)
(* database until a handler has returned for it, through retries, dead letters,       *)
(* expiry, writes that raise, stops and crashes; one whose removal was committed is   *)
(* not in the database or the process again, so that no restart redelivers it, unless *)
(* a write about it raised.                                                          *)
RowsFollowMessages ==
    /\ \A m \in accepted \ handled : \E e \in rows : e.m = m
    /\ \A m \in forgotten \ raised : ~Owed(m) /\ \A e \in rows : e.m # m

(* One copy of a message at most is waiting, being delivered or buried: retries,       *)
(* operator retries and replay never make two.                                         *)
SingleCopy ==
    /\ \A e, f \in queue : e.m = f.m => e = f
    /\ \A i, j \in DOMAIN dead : dead[i].m = dead[j].m => i = j
    /\ \A e \in queue : e.m \notin Held /\ \A i \in DOMAIN dead : dead[i].m # e.m
    /\ \A i \in DOMAIN dead : dead[i].m \notin Held

(* The message bus (send, _deliver, MessagePersistence) implements the mailbox of       *)
(* Mailbox through its rows, whatever is retried, buried, replayed or cut short.        *)
Box == INSTANCE Mailbox WITH
    sent <- used, lodged <- accepted, record <- {e.m : e \in rows},
    served <- handled, struck <- forgotten, doubted <- raised
KeepsMailbox == Box!MailboxSpec

(* "seq prevents Message comparison": no two entries of the heap tie, so it never      *)
(* compares two Message objects, which raises TypeError.                               *)
NoTie ==
    \A e, f \in queue : e # f => Before(e, f) \/ Before(f, e)

(* "Persist before delivery": a handler runs only for a message the database holds.    *)
StoredBeforeDelivery ==
    worker.phase = "handling" => \E e \in rows : e.m = worker.m

(* What entered the process leaves it, delivered or buried, unless it keeps crashing    *)
(* or a write that raised cut stop() short.                                             *)
Abandoned == mode = "closed" /\ queue # {} /\ raised # {}
Settles ==
    <>[][~Restart]_vars => \A m \in Messages : InProcess(m) ~> (~InProcess(m) \/ Abandoned)
===============================================================================
