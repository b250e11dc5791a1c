------------------------------- MODULE WorkLoop -------------------------------
(***************************************************************************)
(* The work loop (core/agent_loop.py): a bounded queue in memory of pieces *)
(* of work that are listed in a message (core/brain.py), and one worker    *)
(* that has them done one by one, reports on each and pauses after some    *)
(* failures in a row.  The worker's steps end where it awaits: others      *)
(* queue work in between.                                                  *)
(***************************************************************************)
EXTENDS Integers, Sequences

CONSTANTS
    Works,          \* what a piece of work may ask for
    WorkMessages,   \* the messages there are, as far as they list work
    WorkChats,      \* the chats they come from
    QueueSize,      \* max_queue_size
    Patience,       \* the failures in a row that make the worker pause
    MaxAccepted     \* bound on what one process accepts

\* A message: whether it quotes, how its first line announces work, how it lists the pieces,
\* the pieces, and how many of them are in what the agent said last.
IsWorkMessage(m) ==
    /\ m.quotes \in BOOLEAN /\ m.head \in {"none", "word", "colon"}
    /\ m.layout \in {"numbered", "mixed", "commas"}
    /\ m.items \in Seq(Works) /\ m.echoed \in 0..Len(m.items)

ASSUME WorkLoopAssumption ==
    /\ \A m \in WorkMessages : IsWorkMessage(m)
    /\ QueueSize \in Nat \ {0} /\ Patience \in Nat \ {0} /\ MaxAccepted \in Nat

VARIABLES
    workQueue,      \* _queue
    inHand,         \* the piece the worker took off it, while it is being done
    workerAt,       \* what the worker awaits, if it runs
    strikes,        \* _consecutive_errors
    workAccepted,   \* all that this process put in the queue, in order (history)
    outcomes,       \* what came of each piece that was done, in order (history)
    pauses          \* the outcomes that a pause followed (history)

workVars == <<workQueue, inHand, workerAt, strikes, workAccepted, outcomes, pauses>>

Marks == {"done", "failed"}
Pieces == [what : Works, chat : WorkChats]

\* AgentLoop.__init__
WorkInit ==
    /\ workQueue = <<>> /\ inHand = <<>> /\ workerAt = "off" /\ strikes = 0
    /\ workAccepted = <<>> /\ outcomes = <<>> /\ pauses = {}

\* AgentLoop.start
StartWorker ==
    /\ workerAt = "off" /\ workerAt' = "resting"
    /\ UNCHANGED <<workQueue, inHand, strikes, workAccepted, outcomes, pauses>>

-------------------------------------------------------------------------------
\* _detect_explicit_work_queue: the work a message asks for outright.  A list that quotes, or
\* that the agent said itself, all of it or all but one piece, is talk.
LargerOf(a, b) == IF a >= b THEN a ELSE b
ListedWork(m) ==
    IF /\ ~m.quotes /\ (m.layout = "numbered" \/ m.head # "none")
       /\ Len(m.items) >= 2 /\ m.echoed < LargerOf(2, Len(m.items) - 1)
    THEN m.items ELSE <<>>

\* add_work takes what there is room for and drops the rest; its answer is the count.
Smaller(a, b) == IF a <= b THEN a ELSE b
Fitting(l, chat) ==
    [i \in 1..Smaller(Len(l), QueueSize - Len(workQueue)) |-> [what |-> l[i], chat |-> chat]]

\* A message that holds a list of work; in a group it is refused unless it is the owner's.
QueueWork(m, chat, group, owner) ==
    LET l == ListedWork(m)
    IN  /\ Len(l) >= 2 /\ (group => owner)
        /\ Len(workAccepted) + Len(Fitting(l, chat)) <= MaxAccepted
        /\ workQueue' = workQueue \o Fitting(l, chat)
        /\ workAccepted' = workAccepted \o Fitting(l, chat)
        /\ UNCHANGED <<inHand, workerAt, strikes, outcomes, pauses>>

\* The worker wakes and takes the piece at the front.
TakePiece ==
    /\ workerAt = "resting" /\ workQueue # <<>>
    /\ inHand' = <<Head(workQueue)>> /\ workQueue' = Tail(workQueue)
    /\ workerAt' = "working"
    /\ UNCHANGED <<strikes, workAccepted, outcomes, pauses>>

\* What the provider makes of a piece: a reply; a failure (its time was up, it ended with an
\* error, it could not be run), which it hands back like a reply; or something raised before
\* it was asked, as when there is no provider.
WorkAnswers == {"reply", "failure", "exception"}

\* _execute_item makes a text of a failure too: the piece is done.
MarkOf(answer) == IF answer = "exception" THEN "failed" ELSE "done"

EndPiece(mark) ==
    LET count == IF mark = "failed" THEN strikes + 1 ELSE strikes
    IN  /\ workerAt = "working"
        /\ outcomes' = Append(outcomes, [piece |-> inHand[1], mark |-> mark])
        /\ inHand' = <<>>
        /\ workerAt' = "telling" /\ strikes' = count
        /\ UNCHANGED <<workQueue, workAccepted, pauses>>

\* Where it goes when its last piece was told of: only failures in a row
\* make it pause.  The warning in the chat that a pause begins with is part of the pause.
MutantGoesTo(mark, count) ==                  \* a success does not end a row of failures
    IF mark = "failed" /\ count >= Patience
    THEN workerAt' = "pausing" /\ strikes' = count /\ pauses' = pauses \cup {Len(outcomes)}
    ELSE workerAt' = "resting" /\ strikes' = count /\ UNCHANGED pauses
GoesTo(mark, count) ==
    IF mark = "failed" /\ count >= Patience
    THEN workerAt' = "pausing" /\ strikes' = count /\ pauses' = pauses \cup {Len(outcomes)}
    ELSE /\ workerAt' = "resting" /\ strikes' = (IF mark = "done" THEN 0 ELSE count)
         /\ UNCHANGED pauses

\* The chat was told of it, or was not: send_message swallows every error.
Told ==
    /\ workerAt = "telling"
    /\ UNCHANGED <<workQueue, inHand, workAccepted, outcomes>>
    /\ GoesTo(outcomes[Len(outcomes)].mark, strikes)

PauseEnds ==
    /\ workerAt = "pausing" /\ workerAt' = "resting" /\ strikes' = 0
    /\ UNCHANGED <<workQueue, inHand, workAccepted, outcomes, pauses>>

\* stop cancels the worker wherever it is: nobody hears of the piece in its hand, nor of
\* what is queued before the process ends.
StopWorker ==
    /\ workerAt \notin {"off", "stopped"} /\ workerAt' = "stopped"
    /\ UNCHANGED <<workQueue, inHand, strikes, workAccepted, outcomes, pauses>>

\* Another process begins with an empty queue.
WorkRestart ==
    /\ workQueue' = <<>> /\ inHand' = <<>> /\ workerAt' = "off" /\ strikes' = 0
    /\ workAccepted' = <<>> /\ outcomes' = <<>> /\ pauses' = {}

WorkNext ==
    \/ StartWorker \/ TakePiece \/ Told \/ PauseEnds \/ StopWorker \/ WorkRestart
    \/ \E answer \in WorkAnswers : EndPiece(MarkOf(answer))
    \/ \E m \in WorkMessages, chat \in WorkChats, group, owner \in BOOLEAN :
          QueueWork(m, chat, group, owner)

WorkSpec == WorkInit /\ [][WorkNext]_workVars

-------------------------------------------------------------------------------
\* The queue is within its size, and the worker has a piece in its hand while it works, or
\* was stopped when it had.
WorkTypeOK ==
    /\ workQueue \in Seq(Pieces) /\ Len(workQueue) <= QueueSize
    /\ inHand \in {<<>>} \cup {<<p>> : p \in Pieces}
    /\ workerAt \in {"off", "resting", "working", "telling", "pausing", "stopped"}
    /\ workerAt = "working" => inHand # <<>>
    /\ workerAt \in {"off", "resting", "telling", "pausing"} => inHand = <<>>
    /\ strikes \in 0..Patience
    /\ workAccepted \in Seq(Pieces)
    /\ outcomes \in Seq([piece : Pieces, mark : Marks])
    /\ pauses \subseteq DOMAIN outcomes

DonePieces == [i \in DOMAIN outcomes |-> outcomes[i].piece]

\* core/agent_loop.py, add_work and _worker: whatever is queued while the worker awaits, a
\* piece that was accepted is done, in the worker's hand or queued, once and in its turn.
WorkIsKept == workAccepted = DonePieces \o inHand \o workQueue

\* The last `n' of the first k outcomes are failures without a pause in between.
InARow(n, k) ==
    /\ n <= k
    /\ \A i \in DOMAIN outcomes : k - n < i /\ i <= k =>
          outcomes[i].mark = "failed" /\ (i # k => i \notin pauses)

\* core/agent_loop.py, _worker: the worker pauses after that many failures in a row and only
\* then, however long it takes to tell a chat of each and whatever was queued meanwhile.
PausesWhenItShould ==
    \A k \in DOMAIN outcomes :
        /\ k \in pauses => InARow(Patience, k)
        /\ InARow(Patience, k) /\ (k < Len(outcomes) \/ inHand # <<>>) => k \in pauses

\* What the work loop owes those it accepts work from (core/agent_loop.py)
WorkLoopServes == WorkIsKept /\ PausesWhenItShould
===============================================================================
