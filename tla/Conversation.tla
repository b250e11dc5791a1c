------------------------------ MODULE Conversation ------------------------------
(***************************************************************************)
(* core/brain.py: what one chat remembers.  Each message reads the tail in    *)
(* memory and appends to it around the awaits of its answer; each exchange is  *)
(* also a pair of rows of memory/persistent_conversation.py, from which the    *)
(* first message of a process fills the tail.  A Telegram chat is locked       *)
(* (TelegramUpdates); the HTTP API and the terminal share chat 0, unlocked,    *)
(* and the API cancels what takes too long.                                 *)
(***************************************************************************)
EXTENDS Naturals, Sequences

CONSTANTS Slots,     \* messages that may be answered side by side
          Texts,     \* what is said
          Answers,   \* what is answered
          MaxTail,   \* _max_conversation
          MaxRaw,    \* max_raw_messages
          MaxSaid    \* bound: exchanges in the table

ASSUME ConversationAssumption == {MaxTail, MaxRaw, MaxSaid} \subseteq Nat \ {0}

VARIABLES
    tail,        \* _conversations[chat]
    rows,        \* messages of the conversation
    hydrated,    \* chat in _hydrated_chats
    slot,        \* a message being answered: where it is, what was said, what is answered
    overlapped   \* history: in this process two messages were answered side by side

conversationVars == <<tail, rows, hydrated, slot, overlapped>>

User(t) == <<"user", t>>
Assistant(r) == <<"assistant", r>>
Entries == {User(t) : t \in Texts} \cup {Assistant(r) : r \in Answers}
NoMessage == [step |-> "idle"]
Asked(step, t) == [step |-> step, text |-> t]
Replied(t, r) == [step |-> "saving", text |-> t, reply |-> r]

ConversationTypeOK ==
    /\ tail \in Seq(Entries) /\ Len(tail) <= MaxTail
    /\ rows \in Seq(Entries) /\ hydrated \in BOOLEAN /\ overlapped \in BOOLEAN
    /\ \A m \in Slots : \/ slot[m] = NoMessage
                        \/ \E t \in Texts : slot[m] \in {Asked("hydrating", t), Asked("asked", t), Asked("llm", t)}
                        \/ \E t \in Texts, r \in Answers : slot[m] = Replied(t, r)

ConversationInit ==
    /\ tail = <<>> /\ rows = <<>> /\ hydrated = FALSE
    /\ slot = [m \in Slots |-> NoMessage] /\ overlapped = FALSE

MutantLatest(seq, n) ==                            \* one entry too many
    IF Len(seq) <= n THEN seq ELSE SubSeq(seq, Len(seq) - n, Len(seq))
Latest(seq, n) == IF Len(seq) <= n THEN seq ELSE SubSeq(seq, Len(seq) - n + 1, Len(seq))
Remember(entries) == tail' = Latest(tail \o entries, MaxTail)

\* process(): the first message of a process marks the chat and reads the rows.
Ask(m, t) ==
    /\ slot[m] = NoMessage
    /\ slot' = [slot EXCEPT ![m] = Asked(IF hydrated \/ tail # <<>> THEN "asked" ELSE "hydrating", t)]
    /\ hydrated' = TRUE
    /\ overlapped' = (overlapped \/ \E n \in Slots : slot[n] # NoMessage)
    /\ UNCHANGED <<tail, rows>>

\* The rows are appended to whatever the tail has become; or the read failed.
Hydrate(m) ==
    /\ slot[m].step = "hydrating"
    /\ slot' = [slot EXCEPT ![m].step = "asked"]
    /\ \/ Remember(Latest(rows, MaxRaw))
       \/ UNCHANGED tail
    /\ UNCHANGED <<rows, hydrated, overlapped>>

\* No fast path answers: the text goes into the tail, and the model is called.
CallModel(m) ==
    /\ slot[m].step = "asked"
    /\ slot' = [slot EXCEPT ![m].step = "llm"]
    /\ Remember(<<User(slot[m].text)>>)
    /\ UNCHANGED <<rows, hydrated, overlapped>>

\* _finalize_reply: is the text the last thing the tail has, after the last reply?
MutantUserThere(t) ==                              \* looks past the last reply
    \E i \in DOMAIN tail : /\ tail[i] = User(t)
                           /\ \A j \in i + 1 .. Len(tail) : tail[j][1] = "assistant"
UserThere(t) == tail # <<>> /\ tail[Len(tail)] = User(t)

\* The same reply twice in a row is taken for one already recorded.
AlreadyRecorded(r) == tail # <<>> /\ tail[Len(tail)] = Assistant(r)

Exchange(t, r) ==
    IF AlreadyRecorded(r) THEN <<>>
    ELSE IF UserThere(t) THEN <<Assistant(r)>> ELSE <<User(t), Assistant(r)>>

\* A fast path or the model has an answer.
Finalize(m, r) ==
    /\ slot[m].step \in {"asked", "llm"}
    /\ Remember(Exchange(slot[m].text, r))
    /\ slot' = [slot EXCEPT ![m] = Replied(slot[m].text, r)]
    /\ UNCHANGED <<rows, hydrated, overlapped>>

\* save_exchange: two inserts and one commit, or an error that is logged
SaveExchange(m) ==
    /\ slot[m].step = "saving"
    /\ \/ /\ Len(rows) < 2 * MaxSaid
          /\ rows' = rows \o <<User(slot[m].text), Assistant(slot[m].reply)>>
       \/ UNCHANGED rows
    /\ slot' = [slot EXCEPT ![m] = NoMessage]
    /\ UNCHANGED <<tail, hydrated, overlapped>>

\* An exception, or the API's timeout, which cancels the task at whatever it awaits
GiveUpOn(m) ==
    /\ slot[m] # NoMessage
    /\ slot' = [slot EXCEPT ![m] = NoMessage]
    /\ UNCHANGED <<tail, rows, hydrated, overlapped>>

ConversationRestart ==
    /\ hydrated
    /\ tail' = <<>> /\ hydrated' = FALSE
    /\ slot' = [m \in Slots |-> NoMessage] /\ overlapped' = FALSE
    /\ UNCHANGED rows

ConversationNext ==
    \/ \E m \in Slots : \/ \E t \in Texts : Ask(m, t)
                        \/ Hydrate(m) \/ CallModel(m) \/ SaveExchange(m) \/ GiveUpOn(m)
                        \/ \E r \in Answers : Finalize(m, r)
    \/ ConversationRestart

ConversationSpec == ConversationInit /\ [][ConversationNext]_conversationVars

(***************************************************************************)
(* Properties                                                              *)
(***************************************************************************)
\* A chat whose messages are answered one at a time remembers them as a dialogue: every
\* answer stands right after the text it answers, whatever was given up, not saved, or
\* said twice, and across restarts.  A text that got the same answer as the one before it
\* is not remembered at all, and messages that overlap mix their entries.
EachAnswerHasItsText ==
    ~overlapped =>
        \A i \in 2..Len(tail) : tail[i][1] = "assistant" => tail[i - 1][1] = "user"
===============================================================================
