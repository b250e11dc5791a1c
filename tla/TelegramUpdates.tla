---------------------------- MODULE TelegramUpdates ----------------------------
(***************************************************************************)
(* social/telegram_bot.py: updates come from long polls, in the order of      *)
(* their identifiers; each becomes a task, and the tasks of one chat take its  *)
(* lock in turn and hold it through the callback and the reply.  The offset   *)
(* is on disk before a task exists, so a crash loses the messages in flight   *)
(* rather than answering them twice - unless that write failed.  Telegram     *)
(* drops what lies below the offset of a getUpdates it has seen.              *)
(***************************************************************************)
EXTENDS Naturals, Sequences

CONSTANTS TgChats,      \* chats
          UpdateChats   \* the chat of each update that will ever arrive, in order

ASSUME TelegramAssumption == UpdateChats \in Seq(TgChats)

VARIABLES
    arrived,    \* updates 1..arrived have reached the server
    offset,     \* _last_update_id
    saved,      \* .last_update_id
    waiting,    \* the tasks of a chat that have not got its lock, in order
    answering,  \* the task in the callback, 0 for none
    sending,    \* the tasks whose reply is on its way
    delivered,  \* the replies a chat has received from this process, in order
    confirmed,  \* the server has dropped the updates 1..confirmed
    unsaved     \* history: updates of the batches whose last identifier failed to reach the disk

telegramVars ==
    <<arrived, offset, saved, waiting, answering, sending, delivered, confirmed, unsaved>>

Updates == 1..Len(UpdateChats)
\* Those after update number `from' that are of chat c, in order
InChat(from, to, c) ==
    LET upTo[u \in from..to] ==
            IF u = from THEN <<>>
            ELSE IF UpdateChats[u] = c THEN Append(upTo[u - 1], u)
            ELSE upTo[u - 1]
    IN upTo[to]

TelegramTypeOK ==
    /\ {arrived, offset, saved, confirmed} \subseteq Updates \cup {0}
    /\ waiting \in [TgChats -> Seq(Updates)] /\ delivered \in [TgChats -> Seq(Updates)]
    /\ answering \in [TgChats -> Updates \cup {0}]
    /\ sending \in [TgChats -> SUBSET Updates]
    /\ unsaved \subseteq Updates

TelegramInit ==
    /\ arrived = 0 /\ offset = 0 /\ saved = 0 /\ confirmed = 0 /\ unsaved = {}
    /\ waiting = [c \in TgChats |-> <<>>] /\ delivered = [c \in TgChats |-> <<>>]
    /\ answering = [c \in TgChats |-> 0] /\ sending = [c \in TgChats |-> {}]

Arrive ==
    /\ arrived < Len(UpdateChats)
    /\ arrived' = arrived + 1
    /\ UNCHANGED <<offset, saved, waiting, answering, sending, delivered, confirmed, unsaved>>

\* getUpdates reaches the server, which drops what lies below its offset; the answer may
\* still be lost.
AskServer ==
    /\ confirmed < offset /\ confirmed' = offset
    /\ UNCHANGED <<arrived, offset, saved, waiting, answering, sending, delivered, unsaved>>

\* What the file may hold after a batch: the last identifier; an earlier one, or what it
\* held, when the later writes failed at open; nothing, which a new process reads as 0,
\* when one failed after it had truncated the file.
FileHolds == {saved, 0} \cup (confirmed + 1 .. arrived)

\* _poll_updates: the loop over a batch has no await.  A message that is not for the bot
\* makes a task that ends at once; nothing here tells it from one that gets no reply.
Poll ==
    /\ offset <= confirmed /\ confirmed < arrived
    /\ offset' = arrived
    /\ saved' \in FileHolds
    /\ unsaved' = IF saved' = arrived THEN unsaved ELSE unsaved \cup (confirmed + 1 .. arrived)
    /\ waiting' = [c \in TgChats |-> waiting[c] \o InChat(confirmed, arrived, c)]
    /\ UNCHANGED <<arrived, answering, sending, delivered, confirmed>>

\* The first in line takes the chat's lock.
MutantUnlocked(c) == answering[c] = 0                   \* released before the reply
Unlocked(c) == answering[c] = 0 /\ sending[c] = {}
Take(c) ==
    /\ Unlocked(c) /\ waiting[c] # <<>>
    /\ answering' = [answering EXCEPT ![c] = Head(waiting[c])]
    /\ waiting' = [waiting EXCEPT ![c] = Tail(@)]
    /\ UNCHANGED <<arrived, offset, saved, sending, delivered, confirmed, unsaved>>

\* The callback returns a reply, returns none, or raises; an Exception is a reply too.
Reply(c) ==
    /\ answering[c] # 0
    /\ answering' = [answering EXCEPT ![c] = 0]
    /\ \/ sending' = [sending EXCEPT ![c] = @ \cup {answering[c]}]
       \/ UNCHANGED sending
    /\ UNCHANGED <<arrived, offset, saved, waiting, delivered, confirmed, unsaved>>

\* send_message never raises: what it could not send is dropped.
Send(c) ==
    \E u \in sending[c] :
        /\ sending' = [sending EXCEPT ![c] = @ \ {u}]
        /\ \/ delivered' = [delivered EXCEPT ![c] = Append(@, u)]
           \/ UNCHANGED delivered
        /\ UNCHANGED <<arrived, offset, saved, waiting, answering, confirmed, unsaved>>

\* A new process polls from the offset on disk; the server sends what it has not dropped.
TelegramRestart ==
    /\ offset > 0 /\ offset' = saved
    /\ waiting' = [c \in TgChats |-> <<>>] /\ delivered' = [c \in TgChats |-> <<>>]
    /\ answering' = [c \in TgChats |-> 0] /\ sending' = [c \in TgChats |-> {}]
    /\ UNCHANGED <<arrived, saved, confirmed, unsaved>>

TelegramNext ==
    \/ Arrive \/ AskServer \/ Poll \/ TelegramRestart
    \/ \E c \in TgChats : Take(c) \/ Reply(c) \/ Send(c)

TelegramSpec == TelegramInit /\ [][TelegramNext]_telegramVars

(***************************************************************************)
(* Properties                                                              *)
(***************************************************************************)
\* Everything a chat has been told, is being told and will be told, by one process
Queued(c) ==
    delivered[c] \o (IF answering[c] = 0 THEN <<>> ELSE <<answering[c]>>) \o waiting[c]

\* What a process that started now would be sent a second time
ReadAgain == {u \in Updates : saved < u /\ confirmed < u /\ u <= offset}

\* Replies reach a chat in the order of its messages (_get_chat_lock), each once: what
\* was sent, is under way and waits is increasing, and a reply on its way comes after
\* what the chat was sent and before what waits.  A new process reads again, at most, the
\* one batch the server was not asked to drop, and only when its last write failed: a
\* file left empty does not bring back the batches before.
RepliesInOrder ==
    /\ ReadAgain \subseteq unsaved
    /\ \A c \in TgChats :
        /\ \A i, j \in DOMAIN Queued(c) : i < j => Queued(c)[i] < Queued(c)[j]
        /\ \A u \in sending[c] : \A i \in DOMAIN Queued(c) :
             IF i <= Len(delivered[c]) THEN Queued(c)[i] < u ELSE u < Queued(c)[i]
===============================================================================
