-------------------------------- MODULE Mailbox --------------------------------
(***************************************************************************)
(* What the message bus promises the modules that send through it, however  *)
(* it queues, retries, buries and replays: a message that was lodged stays   *)
(* on record until it was served, and one that was struck off the record is  *)
(* not served again.  A message one of whose writes raised is in doubt: of   *)
(* those only the first half is promised.  MessageRouter is shown to         *)
(* implement this module.                                                    *)
(***************************************************************************)
CONSTANT Messages

VARIABLES
    sent,     \* the messages there are
    lodged,   \* those whose senders were told that they are on record
    record,   \* those that are
    served,   \* those that a handler was done with, once or more
    struck,   \* those that were taken off the record
    doubted   \* those in doubt

mailboxVars == <<sent, lodged, record, served, struck, doubted>>

MailboxInit ==
    /\ sent = {} /\ lodged = {} /\ record = {}
    /\ served = {} /\ struck = {} /\ doubted = {}

\* What may still be served, and put on record once more
Open(m) == m \in sent /\ (m \in struck => m \in doubted)

SendOne(m) ==
    /\ m \notin sent /\ sent' = sent \cup {m}
    /\ UNCHANGED <<lodged, record, served, struck, doubted>>

Lodge(m) ==
    /\ Open(m)
    /\ lodged' = lodged \cup {m} /\ record' = record \cup {m}
    /\ UNCHANGED <<sent, served, struck, doubted>>

\* A handler may answer with a message.
Serve(m, answer) ==
    /\ Open(m) /\ served' = served \cup {m}
    /\ answer \cap sent = {} /\ sent' = sent \cup answer
    /\ UNCHANGED <<lodged, record, struck, doubted>>

Strike(m) ==
    /\ m \in served
    /\ record' = record \ {m} /\ struck' = struck \cup {m}
    /\ UNCHANGED <<sent, lodged, served, doubted>>

\* A write raises: the message it was about is in doubt, and so may the one be whose
\* delivery waited for it.
Doubt(M) ==
    /\ doubted' = doubted \cup M
    /\ UNCHANGED <<sent, lodged, record, served, struck>>

MailboxNext ==
    \/ \E m \in Messages : SendOne(m) \/ Lodge(m) \/ Strike(m)
    \/ \E m \in Messages, answer \in {{}} \cup {{a} : a \in Messages} : Serve(m, answer)
    \/ \E m, n \in Messages : Doubt({m, n})

MailboxSpec == MailboxInit /\ [][MailboxNext]_mailboxVars
===============================================================================
