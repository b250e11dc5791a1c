----------------------------- MODULE MCMessageRouter -----------------------------
EXTENDS MessageRouter

CONSTANTS ping, task, brain

AllToBrain == [m \in Messages |-> brain]

\* Entries of one priority are told apart by their sequence numbers only.
AllNormal == [m \in Messages |-> 2]
===============================================================================
