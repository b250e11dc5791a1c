----------------------------- MODULE MCOperatorWork -----------------------------
EXTENDS OperatorWork

\* A description only, with the review gate; a plan of one's own, without it; and one
\* with the gate and nothing but optional criteria
MCIntakes == {[plan |-> "none", gated |-> TRUE, optional |-> FALSE],
              [plan |-> "given", gated |-> FALSE, optional |-> FALSE],
              [plan |-> "given", gated |-> TRUE, optional |-> TRUE]}
===============================================================================
