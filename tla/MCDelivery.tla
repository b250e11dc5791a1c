------------------------------- MODULE MCDelivery -------------------------------
EXTENDS Delivery, TLC

Interchangeable ==
    Permutations(Requests) \cup Permutations(Deciders) \cup Permutations(Senders)
===============================================================================
