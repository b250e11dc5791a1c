---------------------------- MODULE MCApprovalQueue ----------------------------
EXTENDS ApprovalQueue, TLC

Interchangeable == Permutations(Requests) \cup Permutations(Deciders)
===============================================================================
