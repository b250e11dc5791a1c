----------------------------- MODULE MCSettlement -----------------------------
EXTENDS Settlement
===============================================================================
