----------------------------- MODULE MCCredits -----------------------------
EXTENDS Credits

\* One worker: the actors are its signup thread and the API.
CONSTANT w1

\* Administrators and workers may give any integer.
MCAmounts == {2, -4}
MCAmountsOnChain == {1, -1}
=============================================================================
