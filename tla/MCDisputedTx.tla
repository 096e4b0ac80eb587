---------------------------- MODULE MCDisputedTx ----------------------------
EXTENDS DisputedTx

\* One value on each side of every threshold of the avalanche.
MCPercentTimes == {0, 49, 50, 84, 85, 199, 200}
=============================================================================
