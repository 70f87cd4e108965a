---------------------------- MODULE MCLiveBroker ----------------------------
EXTENDS LiveBroker

TwoLists == 1..2
ThreeLists == 1..3
Both == BOOLEAN
Never == {FALSE}
=============================================================================
