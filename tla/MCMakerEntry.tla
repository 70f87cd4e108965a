---------------------------- MODULE MCMakerEntry ----------------------------
EXTENDS MakerEntry

ThreeOrders == 1..3
=============================================================================
