---------------------------- MODULE MCPaperBroker ---------------------------
EXTENDS PaperBroker, TLC

CONSTANTS btc, eth, sol

Symmetry == Permutations(Symbol)

=============================================================================
