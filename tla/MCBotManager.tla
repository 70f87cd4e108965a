----------------------------- MODULE MCBotManager -----------------------------
EXTENDS BotManager, TLC

BotSymmetry == Permutations(Bot)
=============================================================================
