--------------------------- MODULE MCLocalOrderBook ---------------------------
EXTENDS LocalOrderBook

(* Two levels over three updates: one changes and changes back, the other   *)
(* disappears, so a lost, repeated or reordered update leaves a trace.  The *)
(* snapshot's limit may cut the far level off.                              *)
MCDepth == [n \in 0..MaxId |->
              [l \in Level |-> IF l = "near" THEN (n % 2) + 1
                               ELSE IF n < 2 THEN n + 1 ELSE 0]]
=============================================================================
