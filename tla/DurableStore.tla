---------------------------- MODULE DurableStore ----------------------------
(***************************************************************************)
(* What the state on disk promises, without files, queues or restarts: as  *)
(* long as nothing on disk is damaged it only grows, and whoever was told  *)
(* that a save is done was told so of something that is there.             *)
(***************************************************************************)
EXTENDS Naturals

VARIABLES
    stored,     \* what is on disk: operator's changes, booked trades, the model
    promised,   \* what finished saves were for
    whole       \* nothing on disk was ever damaged

store == <<stored, promised, whole>>

Nothing == [acks |-> 0, journal |-> {}, model |-> {}]

Within(p, q) ==
    /\ p.acks <= q.acks
    /\ p.journal \subseteq q.journal
    /\ p.model \subseteq q.model

Init == stored = Nothing /\ promised = Nothing /\ whole = TRUE

Write == Within(stored, stored') /\ promised' = promised

(* Only what is stored is promised, and no promise is taken back.          *)
Promise == stored' = stored /\ Within(promised, promised') /\ Within(promised', stored)

Damage == whole' = FALSE

Next == (whole /\ whole' = TRUE /\ (Write \/ Promise)) \/ Damage
Spec == Init /\ [][Next]_store
=============================================================================
