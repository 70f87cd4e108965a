------------------------------ MODULE BookView ------------------------------
(***************************************************************************)
(* What a local copy of an exchange's order book promises its readers,     *)
(* without saying where updates come from: it is either silent or shows    *)
(* some levels of the book, all as they were after one of the exchange's   *)
(* updates; while it is not silent it only goes forward and loses none of  *)
(* the levels it shows.                                                    *)
(***************************************************************************)
EXTENDS Naturals

CONSTANTS
    Update,     \* the exchange's updates
    Level,      \* the levels of its book
    Depth       \* its book after each of them

VARIABLE view

Silent == [synced |-> FALSE]
BookAfter(n, S) == [synced |-> TRUE, id |-> n, book |-> [l \in S |-> Depth[n][l]]]

Init == view = Silent

(* The view opens on any update, however old; it never mixes two.          *)
Open ==
    /\ view = Silent
    /\ \E n \in Update, S \in SUBSET Level : view' = BookAfter(n, S)

(* Updates may be skipped, as long as none is half applied.                *)
Advance ==
    \E n, m \in Update, S, T \in SUBSET Level :
        /\ n < m /\ S \subseteq T
        /\ view = BookAfter(n, S) /\ view' = BookAfter(m, T)

Close == view' = Silent

Next == Open \/ Advance \/ Close
Spec == Init /\ [][Next]_view
=============================================================================
