---------------------------- MODULE Incarnations ----------------------------
(***************************************************************************)
(* What a view authority promises, with everything but incarnations and    *)
(* the controller's seat forgotten.                                        *)
(*                                                                         *)
(* An attachment is an incarnation: it is born once, under a number never  *)
(* used before, and ends once.  Incarnations may replace one another.  One *)
(* living incarnation at a time may hold the seat; the seat empties in the *)
(* very step its holder ends, and every change of the seat, and nothing    *)
(* else, advances the turn that compare-and-swap claims name.              *)
(***************************************************************************)
EXTENDS Integers

VARIABLES
    live,    \* the incarnations that are attached now
    born,    \* how many incarnations have ever been born
    seat,    \* the incarnation holding control; 0 when nobody does
    turn     \* changes of the seat so far

abstract == <<live, born, seat, turn>>

Init ==
    /\ live = {}
    /\ born = 0
    /\ seat = 0
    /\ turn = 1

\* The seat after the incarnations in `ending` are gone.
Vacate(ending) ==
    IF seat \in ending
    THEN seat' = 0 /\ turn' = turn + 1
    ELSE UNCHANGED <<seat, turn>>

\* A new incarnation is born, replacing those in `ending` (none, or one).
Begin(ending) ==
    /\ born' = born + 1
    /\ live' = (live \ ending) \cup {born + 1}
    /\ Vacate(ending)

End(i) ==
    /\ live' = live \ {i}
    /\ Vacate({i})
    /\ UNCHANGED born

\* A living incarnation takes the seat, from whoever had it.
Take(i) ==
    /\ seat' = i
    /\ turn' = turn + 1
    /\ UNCHANGED <<live, born>>

Next ==
    \/ Begin({})
    \/ \E i \in live : Begin({i}) \/ End(i) \/ Take(i)

Spec == Init /\ [][Next]_abstract
=============================================================================
