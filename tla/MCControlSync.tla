--------------------------- MODULE MCControlSync ---------------------------
(***************************************************************************)
(* ControlSync with panes that mount, claim and unmount against one view   *)
(* of another client, with and without the daemon's rings overrun.         *)
(***************************************************************************)
EXTENDS ControlSync, TLC

RegimesMC ==
    {[crowded |-> {}, turns |-> 4],
     [crowded |-> {"relay", "bus"}, turns |-> 3]}

\* Panes are only ever compared with one another.
Symmetry == Permutations(Mine)
=============================================================================
