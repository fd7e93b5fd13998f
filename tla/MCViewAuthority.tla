-------------------------- MODULE MCViewAuthority --------------------------
(***************************************************************************)
(* ViewAuthority on a small session: two views and two clients, so that a  *)
(* view can be disputed, taken over and detached while the other controls. *)
(***************************************************************************)
EXTENDS ViewAuthority, TLC

\* A view, a client or a size is only ever compared with another.
Symmetry ==
    Permutations(Views) \cup Permutations(Clients) \cup Permutations(Sizes)
=============================================================================
