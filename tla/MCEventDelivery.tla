--------------------------- MODULE MCEventDelivery ---------------------------
(* Small instances of EventDelivery. *)
EXTENDS EventDelivery, TLC

Symmetry == Permutations(Workers)
=============================================================================
