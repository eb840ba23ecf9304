-------------------------- MODULE MCAdaptorAnchor --------------------------
(* The instance of AdaptorAnchor that TLC checks. *)
EXTENDS AdaptorAnchor, TLC

(* Clients and instances are interchangeable; used with safety only. *)
Symmetry == Permutations(Clients) \cup Permutations(Instances)
=============================================================================
