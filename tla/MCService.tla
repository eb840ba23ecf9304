------------------------------ MODULE MCService ------------------------------
(* The instance of Service that TLC checks. *)
EXTENDS Service, TLC

(* Threads are interchangeable, and so are structs; used with safety only. *)
Symmetry == Permutations(Clients) \cup Permutations(Instances)
=============================================================================
