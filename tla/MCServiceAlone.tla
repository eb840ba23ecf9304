--------------------------- MODULE MCServiceAlone ---------------------------
(* The instance of Service that TLC checks for what holds. *)
EXTENDS ServiceAlone, TLC
=============================================================================
