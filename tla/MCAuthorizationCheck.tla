------------------------ MODULE MCAuthorizationCheck ------------------------
(* The calls that TLC checks. *)
EXTENDS AuthorizationCheck

CONSTANT MaxHandlers     (* bound: handlers in the list *)

UserCall(c, hs) ==
    [mode |-> "user", control |-> c, handlers |-> hs, enforce |-> TRUE]

DefaultControls ==
    {c \in Control : /\ c.core_authorization_check = NoCheck
                     /\ c.initial_authorization_check = NoCheck
                     /\ ~c.check_intermediate_mode}

(* Every list of running handlers, in the default control ... *)
LongLists ==
    {UserCall(c, hs) :
        c \in DefaultControls,
        hs \in UNION {[1..n -> {h \in Handler : h.running}] :
                        n \in 0..MaxHandlers}}

(* ... and every mode and control, with at most one handler of any kind. *)
AllControls ==
    {x \in [mode : Modes, control : Control \cup {NoControl},
            handlers : {<<>>} \cup {<<h>> : h \in Handler},
            enforce : BOOLEAN] :
        x.enforce \/ x.handlers = <<>>}

MCCases == LongLists \cup AllControls
=============================================================================
