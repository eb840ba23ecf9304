------------------------- MODULE AuthorizationCheck -------------------------
(***************************************************************************)
(* One call of afw_authorization_check (afw_authorization.c): the core or  *)
(* initial check of the authorization control, then the authorization      *)
(* handlers in their processing order, then the control's decision for     *)
(* "not applicable".  The list of handlers does not change meanwhile; what *)
(* happens when it does is in AuthorizationHandlers.                       *)
(***************************************************************************)
EXTENDS Integers, Sequences

CONSTANTS Cases,      (* what a call may find: records of mode, control,
                         handlers and enforce                             *)
          NoControl   (* env->authorization_control is NULL               *)

Modes == {"core", "intermediate", "user"}

(* What a check script or a handler makes of a request.  "other" is every
   result the handler loop ignores: none, notApplicable, indeterminate. *)
Decisive == {"permit", "deny"}
Answer == Decisive \cup {"other", "throws"}

NoCheck == "no check"

Control ==
    [core_authorization_check    : Answer \cup {NoCheck},
     initial_authorization_check : Answer \cup {NoCheck},
     check_intermediate_mode     : BOOLEAN,
     deny_if_not_applicable      : BOOLEAN]

(* A configured handler; only a running one is in the active list. *)
Handler ==
    [allow_permit_override : BOOLEAN,
     allow_deny_override   : BOOLEAN,
     running               : BOOLEAN,
     answer                : Answer]

Case ==
    [mode : Modes, control : Control \cup {NoControl},
     handlers : Seq(Handler), enforce : BOOLEAN]

ASSUME CasesAssumption == Cases \subseteq Case

VARIABLES
    call,        (* the case at hand                                       *)
    pc,          (* the stage of the call                                  *)
    position,    (* in the active list                                     *)
    decision,    (* decision_id                                            *)
    final,       (* final_result                                           *)
    consulted,   (* history: the positions whose handler was asked         *)
    outcome      (* "permitted" or "denied", for the caller                *)

vars == <<call, pc, position, decision, final, consulted, outcome>>

TypeOK ==
    /\ call \in Cases
    /\ pc \in {"called", "check", "handlers", "decided", "returned"}
    /\ position \in Nat \ {0}
    /\ decision \in Decisive \cup {"notApplicable", "indeterminate"}
    /\ final \in BOOLEAN
    /\ consulted \subseteq 1..Len(call.handlers)
    /\ outcome \in {"none", "permitted", "denied"}

Init ==
    /\ call \in Cases
    /\ pc = "called"
    /\ position = 1
    /\ decision = "notApplicable"
    /\ final = FALSE
    /\ consulted = {}
    /\ outcome = "none"

handlers == call.handlers
control == call.control
InCoreMode == call.mode = "core"

-----------------------------------------------------------------------------
(* The three conditions under which nothing is checked. *)
Bypassed ==
    control # NoControl =>
        \/ InCoreMode /\ control.core_authorization_check = NoCheck
        \/ call.mode = "intermediate" /\ ~control.check_intermediate_mode

Bypass ==
    /\ pc = "called"
    /\ Bypassed
    /\ pc' = "returned"
    /\ outcome' = "permitted"
    /\ UNCHANGED <<call, position, decision, final, consulted>>

StartChecks ==
    /\ pc = "called"
    /\ ~Bypassed
    /\ pc' = "check"
    /\ UNCHANGED <<call, position, decision, final, consulted, outcome>>

(* AFW_CATCH_UNHANDLED: whatever throws, the decision is indeterminate. *)
Catch ==
    /\ decision' = "indeterminate"
    /\ pc' = "decided"
    /\ UNCHANGED final

-----------------------------------------------------------------------------
(* The core check in core mode, else the initial check. *)
Check ==
    IF InCoreMode THEN control.core_authorization_check
                  ELSE control.initial_authorization_check

(* A check has to answer permit, deny or notApplicable (or nothing); the
   other results and errors throw. *)
EvaluateCheck ==
    /\ pc = "check"
    /\ CASE Check \in Decisive ->
              /\ decision' = Check
              /\ final' = TRUE
              /\ pc' = "decided"
         [] Check \in {NoCheck, "other"} ->
              /\ pc' = IF InCoreMode THEN "decided" ELSE "handlers"
              /\ UNCHANGED <<decision, final>>
         [] Check = "throws" -> Catch
    /\ UNCHANGED <<call, position, consulted, outcome>>

-----------------------------------------------------------------------------
(* The loop over the active list. *)

(* mutant: the two overrides are swapped *)
MayConsultSwapped(h) ==
    /\ decision = "permit" => h.allow_deny_override
    /\ decision = "deny" => h.allow_permit_override

(* mutant: the first decision stands *)
MayConsultUndecided(h) == ~final

MayConsult(h) ==
    /\ decision = "permit" => h.allow_permit_override
    /\ decision = "deny" => h.allow_deny_override

NextHandler ==
    /\ pc = "handlers"
    /\ position <= Len(handlers)

SkipHandler ==
    /\ NextHandler
    /\ ~handlers[position].running \/ ~MayConsult(handlers[position])
    /\ position' = position + 1
    /\ UNCHANGED <<call, pc, decision, final, consulted, outcome>>

ConsultHandler ==
    /\ NextHandler
    /\ handlers[position].running /\ MayConsult(handlers[position])
    /\ consulted' = consulted \cup {position}
    /\ position' = position + 1
    /\ CASE handlers[position].answer \in Decisive ->
              /\ decision' = handlers[position].answer
              /\ final' = TRUE
              /\ UNCHANGED pc
         [] handlers[position].answer = "other" ->
              UNCHANGED <<decision, final, pc>>
         [] handlers[position].answer = "throws" -> Catch
    /\ UNCHANGED <<call, outcome>>

EndHandlers ==
    /\ pc = "handlers"
    /\ position > Len(handlers)
    /\ pc' = "decided"
    /\ UNCHANGED <<call, position, decision, final, consulted, outcome>>

-----------------------------------------------------------------------------
(* mutant: the control has no decision for "not applicable" yet *)
FinalDecisionUnset ==
    IF ~final /\ decision # "indeterminate" THEN "unset" ELSE decision

(* mutant: a thrown error falls through to the default decision *)
FinalDecisionUncaught ==
    IF ~final
    THEN IF control.deny_if_not_applicable THEN "deny" ELSE "permit"
    ELSE decision

FinalDecision ==
    IF ~final /\ decision # "indeterminate"
    THEN IF control.deny_if_not_applicable THEN "deny" ELSE "permit"
    ELSE decision

(* The default for "not applicable", and the throw of a caller that enforces
   any decision but permit. *)
Return ==
    /\ pc = "decided"
    /\ decision' = FinalDecision
    /\ outcome' = IF call.enforce /\ decision' # "permit"
                  THEN "denied" ELSE "permitted"
    /\ pc' = "returned"
    /\ UNCHANGED <<call, position, final, consulted>>

Next ==
    \/ Bypass \/ StartChecks \/ EvaluateCheck
    \/ SkipHandler \/ ConsultHandler \/ EndHandlers
    \/ Return

Spec == Init /\ [][Next]_vars

-----------------------------------------------------------------------------
(* Properties *)

Decided == pc = "returned" /\ ~Bypassed

Answered(k, d) == k \in consulted /\ handlers[k].answer = d

(* The conf properties allowPermitOverride and allowDenyOverride: once a
   handler was asked and has permitted or denied, the call ends with another
   permit or deny only through a later handler that gives it and that has the
   matching override. *)
OverriddenOnlyByOverride ==
    \A k \in consulted, d \in Decisive :
        Decided /\ Answered(k, d) /\ decision \in Decisive \ {d}
            => \E m \in consulted :
                  /\ m > k
                  /\ Answered(m, decision)
                  /\ IF d = "permit" THEN handlers[m].allow_permit_override
                                     ELSE handlers[m].allow_deny_override

(* Nobody is left out: a running handler that was not asked comes after one
   that had decided and that it may not override, or after an error, or the
   control's own check was final. *)
SkippedForAReason ==
    \A k \in 1..Len(handlers) :
        Decided /\ handlers[k].running /\ k \notin consulted
            => \/ InCoreMode \/ Check \in Decisive \cup {"throws"}
               \/ \E m \in consulted : handlers[m].answer = "throws" /\ m < k
               \/ \E m \in consulted : m < k /\
                     \/ Answered(m, "permit") /\ ~handlers[k].allow_permit_override
                     \/ Answered(m, "deny") /\ ~handlers[k].allow_deny_override

(* The call fails closed: with an error anywhere among what was evaluated, an
   enforcing caller is denied, and without one it is permitted only if somebody
   permitted, or nobody denied and the control does not deny by default. *)
FailsClosed ==
    Decided /\ call.enforce /\ outcome = "permitted"
        => /\ Check # "throws"
           /\ \A k \in consulted : handlers[k].answer # "throws"
           /\ \/ Check = "permit"
              \/ \E k \in consulted : Answered(k, "permit")
              \/ /\ Check # "deny"
                 /\ \A k \in consulted : ~Answered(k, "deny")
                 /\ ~control.deny_if_not_applicable
-----------------------------------------------------------------------------
(* The inductive invariant behind those properties. *)

Evaluated == pc \in {"handlers", "decided", "returned"} /\ ~Bypassed

(* Nothing is known before the control's own check, and it comes first: in
   core mode, or when it is final, no handler is asked. *)
CheckComesFirst ==
    /\ pc \in {"called", "check"} \/ Bypassed =>
          position = 1 /\ decision = "notApplicable" /\ ~final /\ consulted = {}
    /\ pc \in {"check", "decided"} => ~Bypassed
    /\ pc = "handlers" \/ consulted # {} =>
          ~Bypassed /\ ~InCoreMode /\ Check \in {NoCheck, "other"}
    /\ Evaluated /\ Check \in Decisive => final /\ decision = Check
    /\ Evaluated /\ Check = "throws" => decision = "indeterminate"

(* An error ends the evaluation. *)
ErrorIsLast ==
    /\ pc = "handlers" => decision # "indeterminate"
    /\ \A k \in consulted :
          handlers[k].answer = "throws" => decision = "indeterminate"

(* Once there is a decision, it is that of the check or of a handler; until
   then no handler has permitted or denied. *)
DecisionHasSource ==
    /\ final /\ decision # "indeterminate" =>
          /\ decision \in Decisive
          /\ \/ Check = decision
             \/ \E k \in consulted : Answered(k, decision)
    /\ ~final =>
          /\ \A k \in consulted : handlers[k].answer \notin Decisive
          /\ pc # "returned" => decision \in {"notApplicable", "indeterminate"}

Overridden ==
    \A k \in consulted, d \in Decisive :
        Answered(k, d) /\ decision \in Decisive \ {d}
            => \E m \in consulted :
                  /\ m > k
                  /\ Answered(m, decision)
                  /\ IF d = "permit" THEN handlers[m].allow_permit_override
                                     ELSE handlers[m].allow_deny_override

(* A handler the loop has passed, and why. *)
PassedForAReason ==
    \A k \in 1..Len(handlers) :
        /\ k < position
        /\ handlers[k].running /\ k \notin consulted
        => \E m \in consulted : m < k /\
              \/ Answered(m, "permit") /\ ~handlers[k].allow_permit_override
              \/ Answered(m, "deny") /\ ~handlers[k].allow_deny_override

(* The loop passes every handler unless something ends it. *)
LoopEnds ==
    pc \in {"decided", "returned"} /\ ~Bypassed =>
        \/ InCoreMode \/ Check \in Decisive \cup {"throws"}
        \/ \E m \in consulted : handlers[m].answer = "throws" /\ m = position - 1
        \/ position > Len(handlers)

CheckInv ==
    /\ TypeOK
    /\ \A k \in consulted : k < position
    /\ CheckComesFirst
    /\ ErrorIsLast
    /\ DecisionHasSource
    /\ Overridden
    /\ PassedForAReason
    /\ LoopEnds
    /\ FailsClosed
=============================================================================
