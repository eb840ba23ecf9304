----------------------- MODULE AuthorizationCheckProofs -----------------------
(***************************************************************************)
(* What TLAPS proves about afw_authorization_check, for every control, any *)
(* number of handlers and whatever they answer: an override needs the flag *)
(* of the handler that overrides, no running handler is passed over        *)
(* without a reason, and an error never ends in a permit.                  *)
(***************************************************************************)
EXTENDS AuthorizationCheck, TLAPS

(* What a case is made of. *)
LEMMA CaseFields ==
    ASSUME TypeOK
    PROVE  /\ handlers \in Seq(Handler) /\ Len(handlers) \in Nat
           /\ \A k \in 1..Len(handlers) :
                handlers[k] \in Handler /\ handlers[k].answer \in Answer
           /\ call.enforce \in BOOLEAN
           /\ control # NoControl => Check \in Answer \cup {NoCheck}
<1>1. call \in Case
    BY CasesAssumption DEF TypeOK
<1>2. handlers \in Seq(Handler) /\ control \in Control \cup {NoControl}
    BY <1>1 DEF Case, handlers, control
<1>3. \A k \in 1..Len(handlers) : handlers[k] \in Handler
    BY <1>2
<1>4. Len(handlers) \in Nat
    BY <1>2
<1>5. \A k \in 1..Len(handlers) : handlers[k].answer \in Answer
    BY <1>3 DEF Handler
<1>6. QED
    BY <1>1, <1>2, <1>3, <1>4, <1>5 DEF Case, Control, Check

(* A call is about one case, so that these do not change. *)
LEMMA CaseConstant ==
    ASSUME call' = call
    PROVE  /\ handlers' = handlers /\ control' = control
           /\ Check' = Check /\ (InCoreMode' <=> InCoreMode)
           /\ (Bypassed' <=> Bypassed)
           /\ \A k, d : Answered(k, d)' <=> k \in consulted' /\ handlers[k].answer = d
BY DEF handlers, control, Check, InCoreMode, Bypassed, Answered

LEMMA CheckInitInv == Init => CheckInv
<1> SUFFICES ASSUME Init PROVE CheckInv
    OBVIOUS
<1>1. TypeOK
  <2>1. consulted \subseteq 1..Len(call.handlers)
    BY ZenonT(20) DEF Init
  <2>2. final \in BOOLEAN /\ decision \in Decisive \cup {"notApplicable", "indeterminate"}
    BY DEF Init
  <2>3. QED
    BY <2>1, <2>2 DEF Init, TypeOK
<1>2. Len(handlers) \in Nat
    BY <1>1, CaseFields
<1>3. CheckComesFirst /\ ErrorIsLast /\ DecisionHasSource /\ Overridden /\ LoopEnds
    BY DEF Init, CheckComesFirst, ErrorIsLast, DecisionHasSource, Overridden,
           LoopEnds, Evaluated, Decisive
<1>4. PassedForAReason /\ FailsClosed
    BY <1>2 DEF Init, PassedForAReason, FailsClosed, Decided
<1>5. QED
    BY <1>1, <1>3, <1>4 DEF CheckInv, Init

(* Bypass and StartChecks. *)
LEMMA CalledStep ==
    ASSUME CheckInv, Bypass \/ StartChecks
    PROVE  CheckInv'
<1> USE DEF CheckInv
<1>1. /\ UNCHANGED <<call, position, decision, final, consulted>>
      /\ pc = "called" /\ consulted = {} /\ position = 1
      /\ pc' \in {"check", "returned"} /\ outcome' \in {"none", "permitted", "denied"}
      /\ pc' = "returned" <=> Bypassed
    BY DEF Bypass, StartChecks, CheckComesFirst, TypeOK
<1>2. TypeOK'
    BY <1>1 DEF TypeOK
<1>3. Len(handlers) \in Nat
    BY CaseFields
<1>4. (CheckComesFirst /\ ErrorIsLast /\ DecisionHasSource /\ Overridden
       /\ LoopEnds /\ FailsClosed)'
    BY <1>1, CaseConstant DEF CheckComesFirst, ErrorIsLast, DecisionHasSource,
       Overridden, LoopEnds, Evaluated, Decided, FailsClosed
<1>5. PassedForAReason'
    BY <1>1, <1>3, CaseConstant DEF PassedForAReason
<1>6. QED
    BY <1>1, <1>2, <1>4, <1>5

LEMMA EvaluateCheckStep ==
    ASSUME CheckInv, EvaluateCheck
    PROVE  CheckInv'
<1> USE DEF CheckInv
<1>1. /\ UNCHANGED <<call, position, consulted, outcome>>
      /\ pc = "check" /\ ~Bypassed /\ consulted = {} /\ position = 1 /\ ~final
      /\ decision = "notApplicable"
    BY DEF EvaluateCheck, CheckComesFirst
<1>2. control # NoControl /\ Check \in Answer \cup {NoCheck}
    BY <1>1, CaseFields DEF Bypassed
<1>3. \/ /\ Check \in Decisive /\ decision' = Check /\ final' = TRUE
         /\ pc' = "decided"
      \/ /\ Check \in {NoCheck, "other"} /\ UNCHANGED <<decision, final>>
         /\ pc' = IF InCoreMode THEN "decided" ELSE "handlers"
      \/ /\ Check = "throws" /\ decision' = "indeterminate" /\ final' = final
         /\ pc' = "decided"
    BY <1>2 DEF EvaluateCheck, Catch, Answer, Decisive, NoCheck
<1>4. TypeOK'
    BY <1>1, <1>3 DEF TypeOK, Decisive
<1>5. Len(handlers) \in Nat
    BY CaseFields
<1>6. CheckComesFirst'
    BY <1>1, <1>2, <1>3, CaseConstant
    DEF CheckComesFirst, Evaluated, Decisive, NoCheck
<1>7. (ErrorIsLast /\ DecisionHasSource /\ Overridden /\ LoopEnds /\ FailsClosed)'
    BY <1>1, <1>3, CaseConstant DEF ErrorIsLast, DecisionHasSource,
       Overridden, LoopEnds, Decided, FailsClosed, Decisive
<1>8. PassedForAReason'
    BY <1>1, <1>5, CaseConstant DEF PassedForAReason
<1>9. QED
    BY <1>1, <1>4, <1>6, <1>7, <1>8

-----------------------------------------------------------------------------
(* The loop.  A step of it that asks nobody. *)
LEMMA SkipHandlerStep ==
    ASSUME CheckInv, SkipHandler
    PROVE  CheckInv'
<1> USE DEF CheckInv
<1> DEFINE p == position
<1>1. /\ UNCHANGED <<call, pc, decision, final, consulted, outcome>>
      /\ pc = "handlers" /\ p \in 1..Len(handlers) /\ position' = p + 1
      /\ ~handlers[p].running \/ ~MayConsult(handlers[p])
      /\ Len(handlers) \in Nat /\ p \in Nat \ {0}
    BY CaseFields DEF SkipHandler, NextHandler, TypeOK
<1>2. TypeOK' /\ (\A k \in consulted : k < position)'
    BY <1>1 DEF TypeOK
<1>3. \A k \in consulted : k < p /\ k \in Nat
    BY <1>1 DEF TypeOK
<1>4. ~Bypassed /\ ~InCoreMode /\ Check \in {NoCheck, "other"}
      /\ decision # "indeterminate"
    BY <1>1 DEF CheckComesFirst, ErrorIsLast
<1>5. (CheckComesFirst /\ ErrorIsLast /\ DecisionHasSource /\ Overridden
       /\ LoopEnds /\ FailsClosed)'
  <2>1. CheckComesFirst'
    BY <1>1, <1>4, CaseConstant DEF CheckComesFirst, Evaluated
  <2>2. ErrorIsLast'
    BY <1>1, CaseConstant DEF ErrorIsLast
  <2>3. DecisionHasSource'
    BY <1>1, CaseConstant DEF DecisionHasSource, Answered
  <2>4. Overridden'
    BY <1>1, CaseConstant DEF Overridden, Answered
  <2>5. LoopEnds' /\ FailsClosed'
    BY <1>1, CaseConstant DEF LoopEnds, FailsClosed, Decided
  <2>6. QED
    BY <2>1, <2>2, <2>3, <2>4, <2>5
<1>6. ASSUME handlers[p].running
      PROVE  \E m \in consulted : m < p /\
              \/ Answered(m, "permit") /\ ~handlers[p].allow_permit_override
              \/ Answered(m, "deny") /\ ~handlers[p].allow_deny_override
  <2>1. \/ decision = "permit" /\ ~handlers[p].allow_permit_override
        \/ decision = "deny" /\ ~handlers[p].allow_deny_override
    BY <1>1, <1>6 DEF MayConsult
  <2>2. final /\ Check # decision
    BY <2>1, <1>4, <1>1 DEF DecisionHasSource, NoCheck
  <2>3. PICK m \in consulted : Answered(m, decision)
    BY <2>2, <1>4 DEF DecisionHasSource
  <2>4. QED
    BY <2>1, <2>3, <1>3
<1>7. PassedForAReason'
  <2> SUFFICES ASSUME NEW k \in 1..Len(handlers), k < p + 1,
                      handlers[k].running, k \notin consulted
               PROVE  \E m \in consulted : m < k /\
                        \/ Answered(m, "permit")
                            /\ ~handlers[k].allow_permit_override
                        \/ Answered(m, "deny")
                            /\ ~handlers[k].allow_deny_override
    BY <1>1, CaseConstant DEF PassedForAReason, Answered
  <2>1. CASE k = p
    BY <2>1, <1>6
  <2>2. CASE k < p
    BY <2>2 DEF PassedForAReason
  <2>3. QED
    BY <2>1, <2>2, <1>1
<1>8. QED
    BY <1>2, <1>5, <1>7

(* A step of it that asks the handler at the position. *)
LEMMA ConsultHandlerStep ==
    ASSUME CheckInv, ConsultHandler
    PROVE  CheckInv'
<1> USE DEF CheckInv
<1> DEFINE p == position
           h == handlers[p]
<1>1. /\ UNCHANGED <<call, outcome>>
      /\ pc = "handlers" /\ p \in 1..Len(handlers) /\ position' = p + 1
      /\ h.running /\ MayConsult(h)
      /\ consulted' = consulted \cup {p}
      /\ Len(handlers) \in Nat /\ p \in Nat \ {0}
      /\ h.answer \in Answer
    BY CaseFields DEF ConsultHandler, NextHandler, TypeOK
<1>2. \/ /\ h.answer \in Decisive /\ decision' = h.answer /\ final' = TRUE
         /\ pc' = pc
      \/ /\ h.answer = "other" /\ UNCHANGED <<decision, final, pc>>
      \/ /\ h.answer = "throws" /\ decision' = "indeterminate"
         /\ final' = final /\ pc' = "decided"
    BY <1>1 DEF ConsultHandler, Catch, Answer, Decisive
<1>3. TypeOK' /\ (\A k \in consulted : k < position)'
  <2>1. consulted' \subseteq 1..Len(call'.handlers)
    BY <1>1 DEF TypeOK, handlers
  <2>2. decision' \in Decisive \cup {"notApplicable", "indeterminate"}
        /\ final' \in BOOLEAN
    BY <1>2 DEF TypeOK
  <2>3. call' \in Cases /\ pc' \in {"handlers", "decided"}
        /\ position' \in Nat \ {0} /\ outcome' \in {"none", "permitted", "denied"}
    BY <1>1, <1>2 DEF TypeOK
  <2>4. TypeOK'
    BY <2>1, <2>2, <2>3 DEF TypeOK
  <2>5. (\A k \in consulted : k < position)'
    BY <1>1 DEF TypeOK
  <2>6. QED
    BY <2>4, <2>5
<1>4. \A k \in consulted : k < p /\ k \in Nat /\ k \in 1..Len(handlers)
    BY <1>1 DEF TypeOK, handlers
<1>5. /\ ~Bypassed /\ ~InCoreMode /\ Check \in {NoCheck, "other"}
      /\ decision # "indeterminate"
      /\ \A k \in consulted : handlers[k].answer # "throws"
    BY <1>1 DEF CheckComesFirst, ErrorIsLast
<1>6. CheckComesFirst'
    BY <1>1, <1>2, <1>5, CaseConstant
    DEF CheckComesFirst, Evaluated, Decisive, NoCheck
<1>7. ErrorIsLast'
    BY <1>1, <1>2, <1>5, CaseConstant DEF ErrorIsLast, Decisive
<1>8. DecisionHasSource'
  <2>1. \A k \in consulted' : \A d :
             Answered(k, d)' <=> handlers[k].answer = d
    BY <1>1, CaseConstant
  <2>2. CASE h.answer \in Decisive
    BY <1>1, <1>2, <2>1, <2>2, CaseConstant DEF DecisionHasSource, Decisive
  <2>3. CASE h.answer = "other"
    BY <1>1, <1>2, <2>3, CaseConstant DEF DecisionHasSource, Decisive, Answered
  <2>4. CASE h.answer = "throws"
    BY <1>1, <1>2, <2>4, CaseConstant DEF DecisionHasSource, Decisive
  <2>5. QED
    BY <2>2, <2>3, <2>4, <1>1 DEF Answer
<1>9. Overridden'
  <2> SUFFICES ASSUME NEW k \in consulted', NEW d \in Decisive,
                      handlers[k].answer = d, decision' \in Decisive \ {d}
               PROVE  \E m \in consulted' :
                         /\ m > k
                         /\ handlers[m].answer = decision'
                         /\ IF d = "permit"
                            THEN handlers[m].allow_permit_override
                            ELSE handlers[m].allow_deny_override
    BY <1>1, CaseConstant DEF Overridden
  <2>1. CASE h.answer \in Decisive
    <3>1. decision' = h.answer /\ k # p /\ k \in consulted /\ k < p
      BY <1>1, <1>2, <1>4, <2>1 DEF Decisive
    <3>2. CASE decision = d
      <4>1. IF d = "permit" THEN h.allow_permit_override
                            ELSE h.allow_deny_override
        BY <3>2, <1>1 DEF MayConsult, Decisive
      <4>2. QED
        BY <4>1, <3>1, <1>1
    <3>3. CASE decision \in Decisive \ {d}
      <4>1. PICK m \in consulted :
                    /\ m > k
                    /\ Answered(m, decision)
                    /\ IF d = "permit" THEN handlers[m].allow_permit_override
                                       ELSE handlers[m].allow_deny_override
        BY <3>1, <3>3 DEF Overridden, Answered
      <4>2. decision' = decision
        BY <3>1, <3>3 DEF Decisive
      <4>3. QED
        BY <4>1, <4>2, <1>1 DEF Answered
    <3>4. CASE decision \notin Decisive
      <4>1. final \in BOOLEAN /\ (final => decision \in Decisive)
        BY <1>5 DEF DecisionHasSource, TypeOK
      <4>2. ~final
        BY <4>1, <3>4
      <4>3. QED
        BY <4>2, <3>1 DEF DecisionHasSource
    <3>5. QED
      BY <3>2, <3>3, <3>4
  <2>2. CASE h.answer = "other"
    <3>1. k # p /\ k \in consulted /\ decision' = decision
      BY <1>1, <1>2, <2>2 DEF Decisive
    <3>2. PICK m \in consulted :
                  /\ m > k
                  /\ Answered(m, decision)
                  /\ IF d = "permit" THEN handlers[m].allow_permit_override
                                     ELSE handlers[m].allow_deny_override
      BY <3>1 DEF Overridden, Answered
    <3>3. QED
      BY <3>1, <3>2, <1>1 DEF Answered
  <2>3. CASE h.answer = "throws"
    BY <1>2, <2>3 DEF Decisive
  <2>4. QED
    BY <2>1, <2>2, <2>3, <1>1 DEF Answer
<1>10. PassedForAReason'
  <2> SUFFICES ASSUME NEW k \in 1..Len(handlers), k < p + 1,
                      handlers[k].running, k \notin consulted, k # p
               PROVE  \E m \in consulted : m < k /\
                        \/ Answered(m, "permit")
                            /\ ~handlers[k].allow_permit_override
                        \/ Answered(m, "deny")
                            /\ ~handlers[k].allow_deny_override
    BY <1>1, CaseConstant DEF PassedForAReason, Answered
  <2>1. k < p
    BY <1>1
  <2>2. QED
    BY <2>1 DEF PassedForAReason
<1>11. LoopEnds'
    BY <1>1, <1>2, CaseConstant DEF LoopEnds, Decisive
<1>12. FailsClosed'
    BY <1>1, <1>2 DEF FailsClosed, Decided
<1>13. QED
    BY <1>3, <1>6, <1>7, <1>8, <1>9, <1>10, <1>11, <1>12

LEMMA EndHandlersStep ==
    ASSUME CheckInv, EndHandlers
    PROVE  CheckInv'
<1> USE DEF CheckInv
<1>1. /\ UNCHANGED <<call, position, decision, final, consulted, outcome>>
      /\ pc = "handlers" /\ pc' = "decided" /\ position > Len(handlers)
    BY DEF EndHandlers
<1>2. TypeOK'
    BY <1>1 DEF TypeOK
<1>3. CheckComesFirst' /\ ErrorIsLast' /\ DecisionHasSource'
  <2>1. CheckComesFirst'
    BY <1>1, CaseConstant DEF CheckComesFirst, Evaluated
  <2>2. ErrorIsLast'
    BY <1>1, CaseConstant DEF ErrorIsLast
  <2>3. DecisionHasSource'
    BY <1>1, CaseConstant DEF DecisionHasSource, Answered
  <2>4. QED
    BY <2>1, <2>2, <2>3
<1>4. Overridden'
    BY <1>1, CaseConstant DEF Overridden, Answered
<1>5. PassedForAReason'
    BY <1>1, CaseConstant DEF PassedForAReason, Answered
<1>6. LoopEnds' /\ FailsClosed'
    BY <1>1, CaseConstant DEF LoopEnds, FailsClosed, Decided
<1>7. QED
    BY <1>1, <1>2, <1>3, <1>4, <1>5, <1>6

-----------------------------------------------------------------------------
(* The decision that is returned. *)
LEMMA ReturnStep ==
    ASSUME CheckInv, Return
    PROVE  CheckInv'
<1> USE DEF CheckInv
<1>1. /\ UNCHANGED <<call, position, final, consulted>>
      /\ pc = "decided" /\ pc' = "returned" /\ decision' = FinalDecision
      /\ outcome' = IF call.enforce /\ decision' # "permit"
                    THEN "denied" ELSE "permitted"
    BY DEF Return
<1>2. TypeOK'
    BY <1>1 DEF TypeOK, FinalDecision, Decisive
<1>3. ~Bypassed /\ Evaluated /\ Evaluated'
    BY <1>1, CaseConstant DEF CheckComesFirst, Evaluated
<1>4. \/ decision' = decision /\ (final \/ decision = "indeterminate")
      \/ /\ ~final /\ decision # "indeterminate" /\ decision' \in Decisive
         /\ Check \notin Decisive \cup {"throws"}
         /\ \A k \in consulted :
               handlers[k].answer \notin Decisive \cup {"throws"}
  <2>1. CASE final \/ decision = "indeterminate"
    BY <2>1, <1>1 DEF FinalDecision
  <2>2. CASE ~final /\ decision # "indeterminate"
    <3>1. decision' \in Decisive
      BY <1>1, <2>2 DEF FinalDecision, Decisive
    <3>2. Check \notin Decisive \cup {"throws"}
      BY <1>3, <2>2 DEF CheckComesFirst
    <3>3. \A k \in consulted :
             handlers[k].answer \notin Decisive \cup {"throws"}
      BY <2>2 DEF ErrorIsLast, DecisionHasSource
    <3>4. QED
      BY <2>2, <3>1, <3>2, <3>3
  <2>3. QED
    BY <2>1, <2>2
<1>5. (CheckComesFirst /\ ErrorIsLast /\ DecisionHasSource /\ Overridden)'
  <2>1. CheckComesFirst'
    BY <1>1, <1>3, <1>4, CaseConstant DEF CheckComesFirst
  <2>2. ErrorIsLast'
    BY <1>1, <1>4, CaseConstant DEF ErrorIsLast
  <2>3. DecisionHasSource'
    BY <1>1, <1>4, CaseConstant DEF DecisionHasSource, Answered
  <2>4. Overridden'
    BY <1>1, <1>4, CaseConstant DEF Overridden, Answered
  <2>5. QED
    BY <2>1, <2>2, <2>3, <2>4
<1>6. (PassedForAReason /\ LoopEnds)'
    BY <1>1, CaseConstant DEF PassedForAReason, LoopEnds, Answered
<1>7. FailsClosed'
  <2> SUFFICES ASSUME call.enforce, outcome' = "permitted"
               PROVE  /\ Check # "throws"
                      /\ \A k \in consulted : handlers[k].answer # "throws"
                      /\ \/ Check = "permit"
                         \/ \E k \in consulted : Answered(k, "permit")
                         \/ /\ Check # "deny"
                            /\ \A k \in consulted : ~Answered(k, "deny")
                            /\ ~control.deny_if_not_applicable
    BY <1>1, CaseConstant DEF FailsClosed, Answered
  <2>1. decision' = "permit"
    BY <1>1
  <2>2. decision # "indeterminate"
    BY <2>1, <1>1 DEF FinalDecision
  <2>3. Check # "throws" /\ \A k \in consulted : handlers[k].answer # "throws"
    BY <2>2, <1>3 DEF CheckComesFirst, ErrorIsLast
  <2>4. CASE final
    <3>1. decision = "permit"
      BY <2>4, <2>1, <1>1 DEF FinalDecision
    <3>2. QED
      BY <3>1, <2>3, <2>4 DEF DecisionHasSource
  <2>5. CASE ~final
    <3>1. ~control.deny_if_not_applicable
      BY <2>1, <2>2, <2>5, <1>1 DEF FinalDecision
    <3>2. Check # "deny" /\ \A k \in consulted : ~Answered(k, "deny")
      BY <2>5, <1>3 DEF CheckComesFirst, DecisionHasSource, Decisive, Answered
    <3>3. QED
      BY <3>1, <3>2, <2>3
  <2>6. QED
    BY <2>4, <2>5
<1>8. QED
    BY <1>1, <1>2, <1>5, <1>6, <1>7

LEMMA CheckStutterStep ==
    ASSUME CheckInv, UNCHANGED vars
    PROVE  CheckInv'
<1>1. UNCHANGED <<call, pc, position, decision, final, consulted, outcome>>
    BY DEF vars
<1>2. TypeOK'
    BY <1>1 DEF CheckInv, TypeOK
<1>3. CheckComesFirst' /\ ErrorIsLast'
    BY <1>1, CaseConstant DEF CheckInv, CheckComesFirst, ErrorIsLast, Evaluated
<1>4. DecisionHasSource'
    BY <1>1, CaseConstant DEF CheckInv, DecisionHasSource, Answered
<1>5. Overridden'
    BY <1>1, CaseConstant DEF CheckInv, Overridden, Answered
<1>6. PassedForAReason' /\ LoopEnds'
    BY <1>1, CaseConstant DEF CheckInv, PassedForAReason, LoopEnds, Answered
<1>7. FailsClosed'
    BY <1>1, CaseConstant DEF CheckInv, FailsClosed, Decided, Answered
<1>8. QED
    BY <1>1, <1>2, <1>3, <1>4, <1>5, <1>6, <1>7 DEF CheckInv

-----------------------------------------------------------------------------
(* What a call of afw_authorization_check knows at each stage: where its
   decision comes from, and why a handler it has passed was not asked. *)
THEOREM CheckInvariant == Spec => []CheckInv
<1>1. Init => CheckInv
    BY CheckInitInv
<1>2. CheckInv /\ [Next]_vars => CheckInv'
    BY CalledStep, EvaluateCheckStep, SkipHandlerStep, ConsultHandlerStep,
       EndHandlersStep, ReturnStep, CheckStutterStep DEF Next
<1>3. QED
    BY <1>1, <1>2, PTL DEF Spec

(* A permit or deny of one handler is changed only by another that has the
   matching allowPermitOverride or allowDenyOverride. *)
THEOREM OverridesAreAllowed == Spec => []OverriddenOnlyByOverride
<1>1. CheckInv => OverriddenOnlyByOverride
    BY DEF CheckInv, Overridden, OverriddenOnlyByOverride
<1>2. QED
    BY <1>1, CheckInvariant, PTL

(* No running handler is left out of the decision without a reason. *)
THEOREM NobodyIsLeftOut == Spec => []SkippedForAReason
<1>1. CheckInv => SkippedForAReason
  <2> SUFFICES ASSUME CheckInv, Decided, NEW k \in 1..Len(handlers),
                      handlers[k].running, k \notin consulted,
                      ~InCoreMode, Check \notin Decisive \cup {"throws"}
               PROVE  \/ \E m \in consulted : handlers[m].answer = "throws" /\ m < k
                      \/ \E m \in consulted : m < k /\
                           \/ Answered(m, "permit")
                               /\ ~handlers[k].allow_permit_override
                           \/ Answered(m, "deny")
                               /\ ~handlers[k].allow_deny_override
    BY DEF SkippedForAReason
  <2>1. position \in Nat /\ k \in Nat /\ Len(handlers) \in Nat
    BY CaseFields DEF CheckInv, TypeOK
  <2>2. CASE k < position
    BY <2>2 DEF CheckInv, PassedForAReason
  <2>3. CASE k >= position
    <3>1. ~(position > Len(handlers))
      BY <2>1, <2>3
    <3>2. PICK m \in consulted : handlers[m].answer = "throws" /\ m = position - 1
      BY <3>1 DEF CheckInv, LoopEnds, Decided
    <3>3. m < k
      BY <2>1, <2>3, <3>2
    <3>4. QED
      BY <3>2, <3>3
  <2>4. QED
    BY <2>1, <2>2, <2>3
<1>2. QED
    BY <1>1, CheckInvariant, PTL

(* An error among what was evaluated never ends in a permit for a caller that
   enforces, and no permit comes from nowhere. *)
THEOREM CheckFailsClosed == Spec => []FailsClosed
<1>1. CheckInv => FailsClosed
    BY DEF CheckInv
<1>2. QED
    BY <1>1, CheckInvariant, PTL
=============================================================================
