------------------------------- MODULE Anchor -------------------------------
(***************************************************************************)
(* The id anchor of afw_adaptor.c as a value, and what each section of     *)
(* code that runs under env->adaptor_id_anchor_lock makes of it.           *)
(*                                                                         *)
(* An anchor is the sequence of the nodes that the code chains with the    *)
(* field "stopping": node 1 is the registered anchor, which lives in       *)
(* env->p, and every later node is a copy that lives in the pool of the    *)
(* instance it was made for.  <<>> is an id that is not registered yet.    *)
(***************************************************************************)
EXTENDS Integers, Sequences

CONSTANTS Instances,   (* adaptor instances; each is created at most once  *)
          NoInstance   (* the NULL of anchor->adaptor                      *)

ASSUME NoInstanceAssumption == NoInstance \notin Instances

Node == [adaptor : Instances \cup {NoInstance}, reference_count : Int]

NewNode(i, n) == [adaptor |-> i, reference_count |-> n]

Registered(anchor) == Len(anchor) > 0

(* The instance new references go to, NoInstance when there is none. *)
ActiveInstance(anchor) ==
    IF Registered(anchor) THEN anchor[1].adaptor ELSE NoInstance

IsActive(anchor) == ActiveInstance(anchor) # NoInstance

(* The nodes that the walk of afw_adaptor_release can stop at. *)
PositionsOf(anchor, i) == {k \in 1..Len(anchor) : anchor[k].adaptor = i}

OnAnchor(anchor, i) == PositionsOf(anchor, i) # {}

(* mutant: the registered node, without a look for the instance's own *)
RegisteredPosition(anchor, i) == 1

FirstPosition(anchor, i) ==
    CHOOSE k \in PositionsOf(anchor, i) :
        \A m \in PositionsOf(anchor, i) : k <= m

(* previous_anchor->stopping = anchor->stopping *)
Unlink(anchor, k) ==
    [m \in 1..(Len(anchor) - 1) |-> IF m < k THEN anchor[m] ELSE anchor[m + 1]]

(***************************************************************************)
(* impl_set_instance_active: i takes the anchor over, with the base        *)
(* reference when it is an instance.  An active predecessor is copied,     *)
(* with its count, to the head of the stopping chain.                      *)
(***************************************************************************)
BaseCount(i) == IF i = NoInstance THEN 0 ELSE 1

(* mutant: the copy starts with a count of its own *)
SetActiveFreshCount(anchor, i) ==
    LET claimed == <<NewNode(i, BaseCount(i))>>
    IN  IF IsActive(anchor)
        THEN claimed \o <<NewNode(ActiveInstance(anchor), 1)>> \o Tail(anchor)
        ELSE claimed \o (IF Registered(anchor) THEN Tail(anchor) ELSE <<>>)

(* mutant: a stop copies the anchor and forgets to empty it *)
SetActiveKeptByStop(anchor, i) ==
    LET claimed == <<NewNode(i, BaseCount(i))>>
    IN  CASE i = NoInstance -> <<anchor[1]>> \o anchor
          [] i # NoInstance /\ (IsActive(anchor) \/ ~Registered(anchor)) ->
                claimed \o anchor
          [] OTHER -> claimed \o Tail(anchor)

(* mutant: the active instance is overwritten, not copied down the chain *)
SetActiveOverwrites(anchor, i) ==
    <<NewNode(i, BaseCount(i))>> \o
        (IF Registered(anchor) THEN Tail(anchor) ELSE <<>>)

SetActive(anchor, i) ==
    LET claimed == <<NewNode(i, BaseCount(i))>>
    IN  IF IsActive(anchor) \/ ~Registered(anchor)
        THEN claimed \o anchor
        ELSE claimed \o Tail(anchor)

(* impl_get_reference, when it finds an active instance. *)
(* mutant: the reference is not counted *)
AddReferenceUncounted(anchor) == anchor

AddReference(anchor) == [anchor EXCEPT ![1].reference_count = @ + 1]

(***************************************************************************)
(* afw_adaptor_release: the first node of the instance loses a reference;  *)
(* at 0 the node gives its instance up and the caller has to destroy it.   *)
(* An instance that is on no node is left alone.                           *)
(***************************************************************************)
(* mutant: the count is tested before it is decremented *)
LastReferenceTooLate(anchor, i) ==
    /\ OnAnchor(anchor, i)
    /\ anchor[FirstPosition(anchor, i)].reference_count <= 0

(* mutant: one reference too early *)
LastReferenceTooEarly(anchor, i) ==
    /\ OnAnchor(anchor, i)
    /\ anchor[FirstPosition(anchor, i)].reference_count <= 2

LastReference(anchor, i) ==
    /\ OnAnchor(anchor, i)
    /\ anchor[FirstPosition(anchor, i)].reference_count <= 1

Release(anchor, i) ==
    LET k == FirstPosition(anchor, i)
    IN  CASE ~OnAnchor(anchor, i) -> anchor
          [] OnAnchor(anchor, i) /\ ~LastReference(anchor, i) ->
                 [anchor EXCEPT ![k].reference_count = @ - 1]
          [] LastReference(anchor, i) /\ k = 1 ->
                 [anchor EXCEPT ![1] = NewNode(NoInstance, 0)]
          [] LastReference(anchor, i) /\ k # 1 -> Unlink(anchor, k)
=============================================================================
