---------------------------- MODULE AdaptorAnchor ----------------------------
(***************************************************************************)
(* The life of the instances of one adaptor id (afw_adaptor.c).            *)
(*                                                                         *)
(* Clients are threads: each opens and closes sessions of the adaptor, or  *)
(* starts, restarts and stops it.  Every action that touches the anchor is *)
(* one section under env->adaptor_id_anchor_lock; what the code does       *)
(* between two sections (create a session, create or destroy an instance)  *)
(* is an action of its own, so all clients interleave there.               *)
(***************************************************************************)
EXTENDS Anchor, FiniteSets

CONSTANTS Clients,     (* threads, and the sessions each has open          *)
          MaxLeaks     (* bound: session creations that throw              *)

ASSUME ClientsAssumption == IsFiniteSet(Clients) /\ MaxLeaks \in Nat

VARIABLES
    anchor,      (* the id's anchor, see Anchor                            *)
    pc,          (* where each client is                                   *)
    instance,    (* the instance each client is working with               *)
    resume,      (* where a client goes when its start or stop is done     *)
    created,     (* instances some factory has created                     *)
    destroyed,   (* instances afw_adaptor_destroy was called for           *)
    leaked       (* references nobody is going to release, per instance    *)

vars == <<anchor, pc, instance, resume, created, destroyed, leaked>>

(* Locations at which a client owns a reference to instance[c]. *)
Referencing == {"creating", "open", "retiring"}

Locations == Referencing \cup
    {"idle", "autostart", "activating", "retry", "destroying"}

TypeOK ==
    /\ anchor \in Seq(Node)
    /\ pc \in [Clients -> Locations]
    /\ instance \in [Clients -> Instances \cup {NoInstance}]
    /\ resume \in [Clients -> {"idle", "retry"}]
    /\ created \in SUBSET Instances
    /\ destroyed \in SUBSET Instances
    /\ leaked \in [Instances -> Nat]

Init ==
    /\ anchor = <<>>
    /\ pc = [c \in Clients |-> "idle"]
    /\ instance = [c \in Clients |-> NoInstance]
    /\ resume = [c \in Clients |-> "idle"]
    /\ created = {}
    /\ destroyed = {}
    /\ leaked = [i \in Instances |-> 0]

Goto(c, location, i) ==
    /\ pc' = [pc EXCEPT ![c] = location]
    /\ instance' = [instance EXCEPT ![c] = i]

-----------------------------------------------------------------------------
(* afw_adaptor_session_create and afw_adaptor_get_reference *)

(* impl_get_reference finds an active instance. *)
GetReference(c) ==
    /\ pc[c] \in {"idle", "retry"}
    /\ IsActive(anchor)
    /\ anchor' = AddReference(anchor)
    /\ Goto(c, "creating", ActiveInstance(anchor))
    /\ resume' = [resume EXCEPT ![c] = "idle"]
    /\ UNCHANGED <<created, destroyed, leaked>>

(* It finds none the first time: the service is started ... *)
FindNone(c) ==
    /\ pc[c] = "idle"
    /\ ~IsActive(anchor)
    /\ Goto(c, "autostart", NoInstance)
    /\ resume' = [resume EXCEPT ![c] = "retry"]
    /\ UNCHANGED <<anchor, created, destroyed, leaked>>

(* ... which may start nothing (not an immediate service, already being
   started, its factory throws) or throw itself ... *)
AutostartStartsNothing(c) ==
    /\ pc[c] = "autostart"
    /\ \E location \in {"retry", "idle"} : Goto(c, location, NoInstance)
    /\ resume' = [resume EXCEPT ![c] = "idle"]
    /\ UNCHANGED <<anchor, created, destroyed, leaked>>

(* mutant: a second miss starts the service once more *)
NotAvailableRetries(c) ==
    /\ pc[c] = "retry"
    /\ ~IsActive(anchor)
    /\ Goto(c, "autostart", NoInstance)
    /\ resume' = [resume EXCEPT ![c] = "retry"]
    /\ UNCHANGED <<anchor, created, destroyed, leaked>>

(* ... and a second miss is the error "Adaptor is not available". *)
NotAvailable(c) ==
    /\ pc[c] = "retry"
    /\ ~IsActive(anchor)
    /\ Goto(c, "idle", NoInstance)
    /\ resume' = [resume EXCEPT ![c] = "idle"]
    /\ UNCHANGED <<anchor, created, destroyed, leaked>>

CreateSession(c) ==
    /\ pc[c] = "creating"
    /\ Goto(c, "open", instance[c])
    /\ UNCHANGED <<anchor, resume, created, destroyed, leaked>>

(* create_adaptor_session throws: afw_adaptor_session_create has no handler,
   so the reference it has got stays counted for ever. *)
CreateSessionThrows(c) ==
    /\ pc[c] = "creating"
    /\ leaked[instance[c]] < MaxLeaks
    /\ leaked' = [leaked EXCEPT ![instance[c]] = @ + 1]
    /\ Goto(c, "idle", NoInstance)
    /\ UNCHANGED <<anchor, resume, created, destroyed>>

-----------------------------------------------------------------------------
(* impl_afw_service_type_start_cede_p, restart_cede_p and stop *)

(* The factory creates a new instance. *)
CreateInstance(c) ==
    /\ pc[c] \in {"idle", "autostart"}
    /\ \E i \in Instances \ created :
        /\ created' = created \cup {i}
        /\ Goto(c, "activating", i)
    /\ UNCHANGED <<anchor, resume, destroyed, leaked>>

(* impl_set_instance_active(i): the caller owns the base reference of the
   instance it has pushed down the chain, and releases it next. *)
SetInstanceActive(c, i) ==
    /\ anchor' = SetActive(anchor, i)
    /\ IF IsActive(anchor)
       THEN Goto(c, "retiring", ActiveInstance(anchor))
       ELSE Goto(c, resume[c], NoInstance)
    /\ UNCHANGED <<resume, created, destroyed, leaked>>

Activate(c) ==
    /\ pc[c] = "activating"
    /\ SetInstanceActive(c, instance[c])

(* A stop of an id that was never registered throws. *)
Stop(c) ==
    /\ pc[c] = "idle"
    /\ Registered(anchor)
    /\ SetInstanceActive(c, NoInstance)

-----------------------------------------------------------------------------
(* afw_adaptor_release, called to close a session and to retire an instance *)

ReleaseReference(c) ==
    /\ anchor' = Release(anchor, instance[c])
    /\ IF LastReference(anchor, instance[c])
       THEN Goto(c, "destroying", instance[c])
       ELSE Goto(c, resume[c], NoInstance)
    /\ UNCHANGED <<resume, created, destroyed, leaked>>

CloseSession(c) == pc[c] = "open" /\ ReleaseReference(c)

ReleaseRetired(c) == pc[c] = "retiring" /\ ReleaseReference(c)

(* afw_adaptor_destroy, outside of the lock. *)
Destroy(c) ==
    /\ pc[c] = "destroying"
    /\ destroyed' = destroyed \cup {instance[c]}
    /\ Goto(c, resume[c], NoInstance)
    /\ UNCHANGED <<anchor, resume, created, leaked>>

-----------------------------------------------------------------------------
Next ==
    \E c \in Clients :
        \/ GetReference(c) \/ FindNone(c)
        \/ AutostartStartsNothing(c) \/ NotAvailable(c)
        \/ CreateSession(c) \/ CreateSessionThrows(c)
        \/ CreateInstance(c) \/ Activate(c) \/ Stop(c)
        \/ CloseSession(c) \/ ReleaseRetired(c) \/ Destroy(c)

Spec == Init /\ [][Next]_vars
-----------------------------------------------------------------------------
(* Properties *)

(* The threads that own a reference to instance i. *)
Holders(i) == {c \in Clients : pc[c] \in Referencing /\ instance[c] = i}

(* What a node's reference_count has to be: one for each owner, one for each
   reference lost, and the base reference of the active instance. *)
References(k) ==
    LET i == anchor[k].adaptor
    IN  Cardinality(Holders(i)) + leaked[i] + (IF k = 1 THEN 1 ELSE 0)

(* The count of every node of the anchor is exactly the references to its
   instance, whatever starts, restarts and stops came in between: the copy of
   impl_set_instance_active takes the count along, and afw_adaptor_release
   finds the copy again. *)
ReferenceCountExact ==
    \A k \in 1..Len(anchor) :
        anchor[k].adaptor # NoInstance =>
            anchor[k].reference_count = References(k)

(* Nobody uses an instance that is destroyed or being destroyed: no thread
   that owns a reference does, and no node of the anchor is left that names
   it (such a node, unless it is the registered one, is in the pool that
   afw_adaptor_destroy gives up). *)
NoUseAfterDestroy ==
    \A i \in Instances :
        i \in destroyed \/ (\E c \in Clients :
                              pc[c] = "destroying" /\ instance[c] = i)
            => Holders(i) = {} /\ ~OnAnchor(anchor, i)

(* afw_adaptor_release destroys an instance once: two threads that drop the
   last references at the same time never both see the count at 0. *)
DestroyedOnce ==
    \A c, d \in Clients :
        pc[c] = "destroying" =>
            /\ instance[c] \notin destroyed
            /\ pc[d] = "destroying" /\ instance[d] = instance[c] => c = d

(* No instance is lost: from its creation to its destruction every instance
   is being activated, is on the anchor at exactly one node, or is being
   destroyed, so that there is always a release that leads to its end. *)
NothingLost ==
    \A i \in created \ destroyed :
        \/ \E c \in Clients :
              pc[c] \in {"activating", "destroying"} /\ instance[c] = i
        \/ \E k \in 1..Len(anchor) : PositionsOf(anchor, i) = {k}

(* Replaced by a restart or a stop, with sessions that have to be closed. *)
Retired(i) == OnAnchor(anchor, i) /\ ActiveInstance(anchor) # i

(* The instances of the id, as a user of afw_adaptor.h sees them: sessions
   lease the active instance and keep it until they are closed. *)
InUse == created \ {instance[c] : c \in {d \in Clients : pc[d] = "activating"}}

LeaseOf ==
    [c \in Clients |->
        IF pc[c] \in {"creating", "open"} THEN instance[c] ELSE NoInstance]

Lease == INSTANCE AdaptorLease WITH
    active <- ActiveInstance(anchor), used <- InUse, lease <- LeaseOf,
    gone <- destroyed

(* The locks, counts and chains of afw_adaptor.c implement that contract. *)
LeaseSpec == Lease!Spec

-----------------------------------------------------------------------------
(* The inductive invariant behind those properties. *)

(* Only the registered node can be empty, and no instance is on two nodes. *)
WellFormed(a) ==
    /\ a \in Seq(Node)
    /\ \A k \in 2..Len(a) : a[k].adaptor # NoInstance
    /\ \A k, m \in 1..Len(a) : a[k].adaptor = a[m].adaptor => k = m

(* A thread that owns a reference finds the node its release looks for. *)
OwnersOnAnchor ==
    \A c \in Clients :
        pc[c] \in Referencing =>
            instance[c] \in Instances /\ OnAnchor(anchor, instance[c])

(* The threads that have an instance for themselves, before it is on the
   anchor or after it is off. *)
Private == {"activating", "destroying"}

PrivateInstances ==
    \A c \in Clients :
        pc[c] \in Private =>
            /\ instance[c] \in created \ destroyed
            /\ ~OnAnchor(anchor, instance[c])
            /\ \A d \in Clients :
                  pc[d] \in Private /\ instance[d] = instance[c] => c = d

(* A lost reference keeps its instance on the anchor for ever. *)
LeaksOnAnchor == \A i \in Instances : leaked[i] > 0 => OnAnchor(anchor, i)

LiveOnAnchor ==
    \A i \in Instances : OnAnchor(anchor, i) => i \in created \ destroyed

LiveAccountedFor ==
    \A i \in created \ destroyed :
        \/ OnAnchor(anchor, i)
        \/ \E c \in Clients : pc[c] \in Private /\ instance[c] = i

(* ReferenceCountExact is inductive together with where the instances are:
   the holder of a reference is on the anchor, so its release finds the one
   node whose count it is part of. *)
AnchorInv ==
    /\ TypeOK
    /\ WellFormed(anchor)
    /\ ReferenceCountExact
    /\ OwnersOnAnchor
    /\ PrivateInstances
    /\ LeaksOnAnchor
    /\ LiveOnAnchor
    /\ LiveAccountedFor
    /\ destroyed \subseteq created
=============================================================================
