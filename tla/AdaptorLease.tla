---------------------------- MODULE AdaptorLease ----------------------------
(***************************************************************************)
(* What afw_adaptor.h promises about the instances of an adaptor id.  At   *)
(* any time at most one instance is the active one.  A client that asks    *)
(* for the adaptor leases the instance that is active at that moment and   *)
(* keeps it, however often the adaptor is restarted or stopped meanwhile,  *)
(* until it returns it.  An instance that has been active is never active  *)
(* again, and is discarded only when it is not active and nobody leases it.*)
(***************************************************************************)
CONSTANTS Instances, NoInstance, Clients

VARIABLES
    active,   (* the instance new leases get, or NoInstance                *)
    used,     (* the instances that are or have been active                *)
    lease,    (* the instance each client leases, or NoInstance            *)
    gone      (* the instances that have been discarded                    *)

vars == <<active, used, lease, gone>>

Init ==
    /\ active = NoInstance
    /\ used = {}
    /\ lease = [c \in Clients |-> NoInstance]
    /\ gone = {}

(* A start or restart makes a new instance the active one. *)
Switch(i) ==
    /\ i \in Instances \ used
    /\ active' = i
    /\ used' = used \cup {i}
    /\ UNCHANGED <<lease, gone>>

SwitchOff ==
    /\ active' = NoInstance
    /\ UNCHANGED <<used, lease, gone>>

Take(c) ==
    /\ lease[c] = NoInstance
    /\ active # NoInstance
    /\ lease' = [lease EXCEPT ![c] = active]
    /\ UNCHANGED <<active, used, gone>>

Return(c) ==
    /\ lease' = [lease EXCEPT ![c] = NoInstance]
    /\ UNCHANGED <<active, used, gone>>

Discard(i) ==
    /\ i \in used \ (gone \cup {active})
    /\ \A c \in Clients : lease[c] # i
    /\ gone' = gone \cup {i}
    /\ UNCHANGED <<active, used, lease>>

Next ==
    \/ \E i \in Instances : Switch(i) \/ Discard(i)
    \/ SwitchOff
    \/ \E c \in Clients : Take(c) \/ Return(c)

Spec == Init /\ [][Next]_vars
=============================================================================
