----------------------------- MODULE ServiceAlone -----------------------------
(***************************************************************************)
(* A service with the history of whether two threads have been in a call   *)
(* at the same time: what the registry says is true until then.            *)
(***************************************************************************)
EXTENDS Service

VARIABLE overlapped

AloneInit == ServiceInit /\ overlapped = FALSE

AloneNext ==
    /\ ServiceNext
    /\ overlapped' = (overlapped \/
           \E t, u \in Clients : t # u /\ InCall(t)' /\ InCall(u)')

(* Fairness is that of FairServiceSpec. *)
AloneSpec ==
    /\ AloneInit /\ [][AloneNext]_<<allVars, overlapped>>
    /\ \A t \in Clients : WF_allVars(~crashed /\ Continue(t))

(* As long as calls come one after the other, by whatever threads, the status in
   the registry is true of the adaptor: running exactly if it is active, after
   every start, restart and stop, and the ones that fail
   (afw_service.c:515, 1178). *)
AloneTruthful == ~overlapped => StatusTruthful
-----------------------------------------------------------------------------
(* The inductive invariant behind AloneTruthful. *)

OneInCall == \A t, u \in Clients : InCall(t) /\ InCall(u) => t = u

(* No adaptor is active before a struct is registered. *)
NoneWithoutStruct == registered = NoInstance => ~IsActive(anchor)

(* A start other than a restart begins with no active adaptor and makes its
   struct the registered one; a restart leaves the adaptor and the struct that
   the registry names as they are, until its own instance takes the place of
   the adaptor; a stop is that of the registered struct. *)
CallTruthful(t) ==
    /\ at[t] \in StartLocations \ {"active"} /\ call[t] # "restart" =>
        ~IsActive(anchor)
    /\ at[t] \in {"create", "active"} /\ call[t] # "restart" =>
        registered = service[t]
    /\ at[t] = "active" => IsActive(anchor) \/ pc[t] = "activating"
    /\ at[t] # "out" /\ call[t] = "restart" =>
        /\ IsActive(anchor) /\ RegisteredIn({"running"})
        /\ at[t] # "register"
        /\ at[t] \in StartLocations => registered # service[t]
    /\ at[t] \in {"lock_stop"} \cup StopLocations =>
        call[t] = "stop" /\ registered = service[t]
    /\ at[t] = "stopping" => ~IsActive(anchor)

AloneTruth ==
    StatusTruthful /\ NoneWithoutStruct /\ \A t \in Clients : CallTruthful(t)

AloneInv == ~overlapped => OneInCall /\ AloneTruth
=============================================================================
