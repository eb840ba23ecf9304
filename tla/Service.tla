------------------------------ MODULE Service ------------------------------
(***************************************************************************)
(* One service of type adaptor (afw_service.c) above the anchor of its     *)
(* adaptor id (AdaptorAnchor): threads start, stop and restart it, or open *)
(* sessions of the adaptor, which may start it.                            *)
(*                                                                         *)
(* Every start and restart allocates a new service struct.  The adaptor    *)
(* instance it creates lives in the pool of that struct, so that struct    *)
(* and instance share a name here.  The registry holds one struct, not     *)
(* always that of the active instance.                                     *)
(***************************************************************************)
EXTENDS AdaptorAnchor

CONSTANTS NoClient,    (* nobody: the owner of an unlocked mutex           *)
          Startup      (* the conf property of the service                 *)

ASSUME ServiceAssumption ==
    /\ NoClient \notin Clients
    /\ Startup \in {"immediate", "permanent", "manual", "disabled"}

VARIABLES
    registered,   (* the struct in the registry, or NoInstance             *)
    allocated,    (* the structs                                           *)
    status,       (* of each struct                                        *)
    initialized,  (* the structs whose mutex has been created              *)
    mutex,        (* the owner of each struct's mutex                      *)
    at,           (* where each thread is in afw_service.c                 *)
    call,         (* why it is there                                       *)
    service,      (* the struct it works on                                *)
    crashed       (* the process has locked a NULL mutex                   *)

threadVars == <<at, call, service>>
structVars == <<registered, allocated, status, initialized, mutex>>
serviceVars == <<structVars, threadVars, crashed>>
allVars == <<vars, serviceVars>>

Status == {"error", "ready_to_start", "starting", "running", "stopping",
           "stopped", "restarting"}

(* The calls that start a service: service_start, a reference to an adaptor
   that is not active, the application's start, its conf, service_restart. *)
StartCalls == {"manual", "auto", "initial", "conf", "restart"}

ServiceTypeOK ==
    /\ registered \in allocated \cup {NoInstance}
    /\ allocated \subseteq Instances
    /\ status \in [Instances -> Status]
    /\ initialized \subseteq allocated
    /\ mutex \in [Instances -> Clients \cup {NoClient}]
    /\ at \in [Clients -> {"out", "start_cb", "restart_cb", "register", "init",
                           "lock", "create", "active", "catch", "lock_stop",
                           "stop", "stopping"}]
    /\ call \in [Clients -> StartCalls \cup {"none", "stop"}]
    /\ service \in [Clients -> allocated \cup {NoInstance}]
    /\ crashed \in BOOLEAN

ServiceInit ==
    /\ Init
    /\ registered = NoInstance
    /\ allocated = {}
    /\ status = [i \in Instances |-> "error"]
    /\ initialized = {}
    /\ mutex = [i \in Instances |-> NoClient]
    /\ at = [t \in Clients |-> "out"]
    /\ call = [t \in Clients |-> "none"]
    /\ service = [t \in Clients |-> NoInstance]
    /\ crashed = FALSE

Goes(t, location) ==
    /\ at' = [at EXCEPT ![t] = location]
    /\ UNCHANGED <<call, service>>

Begins(t, why, location) ==
    /\ at' = [at EXCEPT ![t] = location]
    /\ call' = [call EXCEPT ![t] = why]
    /\ UNCHANGED service

Leaves(t) ==
    /\ at' = [at EXCEPT ![t] = "out"]
    /\ call' = [call EXCEPT ![t] = "none"]
    /\ service' = [service EXCEPT ![t] = NoInstance]

(* The end of a start that has not activated anything: to the caller, or back
   into afw_adaptor_get_reference, which looks again unless there was a throw. *)
ReturnsTo(t, location) ==
    /\ Leaves(t)
    /\ IF pc[t] = "autostart"
       THEN AutostartStartsNothing(t) /\ pc'[t] = location
       ELSE UNCHANGED vars

Returns(t) == ReturnsTo(t, "retry")

Throws(t) == ReturnsTo(t, "idle")

(* Other threads run once the application has started. *)
Idle(t) ==
    /\ at[t] = "out" /\ pc[t] = "idle"
    /\ \A u \in Clients : call[u] \notin {"initial", "conf"}

RegisteredIn(statuses) ==
    registered # NoInstance /\ status[registered] \in statuses

(* The structs as they are when status is set and the mutex is unlocked. *)
SetStatus(t, s) == status' = [status EXCEPT ![service[t]] = s]

Unlock(t) == mutex' = [mutex EXCEPT ![service[t]] = NoClient]

-----------------------------------------------------------------------------
(* afw_service_start, and what comes before the callback elsewhere *)

StartAccepted ==
    \/ registered = NoInstance
    \/ RegisteredIn({"ready_to_start", "stopped", "error"})

(* service_start; a call that is not accepted throws and changes nothing. *)
CallStart(t) ==
    /\ Idle(t)
    /\ StartAccepted
    /\ Begins(t, "manual", "start_cb")
    /\ UNCHANGED <<vars, structVars, crashed>>

(* afw_adaptor_get_reference has found no active instance. *)
Autostart(t) ==
    /\ at[t] = "out"
    /\ pc[t] = "autostart"
    /\ IF StartAccepted
       THEN Begins(t, "auto", "start_cb") /\ UNCHANGED vars
       ELSE Throws(t)
    /\ UNCHANGED <<structVars, crashed>>

(* afw_service_internal_start_initial_services *)
StartInitial(t) ==
    /\ \A u \in Clients : Idle(u)
    /\ allocated = {}
    /\ Begins(t, "initial", "start_cb")
    /\ UNCHANGED <<vars, structVars, crashed>>

(* afw_service_start_using_AdaptiveConf_cede_p *)
StartFromConf(t) ==
    /\ \A u \in Clients : Idle(u)
    /\ allocated = {}
    /\ \E i \in Instances :
        /\ allocated' = {i}
        /\ service' = [service EXCEPT ![t] = i]
    /\ at' = [at EXCEPT ![t] = "init"]
    /\ call' = [call EXCEPT ![t] = "conf"]
    /\ UNCHANGED <<vars, registered, status, initialized, mutex, crashed>>

-----------------------------------------------------------------------------
(* impl_start_cb and impl_restart_get_cb *)

(* The conf adaptor has no conf of this service: nothing, or a throw. *)
NoConf(t) ==
    /\ at[t] \in {"start_cb", "restart_cb"}
    /\ Returns(t) \/ Throws(t)
    /\ UNCHANGED <<structVars, crashed>>

StartupAllows(t) ==
    CASE call[t] = "manual" -> Startup \in {"immediate", "permanent", "manual"}
      [] call[t] \in {"auto", "initial"} -> Startup \in {"immediate", "permanent"}
      [] call[t] = "restart" -> Startup \in {"immediate", "manual"}

RegistryAllows(t) ==
    \/ registered = NoInstance \/ call[t] = "restart"
    \/ RegisteredIn({"error"})
    \/ call[t] = "manual" /\ RegisteredIn({"stopped"})

(* A new struct, all zero: its status is "error".  A start registers it next,
   unless a struct is registered. *)
Allocate(t) ==
    /\ at[t] \in {"start_cb", "restart_cb"}
    /\ StartupAllows(t) /\ RegistryAllows(t)
    /\ \E i \in Instances \ allocated :
        /\ allocated' = allocated \cup {i}
        /\ service' = [service EXCEPT ![t] = i]
    /\ at' = [at EXCEPT ![t] =
                IF registered = NoInstance /\ call[t] # "restart"
                THEN "register" ELSE "init"]
    /\ UNCHANGED <<vars, registered, status, initialized, mutex, call, crashed>>

(* Nothing to do, for this startup or this status. *)
Ignore(t) ==
    /\ at[t] \in {"start_cb", "restart_cb"}
    /\ ~(StartupAllows(t) /\ RegistryAllows(t))
    /\ Returns(t)
    /\ UNCHANGED <<structVars, crashed>>

Register(t) ==
    /\ at[t] = "register"
    /\ registered' = service[t]
    /\ Goes(t, "init")
    /\ UNCHANGED <<vars, allocated, status, initialized, mutex, crashed>>

(* mutant: the struct of a start that failed is released *)
CatchReleases(t) ==
    /\ at[t] = "catch"
    /\ allocated' = allocated \ {service[t]}
    /\ Returns(t)
    /\ UNCHANGED <<registered, status, initialized, mutex, crashed>>

(* AFW_CATCH_UNHANDLED of the callbacks: the error stays in the struct.  The
   start of the application's conf has no handler and throws. *)
Catch(t) ==
    /\ at[t] = "catch"
    /\ IF call[t] = "conf"
       THEN Throws(t) /\ UNCHANGED status
       ELSE Returns(t) /\ SetStatus(t, "error")
    /\ UNCHANGED <<registered, allocated, initialized, mutex, crashed>>

-----------------------------------------------------------------------------
(* impl_initialize_and_start_service_using_conf, impl_start_service and
   impl_restart_service *)

(* The conf is not good, before there is a mutex. *)
InitializeThrows(t) ==
    /\ at[t] = "init"
    /\ Goes(t, "catch")
    /\ UNCHANGED <<vars, structVars, crashed>>

Initialize(t) ==
    /\ at[t] = "init"
    /\ initialized' = initialized \cup {service[t]}
    /\ SetStatus(t, "ready_to_start")
    /\ Goes(t, "lock")
    /\ UNCHANGED <<vars, registered, allocated, mutex, crashed>>

(* mutant: a restart registers its struct, too *)
LockStartRegisters(t) ==
    /\ at[t] = "lock"
    /\ mutex[service[t]] = NoClient
    /\ mutex' = [mutex EXCEPT ![service[t]] = t]
    /\ SetStatus(t, IF call[t] = "restart" THEN "restarting" ELSE "starting")
    /\ registered' = service[t]
    /\ Goes(t, "create")
    /\ UNCHANGED <<vars, allocated, initialized, crashed>>

(* A start registers its struct, a restart does not. *)
LockStart(t) ==
    /\ at[t] = "lock"
    /\ mutex[service[t]] = NoClient
    /\ mutex' = [mutex EXCEPT ![service[t]] = t]
    /\ IF call[t] = "restart"
       THEN SetStatus(t, "restarting") /\ UNCHANGED registered
       ELSE SetStatus(t, "starting") /\ registered' = service[t]
    /\ Goes(t, "create")
    /\ UNCHANGED <<vars, allocated, initialized, crashed>>

(* The adaptor type is unknown, or its factory throws. *)
CreateThrows(t) ==
    /\ at[t] = "create"
    /\ Unlock(t)
    /\ Goes(t, "catch")
    /\ UNCHANGED <<vars, registered, allocated, status, initialized, crashed>>

Create(t) ==
    /\ at[t] = "create"
    /\ CreateInstance(t)
    /\ instance'[t] = service[t]
    /\ Goes(t, "active")
    /\ UNCHANGED <<structVars, crashed>>

MakeActive(t) == Activate(t) /\ UNCHANGED serviceVars

(* The instance is active and its predecessor released. *)
Running(t) ==
    /\ at[t] = "active"
    /\ pc[t] \in {"idle", "retry"}
    /\ SetStatus(t, "running")
    /\ Unlock(t)
    /\ Leaves(t)
    /\ UNCHANGED <<vars, registered, allocated, initialized, crashed>>

-----------------------------------------------------------------------------
(* afw_service_restart: a call that is not accepted throws. *)
CallRestart(t) ==
    /\ Idle(t)
    /\ RegisteredIn({"running"})
    /\ Begins(t, "restart", "restart_cb")
    /\ UNCHANGED <<vars, structVars, crashed>>

-----------------------------------------------------------------------------
(* afw_service_stop *)

CallStop(t) ==
    /\ Idle(t)
    /\ registered # NoInstance
    /\ at' = [at EXCEPT ![t] = "lock_stop"]
    /\ call' = [call EXCEPT ![t] = "stop"]
    /\ service' = [service EXCEPT ![t] = registered]
    /\ UNCHANGED <<vars, structVars, crashed>>

(* The mutex is NULL. *)
Crash(t) ==
    /\ at[t] = "lock_stop"
    /\ service[t] \notin initialized
    /\ crashed' = TRUE
    /\ UNCHANGED <<vars, structVars, threadVars>>

(* mutant: every status but "stopped" can be stopped *)
StoppableUnlessStopped(t) == status[service[t]] # "stopped"

Stoppable(t) == status[service[t]] = "running"

(* mutant: the status is "stopped" before the adaptor is *)
LockStopEarly(t) ==
    /\ at[t] = "lock_stop"
    /\ service[t] \in initialized
    /\ mutex[service[t]] = NoClient
    /\ IF Stoppable(t)
       THEN /\ mutex' = [mutex EXCEPT ![service[t]] = t]
            /\ SetStatus(t, "stopped")
            /\ Goes(t, "stop")
       ELSE Leaves(t) /\ UNCHANGED <<mutex, status>>
    /\ UNCHANGED <<vars, registered, allocated, initialized, crashed>>

LockStop(t) ==
    /\ at[t] = "lock_stop"
    /\ service[t] \in initialized
    /\ mutex[service[t]] = NoClient
    /\ IF Stoppable(t)
       THEN /\ mutex' = [mutex EXCEPT ![service[t]] = t]
            /\ SetStatus(t, "stopping")
            /\ Goes(t, "stop")
       ELSE Leaves(t) /\ UNCHANGED <<mutex, status>>   (* throws *)
    /\ UNCHANGED <<vars, registered, allocated, initialized, crashed>>

StopAdaptor(t) ==
    /\ at[t] = "stop"
    /\ Stop(t)
    /\ Goes(t, "stopping")
    /\ UNCHANGED <<structVars, crashed>>

Stopped(t) ==
    /\ at[t] = "stopping"
    /\ pc[t] = "idle"
    /\ SetStatus(t, "stopped")
    /\ Unlock(t)
    /\ Leaves(t)
    /\ UNCHANGED <<vars, registered, allocated, initialized, crashed>>

-----------------------------------------------------------------------------
(* Sessions of the adaptor *)

OpenSession(t) ==
    /\ Idle(t)
    /\ GetReference(t) \/ FindNone(t)
    /\ UNCHANGED serviceVars

LookAgain(t) ==
    /\ at[t] = "out"
    /\ pc[t] = "retry"
    /\ GetReference(t) \/ NotAvailable(t)
    /\ UNCHANGED serviceVars

UseSession(t) ==
    /\ CreateSession(t) \/ CreateSessionThrows(t) \/ CloseSession(t)
    /\ UNCHANGED serviceVars

Retire(t) ==
    /\ ReleaseRetired(t) \/ Destroy(t)
    /\ UNCHANGED serviceVars

-----------------------------------------------------------------------------
Begin(t) ==
    \/ CallStart(t) \/ StartInitial(t) \/ StartFromConf(t)
    \/ CallRestart(t) \/ CallStop(t) \/ OpenSession(t)

Continue(t) ==
    \/ Autostart(t) \/ NoConf(t) \/ Allocate(t) \/ Ignore(t) \/ Register(t)
    \/ InitializeThrows(t) \/ Initialize(t) \/ LockStart(t)
    \/ CreateThrows(t) \/ Create(t) \/ MakeActive(t) \/ Running(t) \/ Catch(t)
    \/ Crash(t) \/ LockStop(t) \/ StopAdaptor(t) \/ Stopped(t)
    \/ LookAgain(t) \/ UseSession(t) \/ Retire(t)

ServiceNext ==
    \/ ~crashed /\ \E t \in Clients : Begin(t) \/ Continue(t)
    \/ crashed /\ UNCHANGED allVars

ServiceSpec == ServiceInit /\ [][ServiceNext]_allVars

(* A thread inside a call goes on; nobody has to begin one. *)
FairServiceSpec ==
    ServiceSpec /\ \A t \in Clients : WF_allVars(~crashed /\ Continue(t))
-----------------------------------------------------------------------------
(* Properties *)

(* The adaptor in use always belongs to a struct that says so: the status of
   the active instance's struct is never "stopped" or "error", whatever calls
   overlap, although the registry may name another struct. *)
ActiveStructSaysSo ==
    IsActive(anchor) =>
        status[ActiveInstance(anchor)] \in
            {"starting", "restarting", "running", "stopping"}

(* A struct goes through its life once: no overlap of calls takes a service
   that is stopped or in error back, or a running one to anything but a stop,
   and a status is not changed by a thread while another has the mutex. *)
Life ==
    {<<"error", "ready_to_start">>, <<"ready_to_start", "starting">>,
     <<"ready_to_start", "restarting">>, <<"starting", "running">>,
     <<"restarting", "running">>, <<"starting", "error">>,
     <<"restarting", "error">>, <<"running", "stopping">>,
     <<"stopping", "stopped">>}

LivesOnce ==
    [][\A i \in Instances :
          status'[i] # status[i] =>
              /\ <<status[i], status'[i]>> \in Life
              /\ mutex[i] # NoClient => at'[mutex[i]] # at[mutex[i]]]_allVars

(* The process only ever crashes on a service that is in error. *)
CrashOnlyInError ==
    crashed => \E t \in Clients :
                  at[t] = "lock_stop" /\ status[service[t]] = "error"

(* The descriptions of the statuses in AFW_SERVICE_STATUS_MAP, for the status
   that the registry shows: "Service is running." *)
RunningMeansActive == RegisteredIn({"running"}) => IsActive(anchor)

(* "Service is stopped and can be started manually." *)
StoppedMeansInactive == RegisteredIn({"stopped"}) => ~IsActive(anchor)

(* "Service is not running because of an error." *)
ErrorMeansInactive == RegisteredIn({"error"}) => ~IsActive(anchor)

(* The registry's status is true of the adaptor. *)
StatusTruthful ==
    RunningMeansActive /\ StoppedMeansInactive /\ ErrorMeansInactive

(* Every call ends, those of sessions that start the service included, with
   threads waiting for each other's mutexes, unless the process crashes. *)
InCall(t) == at[t] # "out" \/ pc[t] \notin {"idle", "open"}

CallsEnd == \A t \in Clients : InCall(t) ~> (~InCall(t) \/ crashed)

(* An instance that a restart or a stop has replaced is destroyed once its
   sessions are closed, unless a reference to it was lost by a session
   creation that threw; calls of the service layer that nest and wait for
   each other's mutexes do not keep it. *)
RetiredIsDestroyed ==
    \A i \in Instances :
        Retired(i) ~> (i \in destroyed \/ leaked[i] > 0 \/ crashed)

-----------------------------------------------------------------------------
(* The inductive invariant behind ActiveStructSaysSo. *)

(* Where a thread has a new struct for itself. *)
StartLocations == {"register", "init", "lock", "create", "active", "catch"}

StopLocations == {"stop", "stopping"}

(* The struct of a start or restart is no other start's, is not running yet,
   and has no instance before the thread has created it. *)
StartsOwnStruct ==
    \A t \in Clients :
        at[t] \in StartLocations =>
            /\ service[t] \in allocated
            /\ status[service[t]] \in
                  {"error", "ready_to_start", "starting", "restarting"}
            /\ at[t] \in {"create", "active"} =>
                  status[service[t]] \in {"starting", "restarting"}
            /\ at[t] # "active" => service[t] \notin created
            /\ \A u \in Clients :
                  at[u] \in StartLocations /\ service[u] = service[t] => u = t

(* A struct is stopped by one thread: a second one finds it not running. *)
StopsOwnStruct ==
    \A t \in Clients :
        at[t] \in StopLocations =>
            /\ service[t] \in allocated
            /\ status[service[t]] = "stopping"
            /\ \A u \in Clients :
                  at[u] \in StopLocations /\ service[u] = service[t] => u = t

(* What a thread activates is the instance of its own struct. *)
ActivatesOwnStruct ==
    \A t \in Clients :
        pc[t] = "activating" => at[t] = "active" /\ instance[t] = service[t]

UnallocatedInError == \A i \in Instances \ allocated : status[i] = "error"

(* While the struct of the active instance is stopping, the thread that stops
   it has not been at the anchor yet. *)
ActiveOrStopAhead ==
    IsActive(anchor) =>
        LET i == ActiveInstance(anchor)
        IN  \/ status[i] \in {"starting", "restarting", "running"}
            \/ /\ status[i] = "stopping"
               /\ \E t \in Clients : at[t] = "stop" /\ service[t] = i

StructInv ==
    /\ ServiceTypeOK
    /\ created \subseteq allocated
    /\ UnallocatedInError
    /\ StartsOwnStruct
    /\ StopsOwnStruct
    /\ ActivatesOwnStruct
    /\ ActiveOrStopAhead

(* Where a thread has the mutex of its struct. *)
MutexLocations == {"create", "active", "stop", "stopping"}

(* The status of a struct is where its start has got to. *)
StatusFollowsStart ==
    \A t \in Clients :
        /\ at[t] \in {"register", "init"} => status[service[t]] = "error"
        /\ at[t] = "lock" => status[service[t]] = "ready_to_start"
        /\ at[t] = "catch" => status[service[t]] \in {"error", "starting", "restarting"}
        /\ at[t] = "lock_stop" => service[t] \in Instances

MutexIsOwned ==
    /\ \A i \in Instances : mutex[i] # NoClient =>
          at[mutex[i]] \in MutexLocations /\ service[mutex[i]] = i
    /\ \A t \in Clients : at[t] \in MutexLocations => mutex[service[t]] = t

UninitializedInError == \A i \in Instances \ initialized : status[i] = "error"

LifeInv == StatusFollowsStart /\ MutexIsOwned /\ UninitializedInError /\ CrashOnlyInError

ServiceInv == StructInv /\ LifeInv
=============================================================================
