---------------------------- MODULE ServiceProofs ----------------------------
(***************************************************************************)
(* What TLAPS proves about a service, for any number of threads, structs   *)
(* and instances: it uses the anchor only as AdaptorAnchor says, the       *)
(* active instance always belongs to a struct whose status says so, a      *)
(* struct goes through its life once, the process crashes only on a        *)
(* service that is in error, and until calls overlap the registry tells    *)
(* the truth of the adaptor.                                               *)
(***************************************************************************)
EXTENDS ServiceAlone, AdaptorAnchorProofs

-----------------------------------------------------------------------------
(* The service layer implements the clients of AdaptorAnchor. *)

LEMMA ReturnsToStep ==
    ASSUME NEW t \in Clients, NEW l, ReturnsTo(t, l)
    PROVE  [Next]_vars
BY DEF ReturnsTo, Next

LEMMA BeginStep ==
    ASSUME NEW t \in Clients, Begin(t)
    PROVE  [Next]_vars
BY DEF Begin, CallStart, StartInitial, StartFromConf, CallRestart, CallStop,
       OpenSession, Next

LEMMA ContinueStep ==
    ASSUME NEW t \in Clients, Continue(t)
    PROVE  [Next]_vars
<1>1. CASE Autostart(t) \/ NoConf(t) \/ Ignore(t) \/ Catch(t)
    BY <1>1, ReturnsToStep DEF Autostart, NoConf, Ignore, Catch, Returns, Throws
<1>2. CASE \/ Allocate(t) \/ Register(t) \/ InitializeThrows(t) \/ Initialize(t)
           \/ LockStart(t) \/ CreateThrows(t) \/ Running(t)
           \/ Crash(t) \/ LockStop(t) \/ Stopped(t)
    BY <1>2 DEF Allocate, Register, InitializeThrows, Initialize, LockStart,
                CreateThrows, Running, Crash, LockStop, Stopped
<1>3. CASE Create(t) \/ MakeActive(t) \/ StopAdaptor(t)
    BY <1>3 DEF Create, MakeActive, StopAdaptor, Next
<1>4. CASE LookAgain(t) \/ UseSession(t) \/ Retire(t)
    BY <1>4 DEF LookAgain, UseSession, Retire, Next
<1>5. QED
    BY <1>1, <1>2, <1>3, <1>4 DEF Continue

(* Every step of afw_service.c is a step of a client of the anchor or leaves
   the anchor alone: what is proved about AdaptorAnchor holds for services. *)
THEOREM ServiceImplementsAnchor == ServiceSpec => Spec
<1>1. ServiceInit => Init
    BY DEF ServiceInit
<1>2. [ServiceNext]_allVars => [Next]_vars
    BY BeginStep, ContinueStep DEF ServiceNext, allVars
<1>3. QED
    BY <1>1, <1>2, PTL DEF ServiceSpec, Spec

THEOREM ServiceKeepsAnchor == ServiceSpec => []AnchorInv
BY ServiceImplementsAnchor, AnchorInvariant, PTL

-----------------------------------------------------------------------------
(* What the clients' steps of AdaptorAnchor leave alone. *)

(* A step that activates nothing, as the service layer sees it. *)
Undisturbed ==
    /\ ActiveInstance(anchor)' = ActiveInstance(anchor)
    /\ created' = created
    /\ \A d \in Clients :
          pc'[d] = "activating" =>
              pc[d] = "activating" /\ instance'[d] = instance[d]

LEMMA UnchangedUndisturbed == UNCHANGED vars => Undisturbed
BY DEF vars, Undisturbed, ActiveInstance, Registered

LEMMA GotoUndisturbed ==
    ASSUME TypeOK, NEW c \in Clients, NEW l, NEW x, Goto(c, l, x),
           l # "activating", created' = created,
           ActiveInstance(anchor)' = ActiveInstance(anchor)
    PROVE  Undisturbed
BY GotoAt DEF Undisturbed

LEMMA AddReferenceKeepsActive ==
    ASSUME AnchorInv, IsActive(anchor), anchor' = AddReference(anchor)
    PROVE  ActiveInstance(anchor)' = ActiveInstance(anchor)
<1>1. WellFormed(anchor) /\ anchor \in Seq(Node)
    BY DEF AnchorInv, WellFormed
<1>2. Len(anchor) > 0
    BY DEF IsActive, ActiveInstance, Registered
<1>3. /\ Len(anchor') = Len(anchor)
      /\ \A m \in 1..Len(anchor) : anchor'[m].adaptor = anchor[m].adaptor
    BY <1>1, AddReferenceNodes
<1>4. 1 \in 1..Len(anchor)
    BY <1>1, <1>2
<1>5. anchor'[1].adaptor = anchor[1].adaptor
    BY <1>3, <1>4
<1>6. QED
    BY <1>2, <1>3, <1>5 DEF ActiveInstance, Registered

LEMMA SessionUndisturbed ==
    ASSUME AnchorInv, NEW c \in Clients,
           \/ GetReference(c) \/ FindNone(c) \/ AutostartStartsNothing(c)
           \/ NotAvailable(c) \/ CreateSession(c) \/ CreateSessionThrows(c)
           \/ CloseSession(c) \/ ReleaseRetired(c) \/ Destroy(c)
    PROVE  Undisturbed
<1>1. TypeOK
    BY DEF AnchorInv
<1>2. CASE GetReference(c)
    <2>1. ActiveInstance(anchor)' = ActiveInstance(anchor)
        BY <1>2, AddReferenceKeepsActive DEF GetReference
    <2>2. QED
        BY <1>1, <1>2, <2>1, GotoUndisturbed DEF GetReference
<1>3. CASE AutostartStartsNothing(c)
    <2>1. PICK l \in {"retry", "idle"} : Goto(c, l, NoInstance)
        BY <1>3 DEF AutostartStartsNothing
    <2>2. created' = created /\ ActiveInstance(anchor)' = ActiveInstance(anchor)
        BY <1>3 DEF AutostartStartsNothing, ActiveInstance, Registered
    <2>3. QED
        BY <1>1, <2>1, <2>2, GotoUndisturbed
<1>4. CASE FindNone(c) \/ NotAvailable(c) \/ CreateSession(c)
           \/ CreateSessionThrows(c) \/ Destroy(c)
    <2>1. ActiveInstance(anchor)' = ActiveInstance(anchor) /\ created' = created
        BY <1>4 DEF FindNone, NotAvailable, CreateSession, CreateSessionThrows,
                    Destroy, ActiveInstance, Registered
    <2>2. PICK l, x :
            l \in {"autostart", "idle", "open", "retry"} /\ Goto(c, l, x)
        BY <1>1, <1>4 DEF TypeOK, FindNone, NotAvailable, CreateSession,
                    CreateSessionThrows, Destroy
    <2>3. QED
        BY <1>1, <2>1, <2>2, GotoUndisturbed
<1>5. CASE CloseSession(c) \/ ReleaseRetired(c)
    <2>1. pc[c] \in {"open", "retiring"} /\ ReleaseReference(c)
        BY <1>5 DEF CloseSession, ReleaseRetired
    <2>2. ActiveInstance(anchor)' = ActiveInstance(anchor) /\ created' = created
        BY <2>1, ReleaseKeepsActive DEF ReleaseReference
    <2>3. PICK l, x : l \in {"destroying", "idle", "retry"} /\ Goto(c, l, x)
        BY <1>1, <2>1 DEF TypeOK, ReleaseReference
    <2>4. QED
        BY <1>1, <2>2, <2>3, GotoUndisturbed
<1>6. QED
    BY <1>2, <1>3, <1>4, <1>5

-----------------------------------------------------------------------------
(* The steps of StructInv. *)

(* A thread moves outside of the locations that the invariant is about. *)
LEMMA OutsideStep ==
    ASSUME StructInv, ServiceTypeOK', NEW t \in Clients, Undisturbed,
           UNCHANGED <<allocated, status>>,
           \A u \in Clients \ {t} : at'[u] = at[u] /\ service'[u] = service[u],
           \/ at'[t] = at[t] /\ service'[t] = service[t]
           \/ /\ at[t] \notin StartLocations \cup StopLocations
              /\ at'[t] \notin StartLocations \cup StopLocations
    PROVE  StructInv'
<1> USE DEF StructInv
<1>1. \A u \in Clients :
        (\/ at[u] \in StartLocations \cup StopLocations
         \/ at'[u] \in StartLocations \cup StopLocations)
            => at'[u] = at[u] /\ service'[u] = service[u]
    OBVIOUS
<1>2. created' \subseteq allocated' /\ UnallocatedInError'
    BY DEF Undisturbed, UnallocatedInError
<1>3. StartsOwnStruct'
    BY <1>1 DEF Undisturbed, StartsOwnStruct, StartLocations
<1>4. StopsOwnStruct'
    BY <1>1 DEF StopsOwnStruct, StopLocations
<1>5. ActivatesOwnStruct'
    BY <1>1 DEF Undisturbed, ActivatesOwnStruct, StartLocations
<1>6. ActiveOrStopAhead'
    BY <1>1 DEF Undisturbed, ActiveOrStopAhead, StopLocations, IsActive
<1>7. QED
    BY <1>2, <1>3, <1>4, <1>5, <1>6

(* The active instance has been created, so it is not the struct of a start
   that has not created one, nor unallocated. *)
LEMMA ActiveCreated ==
    ASSUME AnchorInv, IsActive(anchor)
    PROVE  ActiveInstance(anchor) \in Instances \cap created
<1>1. /\ anchor \in Seq(Node) /\ Len(anchor) > 0
      /\ anchor[1].adaptor = ActiveInstance(anchor)
      /\ ActiveInstance(anchor) # NoInstance
    BY DEF AnchorInv, WellFormed, IsActive, ActiveInstance, Registered
<1>2. 1 \in 1..Len(anchor)
    BY <1>1
<1>3. ActiveInstance(anchor) \in Instances
    BY <1>1, <1>2, NodeFields
<1>4. OnAnchor(anchor, ActiveInstance(anchor))
    BY <1>1, <1>2, OnAnchorAt
<1>5. QED
    BY <1>3, <1>4 DEF AnchorInv, LiveOnAnchor

(* A start goes on, ends or fails, and sets the status of its struct. *)
LEMMA StartStep ==
    ASSUME StructInv, AnchorInv, ServiceTypeOK', NEW t \in Clients,
           NEW s, Undisturbed, allocated' = allocated,
           status' = [status EXCEPT ![service[t]] = s],
           at[t] \in StartLocations, pc'[t] # "activating",
           \A u \in Clients \ {t} : at'[u] = at[u] /\ service'[u] = service[u],
           \/ at[t] = "active" /\ s = "running" /\ at'[t] = "out"
           \/ at[t] # "active" /\ at'[t] = "out"
           \/ /\ at[t] # "active"
              /\ at'[t] \in StartLocations \ {"active"}
              /\ service'[t] = service[t]
              /\ s \in {"error", "ready_to_start", "starting", "restarting"}
              /\ at'[t] = "create" => s \in {"starting", "restarting"}
    PROVE  StructInv'
<1> USE DEF StructInv
<1>1. service[t] \in allocated /\ allocated \subseteq Instances
    BY DEF StartsOwnStruct, ServiceTypeOK
<1>2. /\ status'[service[t]] = s
      /\ \A i \in Instances : i # service[t] => status'[i] = status[i]
    BY <1>1 DEF ServiceTypeOK
<1>3. /\ created' \subseteq allocated'
      /\ UnallocatedInError'
    BY <1>1, <1>2 DEF Undisturbed, UnallocatedInError
<1>4. StartsOwnStruct'
    <2>1. ASSUME NEW u \in Clients \ {t}, at[u] \in StartLocations
          PROVE  /\ at'[u] = at[u] /\ service'[u] = service[u]
                 /\ service[u] # service[t] /\ service[u] \in Instances
                 /\ status'[service[u]] = status[service[u]]
        BY <1>1, <1>2, <2>1 DEF StartsOwnStruct
    <2>2. ASSUME at'[t] \in StartLocations
          PROVE  /\ at[t] # "active" /\ at'[t] # "active" /\ service'[t] = service[t]
                 /\ s \in {"error", "ready_to_start", "starting", "restarting"}
                 /\ at'[t] = "create" => s \in {"starting", "restarting"}
        BY <2>2 DEF StartLocations
    <2>3. QED
        BY <1>1, <1>2, <2>1, <2>2 DEF StartsOwnStruct, Undisturbed
<1>5. StopsOwnStruct'
    <2>1. ASSUME NEW u \in Clients, at'[u] \in StopLocations
          PROVE  u # t /\ at[u] \in StopLocations /\ service'[u] = service[u]
        BY <2>1 DEF StopLocations, StartLocations
    <2>2. ASSUME NEW u \in Clients, at[u] \in StopLocations
          PROVE  service[u] # service[t] /\ service[u] \in Instances
        BY <1>1, <2>2 DEF StopsOwnStruct, StartsOwnStruct
    <2>3. QED
        BY <1>2, <2>1, <2>2 DEF StopsOwnStruct
<1>6. ActivatesOwnStruct'
    BY DEF Undisturbed, ActivatesOwnStruct
<1>7. ActiveOrStopAhead'
    <2>1. SUFFICES ASSUME IsActive(anchor)
                   PROVE  ActiveOrStopAhead'
        BY DEF Undisturbed, ActiveOrStopAhead, IsActive
    <2>2. PICK i \in Instances \cap created : i = ActiveInstance(anchor)
        BY <2>1, ActiveCreated
    <2>3. ActiveInstance(anchor)' = i
        BY <2>2 DEF Undisturbed
    <2>4. CASE i = service[t]
        <3>1. s = "running"
            BY <2>2, <2>4 DEF StartsOwnStruct
        <3>2. QED
            BY <1>2, <1>1, <2>3, <2>4, <3>1 DEF ActiveOrStopAhead
    <2>5. CASE i # service[t]
        <3>1. status'[i] = status[i]
            BY <1>2, <2>2, <2>5
        <3>2. \A u \in Clients :
                at[u] = "stop" => at'[u] = "stop" /\ service'[u] = service[u]
            BY DEF StartLocations
        <3>3. QED
            BY <2>1, <2>2, <2>3, <3>1, <3>2 DEF ActiveOrStopAhead
    <2>6. QED
        BY <2>4, <2>5
<1>8. QED
    BY <1>3, <1>4, <1>5, <1>6, <1>7

(* A new struct, of a start or of the application's conf. *)
LEMMA AllocateStep ==
    ASSUME StructInv, ServiceTypeOK', NEW t \in Clients, Undisturbed,
           NEW i \in Instances \ allocated,
           allocated' = allocated \cup {i}, status' = status,
           service' = [service EXCEPT ![t] = i],
           at[t] \notin StartLocations \cup StopLocations,
           \A u \in Clients \ {t} : at'[u] = at[u],
           at'[t] \in {"register", "init"}
    PROVE  StructInv'
<1> USE DEF StructInv
<1>1. service'[t] = i /\ \A u \in Clients \ {t} : service'[u] = service[u]
    BY DEF ServiceTypeOK
<1>2. created' \subseteq allocated' /\ UnallocatedInError'
    BY DEF Undisturbed, UnallocatedInError
<1>3. i \notin created /\ status[i] = "error"
    BY DEF UnallocatedInError
<1>4. StartsOwnStruct'
    BY <1>1, <1>3 DEF Undisturbed, StartsOwnStruct, StartLocations
<1>5. StopsOwnStruct'
    BY <1>1 DEF StopsOwnStruct, StopLocations
<1>6. ActivatesOwnStruct'
    BY <1>1 DEF Undisturbed, ActivatesOwnStruct, StartLocations
<1>7. ActiveOrStopAhead'
    BY <1>1 DEF Undisturbed, ActiveOrStopAhead, StopLocations, IsActive
<1>8. QED
    BY <1>2, <1>4, <1>5, <1>6, <1>7

LEMMA CreateStep ==
    ASSUME StructInv, AnchorInv, ServiceTypeOK', NEW t \in Clients, Create(t)
    PROVE  StructInv'
<1> USE DEF StructInv
<1>1. PICK i \in Instances \ created :
        created' = created \cup {i} /\ Goto(t, "activating", i)
    BY DEF Create, CreateInstance
<1>2. \A u \in Clients :
        /\ pc'[u] = IF u = t THEN "activating" ELSE pc[u]
        /\ instance'[u] = IF u = t THEN i ELSE instance[u]
    BY <1>1, GotoAt DEF AnchorInv
<1>3. i = service[t] /\ i \in allocated
    BY <1>2 DEF Create, StartsOwnStruct, StartLocations
<1>4. /\ at[t] = "create" /\ at'[t] = "active"
      /\ \A u \in Clients \ {t} : at'[u] = at[u]
      /\ UNCHANGED <<service, status, allocated>>
    BY DEF Create, Goes, structVars, ServiceTypeOK
<1>5. ActiveInstance(anchor)' = ActiveInstance(anchor)
    BY DEF Create, CreateInstance, ActiveInstance, Registered
<1>6. created' \subseteq allocated' /\ UnallocatedInError'
    BY <1>1, <1>3, <1>4 DEF UnallocatedInError
<1>7. StartsOwnStruct'
    BY <1>1, <1>3, <1>4 DEF StartsOwnStruct, StartLocations
<1>8. StopsOwnStruct'
    BY <1>4 DEF StopsOwnStruct, StopLocations
<1>9. ActivatesOwnStruct'
    BY <1>2, <1>3, <1>4 DEF ActivatesOwnStruct
<1>10. ActiveOrStopAhead'
    BY <1>4, <1>5 DEF ActiveOrStopAhead, IsActive
<1>11. QED
    BY <1>6, <1>7, <1>8, <1>9, <1>10

(* Where impl_set_instance_active leaves the thread and the anchor. *)
LEMMA SetInstanceActiveAt ==
    ASSUME AnchorInv, NEW c \in Clients, NEW i \in Instances \cup {NoInstance},
           SetInstanceActive(c, i),
           i \in Instances => ~OnAnchor(anchor, i),
           i = NoInstance => Registered(anchor)
    PROVE  /\ ActiveInstance(anchor)' = i
           /\ created' = created
           /\ \A d \in Clients :
                 pc'[d] = "activating" =>
                     d # c /\ pc[d] = "activating" /\ instance'[d] = instance[d]
<1>1. anchor' = SetActive(anchor, i) /\ created' = created
    BY DEF SetInstanceActive
<1>2. Len(anchor') > 0 /\ anchor'[1] = NewNode(i, BaseCount(i))
    BY <1>1, SetActiveNodes DEF AnchorInv
<1>3. ActiveInstance(anchor)' = i
    BY <1>2 DEF ActiveInstance, Registered, NewNode
<1>4. resume[c] # "activating"
    BY DEF AnchorInv, TypeOK
<1>5. PICK l, x : Goto(c, l, x) /\ l # "activating"
    BY <1>4 DEF SetInstanceActive
<1>6. QED
    BY <1>1, <1>3, <1>5, GotoAt DEF AnchorInv

LEMMA MakeActiveStep ==
    ASSUME StructInv, AnchorInv, ServiceTypeOK', NEW t \in Clients, MakeActive(t)
    PROVE  StructInv'
<1> USE DEF StructInv
<1>1. /\ at[t] = "active" /\ instance[t] = service[t]
      /\ instance[t] \in Instances /\ ~OnAnchor(anchor, instance[t])
    BY DEF MakeActive, Activate, ActivatesOwnStruct, AnchorInv, PrivateInstances,
           Private, TypeOK
<1>2. /\ ActiveInstance(anchor)' = service[t]
      /\ created' = created
      /\ \A d \in Clients :
            pc'[d] = "activating" =>
                pc[d] = "activating" /\ instance'[d] = instance[d]
    BY <1>1, SetInstanceActiveAt, NoInstanceAssumption DEF MakeActive, Activate
<1>3. UNCHANGED <<at, service, status, allocated>>
    BY DEF MakeActive, serviceVars, structVars, threadVars
<1>4. UnallocatedInError' /\ StartsOwnStruct' /\ StopsOwnStruct'
    BY <1>2, <1>3 DEF UnallocatedInError, StartsOwnStruct, StopsOwnStruct
<1>5. ActivatesOwnStruct'
    BY <1>2, <1>3 DEF ActivatesOwnStruct
<1>6. ActiveOrStopAhead'
    BY <1>1, <1>2, <1>3 DEF ActiveOrStopAhead, StartsOwnStruct, StartLocations
<1>7. QED
    BY <1>2, <1>3, <1>4, <1>5, <1>6

(* A stop finds the struct running: no start has it, and no other stop. *)
LEMMA LockStopStep ==
    ASSUME StructInv, AnchorInv, ServiceTypeOK', NEW t \in Clients, LockStop(t),
           Stoppable(t)
    PROVE  StructInv'
<1> USE DEF StructInv
<1>1. /\ at[t] = "lock_stop" /\ status[service[t]] = "running"
      /\ service[t] \in allocated /\ service[t] \in Instances
    BY DEF LockStop, Stoppable, ServiceTypeOK
<1>2. /\ UNCHANGED <<vars, service, allocated>>
      /\ at'[t] = "stop"
      /\ \A u \in Clients \ {t} : at'[u] = at[u]
      /\ status' = [status EXCEPT ![service[t]] = "stopping"]
    BY DEF LockStop, Goes, SetStatus, ServiceTypeOK
<1>3. /\ status'[service[t]] = "stopping"
      /\ \A i \in Instances : i # service[t] => status'[i] = status[i]
    BY <1>1, <1>2 DEF ServiceTypeOK
<1>4. Undisturbed /\ created' = created
    BY <1>2, UnchangedUndisturbed DEF Undisturbed
<1>5. created' \subseteq allocated' /\ UnallocatedInError'
    BY <1>1, <1>2, <1>3, <1>4 DEF UnallocatedInError
<1>6. StartsOwnStruct'
    <2>1. ASSUME NEW u \in Clients, at'[u] \in StartLocations
          PROVE  /\ at[u] = at'[u] /\ at[u] \in StartLocations
                 /\ status'[service[u]] = status[service[u]]
        <3>1. u # t
            BY <1>2, <2>1 DEF StartLocations
        <3>2. at[u] = at'[u] /\ at[u] \in StartLocations
            BY <1>2, <2>1, <3>1
        <3>3. service[u] \in Instances /\ service[u] # service[t]
            BY <1>1, <3>2 DEF StartsOwnStruct, ServiceTypeOK
        <3>4. QED
            BY <1>3, <3>2, <3>3
    <2>2. QED
        BY <1>2, <1>4, <2>1 DEF StartsOwnStruct
<1>7. StopsOwnStruct'
    <2>1. ASSUME NEW u \in Clients, at[u] \in StopLocations
          PROVE  service[u] # service[t] /\ service[u] \in Instances
        BY <1>1, <2>1 DEF StopsOwnStruct, ServiceTypeOK
    <2>2. ASSUME NEW u \in Clients, at'[u] \in StopLocations, u # t
          PROVE  at[u] \in StopLocations
        BY <1>2, <2>2
    <2>3. QED
        BY <1>1, <1>2, <1>3, <2>1, <2>2 DEF StopsOwnStruct
<1>8. ActivatesOwnStruct'
    BY <1>1, <1>2, <1>4 DEF Undisturbed, ActivatesOwnStruct
<1>9. ActiveOrStopAhead'
    <2>1. SUFFICES ASSUME IsActive(anchor) PROVE ActiveOrStopAhead'
        BY <1>4 DEF Undisturbed, ActiveOrStopAhead, IsActive
    <2>2. PICK i \in Instances : i = ActiveInstance(anchor)
        BY <2>1, ActiveCreated
    <2>3. ActiveInstance(anchor)' = i
        BY <1>4, <2>2 DEF Undisturbed
    <2>4. CASE i = service[t]
        BY <1>2, <1>3, <2>3, <2>4 DEF ActiveOrStopAhead
    <2>5. CASE i # service[t]
        <3>1. status'[i] = status[i]
            BY <1>3, <2>5
        <3>2. \A u \in Clients : at[u] = "stop" => at'[u] = "stop"
            BY <1>2
        <3>3. QED
            BY <1>2, <2>1, <2>2, <2>3, <3>1, <3>2 DEF ActiveOrStopAhead
    <2>6. QED
        BY <2>4, <2>5
<1>10. QED
    BY <1>5, <1>6, <1>7, <1>8, <1>9

LEMMA StopAdaptorStep ==
    ASSUME StructInv, AnchorInv, ServiceTypeOK', NEW t \in Clients, StopAdaptor(t)
    PROVE  StructInv'
<1> USE DEF StructInv
<1>1. /\ at[t] = "stop" /\ at'[t] = "stopping"
      /\ \A u \in Clients \ {t} : at'[u] = at[u]
      /\ UNCHANGED <<service, status, allocated>>
    BY DEF StopAdaptor, Goes, structVars, ServiceTypeOK
<1>2. /\ ActiveInstance(anchor)' = NoInstance
      /\ created' = created
      /\ \A d \in Clients :
            pc'[d] = "activating" =>
                d # t /\ pc[d] = "activating" /\ instance'[d] = instance[d]
    BY SetInstanceActiveAt, NoInstanceAssumption DEF StopAdaptor, Stop
<1>3. UnallocatedInError' /\ StartsOwnStruct' /\ StopsOwnStruct'
    BY <1>1, <1>2 DEF UnallocatedInError, StartsOwnStruct, StopsOwnStruct,
                      StartLocations, StopLocations
<1>4. ActivatesOwnStruct' /\ ActiveOrStopAhead'
    BY <1>1, <1>2 DEF ActivatesOwnStruct, ActiveOrStopAhead, IsActive
<1>5. QED
    BY <1>1, <1>2, <1>3, <1>4

(* The struct that becomes "stopped" is not the active one: its own thread has
   been at the anchor, and no other thread stops it. *)
LEMMA StoppedStep ==
    ASSUME StructInv, AnchorInv, ServiceTypeOK', NEW t \in Clients, Stopped(t)
    PROVE  StructInv'
<1> USE DEF StructInv
<1>1. /\ at[t] = "stopping" /\ status[service[t]] = "stopping"
      /\ service[t] \in allocated /\ service[t] \in Instances
    BY DEF Stopped, StopsOwnStruct, StopLocations, ServiceTypeOK
<1>2. /\ UNCHANGED <<vars, allocated>>
      /\ at'[t] = "out"
      /\ \A u \in Clients \ {t} : at'[u] = at[u] /\ service'[u] = service[u]
      /\ status' = [status EXCEPT ![service[t]] = "stopped"]
    BY DEF Stopped, Leaves, SetStatus, ServiceTypeOK
<1>3. /\ status'[service[t]] = "stopped"
      /\ \A i \in Instances : i # service[t] => status'[i] = status[i]
    BY <1>1, <1>2 DEF ServiceTypeOK
<1>4. Undisturbed /\ created' = created
    BY <1>2, UnchangedUndisturbed DEF Undisturbed
<1>5. created' \subseteq allocated' /\ UnallocatedInError'
    BY <1>1, <1>2, <1>3, <1>4 DEF UnallocatedInError
<1>6. \A u \in Clients \ {t} :
        at[u] \in StartLocations \cup StopLocations =>
            service[u] \in Instances /\ service[u] # service[t]
    BY <1>1 DEF StartsOwnStruct, StopsOwnStruct, StopLocations, ServiceTypeOK
<1>7. StartsOwnStruct' /\ StopsOwnStruct'
    BY <1>2, <1>3, <1>4, <1>6 DEF StartsOwnStruct, StopsOwnStruct, StartLocations,
                                  StopLocations
<1>8. ActivatesOwnStruct'
    BY <1>1, <1>2, <1>4 DEF Undisturbed, ActivatesOwnStruct
<1>9. ActiveOrStopAhead'
    <2>1. SUFFICES ASSUME IsActive(anchor) PROVE ActiveOrStopAhead'
        BY <1>4 DEF Undisturbed, ActiveOrStopAhead, IsActive
    <2>2. PICK i \in Instances : i = ActiveInstance(anchor)
        BY <2>1, ActiveCreated
    <2>3. i # service[t]
        BY <1>1, <1>6, <2>1, <2>2 DEF ActiveOrStopAhead, StopLocations
    <2>4. \A u \in Clients :
            at[u] = "stop" => at'[u] = "stop" /\ service'[u] = service[u]
        BY <1>1, <1>2
    <2>5. QED
        BY <1>3, <1>4, <2>1, <2>2, <2>3, <2>4 DEF ActiveOrStopAhead, Undisturbed
<1>10. QED
    BY <1>5, <1>7, <1>8, <1>9

-----------------------------------------------------------------------------
LEMMA LeavesType ==
    ASSUME ServiceTypeOK, NEW t \in Clients, Leaves(t),
           UNCHANGED <<registered, allocated, initialized, mutex, crashed>>,
           status' \in [Instances -> Status]
    PROVE  ServiceTypeOK'
BY DEF ServiceTypeOK, Leaves

LEMMA ServiceTypeBegin ==
    ASSUME ServiceTypeOK, NEW t \in Clients, Begin(t)
    PROVE  ServiceTypeOK'
<1> USE DEF ServiceTypeOK, structVars, StartCalls
<1>1. CASE CallStart(t) \/ StartInitial(t) \/ CallRestart(t)
    BY <1>1 DEF CallStart, StartInitial, CallRestart, Begins
<1>2. CASE StartFromConf(t)
    BY <1>2 DEF StartFromConf
<1>3. CASE CallStop(t)
    BY <1>3 DEF CallStop
<1>4. CASE OpenSession(t)
    BY <1>4 DEF OpenSession, serviceVars, threadVars
<1>5. QED
    BY <1>1, <1>2, <1>3, <1>4 DEF Begin

LEMMA ServiceTypeContinue ==
    ASSUME ServiceTypeOK, StartsOwnStruct, NEW t \in Clients, Continue(t)
    PROVE  ServiceTypeOK'
<1> USE DEF ServiceTypeOK, structVars, StartCalls
<1>1. ASSUME NEW l, ReturnsTo(t, l),
             UNCHANGED <<registered, allocated, initialized, mutex, crashed>>,
             status' \in [Instances -> Status]
      PROVE  ServiceTypeOK'
    BY <1>1, LeavesType DEF ReturnsTo
<1>2. CASE Autostart(t)
    BY <1>1, <1>2 DEF Autostart, Begins, Throws
<1>3. CASE NoConf(t) \/ Ignore(t)
    BY <1>1, <1>3 DEF NoConf, Ignore, Returns, Throws
<1>4. CASE Catch(t)
    BY <1>1, <1>4 DEF Catch, Returns, Throws, SetStatus, Status
<1>5. CASE Allocate(t)
    BY <1>5 DEF Allocate
<1>6. CASE Register(t) \/ InitializeThrows(t)
    BY <1>6 DEF Register, InitializeThrows, Goes
<1>7. CASE Initialize(t)
    <2>1. service[t] \in allocated
        BY <1>7 DEF Initialize, StartsOwnStruct, StartLocations
    <2>2. QED
        BY <1>7, <2>1 DEF Initialize, Goes, SetStatus, Status
<1>8. CASE LockStart(t)
    BY <1>8 DEF LockStart, Goes, SetStatus, Status
<1>9. CASE CreateThrows(t) \/ Create(t)
    BY <1>9 DEF CreateThrows, Create, Goes, Unlock
<1>10. CASE Running(t) \/ Stopped(t)
    BY <1>10 DEF Running, Stopped, SetStatus, Unlock, Leaves, Status
<1>11. CASE Crash(t)
    BY <1>11 DEF Crash, threadVars
<1>12. CASE LockStop(t)
    BY <1>12 DEF LockStop, SetStatus, Goes, Leaves, Status
<1>13. CASE StopAdaptor(t)
    BY <1>13 DEF StopAdaptor, Goes
<1>14. CASE MakeActive(t) \/ LookAgain(t) \/ UseSession(t) \/ Retire(t)
    BY <1>14 DEF MakeActive, LookAgain, UseSession, Retire, serviceVars, threadVars
<1>15. QED
    BY <1>2, <1>3, <1>4, <1>5, <1>6, <1>7, <1>8, <1>9, <1>10, <1>11, <1>12,
       <1>13, <1>14 DEF Continue

-----------------------------------------------------------------------------
LEMMA ReturnsToUndisturbed ==
    ASSUME AnchorInv, NEW t \in Clients, NEW l, ReturnsTo(t, l)
    PROVE  Undisturbed
BY SessionUndisturbed, UnchangedUndisturbed DEF ReturnsTo

LEMMA LeavesAt ==
    ASSUME ServiceTypeOK, NEW t \in Clients, Leaves(t)
    PROVE  /\ at'[t] = "out"
           /\ \A u \in Clients \ {t} : at'[u] = at[u] /\ service'[u] = service[u]
BY DEF ServiceTypeOK, Leaves

LEMMA GoesAt ==
    ASSUME ServiceTypeOK, NEW t \in Clients, NEW l, Goes(t, l)
    PROVE  /\ at'[t] = l
           /\ service' = service
           /\ \A u \in Clients \ {t} : at'[u] = at[u]
BY DEF ServiceTypeOK, Goes

LEMMA BeginInv ==
    ASSUME StructInv, AnchorInv, NEW t \in Clients, Begin(t)
    PROVE  StructInv'
<1>1. ServiceTypeOK /\ ServiceTypeOK'
    BY ServiceTypeBegin DEF StructInv
<1>2. CASE CallStart(t) \/ StartInitial(t) \/ CallRestart(t)
    <2>1. /\ UNCHANGED <<vars, allocated, status, service>>
          /\ at[t] = "out" /\ at'[t] \in {"start_cb", "restart_cb"}
          /\ \A u \in Clients \ {t} : at'[u] = at[u]
        BY <1>1, <1>2 DEF CallStart, StartInitial, CallRestart, Begins, structVars,
                          Idle, ServiceTypeOK
    <2>2. QED
        BY <1>1, <2>1, OutsideStep, UnchangedUndisturbed
        DEF StartLocations, StopLocations
<1>3. CASE CallStop(t)
    <2>1. /\ UNCHANGED <<vars, allocated, status>>
          /\ at[t] = "out" /\ at'[t] = "lock_stop"
          /\ \A u \in Clients \ {t} : at'[u] = at[u] /\ service'[u] = service[u]
        BY <1>1, <1>3 DEF CallStop, structVars, Idle, ServiceTypeOK
    <2>2. QED
        BY <1>1, <2>1, OutsideStep, UnchangedUndisturbed
        DEF StartLocations, StopLocations
<1>4. CASE OpenSession(t)
    BY <1>1, <1>4, OutsideStep, SessionUndisturbed
    DEF OpenSession, serviceVars, structVars, threadVars
<1>5. CASE StartFromConf(t)
    <2>1. /\ UNCHANGED <<vars, status>>
          /\ allocated = {}
          /\ at[t] = "out" /\ at'[t] = "init"
          /\ \A u \in Clients \ {t} : at'[u] = at[u]
        BY <1>1, <1>5 DEF StartFromConf, Idle, ServiceTypeOK
    <2>2. PICK i \in Instances :
            allocated' = {i} /\ service' = [service EXCEPT ![t] = i]
        BY <1>5 DEF StartFromConf
    <2>3. QED
        BY <1>1, <2>1, <2>2, AllocateStep, UnchangedUndisturbed
        DEF StartLocations, StopLocations
<1>6. QED
    BY <1>2, <1>3, <1>4, <1>5 DEF Begin

LEMMA ContinueInv ==
    ASSUME StructInv, AnchorInv, NEW t \in Clients, Continue(t)
    PROVE  StructInv'
<1>1. ServiceTypeOK /\ ServiceTypeOK'
    BY ServiceTypeContinue DEF StructInv
<1>2. ASSUME at[t] \in StartLocations
      PROVE  /\ service[t] \in Instances /\ service[t] \in allocated
             /\ status = [status EXCEPT ![service[t]] = status[service[t]]]
             /\ status[service[t]] \in
                    {"error", "ready_to_start", "starting", "restarting"}
    BY <1>1, <1>2 DEF StructInv, StartsOwnStruct, ServiceTypeOK
<1>3. CASE Autostart(t)
    <2>1. UNCHANGED <<allocated, status>> /\ at[t] = "out"
        BY <1>3 DEF Autostart, structVars
    <2>2. CASE Begins(t, "auto", "start_cb") /\ UNCHANGED vars
        <3>1. /\ at'[t] = "start_cb" /\ service' = service
              /\ \A u \in Clients \ {t} : at'[u] = at[u]
            BY <1>1, <2>2 DEF Begins, ServiceTypeOK
        <3>2. QED
            BY <1>1, <2>1, <2>2, <3>1, OutsideStep, UnchangedUndisturbed
            DEF StartLocations, StopLocations
    <2>3. CASE Throws(t)
        BY <1>1, <2>1, <2>3, LeavesAt, OutsideStep, ReturnsToUndisturbed
        DEF Throws, ReturnsTo, StartLocations, StopLocations
    <2>4. QED
        BY <1>3, <2>2, <2>3 DEF Autostart
<1>4. CASE NoConf(t) \/ Ignore(t)
    <2>1. PICK l : ReturnsTo(t, l)
        BY <1>4 DEF NoConf, Ignore, Returns, Throws
    <2>2. UNCHANGED <<allocated, status>> /\ at[t] \in {"start_cb", "restart_cb"}
        BY <1>4 DEF NoConf, Ignore, structVars
    <2>3. QED
        BY <1>1, <2>1, <2>2, LeavesAt, OutsideStep, ReturnsToUndisturbed
        DEF ReturnsTo, StartLocations, StopLocations
<1>5. CASE Allocate(t)
    <2>1. PICK i \in Instances \ allocated :
            allocated' = allocated \cup {i} /\ service' = [service EXCEPT ![t] = i]
        BY <1>5 DEF Allocate
    <2>2. /\ UNCHANGED <<vars, status>>
          /\ at[t] \in {"start_cb", "restart_cb"} /\ at'[t] \in {"register", "init"}
          /\ \A u \in Clients \ {t} : at'[u] = at[u]
        BY <1>1, <1>5 DEF Allocate, ServiceTypeOK
    <2>3. QED
        BY <1>1, <2>1, <2>2, AllocateStep, UnchangedUndisturbed
        DEF StartLocations, StopLocations
<1>6. CASE Register(t) \/ InitializeThrows(t) \/ CreateThrows(t)
    <2>1. /\ UNCHANGED <<vars, allocated, status>>
          /\ at[t] \in {"register", "init", "create"}
          /\ \E l \in {"init", "catch"} : Goes(t, l)
        BY <1>6 DEF Register, InitializeThrows, CreateThrows, structVars
    <2>2. /\ service' = service /\ at'[t] \in {"init", "catch"}
          /\ \A u \in Clients \ {t} : at'[u] = at[u]
        BY <1>1, <2>1, GoesAt
    <2>3. pc'[t] # "activating"
        BY <2>1 DEF StructInv, ActivatesOwnStruct, vars
    <2>4. QED
        BY <1>1, <1>2, <2>1, <2>2, <2>3, StartStep, UnchangedUndisturbed
        DEF StartLocations
<1>7. CASE Initialize(t) \/ LockStart(t)
    <2>1. /\ UNCHANGED <<vars, allocated>>
          /\ \/ at[t] = "init" /\ Goes(t, "lock") /\ SetStatus(t, "ready_to_start")
             \/ at[t] = "lock" /\ Goes(t, "create") /\
                   (SetStatus(t, "restarting") \/ SetStatus(t, "starting"))
        BY <1>7 DEF Initialize, LockStart
    <2>2. PICK s \in {"ready_to_start", "starting", "restarting"} :
            /\ status' = [status EXCEPT ![service[t]] = s]
            /\ at'[t] \in {"lock", "create"}
            /\ at'[t] = "create" => s \in {"starting", "restarting"}
        BY <1>1, <2>1, GoesAt DEF SetStatus
    <2>3. /\ at[t] \in {"init", "lock"} /\ service' = service
          /\ \A u \in Clients \ {t} : at'[u] = at[u]
        BY <1>1, <2>1, GoesAt
    <2>4. pc'[t] # "activating"
        BY <2>1, <2>3 DEF StructInv, ActivatesOwnStruct, vars
    <2>5. QED
        BY <1>1, <2>1, <2>2, <2>3, <2>4, StartStep, UnchangedUndisturbed
        DEF StartLocations
<1>8. CASE Running(t)
    <2>1. /\ UNCHANGED <<vars, allocated>> /\ at[t] = "active"
          /\ pc[t] \in {"idle", "retry"}
          /\ Leaves(t) /\ status' = [status EXCEPT ![service[t]] = "running"]
        BY <1>8 DEF Running, SetStatus
    <2>2. pc'[t] # "activating"
        BY <2>1 DEF vars
    <2>3. QED
        BY <1>1, <2>1, <2>2, LeavesAt, StartStep, UnchangedUndisturbed
        DEF StartLocations
<1>9. CASE Catch(t)
    <2>1. at[t] = "catch" /\ allocated' = allocated /\ Leaves(t)
        BY <1>9 DEF Catch, Returns, Throws, ReturnsTo
    <2>2. PICK s : status' = [status EXCEPT ![service[t]] = s]
        BY <1>2, <1>9, <2>1 DEF Catch, SetStatus, StartLocations
    <2>3. Undisturbed
        BY <1>9, ReturnsToUndisturbed DEF Catch, Returns, Throws
    <2>4. pc'[t] # "activating"
        BY <2>1, <2>3 DEF Undisturbed, StructInv, ActivatesOwnStruct
    <2>5. QED
        BY <1>1, <2>1, <2>2, <2>3, <2>4, LeavesAt, StartStep DEF StartLocations
<1>10. CASE Crash(t) \/ LookAgain(t) \/ UseSession(t) \/ Retire(t)
    <2>1. UNCHANGED <<allocated, status, at, service>>
        BY <1>10 DEF Crash, LookAgain, UseSession, Retire, serviceVars, structVars,
                     threadVars
    <2>2. Undisturbed
        BY <1>10, SessionUndisturbed, UnchangedUndisturbed
        DEF Crash, LookAgain, UseSession, Retire
    <2>3. QED
        BY <1>1, <2>1, <2>2, OutsideStep
<1>11. CASE LockStop(t)
    <2>1. CASE Stoppable(t)
        BY <1>1, <1>11, <2>1, LockStopStep
    <2>2. CASE ~Stoppable(t)
        <3>1. /\ UNCHANGED <<vars, allocated, status>>
              /\ at[t] = "lock_stop" /\ Leaves(t)
            BY <1>11, <2>2 DEF LockStop
        <3>2. QED
            BY <1>1, <3>1, LeavesAt, OutsideStep, UnchangedUndisturbed
            DEF StartLocations, StopLocations
    <2>3. QED
        BY <2>1, <2>2
<1>12. QED
    BY <1>1, <1>3, <1>4, <1>5, <1>6, <1>7, <1>8, <1>9, <1>10, <1>11,
       CreateStep, MakeActiveStep, StopAdaptorStep, StoppedStep DEF Continue

LEMMA ServiceInitInv == ServiceInit => StructInv
<1> SUFFICES ASSUME ServiceInit PROVE StructInv
    OBVIOUS
<1>1. ServiceTypeOK
    BY DEF ServiceInit, ServiceTypeOK, Status
<1>2. created \subseteq allocated /\ UnallocatedInError
    BY DEF ServiceInit, Init, UnallocatedInError
<1>3. StartsOwnStruct /\ StopsOwnStruct /\ ActivatesOwnStruct
    BY DEF ServiceInit, Init, StartsOwnStruct, StopsOwnStruct, ActivatesOwnStruct,
           StartLocations, StopLocations
<1>4. ActiveOrStopAhead
    BY DEF ServiceInit, Init, ActiveOrStopAhead, IsActive, ActiveInstance, Registered
<1>5. QED
    BY <1>1, <1>2, <1>3, <1>4 DEF StructInv

LEMMA ServiceStutterInv ==
    ASSUME StructInv, UNCHANGED allVars
    PROVE  StructInv'
<1>1. UNCHANGED <<allocated, status, at, service, vars>>
    BY DEF allVars, serviceVars, structVars, threadVars
<1>2. ServiceTypeOK'
    BY DEF StructInv, ServiceTypeOK, allVars, serviceVars, structVars, threadVars
<1>3. created' \subseteq allocated' /\ UnallocatedInError'
    BY <1>1 DEF StructInv, UnallocatedInError, vars
<1>4. StartsOwnStruct' /\ StopsOwnStruct' /\ ActivatesOwnStruct'
    BY <1>1 DEF StructInv, StartsOwnStruct, StopsOwnStruct, ActivatesOwnStruct, vars
<1>5. ActiveOrStopAhead'
    BY <1>1 DEF StructInv, ActiveOrStopAhead, IsActive, ActiveInstance, Registered,
                vars
<1>6. QED
    BY <1>2, <1>3, <1>4, <1>5 DEF StructInv

(* The struct of a start is its own until it runs, and the struct of the
   active instance is not stopped before the anchor has been emptied. *)
THEOREM StructInvariant == ServiceSpec => []StructInv
<1>1. StructInv /\ AnchorInv /\ [ServiceNext]_allVars => StructInv'
    BY BeginInv, ContinueInv, ServiceStutterInv DEF ServiceNext
<1>2. QED
    BY <1>1, ServiceInitInv, ServiceKeepsAnchor, PTL DEF ServiceSpec

(* Whatever starts, stops, restarts and autostarts overlap: the adaptor in use
   belongs to a struct with status starting, restarting, running or stopping. *)
THEOREM ActiveStructAlwaysSaysSo == ServiceSpec => []ActiveStructSaysSo
<1>1. StructInv => ActiveStructSaysSo
    BY DEF StructInv, ActiveOrStopAhead, ActiveStructSaysSo
<1>2. QED
    BY <1>1, StructInvariant, PTL
-----------------------------------------------------------------------------
(* The structs of a service and their mutexes *)


(* The locations that LifeInv says something about. *)
Tracked == {"register", "init", "lock", "catch", "lock_stop"} \cup MutexLocations

(* What LivesOnce says of a step. *)
LifeStep ==
    \A i \in Instances :
        status'[i] # status[i] =>
            /\ <<status[i], status'[i]>> \in Life
            /\ mutex[i] # NoClient => at'[mutex[i]] # at[mutex[i]]

(* Only t moves. *)
OnlyMoves(t) ==
    \A u \in Clients \ {t} : at'[u] = at[u] /\ service'[u] = service[u]

LEMMA MutexOwner ==
    ASSUME ServiceInv, NEW i \in Instances
    PROVE  \/ mutex[i] = NoClient
           \/ mutex[i] \in Clients /\ at[mutex[i]] \in MutexLocations /\ service[mutex[i]] = i
BY DEF ServiceInv, StructInv, ServiceTypeOK, LifeInv, MutexIsOwned

(* A thread that is outside of the locations stays there, or does not move. *)
LEMMA QuietLife ==
    ASSUME ServiceInv, NEW t \in Clients, OnlyMoves(t),
           UNCHANGED <<status, initialized, mutex>>,
           \/ at'[t] = at[t] /\ service'[t] = service[t]
           \/ at[t] \notin MutexLocations /\ at'[t] \notin Tracked
           \/ /\ at[t] \notin MutexLocations /\ at'[t] = "lock_stop"
              /\ service'[t] \in Instances
    PROVE  StatusFollowsStart' /\ MutexIsOwned' /\ UninitializedInError' /\ LifeStep
<1> USE DEF ServiceInv, LifeInv
<1>1. StatusFollowsStart'
    BY DEF StatusFollowsStart, OnlyMoves, Tracked
<1>2. MutexIsOwned'
    <2>1. ASSUME NEW i \in Instances, mutex[i] # NoClient
          PROVE  at'[mutex[i]] \in MutexLocations /\ service'[mutex[i]] = i
        BY <2>1, MutexOwner DEF OnlyMoves
    <2>2. \A u \in Clients : at'[u] \in MutexLocations =>
            at[u] \in MutexLocations /\ service'[u] = service[u]
        BY DEF OnlyMoves, Tracked, MutexLocations
    <2>3. QED
        BY <2>1, <2>2 DEF MutexIsOwned
<1>3. UninitializedInError' /\ LifeStep
    BY DEF UninitializedInError, LifeStep
<1>4. QED
    BY <1>1, <1>2, <1>3

(* A start has a new struct. *)
LEMMA AllocateLife ==
    ASSUME ServiceInv, NEW t \in Clients, OnlyMoves(t),
           UNCHANGED <<status, initialized, mutex>>,
           at[t] \notin MutexLocations, at'[t] \in {"register", "init"},
           service'[t] \in Instances \ allocated
    PROVE  StatusFollowsStart' /\ MutexIsOwned' /\ UninitializedInError' /\ LifeStep
<1> USE DEF ServiceInv, LifeInv
<1>1. StatusFollowsStart'
    BY DEF StatusFollowsStart, OnlyMoves, StructInv, UnallocatedInError
<1>2. MutexIsOwned'
    <2>1. ASSUME NEW i \in Instances, mutex[i] # NoClient
          PROVE  at'[mutex[i]] \in MutexLocations /\ service'[mutex[i]] = i
        BY <2>1, MutexOwner DEF OnlyMoves
    <2>2. \A u \in Clients : at'[u] \in MutexLocations =>
            at[u] \in MutexLocations /\ service'[u] = service[u]
        BY DEF OnlyMoves, MutexLocations
    <2>3. QED
        BY <2>1, <2>2 DEF MutexIsOwned
<1>3. UninitializedInError' /\ LifeStep
    BY DEF UninitializedInError, LifeStep
<1>4. QED
    BY <1>1, <1>2, <1>3

(* The struct of a start that has no mutex locked: nobody has locked it. *)
LEMMA OwnStructUnlocked ==
    ASSUME ServiceInv, NEW t \in Clients,
           at[t] \in {"register", "init", "lock", "catch"}
    PROVE  /\ service[t] \in Instances
           /\ mutex[service[t]] = NoClient
<1> USE DEF ServiceInv
<1>1. /\ service[t] \in Instances /\ at[t] \in StartLocations
      /\ status[service[t]] # "stopping"
    BY DEF StructInv, StartsOwnStruct, StartLocations, ServiceTypeOK
<1>2. ASSUME mutex[service[t]] # NoClient PROVE FALSE
    <2>1. PICK u \in Clients : at[u] \in MutexLocations /\ service[u] = service[t]
        BY <1>1, <1>2, MutexOwner
    <2>2. CASE at[u] \in StopLocations
        BY <1>1, <2>1, <2>2 DEF StructInv, StopsOwnStruct
    <2>3. CASE at[u] \in StartLocations
        BY <1>1, <2>1, <2>3 DEF StructInv, StartsOwnStruct, MutexLocations
    <2>4. QED
        BY <2>1, <2>2, <2>3 DEF MutexLocations, StopLocations, StartLocations
<1>3. QED
    BY <1>1, <1>2

(* A start goes on without its mutex, and may set the status. *)
LEMMA StartLife ==
    ASSUME ServiceInv, NEW t \in Clients, OnlyMoves(t),
           at[t] \in {"register", "init", "catch"},
           mutex' = mutex,
           \A i \in Instances : i # service[t] => status'[i] = status[i],
           at'[t] \in {"init", "catch"} =>
                at[t] \in {"register", "init"} /\ status'[service[t]] = "error" /\ initialized' = initialized,
           at'[t] = "lock" =>
                /\ at[t] = "init" /\ status'[service[t]] = "ready_to_start"
                /\ initialized' = initialized \cup {service[t]},
           at'[t] = "out" =>
                /\ at[t] = "catch" /\ status'[service[t]] \in {"error", status[service[t]]}
                /\ initialized' = initialized,
           at'[t] \in {"init", "catch", "lock", "out"},
           at'[t] # "out" => service'[t] = service[t]
    PROVE  StatusFollowsStart' /\ MutexIsOwned' /\ UninitializedInError' /\ LifeStep
<1> USE DEF ServiceInv, LifeInv
<1>1. service[t] \in Instances /\ mutex[service[t]] = NoClient
    BY OwnStructUnlocked
<1>2. \A i \in Instances : i # service[t] => status'[i] = status[i]
    OBVIOUS
<1>3. StatusFollowsStart'
    <2>1. ASSUME NEW u \in Clients \ {t}, at[u] \in {"register", "init", "lock", "catch"}
          PROVE  status'[service[u]] = status[service[u]]
        <3>1. service[u] # service[t] /\ service[u] \in Instances
            BY <2>1 DEF StructInv, StartsOwnStruct, StartLocations, ServiceTypeOK
        <3>2. QED
            BY <1>2, <3>1
    <2>2. QED
        BY <1>2, <2>1 DEF StatusFollowsStart, OnlyMoves
<1>4. MutexIsOwned'
    <2>1. ASSUME NEW i \in Instances, mutex[i] # NoClient
          PROVE  at'[mutex[i]] \in MutexLocations /\ service'[mutex[i]] = i
        BY <2>1, MutexOwner DEF OnlyMoves, MutexLocations
    <2>2. \A u \in Clients : at'[u] \in MutexLocations =>
            at[u] \in MutexLocations /\ service'[u] = service[u]
        BY DEF OnlyMoves, MutexLocations
    <2>3. QED
        BY <2>1, <2>2 DEF MutexIsOwned
<1>5. UninitializedInError'
    <2>1. ASSUME NEW i \in Instances \ initialized' PROVE status'[i] = "error"
        <3>1. CASE i # service[t]
            BY <1>2, <2>1, <3>1 DEF UninitializedInError
        <3>2. CASE i = service[t]
            BY <1>2, <2>1, <3>2 DEF UninitializedInError
        <3>3. QED
            BY <3>1, <3>2
    <2>2. QED
        BY <2>1 DEF UninitializedInError
<1>6. LifeStep
    <2>1. \/ <<status[service[t]], status'[service[t]]>> \in Life
          \/ status[service[t]] = status'[service[t]]
        BY DEF StatusFollowsStart, Life
    <2>2. QED
        BY <1>1, <1>2, <2>1 DEF LifeStep
<1>7. QED
    BY <1>3, <1>4, <1>5, <1>6

(* A thread takes the mutex of its struct, or has it. *)
LEMMA MutexLife ==
    ASSUME ServiceInv, NEW t \in Clients, OnlyMoves(t), NEW s, NEW m,
           at'[t] # at[t], initialized' = initialized,
           service[t] \in Instances,
           status' = [status EXCEPT ![service[t]] = s],
           mutex' = [mutex EXCEPT ![service[t]] = m],
           mutex[service[t]] \in {NoClient, t},
           <<status[service[t]], s>> \in Life \/ status[service[t]] = s,
           status[service[t]] # "error",
           s # "error",
           at[t] \in MutexLocations \cup {"lock", "lock_stop"},
           \A u \in Clients \ {t} :
               at[u] \in {"register", "init", "lock", "catch"} => service[u] # service[t],
           \/ at'[t] \in MutexLocations /\ service'[t] = service[t] /\ m = t
           \/ at'[t] = "out" /\ m = NoClient
           \/ at'[t] = "catch" /\ m = NoClient /\ service'[t] = service[t]
                  /\ s \in {"starting", "restarting"}
    PROVE  StatusFollowsStart' /\ MutexIsOwned' /\ UninitializedInError' /\ LifeStep
<1> USE DEF ServiceInv, LifeInv
<1>1. /\ status'[service[t]] = s /\ mutex'[service[t]] = m
      /\ \A i \in Instances : i # service[t] =>
            status'[i] = status[i] /\ mutex'[i] = mutex[i]
    BY DEF StructInv, ServiceTypeOK
<1>2. StatusFollowsStart'
    <2>1. ASSUME NEW u \in Clients \ {t}, at[u] \in {"register", "init", "lock", "catch"}
          PROVE  status'[service[u]] = status[service[u]]
        <3>1. service[u] # service[t] /\ service[u] \in Instances
            BY <2>1 DEF StructInv, StartsOwnStruct, StartLocations, ServiceTypeOK
        <3>2. QED
            BY <1>1, <3>1
    <2>2. QED
        BY <1>1, <2>1 DEF StatusFollowsStart, OnlyMoves, MutexLocations
<1>3. MutexIsOwned'
    <2>1. ASSUME NEW i \in Instances, mutex'[i] # NoClient
          PROVE  at'[mutex'[i]] \in MutexLocations /\ service'[mutex'[i]] = i
        <3>1. CASE i = service[t]
            BY <1>1, <2>1, <3>1
        <3>2. CASE i # service[t]
            <4>1. mutex'[i] = mutex[i]
                BY <1>1, <3>2
            <4>2. /\ mutex[i] \in Clients /\ at[mutex[i]] \in MutexLocations
                  /\ service[mutex[i]] = i
                BY <2>1, <4>1, MutexOwner
            <4>3. mutex[i] # t
                BY <3>2, <4>2
            <4>4. QED
                BY <4>1, <4>2, <4>3 DEF OnlyMoves
        <3>3. QED
            BY <3>1, <3>2
    <2>2. ASSUME NEW u \in Clients, at'[u] \in MutexLocations
          PROVE  mutex'[service'[u]] = u
        <3>1. CASE u = t
            BY <1>1, <2>2, <3>1 DEF MutexLocations
        <3>2. CASE u # t
            <4>1. /\ at[u] \in MutexLocations /\ service'[u] = service[u]
                  /\ mutex[service[u]] = u
                BY <2>2, <3>2 DEF OnlyMoves, MutexIsOwned
            <4>2. service[u] # service[t]
                BY <3>2, <4>1, ServiceAssumption
            <4>3. service[u] \in Instances
                BY <4>1 DEF StructInv, StartsOwnStruct, StopsOwnStruct, StartLocations,
                            StopLocations, MutexLocations, ServiceTypeOK
            <4>4. QED
                BY <1>1, <4>1, <4>2, <4>3
        <3>3. QED
            BY <3>1, <3>2
    <2>3. QED
        BY <2>1, <2>2 DEF MutexIsOwned
<1>4. UninitializedInError'
    BY <1>1 DEF UninitializedInError
<1>5. LifeStep
    BY <1>1, ServiceAssumption DEF LifeStep
<1>6. QED
    BY <1>2, <1>3, <1>4, <1>5

-----------------------------------------------------------------------------
(* What LifeInv and LivesOnce say of a step but for the crash. *)
Kept == StatusFollowsStart' /\ MutexIsOwned' /\ UninitializedInError' /\ LifeStep

LEMMA BeginLife ==
    ASSUME ServiceInv, NEW t \in Clients, Begin(t)
    PROVE  Kept /\ crashed' = crashed
<1>1. ServiceTypeOK
    BY DEF ServiceInv, StructInv
<1>2. CASE CallStart(t) \/ StartInitial(t) \/ CallRestart(t)
    <2>1. /\ OnlyMoves(t) /\ UNCHANGED <<status, initialized, mutex, crashed>>
          /\ at[t] = "out" /\ at'[t] \in {"start_cb", "restart_cb"}
        BY <1>1, <1>2 DEF CallStart, StartInitial, CallRestart, Begins, structVars,
                          Idle, OnlyMoves, ServiceTypeOK
    <2>2. QED
        BY <2>1, QuietLife DEF Kept, Tracked, MutexLocations
<1>3. CASE CallStop(t)
    <2>1. /\ OnlyMoves(t) /\ UNCHANGED <<status, initialized, mutex, crashed>>
          /\ at[t] = "out" /\ at'[t] = "lock_stop" /\ service'[t] \in Instances
        BY <1>1, <1>3 DEF CallStop, structVars, Idle, OnlyMoves, ServiceTypeOK
    <2>2. QED
        BY <2>1, QuietLife DEF Kept, MutexLocations
<1>4. CASE OpenSession(t)
    BY <1>4, QuietLife DEF OpenSession, serviceVars, structVars, threadVars, OnlyMoves, Kept
<1>5. CASE StartFromConf(t)
    <2>1. /\ OnlyMoves(t) /\ UNCHANGED <<status, initialized, mutex, crashed>>
          /\ at[t] = "out" /\ at'[t] = "init" /\ service'[t] \in Instances \ allocated
        BY <1>1, <1>5 DEF StartFromConf, Idle, OnlyMoves, ServiceTypeOK
    <2>2. QED
        BY <2>1, AllocateLife DEF Kept, MutexLocations
<1>6. QED
    BY <1>2, <1>3, <1>4, <1>5 DEF Begin

LEMMA LeavesLife ==
    ASSUME ServiceTypeOK, NEW t \in Clients, Leaves(t)
    PROVE  OnlyMoves(t) /\ at'[t] = "out"
BY LeavesAt DEF OnlyMoves

LEMMA GoesLife ==
    ASSUME ServiceTypeOK, NEW t \in Clients, NEW l, Goes(t, l)
    PROVE  OnlyMoves(t) /\ at'[t] = l /\ service'[t] = service[t]
BY GoesAt DEF OnlyMoves

LEMMA ContinueLife ==
    ASSUME ServiceInv, NEW t \in Clients, Continue(t)
    PROVE  Kept /\ (crashed' = crashed \/ Crash(t))
<1> USE DEF Kept
<1>1. ServiceTypeOK
    BY DEF ServiceInv, StructInv
<1>2. CASE Autostart(t) \/ NoConf(t) \/ Ignore(t)
    <2>1. /\ OnlyMoves(t) /\ at'[t] \in {"out", "start_cb"}
          /\ at[t] \in {"out", "start_cb", "restart_cb"}
          /\ UNCHANGED <<status, initialized, mutex, crashed>>
        <3>1. CASE Begins(t, "auto", "start_cb") /\ Autostart(t)
            BY <1>1, <3>1 DEF Begins, Autostart, OnlyMoves, structVars, ServiceTypeOK
        <3>2. CASE Leaves(t)
            BY <1>1, <1>2, <3>2, LeavesLife DEF Autostart, NoConf, Ignore, structVars
        <3>3. QED
            BY <1>2, <3>1, <3>2 DEF Autostart, NoConf, Ignore, Throws, Returns, ReturnsTo
    <2>2. QED
        BY <2>1, QuietLife DEF Tracked, MutexLocations
<1>3. CASE Allocate(t)
    <2>1. /\ OnlyMoves(t) /\ at[t] \notin MutexLocations
          /\ at'[t] \in {"register", "init"} /\ service'[t] \in Instances \ allocated
          /\ UNCHANGED <<status, initialized, mutex, crashed>>
        BY <1>1, <1>3 DEF Allocate, OnlyMoves, MutexLocations, ServiceTypeOK
    <2>2. QED
        BY <2>1, AllocateLife
<1>4. ASSUME at[t] \in StartLocations
      PROVE  /\ service[t] \in Instances
             /\ status = [status EXCEPT ![service[t]] = status[service[t]]]
             /\ \A u \in Clients \ {t} :
                   at[u] \in StartLocations => service[u] # service[t]
    BY <1>1, <1>4 DEF ServiceInv, StructInv, StartsOwnStruct, ServiceTypeOK
<1>5. CASE Register(t) \/ InitializeThrows(t)
    <2>1. /\ OnlyMoves(t) /\ at[t] \in {"register", "init"} /\ at'[t] \in {"init", "catch"}
          /\ service'[t] = service[t]
          /\ UNCHANGED <<status, initialized, mutex, crashed>>
        BY <1>1, <1>5, GoesLife DEF Register, InitializeThrows, structVars
    <2>2. status[service[t]] = "error"
        BY <2>1 DEF ServiceInv, LifeInv, StatusFollowsStart
    <2>3. QED
        BY <1>4, <2>1, <2>2, StartLife DEF StartLocations
<1>6. CASE Initialize(t)
    <2>1. /\ OnlyMoves(t) /\ at[t] = "init" /\ at'[t] = "lock" /\ service'[t] = service[t]
          /\ UNCHANGED <<mutex, crashed>>
        BY <1>1, <1>6, GoesLife DEF Initialize
    <2>2. /\ initialized' = initialized \cup {service[t]}
          /\ \A i \in Instances : i # service[t] => status'[i] = status[i]
          /\ status'[service[t]] = "ready_to_start"
        BY <1>1, <1>4, <1>6, <2>1 DEF Initialize, SetStatus, ServiceTypeOK, StartLocations
    <2>3. QED
        BY <2>1, <2>2, StartLife
<1>7. CASE Catch(t)
    <2>1. /\ OnlyMoves(t) /\ at[t] = "catch" /\ at'[t] = "out"
          /\ UNCHANGED <<initialized, mutex, crashed>>
        BY <1>1, <1>7, LeavesLife DEF Catch, Returns, Throws, ReturnsTo
    <2>2. /\ status'[service[t]] \in {"error", status[service[t]]}
          /\ \A i \in Instances : i # service[t] => status'[i] = status[i]
        BY <1>1, <1>4, <1>7, <2>1 DEF Catch, SetStatus, ServiceTypeOK, StartLocations
    <2>3. QED
        BY <2>1, <2>2, StartLife
<1>8. CASE LockStart(t)
    <2>1. /\ OnlyMoves(t) /\ at[t] = "lock" /\ at'[t] = "create" /\ service'[t] = service[t]
          /\ UNCHANGED <<initialized, crashed>>
          /\ mutex[service[t]] = NoClient /\ mutex' = [mutex EXCEPT ![service[t]] = t]
        BY <1>1, <1>8, GoesLife DEF LockStart
    <2>2. PICK s \in {"starting", "restarting"} :
            status' = [status EXCEPT ![service[t]] = s]
        BY <1>8 DEF LockStart, SetStatus
    <2>3. status[service[t]] = "ready_to_start"
        BY <2>1 DEF ServiceInv, LifeInv, StatusFollowsStart
    <2>4. <<status[service[t]], s>> \in Life
        BY <2>3 DEF Life
    <2>5. QED
        BY <1>4, <2>1, <2>2, <2>3, <2>4, MutexLife DEF StartLocations, MutexLocations
<1>9. CASE CreateThrows(t) \/ Create(t) \/ Running(t)
    <2>1. /\ at[t] \in {"create", "active"}
          /\ UNCHANGED <<initialized, crashed>>
          /\ OnlyMoves(t)
        BY <1>1, <1>9, GoesLife, LeavesLife DEF CreateThrows, Create, Running, structVars
    <2>2. /\ mutex[service[t]] = t
          /\ status[service[t]] \in {"starting", "restarting"}
          /\ mutex = [mutex EXCEPT ![service[t]] = t]
        BY <1>1, <2>1 DEF ServiceInv, StructInv, LifeInv, StartsOwnStruct, MutexIsOwned,
                    StartLocations, MutexLocations, ServiceTypeOK
    <2>3. CASE CreateThrows(t)
        <3>1. /\ at[t] = "create" /\ at'[t] = "catch" /\ service'[t] = service[t]
              /\ mutex' = [mutex EXCEPT ![service[t]] = NoClient] /\ status' = status
            BY <1>1, <2>3, GoesLife DEF CreateThrows, Unlock
        <3>2. QED
            BY <1>4, <2>1, <2>2, <3>1, MutexLife DEF StartLocations, MutexLocations
    <2>4. CASE Create(t)
        <3>1. /\ at[t] = "create" /\ at'[t] = "active" /\ service'[t] = service[t]
              /\ mutex' = mutex /\ status' = status
            BY <1>1, <2>4, GoesLife DEF Create, structVars
        <3>2. QED
            BY <1>4, <2>1, <2>2, <3>1, MutexLife DEF StartLocations, MutexLocations
    <2>5. CASE Running(t)
        <3>1. /\ at[t] = "active" /\ at'[t] = "out"
              /\ mutex' = [mutex EXCEPT ![service[t]] = NoClient]
              /\ status' = [status EXCEPT ![service[t]] = "running"]
            BY <1>1, <2>5, LeavesLife DEF Running, Unlock, SetStatus
        <3>2. <<status[service[t]], "running">> \in Life
            BY <2>2 DEF Life
        <3>3. QED
            BY <1>4, <2>1, <2>2, <3>1, <3>2, MutexLife DEF StartLocations, MutexLocations
    <2>6. QED
        BY <1>9, <2>3, <2>4, <2>5
<1>10. CASE Crash(t) \/ LookAgain(t) \/ UseSession(t) \/ Retire(t) \/ MakeActive(t)
    <2>1. UNCHANGED <<structVars, threadVars>> /\ (crashed' = crashed \/ Crash(t))
        BY <1>10 DEF Crash, LookAgain, UseSession, Retire, MakeActive, serviceVars
    <2>2. QED
        BY <2>1, QuietLife DEF structVars, threadVars, OnlyMoves
<1>11. ASSUME NEW u \in Clients \ {t}, at[u] \in {"register", "init", "lock", "catch"},
              status[service[t]] \in {"running", "stopping"}
       PROVE  service[u] # service[t]
    BY <1>11 DEF ServiceInv, StructInv, StartsOwnStruct, StartLocations
<1>12. CASE LockStop(t)
    <2>1. /\ at[t] = "lock_stop" /\ OnlyMoves(t) /\ UNCHANGED <<initialized, crashed>>
          /\ service[t] \in Instances /\ mutex[service[t]] = NoClient
        <3>1. service[t] \in Instances
            BY <1>12 DEF LockStop, ServiceInv, LifeInv, StatusFollowsStart
        <3>2. QED
            BY <1>1, <1>12, <3>1, GoesLife, LeavesLife DEF LockStop
    <2>2. CASE Stoppable(t)
        <3>1. /\ at'[t] = "stop" /\ service'[t] = service[t]
              /\ mutex' = [mutex EXCEPT ![service[t]] = t]
              /\ status' = [status EXCEPT ![service[t]] = "stopping"]
            BY <1>1, <1>12, <2>2, GoesLife DEF LockStop, SetStatus
        <3>2. /\ status[service[t]] = "running"
              /\ <<status[service[t]], "stopping">> \in Life
            BY <2>2 DEF Stoppable, Life
        <3>3. QED
            BY <1>11, <2>1, <3>1, <3>2, MutexLife DEF MutexLocations
    <2>3. CASE ~Stoppable(t)
        <3>1. at'[t] = "out" /\ UNCHANGED <<mutex, status>>
            BY <1>1, <1>12, <2>3, LeavesLife DEF LockStop
        <3>2. QED
            BY <2>1, <3>1, QuietLife DEF Tracked, MutexLocations
    <2>4. QED
        BY <2>2, <2>3
<1>13. CASE StopAdaptor(t) \/ Stopped(t)
    <2>1. /\ at[t] \in {"stop", "stopping"} /\ OnlyMoves(t)
          /\ UNCHANGED <<initialized, crashed>>
        BY <1>1, <1>13, GoesLife, LeavesLife DEF StopAdaptor, Stopped, structVars
    <2>2. /\ service[t] \in Instances /\ status[service[t]] = "stopping"
          /\ mutex[service[t]] = t
          /\ mutex = [mutex EXCEPT ![service[t]] = t]
          /\ status = [status EXCEPT ![service[t]] = "stopping"]
        BY <1>1, <2>1 DEF ServiceInv, StructInv, LifeInv, StopsOwnStruct, MutexIsOwned,
                    StopLocations, MutexLocations, ServiceTypeOK
    <2>3. CASE StopAdaptor(t)
        <3>1. /\ at[t] = "stop" /\ at'[t] = "stopping" /\ service'[t] = service[t]
              /\ UNCHANGED <<mutex, status>>
            BY <1>1, <2>3, GoesLife DEF StopAdaptor, structVars
        <3>2. QED
            BY <1>11, <2>1, <2>2, <3>1, MutexLife DEF MutexLocations
    <2>4. CASE Stopped(t)
        <3>1. /\ at[t] = "stopping" /\ at'[t] = "out"
              /\ mutex' = [mutex EXCEPT ![service[t]] = NoClient]
              /\ status' = [status EXCEPT ![service[t]] = "stopped"]
            BY <1>1, <2>4, LeavesLife DEF Stopped, Unlock, SetStatus
        <3>2. <<status[service[t]], "stopped">> \in Life
            BY <2>2 DEF Life
        <3>3. QED
            BY <1>11, <2>1, <2>2, <3>1, <3>2, MutexLife DEF MutexLocations
    <2>5. QED
        BY <1>13, <2>3, <2>4
<1>14. QED
    BY <1>2, <1>3, <1>5, <1>6, <1>7, <1>8, <1>9, <1>10, <1>12, <1>13 DEF Continue

-----------------------------------------------------------------------------
LEMMA ServiceInitLife == ServiceInit => ServiceInv
<1> SUFFICES ASSUME ServiceInit PROVE LifeInv
    BY ServiceInitInv DEF ServiceInv
<1>1. StatusFollowsStart /\ CrashOnlyInError
    BY DEF ServiceInit, StatusFollowsStart, CrashOnlyInError
<1>2. MutexIsOwned
    BY DEF ServiceInit, MutexIsOwned, MutexLocations
<1>3. UninitializedInError
    BY DEF ServiceInit, UninitializedInError
<1>4. QED
    BY <1>1, <1>2, <1>3 DEF LifeInv

LEMMA ServiceStepLife ==
    ASSUME ServiceInv, AnchorInv, [ServiceNext]_allVars
    PROVE  ServiceInv' /\ LifeStep
<1>1. StructInv'
    BY BeginInv, ContinueInv, ServiceStutterInv DEF ServiceInv, ServiceNext
<1>2. CASE UNCHANGED allVars
    <2>1. UNCHANGED <<structVars, threadVars, crashed>>
        BY <1>2 DEF allVars, serviceVars
    <2>2. StatusFollowsStart' /\ CrashOnlyInError'
        BY <2>1 DEF ServiceInv, LifeInv, StatusFollowsStart, CrashOnlyInError,
                    structVars, threadVars
    <2>3. MutexIsOwned' /\ UninitializedInError' /\ LifeStep
        BY <2>1 DEF ServiceInv, LifeInv, MutexIsOwned, UninitializedInError, LifeStep,
                    structVars, threadVars
    <2>4. QED
        BY <1>1, <2>2, <2>3 DEF ServiceInv, LifeInv
<1>3. CASE ~crashed /\ \E t \in Clients : Begin(t) \/ Continue(t)
    <2>1. PICK t \in Clients : Begin(t) \/ Continue(t)
        BY <1>3
    <2>2. Kept /\ (crashed' = crashed \/ Crash(t))
        BY <2>1, BeginLife, ContinueLife
    <2>3. CrashOnlyInError'
        <3>1. CASE crashed' = crashed
            BY <1>3, <3>1 DEF CrashOnlyInError
        <3>2. CASE Crash(t)
            <4>1. at[t] = "lock_stop" /\ service[t] \in Instances \ initialized
                BY <3>2 DEF Crash, ServiceInv, LifeInv, StatusFollowsStart
            <4>2. status[service[t]] = "error"
                BY <4>1 DEF ServiceInv, LifeInv, UninitializedInError
            <4>3. UNCHANGED <<at, service, status>>
                BY <3>2 DEF Crash, structVars, threadVars
            <4>4. QED
                BY <4>1, <4>2, <4>3 DEF CrashOnlyInError
        <3>3. QED
            BY <2>2, <3>1, <3>2
    <2>4. QED
        BY <1>1, <2>2, <2>3 DEF Kept, ServiceInv, LifeInv
<1>4. QED
    BY <1>2, <1>3 DEF ServiceNext

(* The struct of a start is its own until it runs, its status says how far the
   start is, a mutex is held only by the start or the stop of its struct, and
   a struct without a mutex is in error. *)
THEOREM ServiceInvariant == ServiceSpec => []ServiceInv
<1>1. ServiceInv /\ AnchorInv /\ [ServiceNext]_allVars => ServiceInv'
    BY ServiceStepLife
<1>2. QED
    BY <1>1, ServiceInitLife, ServiceKeepsAnchor, PTL DEF ServiceSpec

(* A stop that locks a mutex that was never made finds a service in error. *)
THEOREM CrashesOnlyInError == ServiceSpec => []CrashOnlyInError
<1>1. ServiceInv => CrashOnlyInError
    BY DEF ServiceInv, LifeInv
<1>2. QED
    BY <1>1, ServiceInvariant, PTL

(* Whatever calls overlap, a struct is never taken back to an earlier status,
   and nobody changes it while another thread has its mutex. *)
THEOREM StructsLiveOnce == ServiceSpec => LivesOnce
<1>1. ServiceInv /\ AnchorInv /\ [ServiceNext]_allVars => [LifeStep]_allVars
    BY ServiceStepLife
<1>2. QED
    BY <1>1, ServiceInvariant, ServiceKeepsAnchor, PTL DEF ServiceSpec, LivesOnce, LifeStep

-----------------------------------------------------------------------------
(* Calls that come one after the other. *)

(* A session is opened, used or closed, or an instance that was replaced is
   released: a start that is between the creation of its instance and its
   activation stays there. *)
LEMMA SessionKeepsActivating ==
    ASSUME AnchorInv, NEW c \in Clients,
           \/ GetReference(c) \/ FindNone(c) \/ AutostartStartsNothing(c)
           \/ NotAvailable(c) \/ CreateSession(c) \/ CreateSessionThrows(c)
           \/ CloseSession(c) \/ ReleaseRetired(c) \/ Destroy(c)
    PROVE  \A d \in Clients : pc[d] = "activating" => pc'[d] = "activating"
<1>1. pc[c] # "activating"
    BY DEF GetReference, FindNone, AutostartStartsNothing, NotAvailable, CreateSession,
           CreateSessionThrows, CloseSession, ReleaseRetired, Destroy
<1>2. PICK l, x : Goto(c, l, x)
    BY DEF GetReference, FindNone, AutostartStartsNothing, NotAvailable, CreateSession,
           CreateSessionThrows, CloseSession, ReleaseRetired, ReleaseReference, Destroy
<1>3. QED
    BY <1>1, <1>2, GotoAt DEF AnchorInv

LEMMA SessionTruth ==
    ASSUME AloneTruth, AnchorInv, NEW c \in Clients, UNCHANGED serviceVars,
           \/ GetReference(c) \/ FindNone(c)
           \/ NotAvailable(c) \/ CreateSession(c) \/ CreateSessionThrows(c)
           \/ CloseSession(c) \/ ReleaseRetired(c) \/ Destroy(c)
    PROVE  AloneTruth'
<1>1. ActiveInstance(anchor)' = ActiveInstance(anchor)
    BY SessionUndisturbed DEF Undisturbed
<1>2. \A d \in Clients : pc[d] = "activating" => pc'[d] = "activating"
    BY SessionKeepsActivating
<1>3. UNCHANGED <<registered, status, at, call, service>>
    BY DEF serviceVars, structVars, threadVars
<1>4. StatusTruthful' /\ NoneWithoutStruct'
    BY <1>1, <1>3 DEF AloneTruth, StatusTruthful, RunningMeansActive, StoppedMeansInactive,
       ErrorMeansInactive, NoneWithoutStruct, RegisteredIn, IsActive
<1>5. ASSUME NEW d \in Clients PROVE CallTruthful(d)'
    BY <1>1, <1>2, <1>3 DEF AloneTruth, CallTruthful, RegisteredIn, IsActive
<1>6. QED
    BY <1>4, <1>5 DEF AloneTruth

(* What the registry says, in a form that does not split. *)
LEMMA Truthful ==
    ASSUME NEW active \in BOOLEAN, active = IsActive(anchor)
    PROVE  StatusTruthful /\ NoneWithoutStruct <=>
             /\ registered = NoInstance => ~active
             /\ registered # NoInstance =>
                   /\ status[registered] \in {"error", "stopped"} => ~active
                   /\ status[registered] = "running" => active
BY DEF StatusTruthful, RunningMeansActive, StoppedMeansInactive,
       ErrorMeansInactive, NoneWithoutStruct, RegisteredIn

(* While a thread is in a call, the invariant is about that call. *)
LEMMA TheOneInCall ==
    ASSUME NEW t \in Clients, \A u \in Clients \ {t} : at'[u] = "out",
           StatusTruthful', NoneWithoutStruct', CallTruthful(t)'
    PROVE  AloneTruth'
<1>1. ASSUME NEW u \in Clients \ {t} PROVE CallTruthful(u)'
    BY DEF CallTruthful, StartLocations, StopLocations
<1>2. QED
    BY <1>1 DEF AloneTruth

(* A step that begins a call, or returns from one, or goes on with the callback
   of a start, leaves the registry and the anchor alone. *)
LEMMA QuietTruth ==
    ASSUME AloneTruth, NEW t \in Clients, \A u \in Clients \ {t} : at'[u] = "out",
           UNCHANGED <<registered, status>>,
           ActiveInstance(anchor)' = ActiveInstance(anchor),
           CallTruthful(t)'
    PROVE  AloneTruth'
<1>1. StatusTruthful' /\ NoneWithoutStruct'
    BY DEF AloneTruth, StatusTruthful, RunningMeansActive, StoppedMeansInactive,
       ErrorMeansInactive, NoneWithoutStruct, RegisteredIn, IsActive
<1>2. QED
    BY <1>1, TheOneInCall

LEMMA OutTruth ==
    ASSUME NEW t \in Clients, at'[t] = "out"
    PROVE  CallTruthful(t)'
BY DEF CallTruthful, StartLocations, StopLocations

LEMMA BeginTruth ==
    ASSUME ServiceInv, AnchorInv, AloneTruth, NEW t \in Clients, Begin(t), OneInCall'
    PROVE  AloneTruth'
<1>1. ServiceTypeOK
    BY DEF ServiceInv, StructInv
<1>2. CASE OpenSession(t)
    BY <1>2, SessionTruth DEF OpenSession
<1>3. CASE CallStart(t) \/ StartInitial(t) \/ CallRestart(t) \/ CallStop(t) \/ StartFromConf(t)
    <2>1. /\ at[t] = "out" /\ at'[t] # "out"
          /\ \A u \in Clients \ {t} : at'[u] = at[u]
          /\ UNCHANGED <<vars, registered, status>>
        BY <1>1, <1>3 DEF CallStart, StartInitial, CallRestart, CallStop, StartFromConf,
                          Begins, Idle, structVars, ServiceTypeOK
    <2>2. \A u \in Clients \ {t} : at'[u] = "out"
        BY <2>1 DEF OneInCall, InCall
    <2>3. ActiveInstance(anchor)' = ActiveInstance(anchor)
        BY <2>1 DEF vars, ActiveInstance, Registered
    <2>4. CASE CallStart(t) \/ StartInitial(t)
        <3>1. at'[t] = "start_cb" /\ call'[t] \in {"manual", "initial"}
            BY <1>1, <2>4 DEF CallStart, StartInitial, Begins, ServiceTypeOK
        <3>2. CallTruthful(t)'
            BY <3>1 DEF CallTruthful, StartLocations, StopLocations
        <3>3. QED
            BY <2>1, <2>2, <2>3, <3>2, QuietTruth
    <2>5. CASE CallRestart(t)
        <3>1. at'[t] = "restart_cb" /\ RegisteredIn({"running"})
            BY <1>1, <2>5 DEF CallRestart, Begins, ServiceTypeOK
        <3>2. IsActive(anchor)
            BY <3>1 DEF AloneTruth, StatusTruthful, RunningMeansActive
        <3>3. RegisteredIn({"running"})' /\ IsActive(anchor)'
            BY <2>1, <2>3, <3>1, <3>2 DEF RegisteredIn, IsActive
        <3>4. CallTruthful(t)'
            BY <3>1, <3>3 DEF CallTruthful, StartLocations, StopLocations
        <3>5. QED
            BY <2>1, <2>2, <2>3, <3>4, QuietTruth
    <2>6. CASE CallStop(t)
        <3>1. at'[t] = "lock_stop" /\ call'[t] = "stop" /\ service'[t] = registered'
            BY <1>1, <2>1, <2>6 DEF CallStop, ServiceTypeOK
        <3>2. CallTruthful(t)'
            BY <3>1 DEF CallTruthful, StartLocations, StopLocations
        <3>3. QED
            BY <2>1, <2>2, <2>3, <3>2, QuietTruth
    <2>7. CASE StartFromConf(t)
        <3>1. at'[t] = "init" /\ call'[t] = "conf" /\ registered = NoInstance
            BY <1>1, <2>7 DEF StartFromConf, ServiceTypeOK
        <3>2. ~IsActive(anchor)'
            BY <2>3, <3>1 DEF AloneTruth, NoneWithoutStruct, IsActive
        <3>3. CallTruthful(t)'
            BY <3>1, <3>2 DEF CallTruthful, StartLocations, StopLocations
        <3>4. QED
            BY <2>1, <2>2, <2>3, <3>3, QuietTruth
    <2>8. QED
        BY <1>3, <2>4, <2>5, <2>6, <2>7
<1>4. QED
    BY <1>2, <1>3 DEF Begin

(* A start comes from one place of impl_start_service to the next, or fails,
   with no active adaptor if it is not a restart. *)
LEMMA StartTruth ==
    ASSUME ServiceInv, AloneTruth, NEW t \in Clients, NEW s,
           \A u \in Clients \ {t} : at'[u] = "out",
           at[t] \in StartLocations \ {"active"},
           status' = [status EXCEPT ![service[t]] = s],
           ActiveInstance(anchor)' = ActiveInstance(anchor),
           \/ at'[t] = "out"
           \/ /\ at'[t] \in StartLocations \ {"register"}
              /\ call'[t] = call[t] /\ service'[t] = service[t]
              /\ at'[t] = "active" => pc'[t] = "activating",
           \/ /\ registered' = registered
              /\ at'[t] \in {"create", "active"} => at[t] = "create"
           \/ registered' = IF call[t] = "restart" THEN registered ELSE service[t],
           s = "running" => status[service[t]] = "running"
    PROVE  AloneTruth'
<1>1. /\ service[t] \in Instances /\ status \in [Instances -> Status]
      /\ status[service[t]] # "running"
    BY DEF ServiceInv, StructInv, ServiceTypeOK, StartsOwnStruct
<1>2. /\ status'[service[t]] = s /\ s # "running"
      /\ \A i \in Instances : i # service[t] => status'[i] = status[i]
    BY <1>1
<1>3. IsActive(anchor)' = IsActive(anchor)
    BY DEF IsActive
<1>4. registered \in Instances \cup {NoInstance}
    BY DEF ServiceInv, StructInv, ServiceTypeOK
<1>5. CallTruthful(t)
    BY DEF AloneTruth
<1>6. CASE call[t] # "restart"
    <2>1. ~IsActive(anchor) /\ ~IsActive(anchor)'
        BY <1>3, <1>5, <1>6 DEF CallTruthful
    <2>2. StatusTruthful' /\ NoneWithoutStruct'
        <3>1. ~RegisteredIn({"running"})
            BY <2>1 DEF AloneTruth, StatusTruthful, RunningMeansActive
        <3>2. ~RegisteredIn({"running"})'
            BY <1>2, <1>4, <1>6, <3>1 DEF RegisteredIn
        <3>3. QED
            BY <2>1, <3>2 DEF StatusTruthful, RunningMeansActive, StoppedMeansInactive,
                   ErrorMeansInactive, NoneWithoutStruct
    <2>3. CallTruthful(t)'
        <3>1. CASE at'[t] = "out"
            BY <3>1, OutTruth
        <3>2. CASE at'[t] # "out"
            <4>1. at'[t] \in {"create", "active"} => registered' = service'[t]
                BY <1>5, <1>6, <3>2 DEF CallTruthful
            <4>2. QED
                BY <1>6, <2>1, <3>2, <4>1 DEF CallTruthful, StartLocations, StopLocations
        <3>3. QED
            BY <3>1, <3>2
    <2>4. QED
        BY <2>2, <2>3, TheOneInCall
<1>7. CASE call[t] = "restart"
    <2>1. /\ IsActive(anchor) /\ RegisteredIn({"running"})
          /\ registered # service[t] /\ registered \in Instances
        BY <1>4, <1>5, <1>7 DEF CallTruthful, StartLocations, RegisteredIn
    <2>2. registered' = registered /\ status'[registered] = status[registered]
        BY <1>2, <1>5, <1>7, <2>1 DEF CallTruthful
    <2>3. IsActive(anchor)' /\ RegisteredIn({"running"})'
        BY <1>3, <2>1, <2>2 DEF RegisteredIn
    <2>4. StatusTruthful' /\ NoneWithoutStruct'
        BY <2>3 DEF StatusTruthful, RunningMeansActive, StoppedMeansInactive,
                   ErrorMeansInactive, NoneWithoutStruct, RegisteredIn
    <2>5. CallTruthful(t)'
        BY <1>7, <2>1, <2>2, <2>3 DEF CallTruthful, StartLocations, StopLocations
    <2>6. QED
        BY <2>4, <2>5, TheOneInCall
<1>8. QED
    BY <1>6, <1>7

LEMMA ReturnsToTruth ==
    ASSUME ServiceTypeOK, AnchorInv, AloneTruth, NEW t \in Clients, NEW l, ReturnsTo(t, l),
           \A u \in Clients \ {t} : at[u] = "out",
           UNCHANGED <<registered, status>>
    PROVE  AloneTruth'
<1>1. at'[t] = "out" /\ \A u \in Clients \ {t} : at'[u] = "out"
    BY LeavesAt DEF ReturnsTo
<1>2. ActiveInstance(anchor)' = ActiveInstance(anchor)
    BY ReturnsToUndisturbed DEF Undisturbed
<1>3. QED
    BY <1>1, <1>2, OutTruth, QuietTruth

LEMMA ContinueTruth ==
    ASSUME ServiceInv, AnchorInv, AloneTruth, OneInCall, NEW t \in Clients, Continue(t)
    PROVE  AloneTruth'
<1>1. ServiceTypeOK
    BY DEF ServiceInv, StructInv
<1>2. ASSUME at[t] # "out" \/ pc[t] \notin {"idle", "open"}
      PROVE  \A u \in Clients \ {t} : at[u] = "out"
    BY <1>2 DEF OneInCall, InCall
<1>3. CASE LookAgain(t) \/ UseSession(t) \/ Retire(t)
    BY <1>3, SessionTruth DEF LookAgain, UseSession, Retire
<1>4. CASE NoConf(t) \/ Ignore(t)
    BY <1>1, <1>2, <1>4, ReturnsToTruth DEF NoConf, Ignore, Returns, Throws, structVars
<1>5. CASE Autostart(t)
    <2>1. \A u \in Clients \ {t} : at[u] = "out"
        BY <1>2, <1>5 DEF Autostart
    <2>2. UNCHANGED <<registered, status>>
        BY <1>5 DEF Autostart, structVars
    <2>3. CASE Begins(t, "auto", "start_cb") /\ UNCHANGED vars
        <3>1. /\ at'[t] = "start_cb" /\ call'[t] = "auto"
              /\ \A u \in Clients \ {t} : at'[u] = "out"
            BY <1>1, <2>1, <2>3 DEF Begins, ServiceTypeOK
        <3>2. ActiveInstance(anchor)' = ActiveInstance(anchor)
            BY <2>3, UnchangedUndisturbed DEF Undisturbed
        <3>3. CallTruthful(t)'
            BY <3>1 DEF CallTruthful, StartLocations, StopLocations
        <3>4. QED
            BY <2>2, <3>1, <3>2, <3>3, QuietTruth
    <2>4. CASE Throws(t)
        BY <1>1, <2>1, <2>2, <2>4, ReturnsToTruth DEF Throws
    <2>5. QED
        BY <1>5, <2>3, <2>4 DEF Autostart
<1>6. CASE Allocate(t)
    <2>1. PICK i \in Instances \ allocated : service' = [service EXCEPT ![t] = i]
        BY <1>6 DEF Allocate
    <2>2. /\ at[t] \in {"start_cb", "restart_cb"}
          /\ \A u \in Clients \ {t} : at'[u] = "out"
          /\ service'[t] = i /\ i # registered /\ call'[t] = call[t]
          /\ at'[t] \in {"register", "init"}
          /\ call[t] = "restart" => at'[t] = "init"
          /\ UNCHANGED <<vars, registered, status>>
        BY <1>1, <1>2, <1>6, <2>1, NoInstanceAssumption DEF Allocate, ServiceTypeOK
    <2>3. ActiveInstance(anchor)' = ActiveInstance(anchor)
        BY <2>2, UnchangedUndisturbed DEF Undisturbed
    <2>4. call[t] # "restart" => ~IsActive(anchor)
        BY <1>6 DEF Allocate, RegistryAllows, RegisteredIn, AloneTruth, StatusTruthful,
                    StoppedMeansInactive, ErrorMeansInactive, NoneWithoutStruct
    <2>5. call[t] = "restart" => IsActive(anchor) /\ RegisteredIn({"running"})
        BY <2>2 DEF AloneTruth, CallTruthful
    <2>6. CallTruthful(t)'
        BY <2>2, <2>3, <2>4, <2>5 DEF CallTruthful, StartLocations, StopLocations,
                                      IsActive, RegisteredIn
    <2>7. QED
        BY <2>2, <2>3, <2>6, QuietTruth
<1>7. ASSUME at[t] \in StartLocations
      PROVE  /\ service[t] \in Instances
             /\ status = [status EXCEPT ![service[t]] = status[service[t]]]
             /\ \A u \in Clients \ {t} : at[u] = "out"
             /\ CallTruthful(t)
    BY <1>1, <1>2, <1>7 DEF ServiceInv, StructInv, StartsOwnStruct, ServiceTypeOK,
                            StartLocations, AloneTruth
<1>8. CASE Register(t) \/ InitializeThrows(t) \/ Initialize(t) \/ LockStart(t) \/ CreateThrows(t)
    <2>1. PICK l \in {"init", "catch", "lock", "create"} : Goes(t, l)
        BY <1>8 DEF Register, InitializeThrows, Initialize, LockStart, CreateThrows
    <2>2. /\ at[t] \in StartLocations \ {"active"}
          /\ UNCHANGED vars
        BY <1>8 DEF Register, InitializeThrows, Initialize, LockStart, CreateThrows,
                    StartLocations
    <2>3. /\ at'[t] = l /\ call' = call /\ service' = service
          /\ \A u \in Clients \ {t} : at'[u] = "out"
        BY <1>1, <1>7, <2>1, <2>2, GoesAt DEF Goes
    <2>4. ActiveInstance(anchor)' = ActiveInstance(anchor)
        BY <2>2, UnchangedUndisturbed DEF Undisturbed
    <2>5. PICK s \in {status[service[t]], "ready_to_start", "starting", "restarting"} :
            status' = [status EXCEPT ![service[t]] = s]
        BY <1>7, <1>8, <2>2 DEF Register, InitializeThrows, Initialize, LockStart, CreateThrows,
                    SetStatus, structVars
    <2>6. \/ registered' = registered /\ (l = "create" => at[t] = "create")
          \/ registered' = IF call[t] = "restart" THEN registered ELSE service[t]
        <3>1. CASE LockStart(t)
            BY <3>1 DEF LockStart
        <3>2. CASE Register(t)
            BY <1>7, <3>2 DEF Register, CallTruthful, StartLocations
        <3>3. CASE InitializeThrows(t) \/ Initialize(t) \/ CreateThrows(t)
            <4>1. registered' = registered /\ at'[t] # "create"
                BY <1>1, <3>3, GoesAt DEF InitializeThrows, Initialize, CreateThrows,
                                          structVars
            <4>2. QED
                BY <2>3, <4>1
        <3>4. QED
            BY <1>8, <3>1, <3>2, <3>3
    <2>7. QED
        BY <2>2, <2>3, <2>4, <2>5, <2>6, StartTruth DEF StartLocations
<1>9. CASE Create(t)
    <2>1. /\ at[t] = "create" /\ at'[t] = "active" /\ call' = call /\ service' = service
          /\ \A u \in Clients \ {t} : at'[u] = "out"
          /\ UNCHANGED <<registered, status>>
        BY <1>1, <1>7, <1>9, GoesAt DEF Create, Goes, structVars, StartLocations
    <2>2. pc'[t] = "activating" /\ ActiveInstance(anchor)' = ActiveInstance(anchor)
        BY <1>9, GotoAt DEF Create, CreateInstance, AnchorInv, ActiveInstance, Registered
    <2>3. status' = [status EXCEPT ![service[t]] = status[service[t]]]
        BY <1>7, <2>1 DEF StartLocations
    <2>4. QED
        BY <2>1, <2>2, <2>3, StartTruth DEF StartLocations
<1>10. CASE MakeActive(t)
    <2>1. /\ at[t] = "active" /\ instance[t] = service[t]
          /\ instance[t] \in Instances /\ ~OnAnchor(anchor, instance[t])
        BY <1>10 DEF MakeActive, Activate, ServiceInv, StructInv, ActivatesOwnStruct,
                     AnchorInv, PrivateInstances, Private, TypeOK
    <2>2. ActiveInstance(anchor)' = service[t]
        BY <1>10, <2>1, SetInstanceActiveAt, NoInstanceAssumption DEF MakeActive, Activate
    <2>3. UNCHANGED <<registered, status, at, call, service>>
        BY <1>10 DEF MakeActive, serviceVars, structVars, threadVars
    <2>4. IsActive(anchor)'
        BY <2>1, <2>2, NoInstanceAssumption DEF IsActive
    <2>5. /\ CallTruthful(t) /\ \A u \in Clients \ {t} : at'[u] = "out"
        BY <1>7, <2>1, <2>3 DEF StartLocations
    <2>6. CallTruthful(t)'
        BY <2>1, <2>3, <2>4, <2>5 DEF CallTruthful, RegisteredIn, StartLocations, StopLocations
    <2>7. registered # NoInstance /\ ~RegisteredIn({"stopped", "error"})
        <3>1. CASE call[t] = "restart"
            BY <2>1, <2>5, <3>1 DEF CallTruthful, RegisteredIn
        <3>2. CASE call[t] # "restart"
            BY <2>1, <2>5, <3>2, NoInstanceAssumption
            DEF CallTruthful, RegisteredIn, ServiceInv, StructInv, StartsOwnStruct,
                StartLocations
        <3>3. QED
            BY <3>1, <3>2
    <2>8. StatusTruthful' /\ NoneWithoutStruct'
        BY <2>3, <2>4, <2>7 DEF StatusTruthful, RunningMeansActive, StoppedMeansInactive,
                                ErrorMeansInactive, NoneWithoutStruct, RegisteredIn
    <2>9. QED
        BY <2>5, <2>6, <2>8, TheOneInCall
<1>11. CASE Running(t)
    <2>1. /\ at[t] = "active" /\ pc[t] # "activating" /\ at'[t] = "out"
          /\ \A u \in Clients \ {t} : at'[u] = "out"
          /\ UNCHANGED <<vars, registered>>
        BY <1>1, <1>7, <1>11, LeavesAt DEF Running, StartLocations
    <2>2. IsActive(anchor) /\ ActiveInstance(anchor)' = ActiveInstance(anchor)
        BY <1>7, <2>1, UnchangedUndisturbed DEF CallTruthful, StartLocations, Undisturbed
    <2>3. /\ status'[service[t]] = "running"
          /\ \A i \in Instances : i # service[t] => status'[i] = status[i]
        BY <1>1, <1>7, <1>11, <2>1 DEF Running, SetStatus, StartLocations, ServiceTypeOK
    <2>4. registered \in Instances /\ ~RegisteredIn({"stopped", "error"})
        BY <1>1, <2>2 DEF AloneTruth, StatusTruthful, StoppedMeansInactive,
              ErrorMeansInactive, NoneWithoutStruct, RegisteredIn, ServiceTypeOK
    <2>5. ~RegisteredIn({"stopped", "error"})'
        BY <2>1, <2>3, <2>4 DEF RegisteredIn
    <2>6. StatusTruthful' /\ NoneWithoutStruct'
        BY <2>1, <2>2, <2>4, <2>5, NoInstanceAssumption
        DEF StatusTruthful, RunningMeansActive, StoppedMeansInactive,
            ErrorMeansInactive, NoneWithoutStruct, RegisteredIn, IsActive
    <2>7. QED
        BY <2>1, <2>6, OutTruth, TheOneInCall
<1>12. CASE Catch(t)
    <2>1. /\ at[t] = "catch" /\ at'[t] = "out"
          /\ \A u \in Clients \ {t} : at'[u] = "out"
          /\ registered' = registered
        BY <1>1, <1>7, <1>12, LeavesAt DEF Catch, Returns, Throws, ReturnsTo, StartLocations
    <2>2. ActiveInstance(anchor)' = ActiveInstance(anchor)
        BY <1>12, ReturnsToUndisturbed DEF Catch, Returns, Throws, Undisturbed
    <2>3. PICK s \in {status[service[t]], "error"} :
            status' = [status EXCEPT ![service[t]] = s]
        BY <1>7, <1>12, <2>1 DEF Catch, SetStatus, StartLocations
    <2>4. QED
        BY <2>1, <2>2, <2>3, StartTruth DEF StartLocations
<1>13. CASE Crash(t)
    <2>1. UNCHANGED <<vars, registered, status, at, call, service>>
        BY <1>13 DEF Crash, structVars, threadVars
    <2>2. \A u \in Clients \ {t} : at'[u] = "out"
        BY <1>2, <1>13, <2>1 DEF Crash
    <2>3. ActiveInstance(anchor)' = ActiveInstance(anchor) /\ pc' = pc
        BY <2>1, UnchangedUndisturbed DEF Undisturbed, vars
    <2>4. CallTruthful(t)'
        BY <2>1, <2>3 DEF AloneTruth, CallTruthful, RegisteredIn, IsActive
    <2>5. QED
        BY <2>1, <2>2, <2>3, <2>4, QuietTruth
<1>14. CASE LockStop(t)
    <2>1. /\ at[t] = "lock_stop" /\ registered = service[t]
          /\ \A u \in Clients \ {t} : at[u] = "out"
          /\ UNCHANGED <<vars, registered>>
        BY <1>2, <1>14 DEF LockStop, AloneTruth, CallTruthful
    <2>2. ActiveInstance(anchor)' = ActiveInstance(anchor)
        BY <2>1, UnchangedUndisturbed DEF Undisturbed
    <2>3. CASE Stoppable(t)
        <3>1. /\ at'[t] = "stop" /\ service' = service /\ call' = call
              /\ \A u \in Clients \ {t} : at'[u] = "out"
            BY <1>1, <1>14, <2>1, <2>3, GoesAt DEF LockStop, Goes
        <3>2. service[t] \in Instances
            BY <1>14 DEF LockStop, ServiceInv, LifeInv, StatusFollowsStart
        <3>3. status'[registered] = "stopping"
            BY <1>1, <1>14, <2>1, <2>3, <3>2 DEF LockStop, SetStatus, ServiceTypeOK
        <3>4. StatusTruthful' /\ NoneWithoutStruct'
            BY <2>1, <3>2, <3>3, NoInstanceAssumption
            DEF StatusTruthful, RunningMeansActive, StoppedMeansInactive,
                ErrorMeansInactive, NoneWithoutStruct, RegisteredIn
        <3>5. call[t] = "stop"
            BY <2>1 DEF AloneTruth, CallTruthful
        <3>6. CallTruthful(t)'
            BY <2>1, <3>1, <3>5 DEF CallTruthful, StartLocations, StopLocations
        <3>7. QED
            BY <3>1, <3>4, <3>6, TheOneInCall
    <2>4. CASE ~Stoppable(t)
        <3>1. /\ at'[t] = "out" /\ status' = status
              /\ \A u \in Clients \ {t} : at'[u] = "out"
            BY <1>1, <1>14, <2>1, <2>4, LeavesAt DEF LockStop
        <3>2. QED
            BY <2>1, <2>2, <3>1, OutTruth, QuietTruth
    <2>5. QED
        BY <2>3, <2>4
<1>15. CASE StopAdaptor(t)
    <2>1. /\ at[t] = "stop" /\ at'[t] = "stopping" /\ service' = service /\ call' = call
          /\ registered = service[t]
          /\ \A u \in Clients \ {t} : at'[u] = "out"
          /\ UNCHANGED <<registered, status>>
        BY <1>1, <1>2, <1>15, GoesAt DEF StopAdaptor, Goes, structVars, AloneTruth,
                                         CallTruthful, StopLocations
    <2>2. service[t] \in Instances /\ status[service[t]] = "stopping"
        BY <1>1, <2>1 DEF ServiceInv, StructInv, StopsOwnStruct, StopLocations, ServiceTypeOK
    <2>3. ~IsActive(anchor)'
        BY <1>15, SetInstanceActiveAt, NoInstanceAssumption DEF StopAdaptor, Stop, IsActive
    <2>4. StatusTruthful' /\ NoneWithoutStruct'
        BY <2>1, <2>2, <2>3 DEF StatusTruthful, RunningMeansActive, StoppedMeansInactive,
                ErrorMeansInactive, NoneWithoutStruct, RegisteredIn
    <2>5. call[t] = "stop"
        BY <2>1 DEF AloneTruth, CallTruthful, StopLocations
    <2>6. CallTruthful(t)'
        BY <2>1, <2>3, <2>5 DEF CallTruthful, StartLocations, StopLocations
    <2>7. QED
        BY <2>1, <2>4, <2>6, TheOneInCall
<1>16. CASE Stopped(t)
    <2>1. /\ at[t] = "stopping" /\ at'[t] = "out" /\ registered = service[t]
          /\ ~IsActive(anchor)
          /\ \A u \in Clients \ {t} : at'[u] = "out"
          /\ UNCHANGED <<vars, registered>>
        BY <1>1, <1>2, <1>16, LeavesAt DEF Stopped, AloneTruth, CallTruthful, StopLocations
    <2>2. status'[registered] = "stopped"
        BY <1>1, <1>16, <2>1 DEF Stopped, SetStatus, ServiceInv, StructInv, StopsOwnStruct,
                                 StopLocations, ServiceTypeOK
    <2>3. ~IsActive(anchor)'
        BY <2>1, UnchangedUndisturbed DEF Undisturbed, IsActive
    <2>4. StatusTruthful' /\ NoneWithoutStruct'
        BY <2>1, <2>2, <2>3 DEF StatusTruthful, RunningMeansActive, StoppedMeansInactive,
                ErrorMeansInactive, NoneWithoutStruct, RegisteredIn
    <2>5. QED
        BY <2>1, <2>4, OutTruth, TheOneInCall
<1>17. QED
    BY <1>3, <1>4, <1>5, <1>6, <1>8, <1>9, <1>10, <1>11, <1>12, <1>13, <1>14, <1>15, <1>16
    DEF Continue

LEMMA AloneInvInit == AloneInit => AloneInv
<1> SUFFICES ASSUME AloneInit PROVE OneInCall /\ AloneTruth
    BY DEF AloneInv
<1>1. registered = NoInstance /\ anchor = <<>>
    BY DEF AloneInit, ServiceInit, Init
<1>2. \A t \in Clients : at[t] = "out" /\ pc[t] = "idle"
    BY DEF AloneInit, ServiceInit, Init
<1>3. ~IsActive(anchor)
    BY <1>1 DEF IsActive, ActiveInstance, Registered
<1>4. OneInCall
    BY <1>2 DEF OneInCall, InCall
<1>5. StatusTruthful /\ NoneWithoutStruct
    BY <1>1, <1>3 DEF StatusTruthful, RunningMeansActive, StoppedMeansInactive,
                ErrorMeansInactive, NoneWithoutStruct, RegisteredIn
<1>6. \A t \in Clients : CallTruthful(t)
    BY <1>2 DEF CallTruthful, StartLocations, StopLocations
<1>7. QED
    BY <1>4, <1>5, <1>6 DEF AloneTruth

LEMMA AloneInvNext ==
    ASSUME AloneInv, ServiceInv, AnchorInv, [AloneNext]_<<allVars, overlapped>>
    PROVE  AloneInv'
<1> SUFFICES ASSUME ~overlapped' PROVE OneInCall' /\ AloneTruth'
    BY DEF AloneInv
<1>1. ASSUME UNCHANGED allVars, ~overlapped PROVE OneInCall' /\ AloneTruth'
    <2>1. OneInCall /\ AloneTruth
        BY <1>1 DEF AloneInv
    <2>2. UNCHANGED <<anchor, pc, registered, status, at, call, service>>
        BY <1>1 DEF allVars, vars, serviceVars, structVars, threadVars
    <2>3. OneInCall'
        BY <2>1, <2>2 DEF OneInCall, InCall
    <2>4. StatusTruthful' /\ NoneWithoutStruct'
        BY <2>1, <2>2 DEF AloneTruth, StatusTruthful, RunningMeansActive,
           StoppedMeansInactive, ErrorMeansInactive, NoneWithoutStruct, RegisteredIn,
           IsActive, ActiveInstance, Registered
    <2>5. ASSUME NEW t \in Clients PROVE CallTruthful(t)'
        BY <2>1, <2>2 DEF AloneTruth, CallTruthful, RegisteredIn, IsActive,
           ActiveInstance, Registered
    <2>6. QED
        BY <2>3, <2>4, <2>5 DEF AloneTruth
<1>2. CASE AloneNext
    <2>1. /\ OneInCall /\ AloneTruth
          /\ \A t, u \in Clients : t # u => ~(InCall(t)' /\ InCall(u)')
        BY <1>2 DEF AloneNext, AloneInv
    <2>2. OneInCall'
        BY <2>1 DEF OneInCall
    <2>3. CASE \E t \in Clients : Begin(t) \/ Continue(t)
        <3>1. PICK t \in Clients : Begin(t) \/ Continue(t)
            BY <2>3
        <3>2. AloneTruth'
            BY <2>1, <2>2, <3>1, BeginTruth, ContinueTruth
        <3>3. QED
            BY <2>2, <3>2
    <2>4. CASE UNCHANGED allVars
        BY <1>1, <1>2, <2>4 DEF AloneNext
    <2>5. QED
        BY <1>2, <2>2, <2>3, <2>4 DEF AloneNext, ServiceNext
<1>3. QED
    BY <1>1, <1>2

(* For any number of threads and structs: until two of its threads are in a
   call at the same time, what the registry says of the service is true of its
   adaptor, after calls that succeed and calls that fail. *)
THEOREM AloneTruthfulHolds == AloneSpec => []AloneTruthful
<1>1. AloneInit => ServiceInit
    BY DEF AloneInit
<1>2. [AloneNext]_<<allVars, overlapped>> => [ServiceNext]_allVars
    BY DEF AloneNext
<1>3. AloneSpec => ServiceSpec
    BY <1>1, <1>2, PTL DEF AloneSpec, ServiceSpec
<1>4. AloneSpec => []AloneInv
    <2>1. AloneInv /\ ServiceInv /\ AnchorInv /\ [AloneNext]_<<allVars, overlapped>> => AloneInv'
        BY AloneInvNext
    <2>2. QED
        BY <1>3, <2>1, AloneInvInit, ServiceInvariant, ServiceKeepsAnchor, PTL DEF AloneSpec
<1>5. AloneInv => AloneTruthful
    BY DEF AloneInv, AloneTruth, AloneTruthful
<1>6. QED
    BY <1>4, <1>5, PTL
=============================================================================
