---------------------- MODULE CoderWorkspaces_proofs ----------------------
(***************************************************************************)
(* Theorems about the helper together with its clients, for any number of  *)
(* workspaces, capabilities and threads.                                   *)
(***************************************************************************)
EXTENDS CoderWorkspaces, CoderHelper_proofs

----------------------------------------------------------------------------
(* The clients only make requests that the helper serves anyway.           *)

\* A step of the composition is a step of the helper and its environment.
LEMMA WorkspacesStep == [WorkspacesNext]_allVars => [Next]_vars
<1> SUFFICES ASSUME [WorkspacesNext]_allVars PROVE [Next]_vars
  OBVIOUS
<1>1. ASSUME NEW w \in Workspaces, NEW c \in Capabilities,
             ClientAcquire(w, c) \/ ClientAcquireLost(w, c) \/ ClientRelease(w, c)
      PROVE  Next
  BY <1>1 DEF ClientAcquire, ClientAcquireLost, ClientRelease, LeaseRequest, Next
<1>2. ASSUME NEW w \in Workspaces, NEW c \in Capabilities, NEW t \in Threads,
             NEW op \in Operations, ClientSend(t, op, w, c)
      PROVE  Next
  BY <1>2 DEF ClientSend, Next
<1>3. ASSUME NEW w \in Workspaces, ClientStartsContainer(w) \/ ClientStopsContainer(w)
      PROVE  Next
  BY <1>3 DEF ClientStartsContainer, ClientStopsContainer, Container, Environment, Next
<1>4. ASSUME NEW w \in Workspaces, UserWrites(w) PROVE Next
  BY <1>4 DEF UserWrites, Environment, Next
<1>5. ASSUME NEW w \in Workspaces, ClientRefused(w) \/ GiveUp(w) PROVE UNCHANGED vars
  BY <1>5 DEF ClientRefused, GiveUp
<1>6. ASSUME NEW t \in Threads, Reply(t) \/ HelperWorks(t) \/ HelperRefuses(t) \/ HelperFails(t)
      PROVE  Next
  BY <1>6 DEF Reply, HelperWorks, HelperRefuses, HelperFails, HandlerStep, Next
<1>7. CASE ServiceCrash \/ Reboot \/ ServiceBoots
  BY <1>7 DEF ServiceCrash, Reboot, ServiceBoots, Environment, Next
<1>8. CASE UNCHANGED allVars
  BY <1>8 DEF allVars
<1>9. QED
  BY <1>1, <1>2, <1>3, <1>4, <1>5, <1>6, <1>7, <1>8 DEF WorkspacesNext

\* Clients that keep the documented order, with whatever faults, are clients
\* of the helper: all that is proved of it holds for them.
THEOREM WorkspacesUseTheHelper == WorkspacesSpec => Spec
<1>1. WorkspacesInit => Init
  BY DEF WorkspacesInit
<1>2. QED
  BY <1>1, WorkspacesStep, PTL DEF WorkspacesSpec, Spec

----------------------------------------------------------------------------
(* Types.                                                                  *)

Waiting == {"starting", "stopping", "deleting"}

ClientTypeOK ==
    /\ client \in [Workspaces -> Phases]
    /\ awaits \in [Workspaces -> SUBSET Threads]
    /\ \A w \in Workspaces : awaits[w] # {} <=> client[w] \in Waiting
    /\ faults \in 0..MaxFaults

\* An answer, or none, ends the waiting.
LEMMA AnswerPhase ==
    \A phase \in Waiting, ok \in BOOLEAN : AfterAnswer(phase, ok) \in Phases \ Waiting
<1> SUFFICES ASSUME NEW phase \in Waiting, NEW ok \in BOOLEAN
             PROVE  AfterAnswer(phase, ok) \in Phases \ Waiting
  OBVIOUS
<1>1. CASE phase = "starting"
  BY <1>1 DEF AfterAnswer, Phases, Waiting
<1>2. CASE phase = "stopping"
  BY <1>2 DEF AfterAnswer, Phases, Waiting
<1>3. CASE phase = "deleting"
  BY <1>3 DEF AfterAnswer, Phases, Waiting
<1>4. QED
  BY <1>1, <1>2, <1>3 DEF Waiting

\* Every step of a client or of the helper keeps the types.
LEMMA ClientTypes ==
    ASSUME TypeOK, ClientTypeOK, [WorkspacesNext]_allVars PROVE ClientTypeOK'
<1> USE FaultsAssumption DEF ClientTypeOK
<1>1. ASSUME NEW w \in Workspaces, NEW c \in Capabilities,
             ClientAcquire(w, c) \/ ClientAcquireLost(w, c) \/ ClientRelease(w, c)
      PROVE  ClientTypeOK'
  BY <1>1 DEF ClientAcquire, ClientAcquireLost, ClientRelease, Become, CountFault, Phases, Waiting
<1>2. ASSUME NEW w \in Workspaces, NEW c \in Capabilities, NEW t \in Threads,
             NEW op \in Operations, ClientSend(t, op, w, c)
      PROVE  ClientTypeOK'
  <2>1. PICK phase \in Waiting : Become(w, phase)
    BY <1>2 DEF ClientSend, Asks, Operations, Waiting
  <2>2. awaits' = [awaits EXCEPT ![w] = {t}] /\ faults' = faults
    BY <1>2 DEF ClientSend
  <2>3. QED
    BY <2>1, <2>2 DEF Become, Phases, Waiting
<1>3. ASSUME NEW w \in Workspaces, ClientStartsContainer(w) \/ ClientStopsContainer(w)
                                   \/ ClientRefused(w)
      PROVE  ClientTypeOK'
  BY <1>3 DEF ClientStartsContainer, ClientStopsContainer, ClientRefused, Become, Phases, Waiting
<1>4. ASSUME NEW w \in Workspaces, UserWrites(w) PROVE ClientTypeOK'
  BY <1>4 DEF UserWrites, clientVars
<1>5. ASSUME NEW w \in Workspaces, NEW ok \in BOOLEAN, awaits[w] # {},
             Become(w, AfterAnswer(client[w], ok)), awaits' = [awaits EXCEPT ![w] = {}],
             UNCHANGED faults \/ CountFault
      PROVE  ClientTypeOK'
  <2>1. AfterAnswer(client[w], ok) \in Phases \ Waiting
    BY <1>5, AnswerPhase
  <2>2. QED
    BY <1>5, <2>1 DEF Become, CountFault
<1>6. ASSUME NEW w \in Workspaces, GiveUp(w) PROVE ClientTypeOK'
  BY <1>5, <1>6 DEF GiveUp
<1>7. ASSUME NEW t \in Threads, Reply(t) PROVE ClientTypeOK'
  <2>1. W(t) \in Workspaces
    BY <1>7, TypeParts, Serves DEF Reply, Answer
  <2>2. CASE t \in awaits[W(t)]
    <3>1. /\ Become(W(t), AfterAnswer(client[W(t)], pc[t] = "ok"))
          /\ awaits' = [awaits EXCEPT ![W(t)] = {}]
          /\ UNCHANGED faults
      BY <1>7, <2>2 DEF Reply
    <3>2. awaits[W(t)] # {}
      BY <2>2
    <3> DEFINE ok == pc[t] = "ok"
    <3>3. ok \in BOOLEAN /\ Become(W(t), AfterAnswer(client[W(t)], ok))
      BY <3>1
    <3> HIDE DEF ok
    <3>4. QED
      BY <1>5, <2>1, <3>1, <3>2, <3>3
  <2>3. CASE t \notin awaits[W(t)]
    BY <1>7, <2>3 DEF Reply
  <2>4. QED
    BY <2>2, <2>3
<1>8. ASSUME NEW t \in Threads, HelperWorks(t) \/ HelperRefuses(t) \/ HelperFails(t)
      PROVE  ClientTypeOK'
  BY <1>8 DEF HelperWorks, HelperRefuses, HelperFails, CountFault, clientVars
<1>9. CASE ServiceCrash \/ Reboot
  <2>1. \A w \in Workspaces : awaits[w] # {} => AfterAnswer(client[w], FALSE) \in Phases \ Waiting
    BY AnswerPhase
  <2>2. faults' \in 0..MaxFaults
    <3>1. CountFault
      BY <1>9 DEF ServiceCrash, Reboot
    <3>2. QED
      BY <3>1 DEF CountFault
  <2>3. awaits' = [w \in Workspaces |-> {}]
    BY <1>9 DEF ServiceCrash, Reboot, DropRequests
  <2>4. client' \in [Workspaces -> Phases \ Waiting]
    <3>1. CASE ServiceCrash
      BY <2>1, <3>1 DEF ServiceCrash, DropRequests
    <3>2. CASE Reboot
      <4>1. "held" \in Phases \ Waiting
        BY DEF Phases, Waiting
      <4>2. QED
        BY <2>1, <3>2, <4>1 DEF Reboot
    <3>3. QED
      BY <1>9, <3>1, <3>2
  <2>5. QED
    BY <2>2, <2>3, <2>4
<1>10. CASE ServiceBoots \/ UNCHANGED allVars
  BY <1>10 DEF ServiceBoots, clientVars, allVars
<1>11. QED
  BY <1>1, <1>2, <1>3, <1>4, <1>6, <1>7, <1>8, <1>9, <1>10 DEF WorkspacesNext

\* Whatever faults happen, a client waits for an answer just in the phases in
\* which it has asked for something.
THEOREM WorkspacesTypeCorrect == WorkspacesSpec => []WorkspacesTypeOK
<1>1. WorkspacesInit => ClientTypeOK
  BY FaultsAssumption DEF WorkspacesInit, ClientTypeOK, Phases, Waiting
<1>2. TypeOK /\ ClientTypeOK => WorkspacesTypeOK
  BY DEF ClientTypeOK, WorkspacesTypeOK, Waiting
<1>3. QED
  BY <1>1, <1>2, ClientTypes, WorkspacesUseTheHelper, HelperTypeCorrect, PTL DEF WorkspacesSpec

----------------------------------------------------------------------------
(* The invariants of clients that keep their order and wait for their      *)
(* answers.  Calls fail and the answers to acquires get lost.  What the    *)
(* clients know of their workspaces (Served) outlives crashes and reboots; *)
(* that a lease covers it (Leased) does not, as a restart may clear the    *)
(* lease of a workspace that is mounted.  All of it takes mountpoint -q at *)
(* its word (is_mounted 413-415): MountpointErrs is FALSE.                 *)

\* A request in flight is one that its workspace's client waits for, so there
\* is one at most per workspace.
Outstanding ==
    /\ \A w \in Workspaces, t \in Threads : t \in awaits[w] => pc[t] # "idle" /\ W(t) = w
    /\ \A t \in Threads : pc[t] # "idle" => awaits[W(t)] = {t}

\* It is the request that the client's phase says.
Asked(t) ==
    pc[t] # "idle" =>
      /\ Op(t) \in {"provision", "attach"} => client[W(t)] = "starting"
      /\ Op(t) = "detach" => client[W(t)] = "stopping"
      /\ Op(t) = "destroy" => client[W(t)] = "deleting"

\* Where an operation may be, and what it has achieved when it ends.
Achieved(t) ==
    /\ pc[t] \in ProvisionCalls \cup MountCalls => Op(t) \in {"provision", "attach"}
    /\ pc[t] \in DetachCalls => Op(t) \in {"detach", "destroy"}
    /\ pc[t] \in DestroyCalls \cup {"release"} => Op(t) = "destroy"
    /\ pc[t] = "chown" => W(t) \in mounted
    /\ pc[t] = "ok" /\ Op(t) \in {"provision", "attach"} => W(t) \in mounted
    /\ pc[t] = "ok" /\ Op(t) = "detach" => W(t) \notin mounted
    /\ pc[t] = "release" \/ (pc[t] = "ok" /\ Op(t) = "destroy") =>
          nas[W(t)] = {} /\ W(t) \notin session \cup mounted
    /\ pc[t] = "ok" /\ Op(t) = "destroy" => ~HasLease(W(t))

\* Between two requests a client knows whether its file system is mounted.
Settled ==
    /\ \A w \in Workspaces : client[w] \in {"ready", "active"} => w \in mounted
    /\ \A w \in Workspaces : client[w] = "unmounted" => w \notin mounted
    /\ \A w \in running : client[w] = "active"

Served ==
    /\ Outstanding
    /\ \A t \in Threads : Asked(t) /\ Achieved(t)
    /\ Settled

\* The lease outlasts every operation that was authorized by it, every phase of
\* a client that counts on it, and the mount.
Leased ==
    /\ \A t \in Threads : pc[t] \notin {"idle", "ok", "failed"} => Authorized(W(t), req[t].cap)
    /\ \A w \in Workspaces :
          client[w] \in {"held", "starting", "ready", "active", "stopping", "unmounted"}
             => HasLease(w)
    /\ \A w \in mounted : HasLease(w)
    /\ svc # "up" => lease = {}

\* A step of a handler that is not yet at its end.
Advance(t) ==
    \/ ProvisionStep(t) \/ MountStep(t) \/ DetachStep(t) \/ DestroyStep(t)
    \/ Fail(t) \/ Enter(t)

\* It changes nothing of other workspaces, and not what was asked.
LEMMA OwnWorkspace ==
    ASSUME HandlerTypeOK, StorageTypeOK, NEW t \in Threads, Advance(t)
    PROVE  /\ pc[t] \in Calls \cup {"wait"}
           /\ pc'[t] \in Calls \cup {"release", "ok", "failed"}
           /\ \A s \in Threads : req'[s].op = req[s].op
           /\ \A v \in Workspaces : v # W(t) =>
                 /\ nas'[v] = nas[v]
                 /\ v \in session' <=> v \in session
                 /\ v \in mounted' <=> v \in mounted
<1> USE AreCalls DEF HandlerTypeOK, StorageTypeOK, storageVars
<1>1. CASE ProvisionStep(t)
  BY <1>1 DEF ProvisionStep, ListDataset, CreateZvol, ListTargets, CreateTarget, ListExtents,
     CreateExtent, ListAssociations, CreateAssociation, Read, CreateObject, Goto
<1>2. CASE MountStep(t)
  BY <1>2 DEF MountStep, Login, DeviceAppears, BlkidFindsNothing, BlkidFindsExt4, Format,
     IsMounted, Mount, Chown, Read, Leave, Goto
<1>3. CASE DetachStep(t)
  BY <1>3 DEF DetachStep, WasMounted, Unmount, Logout, Read, Leave, Goto
<1>4. CASE DestroyListTargets(t)
  <2>1. pc[t] \in Calls /\ pc'[t] \in Calls /\ UNCHANGED storageVars
    BY <1>4 DEF DestroyListTargets, Goto
  <2>2. req[t] \in Requests
    BY <2>1, Serves, NotCalls
  <2>3. req' = [req EXCEPT ![t] = [req[t] EXCEPT !.targets = nas[W(t)] \cap {"target"}]]
    BY <1>4 DEF DestroyListTargets
  <2>4. \A s \in Threads : req'[s].op = req[s].op
    BY <2>2, <2>3 DEF Requests
  <2>5. QED
    BY <2>1, <2>4
<1>5. CASE DestroyStep(t) /\ ~DestroyListTargets(t)
  BY <1>5 DEF DestroyStep, DestroyListAssociations, DeleteAssociation, DestroyListExtents,
     DeleteExtent, DeleteTarget, DestroyListDataset, DeleteZvol, Read, DeleteObject, Leave,
     Goto, AfterExtents
<1>6. CASE Fail(t)
  BY <1>6 DEF Fail, Leave, Goto
<1>7. CASE Enter(t)
  <2>1. Op(t) \in Operations
    BY <1>7, Serves DEF Enter, Requests, Op
  <2>2. FirstCall(Op(t)) \in Calls
    BY <2>1 DEF FirstCall, Operations
  <2>3. QED
    BY <1>7, <2>2 DEF Enter, Goto
<1>8. QED
  BY <1>1, <1>2, <1>3, <1>4, <1>5, <1>6, <1>7 DEF Advance

\* An operation that ends well has achieved what it was asked for.
LEMMA AchievedByCalls ==
    ASSUME MountpointTells, StorageInv, NEW t \in Threads, Achieved(t), Advance(t)
    PROVE  Achieved(t)'
<1> USE DEF Achieved, ProvisionCalls, MountCalls, DetachCalls, DestroyCalls, W, Op
<1>1. HandlerTypeOK /\ StorageTypeOK /\ Ordered /\ Knows(t)
  BY TypeParts DEF StorageInv
<1>2. pc[t] # "idle" /\ W(t) \in Workspaces /\ req[t] \in Requests
  <2>1. pc[t] # "idle"
    BY <1>1, OwnWorkspace, NotCalls
  <2>2. QED
    BY <1>1, <2>1, Serves
<1>3. req'[t].op = req[t].op /\ req'[t].ws = req[t].ws
  BY <1>1, OwnWorkspace, RequestsKept DEF Advance
<1>4. nas[W(t)] \subseteq Objects
  BY <1>1, <1>2 DEF StorageTypeOK
<1>5. CASE ProvisionStep(t)
  BY <1>1, <1>3, <1>5 DEF ProvisionStep, ListDataset, CreateZvol, ListTargets, CreateTarget,
     ListExtents, CreateExtent, ListAssociations, CreateAssociation, Read, CreateObject, Goto,
     HandlerTypeOK
<1>6. CASE MountStep(t)
  BY <1>1, <1>3, <1>6 DEF MountStep, Login, DeviceAppears, BlkidFindsNothing, BlkidFindsExt4,
     Format, IsMounted, Mount, Chown, Read, Leave, Goto, HandlerTypeOK, storageVars
<1>7. CASE DetachStep(t)
  BY <1>1, <1>3, <1>7 DEF DetachStep, WasMounted, Unmount, Logout, Read, Leave, Goto,
     HandlerTypeOK, storageVars, Knows
<1>8. CASE DestroyListDataset(t)
  <2>1. W(t) \notin session \cup mounted
    BY <1>1, <1>8 DEF DestroyListDataset, Knows
  <2>2. "zvol" \notin nas[W(t)] => nas[W(t)] = {}
    BY <1>1, <1>2, <1>4 DEF Ordered, Objects
  <2>3. QED
    BY <1>1, <1>3, <1>8, <2>1, <2>2 DEF DestroyListDataset, Leave, Goto, HandlerTypeOK, storageVars
<1>9. CASE DeleteZvol(t)
  <2>1. W(t) \notin session \cup mounted /\ "target" \notin nas[W(t)]
    BY <1>1, <1>9 DEF DeleteZvol, Knows
  <2>2. nas[W(t)] \ {"zvol"} = {}
    BY <1>1, <1>2, <1>4, <2>1 DEF Ordered, Objects
  <2>3. nas'[W(t)] = {} /\ pc'[t] = "release" /\ UNCHANGED <<session, mounted>>
    BY <1>1, <1>2, <1>9, <2>2 DEF DeleteZvol, Leave, Goto, HandlerTypeOK, StorageTypeOK
  <2>4. Op(t) = "destroy"
    BY <1>9 DEF DeleteZvol
  <2>5. QED
    BY <1>3, <2>1, <2>3, <2>4
<1>10. CASE DestroyStep(t) /\ ~DestroyListDataset(t) /\ ~DeleteZvol(t)
  <2>1. pc'[t] \in DestroyCalls /\ pc[t] \in DestroyCalls
    BY <1>1, <1>10 DEF DestroyStep, DestroyListTargets, DestroyListAssociations,
       DeleteAssociation, DestroyListExtents, DeleteExtent, DeleteTarget, Read, DeleteObject,
       AfterExtents, Goto, HandlerTypeOK
  <2>2. Op(t) = "destroy"
    BY <2>1
  <2>3. QED
    BY <1>3, <2>1, <2>2
<1>11. CASE Fail(t)
  BY <1>1, <1>3, <1>11 DEF Fail, Leave, Goto, HandlerTypeOK
<1>12. CASE Enter(t)
  <2>1. Op(t) \in Operations
    BY <1>2 DEF Requests
  <2>2. pc'[t] = FirstCall(Op(t))
    BY <1>1, <1>12 DEF Enter, Goto, HandlerTypeOK
  <2>3. QED
    BY <1>3, <2>1, <2>2 DEF FirstCall, Operations
<1>13. QED
  BY <1>5, <1>6, <1>7, <1>8, <1>9, <1>10, <1>11, <1>12 DEF Advance

\* Two requests in flight are of different workspaces.
LEMMA OnePerWorkspace ==
    ASSUME Outstanding, NEW s \in Threads, NEW t \in Threads, s # t, pc[s] # "idle", pc[t] # "idle"
    PROVE  W(s) # W(t)
BY DEF Outstanding

\* A step of a handler keeps the invariant: what it changes is its own
\* workspace's, whose lease it has.
LEMMA AdvanceServes ==
    ASSUME MountpointTells, StorageInv, Served, NEW t \in Threads, Advance(t),
           UNCHANGED <<client, awaits>>
    PROVE  Served' /\ (Leased => Leased')
<1>1. HandlerTypeOK /\ StorageTypeOK
  BY TypeParts DEF StorageInv
<1>2. /\ pc[t] \notin {"idle", "ok", "failed"}
      /\ pc'[t] # "idle"
      /\ \A s \in Threads : req'[s].op = req[s].op
      /\ \A v \in Workspaces : v # W(t) =>
            /\ nas'[v] = nas[v]
            /\ v \in session' <=> v \in session
            /\ v \in mounted' <=> v \in mounted
  BY <1>1, OwnWorkspace, NotCalls
<1>3. /\ UNCHANGED leaseVars
      /\ \A s \in Threads \ {t} : pc'[s] = pc[s]
      /\ \A s \in Threads : req'[s].cap = req[s].cap /\ req'[s].ws = req[s].ws
  BY <1>1, RequestsKept DEF Advance
<1>4. \A s \in Threads : W(s)' = W(s) /\ Op(s)' = Op(s)
  BY <1>2, <1>3 DEF W, Op
<1>5. W(t) \in Workspaces /\ Op(t) \in Operations
  BY <1>1, <1>2, Serves DEF Requests, Op
<1>6. client[W(t)] \in Waiting
  BY <1>2, <1>5 DEF Served, Asked, Operations, Waiting
<1>7. Outstanding'
  BY <1>2, <1>3, <1>4 DEF Served, Outstanding
<1>8. \A s \in Threads : Asked(s)'
  BY <1>2, <1>3, <1>4 DEF Served, Asked
<1>9. \A s \in Threads : Achieved(s)'
  <2> SUFFICES ASSUME NEW s \in Threads PROVE Achieved(s)'
    OBVIOUS
  <2>1. CASE s = t
    BY <2>1, AchievedByCalls DEF Served
  <2>2. CASE s # t /\ pc[s] = "idle"
    BY <1>3, <2>2 DEF Achieved, ProvisionCalls, MountCalls, DetachCalls, DestroyCalls
  <2>3. CASE s # t /\ pc[s] # "idle"
    <3>1. W(s) # W(t) /\ W(s) \in Workspaces
      BY <1>1, <1>2, <2>3, OnePerWorkspace, Serves DEF Served
    <3>2. HasLease(W(s))' <=> HasLease(W(s))
      BY <1>3, <1>4 DEF HasLease, Holder, leaseVars
    <3>3. Achieved(s)
      BY DEF Served
    <3>4. QED
      BY <1>2, <1>3, <1>4, <2>3, <3>1, <3>2, <3>3 DEF Achieved
  <2>4. QED
    BY <2>1, <2>2, <2>3
<1>10. ASSUME Leased PROVE Leased'
  <2>1. Authorized(W(t), req[t].cap)
    BY <1>10, <1>2 DEF Served, Leased
  <2>2. HasLease(W(t))
    BY <2>1 DEF HasLease, Holder, Authorized
  <2>3. \A w : HasLease(w)' <=> HasLease(w)
    BY <1>3 DEF HasLease, Holder, leaseVars
  <2>4. \A w \in mounted' : HasLease(w)
    BY <1>10, <1>1, <1>2, <2>2 DEF Served, Leased, StorageTypeOK, Advance, ProvisionStep,
       ListDataset, CreateZvol, ListTargets, CreateTarget, ListExtents, CreateExtent,
       ListAssociations, CreateAssociation, MountStep, Login, DeviceAppears, BlkidFindsNothing,
       BlkidFindsExt4, Format, IsMounted, Mount, Chown, DetachStep, WasMounted, Unmount, Logout,
       DestroyStep, DestroyListTargets, DestroyListAssociations, DeleteAssociation,
       DestroyListExtents, DeleteExtent, DeleteTarget, DestroyListDataset, DeleteZvol, Read,
       CreateObject, DeleteObject, Leave, Fail, Enter, storageVars
  <2>5. QED
    BY <1>10, <1>2, <1>3, <1>4, <2>1, <2>3, <2>4 DEF Served, Leased, Authorized, leaseVars
<1>11. Settled'
  <2>1. \A w \in Workspaces :
           client[w] \in {"ready", "active", "unmounted"} => w # W(t)
    BY <1>6 DEF Waiting
  <2>2. QED
    BY <1>2, <1>3, <2>1 DEF Served, Settled, leaseVars
<1>12. QED
  BY <1>7, <1>8, <1>9, <1>10, <1>11 DEF Served

\* The lease has one holder.
LEMMA OneHolder ==
    ASSUME LeaseTypeOK
    PROVE  /\ \A v, w : HasLease(v) /\ HasLease(w) => v = w
           /\ \A w, c : Authorized(w, c) => HasLease(w)
           /\ \A v, w, b, c : Authorized(v, b) /\ Authorized(w, c) => v = w
           /\ lease = {} => \A w : ~HasLease(w)
BY DEF LeaseTypeOK, Leases, HasLease, Holder, Authorized

\* The release that ends a DELETE frees a lease nobody counts on any more; it
\* fails when the lease has become another's.
LEMMA ReleaseServes ==
    ASSUME StorageInv, Served, NEW t \in Threads, ReleaseAfterDestroy(t),
           UNCHANGED <<client, awaits>>
    PROVE  Served' /\ (Leased => Leased')
<1>1. HandlerTypeOK /\ LeaseTypeOK
  BY TypeParts DEF StorageInv
<1>2. PICK end \in {"ok", "failed"} :
         /\ pc[t] = "release" /\ pc' = [pc EXCEPT ![t] = end]
         /\ end = "ok" => lease' = {}
         /\ lease' \in {lease, {}}
         /\ Authorized(W(t), req[t].cap) => end = "ok"
  BY DEF ReleaseAfterDestroy, Goto
<1>3. UNCHANGED <<known, svc, ps, running, req, opLock, nas, fs, session, mounted>>
  BY DEF ReleaseAfterDestroy, storageVars
<1>4. pc'[t] = end /\ \A s \in Threads \ {t} : pc'[s] = pc[s]
  BY <1>1, <1>2 DEF HandlerTypeOK
<1>5. Op(t) = "destroy" /\ nas[W(t)] = {} /\ W(t) \notin session \cup mounted
  BY <1>2 DEF Served, Achieved
<1>6. client[W(t)] = "deleting" /\ W(t) \in Workspaces
  BY <1>1, <1>2, <1>5, Serves DEF Served, Asked
<1>7. \A w : HasLease(w)' => HasLease(w) /\ lease' # {}
  BY <1>2 DEF HasLease, Holder
<1>8. Outstanding'
  BY <1>2, <1>3, <1>4 DEF Served, Outstanding, W
<1>9. \A s \in Threads : Asked(s)'
  BY <1>2, <1>3, <1>4 DEF Served, Asked, W, Op
<1>10. \A s \in Threads : Achieved(s)'
  <2> SUFFICES ASSUME NEW s \in Threads PROVE Achieved(s)'
    OBVIOUS
  <2>1. HasLease(W(s))' => HasLease(W(s)) /\ lease' # {}
    BY <1>2, <1>3 DEF HasLease, Holder, W
  <2>2. CASE s = t
    BY <1>2, <1>3, <1>4, <1>5, <2>1, <2>2 DEF Achieved, W, Op, ProvisionCalls, MountCalls,
       DetachCalls, DestroyCalls
  <2>3. CASE s # t
    <3>1. Achieved(s)
      BY DEF Served
    <3>2. QED
      BY <1>3, <1>4, <2>1, <2>3, <3>1 DEF Achieved, W, Op
  <2>4. QED
    BY <2>2, <2>3
<1>11. ASSUME Leased PROVE Leased'
  <2>1. Authorized(W(t), req[t].cap) /\ lease' = {}
    BY <1>2, <1>11 DEF Leased
  <2>2. \A w \in Workspaces : HasLease(w) <=> w = W(t)
    BY <1>1, <2>1, OneHolder
  <2>3. \A s \in Threads : pc'[s] \notin {"idle", "ok", "failed"} => FALSE
    <3> SUFFICES ASSUME NEW s \in Threads, pc'[s] \notin {"idle", "ok", "failed"} PROVE FALSE
      OBVIOUS
    <3>1. s # t /\ pc[s] \notin {"idle", "ok", "failed"}
      BY <1>4
    <3>2. Authorized(W(s), req[s].cap)
      BY <1>11, <3>1 DEF Leased
    <3>3. W(s) = W(t)
      BY <1>1, <2>1, <3>2, OneHolder
    <3>4. QED
      BY <1>2, <3>1, <3>3, OnePerWorkspace DEF Served
  <2>4. \A w \in Workspaces :
           client[w] \notin {"held", "starting", "ready", "active", "stopping", "unmounted"}
    BY <1>6, <1>11, <2>2 DEF Leased
  <2>5. \A w \in mounted : FALSE
    BY <1>1, <1>5, <1>11, <2>1, OneHolder DEF Leased
  <2>6. QED
    BY <1>3, <2>1, <2>3, <2>4, <2>5 DEF Leased
<1>12. Settled'
  BY <1>3 DEF Served, Settled
<1>13. QED
  BY <1>8, <1>9, <1>10, <1>11, <1>12 DEF Served

\* An answer tells the client what the operation has achieved.
LEMMA ReplyServes ==
    ASSUME StorageInv, ClientTypeOK, Served, NEW t \in Threads, Reply(t)
    PROVE  Served' /\ (Leased => Leased')
<1>1. HandlerTypeOK /\ LeaseTypeOK
  BY TypeParts DEF StorageInv
<1>2. pc[t] \in {"ok", "failed"} /\ pc' = [pc EXCEPT ![t] = "idle"] /\ req' = [req EXCEPT ![t] = <<>>]
  BY DEF Reply, Answer, Goto
<1>3. UNCHANGED <<lease, known, svc, ps, running, opLock, nas, fs, session, mounted>>
  BY DEF Reply, Answer, leaseVars, storageVars
<1>4. W(t) \in Workspaces /\ Op(t) \in Operations
  BY <1>1, <1>2, Serves DEF Requests, Op
<1>5. awaits[W(t)] = {t}
  BY <1>2 DEF Served, Outstanding
<1> DEFINE ok == pc[t] = "ok"
           phase == AfterAnswer(client[W(t)], ok)
<1>6. client' = [client EXCEPT ![W(t)] = phase] /\ awaits' = [awaits EXCEPT ![W(t)] = {}]
  BY <1>5 DEF Reply, Become
<1>7. /\ client'[W(t)] = phase
      /\ awaits'[W(t)] = {}
      /\ \A w \in Workspaces : w # W(t) => client'[w] = client[w] /\ awaits'[w] = awaits[w]
  BY <1>4, <1>6 DEF ClientTypeOK
<1>8. pc'[t] = "idle" /\ \A s \in Threads \ {t} : pc'[s] = pc[s] /\ req'[s] = req[s]
  BY <1>1, <1>2 DEF HandlerTypeOK
<1>9. \A s \in Threads \ {t} : /\ W(s)' = W(s) /\ Op(s)' = Op(s)
                               /\ pc[s] # "idle" => W(s) # W(t) /\ W(s) \in Workspaces
  BY <1>1, <1>2, <1>8, OnePerWorkspace, Serves DEF Served, W, Op
<1>10. Outstanding'
  BY <1>4, <1>5, <1>7, <1>8, <1>9 DEF Served, Outstanding
<1>11. \A s \in Threads : Asked(s)'
  BY <1>7, <1>8, <1>9 DEF Served, Asked
<1>12. \A s \in Threads : Achieved(s)'
  <2> SUFFICES ASSUME NEW s \in Threads PROVE Achieved(s)'
    OBVIOUS
  <2>1. CASE s = t
    BY <1>8, <2>1 DEF Achieved, ProvisionCalls, MountCalls, DetachCalls, DestroyCalls
  <2>2. CASE s # t
    <3>1. Achieved(s)
      BY DEF Served
    <3>2. QED
      BY <1>3, <1>8, <1>9, <2>2, <3>1 DEF Achieved, HasLease, Holder
  <2>3. QED
    BY <2>1, <2>2
<1>13. /\ client[W(t)] = "starting" => phase \in {"ready", "held"} /\ (phase = "ready" => W(t) \in mounted)
       /\ client[W(t)] = "stopping" => phase \in {"unmounted", "held"}
                                       /\ (phase = "unmounted" => W(t) \notin mounted)
       /\ client[W(t)] = "deleting" => phase \in {"off", "condemned"}
       /\ client[W(t)] \in Waiting
  <2>1. Asked(t) /\ Achieved(t)
    BY DEF Served
  <2>2. CASE Op(t) \in {"provision", "attach"}
    BY <1>2, <2>1, <2>2 DEF Asked, Achieved, AfterAnswer, Waiting
  <2>3. CASE Op(t) = "detach"
    BY <1>2, <2>1, <2>3 DEF Asked, Achieved, AfterAnswer, Waiting
  <2>4. CASE Op(t) = "destroy"
    BY <1>2, <2>1, <2>4 DEF Asked, AfterAnswer, Waiting
  <2>5. QED
    BY <1>4, <2>2, <2>3, <2>4 DEF Operations
<1> HIDE DEF phase, ok
<1>14. ASSUME Leased PROVE Leased'
  <2>1. \A s \in Threads : pc'[s] \notin {"idle", "ok", "failed"} => Authorized(W(s), req[s].cap)'
    BY <1>14, <1>3, <1>8, <1>9 DEF Served, Leased, Authorized
  <2>2. \A w \in Workspaces :
           client'[w] \in {"held", "starting", "ready", "active", "stopping", "unmounted"}
             => HasLease(w)
    BY <1>14, <1>4, <1>7, <1>13 DEF Served, Leased, Waiting
  <2>3. QED
    BY <1>14, <1>3, <2>1, <2>2 DEF Served, Leased, HasLease, Holder
<1>15. Settled'
  <2>1. W(t) \notin running
    BY <1>4, <1>13 DEF Served, Settled, Waiting
  <2>2. running \subseteq Workspaces
    BY <1>1 DEF LeaseTypeOK
  <2>3. QED
    BY <1>3, <1>4, <1>7, <1>13, <2>1, <2>2 DEF Served, Settled, Waiting
<1>16. QED
  BY <1>10, <1>11, <1>12, <1>14, <1>15 DEF Served

\* A client asks for what its phase allows, with the lease it holds.
LEMMA SendServes ==
    ASSUME StorageInv, ClientTypeOK, Served, NEW t \in Threads, NEW op \in Operations,
           NEW w \in Workspaces, NEW c \in Capabilities, ClientSend(t, op, w, c)
    PROVE  Served' /\ (Leased => Leased')
<1>1. HandlerTypeOK /\ LeaseTypeOK
  BY TypeParts DEF StorageInv
<1> DEFINE r == [op |-> op, ws |-> w, cap |-> c, targets |-> {}]
<1>2. /\ pc[t] = "idle" /\ awaits[w] = {} /\ Authorized(w, c)
      /\ pc' = [pc EXCEPT ![t] = "wait"] /\ req' = [req EXCEPT ![t] = r]
      /\ awaits' = [awaits EXCEPT ![w] = {t}]
  BY DEF ClientSend, Arrive, Goto
<1>3. UNCHANGED <<lease, known, svc, ps, running, opLock, nas, fs, session, mounted>>
  BY DEF ClientSend, Arrive, leaseVars, storageVars
<1>4. pc'[t] = "wait" /\ W(t)' = w /\ Op(t)' = op /\ req'[t].cap = c
  BY <1>1, <1>2 DEF HandlerTypeOK, W, Op
<1>5. \A s \in Threads \ {t} : pc'[s] = pc[s] /\ req'[s] = req[s] /\ W(s)' = W(s) /\ Op(s)' = Op(s)
  BY <1>1, <1>2 DEF HandlerTypeOK, W, Op
<1>6. awaits'[w] = {t} /\ \A v \in Workspaces : v # w => awaits'[v] = awaits[v]
  BY <1>2 DEF ClientTypeOK
<1>7. \A s \in Threads : pc[s] # "idle" => W(s) # w /\ W(s) \in Workspaces
  BY <1>1, <1>2, Serves DEF Served, Outstanding
<1>8. PICK phase \in Waiting :
         /\ client' = [client EXCEPT ![w] = phase]
         /\ op \in {"provision", "attach"} => phase = "starting"
         /\ op = "detach" => phase = "stopping"
         /\ op = "destroy" => phase = "deleting"
  BY DEF ClientSend, Asks, Become, Operations, Waiting
<1>9. client'[w] = phase /\ \A v \in Workspaces : v # w => client'[v] = client[v]
  BY <1>8 DEF ClientTypeOK
<1>10. Outstanding'
  BY <1>2, <1>4, <1>5, <1>6, <1>7 DEF Served, Outstanding
<1>11. \A s \in Threads : Asked(s)'
  BY <1>4, <1>5, <1>7, <1>8, <1>9 DEF Served, Asked
<1>12. \A s \in Threads : Achieved(s)'
  <2> SUFFICES ASSUME NEW s \in Threads PROVE Achieved(s)'
    OBVIOUS
  <2>1. CASE s = t
    BY <1>4, <2>1 DEF Achieved, ProvisionCalls, MountCalls, DetachCalls, DestroyCalls
  <2>2. CASE s # t
    <3>1. Achieved(s)
      BY DEF Served
    <3>2. QED
      BY <1>3, <1>5, <2>2, <3>1 DEF Achieved, HasLease, Holder
  <2>3. QED
    BY <2>1, <2>2
<1>13. ASSUME Leased PROVE Leased'
  <2>1. \A s \in Threads : pc'[s] \notin {"idle", "ok", "failed"} => Authorized(W(s), req[s].cap)'
    BY <1>13, <1>2, <1>3, <1>4, <1>5 DEF Served, Leased, Authorized
  <2>2. HasLease(w)
    BY <1>1, <1>2, OneHolder
  <2>3. QED
    BY <1>13, <1>3, <1>9, <2>1, <2>2 DEF Served, Leased, HasLease, Holder
<1>14. Settled'
  <2>1. client[w] # "active"
    BY DEF ClientSend, Asks, Operations
  <2>2. w \notin running
    BY <2>1 DEF Served, Settled
  <2>3. running \subseteq Workspaces
    BY <1>1 DEF LeaseTypeOK
  <2>4. QED
    BY <1>3, <1>9, <2>2, <2>3 DEF Served, Settled, Waiting
<1>15. QED
  BY <1>10, <1>11, <1>12, <1>13, <1>14 DEF Served

\* What every step keeps that leaves the handlers and the storage alone.
LEMMA HandlersKeep ==
    ASSUME Served, UNCHANGED <<threadVars, storageVars, awaits>>,
           \A s \in Threads : pc[s] # "idle" => client'[W(s)] = client[W(s)],
           \A s \in Threads : Op(s) = "destroy" /\ pc[s] = "ok" => ~HasLease(W(s))'
    PROVE  Outstanding' /\ \A s \in Threads : Asked(s)' /\ Achieved(s)'
BY DEF Served, Outstanding, Asked, Achieved, threadVars, storageVars, W, Op

\* A lease is granted when nobody counts on one.
LEMMA AcquireServes ==
    ASSUME StorageInv, ClientTypeOK, Served, NEW w \in Workspaces, NEW c \in Capabilities,
           ClientAcquire(w, c) \/ ClientAcquireLost(w, c)
    PROVE  Served' /\ (Leased => Leased')
<1>1. HandlerTypeOK /\ LeaseTypeOK /\ StorageTypeOK
  BY TypeParts DEF StorageInv
<1>2. /\ lease = {} /\ lease' = {<<w, c>>} /\ svc = "up"
      /\ client[w] \in {"off", "condemned"}
      /\ client' = client \/ client' = [client EXCEPT ![w] = "held"]
      /\ UNCHANGED <<svc, running, threadVars, storageVars, awaits>>
  BY DEF ClientAcquire, ClientAcquireLost, Grant, GrantUnanswered, Become
<1>3. \A v : HasLease(v)' <=> v = w
  BY <1>2 DEF HasLease, Holder
<1>4. \A s \in Threads : pc[s] # "idle" => W(s) # w /\ W(s) \in Workspaces
  <2> SUFFICES ASSUME NEW s \in Threads, pc[s] # "idle" PROVE W(s) # w /\ W(s) \in Workspaces
    OBVIOUS
  <2>1. W(s) \in Workspaces /\ Op(s) \in Operations
    BY <1>1, Serves DEF Requests, Op
  <2>2. QED
    BY <1>2, <2>1 DEF Served, Asked, Operations
<1>5. Outstanding' /\ \A s \in Threads : Asked(s)' /\ Achieved(s)'
  <2>1. UNCHANGED <<threadVars, storageVars, awaits>>
    BY <1>2
  <2>2. \A s \in Threads : pc[s] # "idle" => client'[W(s)] = client[W(s)]
    BY <1>2, <1>4 DEF ClientTypeOK
  <2>3. \A s \in Threads : W(s)' = W(s)
    BY <1>2 DEF threadVars, W
  <2>4. \A s \in Threads : Op(s) = "destroy" /\ pc[s] = "ok" => ~HasLease(W(s))'
    BY <1>3, <1>4, <2>3
  <2>5. QED
    BY <2>1, <2>2, <2>4, HandlersKeep
<1>6. \A v : ~HasLease(v)
  BY <1>1, <1>2, OneHolder
<1>7. ASSUME Leased PROVE Leased'
  <2>1. \A s \in Threads : pc[s] \in {"idle", "ok", "failed"}
    BY <1>7, <1>2 DEF Served, Leased, Authorized
  <2>2. mounted = {}
    BY <1>7, <1>6 DEF Served, Leased
  <2>3. \A v \in Workspaces :
           client[v] \notin {"held", "starting", "ready", "active", "stopping", "unmounted"}
    BY <1>7, <1>6 DEF Served, Leased
  <2>4. \A v \in Workspaces : v # w => client'[v] = client[v]
    BY <1>2 DEF ClientTypeOK
  <2>5. QED
    BY <1>7, <1>2, <1>3, <2>1, <2>2, <2>3, <2>4 DEF Leased, threadVars, storageVars
<1>8. Settled'
  BY <1>1, <1>2 DEF Served, Settled, storageVars, ClientTypeOK, LeaseTypeOK
<1>9. QED
  BY <1>5, <1>7, <1>8 DEF Served

\* A client releases the lease once nothing is mounted.
LEMMA ClientReleaseServes ==
    ASSUME StorageInv, ClientTypeOK, Served, NEW w \in Workspaces, NEW c \in Capabilities,
           ClientRelease(w, c)
    PROVE  Served' /\ (Leased => Leased')
<1>1. HandlerTypeOK /\ LeaseTypeOK /\ StorageTypeOK
  BY TypeParts DEF StorageInv
<1>2. /\ Authorized(w, c) /\ lease' = {} /\ svc = "up"
      /\ client[w] = "unmounted"
      /\ client' = [client EXCEPT ![w] = "off"]
      /\ UNCHANGED <<svc, running, threadVars, storageVars, awaits>>
  BY DEF ClientRelease, Release, Become
<1>3. \A v : ~HasLease(v)'
  BY <1>2 DEF HasLease, Holder
<1>4. \A s \in Threads : pc[s] # "idle" => W(s) # w /\ W(s) \in Workspaces
  <2> SUFFICES ASSUME NEW s \in Threads, pc[s] # "idle" PROVE W(s) # w /\ W(s) \in Workspaces
    OBVIOUS
  <2>1. W(s) \in Workspaces /\ Op(s) \in Operations
    BY <1>1, Serves DEF Requests, Op
  <2>2. QED
    BY <1>2, <2>1 DEF Served, Asked, Operations
<1>5. Outstanding' /\ \A s \in Threads : Asked(s)' /\ Achieved(s)'
  <2>1. UNCHANGED <<threadVars, storageVars, awaits>>
    BY <1>2
  <2>2. \A s \in Threads : pc[s] # "idle" => client'[W(s)] = client[W(s)]
    BY <1>2, <1>4 DEF ClientTypeOK
  <2>3. \A s \in Threads : W(s)' = W(s)
    BY <1>2 DEF threadVars, W
  <2>4. \A s \in Threads : Op(s) = "destroy" /\ pc[s] = "ok" => ~HasLease(W(s))'
    BY <1>3, <1>4, <2>3
  <2>5. QED
    BY <2>1, <2>2, <2>4, HandlersKeep
<1>6. \A v : HasLease(v) => v = w
  BY <1>1, <1>2, OneHolder
<1>7. ASSUME Leased PROVE Leased'
  <2>1. \A s \in Threads : pc[s] \in {"idle", "ok", "failed"}
    BY <1>7, <1>1, <1>2, <1>4, OneHolder DEF Served, Leased
  <2>2. mounted = {}
    BY <1>7, <1>2, <1>6 DEF Served, Leased, Settled
  <2>3. \A v \in Workspaces :
           client'[v] \notin {"held", "starting", "ready", "active", "stopping", "unmounted"}
    BY <1>7, <1>2, <1>6 DEF Served, Leased, ClientTypeOK
  <2>4. QED
    BY <1>7, <1>2, <2>1, <2>2, <2>3 DEF Leased, threadVars, storageVars
<1>8. Settled'
  BY <1>1, <1>2 DEF Served, Settled, storageVars, ClientTypeOK, LeaseTypeOK
<1>9. QED
  BY <1>5, <1>7, <1>8 DEF Served

\* Containers start on a mount and stop before it goes.
LEMMA ContainerServes ==
    ASSUME StorageInv, ClientTypeOK, Served, NEW w \in Workspaces,
           \/ ClientStartsContainer(w) \/ ClientStopsContainer(w)
           \/ ClientRefused(w) \/ UserWrites(w)
    PROVE  Served' /\ (Leased => Leased')
<1>1. HandlerTypeOK /\ LeaseTypeOK /\ StorageTypeOK
  BY TypeParts DEF StorageInv
<1>2. CASE ClientRefused(w)
  <2>1. /\ client[w] \in {"held", "ready", "unmounted"} /\ ~HasLease(w)
        /\ client' = [client EXCEPT ![w] = "off"]
        /\ UNCHANGED <<lease, svc, running, threadVars, storageVars, awaits>>
    BY <1>2 DEF ClientRefused, Become, vars, threadVars, storageVars
  <2>2. client'[w] = "off" /\ \A v \in Workspaces : v # w => client'[v] = client[v]
    BY <2>1 DEF ClientTypeOK
  <2>3. \A s \in Threads : pc[s] # "idle" => W(s) # w /\ W(s) \in Workspaces
    <3> SUFFICES ASSUME NEW s \in Threads, pc[s] # "idle" PROVE W(s) # w /\ W(s) \in Workspaces
      OBVIOUS
    <3>1. W(s) \in Workspaces /\ Op(s) \in Operations
      BY <1>1, Serves DEF Requests, Op
    <3>2. QED
      BY <2>1, <3>1 DEF Served, Asked, Operations
  <2>4. Outstanding' /\ \A s \in Threads : Asked(s)' /\ Achieved(s)'
    <3>1. UNCHANGED <<threadVars, storageVars, awaits>>
      BY <2>1
    <3>2. \A s \in Threads : pc[s] # "idle" => client'[W(s)] = client[W(s)]
      BY <2>2, <2>3
    <3>3. \A s \in Threads : HasLease(W(s))' <=> HasLease(W(s))
      BY <2>1 DEF HasLease, Holder, threadVars, W
    <3>4. \A s \in Threads : Op(s) = "destroy" /\ pc[s] = "ok" => ~HasLease(W(s))'
      BY <3>3 DEF Served, Achieved
    <3>5. QED
      BY <3>1, <3>2, <3>4, HandlersKeep
  <2>5. Settled'
    BY <1>1, <2>1, <2>2 DEF Served, Settled, storageVars, LeaseTypeOK
  <2>6. ~Leased
    BY <2>1 DEF Leased
  <2>7. QED
    BY <2>4, <2>5, <2>6 DEF Served
<1>3. CASE UserWrites(w)
  BY <1>3 DEF UserWrites, WriteFiles, clientVars, leaseVars, threadVars, Served, Outstanding,
     Asked, Achieved, Leased, Settled, W, Op, HasLease, Holder, Authorized
<1>4. CASE ClientStartsContainer(w) \/ ClientStopsContainer(w)
  <2>1. PICK phase \in {"ready", "active"} :
           /\ client[w] \in {"ready", "active"}
           /\ client' = [client EXCEPT ![w] = phase]
           /\ running' = IF phase = "active" THEN running \cup {w} ELSE running \ {w}
           /\ UNCHANGED <<lease, svc, threadVars, storageVars, awaits>>
    BY <1>4 DEF ClientStartsContainer, ClientStopsContainer, StartContainer, StopContainer, Become
  <2>2. client'[w] = phase /\ \A v \in Workspaces : v # w => client'[v] = client[v]
    BY <2>1 DEF ClientTypeOK
  <2>3. \A s \in Threads : pc[s] # "idle" => W(s) # w /\ W(s) \in Workspaces
    <3> SUFFICES ASSUME NEW s \in Threads, pc[s] # "idle" PROVE W(s) # w /\ W(s) \in Workspaces
      OBVIOUS
    <3>1. W(s) \in Workspaces /\ Op(s) \in Operations
      BY <1>1, Serves DEF Requests, Op
    <3>2. QED
      BY <2>1, <3>1 DEF Served, Asked, Operations
  <2>4. \A v : HasLease(v)' <=> HasLease(v)
    BY <2>1 DEF HasLease, Holder
  <2>5. Outstanding' /\ \A s \in Threads : Asked(s)' /\ Achieved(s)'
    <3>1. UNCHANGED <<threadVars, storageVars, awaits>>
      BY <2>1
    <3>2. \A s \in Threads : pc[s] # "idle" => client'[W(s)] = client[W(s)]
      BY <2>2, <2>3
    <3>3. \A s \in Threads : HasLease(W(s))' <=> HasLease(W(s))
      BY <2>1 DEF HasLease, Holder, threadVars, W
    <3>4. \A s \in Threads : Op(s) = "destroy" /\ pc[s] = "ok" => ~HasLease(W(s))'
      BY <3>3 DEF Served, Achieved
    <3>5. QED
      BY <3>1, <3>2, <3>4, HandlersKeep
  <2>6. ASSUME Leased PROVE Leased'
    BY <2>1, <2>2, <2>4, <2>6 DEF Leased, threadVars, storageVars, W, Authorized
  <2>7. Settled'
    BY <1>1, <2>1, <2>2 DEF Served, Settled, storageVars, LeaseTypeOK
  <2>8. QED
    BY <2>5, <2>6, <2>7 DEF Served
<1>5. QED
  BY <1>2, <1>3, <1>4

\* The service starts, perhaps without the lease, and nothing else changes.
LEMMA BootServes ==
    ASSUME StorageInv, Served, ServiceBoots PROVE Served' /\ (Leased => Leased')
<1>1. /\ svc # "up" /\ lease' \in {lease, {}}
      /\ UNCHANGED <<running, threadVars, storageVars, client, awaits>>
  BY DEF ServiceBoots, Boot, ListContainers, ListingFails, ClearStale, clientVars
<1>2. \A s \in Threads : HasLease(W(s))' => HasLease(W(s))
  BY <1>1 DEF HasLease, Holder, threadVars, W
<1>3. \A s \in Threads : Op(s) = "destroy" /\ pc[s] = "ok" => ~HasLease(W(s))'
  BY <1>2 DEF Served, Achieved
<1>4. Outstanding' /\ \A s \in Threads : Asked(s)' /\ Achieved(s)'
  BY <1>1, <1>3, HandlersKeep
<1>5. ASSUME Leased PROVE Leased'
  <2>1. lease = {} /\ lease' = {}
    BY <1>1, <1>5 DEF Leased
  <2>2. \A s \in Threads : pc[s] \in {"idle", "ok", "failed"}
    BY <1>5, <2>1 DEF Leased, Authorized
  <2>3. \A w : HasLease(w)' <=> HasLease(w)
    BY <2>1 DEF HasLease, Holder
  <2>4. QED
    BY <1>1, <1>5, <2>1, <2>2, <2>3 DEF Leased, threadVars, storageVars
<1>6. Settled'
  BY <1>1 DEF Served, Settled, storageVars
<1>7. QED
  BY <1>4, <1>5, <1>6 DEF Served

\* After a crash or a reboot every client knows that its request has failed, and
\* after a reboot that nothing is mounted.
LEMMA CrashServes ==
    ASSUME StorageInv, ClientTypeOK, Served, ServiceCrash \/ Reboot PROVE Served'
<1>1. /\ pc' = [t \in Threads |-> "idle"]
      /\ awaits' = [w \in Workspaces |-> {}]
  BY DEF ServiceCrash, Reboot, HelperCrash, MachineReboot, DropThreads, DropRequests
<1>2. Outstanding' /\ \A t \in Threads : Asked(t)' /\ Achieved(t)'
  BY <1>1 DEF Outstanding, Asked, Achieved, ProvisionCalls, MountCalls, DetachCalls, DestroyCalls
<1>3. \A w \in Workspaces : awaits[w] # {} => AfterAnswer(client[w], FALSE) \in {"held", "condemned"}
  <2> SUFFICES ASSUME NEW w \in Workspaces, awaits[w] # {}
               PROVE  AfterAnswer(client[w], FALSE) \in {"held", "condemned"}
    OBVIOUS
  <2>1. client[w] \in Waiting
    BY DEF ClientTypeOK
  <2>2. CASE client[w] = "starting"
    BY <2>2 DEF AfterAnswer
  <2>3. CASE client[w] = "stopping"
    BY <2>3 DEF AfterAnswer
  <2>4. CASE client[w] = "deleting"
    BY <2>4 DEF AfterAnswer
  <2>5. QED
    BY <2>1, <2>2, <2>3, <2>4 DEF Waiting
<1>4. \A w \in Workspaces : client[w] = "active" => awaits[w] = {}
  BY DEF ClientTypeOK, Waiting
<1>5. CASE ServiceCrash
  <2>1. /\ UNCHANGED <<mounted, running>>
        /\ client' = [w \in Workspaces |->
                         IF awaits[w] # {} THEN AfterAnswer(client[w], FALSE) ELSE client[w]]
    BY <1>5 DEF ServiceCrash, HelperCrash, Crash, DropRequests, storageVars
  <2>2. running \subseteq Workspaces
    BY TypeParts DEF StorageInv, LeaseTypeOK
  <2>3. Settled'
    BY <1>3, <1>4, <2>1, <2>2 DEF Served, Settled
  <2>4. QED
    BY <1>2, <2>3 DEF Served
<1>6. CASE Reboot
  <2>1. /\ mounted' = {} /\ running' = {}
        /\ client' = [w \in Workspaces |->
                         IF client[w] \in {"ready", "active"} THEN "held"
                         ELSE IF awaits[w] # {} THEN AfterAnswer(client[w], FALSE)
                         ELSE client[w]]
    BY <1>6 DEF Reboot, MachineReboot, HostReboot
  <2>2. Settled'
    BY <1>3, <2>1 DEF Settled
  <2>3. QED
    BY <1>2, <2>2 DEF Served
<1>7. QED
  BY <1>5, <1>6

\* Without clients that give up, every step keeps what the clients know, and
\* without crashes the leases.
LEMMA ServedStep ==
    ASSUME ClientTimeouts = FALSE, MountpointTells,
           StorageInv, ClientTypeOK, Served, [WorkspacesNext]_allVars
    PROVE  Served' /\ (Crashes = FALSE /\ Leased => Leased')
<1>1. ASSUME NEW t \in Threads, HelperWorks(t) \/ HelperRefuses(t) \/ HelperFails(t)
      PROVE  Served' /\ (Leased => Leased')
  <2>1. UNCHANGED <<client, awaits>>
    BY <1>1 DEF HelperWorks, HelperRefuses, HelperFails, clientVars
  <2>2. Advance(t) \/ ReleaseAfterDestroy(t)
    BY <1>1 DEF HelperWorks, HelperRefuses, HelperFails, Advance
  <2>3. QED
    BY <2>1, <2>2, AdvanceServes, ReleaseServes
<1>2. ASSUME NEW w \in Workspaces, GiveUp(w) PROVE FALSE
  BY <1>2 DEF GiveUp
<1>3. CASE ServiceCrash \/ Reboot
  <2>1. Crashes
    BY <1>3 DEF ServiceCrash, Reboot
  <2>2. QED
    BY <1>3, <2>1, CrashServes
<1>4. CASE UNCHANGED allVars
  BY <1>4 DEF allVars, vars, leaseVars, threadVars, storageVars, Served, Outstanding, Asked,
     Achieved, Leased, Settled, W, Op, HasLease, Holder, Authorized
<1>5. QED
  BY <1>1, <1>2, <1>3, <1>4, ReplyServes, SendServes, AcquireServes, ClientReleaseServes,
     ContainerServes, BootServes DEF WorkspacesNext

LEMMA ServedInit == ASSUME WorkspacesInit PROVE Served /\ Leased
BY DEF WorkspacesInit, Init, Served, Outstanding, Asked, Achieved, Leased, Settled,
   ProvisionCalls, MountCalls, DetachCalls, DestroyCalls, LeaseInit

----------------------------------------------------------------------------
(* What the clients may rely on.                                          *)

\* The conclusion of DeletedIsGone, of one workspace.
Gone(w) == nas[w] = {} /\ w \notin session \cup mounted \cup Holder

\* A client learns that its workspace is deleted only from the answer of a
\* DELETE that ran to its end.
LEMMA DeletedStep ==
    ASSUME ClientTimeouts = FALSE, StorageInv, ClientTypeOK, Served, [WorkspacesNext]_allVars,
           NEW w \in Workspaces,
           client[w] = "deleting", client'[w] = "off"
    PROVE  Gone(w)
<1>1. HandlerTypeOK
  BY TypeParts DEF StorageInv
<1>2. ASSUME NEW t \in Threads, Reply(t) PROVE Gone(w)
  <2>1. /\ pc[t] # "idle" /\ awaits[W(t)] = {t}
        /\ client' = [client EXCEPT ![W(t)] = AfterAnswer(client[W(t)], pc[t] = "ok")]
    BY <1>2 DEF Reply, Answer, Become, Served, Outstanding
  <2>2. W(t) = w /\ AfterAnswer("deleting", pc[t] = "ok") = "off"
    BY <2>1 DEF ClientTypeOK
  <2>3. pc[t] = "ok"
    BY <2>2 DEF AfterAnswer
  <2>4. Op(t) = "destroy"
    <3>1. Op(t) \in Operations
      BY <1>1, <2>1, Serves DEF Requests, Op
    <3>2. QED
      BY <2>1, <2>2, <3>1 DEF Served, Asked, Operations
  <2>5. QED
    BY <2>2, <2>3, <2>4 DEF Served, Achieved, HasLease, Gone
<1>3. ASSUME NEW v \in Workspaces, NEW c \in Capabilities,
             \/ ClientAcquire(v, c) \/ ClientAcquireLost(v, c) \/ ClientRelease(v, c)
             \/ ClientStartsContainer(v) \/ ClientStopsContainer(v) \/ ClientRefused(v)
      PROVE  FALSE
  BY <1>3 DEF ClientAcquire, ClientAcquireLost, ClientRelease, ClientStartsContainer,
     ClientStopsContainer, ClientRefused, Become, ClientTypeOK
<1>4. ASSUME NEW v \in Workspaces, NEW c \in Capabilities, NEW t \in Threads,
             NEW op \in Operations, ClientSend(t, op, v, c)
      PROVE  FALSE
  <2>1. PICK phase \in Waiting : client' = [client EXCEPT ![v] = phase]
    BY <1>4 DEF ClientSend, Asks, Become, Operations, Waiting
  <2>2. QED
    BY <2>1 DEF ClientTypeOK, Waiting
<1>5. ASSUME UNCHANGED client PROVE FALSE
  BY <1>5
<1>6. ASSUME NEW v \in Workspaces, UserWrites(v) PROVE FALSE
  BY <1>5, <1>6 DEF UserWrites, clientVars
<1>7. ASSUME NEW v \in Workspaces, GiveUp(v) PROVE FALSE
  BY <1>7 DEF GiveUp
<1>8. ASSUME NEW t \in Threads, HelperWorks(t) \/ HelperRefuses(t) \/ HelperFails(t) PROVE FALSE
  BY <1>5, <1>8 DEF HelperWorks, HelperRefuses, HelperFails, clientVars
<1>9. ASSUME ServiceCrash \/ Reboot PROVE FALSE
  <2>1. AfterAnswer("deleting", FALSE) = "condemned" /\ awaits[w] # {}
    BY DEF AfterAnswer, ClientTypeOK, Waiting
  <2>2. client'[w] = "condemned"
    BY <1>9, <2>1 DEF ServiceCrash, Reboot, DropRequests
  <2>3. QED
    BY <2>2
<1>10. ASSUME ServiceBoots \/ UNCHANGED allVars PROVE FALSE
  BY <1>5, <1>10 DEF ServiceBoots, clientVars, allVars
<1>11. ASSUME NEW v \in Workspaces, ClientStartsContainer(v) \/ ClientStopsContainer(v)
                                    \/ ClientRefused(v)
       PROVE  FALSE
  BY <1>11 DEF ClientStartsContainer, ClientStopsContainer, ClientRefused, Become, ClientTypeOK
<1>12. QED
  BY <1>2, <1>3, <1>4, <1>6, <1>7, <1>8, <1>9, <1>10, <1>11 DEF WorkspacesNext

LEMMA ClientInit == WorkspacesInit => ClientTypeOK
BY FaultsAssumption DEF WorkspacesInit, ClientTypeOK, Phases, Waiting

\* What the clients know is right in every reachable state, whatever calls fail
\* and however often the service crashes or the host reboots.
ClientInv == ClientTypeOK /\ Served

\* The invariant of the clients that wait for their answers.
THEOREM WorkspacesAreServed ==
    ASSUME ClientTimeouts = FALSE, MountpointErrs = FALSE
    PROVE  WorkspacesSpec => [](StorageInv /\ ClientInv)
<1>1. WorkspacesInit => ClientInv
  BY ClientInit, ServedInit DEF ClientInv
<1>2. TypeOK /\ StorageInv /\ ClientInv /\ [WorkspacesNext]_allVars => ClientInv'
  BY ClientTypes, ServedStep DEF ClientInv, MountpointTells
<1>3. QED
  BY <1>1, <1>2, WorkspacesUseTheHelper, HelperTypeCorrect, StorageInvariant, PTL DEF WorkspacesSpec

\* A workspace reported as deleted has left nothing behind, although the DELETE
\* before it may have failed half-way, or died in a crash or a reboot
\* (_dispatch 734-738).
THEOREM DeletedMeansGone ==
    ASSUME ClientTimeouts = FALSE, MountpointErrs = FALSE
    PROVE  WorkspacesSpec => DeletedIsGone
<1>1. StorageInv /\ ClientInv /\ [WorkspacesNext]_allVars
         => [\A w \in Workspaces : client[w] = "deleting" /\ client'[w] = "off" =>
                 /\ nas[w] = {}
                 /\ w \notin session \cup mounted \cup Holder]_allVars
  BY DeletedStep DEF ClientInv, Gone
<1>2. QED
  BY <1>1, WorkspacesAreServed, PTL DEF WorkspacesSpec, DeletedIsGone

\* A container never runs without its workspace's file system under it: neither
\* a failed call nor a crash nor a reboot takes the mount away while it runs, or
\* lets it start without (detach_iscsi 509-520, the mount calls of provision and
\* attach).  The files it writes are on the zvol, not on the root disk of llm01.
THEOREM ContainersRunOnTheirMount ==
    ASSUME ClientTimeouts = FALSE, MountpointErrs = FALSE
    PROVE  WorkspacesSpec => [](running \subseteq mounted)
<1>1. StorageInv /\ ClientInv => running \subseteq mounted
  BY TypeParts DEF StorageInv, ClientInv, Served, Settled, LeaseTypeOK
<1>2. QED
  BY <1>1, WorkspacesAreServed, PTL

\* The conclusion of LeaseOutlivesMount, of one workspace.
LEMMA LeaseStays ==
    ASSUME ClientTimeouts = FALSE, StorageInv, ClientTypeOK, Served, [WorkspacesNext]_allVars,
           NEW w \in mounted, HasLease(w)
    PROVE  HasLease(w)' \/ (svc = "listed" /\ w \notin ps)
<1>1. HandlerTypeOK /\ StorageTypeOK /\ LeaseTypeOK /\ w \in Workspaces
  BY TypeParts DEF StorageInv, StorageTypeOK
<1>2. \A v : HasLease(v) => v = w
  BY <1>1, OneHolder
<1>3. lease # {}
  BY DEF HasLease, Holder
<1>4. ASSUME lease' = lease PROVE HasLease(w)'
  BY <1>4 DEF HasLease, Holder
<1>5. ASSUME NEW v \in Workspaces, NEW c \in Capabilities,
             ClientAcquire(v, c) \/ ClientAcquireLost(v, c)
      PROVE  FALSE
  BY <1>3, <1>5 DEF ClientAcquire, ClientAcquireLost, Grant, GrantUnanswered
<1>6. ASSUME NEW v \in Workspaces, NEW c \in Capabilities, ClientRelease(v, c) PROVE FALSE
  <2>1. Authorized(v, c) /\ client[v] = "unmounted"
    BY <1>6 DEF ClientRelease, Release
  <2>2. v = w
    BY <1>1, <1>2, <2>1, OneHolder
  <2>3. QED
    BY <1>1, <2>1, <2>2 DEF Served, Settled
<1>7. ASSUME NEW t \in Threads, Advance(t) PROVE lease' = lease
  BY <1>1, <1>7, RequestsKept DEF Advance, leaseVars
<1>8. ASSUME NEW t \in Threads, ReleaseAfterDestroy(t) PROVE lease' = lease
  <2>1. pc[t] = "release" /\ (Authorized(W(t), req[t].cap) \/ lease' = lease)
    BY <1>8 DEF ReleaseAfterDestroy
  <2>2. W(t) # w
    BY <2>1 DEF Served, Achieved
  <2>3. ~Authorized(W(t), req[t].cap)
    BY <1>1, <1>2, <2>2, OneHolder
  <2>4. QED
    BY <2>1, <2>3
<1>9. ASSUME NEW t \in Threads, HelperWorks(t) \/ HelperRefuses(t) \/ HelperFails(t)
      PROVE  lease' = lease
  BY <1>7, <1>8, <1>9 DEF HelperWorks, HelperRefuses, HelperFails, Advance
<1>10. ASSUME NEW t \in Threads, Reply(t) PROVE lease' = lease
  BY <1>10 DEF Reply, Answer, leaseVars
<1>11. ASSUME NEW v \in Workspaces, NEW c \in Capabilities, NEW t \in Threads,
              NEW op \in Operations, ClientSend(t, op, v, c)
       PROVE  lease' = lease
  BY <1>11 DEF ClientSend, Arrive, leaseVars
<1>12. ASSUME NEW v \in Workspaces,
              \/ ClientRefused(v) \/ GiveUp(v) \/ UserWrites(v)
              \/ ClientStartsContainer(v) \/ ClientStopsContainer(v)
       PROVE  lease' = lease
  BY <1>12 DEF ClientRefused, GiveUp, UserWrites, WriteFiles, ClientStartsContainer,
     ClientStopsContainer, StartContainer, StopContainer, leaseVars, vars
<1>13. CASE ServiceCrash \/ Reboot \/ UNCHANGED allVars
  BY <1>4, <1>13 DEF ServiceCrash, Reboot, HelperCrash, MachineReboot, Crash, HostReboot, allVars, vars
<1>14. CASE ServiceBoots
  <2>1. CASE ClearStale
    <3>1. CASE Holder \subseteq ps
      BY <1>4, <2>1, <3>1 DEF ClearStale
    <3>2. CASE ~(Holder \subseteq ps)
      <4>1. w \notin ps
        BY <1>2, <3>2 DEF HasLease
      <4>2. QED
        BY <2>1, <4>1 DEF ClearStale
    <3>3. QED
      BY <3>1, <3>2
  <2>2. CASE ListContainers \/ ListingFails
    BY <1>4, <2>2 DEF ListContainers, ListingFails
  <2>3. QED
    BY <1>14, <2>1, <2>2 DEF ServiceBoots, Boot
<1>15. QED
  BY <1>4, <1>5, <1>6, <1>9, <1>10, <1>11, <1>12, <1>13, <1>14 DEF WorkspacesNext

\* LeaseOutlivesMount: no request and no answer takes the lease of a workspace
\* that is mounted, although calls fail and the service crashes; only the boot
\* of the service does, when it lists no container of the workspace.
THEOREM MountsKeepTheirLease ==
    ASSUME ClientTimeouts = FALSE, MountpointErrs = FALSE
    PROVE  WorkspacesSpec => LeaseOutlivesMount
<1>1. StorageInv /\ ClientInv /\ [WorkspacesNext]_allVars
         => [\A w \in mounted :
                HasLease(w) => HasLease(w)' \/ (svc = "listed" /\ w \notin ps)]_allVars
  BY LeaseStays DEF ClientInv
<1>2. QED
  BY <1>1, WorkspacesAreServed, PTL DEF WorkspacesSpec, LeaseOutlivesMount

----------------------------------------------------------------------------
(* Mutual exclusion, as long as nothing crashes.                           *)

\* Clients that keep the documented order and wait for their answers are never
\* overtaken by what the helper still does for them, as long as it does not
\* crash; failed calls and lost answers do no harm.
THEOREM WorkspacesExclude ==
    ASSUME Crashes = FALSE, ClientTimeouts = FALSE, MountpointErrs = FALSE
    PROVE  WorkspacesSpec => [](StorageInv /\ ClientInv /\ Leased)
<1>1. WorkspacesInit => Leased
  BY ServedInit
<1>2. StorageInv /\ ClientInv /\ Leased /\ [WorkspacesNext]_allVars => Leased'
  BY ServedStep DEF ClientInv, MountpointTells
<1>3. QED
  BY <1>1, <1>2, WorkspacesAreServed, PTL DEF WorkspacesSpec

\* "Exactly one active workspace is allowed": no two file systems are ever
\* mounted together, whichever calls fail and whichever answers get lost
\* (acquire 155-171, detach_iscsi 509-520).
THEOREM OneMountEver ==
    ASSUME Crashes = FALSE, ClientTimeouts = FALSE, MountpointErrs = FALSE
    PROVE  WorkspacesSpec => []AtMostOneMounted
<1>1. StorageInv /\ Leased => AtMostOneMounted
  BY TypeParts, OneHolder DEF StorageInv, Leased, AtMostOneMounted
<1>2. QED
  BY <1>1, WorkspacesExclude, PTL

\* A container runs only on its own mount and under its own lease.
THEOREM ContainersHoldLeases ==
    ASSUME Crashes = FALSE, ClientTimeouts = FALSE, MountpointErrs = FALSE
    PROVE  WorkspacesSpec => []ContainerHoldsLease
<1>1. StorageInv /\ ClientInv /\ Leased => ContainerHoldsLease
  BY TypeParts DEF StorageInv, ClientInv, Served, Leased, Settled, ContainerHoldsLease,
     LeaseTypeOK
<1>2. QED
  BY <1>1, WorkspacesExclude, PTL
=============================================================================
