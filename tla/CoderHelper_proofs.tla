------------------------ MODULE CoderHelper_proofs -------------------------
(***************************************************************************)
(* Theorems about CoderHelper, for any number of workspaces, capabilities  *)
(* and threads.                                                            *)
(***************************************************************************)
EXTENDS CoderHelper, TLAPS

----------------------------------------------------------------------------
(* The inductive invariant.                                                *)

\* The threads at an external call are those in the lock, one at most.
Exclusive ==
    /\ \A t \in Threads : pc[t] \in Calls <=> t \in opLock
    /\ \A s, t \in opLock : s = t

\* mountpoint -q exits nonzero only where nothing is mounted.
MountpointTells == MountpointErrs = FALSE

\* What the calls a thread has made so far tell it, and nobody can undo while
\* it is in the lock.
Knows(t) ==
    LET objects == nas[W(t)]
    IN  /\ pc[t] \in {"targets", "create_target"} => "zvol" \in objects
        /\ pc[t] \in {"extents", "create_extent"} => "target" \in objects
        /\ pc[t] \in {"assocs", "create_assoc"} => "extent" \in objects
        /\ pc[t] \in MountCalls \ {"login"} => W(t) \in session
        /\ pc[t] \in MountCalls \ {"login", "device"} => "assoc" \in objects
        /\ pc[t] = "format" => fs[W(t)] \in Unidentified \/ W(t) \in mounted
        /\ pc[t] = "logout" /\ MountpointTells => W(t) \notin mounted
        /\ pc[t] \in DestroyCalls => Op(t) = "destroy" /\ W(t) \notin session
        /\ pc[t] \in DestroyCalls /\ MountpointTells => W(t) \notin mounted
        /\ pc[t] \in {"d_assocs", "del_assoc"} => req[t].targets # {}
        /\ pc[t] \in {"d_extents", "del_extent"} =>
              "assoc" \notin objects /\ (req[t].targets # {} \/ "target" \notin objects)
        /\ pc[t] = "del_target" => "extent" \notin objects
        /\ pc[t] \in {"d_dataset", "del_zvol"} => "target" \notin objects

\* The objects of a workspace exist in the order of their creation.
Ordered ==
    \A w \in Workspaces :
        /\ "target" \in nas[w] => "zvol" \in nas[w]
        /\ "extent" \in nas[w] => "target" \in nas[w]
        /\ "assoc" \in nas[w] => "extent" \in nas[w]

\* A file system has its zvol, a session its target, a mount its session and
\* the association that was there when the device appeared.
Backing ==
    /\ \A w \in session : "target" \in nas[w]
    /\ MountpointTells =>
          /\ \A w \in Workspaces : "zvol" \notin nas[w] => fs[w] = "blank"
          /\ \A w \in mounted :
                w \in session /\ "assoc" \in nas[w] /\ fs[w] \in {"ext4", "data"}

StorageInv ==
    /\ TypeOK
    /\ Exclusive
    /\ Ordered
    /\ Backing
    /\ \A t \in Threads : Knows(t)

----------------------------------------------------------------------------
(* Types.                                                                  *)

\* A step of the abstract lease keeps its type.
LEMMA LeaseStepTypes == LeaseTypeOK /\ [LeaseNext]_leaseVars => LeaseTypeOK'
<1> SUFFICES ASSUME LeaseTypeOK, [LeaseNext]_leaseVars PROVE LeaseTypeOK'
  OBVIOUS
<1> USE DEF LeaseTypeOK, Leases
<1>1. ASSUME NEW w \in Workspaces, NEW c \in Capabilities,
             Grant(w, c) \/ GrantUnanswered(w, c) \/ Release(w, c)
      PROVE  LeaseTypeOK'
  BY <1>1 DEF Grant, GrantUnanswered, Release
<1>2. CASE Crash \/ HostReboot \/ ListContainers \/ ListingFails \/ ClearStale
  BY <1>2 DEF Crash, HostReboot, ListContainers, ListingFails, ClearStale
<1>3. ASSUME NEW w \in Workspaces, StartContainer(w) \/ StopContainer(w)
      PROVE  LeaseTypeOK'
  BY <1>3 DEF StartContainer, StopContainer
<1>4. CASE UNCHANGED leaseVars
  BY <1>4 DEF leaseVars
<1>5. QED
  BY <1>1, <1>2, <1>3, <1>4 DEF LeaseNext

\* The part of TypeOK that the handlers and the host change.
HandlerTypeOK ==
    /\ pc \in [Threads -> Calls \cup {"idle", "wait", "release", "ok", "failed"}]
    /\ \A t \in Threads : IF pc[t] = "idle" THEN req[t] = <<>> ELSE req[t] \in Requests
    /\ DOMAIN req = Threads
    /\ opLock \subseteq Threads

StorageTypeOK ==
    /\ nas \in [Workspaces -> SUBSET Objects]
    /\ fs \in [Workspaces -> Contents]
    /\ session \subseteq Workspaces
    /\ mounted \subseteq Workspaces

\* The other places of a handler are not external calls.
LEMMA NotCalls == Calls \cap {"idle", "wait", "release", "ok", "failed"} = {}
  BY DEF Calls, ProvisionCalls, MountCalls, DetachCalls, DestroyCalls

\* The calls that the program names.
LEMMA AreCalls ==
    /\ ProvisionCalls \cup MountCalls \cup DetachCalls \cup DestroyCalls \subseteq Calls
    /\ {"dataset", "create_zvol", "targets", "create_target", "extents", "create_extent",
        "assocs", "create_assoc"} \subseteq Calls
    /\ {"login", "device", "blkid", "format", "mountpoint", "mount", "chown",
        "was_mounted", "umount", "logout"} \subseteq Calls
    /\ {"d_targets", "d_assocs", "del_assoc", "d_extents", "del_extent", "del_target",
        "d_dataset", "del_zvol"} \subseteq Calls
  BY DEF Calls, ProvisionCalls, MountCalls, DetachCalls, DestroyCalls

\* A thread that moves on, in or out of the lock, keeps its request.
LEMMA GotoTypes ==
    ASSUME HandlerTypeOK, NEW t \in Threads, pc[t] # "idle",
           NEW x \in Calls \cup {"wait", "release", "ok", "failed"}, Goto(t, x),
           UNCHANGED req, opLock' \subseteq opLock \cup {t}
    PROVE  HandlerTypeOK'
  BY NotCalls DEF HandlerTypeOK, Goto

\* A busy thread serves a workspace.
LEMMA Serves ==
    ASSUME HandlerTypeOK, NEW t \in Threads, pc[t] # "idle"
    PROVE  W(t) \in Workspaces /\ req[t] \in Requests
  BY DEF HandlerTypeOK, Requests, W

\* TypeOK in its three parts, before and after a step.
LEMMA TypeParts ==
    /\ TypeOK <=> LeaseTypeOK /\ HandlerTypeOK /\ StorageTypeOK
    /\ TypeOK' <=> LeaseTypeOK' /\ HandlerTypeOK' /\ StorageTypeOK'
  BY DEF TypeOK, HandlerTypeOK, StorageTypeOK

\* The steps of provision keep the types.
LEMMA ProvisionTypes ==
    ASSUME HandlerTypeOK, StorageTypeOK, NEW t \in Threads, ProvisionStep(t)
    PROVE  HandlerTypeOK' /\ StorageTypeOK' /\ UNCHANGED leaseVars
<1>1. pc[t] \in Calls
  BY AreCalls DEF ProvisionStep, ListDataset, CreateZvol, ListTargets, CreateTarget,
     ListExtents, CreateExtent, ListAssociations, CreateAssociation, Read, CreateObject
<1>2. pc[t] # "idle" /\ W(t) \in Workspaces
  BY <1>1, NotCalls, Serves
<1>3. PICK x \in Calls : Goto(t, x) /\ UNCHANGED <<req, opLock, leaseVars>>
  BY AreCalls DEF ProvisionStep, ListDataset, CreateZvol, ListTargets, CreateTarget,
     ListExtents, CreateExtent, ListAssociations, CreateAssociation, Read, CreateObject
<1>4. HandlerTypeOK'
  BY <1>2, <1>3, GotoTypes
<1>5. StorageTypeOK'
  BY <1>2 DEF StorageTypeOK, ProvisionStep, ListDataset, CreateZvol, ListTargets, CreateTarget,
     ListExtents, CreateExtent, ListAssociations, CreateAssociation, Read, CreateObject,
     storageVars, Objects, Contents
<1>6. QED
  BY <1>3, <1>4, <1>5

\* The steps of attach keep the types.
LEMMA MountTypes ==
    ASSUME HandlerTypeOK, StorageTypeOK, NEW t \in Threads, MountStep(t)
    PROVE  HandlerTypeOK' /\ StorageTypeOK' /\ UNCHANGED leaseVars
<1>1. pc[t] \in Calls
  BY AreCalls DEF MountStep, Login, DeviceAppears, BlkidFindsNothing, BlkidFindsExt4, Format,
     IsMounted, Mount, Chown, Read
<1>2. pc[t] # "idle" /\ W(t) \in Workspaces
  BY <1>1, NotCalls, Serves
<1>3. PICK x \in Calls \cup {"ok"} :
         Goto(t, x) /\ opLock' \subseteq opLock /\ UNCHANGED <<req, leaseVars>>
  BY AreCalls DEF MountStep, Login, DeviceAppears, BlkidFindsNothing, BlkidFindsExt4, Format,
     IsMounted, Mount, Chown, Read, Leave
<1>4. HandlerTypeOK'
  BY <1>2, <1>3, GotoTypes
<1>5. StorageTypeOK'
  BY <1>2 DEF StorageTypeOK, MountStep, Login, DeviceAppears, BlkidFindsNothing, BlkidFindsExt4,
     Format, IsMounted, Mount, Chown, Read, storageVars, Contents
<1>6. QED
  BY <1>3, <1>4, <1>5

\* The steps of detach keep the types.
LEMMA DetachTypes ==
    ASSUME HandlerTypeOK, StorageTypeOK, NEW t \in Threads, DetachStep(t)
    PROVE  HandlerTypeOK' /\ StorageTypeOK' /\ UNCHANGED leaseVars
<1>1. pc[t] \in Calls
  BY AreCalls DEF DetachStep, WasMounted, Unmount, Logout, Read
<1>2. pc[t] # "idle" /\ W(t) \in Workspaces
  BY <1>1, NotCalls, Serves
<1>3. PICK x \in Calls \cup {"ok"} :
         Goto(t, x) /\ opLock' \subseteq opLock /\ UNCHANGED <<req, leaseVars>>
  BY AreCalls DEF DetachStep, WasMounted, Unmount, Logout, Read, Leave
<1>4. HandlerTypeOK'
  BY <1>2, <1>3, GotoTypes
<1>5. StorageTypeOK'
  BY <1>2 DEF StorageTypeOK, DetachStep, WasMounted, Unmount, Logout, Read, storageVars
<1>6. QED
  BY <1>3, <1>4, <1>5

\* The steps of destroy keep the types.
LEMMA DestroyTypes ==
    ASSUME HandlerTypeOK, StorageTypeOK, NEW t \in Threads, DestroyStep(t)
    PROVE  HandlerTypeOK' /\ StorageTypeOK' /\ UNCHANGED leaseVars
<1>1. pc[t] \in Calls
  BY AreCalls DEF DestroyStep, DestroyListTargets, DestroyListAssociations, DeleteAssociation,
     DestroyListExtents, DeleteExtent, DeleteTarget, DestroyListDataset, DeleteZvol, Read,
     DeleteObject
<1>2. pc[t] # "idle" /\ W(t) \in Workspaces /\ req[t] \in Requests
  BY <1>1, NotCalls, Serves
<1>3. HandlerTypeOK' /\ UNCHANGED leaseVars
  <2>1. CASE DestroyListTargets(t)
    <3>1. PICK x \in Calls : Goto(t, x) /\ UNCHANGED <<opLock, leaseVars>>
      BY <2>1, AreCalls DEF DestroyListTargets
    <3>2. DOMAIN req' = Threads
      BY <2>1 DEF DestroyListTargets, HandlerTypeOK
    <3>3. req'[t] \in Requests
      <4>1. req'[t] = [req[t] EXCEPT !.targets = nas[W(t)] \cap {"target"}]
        BY <2>1 DEF DestroyListTargets, HandlerTypeOK
      <4>2. QED
        BY <1>2, <4>1 DEF Requests
    <3>4. \A s \in Threads \ {t} : req'[s] = req[s] /\ pc'[s] = pc[s]
      BY <2>1, <3>1 DEF DestroyListTargets, HandlerTypeOK, Goto
    <3>5. pc'[t] = x /\ pc' \in [Threads -> Calls \cup {"idle", "wait", "release", "ok", "failed"}]
      BY <3>1 DEF HandlerTypeOK, Goto
    <3>6. QED
      BY <3>1, <3>2, <3>3, <3>4, <3>5, NotCalls DEF HandlerTypeOK
  <2>2. CASE ~DestroyListTargets(t)
    <3>1. PICK x \in Calls \cup {"release"} :
             Goto(t, x) /\ opLock' \subseteq opLock /\ UNCHANGED <<req, leaseVars>>
      BY <2>2, AreCalls DEF DestroyStep, DestroyListAssociations, DeleteAssociation,
         DestroyListExtents, DeleteExtent, DeleteTarget, DestroyListDataset, DeleteZvol, Read,
         DeleteObject, AfterExtents, Leave
    <3>2. QED
      BY <1>2, <3>1, GotoTypes
  <2>3. QED
    BY <2>1, <2>2
<1>4. StorageTypeOK'
  BY <1>2 DEF StorageTypeOK, DestroyStep, DestroyListTargets, DestroyListAssociations,
     DeleteAssociation, DestroyListExtents, DeleteExtent, DeleteTarget, DestroyListDataset,
     DeleteZvol, Read, DeleteObject, storageVars, Contents
<1>5. QED
  BY <1>3, <1>4

\* A request that arrives, waits for the lock, fails or is answered keeps them.
LEMMA DispatchTypes ==
    ASSUME TypeOK, NEW t \in Threads,
           \/ \E op \in Operations, w \in Workspaces, c \in Capabilities : Arrive(t, op, w, c)
           \/ Enter(t) \/ Fail(t) \/ ReleaseAfterDestroy(t) \/ Answer(t)
    PROVE  TypeOK'
<1> USE TypeParts
<1>1. ASSUME NEW op \in Operations, NEW w \in Workspaces, NEW c \in Capabilities,
             Arrive(t, op, w, c)
      PROVE  TypeOK'
  <2>1. req' = [req EXCEPT ![t] = [op |-> op, ws |-> w, cap |-> c, targets |-> {}]]
    BY <1>1 DEF Arrive
  <2>2. pc' = [pc EXCEPT ![t] = "wait"] /\ UNCHANGED <<opLock, leaseVars, storageVars>>
    BY <1>1 DEF Arrive, Goto
  <2>3. [op |-> op, ws |-> w, cap |-> c, targets |-> {}] \in Requests
    BY DEF Requests
  <2>4. HandlerTypeOK'
    BY <2>1, <2>2, <2>3 DEF HandlerTypeOK
  <2>5. QED
    BY <2>2, <2>4 DEF LeaseTypeOK, StorageTypeOK, leaseVars, storageVars
<1>2. CASE Enter(t)
  <2>1. PICK x \in Calls : Goto(t, x) /\ opLock' = {t} /\ UNCHANGED <<req, leaseVars, storageVars>>
    <3>1. pc[t] # "idle"
      BY <1>2 DEF Enter
    <3>2. Op(t) \in Operations
      BY <3>1, Serves DEF Requests, Op
    <3>3. FirstCall(Op(t)) \in Calls
      BY <3>2, AreCalls DEF FirstCall, Operations
    <3>4. QED
      BY <1>2, <3>3 DEF Enter
  <2>2. HandlerTypeOK'
    BY <1>2, <2>1, GotoTypes DEF Enter
  <2>3. QED
    BY <2>1, <2>2 DEF LeaseTypeOK, StorageTypeOK, leaseVars, storageVars
<1>3. CASE Fail(t)
  <2>1. pc[t] # "idle" /\ Goto(t, "failed") /\ opLock' \subseteq opLock
        /\ UNCHANGED <<req, leaseVars, storageVars>>
    BY <1>3, NotCalls DEF Fail, Leave
  <2>2. HandlerTypeOK'
    BY <2>1, GotoTypes
  <2>3. QED
    BY <2>1, <2>2 DEF LeaseTypeOK, StorageTypeOK, leaseVars, storageVars
<1>4. CASE ReleaseAfterDestroy(t)
  <2>1. PICK x \in {"ok", "failed"} : Goto(t, x)
    BY <1>4 DEF ReleaseAfterDestroy
  <2>2. pc[t] # "idle" /\ UNCHANGED <<req, opLock, storageVars, known, svc, ps, running>>
    BY <1>4 DEF ReleaseAfterDestroy
  <2>3. HandlerTypeOK'
    BY <2>1, <2>2, GotoTypes
  <2>4. lease' \in Leases
    BY <1>4 DEF ReleaseAfterDestroy, LeaseTypeOK, Leases
  <2>5. QED
    BY <2>2, <2>3, <2>4 DEF LeaseTypeOK, StorageTypeOK, storageVars
<1>5. CASE Answer(t)
  <2>1. HandlerTypeOK'
    BY <1>5 DEF Answer, Goto, HandlerTypeOK
  <2>2. QED
    BY <1>5, <2>1 DEF Answer, LeaseTypeOK, StorageTypeOK, leaseVars, storageVars
<1>6. QED
  BY <1>1, <1>2, <1>3, <1>4, <1>5

\* The lease requests, the host, the boot and the containers keep them.
LEMMA EnvironmentTypes ==
    ASSUME TypeOK,
           Environment \/ \E w \in Workspaces, c \in Capabilities : LeaseRequest(w, c)
    PROVE  TypeOK'
<1> USE TypeParts
<1>1. ASSUME NEW w \in Workspaces, NEW c \in Capabilities, LeaseRequest(w, c)
      PROVE  TypeOK'
  <2>1. LeaseNext
    BY <1>1 DEF LeaseRequest, LeaseNext
  <2>2. QED
    BY <1>1, <2>1, LeaseStepTypes
       DEF LeaseRequest, threadVars, storageVars, HandlerTypeOK, StorageTypeOK
<1>2. CASE HelperCrash
  <2>1. LeaseTypeOK'
    BY <1>2, LeaseStepTypes DEF HelperCrash, LeaseNext
  <2>2. QED
    BY <1>2, <2>1 DEF HelperCrash, DropThreads, storageVars, HandlerTypeOK, StorageTypeOK
<1>3. CASE MachineReboot
  <2>1. LeaseTypeOK'
    BY <1>3, LeaseStepTypes DEF MachineReboot, LeaseNext
  <2>2. QED
    BY <1>3, <2>1 DEF MachineReboot, DropThreads, HandlerTypeOK, StorageTypeOK
<1>4. CASE Boot
  <2>1. LeaseTypeOK'
    BY <1>4, LeaseStepTypes DEF Boot, LeaseNext
  <2>2. QED
    BY <1>4, <2>1 DEF Boot, threadVars, storageVars, HandlerTypeOK, StorageTypeOK
<1>5. ASSUME NEW w \in Workspaces, Container(w)
      PROVE  TypeOK'
  <2>1. LeaseTypeOK'
    BY <1>5, LeaseStepTypes DEF Container, LeaseNext
  <2>2. QED
    BY <1>5, <2>1 DEF Container, threadVars, storageVars, HandlerTypeOK, StorageTypeOK
<1>6. ASSUME NEW w \in Workspaces, WriteFiles(w)
      PROVE  TypeOK'
  BY <1>6 DEF WriteFiles, leaseVars, threadVars, LeaseTypeOK, HandlerTypeOK, StorageTypeOK,
     Contents
<1>7. QED
  BY <1>1, <1>2, <1>3, <1>4, <1>5, <1>6 DEF Environment

\* Every step keeps every variable well-formed; in particular only a thread
\* that serves a request is anywhere but idle.
THEOREM HelperTypeCorrect == Spec => []TypeOK
<1>1. Init => TypeOK
  BY DEF Init, LeaseInit, TypeOK, LeaseTypeOK, Leases, Objects, Contents
<1>2. TypeOK /\ [Next]_vars => TypeOK'
  <2> SUFFICES ASSUME TypeOK, [Next]_vars PROVE TypeOK'
    OBVIOUS
  <2>1. ASSUME NEW t \in Threads,
               ProvisionStep(t) \/ MountStep(t) \/ DetachStep(t) \/ DestroyStep(t)
        PROVE  TypeOK'
    <3>1. HandlerTypeOK' /\ StorageTypeOK' /\ UNCHANGED leaseVars
      BY <2>1, TypeParts, ProvisionTypes, MountTypes, DetachTypes, DestroyTypes
    <3>2. LeaseTypeOK'
      BY <3>1, TypeParts, LeaseStepTypes
    <3>3. QED
      BY <3>1, <3>2, TypeParts
  <2>2. CASE UNCHANGED vars
    BY <2>2 DEF vars, TypeOK, LeaseTypeOK
  <2>3. QED
    BY <2>1, <2>2, DispatchTypes, EnvironmentTypes DEF Next, HandlerStep
<1>3. QED
  BY <1>1, <1>2, PTL DEF Spec

----------------------------------------------------------------------------
(* The storage invariant.                                                  *)

\* The stages of provision are the ordered sets of objects.
LEMMA StagesAreOrdered ==
    ASSUME StorageTypeOK
    PROVE  /\ Ordered <=> NoOrphans
           /\ MountpointTells /\ Ordered /\ Backing => MountedIsBacked
<1>1. ASSUME NEW o \in SUBSET Objects
      PROVE  /\ o \in Stages <=> /\ "target" \in o => "zvol" \in o
                                 /\ "extent" \in o => "target" \in o
                                 /\ "assoc" \in o => "extent" \in o
             /\ o = Objects <=> {"zvol", "target", "extent", "assoc"} \subseteq o
  BY DEF Stages, Objects
<1>2. \A w \in Workspaces : nas[w] \in SUBSET Objects
  BY DEF StorageTypeOK
<1>3. Ordered <=> NoOrphans
  BY <1>1, <1>2 DEF Ordered, NoOrphans
<1>4. MountpointTells /\ Ordered /\ Backing => MountedIsBacked
  <2> SUFFICES ASSUME MountpointTells, Ordered, Backing, NEW w \in mounted
               PROVE  w \in session /\ nas[w] = Objects /\ fs[w] \in {"ext4", "data"}
    BY DEF MountedIsBacked
  <2>1. w \in Workspaces /\ w \in session /\ "assoc" \in nas[w] /\ fs[w] \in {"ext4", "data"}
    BY DEF Backing, StorageTypeOK
  <2>2. {"zvol", "target", "extent", "assoc"} \subseteq nas[w]
    BY <2>1 DEF Ordered
  <2>3. nas[w] = Objects
    BY <1>1, <1>2, <2>1, <2>2
  <2>4. QED
    BY <2>1, <2>3
<1>5. QED
  BY <1>3, <1>4

\* A step of the thread in the lock disturbs no other thread: the others are
\* at no external call, so they know nothing.
LEMMA OthersUndisturbed ==
    ASSUME Exclusive, HandlerTypeOK, NEW t \in Threads, pc[t] \in Calls,
           \E x : /\ Goto(t, x)
                 /\ \/ x \in Calls /\ opLock' = opLock
                    \/ x \notin Calls /\ opLock' = opLock \ {t}
    PROVE  Exclusive' /\ \A s \in Threads \ {t} : Knows(s)'
<1>1. PICK x : /\ Goto(t, x)
               /\ \/ x \in Calls /\ opLock' = opLock
                  \/ x \notin Calls /\ opLock' = opLock \ {t}
  OBVIOUS
<1>2. pc'[t] = x /\ \A s \in Threads \ {t} : pc'[s] = pc[s] /\ pc[s] \notin Calls
  BY <1>1 DEF Exclusive, HandlerTypeOK, Goto
<1>3. Exclusive'
  BY <1>1, <1>2 DEF Exclusive
<1>4. \A s \in Threads \ {t} : Knows(s)'
  BY <1>2, AreCalls DEF Knows, MountCalls, DestroyCalls
<1>5. QED
  BY <1>3, <1>4

\* The steps of provision keep the storage invariant.
LEMMA ProvisionKeeps ==
    ASSUME StorageInv, NEW t \in Threads, ProvisionStep(t)
    PROVE  (Exclusive /\ Ordered /\ Backing /\ \A s \in Threads : Knows(s))'
<1>1. HandlerTypeOK /\ StorageTypeOK /\ Exclusive /\ Ordered /\ Backing /\ Knows(t)
  BY TypeParts DEF StorageInv
<1>2. pc[t] \in Calls
  BY AreCalls DEF ProvisionStep, ListDataset, CreateZvol, ListTargets, CreateTarget,
     ListExtents, CreateExtent, ListAssociations, CreateAssociation, Read, CreateObject
<1>3. W(t) \in Workspaces /\ req[t] \in Requests
  BY <1>1, <1>2, NotCalls, Serves
<1>4. \E x : /\ Goto(t, x)
             /\ \/ x \in Calls /\ opLock' = opLock
                \/ x \notin Calls /\ opLock' = opLock \ {t}
  BY AreCalls, NotCalls DEF ProvisionStep, ListDataset, CreateZvol, ListTargets,
     CreateTarget, ListExtents, CreateExtent, ListAssociations, CreateAssociation, Read,
     CreateObject
<1>5. Exclusive' /\ \A s \in Threads \ {t} : Knows(s)'
  BY <1>1, <1>2, <1>4, OthersUndisturbed
<1> USE <1>1, <1>3 DEF HandlerTypeOK, StorageTypeOK, Ordered, Backing, Knows, W, Op, Goto,
        Read, CreateObject, DeleteObject, Leave, storageVars, MountCalls, DestroyCalls
<1>6. ASSUME ListDataset(t) PROVE (Ordered /\ Backing /\ Knows(t))'
  BY <1>6 DEF ListDataset
<1>7. ASSUME CreateZvol(t) PROVE (Ordered /\ Backing /\ Knows(t))'
  BY <1>7 DEF CreateZvol
<1>8. ASSUME ListTargets(t) PROVE (Ordered /\ Backing /\ Knows(t))'
  BY <1>8 DEF ListTargets
<1>9. ASSUME CreateTarget(t) PROVE (Ordered /\ Backing /\ Knows(t))'
  BY <1>9 DEF CreateTarget
<1>10. ASSUME ListExtents(t) PROVE (Ordered /\ Backing /\ Knows(t))'
  BY <1>10 DEF ListExtents
<1>11. ASSUME CreateExtent(t) PROVE (Ordered /\ Backing /\ Knows(t))'
  BY <1>11 DEF CreateExtent
<1>12. ASSUME ListAssociations(t) PROVE (Ordered /\ Backing /\ Knows(t))'
  BY <1>12 DEF ListAssociations
<1>13. ASSUME CreateAssociation(t) PROVE (Ordered /\ Backing /\ Knows(t))'
  BY <1>13 DEF CreateAssociation
<1>14. QED
  BY <1>5, <1>6, <1>7, <1>8, <1>9, <1>10, <1>11, <1>12, <1>13 DEF ProvisionStep

\* So do the steps of attach.
LEMMA MountKeeps ==
    ASSUME StorageInv, NEW t \in Threads, MountStep(t)
    PROVE  (Exclusive /\ Ordered /\ Backing /\ \A s \in Threads : Knows(s))'
<1>1. HandlerTypeOK /\ StorageTypeOK /\ Exclusive /\ Ordered /\ Backing /\ Knows(t)
  BY TypeParts DEF StorageInv
<1>2. pc[t] \in Calls
  BY AreCalls DEF MountStep, Login, DeviceAppears, BlkidFindsNothing, BlkidFindsExt4,
     Format, IsMounted, Mount, Chown, Read, Leave
<1>3. W(t) \in Workspaces /\ req[t] \in Requests
  BY <1>1, <1>2, NotCalls, Serves
<1>4. \E x : /\ Goto(t, x)
             /\ \/ x \in Calls /\ opLock' = opLock
                \/ x \notin Calls /\ opLock' = opLock \ {t}
  BY AreCalls, NotCalls DEF MountStep, Login, DeviceAppears, BlkidFindsNothing,
     BlkidFindsExt4, Format, IsMounted, Mount, Chown, Read, Leave
<1>5. Exclusive' /\ \A s \in Threads \ {t} : Knows(s)'
  BY <1>1, <1>2, <1>4, OthersUndisturbed
<1> USE <1>1, <1>3 DEF HandlerTypeOK, StorageTypeOK, Ordered, Backing, Knows, W, Op, Goto,
        Read, CreateObject, DeleteObject, Leave, storageVars, MountCalls, DestroyCalls
<1>6. ASSUME Login(t) PROVE (Ordered /\ Backing /\ Knows(t))'
  BY <1>6 DEF Login
<1>7. ASSUME DeviceAppears(t) PROVE (Ordered /\ Backing /\ Knows(t))'
  BY <1>7 DEF DeviceAppears
<1>8. ASSUME BlkidFindsNothing(t) PROVE (Ordered /\ Backing /\ Knows(t))'
  BY <1>8 DEF BlkidFindsNothing
<1>9. ASSUME BlkidFindsExt4(t) PROVE (Ordered /\ Backing /\ Knows(t))'
  BY <1>9 DEF BlkidFindsExt4
<1>10. ASSUME Format(t) PROVE (Ordered /\ Backing /\ Knows(t))'
  BY <1>10 DEF Format
<1>11. ASSUME IsMounted(t) PROVE (Ordered /\ Backing /\ Knows(t))'
  BY <1>11 DEF IsMounted, SeemsUnmounted, MountpointTells
<1>12. ASSUME Mount(t) PROVE (Ordered /\ Backing /\ Knows(t))'
  BY <1>12 DEF Mount
<1>13. ASSUME Chown(t) PROVE (Ordered /\ Backing /\ Knows(t))'
  BY <1>13 DEF Chown
<1>14. QED
  BY <1>5, <1>6, <1>7, <1>8, <1>9, <1>10, <1>11, <1>12, <1>13 DEF MountStep

\* So do the steps of detach.
LEMMA DetachKeeps ==
    ASSUME StorageInv, NEW t \in Threads, DetachStep(t)
    PROVE  (Exclusive /\ Ordered /\ Backing /\ \A s \in Threads : Knows(s))'
<1>1. HandlerTypeOK /\ StorageTypeOK /\ Exclusive /\ Ordered /\ Backing /\ Knows(t)
  BY TypeParts DEF StorageInv
<1>2. pc[t] \in Calls
  BY AreCalls DEF DetachStep, WasMounted, Unmount, Logout, Read, Leave
<1>3. W(t) \in Workspaces /\ req[t] \in Requests
  BY <1>1, <1>2, NotCalls, Serves
<1>4. \E x : /\ Goto(t, x)
             /\ \/ x \in Calls /\ opLock' = opLock
                \/ x \notin Calls /\ opLock' = opLock \ {t}
  BY AreCalls, NotCalls DEF DetachStep, WasMounted, Unmount, Logout, Read, Leave
<1>5. Exclusive' /\ \A s \in Threads \ {t} : Knows(s)'
  BY <1>1, <1>2, <1>4, OthersUndisturbed
<1> USE <1>1, <1>3 DEF HandlerTypeOK, StorageTypeOK, Ordered, Backing, Knows, W, Op, Goto,
        Read, CreateObject, DeleteObject, Leave, storageVars, MountCalls, DestroyCalls
<1>6. ASSUME WasMounted(t) PROVE (Ordered /\ Backing /\ Knows(t))'
  BY <1>6 DEF WasMounted, SeemsUnmounted, MountpointTells
<1>7. ASSUME Unmount(t) PROVE (Ordered /\ Backing /\ Knows(t))'
  BY <1>7 DEF Unmount
<1>8. ASSUME Logout(t) PROVE (Ordered /\ Backing /\ Knows(t))'
  BY <1>8 DEF Logout
<1>9. QED
  BY <1>5, <1>6, <1>7, <1>8 DEF DetachStep

\* So do the steps of destroy.
LEMMA DestroyKeeps ==
    ASSUME StorageInv, NEW t \in Threads, DestroyStep(t)
    PROVE  (Exclusive /\ Ordered /\ Backing /\ \A s \in Threads : Knows(s))'
<1>1. HandlerTypeOK /\ StorageTypeOK /\ Exclusive /\ Ordered /\ Backing /\ Knows(t)
  BY TypeParts DEF StorageInv
<1>2. pc[t] \in Calls
  BY AreCalls DEF DestroyStep, DestroyListTargets, DestroyListAssociations,
     DeleteAssociation, DestroyListExtents, DeleteExtent, DeleteTarget, DestroyListDataset,
     DeleteZvol, Read, DeleteObject, Leave, AfterExtents
<1>3. W(t) \in Workspaces /\ req[t] \in Requests
  BY <1>1, <1>2, NotCalls, Serves
<1>4. \E x : /\ Goto(t, x)
             /\ \/ x \in Calls /\ opLock' = opLock
                \/ x \notin Calls /\ opLock' = opLock \ {t}
  BY AreCalls, NotCalls DEF DestroyStep, DestroyListTargets, DestroyListAssociations,
     DeleteAssociation, DestroyListExtents, DeleteExtent, DeleteTarget, DestroyListDataset,
     DeleteZvol, Read, DeleteObject, Leave, AfterExtents
<1>5. Exclusive' /\ \A s \in Threads \ {t} : Knows(s)'
  BY <1>1, <1>2, <1>4, OthersUndisturbed
<1> USE <1>1, <1>3 DEF HandlerTypeOK, StorageTypeOK, Ordered, Backing, Knows, W, Op, Goto,
        Read, CreateObject, DeleteObject, Leave, storageVars, MountCalls, DestroyCalls
<1>6. ASSUME DestroyListTargets(t) PROVE (Ordered /\ Backing /\ Knows(t))'
  BY <1>6 DEF DestroyListTargets
<1>7. ASSUME DestroyListAssociations(t) PROVE (Ordered /\ Backing /\ Knows(t))'
  BY <1>7 DEF DestroyListAssociations
<1>8. ASSUME DeleteAssociation(t) PROVE (Ordered /\ Backing /\ Knows(t))'
  BY <1>8 DEF DeleteAssociation
<1>9. ASSUME DestroyListExtents(t) PROVE (Ordered /\ Backing /\ Knows(t))'
  BY <1>9 DEF DestroyListExtents, AfterExtents
<1>10. ASSUME DeleteExtent(t) PROVE (Ordered /\ Backing /\ Knows(t))'
  BY <1>10 DEF DeleteExtent, AfterExtents
<1>11. ASSUME DeleteTarget(t) PROVE (Ordered /\ Backing /\ Knows(t))'
  BY <1>11 DEF DeleteTarget
<1>12. ASSUME DestroyListDataset(t) PROVE (Ordered /\ Backing /\ Knows(t))'
  BY <1>12 DEF DestroyListDataset
<1>13. ASSUME DeleteZvol(t) PROVE (Ordered /\ Backing /\ Knows(t))'
  BY <1>13 DEF DeleteZvol
<1>14. QED
  BY <1>5, <1>6, <1>7, <1>8, <1>9, <1>10, <1>11, <1>12, <1>13 DEF DestroyStep

\* A thread that moves outside the lock changes nothing for those inside.
LEMMA OutsideTheLock ==
    ASSUME StorageInv, NEW t \in Threads, pc[t] \notin Calls, NEW x, x \notin Calls,
           Goto(t, x), UNCHANGED <<opLock, storageVars>>,
           \A s \in Threads \ {t} : req'[s] = req[s]
    PROVE  (Exclusive /\ Ordered /\ Backing /\ \A s \in Threads : Knows(s))'
<1>1. HandlerTypeOK /\ Exclusive /\ Ordered /\ Backing /\ \A s \in Threads : Knows(s)
  BY TypeParts DEF StorageInv
<1>2. pc'[t] = x /\ \A s \in Threads \ {t} : pc'[s] = pc[s]
  BY <1>1 DEF HandlerTypeOK, Goto
<1>3. Exclusive'
  BY <1>1, <1>2 DEF Exclusive
<1>4. Knows(t)'
  BY <1>2, AreCalls DEF Knows, MountCalls, DestroyCalls
<1>5. \A s \in Threads \ {t} : Knows(s)'
  BY <1>1, <1>2 DEF Knows, W, Op, storageVars
<1>6. Ordered' /\ Backing'
  BY <1>1 DEF Ordered, Backing, storageVars
<1>7. QED
  BY <1>3, <1>4, <1>5, <1>6

\* Arriving, entering the lock, failing and answering keep it.
LEMMA DispatchKeeps ==
    ASSUME StorageInv, NEW t \in Threads,
           \/ \E op \in Operations, w \in Workspaces, c \in Capabilities : Arrive(t, op, w, c)
           \/ Enter(t) \/ Fail(t) \/ ReleaseAfterDestroy(t) \/ Answer(t)
    PROVE  (Exclusive /\ Ordered /\ Backing /\ \A s \in Threads : Knows(s))'
<1>1. HandlerTypeOK /\ Exclusive /\ Ordered /\ Backing /\ \A s \in Threads : Knows(s)
  BY TypeParts DEF StorageInv
<1>2. ASSUME NEW op \in Operations, NEW w \in Workspaces, NEW c \in Capabilities,
             Arrive(t, op, w, c)
      PROVE  (Exclusive /\ Ordered /\ Backing /\ \A s \in Threads : Knows(s))'
  <2>1. \A s \in Threads \ {t} : req'[s] = req[s]
    BY <1>1, <1>2 DEF Arrive, HandlerTypeOK
  <2>2. pc[t] \notin Calls /\ Goto(t, "wait") /\ UNCHANGED <<opLock, storageVars>>
    BY <1>2, NotCalls DEF Arrive
  <2>3. QED
    BY <2>1, <2>2, NotCalls, OutsideTheLock
<1>3. CASE Enter(t)
  <2>1. Op(t) \in Operations
    BY <1>1, <1>3, Serves DEF Enter, Requests, Op
  <2>2. PICK x \in {"dataset", "login", "was_mounted"} : Goto(t, x)
    BY <1>3, <2>1 DEF Enter, FirstCall, Operations
  <2>3. opLock = {} /\ opLock' = {t} /\ UNCHANGED <<req, storageVars>>
    BY <1>3 DEF Enter
  <2>4. \A s \in Threads : pc[s] \notin Calls
    BY <1>1, <2>3 DEF Exclusive
  <2>5. pc'[t] = x /\ \A s \in Threads \ {t} : pc'[s] = pc[s]
    BY <1>1, <2>2 DEF HandlerTypeOK, Goto
  <2>6. Exclusive'
    BY <2>2, <2>3, <2>4, <2>5, AreCalls DEF Exclusive
  <2>7. \A s \in Threads : Knows(s)'
    BY <2>2, <2>4, <2>5, AreCalls DEF Knows, MountCalls, DestroyCalls
  <2>8. Ordered' /\ Backing'
    BY <1>1, <2>3 DEF Ordered, Backing, storageVars
  <2>9. QED
    BY <2>6, <2>7, <2>8
<1>4. CASE Fail(t)
  <2>1. pc[t] \in Calls /\ Goto(t, "failed") /\ opLock' = opLock \ {t} /\ UNCHANGED storageVars
    BY <1>4 DEF Fail, Leave
  <2>2. Exclusive' /\ \A s \in Threads \ {t} : Knows(s)'
    BY <1>1, <2>1, NotCalls, OthersUndisturbed
  <2>3. Knows(t)'
    BY <1>1, <2>1 DEF Knows, MountCalls, DestroyCalls, HandlerTypeOK, Goto
  <2>4. Ordered' /\ Backing'
    BY <1>1, <2>1 DEF Ordered, Backing, storageVars
  <2>5. QED
    BY <2>2, <2>3, <2>4
<1>5. CASE ReleaseAfterDestroy(t)
  <2>1. PICK x \in {"ok", "failed"} : Goto(t, x)
    BY <1>5 DEF ReleaseAfterDestroy
  <2>2. pc[t] \notin Calls /\ UNCHANGED <<req, opLock, storageVars>>
    BY <1>5, NotCalls DEF ReleaseAfterDestroy
  <2>3. QED
    BY <2>1, <2>2, NotCalls, OutsideTheLock
<1>6. CASE Answer(t)
  <2>1. pc[t] \notin Calls /\ Goto(t, "idle") /\ UNCHANGED <<opLock, storageVars>>
    BY <1>6, NotCalls DEF Answer
  <2>2. \A s \in Threads \ {t} : req'[s] = req[s]
    BY <1>1, <1>6 DEF Answer, HandlerTypeOK
  <2>3. QED
    BY <2>1, <2>2, NotCalls, OutsideTheLock
<1>7. QED
  BY <1>2, <1>3, <1>4, <1>5, <1>6

\* Lease requests, crashes, reboots, boots, containers and their users keep it.
LEMMA EnvironmentKeeps ==
    ASSUME StorageInv,
           \/ Environment
           \/ \E w \in Workspaces, c \in Capabilities : LeaseRequest(w, c)
           \/ UNCHANGED vars
    PROVE  (Exclusive /\ Ordered /\ Backing /\ \A s \in Threads : Knows(s))'
<1>1. StorageTypeOK /\ Exclusive /\ Ordered /\ Backing /\ \A s \in Threads : Knows(s)
  BY TypeParts DEF StorageInv
<1>2. CASE HelperCrash \/ MachineReboot
  <2>1. pc' = [t \in Threads |-> "idle"] /\ opLock' = {}
    BY <1>2 DEF HelperCrash, MachineReboot, DropThreads
  <2>2. Exclusive'
    BY <2>1, NotCalls DEF Exclusive
  <2>3. \A s \in Threads : Knows(s)'
    BY <2>1 DEF Knows, MountCalls, DestroyCalls
  <2>4. Ordered' /\ Backing'
    BY <1>1, <1>2 DEF Ordered, Backing, HelperCrash, MachineReboot, storageVars
  <2>5. QED
    BY <2>2, <2>3, <2>4
<1>3. ASSUME NEW w \in Workspaces, WriteFiles(w)
      PROVE  (Exclusive /\ Ordered /\ Backing /\ \A s \in Threads : Knows(s))'
  <2>1. w \in mounted /\ fs' = [fs EXCEPT ![w] = "data"]
        /\ UNCHANGED <<pc, req, opLock, nas, session, mounted>>
    BY <1>3 DEF WriteFiles, threadVars
  <2>2. MountpointTells => fs[w] \in {"ext4", "data"} /\ "zvol" \in nas[w]
    BY <1>1, <2>1 DEF Backing, Ordered, StorageTypeOK
  <2>3. \A s \in Threads : Knows(s)'
    BY <1>1, <2>1, <2>2 DEF Knows, W, Op, StorageTypeOK
  <2>4. Exclusive' /\ Ordered' /\ Backing'
    BY <1>1, <2>1, <2>2 DEF Exclusive, Ordered, Backing, StorageTypeOK
  <2>5. QED
    BY <2>3, <2>4
<1>4. ASSUME UNCHANGED <<threadVars, storageVars>>
      PROVE  (Exclusive /\ Ordered /\ Backing /\ \A s \in Threads : Knows(s))'
  <2>1. Exclusive' /\ Ordered' /\ Backing'
    BY <1>1, <1>4 DEF Exclusive, Ordered, Backing, threadVars, storageVars
  <2>2. \A s \in Threads : Knows(s)'
    BY <1>1, <1>4 DEF Knows, W, Op, threadVars, storageVars
  <2>3. QED
    BY <2>1, <2>2
<1>5. CASE Boot \/ \E w \in Workspaces : Container(w)
  BY <1>4, <1>5 DEF Boot, Container
<1>6. CASE \E w \in Workspaces, c \in Capabilities : LeaseRequest(w, c)
  BY <1>4, <1>6 DEF LeaseRequest
<1>7. CASE UNCHANGED vars
  BY <1>4, <1>7 DEF vars, threadVars, storageVars
<1>8. QED
  BY <1>2, <1>3, <1>5, <1>6, <1>7 DEF Environment

\* The invariant, for every run of the helper.
THEOREM StorageInvariant == Spec => []StorageInv
<1>1. Init => Exclusive /\ Ordered /\ Backing /\ \A t \in Threads : Knows(t)
  <2> SUFFICES ASSUME Init PROVE Exclusive /\ Ordered /\ Backing /\ \A t \in Threads : Knows(t)
    OBVIOUS
  <2>1. \A t \in Threads : pc[t] = "idle"
    BY DEF Init
  <2>2. Exclusive
    BY <2>1, NotCalls DEF Init, Exclusive
  <2>3. \A t \in Threads : Knows(t)
    BY <2>1 DEF Knows, MountCalls, DestroyCalls
  <2>4. \A w \in Workspaces : nas[w] \in {{}, {"zvol"}}
    BY DEF Init
  <2>5. Ordered /\ Backing
    BY <2>4 DEF Init, Ordered, Backing
  <2>6. QED
    BY <2>2, <2>3, <2>5
<1>2. StorageInv /\ [Next]_vars
      => (Exclusive /\ Ordered /\ Backing /\ \A t \in Threads : Knows(t))'
  <2> SUFFICES ASSUME StorageInv, [Next]_vars
               PROVE  (Exclusive /\ Ordered /\ Backing /\ \A t \in Threads : Knows(t))'
    OBVIOUS
  <2>1. ASSUME NEW t \in Threads, HandlerStep(t)
        PROVE  (Exclusive /\ Ordered /\ Backing /\ \A s \in Threads : Knows(s))'
    BY <2>1, ProvisionKeeps, MountKeeps, DetachKeeps, DestroyKeeps, DispatchKeeps DEF HandlerStep
  <2>2. QED
    BY <2>1, DispatchKeeps, EnvironmentKeeps DEF Next
<1>3. QED
  BY <1>1, <1>2, HelperTypeCorrect, PTL DEF Spec, StorageInv

\* Whatever fails and whenever the process dies, no target, extent or
\* association is left without what provision created before it.
THEOREM NoOrphansEver == Spec => []NoOrphans
<1>1. StorageInv => NoOrphans
  BY TypeParts, StagesAreOrdered DEF StorageInv
<1>2. QED
  BY <1>1, StorageInvariant, PTL

\* If mountpoint -q never fails on a mount (is_mounted 413-415), nothing is pulled
\* from under one: while a workspace is mounted its session and all of its TrueNAS
\* objects are there.
THEOREM MountsAreBacked ==
    ASSUME MountpointErrs = FALSE PROVE Spec => []MountedIsBacked
<1>1. StorageInv => MountedIsBacked
  BY TypeParts, StagesAreOrdered DEF StorageInv, MountpointTells
<1>2. QED
  BY <1>1, StorageInvariant, PTL

\* If blkid never fails on a device that holds files or a file system that is
\* not ours, and mountpoint -q on no mount, then these are lost only with the zvol
\* of a workspace that a DELETE has detached.
THEOREM OnlyDeleteLosesDataEver ==
    ASSUME Unidentified \cap {"data", "other"} = {}, MountpointErrs = FALSE
    PROVE  Spec => OnlyDeleteLosesData
<1> DEFINE Lost(w) == fs[w] \in {"data", "other"} /\ fs'[w] # fs[w]
           Deleted(w) == \E t \in Threads :
                            /\ pc[t] = "del_zvol" /\ Op(t) = "destroy" /\ W(t) = w
                            /\ w \notin mounted \cup session
<1>1. StorageInv /\ [Next]_vars => [\A w \in Workspaces : Lost(w) => Deleted(w)]_vars
  <2> SUFFICES ASSUME StorageInv, Next, NEW w \in Workspaces, Lost(w)
               PROVE  Deleted(w)
    OBVIOUS
  <2>1. /\ StorageTypeOK /\ HandlerTypeOK /\ Ordered /\ Backing /\ MountpointTells
        /\ \A s \in Threads : Knows(s)
    BY TypeParts DEF StorageInv, MountpointTells
  <2>2. ASSUME NEW t \in Threads, CreateZvol(t) PROVE FALSE
    <3>1. "zvol" \notin nas[W(t)] /\ fs' = [fs EXCEPT ![W(t)] = "blank"]
      BY <2>2 DEF CreateZvol, CreateObject
    <3>2. W(t) = w
      BY <2>1, <3>1 DEF StorageTypeOK
    <3>3. QED
      BY <2>1, <3>1, <3>2 DEF Backing
  <2>3. ASSUME NEW t \in Threads, Format(t) PROVE FALSE
    <3>1. fs[W(t)] \notin {"data", "other"} /\ fs' = [fs EXCEPT ![W(t)] = "ext4"]
      BY <2>1, <2>3 DEF Format, Knows
    <3>2. W(t) = w
      BY <2>1, <3>1 DEF StorageTypeOK
    <3>3. QED
      BY <3>1, <3>2
  <2>4. ASSUME NEW v \in Workspaces, WriteFiles(v) PROVE FALSE
    <3>1. v \in mounted /\ fs' = [fs EXCEPT ![v] = "data"]
      BY <2>4 DEF WriteFiles
    <3>2. QED
      BY <2>1, <3>1 DEF StorageTypeOK, Backing
  <2>5. ASSUME NEW t \in Threads, DeleteZvol(t) PROVE Deleted(w)
    <3>1. pc[t] = "del_zvol" /\ fs' = [fs EXCEPT ![W(t)] = "blank"]
      BY <2>5 DEF DeleteZvol
    <3>2. W(t) = w
      BY <2>1, <3>1 DEF StorageTypeOK
    <3>3. Op(t) = "destroy" /\ w \notin session \cup mounted
      BY <2>1, <3>1, <3>2 DEF Knows, DestroyCalls
    <3>4. QED
      BY <3>1, <3>2, <3>3
  <2>6. ASSUME NEW t \in Threads, HandlerStep(t) PROVE Deleted(w)
    <3>1. CASE ProvisionStep(t)
      BY <2>2, <3>1 DEF ProvisionStep, ListDataset, ListTargets, CreateTarget, ListExtents,
         CreateExtent, ListAssociations, CreateAssociation, Read, storageVars
    <3>2. CASE MountStep(t)
      BY <2>3, <3>2 DEF MountStep, Login, DeviceAppears, BlkidFindsNothing, BlkidFindsExt4,
         IsMounted, Mount, Chown, Read, storageVars
    <3>3. CASE DetachStep(t)
      BY <3>3 DEF DetachStep, WasMounted, Unmount, Logout, Read, storageVars
    <3>4. CASE DestroyStep(t)
      BY <2>5, <3>4 DEF DestroyStep, DestroyListTargets, DestroyListAssociations,
         DeleteAssociation, DestroyListExtents, DeleteExtent, DeleteTarget,
         DestroyListDataset, Read, DeleteObject, storageVars
    <3>5. CASE Fail(t) \/ ReleaseAfterDestroy(t) \/ Answer(t)
      BY <3>5 DEF Fail, ReleaseAfterDestroy, Answer, storageVars
    <3>6. QED
      BY <2>6, <3>1, <3>2, <3>3, <3>4, <3>5 DEF HandlerStep
  <2>7. CASE Environment
    BY <2>4, <2>7 DEF Environment, HelperCrash, MachineReboot, Boot, Container, storageVars
  <2>8. CASE ~Environment /\ ~\E t \in Threads : HandlerStep(t)
    BY <2>8 DEF Next, Arrive, Enter, LeaseRequest, storageVars
  <2>9. QED
    BY <2>6, <2>7, <2>8
<1>2. QED
  BY <1>1, StorageInvariant, PTL DEF Spec, OnlyDeleteLosesData

----------------------------------------------------------------------------
(* The handlers as users of the lease.                                     *)

\* A thread serves a request of a client that was given the capability it
\* presents, and only while the service is up.
Presented ==
    \A t \in Threads : pc[t] # "idle" => req[t].cap \in known[W(t)] /\ svc = "up"

\* A handler's step leaves the other requests alone, and what its own presents.
LEMMA RequestsKept ==
    ASSUME HandlerTypeOK, StorageTypeOK, NEW t \in Threads,
           \/ ProvisionStep(t) \/ MountStep(t) \/ DetachStep(t) \/ DestroyStep(t)
           \/ Fail(t) \/ Enter(t)
    PROVE  /\ pc[t] # "idle"
           /\ UNCHANGED leaseVars
           /\ \A s \in Threads \ {t} : pc'[s] = pc[s]
           /\ \A s \in Threads : req'[s].cap = req[s].cap /\ req'[s].ws = req[s].ws
<1>1. CASE ProvisionStep(t)
  BY <1>1 DEF ProvisionStep, ListDataset, CreateZvol, ListTargets, CreateTarget, ListExtents,
     CreateExtent, ListAssociations, CreateAssociation, Read, CreateObject, Goto, HandlerTypeOK
<1>2. CASE MountStep(t)
  BY <1>2 DEF MountStep, Login, DeviceAppears, BlkidFindsNothing, BlkidFindsExt4, Format,
     IsMounted, Mount, Chown, Read, Leave, Goto, HandlerTypeOK
<1>3. CASE DetachStep(t)
  BY <1>3 DEF DetachStep, WasMounted, Unmount, Logout, Read, Leave, Goto, HandlerTypeOK
<1>4. CASE DestroyListTargets(t)
  <2>1. pc[t] # "idle" /\ UNCHANGED leaseVars /\ \A s \in Threads \ {t} : pc'[s] = pc[s]
    BY <1>4 DEF DestroyListTargets, Goto, HandlerTypeOK
  <2>2. req[t] \in Requests
    BY <2>1, Serves
  <2>3. req' = [req EXCEPT ![t] = [req[t] EXCEPT !.targets = nas[W(t)] \cap {"target"}]]
    BY <1>4 DEF DestroyListTargets
  <2>4. \A s \in Threads : req'[s].cap = req[s].cap /\ req'[s].ws = req[s].ws
    BY <2>2, <2>3 DEF HandlerTypeOK, Requests
  <2>5. QED
    BY <2>1, <2>4
<1>5. CASE DestroyStep(t) /\ ~DestroyListTargets(t)
  BY <1>5 DEF DestroyStep, DestroyListAssociations, DeleteAssociation, DestroyListExtents,
     DeleteExtent, DeleteTarget, DestroyListDataset, DeleteZvol, Read, DeleteObject, Leave,
     Goto, HandlerTypeOK
<1>6. CASE Fail(t) \/ Enter(t)
  BY <1>6, NotCalls DEF Fail, Enter, Leave, Goto, HandlerTypeOK
<1>7. QED
  BY <1>1, <1>2, <1>3, <1>4, <1>5, <1>6

\* Every step of the helper, seen by the lease, is one the abstract lease
\* takes or none at all; a late release is a release or a refusal.
LEMMA HelperStep ==
    ASSUME TypeOK, Presented, [Next]_vars
    PROVE  Presented' /\ [LeaseNext]_leaseVars
<1>1. HandlerTypeOK /\ StorageTypeOK /\ LeaseTypeOK
  BY TypeParts
<1>2. ASSUME NEW t \in Threads,
             \/ ProvisionStep(t) \/ MountStep(t) \/ DetachStep(t) \/ DestroyStep(t)
             \/ Fail(t) \/ Enter(t)
      PROVE  Presented' /\ UNCHANGED leaseVars
  BY <1>1, <1>2, RequestsKept DEF Presented, W, leaseVars
<1>3. ASSUME NEW t \in Threads, NEW op \in Operations, NEW w \in Workspaces,
             NEW c \in Capabilities, Arrive(t, op, w, c)
      PROVE  Presented' /\ UNCHANGED leaseVars
  <2>1. req' = [req EXCEPT ![t] = [op |-> op, ws |-> w, cap |-> c, targets |-> {}]]
    BY <1>3 DEF Arrive
  <2>2. \A s \in Threads \ {t} : pc'[s] = pc[s] /\ req'[s] = req[s]
    BY <1>1, <1>3, <2>1 DEF Arrive, Goto, HandlerTypeOK
  <2>3. req'[t].cap = c /\ req'[t].ws = w
    BY <1>1, <2>1 DEF HandlerTypeOK
  <2>4. c \in known[w] /\ svc = "up" /\ UNCHANGED leaseVars
    BY <1>3 DEF Arrive
  <2>5. QED
    BY <2>2, <2>3, <2>4 DEF Presented, W, leaseVars
<1>4. ASSUME NEW t \in Threads, ReleaseAfterDestroy(t)
      PROVE  Presented' /\ [LeaseNext]_leaseVars
  <2>1. pc[t] = "release" /\ UNCHANGED <<known, svc, ps, running, req>>
        /\ lease' = IF Authorized(W(t), req[t].cap) THEN {} ELSE lease
    BY <1>4 DEF ReleaseAfterDestroy
  <2>2. W(t) \in Workspaces /\ req[t].cap \in Capabilities
    BY <1>1, <2>1, Serves DEF Requests
  <2>3. req[t].cap \in known[W(t)] /\ svc = "up"
    BY <2>1 DEF Presented
  <2>4. ASSUME Authorized(W(t), req[t].cap) PROVE LeaseNext
    <3>1. Release(W(t), req[t].cap)
      BY <2>1, <2>3, <2>4 DEF Release
    <3>2. QED
      BY <2>2, <3>1 DEF LeaseNext
  <2>5. ASSUME ~Authorized(W(t), req[t].cap) PROVE UNCHANGED leaseVars
    BY <2>1, <2>5 DEF leaseVars
  <2>6. Presented'
    BY <1>1, <1>4, <2>1 DEF ReleaseAfterDestroy, Presented, W, Goto, HandlerTypeOK
  <2>7. QED
    BY <2>4, <2>5, <2>6
<1>5. ASSUME NEW t \in Threads, Answer(t)
      PROVE  Presented' /\ UNCHANGED leaseVars
  BY <1>1, <1>5 DEF Answer, Presented, W, Goto, HandlerTypeOK, leaseVars
<1>6. ASSUME NEW w \in Workspaces, NEW c \in Capabilities, LeaseRequest(w, c)
      PROVE  Presented' /\ LeaseNext
  <2>1. LeaseNext /\ UNCHANGED <<svc, pc, req>>
    BY <1>6 DEF LeaseRequest, LeaseNext, Grant, GrantUnanswered, Release, threadVars
  <2>2. known' = known \/ known' = [known EXCEPT ![w] = @ \cup {c}]
    BY <1>6 DEF LeaseRequest, Grant, GrantUnanswered, Release
  <2>3. \A v \in Workspaces : known[v] \subseteq known'[v]
    BY <1>1, <2>2 DEF LeaseTypeOK
  <2>4. \A t \in Threads : pc[t] # "idle" => W(t) \in Workspaces
    BY <1>1, Serves
  <2>5. QED
    BY <2>1, <2>3, <2>4 DEF Presented, W
<1>7. CASE HelperCrash \/ MachineReboot
  BY <1>7 DEF HelperCrash, MachineReboot, DropThreads, Presented, LeaseNext
<1>8. CASE Boot
  <2>1. LeaseNext /\ UNCHANGED <<known, pc, req>> /\ svc # "up"
    BY <1>8 DEF Boot, LeaseNext, ListContainers, ListingFails, ClearStale, threadVars
  <2>2. \A t \in Threads : pc[t] = "idle"
    BY <2>1 DEF Presented
  <2>3. QED
    BY <2>1, <2>2 DEF Presented
<1>9. ASSUME NEW w \in Workspaces, Container(w) \/ WriteFiles(w)
      PROVE  Presented' /\ [LeaseNext]_leaseVars
  BY <1>9 DEF Container, WriteFiles, StartContainer, StopContainer, LeaseNext, threadVars,
     leaseVars, Presented, W
<1>10. CASE UNCHANGED vars
  BY <1>10 DEF vars, leaseVars, Presented, W
<1>11. QED
  BY <1>2, <1>3, <1>4, <1>5, <1>6, <1>7, <1>8, <1>9, <1>10
     DEF Next, HandlerStep, Environment

\* The handlers, with all their threads, crashes and late releases, never do
\* to the lease what the abstract lease service would not.
THEOREM HelperImplementsGlobalLease == Spec => ImplementsGlobalLease
<1>1. Init => LeaseInit /\ Presented
  BY DEF Init, Presented
<1>2. TypeOK /\ Presented /\ [Next]_vars => Presented' /\ [LeaseNext]_leaseVars
  BY HelperStep
<1>3. QED
  BY <1>1, <1>2, HelperTypeCorrect, PTL DEF Spec, ImplementsGlobalLease, LeaseSpec
=============================================================================
