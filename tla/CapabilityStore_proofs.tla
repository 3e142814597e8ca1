----------------------- MODULE CapabilityStore_proofs -----------------------
(***************************************************************************)
(* Theorems about CapabilityStore, for any number of workspaces and        *)
(* capabilities.                                                           *)
(***************************************************************************)
EXTENDS CapabilityStore, TLAPS

\* The two shapes of a lease that the operations write.
LEMMA LeaseShapes ==
    /\ {} \in Leases
    /\ \A w \in Workspaces, c \in Capabilities : {<<w, c>>} \in Leases
  BY DEF Leases

\* The part of the type invariant that the methods themselves keep.
MethodTypeOK ==
    /\ loaded \in BOOLEAN
    /\ mem \in Leases
    /\ disk \in Leases
    /\ acked \in Leases
    /\ unacked \in SUBSET Leases
    /\ known \in [Workspaces -> SUBSET Capabilities]
    /\ svc \in {"down", "listed", "up"}
    /\ ps \subseteq Workspaces
    /\ running \subseteq Workspaces

\* Every method, boot step and container keeps it.
LEMMA MethodsKeepTypes ==
    ASSUME MethodTypeOK, [Next]_vars
    PROVE  MethodTypeOK'
<1> USE LeaseShapes DEF MethodTypeOK, Cache, Persist, Answer, NoAnswer, hostVars, storeVars
<1>1. ASSUME NEW w \in Workspaces, NEW c \in Capabilities, Acquire(w, c)
      PROVE  MethodTypeOK'
  BY <1>1 DEF Acquire
<1>2. ASSUME NEW w \in Workspaces, NEW c \in Capabilities, AcquireWriteFails(w, c)
      PROVE  MethodTypeOK'
  BY <1>2 DEF AcquireWriteFails
<1>3. ASSUME NEW w \in Workspaces, NEW c \in Capabilities, Reacquire(w, c)
      PROVE  MethodTypeOK'
  BY <1>3 DEF Reacquire, Current
<1>4. ASSUME NEW w \in Workspaces, NEW c \in Capabilities, Release(w, c)
      PROVE  MethodTypeOK'
  BY <1>4 DEF Release
<1>5. ASSUME NEW w \in Workspaces, NEW c \in Capabilities, ReleaseWriteFails(w, c)
      PROVE  MethodTypeOK'
  BY <1>5 DEF ReleaseWriteFails
<1>6. CASE ReleaseFree
  BY <1>6 DEF ReleaseFree
<1>7. CASE Consult
  BY <1>7 DEF Consult
<1>8. CASE Crash
  BY <1>8 DEF Crash
<1>9. CASE HostReboot
  BY <1>9 DEF HostReboot
<1>10. CASE ListContainers
  BY <1>10 DEF ListContainers
<1>11. CASE ListingFails
  BY <1>11 DEF ListingFails
<1>12. CASE ClearStale
  BY <1>12 DEF ClearStale
<1>13. ASSUME NEW w \in Workspaces, StartContainer(w) \/ StopContainer(w)
       PROVE  MethodTypeOK'
  BY <1>13 DEF StartContainer, StopContainer
<1>14. CASE UNCHANGED vars
  BY <1>14 DEF vars
<1>15. QED
  BY <1>1, <1>2, <1>3, <1>4, <1>5, <1>6, <1>7, <1>8, <1>9, <1>10, <1>11, <1>12,
     <1>13, <1>14 DEF Next, Step, WriteFails

\* Every step keeps the cache, the file and the history of answers well-formed.
THEOREM StoreTypeCorrect == Spec => []TypeOK
<1>1. Init => TypeOK
  BY LeaseShapes DEF Init, TypeOK
<1>2. TypeOK /\ [Next]_vars => TypeOK'
  <2> SUFFICES ASSUME TypeOK, [Next]_vars PROVE TypeOK'
    OBVIOUS
  <2>1. MethodTypeOK'
    BY MethodsKeepTypes DEF TypeOK, MethodTypeOK
  <2>2. faulted' \in BOOLEAN
    BY DEF TypeOK, Next, vars
  <2>3. steady' \subseteq Workspaces
    BY <2>1 DEF TypeOK, MethodTypeOK, Next, vars
  <2>4. QED
    BY <2>1, <2>2, <2>3 DEF TypeOK, MethodTypeOK
<1>3. QED
  BY <1>1, <1>2, PTL DEF Spec

----------------------------------------------------------------------------
(* Which lease a capability opens, whatever writes fail.                   *)

\* No two clients were ever given the same capability.
OwnCapabilities ==
    \A v, w \in Workspaces : v # w => known[v] \cap known[w] = {}

PrivateInv == TypeOK /\ OwnCapabilities /\ PrivateCapability

\* Granting w a capability that is its own, or nobody's, keeps capabilities
\* apart: no other workspace's client was given it.
LEMMA GrantedToOne ==
    ASSUME OwnCapabilities, NEW w \in Workspaces, NEW c,
           c \in known[w] \/ Fresh(c)
    PROVE  \A v \in Workspaces \ {w} : c \notin known[v]
  BY DEF OwnCapabilities, Fresh

\* Neither the cache nor the file ever holds a lease that is opened by a
\* capability another workspace's client was given, even when writes fail and
\* the process dies at any moment.
THEOREM CapabilitiesStayPrivate == Spec => []PrivateCapability
<1>1. Init => PrivateInv
  <2> SUFFICES ASSUME Init PROVE OwnCapabilities /\ PrivateCapability /\ TypeOK
    BY DEF PrivateInv
  <2>1. TypeOK
    BY LeaseShapes DEF Init, TypeOK
  <2>2. OwnCapabilities /\ PrivateCapability
    BY DEF Init, OwnCapabilities, PrivateCapability
  <2>3. QED
    BY <2>1, <2>2
<1>2. PrivateInv /\ [Next]_vars => (OwnCapabilities /\ PrivateCapability)'
  <2> SUFFICES ASSUME PrivateInv, [Next]_vars
               PROVE  (OwnCapabilities /\ PrivateCapability)'
    OBVIOUS
  <2> USE DEF PrivateInv, OwnCapabilities, PrivateCapability, Cache, Persist, hostVars,
              storeVars
  <2>1. ASSUME NEW w \in Workspaces, NEW c \in Capabilities, Acquire(w, c)
        PROVE  (OwnCapabilities /\ PrivateCapability)'
    <3>1. \A v \in Workspaces \ {w} : c \notin known[v]
      BY <2>1, GrantedToOne DEF Acquire
    <3>2. known' = known \/ known' = [known EXCEPT ![w] = @ \cup {c}]
      BY <2>1 DEF Acquire
    <3>3. \A v \in Workspaces \ {w} : known'[v] = known[v]
      BY <3>2 DEF TypeOK
    <3>4. known'[w] \subseteq known[w] \cup {c}
      BY <3>2 DEF TypeOK
    <3>5. OwnCapabilities'
      BY <3>1, <3>3, <3>4
    <3>6. mem' = {<<w, c>>} /\ disk' = {<<w, c>>}
      BY <2>1 DEF Acquire
    <3>7. PrivateCapability'
      BY <3>1, <3>3, <3>6
    <3>8. QED
      BY <3>5, <3>7
  <2>2. ASSUME NEW w \in Workspaces, NEW c \in Capabilities, AcquireWriteFails(w, c)
        PROVE  (OwnCapabilities /\ PrivateCapability)'
    <3>1. \A v \in Workspaces \ {w} : c \notin known[v]
      BY <2>2, GrantedToOne DEF AcquireWriteFails
    <3>2. mem' = {<<w, c>>} /\ UNCHANGED <<disk, known>>
      BY <2>2 DEF AcquireWriteFails
    <3>3. QED
      BY <3>1, <3>2
  <2>3. ASSUME NEW w \in Workspaces, NEW c \in Capabilities, Reacquire(w, c)
        PROVE  (OwnCapabilities /\ PrivateCapability)'
    BY <2>3 DEF Reacquire, Current
  <2>4. ASSUME NEW w \in Workspaces, NEW c \in Capabilities,
               Release(w, c) \/ ReleaseWriteFails(w, c)
        PROVE  (OwnCapabilities /\ PrivateCapability)'
    BY <2>4 DEF Release, ReleaseWriteFails
  <2>5. CASE ReleaseFree \/ Consult
    BY <2>5 DEF ReleaseFree, Consult, Current
  <2>6. CASE Crash \/ HostReboot
    BY <2>6 DEF Crash, HostReboot
  <2>7. CASE ListContainers \/ ListingFails
    BY <2>7 DEF ListContainers, ListingFails
  <2>8. CASE ClearStale
    BY <2>8 DEF ClearStale
  <2>9. ASSUME NEW w \in Workspaces, StartContainer(w) \/ StopContainer(w)
        PROVE  (OwnCapabilities /\ PrivateCapability)'
    BY <2>9 DEF StartContainer, StopContainer
  <2>10. CASE UNCHANGED vars
    BY <2>10 DEF vars
  <2>11. QED
    BY <2>1, <2>2, <2>3, <2>4, <2>5, <2>6, <2>7, <2>8, <2>9, <2>10 DEF Next, Step, WriteFails
<1>3. PrivateInv => PrivateCapability
  BY DEF PrivateInv
<1>4. QED
  <2>1. Spec => [](OwnCapabilities /\ PrivateCapability)
    BY <1>1, <1>2, StoreTypeCorrect, PTL DEF Spec, PrivateInv
  <2>2. QED
    BY <2>1, PTL

----------------------------------------------------------------------------
(* Until a write fails: the cache is the file, so a restart loses nothing  *)
(* that was answered, and the two copies together are one atomic lease.    *)

\* The cache never says anything but what the file says.
CacheIsFile == loaded => mem = disk

DurableInv == TypeOK /\ (faulted \/ (CacheIsFile /\ DurableStore))

\* What a step without an error keeps.  An answer must come from the file and
\* not only from the cache, hence CacheIsFile.
LEMMA DurableStep ==
    ASSUME TypeOK, CacheIsFile, DurableStore, Step \/ UNCHANGED vars
    PROVE  (CacheIsFile /\ DurableStore)'
<1> USE DEF CacheIsFile, DurableStore, Current, Cache, Persist, Answer, NoAnswer, hostVars,
            storeVars
<1>1. ASSUME NEW w \in Workspaces, NEW c \in Capabilities, Acquire(w, c)
      PROVE  (CacheIsFile /\ DurableStore)'
  BY <1>1 DEF Acquire
<1>2. ASSUME NEW w \in Workspaces, NEW c \in Capabilities, Reacquire(w, c)
      PROVE  (CacheIsFile /\ DurableStore)'
  BY <1>2 DEF Reacquire
<1>3. ASSUME NEW w \in Workspaces, NEW c \in Capabilities, Release(w, c)
      PROVE  (CacheIsFile /\ DurableStore)'
  BY <1>3 DEF Release
<1>4. CASE ReleaseFree \/ Consult
  BY <1>4 DEF ReleaseFree, Consult
<1>5. CASE Crash \/ HostReboot
  BY <1>5 DEF Crash, HostReboot
<1>6. CASE ListContainers \/ ListingFails
  BY <1>6 DEF ListContainers, ListingFails
<1>7. CASE ClearStale
  BY <1>7 DEF ClearStale
<1>8. ASSUME NEW w \in Workspaces, StartContainer(w) \/ StopContainer(w)
      PROVE  (CacheIsFile /\ DurableStore)'
  BY <1>8 DEF StartContainer, StopContainer
<1>9. CASE UNCHANGED vars
  BY <1>9 DEF vars
<1>10. QED
  BY <1>1, <1>2, <1>3, <1>4, <1>5, <1>6, <1>7, <1>8, <1>9 DEF Step

\* The invariant behind the two theorems below.
LEMMA DurableInvariant == Spec => []DurableInv
<1>1. Init => faulted \/ (CacheIsFile /\ DurableStore)
  BY DEF Init, CacheIsFile, DurableStore
<1>2. TypeOK /\ (faulted \/ (CacheIsFile /\ DurableStore)) /\ [Next]_vars
      => (faulted \/ (CacheIsFile /\ DurableStore))'
  <2> SUFFICES ASSUME TypeOK, faulted \/ (CacheIsFile /\ DurableStore), [Next]_vars
               PROVE  (faulted \/ (CacheIsFile /\ DurableStore))'
    OBVIOUS
  <2>1. CASE faulted
    BY <2>1 DEF Next, vars, TypeOK
  <2>2. CASE ~faulted /\ ~WriteFails
    BY <2>2, DurableStep DEF Next
  <2>3. CASE WriteFails
    <3>1. faulted' = TRUE \/ Step \/ UNCHANGED vars
      BY DEF Next
    <3>2. QED
      BY <2>1, <3>1, DurableStep
  <2>4. QED
    BY <2>1, <2>2, <2>3
<1>3. QED
  BY <1>1, <1>2, StoreTypeCorrect, PTL DEF Spec, DurableInv

\* Until a write fails, the lease file always agrees with the last lease a
\* client was told of or with a request that went unanswered since.
THEOREM AnswersAreDurable == Spec => []DurableAnswers
<1>1. DurableInv => DurableAnswers
  BY DEF DurableInv, DurableAnswers
<1>2. QED
  BY <1>1, DurableInvariant, PTL

\* A step without an error is a step of the abstract lease, or leaves it alone.
LEMMA RefinementStep ==
    ASSUME TypeOK, CacheIsFile, Step
    PROVE  [Lease!LeaseNext]_Lease!leaseVars
<1> USE DEF CacheIsFile, Current, Cache, Persist, hostVars, storeVars, Lease!leaseVars
<1>1. ASSUME NEW w \in Workspaces, NEW c \in Capabilities, Acquire(w, c)
      PROVE  Lease!Grant(w, c) \/ Lease!GrantUnanswered(w, c)
  BY <1>1 DEF Acquire, Fresh, Lease!Grant, Lease!GrantUnanswered, Lease!FreshOrPresented
<1>2. ASSUME NEW w \in Workspaces, NEW c \in Capabilities, Reacquire(w, c)
      PROVE  UNCHANGED Lease!leaseVars
  BY <1>2 DEF Reacquire
<1>3. ASSUME NEW w \in Workspaces, NEW c \in Capabilities, Release(w, c)
      PROVE  Lease!Release(w, c)
  BY <1>3 DEF Release, Lease!Release, Lease!Authorized
<1>4. ASSUME ReleaseFree \/ Consult
      PROVE  UNCHANGED Lease!leaseVars
  BY <1>4 DEF ReleaseFree, Consult
<1>5. ASSUME Crash PROVE Lease!Crash
  BY <1>5 DEF Crash, Lease!Crash
<1>6. ASSUME HostReboot PROVE Lease!HostReboot
  BY <1>6 DEF HostReboot, Lease!HostReboot
<1>7. ASSUME ListContainers \/ ListingFails
      PROVE  Lease!ListContainers \/ Lease!ListingFails
  BY <1>7 DEF ListContainers, ListingFails, Lease!ListContainers, Lease!ListingFails
<1>8. ASSUME ClearStale PROVE Lease!ClearStale
  <2>1. Current = disk
    OBVIOUS
  <2>2. CASE {e[1] : e \in disk} \subseteq ps
    BY <1>8, <2>1, <2>2 DEF ClearStale, Lease!ClearStale, Lease!Holder
  <2>3. CASE ~({e[1] : e \in disk} \subseteq ps)
    BY <1>8, <2>1, <2>3 DEF ClearStale, Lease!ClearStale, Lease!Holder
  <2>4. QED
    BY <2>2, <2>3
<1>9. ASSUME NEW w \in Workspaces, StartContainer(w) \/ StopContainer(w)
      PROVE  Lease!StartContainer(w) \/ Lease!StopContainer(w)
  BY <1>9 DEF StartContainer, StopContainer, Lease!StartContainer, Lease!StopContainer
<1>10. QED
  BY <1>1, <1>2, <1>3, <1>4, <1>5, <1>6, <1>7, <1>8, <1>9 DEF Step, Lease!LeaseNext

\* Until a write fails, the cached copy and the file together behave as the
\* single atomic lease of GlobalLease, through every crash, reboot and boot.
THEOREM StoreImplementsGlobalLease == Spec => ImplementsGlobalLease
<1>1. Init => Lease!LeaseInit
  BY DEF Init, Current, Lease!LeaseInit
<1>2. DurableInv /\ [Next]_vars => [faulted' \/ Lease!LeaseNext]_Lease!leaseVars
  <2> SUFFICES ASSUME DurableInv, [Next]_vars
               PROVE  [faulted' \/ Lease!LeaseNext]_Lease!leaseVars
    OBVIOUS
  <2>1. CASE UNCHANGED vars
    BY <2>1 DEF vars, Current, Lease!leaseVars
  <2>2. CASE Step /\ UNCHANGED faulted
    <3>1. CASE faulted
      BY <2>2, <3>1
    <3>2. CASE ~faulted
      BY <2>2, <3>2, RefinementStep DEF DurableInv
    <3>3. QED
      BY <3>1, <3>2
  <2>3. CASE WriteFails /\ faulted' = TRUE
    BY <2>3
  <2>4. QED
    BY <2>1, <2>2, <2>3 DEF Next
<1>3. QED
  BY <1>1, <1>2, DurableInvariant, PTL DEF Spec, ImplementsGlobalLease

----------------------------------------------------------------------------
(* What a boot does to the lease of a container that outlived the service. *)

\* What a boot has listed includes every container that has been running all
\* along: `podman ps` may be out of date only about the others.  And nothing
\* loads the file before clear_stale does.
SteadyInv ==
    /\ steady \subseteq running
    /\ svc = "listed" => steady \subseteq ps
    /\ svc # "up" => ~loaded

\* Every step of the service and of the containers keeps it.
LEMMA SteadyStep == TypeOK /\ SteadyInv /\ [Next]_vars => SteadyInv'
<1> SUFFICES ASSUME TypeOK, SteadyInv, [Next]_vars PROVE SteadyInv'
  OBVIOUS
<1>1. CASE UNCHANGED vars
  BY <1>1 DEF SteadyInv, vars
<1>2. CASE Next
  <2>1. steady' \subseteq running'
    BY <1>2 DEF Next, SteadyInv
  <2>2. ASSUME svc = "up", svc' = "up" PROVE SteadyInv'
    BY <2>1, <2>2 DEF SteadyInv
  <2>3. ASSUME svc' = "down", loaded' = FALSE PROVE SteadyInv'
    BY <2>1, <2>3 DEF SteadyInv
  <2>4. ASSUME NEW w \in Workspaces, StartContainer(w) \/ StopContainer(w)
        PROVE  SteadyInv'
    <3>1. UNCHANGED <<svc, ps, loaded>>
      BY <2>4 DEF StartContainer, StopContainer, storeVars
    <3>2. svc = "listed" => steady' \subseteq steady
      BY <1>2, <3>1 DEF Next
    <3>3. QED
      BY <2>1, <3>1, <3>2 DEF SteadyInv
  <2>5. CASE ListContainers
    BY <1>2, <2>1, <2>5 DEF Next, SteadyInv, ListContainers, storeVars
  <2>6. CASE ListingFails \/ ClearStale
    BY <2>1, <2>6 DEF SteadyInv, ListingFails, ClearStale
  <2>7. CASE Crash \/ HostReboot
    BY <2>3, <2>7 DEF Crash, HostReboot
  <2>8. ASSUME NEW w \in Workspaces, NEW c \in Capabilities,
               \/ Acquire(w, c) \/ AcquireWriteFails(w, c) \/ Reacquire(w, c)
               \/ Release(w, c) \/ ReleaseWriteFails(w, c)
        PROVE  SteadyInv'
    <3>1. svc = "up" /\ svc' = "up"
      BY <2>8 DEF Acquire, AcquireWriteFails, Reacquire, Release, ReleaseWriteFails,
         hostVars
    <3>2. QED
      BY <2>2, <3>1
  <2>9. CASE ReleaseFree \/ Consult
    BY <2>2, <2>9 DEF ReleaseFree, Consult, hostVars
  <2>10. QED
    BY <1>2, <2>4, <2>5, <2>6, <2>7, <2>8, <2>9 DEF Next, Step, WriteFails
<1>3. QED
  BY <1>1, <1>2

\* A boot never takes the lease from a workspace whose container has been
\* running ever since the service died, whatever writes failed before.
THEOREM BootKeepsSteadyHolder == Spec => SteadyHolderSurvives
<1>1. Init => SteadyInv
  BY DEF Init, SteadyInv
<1>2. TypeOK /\ SteadyInv /\ [Next]_vars =>
      [\A e \in Current : svc # "up" /\ e[1] \in steady /\ e[1] \in running'
          => e \in Current']_vars
  <2> SUFFICES ASSUME TypeOK, SteadyInv, Next,
                      NEW e \in Current, svc # "up", e[1] \in steady
               PROVE  e \in Current'
    OBVIOUS
  <2>1. e \in disk /\ ~loaded
    BY DEF SteadyInv, Current
  <2>2. CASE ClearStale
    <3>1. PICK w \in Workspaces, c \in Capabilities : disk = {<<w, c>>}
      BY <2>1 DEF TypeOK, Leases
    <3>2. {d[1] : d \in disk} = {e[1]}
      BY <2>1, <3>1
    <3>3. e[1] \in ps
      BY <2>2 DEF ClearStale, SteadyInv
    <3>4. QED
      BY <2>1, <2>2, <3>2, <3>3 DEF ClearStale, Cache, Current
  <2>3. CASE Crash \/ HostReboot
    BY <2>1, <2>3 DEF Crash, HostReboot, Current
  <2>4. CASE ListContainers \/ ListingFails
    BY <2>1, <2>4 DEF ListContainers, ListingFails, storeVars, Current
  <2>5. ASSUME NEW w \in Workspaces, StartContainer(w) \/ StopContainer(w)
        PROVE  e \in Current'
    BY <2>1, <2>5 DEF StartContainer, StopContainer, storeVars, Current
  <2>6. ~ReleaseFree /\ ~Consult
    BY DEF ReleaseFree, Consult
  <2>7. \A w \in Workspaces, c \in Capabilities :
           /\ ~Acquire(w, c) /\ ~AcquireWriteFails(w, c) /\ ~Reacquire(w, c)
           /\ ~Release(w, c) /\ ~ReleaseWriteFails(w, c)
    BY DEF Acquire, AcquireWriteFails, Reacquire, Release, ReleaseWriteFails
  <2>8. QED
    BY <2>2, <2>3, <2>4, <2>5, <2>6, <2>7 DEF Next, Step, WriteFails
<1>3. QED
  BY <1>1, <1>2, SteadyStep, StoreTypeCorrect, PTL DEF Spec, SteadyHolderSurvives
=============================================================================
