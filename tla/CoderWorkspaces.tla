-------------------------- MODULE CoderWorkspaces --------------------------
(***************************************************************************)
(* The helper together with its clients.  There is one client per          *)
(* workspace, the Terraform provider of the template repository.  It is    *)
(* not under src/: it is modelled from what the design document and the    *)
(* plan require of it (acquire, provision and attach, start the container; *)
(* stop it, detach, release; DELETE; never release before detach or delete *)
(* has succeeded; retry what failed).                                      *)
(*                                                                         *)
(* The constants choose which faults happen, so that each run can show     *)
(* which promise depends on which fault not happening.                     *)
(***************************************************************************)
EXTENDS CoderHelper

CONSTANTS
    Crashes,        \* the service crashes and the host reboots
    ClientTimeouts, \* a client stops waiting for an answer and goes on
    LostAnswers,    \* the answer to an acquire gets lost
    MaxFaults       \* bounds failed calls, crashes and reboots

ASSUME FaultsAssumption ==
    /\ Crashes \in BOOLEAN
    /\ ClientTimeouts \in BOOLEAN
    /\ LostAnswers \in BOOLEAN
    /\ MaxFaults \in Nat

VARIABLES
    client,     \* workspace -> what its client is doing
    awaits,     \* workspace -> the request it waits for (at most one)
    faults      \* how many of the bounded faults have happened

clientVars == <<client, awaits, faults>>
allVars == <<vars, client, awaits, faults>>

----------------------------------------------------------------------------
\* "held" has the lease; "ready" has the file system mounted; "active" has
\* its container; "unmounted" may release; "condemned" must be deleted.
Phases == {"off", "held", "starting", "ready", "active", "stopping",
           "unmounted", "deleting", "condemned"}

WorkspacesTypeOK ==
    /\ TypeOK
    /\ client \in [Workspaces -> Phases]
    /\ awaits \in [Workspaces -> SUBSET Threads]
    /\ \A w \in Workspaces : (awaits[w] # {}) <=> (client[w] \in {"starting", "stopping", "deleting"})
    /\ faults \in 0..MaxFaults

WorkspacesInit ==
    /\ Init
    /\ client = [w \in Workspaces |-> "off"]
    /\ awaits = [w \in Workspaces |-> {}]
    /\ faults = 0

Become(w, phase) == client' = [client EXCEPT ![w] = phase]

HasLease(w) == w \in Holder

CountFault == faults < MaxFaults /\ faults' = faults + 1

----------------------------------------------------------------------------
(* The client's lease requests.                                            *)

ClientAcquire(w, c) ==
    /\ client[w] \in {"off", "condemned"}
    /\ Grant(w, c)
    /\ IF client[w] = "off" THEN Become(w, "held") ELSE UNCHANGED client
    /\ UNCHANGED <<threadVars, storageVars, awaits, faults>>

ClientAcquireLost(w, c) ==
    /\ LostAnswers
    /\ client[w] \in {"off", "condemned"}
    /\ GrantUnanswered(w, c)
    /\ CountFault
    /\ UNCHANGED <<threadVars, storageVars, client, awaits>>

\* The lease is released only after a detach succeeded.
ClientRelease(w, c) ==
    /\ client[w] = "unmounted"
    /\ Release(w, c)
    /\ Become(w, "off")
    /\ UNCHANGED <<threadVars, storageVars, awaits, faults>>

\* A request, or a release, without the lease is refused (403, or 200 for the
\* release of a free lease): the client has to acquire again.
ClientRefused(w) ==
    /\ svc = "up"
    /\ client[w] \in {"held", "ready", "unmounted"}
    /\ ~HasLease(w)
    /\ Become(w, "off")
    /\ UNCHANGED <<vars, awaits, faults>>

----------------------------------------------------------------------------
(* The client's lifecycle requests and their answers.                      *)

Asks(w, op) ==
    CASE op \in {"provision", "attach"} -> client[w] = "held" /\ Become(w, "starting")
      [] op = "detach" -> client[w] \in {"held", "ready"} /\ Become(w, "stopping")
      [] op = "destroy" -> /\ client[w] \in {"held", "ready", "unmounted", "condemned"}
                           /\ Become(w, "deleting")

ClientSend(t, op, w, c) ==
    /\ awaits[w] = {}
    /\ Arrive(t, op, w, c)
    /\ Asks(w, op)
    /\ awaits' = [awaits EXCEPT ![w] = {t}]
    /\ UNCHANGED faults

AfterAnswer(phase, ok) ==
    CASE phase = "starting" -> IF ok THEN "ready" ELSE "held"
      [] phase = "stopping" -> IF ok THEN "unmounted" ELSE "held"
      [] phase = "deleting" -> IF ok THEN "off" ELSE "condemned"
      [] OTHER -> phase

Reply(t) ==
    /\ Answer(t)
    /\ LET w == W(t)
       IN  IF t \in awaits[w]
             THEN /\ Become(w, AfterAnswer(client[w], pc[t] = "ok"))
                  /\ awaits' = [awaits EXCEPT ![w] = {}]
             ELSE UNCHANGED <<client, awaits>>
    /\ UNCHANGED faults

\* The client counts the request as failed while the helper still works on it.
GiveUp(w) ==
    /\ ClientTimeouts
    /\ awaits[w] # {}
    /\ Become(w, AfterAnswer(client[w], FALSE))
    /\ awaits' = [awaits EXCEPT ![w] = {}]
    /\ CountFault
    /\ UNCHANGED vars

----------------------------------------------------------------------------
(* The Docker provider and the container's user.                           *)

ClientStartsContainer(w) ==
    /\ client[w] = "ready"
    /\ StartContainer(w)
    /\ Become(w, "active")
    /\ UNCHANGED <<threadVars, storageVars, awaits, faults>>

ClientStopsContainer(w) ==
    /\ client[w] = "active"
    /\ StopContainer(w)
    /\ Become(w, "ready")
    /\ UNCHANGED <<threadVars, storageVars, awaits, faults>>

UserWrites(w) == WriteFiles(w) /\ UNCHANGED clientVars

----------------------------------------------------------------------------
(* The helper's own steps.                                                 *)

HelperWorks(t) ==
    /\ \/ Enter(t)
       \/ ProvisionStep(t)
       \/ MountStep(t)
       \/ DetachStep(t)
       \/ DestroyStep(t)
       \/ ReleaseAfterDestroy(t)
    /\ UNCHANGED clientVars

\* Calls that fail by themselves, without any fault.
CannotSucceed(t) ==
    \/ pc[t] = "login" /\ "target" \notin nas[W(t)]
    \/ pc[t] = "device" /\ "assoc" \notin nas[W(t)]
    \/ pc[t] = "blkid" /\ fs[W(t)] = "other"
    \/ pc[t] = "mount" /\ (W(t) \in mounted \/ fs[W(t)] \notin {"ext4", "data"})

HelperRefuses(t) ==
    /\ CannotSucceed(t)
    /\ Fail(t)
    /\ UNCHANGED clientVars

\* Any other call may fail too.
HelperFails(t) ==
    /\ ~CannotSucceed(t)
    /\ Fail(t)
    /\ CountFault
    /\ UNCHANGED <<client, awaits>>

\* Every outstanding request fails with the process.
DropRequests ==
    /\ client' = [w \in Workspaces |->
                     IF awaits[w] # {} THEN AfterAnswer(client[w], FALSE) ELSE client[w]]
    /\ awaits' = [w \in Workspaces |-> {}]

ServiceCrash ==
    /\ Crashes
    /\ CountFault
    /\ HelperCrash
    /\ DropRequests

\* A reboot also stops the containers and drops the mounts.
Reboot ==
    /\ Crashes
    /\ CountFault
    /\ MachineReboot
    /\ awaits' = [w \in Workspaces |-> {}]
    /\ client' = [w \in Workspaces |->
                     IF client[w] \in {"ready", "active"} THEN "held"
                     ELSE IF awaits[w] # {} THEN AfterAnswer(client[w], FALSE)
                     ELSE client[w]]

ServiceBoots == Boot /\ UNCHANGED clientVars

----------------------------------------------------------------------------
WorkspacesNext ==
    \/ \E w \in Workspaces, c \in Capabilities :
          \/ ClientAcquire(w, c)
          \/ ClientAcquireLost(w, c)
          \/ ClientRelease(w, c)
          \/ \E t \in Threads, op \in Operations : ClientSend(t, op, w, c)
    \/ \E w \in Workspaces :
          \/ ClientRefused(w)
          \/ GiveUp(w)
          \/ ClientStartsContainer(w)
          \/ ClientStopsContainer(w)
          \/ UserWrites(w)
    \/ \E t \in Threads : Reply(t) \/ HelperWorks(t) \/ HelperRefuses(t) \/ HelperFails(t)
    \/ ServiceCrash
    \/ Reboot
    \/ ServiceBoots

WorkspacesSpec == WorkspacesInit /\ [][WorkspacesNext]_allVars

\* The handlers run on, systemd boots the service again, and a client that
\* was asked to delete its workspace keeps asking until it is told that the
\* workspace is gone.  Faults are bounded by MaxFaults, hence end.
WorkspacesFairSpec ==
    /\ WorkspacesSpec
    /\ \A t \in Threads : WF_allVars(Reply(t) \/ HelperWorks(t) \/ HelperRefuses(t))
    /\ WF_allVars(ServiceBoots)
    /\ \A w \in Workspaces :
          WF_allVars(\E c \in Capabilities :
                        \/ client[w] = "condemned" /\ ClientAcquire(w, c)
                        \/ \E t \in Threads :
                              client[w] = "condemned" /\ ClientSend(t, "destroy", w, c))

----------------------------------------------------------------------------
\* "Exactly one active workspace is allowed; a durable atomic helper lease
\* ... enforces this" (plan): no two workspaces have their file systems
\* mounted on llm01 at the same time.
AtMostOneMounted == \A v, w \in mounted : v = w

\* A running container has its workspace's file system mounted, and the lease
\* that keeps every other workspace out is its own.
ContainerHoldsLease == \A w \in running : w \in mounted /\ HasLease(w)

\* When a client is told that its workspace is deleted, nothing of it is left:
\* no TrueNAS object, no session, no mount; and the lease is free for others
\* or already taken by one (_dispatch 734-738).
DeletedIsGone ==
    [][\A w \in Workspaces :
          client[w] = "deleting" /\ client'[w] = "off" =>
             /\ nas[w] = {}
             /\ w \notin session \cup mounted \cup Holder]_allVars

\* The lease of a workspace that is mounted goes nowhere but in the boot of the
\* service, and there only when no container of the workspace was listed: no
\* answer of a client and no late DELETE takes it (release 180-192, clear_stale 194-208).
LeaseOutlivesMount ==
    [][\A w \in mounted :
          HasLease(w) => HasLease(w)' \/ (svc = "listed" /\ w \notin ps)]_allVars

\* A DELETE that failed half-way, at whatever call, or died with the process,
\* is completed by repeating it.
DeleteConverges ==
    \A w \in Workspaces : client[w] = "condemned" ~> client[w] = "off"
=============================================================================
