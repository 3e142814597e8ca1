---------------------------- MODULE CoderHelper ----------------------------
(***************************************************************************)
(* The request handlers of helper.py (_dispatch, WorkspaceManager,         *)
(* _BoundWorkspace) over the TrueNAS objects, the iSCSI sessions, the file *)
(* systems and the mounts they manage.                                     *)
(*                                                                         *)
(* ThreadingHTTPServer runs each request in a thread of its own.  A thread *)
(* authorizes its request against the lease, then waits for the operation  *)
(* lock, then runs its operation one external call (a TrueNAS request or a *)
(* command) at a time, so pc[t] names the call that comes next and what    *)
(* the earlier calls found is only what led there.  Any call may fail: the *)
(* lock is released on the way out and the request fails.  A call that     *)
(* took effect and then failed is a call that succeeded followed by a      *)
(* failure at the next pc.  Nothing but the helper changes the objects it  *)
(* manages.                                                                *)
(***************************************************************************)
EXTENDS GlobalLease

CONSTANTS
    Threads,        \* requests in flight at a time
    Unidentified,   \* contents on which blkid may exit nonzero
    MountpointErrs  \* mountpoint -q may exit nonzero although it is one

\* What a zvol holds: nothing, an ext4 file system, one with a user's files
\* in it, or something that is not ext4.
Contents == {"blank", "ext4", "data", "other"}

ASSUME UnidentifiedAssumption ==
    "blank" \in Unidentified /\ Unidentified \subseteq Contents

ASSUME MountpointAssumption == MountpointErrs \in BOOLEAN

VARIABLES
    pc,         \* thread -> where its handler is
    req,        \* thread -> the request it serves, <<>> when idle
    opLock,     \* WorkspaceManager._op_lock: the threads (one at most) in it
    nas,        \* workspace -> the TrueNAS objects that exist under its name
    fs,         \* workspace -> what its zvol holds ("blank" without a zvol)
    session,    \* workspaces whose target is logged in
    mounted     \* workspaces whose file system is mounted

threadVars == <<pc, req, opLock>>
storageVars == <<nas, fs, session, mounted>>
vars == <<lease, known, svc, ps, running, pc, req, opLock, nas, fs, session,
          mounted>>

----------------------------------------------------------------------------
Objects == {"zvol", "target", "extent", "assoc"}

Operations == {"provision", "attach", "detach", "destroy"}

\* `targets` is what destroy found when it listed the targets.
Requests == [op : Operations, ws : Workspaces, cap : Capabilities,
             targets : SUBSET {"target"}]

\* The external calls, all made with the operation lock held.
ProvisionCalls == {"dataset", "create_zvol", "targets", "create_target",
                   "extents", "create_extent", "assocs", "create_assoc"}
MountCalls == {"login", "device", "blkid", "format", "mountpoint", "mount",
               "chown"}
DetachCalls == {"was_mounted", "umount", "logout"}
DestroyCalls == {"d_targets", "d_assocs", "del_assoc", "d_extents",
                 "del_extent", "del_target", "d_dataset", "del_zvol"}
Calls == ProvisionCalls \cup MountCalls \cup DetachCalls \cup DestroyCalls

TypeOK ==
    /\ LeaseTypeOK
    /\ pc \in [Threads -> Calls \cup {"idle", "wait", "release", "ok", "failed"}]
    /\ \A t \in Threads : IF pc[t] = "idle" THEN req[t] = <<>> ELSE req[t] \in Requests
    /\ DOMAIN req = Threads
    /\ opLock \subseteq Threads
    /\ nas \in [Workspaces -> SUBSET Objects]
    /\ fs \in [Workspaces -> Contents]
    /\ session \subseteq Workspaces
    /\ mounted \subseteq Workspaces

\* A zvol of the workspace's name may already exist on the pool.
Init ==
    /\ LeaseInit
    /\ pc = [t \in Threads |-> "idle"]
    /\ req = [t \in Threads |-> <<>>]
    /\ opLock = {}
    /\ nas \in [Workspaces -> {{}, {"zvol"}}]
    /\ fs \in [Workspaces -> Contents]
    /\ \A w \in Workspaces : nas[w] = {} => fs[w] = "blank"
    /\ session = {}
    /\ mounted = {}

----------------------------------------------------------------------------
W(t) == req[t].ws
Op(t) == req[t].op

Goto(t, call) == pc' = [pc EXCEPT ![t] = call]

\* The step leaves the operation lock behind.
Leave(t, next) == Goto(t, next) /\ opLock' = opLock \ {t}

\* A call that only reads: it decides where the thread goes.
Read(t, call, next) ==
    /\ pc[t] = call
    /\ Goto(t, next)
    /\ UNCHANGED <<leaseVars, req, opLock, storageVars>>

\* A TrueNAS call that creates or deletes one object of the workspace.
CreateObject(t, call, obj, next) ==
    /\ pc[t] = call
    /\ obj \notin nas[W(t)]
    /\ nas' = [nas EXCEPT ![W(t)] = @ \cup {obj}]
    /\ Goto(t, next)
    /\ UNCHANGED <<leaseVars, req, opLock, session, mounted>>

DeleteObject(t, call, obj, next) ==
    /\ pc[t] = call
    /\ obj \in nas[W(t)]
    /\ nas' = [nas EXCEPT ![W(t)] = @ \ {obj}]
    /\ Goto(t, next)
    /\ UNCHANGED <<leaseVars, req, opLock, fs, session, mounted>>

----------------------------------------------------------------------------
(* _dispatch                                                               *)

\* The request is authorized before the operation lock is asked for.
Arrive(t, op, w, c) ==
    /\ svc = "up"
    /\ pc[t] = "idle"
    /\ c \in known[w]
    /\ Authorized(w, c)
    /\ Goto(t, "wait")
    /\ req' = [req EXCEPT ![t] = [op |-> op, ws |-> w, cap |-> c, targets |-> {}]]
    /\ UNCHANGED <<leaseVars, opLock, storageVars>>

MutFirstCall(op) ==
    CASE op = "provision" -> "dataset"
      [] op = "attach" -> "login"
      [] op = "detach" -> "was_mounted"
      [] op = "destroy" -> "d_targets"

FirstCall(op) ==
    CASE op = "provision" -> "dataset"
      [] op = "attach" -> "login"
      [] op \in {"detach", "destroy"} -> "was_mounted"

MutEnter(t) ==
    /\ pc[t] = "wait"
    /\ opLock' = opLock \cup {t}
    /\ Goto(t, FirstCall(Op(t)))
    /\ UNCHANGED <<leaseVars, req, storageVars>>

\* with self._op_lock
Enter(t) ==
    /\ pc[t] = "wait"
    /\ opLock = {}
    /\ opLock' = {t}
    /\ Goto(t, FirstCall(Op(t)))
    /\ UNCHANGED <<leaseVars, req, storageVars>>

\* A call raises (an error, a timeout): the lock is released, the request
\* fails, and what the operation did so far stays done.
Fail(t) ==
    /\ pc[t] \in Calls
    /\ Leave(t, "failed")
    /\ UNCHANGED <<leaseVars, req, storageVars>>

MutReleaseAfterDestroy(t) ==
    /\ pc[t] = "release"
    /\ lease' = {}
    /\ Goto(t, "ok")
    /\ UNCHANGED <<known, svc, ps, running, req, opLock, storageVars>>

\* After destroy the handler releases the lease with the request's capability;
\* release returns on a free lease and raises on another holder's.
ReleaseAfterDestroy(t) ==
    /\ pc[t] = "release"
    /\ lease' = IF Authorized(W(t), req[t].cap) THEN {} ELSE lease
    /\ Goto(t, IF lease' = {} THEN "ok" ELSE "failed")
    /\ UNCHANGED <<known, svc, ps, running, req, opLock, storageVars>>

MutAnswer(t) ==
    /\ pc[t] \in {"ok", "failed"}
    /\ Goto(t, "idle")
    /\ UNCHANGED <<leaseVars, req, opLock, storageVars>>

\* The answer, or the closed connection, reaches the client.
Answer(t) ==
    /\ pc[t] \in {"ok", "failed"}
    /\ Goto(t, "idle")
    /\ req' = [req EXCEPT ![t] = <<>>]
    /\ UNCHANGED <<leaseVars, opLock, storageVars>>

----------------------------------------------------------------------------
(* provision: _reconcile_truenas, then the calls it shares with attach.    *)

ListDataset(t) ==
    Read(t, "dataset", IF "zvol" \in nas[W(t)] THEN "targets" ELSE "create_zvol")

CreateZvol(t) ==
    /\ CreateObject(t, "create_zvol", "zvol", "targets")
    /\ fs' = [fs EXCEPT ![W(t)] = "blank"]

ListTargets(t) ==
    Read(t, "targets", IF "target" \in nas[W(t)] THEN "extents" ELSE "create_target")

CreateTarget(t) ==
    CreateObject(t, "create_target", "target", "extents") /\ UNCHANGED fs

ListExtents(t) ==
    Read(t, "extents", IF "extent" \in nas[W(t)] THEN "assocs" ELSE "create_extent")

CreateExtent(t) ==
    CreateObject(t, "create_extent", "extent", "assocs") /\ UNCHANGED fs

ListAssociations(t) ==
    Read(t, "assocs", IF "assoc" \in nas[W(t)] THEN "login" ELSE "create_assoc")

CreateAssociation(t) ==
    CreateObject(t, "create_assoc", "assoc", "login") /\ UNCHANGED fs

\* discovery and login; "already present" counts as logged in.
Login(t) ==
    /\ pc[t] = "login"
    /\ "target" \in nas[W(t)]
    /\ session' = session \cup {W(t)}
    /\ Goto(t, "device")
    /\ UNCHANGED <<leaseVars, req, opLock, nas, fs, mounted>>

\* device_path: the device of LUN 0 appears, or the wait times out (Fail).
DeviceAppears(t) ==
    /\ Read(t, "device", "blkid")
    /\ W(t) \in session
    /\ "assoc" \in nas[W(t)]

\* filesystem_type is None whenever blkid exits nonzero, be it that there is
\* nothing to find or that the device could not be read: provision formats,
\* attach tries to mount.
BlkidFindsNothing(t) ==
    /\ Read(t, "blkid", IF Op(t) = "provision" THEN "format" ELSE "mountpoint")
    /\ fs[W(t)] \in Unidentified

\* A type that is not ext4 raises (Fail).
BlkidFindsExt4(t) ==
    /\ Read(t, "blkid", "mountpoint")
    /\ fs[W(t)] \in {"ext4", "data"}

\* mkfs.ext4 -F, which still refuses a mounted device.
Format(t) ==
    /\ pc[t] = "format"
    /\ W(t) \notin mounted
    /\ fs' = [fs EXCEPT ![W(t)] = "ext4"]
    /\ Goto(t, "mountpoint")
    /\ UNCHANGED <<leaseVars, req, opLock, nas, session, mounted>>

\* is_mounted is False whenever mountpoint exits nonzero, an error included.
SeemsUnmounted(w) == MountpointErrs \/ w \notin mounted

MutIsMounted(t) == Read(t, "mountpoint", "chown")

IsMounted(t) ==
    \/ Read(t, "mountpoint", "chown") /\ W(t) \in mounted
    \/ Read(t, "mountpoint", "mount") /\ SeemsUnmounted(W(t))

\* mount refuses a device that is already mounted there (Fail).
Mount(t) ==
    /\ pc[t] = "mount"
    /\ W(t) \notin mounted
    /\ fs[W(t)] \in {"ext4", "data"}
    /\ mounted' = mounted \cup {W(t)}
    /\ Goto(t, "chown")
    /\ UNCHANGED <<leaseVars, req, opLock, nas, fs, session>>

\* chown_in_namespace, the last call of provision and attach.
Chown(t) ==
    /\ pc[t] = "chown"
    /\ Leave(t, "ok")
    /\ UNCHANGED <<leaseVars, req, storageVars>>

----------------------------------------------------------------------------
(* detach, which destroy calls with the lock it already holds.             *)

WasMounted(t) ==
    \/ Read(t, "was_mounted", "umount") /\ W(t) \in mounted
    \/ Read(t, "was_mounted", "logout") /\ SeemsUnmounted(W(t))

\* umount; a busy mount makes it fail (Fail).
Unmount(t) ==
    /\ pc[t] = "umount"
    /\ mounted' = mounted \ {W(t)}
    /\ Goto(t, "logout")
    /\ UNCHANGED <<leaseVars, req, opLock, nas, fs, session>>

MutLogout(t) ==
    /\ pc[t] = "logout"
    /\ session' = session \ {W(t)}
    /\ CASE W(t) \notin session -> Leave(t, "failed")
         [] W(t) \in session /\ Op(t) = "destroy" -> Goto(t, "d_targets") /\ UNCHANGED opLock
         [] OTHER -> Leave(t, "ok")
    /\ UNCHANGED <<leaseVars, req, nas, fs, mounted>>

\* logout; "No matching sessions" counts as logged out.
Logout(t) ==
    /\ pc[t] = "logout"
    /\ session' = session \ {W(t)}
    /\ IF Op(t) = "destroy"
         THEN Goto(t, "d_targets") /\ UNCHANGED opLock
         ELSE Leave(t, "ok")
    /\ UNCHANGED <<leaseVars, req, nas, fs, mounted>>

----------------------------------------------------------------------------
(* destroy, after its detach.                                              *)

DestroyListTargets(t) ==
    LET found == nas[W(t)] \cap {"target"}
    IN  /\ pc[t] = "d_targets"
        /\ req' = [req EXCEPT ![t].targets = found]
        /\ Goto(t, IF found # {} THEN "d_assocs" ELSE "d_extents")
        /\ UNCHANGED <<leaseVars, opLock, storageVars>>

DestroyListAssociations(t) ==
    Read(t, "d_assocs", IF "assoc" \in nas[W(t)] THEN "del_assoc" ELSE "d_extents")

DeleteAssociation(t) == DeleteObject(t, "del_assoc", "assoc", "d_extents")

MutAfterExtents(t) == "d_dataset"

AfterExtents(t) == IF req[t].targets # {} THEN "del_target" ELSE "d_dataset"

DestroyListExtents(t) ==
    Read(t, "d_extents", IF "extent" \in nas[W(t)] THEN "del_extent" ELSE AfterExtents(t))

DeleteExtent(t) == DeleteObject(t, "del_extent", "extent", AfterExtents(t))

DeleteTarget(t) == DeleteObject(t, "del_target", "target", "d_dataset")

DestroyListDataset(t) ==
    /\ pc[t] = "d_dataset"
    /\ IF "zvol" \in nas[W(t)]
         THEN Goto(t, "del_zvol") /\ UNCHANGED opLock
         ELSE Leave(t, "release")
    /\ UNCHANGED <<leaseVars, req, storageVars>>

DeleteZvol(t) ==
    /\ pc[t] = "del_zvol"
    /\ "zvol" \in nas[W(t)]
    /\ nas' = [nas EXCEPT ![W(t)] = @ \ {"zvol"}]
    /\ fs' = [fs EXCEPT ![W(t)] = "blank"]
    /\ Leave(t, "release")
    /\ UNCHANGED <<leaseVars, req, session, mounted>>

----------------------------------------------------------------------------
(* The lease requests and the boot, from GlobalLease; the host.            *)

LeaseRequest(w, c) ==
    /\ \/ Grant(w, c)
       \/ GrantUnanswered(w, c)
       \/ Release(w, c)
    /\ UNCHANGED <<threadVars, storageVars>>

\* The handlers and the lock they held die with the process.
DropThreads ==
    /\ pc' = [t \in Threads |-> "idle"]
    /\ req' = [t \in Threads |-> <<>>]
    /\ opLock' = {}

HelperCrash == Crash /\ DropThreads /\ UNCHANGED storageVars

\* Sessions and mounts do not survive a reboot.
MachineReboot ==
    /\ HostReboot
    /\ DropThreads
    /\ session' = {}
    /\ mounted' = {}
    /\ UNCHANGED <<nas, fs>>

Boot ==
    /\ \/ ListContainers
       \/ ListingFails
       \/ ClearStale
    /\ UNCHANGED <<threadVars, storageVars>>

Container(w) ==
    /\ StartContainer(w) \/ StopContainer(w)
    /\ UNCHANGED <<threadVars, storageVars>>

\* A container's user writes into the mounted file system.
WriteFiles(w) ==
    /\ w \in running \cap mounted
    /\ fs' = [fs EXCEPT ![w] = "data"]
    /\ UNCHANGED <<leaseVars, threadVars, nas, session, mounted>>

----------------------------------------------------------------------------
ProvisionStep(t) ==
    \/ ListDataset(t) \/ CreateZvol(t)
    \/ ListTargets(t) \/ CreateTarget(t)
    \/ ListExtents(t) \/ CreateExtent(t)
    \/ ListAssociations(t) \/ CreateAssociation(t)

MountStep(t) ==
    \/ Login(t) \/ DeviceAppears(t)
    \/ BlkidFindsNothing(t) \/ BlkidFindsExt4(t) \/ Format(t)
    \/ IsMounted(t) \/ Mount(t) \/ Chown(t)

DetachStep(t) == WasMounted(t) \/ Unmount(t) \/ Logout(t)

DestroyStep(t) ==
    \/ DestroyListTargets(t)
    \/ DestroyListAssociations(t) \/ DeleteAssociation(t)
    \/ DestroyListExtents(t) \/ DeleteExtent(t) \/ DeleteTarget(t)
    \/ DestroyListDataset(t) \/ DeleteZvol(t)

\* A step of a handler that has been admitted.
HandlerStep(t) ==
    \/ ProvisionStep(t)
    \/ MountStep(t)
    \/ DetachStep(t)
    \/ DestroyStep(t)
    \/ Fail(t)
    \/ ReleaseAfterDestroy(t)
    \/ Answer(t)

Environment ==
    \/ HelperCrash
    \/ MachineReboot
    \/ Boot
    \/ \E w \in Workspaces : Container(w) \/ WriteFiles(w)

Next ==
    \/ \E t \in Threads, op \in Operations, w \in Workspaces, c \in Capabilities :
          Arrive(t, op, w, c)
    \/ \E t \in Threads : Enter(t) \/ HandlerStep(t)
    \/ \E w \in Workspaces, c \in Capabilities : LeaseRequest(w, c)
    \/ Environment

Spec == Init /\ [][Next]_vars

----------------------------------------------------------------------------
Stages ==
    {{}, {"zvol"}, {"zvol", "target"}, {"zvol", "target", "extent"}, Objects}

\* Whatever call failed, whenever the process died and however requests were
\* retried, the TrueNAS objects of a workspace are an initial segment of the
\* order in which provision creates them: never a target, extent or
\* association left over without the zvol, so a retry of either operation
\* finds everything it must finish (_reconcile_truenas and destroy).
NoOrphans == \A w \in Workspaces : nas[w] \in Stages

\* A mounted workspace is always fully there: its session is logged in and all
\* of its TrueNAS objects exist, so no destroy pulls a zvol or a target from
\* under a mount, whatever requests ran before or are waiting.
MountedIsBacked ==
    \A w \in mounted :
        w \in session /\ nas[w] = Objects /\ fs[w] \in {"ext4", "data"}

\* A user's files, or a file system that is not ours, disappear only with the
\* zvol that a DELETE of that workspace removes, once it is unmounted and
\* logged out: no retry, no race and no crash makes provision format again
\* (provision 530-547, filesystem_type 395-399).
OnlyDeleteLosesData ==
    [][\A w \in Workspaces :
          fs[w] \in {"data", "other"} /\ fs'[w] # fs[w] =>
             \E t \in Threads :
                /\ pc[t] = "del_zvol" /\ Op(t) = "destroy" /\ W(t) = w
                /\ w \notin mounted \cup session]_vars

\* The handlers keep the promises of the abstract lease: the release that ends
\* a DELETE, minutes after the request was authorized, frees the lease only if
\* the capability of that request still opens it (_dispatch 734-738).
ImplementsGlobalLease == LeaseSpec
=============================================================================
