-------------------------- MODULE CapabilityStore --------------------------
(***************************************************************************)
(* CapabilityStore of helper.py: the global lease as the code keeps it, a  *)
(* cached dictionary (_state, None until loaded) and the file lease.json.  *)
(* Every public method runs under one RLock, so a method is one step; what *)
(* can still come between its parts is a failing write and the death of    *)
(* the process.  acquire, release and clear_stale assign the cache before  *)
(* they call _persist, so a failing write leaves the cache ahead of the    *)
(* file, and the exception ends the request without an answer.             *)
(*                                                                         *)
(* _persist writes a temporary file, fsyncs it and renames it: the file    *)
(* holds the old lease or the new one.  A rename that returned is taken to *)
(* survive a reboot.                                                       *)
(*                                                                         *)
(* Four variables are history: `acked`, the lease that the last successful *)
(* answer told a client of; `unacked`, the leases that requests without an *)
(* answer may have left since; `faulted`, whether a write ever failed; and *)
(* `steady`, the containers running ever since the service last died.      *)
(***************************************************************************)
EXTENDS Integers

CONSTANTS
    Workspaces,     \* the workspace names that clients use
    Capabilities    \* opaque tokens; bounds how many are ever handed out

VARIABLES
    loaded,     \* _state is not None
    mem,        \* _state, {} while not loaded
    disk,       \* lease.json, {} when it is missing
    acked, unacked, faulted, steady,
    known, svc, ps, running     \* as in GlobalLease

storeVars == <<loaded, mem, disk, acked, unacked>>
hostVars == <<svc, ps, running>>
vars == <<loaded, mem, disk, acked, unacked, faulted, steady, known, svc, ps,
          running>>

----------------------------------------------------------------------------
Leases == {{}} \cup {{<<w, c>>} : w \in Workspaces, c \in Capabilities}

\* _load: what a method sees, from the cache or, the first time, the file.
Current == IF loaded THEN mem ELSE disk

TypeOK ==
    /\ loaded \in BOOLEAN
    /\ mem \in Leases
    /\ disk \in Leases
    /\ acked \in Leases
    /\ unacked \in SUBSET Leases
    /\ faulted \in BOOLEAN
    /\ steady \subseteq Workspaces
    /\ known \in [Workspaces -> SUBSET Capabilities]
    /\ svc \in {"down", "listed", "up"}
    /\ ps \subseteq Workspaces
    /\ running \subseteq Workspaces

Init ==
    /\ loaded = FALSE
    /\ mem = {}
    /\ disk = {}
    /\ acked = {}
    /\ unacked = {}
    /\ faulted = FALSE
    /\ steady = {}
    /\ known = [w \in Workspaces |-> {}]
    /\ svc = "down"
    /\ ps = {}
    /\ running = {}

----------------------------------------------------------------------------
\* After any method that loads, the cache holds `l`.
Cache(l) == loaded' = TRUE /\ mem' = l

MutPersist(l) == UNCHANGED disk

Persist(l) == disk' = l

\* The answer reaches the client, which now relies on lease `l`.
Answer(l) == acked' = l /\ unacked' = {}

\* It does not: the exception closed the connection or the client is gone.
NoAnswer(l) == unacked' = unacked \cup {l} /\ UNCHANGED acked

MutFresh(c) == \A e \in Current : e[2] # c

\* A token nobody was ever given: secrets.token_urlsafe(32).
Fresh(c) == \A v \in Workspaces : c \notin known[v]

----------------------------------------------------------------------------
MutAcquire(w, c) ==
    /\ svc = "up"
    /\ \A e \in Current : e[1] # w
    /\ c \in known[w] \/ Fresh(c)
    /\ Cache(Current \cup {<<w, c>>})
    /\ Persist(Current \cup {<<w, c>>})
    /\ Answer({<<w, c>>})
    /\ known' = [known EXCEPT ![w] = @ \cup {c}]
    /\ UNCHANGED hostVars

\* acquire on a free lease: cache, then file.
Acquire(w, c) ==
    /\ svc = "up"
    /\ Current = {}
    /\ c \in known[w] \/ Fresh(c)
    /\ Cache({<<w, c>>})
    /\ Persist({<<w, c>>})
    /\ \/ /\ Answer({<<w, c>>})
          /\ known' = [known EXCEPT ![w] = @ \cup {c}]
       \/ /\ NoAnswer({<<w, c>>})
          /\ UNCHANGED known
    /\ UNCHANGED hostVars

\* The write raises: acquire has already replaced the cached lease.
AcquireWriteFails(w, c) ==
    /\ svc = "up"
    /\ Current = {}
    /\ c \in known[w] \/ Fresh(c)
    /\ Cache({<<w, c>>})
    /\ NoAnswer({<<w, c>>})
    /\ UNCHANGED <<disk, known, hostVars>>

\* acquire by the holder with its capability: answered without a write.
Reacquire(w, c) ==
    /\ svc = "up"
    /\ c \in known[w]
    /\ <<w, c>> \in Current
    /\ Cache(Current)
    /\ Answer(Current)
    /\ UNCHANGED <<disk, known, hostVars>>

\* release with the holder's capability.
Release(w, c) ==
    /\ svc = "up"
    /\ c \in known[w]
    /\ <<w, c>> \in Current
    /\ Cache({})
    /\ Persist({})
    /\ Answer({}) \/ NoAnswer({})
    /\ UNCHANGED <<known, hostVars>>

ReleaseWriteFails(w, c) ==
    /\ svc = "up"
    /\ c \in known[w]
    /\ <<w, c>> \in Current
    /\ Cache({})
    /\ NoAnswer({})
    /\ UNCHANGED <<disk, known, hostVars>>

\* release of a free lease: idempotent, answered 200 without a write.
ReleaseFree ==
    /\ svc = "up"
    /\ Current = {}
    /\ Cache({})
    /\ Answer({})
    /\ UNCHANGED <<disk, known, hostVars>>

\* authorize, or an acquire or release that is refused: _load is all it does.
Consult ==
    /\ svc = "up"
    /\ ~loaded
    /\ Cache(disk)
    /\ UNCHANGED <<disk, acked, unacked, known, hostVars>>

----------------------------------------------------------------------------
MutCrash ==
    /\ svc # "down"
    /\ svc' = "down"
    /\ loaded' = FALSE
    /\ mem' = {}
    /\ disk' = {}
    /\ ps' = {}
    /\ UNCHANGED <<acked, unacked, known, running>>

\* The process dies (also from an OSError in the clear_stale of a boot, or
\* from a `podman ps` that times out) and systemd starts another.
Crash ==
    /\ svc # "down"
    /\ svc' = "down"
    /\ loaded' = FALSE
    /\ mem' = {}
    /\ ps' = {}
    /\ UNCHANGED <<disk, acked, unacked, known, running>>

HostReboot ==
    /\ svc' = "down"
    /\ loaded' = FALSE
    /\ mem' = {}
    /\ ps' = {}
    /\ running' = {}
    /\ UNCHANGED <<disk, acked, unacked, known>>

ListContainers ==
    /\ svc = "down"
    /\ svc' = "listed"
    /\ ps' = running
    /\ UNCHANGED <<storeVars, known, running>>

MutListingFails ==
    /\ svc = "down"
    /\ svc' = "listed"
    /\ ps' = {}
    /\ UNCHANGED <<storeVars, known, running>>

\* `podman ps` fails: reconcile_stale_leases returns and the lease stays.
ListingFails ==
    /\ svc = "down"
    /\ svc' = "up"
    /\ UNCHANGED <<storeVars, known, ps, running>>

\* clear_stale, the first method of the process to load the file.
ClearStale ==
    /\ svc = "listed"
    /\ svc' = "up"
    /\ ps' = {}
    /\ IF {e[1] : e \in disk} \subseteq ps
         THEN Cache(disk) /\ UNCHANGED <<disk, acked, unacked>>
         ELSE Cache({}) /\ Persist({}) /\ Answer({})
    /\ UNCHANGED <<known, running>>

----------------------------------------------------------------------------
StartContainer(w) ==
    /\ w \notin running
    /\ running' = running \cup {w}
    /\ UNCHANGED <<storeVars, known, svc, ps>>

StopContainer(w) ==
    /\ w \in running
    /\ running' = running \ {w}
    /\ UNCHANGED <<storeVars, known, svc, ps>>

----------------------------------------------------------------------------
\* What a step that writes, if it writes, does without an error.
Step ==
    \/ \E w \in Workspaces, c \in Capabilities :
          \/ Acquire(w, c)
          \/ Reacquire(w, c)
          \/ Release(w, c)
    \/ ReleaseFree
    \/ Consult
    \/ Crash
    \/ HostReboot
    \/ ListContainers
    \/ ListingFails
    \/ ClearStale
    \/ \E w \in Workspaces :
          \/ StartContainer(w)
          \/ StopContainer(w)

WriteFails ==
    \E w \in Workspaces, c \in Capabilities :
       \/ AcquireWriteFails(w, c)
       \/ ReleaseWriteFails(w, c)

Next ==
    /\ \/ Step /\ UNCHANGED faulted
       \/ WriteFails /\ faulted' = TRUE
    /\ steady' = IF svc # "down" /\ svc' = "down"
                   THEN running'
                   ELSE steady \cap running'

Spec == Init /\ [][Next]_vars

----------------------------------------------------------------------------
\* Durability: the file, which is all that a restart keeps, agrees with the
\* last lease a client was told of, or with a request that got no answer
\* since.  ("Durable, atomic, root-owned lease store", helper.py 112.)
DurableStore == disk \in {acked} \cup unacked

\* The store is durable through every crash, reboot and lost answer for as long
\* as no write of the file fails (_persist 130-139).
DurableAnswers == faulted \/ DurableStore

\* Whatever writes fail and whenever the process dies, no lease that the cache
\* or the file holds, and so none that a restart could bring back, is opened
\* by a capability another workspace's client was given (acquire, release).
PrivateCapability ==
    \A e \in mem \cup disk : \A w \in Workspaces \ {e[1]} : e[2] \notin known[w]

\* A boot never takes the lease from a workspace whose container has been
\* running all the while the service was away, not even when `podman ps`
\* fails (reconcile_stale_leases 776-783: "fail closed").
SteadyHolderSurvives ==
    [][\A e \in Current : svc # "up" /\ e[1] \in steady /\ e[1] \in running'
          => e \in Current']_vars

Lease == INSTANCE GlobalLease WITH lease <- Current

\* The store implements the abstract lease, up to the first write that fails:
\* a request, a crash or a boot changes the lease that requests see exactly as
\* GlobalLease allows (CapabilityStore 111-216).
ImplementsGlobalLease ==
    Lease!LeaseInit /\ [][faulted' \/ Lease!LeaseNext]_Lease!leaseVars
=============================================================================
