---------------------------- MODULE GlobalLease ----------------------------
(***************************************************************************)
(* What the Coder iSCSI helper promises about its one global lease: which  *)
(* workspace may be active on llm01 and which capability proves it.  The   *)
(* lease is a single atomic value here; CapabilityStore refines it to the  *)
(* cached copy and the file that helper.py keeps, and CoderHelper builds   *)
(* the request handlers on top of it.                                      *)
(*                                                                         *)
(* The lease is the empty set (the `{}` of helper.py) or one pair          *)
(* <<workspace, capability>>.  Only the SHA-256 hash of the capability is  *)
(* stored; hashing is taken as injective, so the pair stands for both.     *)
(*                                                                         *)
(* The service boots in two steps (run_server): list the running Coder     *)
(* containers, then clear the lease of a holder that is not among them.    *)
(***************************************************************************)
EXTENDS Integers

CONSTANTS
    Workspaces,     \* the workspace names that clients use
    Capabilities    \* opaque tokens; bounds how many are ever handed out

VARIABLES
    lease,      \* {} or {<<workspace, capability>>}
    known,      \* workspace -> the capabilities its client was answered with
    svc,        \* "down" -> "listed" -> "up": where run_server is
    ps,         \* the result of `podman ps` the boot is about to use
    running     \* workspaces whose container is running

leaseVars == <<lease, known, svc, ps, running>>

----------------------------------------------------------------------------
Leases == {{}} \cup {{<<w, c>>} : w \in Workspaces, c \in Capabilities}

Holder == {e[1] : e \in lease}

Authorized(w, c) == <<w, c>> \in lease

LeaseTypeOK ==
    /\ lease \in Leases
    /\ known \in [Workspaces -> SUBSET Capabilities]
    /\ svc \in {"down", "listed", "up"}
    /\ ps \subseteq Workspaces
    /\ running \subseteq Workspaces

LeaseInit ==
    /\ lease = {}
    /\ known = [w \in Workspaces |-> {}]
    /\ svc = "down"
    /\ ps = {}
    /\ running = {}

----------------------------------------------------------------------------
(* The clients' requests about the lease.                                  *)

\* The client presents a capability it was given before, or the helper draws
\* a token nobody has: `capability or secrets.token_urlsafe(32)`.
FreshOrPresented(w, c) ==
    \/ c \in known[w]
    \/ \A v \in Workspaces : c \notin known[v]

MutGrant(w, c) ==
    /\ svc = "up"
    /\ FreshOrPresented(w, c)
    /\ lease' = lease \cup {<<w, c>>}
    /\ known' = [known EXCEPT ![w] = @ \cup {c}]
    /\ UNCHANGED <<svc, ps, running>>

\* acquire on a free lease, answered 200.
Grant(w, c) ==
    /\ svc = "up"
    /\ lease = {}
    /\ FreshOrPresented(w, c)
    /\ lease' = {<<w, c>>}
    /\ known' = [known EXCEPT ![w] = @ \cup {c}]
    /\ UNCHANGED <<svc, ps, running>>

\* The same, but the answer never reaches the client.
GrantUnanswered(w, c) ==
    /\ svc = "up"
    /\ lease = {}
    /\ FreshOrPresented(w, c)
    /\ lease' = {<<w, c>>}
    /\ UNCHANGED <<known, svc, ps, running>>

\* release by a client that presents the holder's capability.  (A release of
\* a free lease and a refused request change nothing.)
Release(w, c) ==
    /\ svc = "up"
    /\ c \in known[w]
    /\ Authorized(w, c)
    /\ lease' = {}
    /\ UNCHANGED <<known, svc, ps, running>>

----------------------------------------------------------------------------
(* The service's life: systemd restarts it on failure, the host reboots.   *)

Crash ==
    /\ svc # "down"
    /\ svc' = "down"
    /\ ps' = {}
    /\ UNCHANGED <<lease, known, running>>

HostReboot ==
    /\ svc' = "down"
    /\ ps' = {}
    /\ running' = {}
    /\ UNCHANGED <<lease, known>>

\* `podman ps` succeeds; the containers may change before the list is used.
ListContainers ==
    /\ svc = "down"
    /\ svc' = "listed"
    /\ ps' = running
    /\ UNCHANGED <<lease, known, running>>

\* `podman ps` fails: reconcile_stale_leases returns and the lease stays.
ListingFails ==
    /\ svc = "down"
    /\ svc' = "up"
    /\ UNCHANGED <<lease, known, ps, running>>

\* clear_stale: nothing is unmounted or logged out, only the lease goes.
ClearStale ==
    /\ svc = "listed"
    /\ svc' = "up"
    /\ lease' = IF Holder \subseteq ps THEN lease ELSE {}
    /\ ps' = {}
    /\ UNCHANGED <<known, running>>

----------------------------------------------------------------------------
(* Containers are started and stopped by the Docker provider through the   *)
(* Podman API, never by the helper.                                        *)

StartContainer(w) ==
    /\ w \notin running
    /\ running' = running \cup {w}
    /\ UNCHANGED <<lease, known, svc, ps>>

StopContainer(w) ==
    /\ w \in running
    /\ running' = running \ {w}
    /\ UNCHANGED <<lease, known, svc, ps>>

----------------------------------------------------------------------------
LeaseNext ==
    \/ \E w \in Workspaces, c \in Capabilities :
          \/ Grant(w, c)
          \/ GrantUnanswered(w, c)
          \/ Release(w, c)
    \/ Crash
    \/ HostReboot
    \/ ListContainers
    \/ ListingFails
    \/ ClearStale
    \/ \E w \in Workspaces :
          \/ StartContainer(w)
          \/ StopContainer(w)

LeaseSpec == LeaseInit /\ [][LeaseNext]_leaseVars

=============================================================================
