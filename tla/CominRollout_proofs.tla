------------------------ MODULE CominRollout_proofs ------------------------
(***************************************************************************)
(* Theorems about the rollout, for any number of hosts, canaries, servers  *)
(* and agents.                                                             *)
(***************************************************************************)
EXTENDS CominRollout, TLAPS

\* A host of the fleet does nothing with the new generation before its
\* deployment was accepted.
Quiet(h) ==
    /\ h \notin queued
    /\ status[h] # "running"
    /\ gate[h] = "idle"
    /\ system[h] = "old"

QuietInv ==
    /\ pending \subseteq fetched
    /\ \A h \in Hosts \ AutoHosts : h \notin fetched \/ h \in pending => Quiet(h)

\* What a server must be for an agent to be accepted behind it.
Behind(s) == system[s] = "new" \/ s \in skipped \cup rolledBack

\* The servers that the loop over the fleet has left behind.
PassedInv ==
    ring = Order => \A i \in DOMAIN Order : i < at /\ Order[i] \in Servers => Behind(Order[i])

AgentsInv ==
    \A a \in FleetAgents : a \in fetched \ pending => \A s \in Servers \cap Fleet : Behind(s)

\* The steps that only the loop over the fleet takes.
FleetInv == pc \in {"version", "precheck", "pending", "accept"} => ring = Order

TypeInv == TypeOK /\ FleetInv

SkewInv ==
    /\ TypeInv
    /\ QuietInv
    /\ PassedInv
    /\ AgentsInv

----------------------------------------------------------------------------
\* CanaryRing and Order are sequences of hosts, without a host in common.
LEMMA Rings ==
    /\ Len(CanaryRing) \in Nat \ {0}
    /\ Len(Order) \in Nat \ {0}
    /\ DOMAIN CanaryRing = 1..Len(CanaryRing)
    /\ DOMAIN Order = 1..Len(Order)
    /\ \A i \in DOMAIN CanaryRing : CanaryRing[i] \in AutoHosts /\ CanaryRing[i] \in Canaries
    /\ \A i \in DOMAIN Order : Order[i] \in Hosts \ AutoHosts /\ Order[i] \in Fleet
    /\ \A h \in Fleet : \E i \in DOMAIN Order : h = Order[i]
    /\ \A h \in Canaries : \E i \in DOMAIN CanaryRing : h = CanaryRing[i]
    /\ \A i, j \in DOMAIN Order : Order[i] = Order[j] => i = j
    /\ CanaryRing # Order
    /\ Fleet \subseteq Hosts \ AutoHosts
    /\ Canaries \subseteq AutoHosts
    /\ AutoHosts \subseteq Hosts
<1>1. CanaryRing \in Seq(Hosts) /\ Order \in Seq(Hosts)
  BY OrderAssumption
<1>2. /\ Len(CanaryRing) \in Nat \ {0}
      /\ Len(Order) \in Nat \ {0}
      /\ DOMAIN CanaryRing = 1..Len(CanaryRing)
      /\ DOMAIN Order = 1..Len(Order)
  BY <1>1, OrderAssumption
<1>3. Canaries = {CanaryRing[i] : i \in DOMAIN CanaryRing}
  BY DEF Canaries, Range
<1>4. Fleet = {Order[i] : i \in DOMAIN Order}
  BY DEF Fleet, Range
<1>5. Canaries \subseteq AutoHosts /\ Fleet \cap AutoHosts = {} /\ AutoHosts \subseteq Hosts
  BY OrderAssumption, AutoAssumption DEF Canaries, Fleet, Range
<1>6. \A i \in DOMAIN Order : Order[i] \in Hosts
  BY <1>1, <1>2
<1>7. Fleet \subseteq Hosts \ AutoHosts
  BY <1>4, <1>5, <1>6
<1>8. CanaryRing # Order
  <2>1. 1 \in DOMAIN CanaryRing
    BY <1>2
  <2>2. CanaryRing[1] \in AutoHosts
    BY <2>1, <1>3, <1>5
  <2>3. CanaryRing = Order => CanaryRing[1] \in Fleet
    BY <2>1, <1>4
  <2> QED
    BY <2>2, <2>3, <1>5
<1> QED
  BY <1>2, <1>3, <1>4, <1>5, <1>6, <1>7, <1>8, OrderAssumption

\* The host at the script's position.
LEMMA HostOfRing ==
    ASSUME TypeOK
    PROVE  /\ at \in DOMAIN ring
           /\ Host \in Hosts
           /\ ring = CanaryRing => Host \in Canaries
           /\ ring = Order => Host \in Fleet
BY Rings DEF TypeOK, Host

----------------------------------------------------------------------------
\* Every reachable state of the hosts and of the script is well typed.
LEMMA InitTyped == Init => TypeOK
<1> SUFFICES ASSUME Init
             PROVE  TypeOK
  OBVIOUS
<1>1. HostTypeOK
  <2>1. PICK started \in SUBSET Fresh :
           status = [h \in Hosts |-> IF h \in started THEN "none" ELSE "done"]
    BY DEF Init, HostInit
  <2>2. status \in [Hosts -> {"none", "running", "done", "failed"}]
    BY <2>1
  <2> QED
    BY <2>2, AutoAssumption DEF Init, HostInit, HostTypeOK
<1>2. 1 \in 1..Len(CanaryRing)
  BY Rings
<1> QED
  BY <1>1, <1>2 DEF Init, TypeOK

LEMMA HostStepTyped ==
    ASSUME HostTypeOK, NEW h \in Hosts, HostStep(h) \/ Fetch(h) \/ ByHand(h)
    PROVE  HostTypeOK'
<1> USE DEF HostTypeOK, deployer
<1>1. CASE Fetch(h)
  BY <1>1 DEF Fetch
<1>2. CASE ByHand(h)
  BY <1>2 DEF ByHand, SuspendByHand, Resume
<1>3. CASE Begin(h)
  BY <1>3 DEF Begin
<1>4. CASE Switch(h)
  BY <1>4 DEF Switch, Ends
<1>5. CASE SwitchFails(h)
  BY <1>5 DEF SwitchFails, Ends
<1>6. CASE Retry(h)
  BY <1>6 DEF Retry, Leave
<1>7. CASE GiveUpRetrying(h)
  BY <1>7 DEF GiveUpRetrying, Leave, Suspend
<1>8. CASE GatePasses(h)
  BY <1>8 DEF GatePasses, Leave
<1>9. CASE RollbackAndSuspend(h)
  BY <1>9 DEF RollbackAndSuspend, Leave, Suspend
<1> QED
  BY <1>1, <1>2, <1>3, <1>4, <1>5, <1>6, <1>7, <1>8, <1>9 DEF HostStep

LEMMA NextHostTyped ==
    ASSUME TypeOK, NextHost
    PROVE  /\ ring' \in {CanaryRing, Order}
           /\ at' \in 1..Len(ring')
           /\ pc' \in {"idle", "deploy", "precheck", "pending"}
           /\ ring' = Order => at' = 1 \/ (ring = Order /\ at' = at + 1)
           /\ pc' \in {"precheck", "pending"} => ring' = Order
<1>1. at \in 1..Len(ring) /\ ring \in {CanaryRing, Order}
  BY DEF TypeOK
<1> QED
  BY <1>1, Rings DEF NextHost, Exit

LEMMA StepTyped == TypeInv /\ [Next]_vars => TypeInv'
<1> SUFFICES ASSUME TypeInv, [Next]_vars
             PROVE  TypeInv'
  OBVIOUS
<1> USE DEF TypeInv, TypeOK, FleetInv
<1>0. Host \in Hosts /\ (ring = CanaryRing => Host \in Canaries) /\ (ring = Order => Host \in Fleet)
  BY HostOfRing
<1>1. CASE Start
  BY <1>1 DEF Start, Goto, hostVars, deployer, HostTypeOK
<1>2. CASE Abort
  BY <1>2, Rings DEF Abort, Exit, hostVars, deployer, HostTypeOK
<1>3. CASE DeployDone
  BY <1>3 DEF DeployDone, Goto, hostVars, deployer, HostTypeOK
<1>4. CASE Healthy
  <2>1. CASE NextHost
    BY <2>1, <1>4, NextHostTyped DEF Healthy, hostVars, deployer, HostTypeOK
  <2>2. CASE ring = Order /\ Goto("version")
    BY <2>2, <1>4 DEF Healthy, Goto, hostVars, deployer, HostTypeOK
  <2> QED
    BY <2>1, <2>2, <1>4 DEF Healthy
<1>6. CASE VersionReached
  BY <1>6, NextHostTyped DEF VersionReached, hostVars, deployer, HostTypeOK
<1>7. CASE Precheck
  BY <1>7, Rings DEF Precheck, Goto, Exit, hostVars, deployer, HostTypeOK
<1>8. CASE Pending
  BY <1>8, <1>0, NextHostTyped DEF Pending, Goto, hostVars, deployer, HostTypeOK
<1>9. CASE Accept
  BY <1>9, <1>0, Rings DEF Accept, Confirm, Goto, Exit, HostTypeOK
<1>10. CASE HostsNext
  BY <1>10, HostStepTyped DEF HostsNext, script
<1>11. CASE UNCHANGED vars
  BY <1>11 DEF vars, script, hostVars, deployer, HostTypeOK
<1> QED
  BY <1>1, <1>2, <1>3, <1>4, <1>6, <1>7, <1>8, <1>9, <1>10, <1>11 DEF Next, Script

LEMMA InitTypeInv == Init => TypeInv
BY InitTyped DEF Init, TypeInv, FleetInv

\* TypeOK, for any hosts and rings.
THEOREM RolloutTypeCorrect == Spec => []TypeOK
<1>1. TypeInv => TypeOK
  BY DEF TypeInv
<1> QED
  BY <1>1, InitTypeInv, StepTyped, PTL DEF Spec

----------------------------------------------------------------------------
\* No step makes a server that an agent was accepted behind unfit again: the
\* only way back from the new generation is a rollback, which is recorded.
LEMMA BehindStays ==
    ASSUME TypeInv, [Next]_vars, NEW s \in Hosts, Behind(s)
    PROVE  Behind(s)'
<1> USE DEF Behind, TypeInv, TypeOK
<1>1. CASE Script
  <2>1. UNCHANGED <<system, rolledBack>> /\ skipped \subseteq skipped'
    BY <1>1 DEF Script, Start, Abort, DeployDone, Healthy, VersionReached,
         Precheck, Pending, Accept, Confirm, hostVars
  <2> QED
    BY <2>1
<1>2. ASSUME NEW h \in Hosts, HostStep(h) \/ Fetch(h) \/ ByHand(h), skipped' = skipped
      PROVE  Behind(s)'
  <2>1. CASE Switch(h) \/ SwitchFails(h)
    BY <1>2, <2>1 DEF Switch, SwitchFails, Ends, HostTypeOK
  <2>2. CASE RollbackAndSuspend(h)
    BY <1>2, <2>2 DEF RollbackAndSuspend, HostTypeOK
  <2>3. CASE ~(Switch(h) \/ SwitchFails(h) \/ RollbackAndSuspend(h))
    <3>1. UNCHANGED <<system, rolledBack>>
      BY <1>2, <2>3 DEF HostStep, Fetch, ByHand, SuspendByHand, Resume, Begin, Retry, GiveUpRetrying, GatePasses
    <3> QED
      BY <1>2, <3>1
  <2> QED
    BY <2>1, <2>2, <2>3
<1>3. CASE HostsNext
  BY <1>2, <1>3 DEF HostsNext
<1>4. CASE UNCHANGED vars
  BY <1>4 DEF vars, hostVars
<1> QED
  BY <1>1, <1>3, <1>4 DEF Next

\* A host that does not deploy by itself stays quiet until its confirmation.
LEMMA PendingStep == TypeInv /\ pending \subseteq fetched /\ [Next]_vars => pending' \subseteq fetched'
<1> SUFFICES ASSUME pending \subseteq fetched, [Next]_vars
             PROVE  pending' \subseteq fetched'
  OBVIOUS
<1>1. CASE Script
  BY <1>1 DEF Script, Start, Abort, DeployDone, Healthy, VersionReached,
     Precheck, Pending, Accept, Confirm, hostVars, deployer
<1>2. ASSUME NEW h \in Hosts, HostStep(h) \/ Fetch(h) \/ ByHand(h)
      PROVE  pending' \subseteq fetched'
  BY <1>2 DEF HostStep, Fetch, ByHand, SuspendByHand, Resume, Begin, Switch, SwitchFails, Ends, Retry, GiveUpRetrying,
     GatePasses, RollbackAndSuspend, deployer
<1>3. CASE HostsNext
  BY <1>2, <1>3 DEF HostsNext
<1>4. CASE UNCHANGED vars
  BY <1>4 DEF vars, hostVars, deployer
<1> QED
  BY <1>1, <1>3, <1>4 DEF Next

LEMMA QuietStep == TypeInv /\ QuietInv /\ [Next]_vars => QuietInv'
<1> SUFFICES ASSUME TypeInv, QuietInv, [Next]_vars,
                    NEW h \in Hosts \ AutoHosts, h \notin fetched' \/ h \in pending'
             PROVE  Quiet(h)'
  BY PendingStep DEF QuietInv
<1> USE DEF Quiet
<1>0. HostTypeOK
  BY DEF TypeInv, TypeOK
<1>1. CASE Script
  <2>1. UNCHANGED <<fetched, status, gate, system>> /\ pending' \subseteq pending
    BY <1>1 DEF Script, Start, Abort, DeployDone, Healthy, VersionReached,
         Precheck, Pending, Accept, Confirm, hostVars, deployer
  <2>2. h \notin fetched \/ h \in pending
    BY <2>1
  <2>3. Quiet(h)
    BY <2>2 DEF QuietInv
  <2>4. h \notin queued'
    <3>1. CASE Accept
      <4>1. Host \notin pending \/ h # Host
        BY <3>1, <2>1, <1>0 DEF Accept, Confirm, QuietInv
      <4> QED
        BY <3>1, <4>1, <2>3 DEF Accept, Confirm
    <3>2. CASE ~Accept
      <4>1. queued' = queued
        BY <1>1, <3>2 DEF Script, Start, Abort, DeployDone, Healthy, VersionReached, Precheck, Pending, hostVars, deployer
      <4> QED
        BY <4>1, <2>3
    <3> QED
      BY <3>1, <3>2
  <2> QED
    BY <2>1, <2>3, <2>4
<1>2. ASSUME NEW g \in Hosts, HostStep(g) \/ Fetch(g) \/ ByHand(g)
      PROVE  Quiet(h)'
  <2>1. CASE Fetch(g)
    <3>1. h \notin fetched \/ h \in pending
      BY <2>1 DEF Fetch
    <3>2. Quiet(h)
      BY <3>1 DEF QuietInv
    <3> QED
      BY <2>1, <3>2 DEF Fetch
  <2>2. CASE HostStep(g) \/ ByHand(g)
    <3>1. UNCHANGED <<fetched, pending>>
      BY <2>2 DEF HostStep, ByHand, SuspendByHand, Resume, Begin, Switch, SwitchFails, Ends, Retry, GiveUpRetrying,
           GatePasses, RollbackAndSuspend, deployer
    <3>2. Quiet(h)
      BY <3>1 DEF QuietInv
    <3>3. CASE ByHand(g)
      BY <3>2, <3>3 DEF ByHand, SuspendByHand, Resume, deployer
    <3>4. CASE Begin(g)
      BY <3>2, <3>4, <1>0 DEF Begin, HostTypeOK
    <3>5. CASE Switch(g) \/ SwitchFails(g)
      BY <3>2, <3>5, <1>0 DEF Switch, SwitchFails, Ends, HostTypeOK, deployer
    <3>6. CASE Retry(g) \/ GiveUpRetrying(g) \/ GatePasses(g) \/ RollbackAndSuspend(g)
      BY <3>2, <3>6, <1>0 DEF Retry, GiveUpRetrying, GatePasses, RollbackAndSuspend, Leave,
           HostTypeOK, deployer
    <3> QED
      BY <2>2, <3>3, <3>4, <3>5, <3>6 DEF HostStep
  <2> QED
    BY <1>2, <2>1, <2>2
<1>3. CASE HostsNext
  BY <1>2, <1>3 DEF HostsNext
<1>4. CASE UNCHANGED vars
  BY <1>4 DEF vars, hostVars, deployer, QuietInv
<1> QED
  BY <1>1, <1>3, <1>4 DEF Next

\* The loop over the fleet goes past a host only when it has seen its version or
\* found nothing pending on it.
LEMMA LoopGoesOn ==
    ASSUME ExpectVersion = TRUE, TypeInv, [Next]_vars, ring' = Order,
           NEW i \in DOMAIN Order, i < at'
    PROVE  \/ ring = Order /\ i < at
           \/ Order[i] = Host /\ (VersionReached \/ (Pending /\ Host \notin pending))
<1>0. TypeOK /\ i \in Nat /\ i >= 1
  BY Rings DEF TypeInv
<1>1. CASE UNCHANGED <<ring, at>>
  BY <1>1
<1>2. CASE Exit
  BY <1>2, Rings DEF Exit
<1>3. CASE NextHost
  <2>1. ring = Order /\ at' = at + 1
    BY <1>0, <1>3, NextHostTyped
  <2>2. i < at \/ i = at
    BY <2>1, <1>0 DEF TypeOK
  <2>3. CASE i = at
    <3>1. Host = Order[i]
      BY <2>1, <2>3 DEF Host
    <3>2. VersionReached \/ (Pending /\ Host \notin pending)
      BY <1>3, <2>1, <1>0, Rings DEF Next, Script, Start, Abort, DeployDone, Healthy,
         VersionReached, Precheck, Pending, Accept, HostsNext, vars, script, Goto, Exit, TypeOK
    <3> QED
      BY <3>1, <3>2
  <2> QED
    BY <2>1, <2>2, <2>3
<1> QED
  BY <1>1, <1>2, <1>3 DEF Next, Script, Start, Abort, DeployDone, Healthy, VersionReached,
     Precheck, Pending, Accept, HostsNext, vars, script, Goto

LEMMA PassedStep ==
    ASSUME ExpectVersion = TRUE
    PROVE  SkewInv /\ [Next]_vars => PassedInv'
<1> SUFFICES ASSUME SkewInv, [Next]_vars, ring' = Order,
                    NEW i \in DOMAIN Order, i < at', Order[i] \in Servers
             PROVE  Behind(Order[i])'
  BY DEF PassedInv
<1>0. TypeInv /\ Order[i] \in Hosts
  BY Rings DEF SkewInv
<1>1. CASE ring = Order /\ i < at
  <2>1. Behind(Order[i])
    BY <1>1 DEF SkewInv, PassedInv
  <2> QED
    BY <1>0, <2>1, BehindStays
<1>2. CASE Order[i] = Host /\ (VersionReached \/ (Pending /\ Host \notin pending))
  BY <1>2 DEF VersionReached, Pending, Behind, hostVars
<1> QED
  BY <1>0, <1>1, <1>2, LoopGoesOn

\* Of a host that does not deploy by itself, only the script's accept makes a
\* confirmed one.
LEMMA OnlyAccepts ==
    ASSUME TypeInv, [Next]_vars, NEW a \in Hosts \ AutoHosts,
           a \in fetched' \ pending', a \notin fetched \ pending
    PROVE  Accept /\ a = Host
<1>1. ASSUME NEW h \in Hosts, HostStep(h) \/ Fetch(h) \/ ByHand(h)
      PROVE  FALSE
  <2>1. CASE Fetch(h)
    BY <2>1 DEF Fetch
  <2>2. CASE HostStep(h) \/ ByHand(h)
    <3>1. UNCHANGED <<fetched, pending>>
      BY <2>2 DEF HostStep, ByHand, SuspendByHand, Resume, Begin, Switch, SwitchFails, Ends,
         Retry, GiveUpRetrying, GatePasses, RollbackAndSuspend, deployer
    <3> QED
      BY <3>1
  <2> QED
    BY <1>1, <2>1, <2>2
<1>2. ~HostsNext
  BY <1>1 DEF HostsNext
<1>3. CASE Accept
  BY <1>3 DEF Accept, Confirm
<1>4. CASE ~Accept
  <2>1. UNCHANGED <<fetched, pending>>
    BY <1>2, <1>4 DEF Next, Script, Start, Abort, DeployDone, Healthy, VersionReached, Precheck,
       Pending, hostVars, deployer, vars
  <2> QED
    BY <2>1
<1> QED
  BY <1>3, <1>4

\* An agent's deployment is accepted only in its turn.
LEMMA AgentsStep ==
    ASSUME ServersFirst
    PROVE  SkewInv /\ [Next]_vars => AgentsInv'
<1> SUFFICES ASSUME SkewInv, [Next]_vars, NEW a \in FleetAgents, a \in fetched' \ pending',
                    NEW s \in Servers \cap Fleet
             PROVE  Behind(s)'
  BY DEF AgentsInv
<1>0. TypeInv /\ TypeOK /\ s \in Hosts /\ a \in Fleet /\ a \notin AutoHosts /\ a \notin Servers
  BY Rings DEF SkewInv, TypeInv, FleetAgents
<1>1. CASE a \in fetched \ pending
  <2>1. Behind(s)
    BY <1>1 DEF SkewInv, AgentsInv
  <2> QED
    BY <1>0, <2>1, BehindStays
<1>2. CASE a \notin fetched \ pending
  <2>1. Accept /\ a = Host
    <3>1. a \in Hosts \ AutoHosts
      BY <1>0, Rings
    <3> QED
      BY <1>0, <1>2, <3>1, OnlyAccepts
  <2>2. ring = Order /\ at \in DOMAIN Order /\ a = Order[at]
    <3>1. ring = Order
      BY <2>1 DEF SkewInv, TypeInv, FleetInv, Accept
    <3> QED
      BY <2>1, <3>1, <1>0, HostOfRing DEF Host
  <2>3. PICK i \in DOMAIN Order : s = Order[i]
    BY Rings
  <2>4. i < at
    BY <2>2, <2>3, <1>0 DEF ServersFirst
  <2>5. Behind(s)
    BY <2>2, <2>3, <2>4 DEF SkewInv, PassedInv
  <2> QED
    BY <1>0, <2>5, BehindStays
<1> QED
  BY <1>1, <1>2

LEMMA InitSkewInv == Init => SkewInv
<1> SUFFICES ASSUME Init
             PROVE  SkewInv
  OBVIOUS
<1>1. TypeInv
  BY InitTypeInv
<1>2. QuietInv
  <2>1. PICK started \in SUBSET Fresh :
           status = [h \in Hosts |-> IF h \in started THEN "none" ELSE "done"]
    BY DEF Init, HostInit
  <2> QED
    BY <2>1 DEF Init, HostInit, QuietInv, Quiet
<1>3. PassedInv
  BY Rings DEF Init, PassedInv
<1>4. AgentsInv
  BY DEF Init, HostInit, AgentsInv
<1> QED
  BY <1>1, <1>2, <1>3, <1>4 DEF SkewInv

\* SkewExplained: with the fleet in servers-first order and EXPECT_VERSION set,
\* however the steps of the script, of comin and of the gates interleave, an
\* agent runs the new generation before a server only if a run of the script
\* found nothing pending on that server or the gate gave up on it.
THEOREM SkewIsExplained ==
    ASSUME ServersFirst, ExpectVersion = TRUE
    PROVE  Spec => []SkewExplained
<1>1. SkewInv /\ [Next]_vars => SkewInv'
  BY StepTyped, QuietStep, PassedStep, AgentsStep DEF SkewInv
<1>2. SkewInv => SkewExplained
  <2> SUFFICES ASSUME SkewInv, NEW a \in FleetAgents, NEW s \in Servers \cap Fleet, system[a] = "new"
               PROVE  Behind(s)
    BY DEF SkewExplained, Behind
  <2>1. a \in Hosts \ AutoHosts
    BY Rings DEF FleetAgents
  <2>2. a \in fetched \ pending
    BY <2>1 DEF SkewInv, QuietInv, Quiet
  <2> QED
    BY <2>2 DEF SkewInv, AgentsInv
<1> QED
  BY InitSkewInv, <1>1, <1>2, PTL DEF Spec

----------------------------------------------------------------------------
\* A host of the fleet deploys only once at a time, and is not submitted again
\* before the gate of its last deployment is over.
BusyInv ==
    \A h \in Hosts \ AutoHosts :
        /\ status[h] = "running" \/ gate[h] # "idle" => h \notin queued
        /\ gate[h] # "idle" => status[h] # "running"

\* Nothing is left that could deploy on this host.
AtRest(h) == h \notin queued /\ status[h] # "running" /\ gate[h] # "failed"

\* The loop need not wait for this host any more.
Over(h) ==
    \/ h \in skipped
    \/ h \in fetched \ pending /\ (system[h] = "new" \/ AtRest(h))

LoopInv == ring = Order => \A i \in DOMAIN Order : i < at => Over(Order[i])

\* A host that was accepted in its turn has only such hosts before it.
TurnInv ==
    \A i, j \in DOMAIN Order :
        i < j /\ Order[j] \in fetched \ pending => Over(Order[i])

OneInv ==
    /\ TypeInv
    /\ QuietInv
    /\ BusyInv
    /\ LoopInv
    /\ TurnInv

LEMMA BusyStep == OneInv /\ [Next]_vars => BusyInv'
<1> SUFFICES ASSUME OneInv, [Next]_vars, NEW h \in Hosts \ AutoHosts
             PROVE  /\ status'[h] = "running" \/ gate'[h] # "idle" => h \notin queued'
                    /\ gate'[h] # "idle" => status'[h] # "running"
  BY DEF BusyInv
<1>0. HostTypeOK /\ TypeOK
  BY DEF OneInv, TypeInv, TypeOK
<1>1. /\ status[h] = "running" \/ gate[h] # "idle" => h \notin queued
      /\ gate[h] # "idle" => status[h] # "running"
      /\ h \in pending => Quiet(h)
  BY DEF OneInv, BusyInv, QuietInv
<1>2. CASE Script
  <2>1. UNCHANGED <<status, gate>>
    BY <1>2 DEF Script, Start, Abort, DeployDone, Healthy, VersionReached, Precheck, Pending,
       Accept, Confirm, hostVars
  <2>2. queued' = queued \/ (Host \in pending /\ queued' = queued \cup {Host})
    BY <1>2 DEF Script, Start, Abort, DeployDone, Healthy, VersionReached, Precheck, Pending,
       Accept, Confirm, hostVars, deployer
  <2> QED
    BY <1>1, <2>1, <2>2 DEF Quiet
<1>3. ASSUME NEW g \in Hosts, HostStep(g) \/ Fetch(g) \/ ByHand(g)
      PROVE  /\ status'[h] = "running" \/ gate'[h] # "idle" => h \notin queued'
             /\ gate'[h] # "idle" => status'[h] # "running"
  <2> USE DEF HostTypeOK, deployer
  <2>1. CASE Fetch(g)
    BY <1>0, <1>1, <2>1 DEF Fetch
  <2>2. CASE ByHand(g)
    BY <1>1, <2>2 DEF ByHand, SuspendByHand, Resume
  <2>3. CASE Begin(g)
    BY <1>0, <1>1, <2>3 DEF Begin
  <2>4. CASE Switch(g) \/ SwitchFails(g)
    BY <1>0, <1>1, <2>4 DEF Switch, SwitchFails, Ends
  <2>5. CASE Retry(g)
    BY <1>0, <1>1, <2>5 DEF Retry, Leave
  <2>6. CASE GiveUpRetrying(g) \/ GatePasses(g) \/ RollbackAndSuspend(g)
    BY <1>0, <1>1, <2>6 DEF GiveUpRetrying, GatePasses, RollbackAndSuspend, Leave
  <2> QED
    BY <1>3, <2>1, <2>2, <2>3, <2>4, <2>5, <2>6 DEF HostStep
<1>4. CASE HostsNext
  BY <1>3, <1>4 DEF HostsNext
<1>5. CASE UNCHANGED vars
  BY <1>1, <1>5 DEF vars, hostVars, deployer
<1> QED
  BY <1>2, <1>4, <1>5 DEF Next

\* A host that is over stays so: the gate's rollback comes when nothing is queued
\* there, and only the fetch and the accept of its turn could queue anything.
LEMMA OverStays ==
    ASSUME OneInv, [Next]_vars, NEW h \in Hosts \ AutoHosts, Over(h)
    PROVE  Over(h)'
<1>0. HostTypeOK /\ TypeOK
  BY DEF OneInv, TypeInv, TypeOK
<1>1. skipped \subseteq skipped'
  BY DEF Next, Script, Start, Abort, DeployDone, Healthy, VersionReached, Precheck, Pending,
     Accept, HostsNext, vars
<1>2. CASE h \in skipped
  BY <1>1, <1>2 DEF Over
<1>3. ASSUME h \in fetched \ pending, system[h] = "new" \/ AtRest(h)
      PROVE  h \in fetched' \ pending' /\ (system'[h] = "new" \/ AtRest(h)')
  <2>1. /\ status[h] = "running" \/ gate[h] # "idle" => h \notin queued
        /\ gate[h] # "idle" => status[h] # "running"
    BY DEF OneInv, BusyInv
  <2>2. CASE Script
    <3>1. UNCHANGED <<fetched, status, gate, system>> /\ pending' \subseteq pending
      BY <2>2 DEF Script, Start, Abort, DeployDone, Healthy, VersionReached, Precheck, Pending,
         Accept, Confirm, hostVars, deployer
    <3>2. queued' = queued \/ (Host \in pending /\ queued' = queued \cup {Host})
      BY <2>2 DEF Script, Start, Abort, DeployDone, Healthy, VersionReached, Precheck, Pending,
         Accept, Confirm, hostVars, deployer
    <3> QED
      BY <1>3, <3>1, <3>2 DEF AtRest
  <2>3. ASSUME NEW g \in Hosts, HostStep(g) \/ Fetch(g) \/ ByHand(g)
        PROVE  h \in fetched' \ pending' /\ (system'[h] = "new" \/ AtRest(h)')
    <3> USE DEF HostTypeOK, deployer, AtRest
    <3>1. CASE Fetch(g)
      BY <1>0, <1>3, <3>1 DEF Fetch
    <3>2. CASE ByHand(g)
      BY <1>3, <3>2 DEF ByHand, SuspendByHand, Resume
    <3>3. CASE Begin(g)
      BY <1>0, <1>3, <3>3 DEF Begin
    <3>4. CASE Switch(g) \/ SwitchFails(g)
      BY <1>0, <1>3, <3>4 DEF Switch, SwitchFails, Ends
    <3>5. CASE Retry(g)
      BY <1>0, <1>3, <3>5 DEF Retry, Leave
    <3>6. CASE GiveUpRetrying(g) \/ GatePasses(g)
      BY <1>0, <1>3, <3>6 DEF GiveUpRetrying, GatePasses, Leave
    <3>7. CASE RollbackAndSuspend(g)
      BY <1>0, <1>3, <2>1, <3>7 DEF RollbackAndSuspend, Leave
    <3> QED
      BY <2>3, <3>1, <3>2, <3>3, <3>4, <3>5, <3>6, <3>7 DEF HostStep
  <2>4. CASE HostsNext
    BY <2>3, <2>4 DEF HostsNext
  <2>5. CASE UNCHANGED vars
    BY <1>3, <2>5 DEF vars, hostVars, deployer, AtRest
  <2> QED
    BY <2>2, <2>4, <2>5 DEF Next
<1> QED
  BY <1>2, <1>3 DEF Over

LEMMA LoopStep ==
    ASSUME ExpectVersion = TRUE
    PROVE  OneInv /\ [Next]_vars => LoopInv'
<1> SUFFICES ASSUME OneInv, [Next]_vars, ring' = Order, NEW i \in DOMAIN Order, i < at'
             PROVE  Over(Order[i])'
  BY DEF LoopInv
<1>0. TypeInv /\ Order[i] \in Hosts \ AutoHosts
  BY Rings DEF OneInv
<1>1. CASE ring = Order /\ i < at
  <2>1. Over(Order[i])
    BY <1>1 DEF OneInv, LoopInv
  <2> QED
    BY <1>0, <2>1, OverStays
<1>2. CASE Order[i] = Host /\ VersionReached
  <2>1. ~Quiet(Order[i])
    BY <1>2 DEF VersionReached, Quiet
  <2>2. Order[i] \in fetched \ pending
    BY <1>0, <2>1 DEF OneInv, QuietInv
  <2> QED
    BY <1>2, <2>2 DEF VersionReached, Over, hostVars, deployer
<1>3. CASE Order[i] = Host /\ Pending /\ Host \notin pending
  BY <1>3 DEF Pending, Over
<1> QED
  BY <1>0, <1>1, <1>2, <1>3, LoopGoesOn

LEMMA TurnStep == OneInv /\ [Next]_vars => TurnInv'
<1> SUFFICES ASSUME OneInv, [Next]_vars, NEW i \in DOMAIN Order, NEW j \in DOMAIN Order,
                    i < j, Order[j] \in fetched' \ pending'
             PROVE  Over(Order[i])'
  BY DEF TurnInv
<1>0. TypeInv /\ TypeOK /\ Order[i] \in Hosts \ AutoHosts /\ Order[j] \in Hosts \ AutoHosts
  BY Rings DEF OneInv, TypeInv
<1>1. CASE Order[j] \in fetched \ pending
  <2>1. Over(Order[i])
    BY <1>1 DEF OneInv, TurnInv
  <2> QED
    BY <1>0, <2>1, OverStays
<1>2. CASE Order[j] \notin fetched \ pending
  <2>1. Accept /\ Order[j] = Host
    BY <1>0, <1>2, OnlyAccepts
  <2>2. ring = Order /\ at \in DOMAIN Order /\ Order[j] = Order[at]
    <3>1. ring = Order
      BY <2>1 DEF OneInv, TypeInv, FleetInv, Accept
    <3> QED
      BY <2>1, <3>1, <1>0, HostOfRing DEF Host
  <2>3. j = at
    BY <2>2, Rings
  <2>4. Over(Order[i])
    BY <2>2, <2>3 DEF OneInv, LoopInv
  <2> QED
    BY <1>0, <2>4, OverStays
<1> QED
  BY <1>1, <1>2

LEMMA InitOneInv == Init => OneInv
<1> SUFFICES ASSUME Init
             PROVE  OneInv
  OBVIOUS
<1>1. TypeInv /\ QuietInv
  BY InitSkewInv DEF SkewInv
<1>2. BusyInv
  BY DEF Init, HostInit, BusyInv
<1>3. LoopInv
  BY Rings DEF Init, LoopInv
<1>4. TurnInv
  BY DEF Init, HostInit, TurnInv
<1> QED
  BY <1>1, <1>2, <1>3, <1>4 DEF OneInv

\* OneByOne: with EXPECT_VERSION, and for any fleet in any order, the rollout
\* never has two hosts of the fleet on their way to the new generation, but for
\* hosts on which some run found nothing pending, however many runs are cut
\* short and repeated and whatever comin, the gates and the operator do.
THEOREM FleetGoesOneByOne ==
    ASSUME ExpectVersion = TRUE
    PROVE  Spec => []OneByOne
<1>1. OneInv /\ [Next]_vars => OneInv'
  BY StepTyped, QuietStep, BusyStep, LoopStep, TurnStep DEF OneInv
<1>2. OneInv => OneByOne
  <2> SUFFICES ASSUME OneInv, NEW g \in Fleet \ skipped, NEW h \in Fleet \ skipped,
                      Deploying(g), Deploying(h), g # h
               PROVE  FALSE
    BY DEF OneByOne
  <2>1. PICK i, j \in DOMAIN Order : g = Order[i] /\ h = Order[j]
    BY Rings
  <2>2. i \in Nat /\ j \in Nat /\ i # j
    BY <2>1, Rings
  <2>3. g \in fetched \ pending /\ h \in fetched \ pending
    BY Rings DEF OneInv, QuietInv, Quiet, Deploying
  <2>4. ~Over(g) /\ ~Over(h)
    BY DEF Over, AtRest, Deploying
  <2>5. CASE i < j
    BY <2>1, <2>3, <2>4, <2>5 DEF OneInv, TurnInv
  <2>6. CASE j < i
    BY <2>1, <2>3, <2>4, <2>6 DEF OneInv, TurnInv
  <2> QED
    BY <2>2, <2>5, <2>6
<1> QED
  BY InitOneInv, <1>1, <1>2, PTL DEF Spec

----------------------------------------------------------------------------
\* Only what a step changes on a host can change the work that is left there.
LEMMA SameWork ==
    ASSUME NEW h \in Hosts,
           h \in fetched' <=> h \in fetched, h \in pending' <=> h \in pending,
           h \in queued' <=> h \in queued, status'[h] = status[h],
           gate'[h] = gate[h], h \in retryFlag' <=> h \in retryFlag
    PROVE  WorkLeft(h)' = WorkLeft(h)
BY DEF WorkLeft

\* A step of comin or the gate uses up work on its host and none on another.
LEMMA HostStepWorks ==
    ASSUME HostTypeOK, NEW g \in Hosts, HostStep(g)
    PROVE  \A h \in Hosts : /\ h = g => WorkLeft(h)' < WorkLeft(h)
                            /\ h # g => WorkLeft(h)' = WorkLeft(h)
<1> SUFFICES ASSUME NEW h \in Hosts
             PROVE  /\ h = g => WorkLeft(h)' < WorkLeft(h)
                    /\ h # g => WorkLeft(h)' = WorkLeft(h)
  OBVIOUS
<1> USE DEF HostTypeOK, deployer
<1>1. CASE h # g
  <2>1. UNCHANGED <<fetched, pending>> /\ (h \in queued' <=> h \in queued)
        /\ (h \in retryFlag' <=> h \in retryFlag)
    BY <1>1 DEF HostStep, Begin, Switch, SwitchFails, Ends, Retry, GiveUpRetrying, GatePasses,
       RollbackAndSuspend
  <2>2. status'[h] = status[h] /\ gate'[h] = gate[h]
    BY <1>1 DEF HostStep, Begin, Switch, SwitchFails, Ends, Retry, GiveUpRetrying, GatePasses,
       RollbackAndSuspend, Leave
  <2> QED
    BY <1>1, <2>1, <2>2, SameWork
<1>2. ASSUME h = g
      PROVE  WorkLeft(h)' < WorkLeft(h)
  <2> USE <1>2
  <2>1. CASE Begin(h)
    BY <2>1 DEF Begin, WorkLeft
  <2>2. CASE Switch(h) \/ SwitchFails(h)
    BY <2>2 DEF Switch, SwitchFails, Ends, WorkLeft
  <2>3. CASE Retry(h)
    BY <2>3 DEF Retry, Leave, WorkLeft
  <2>4. CASE GiveUpRetrying(h)
    BY <2>4 DEF GiveUpRetrying, Leave, WorkLeft
  <2>5. CASE GatePasses(h)
    BY <2>5 DEF GatePasses, Leave, WorkLeft
  <2>6. CASE RollbackAndSuspend(h)
    BY <2>6 DEF RollbackAndSuspend, Leave, WorkLeft
  <2> QED
    BY <2>1, <2>2, <2>3, <2>4, <2>5, <2>6 DEF HostStep
<1> QED
  BY <1>1, <1>2

\* The poller, an operator's resume and the script's accept only move work on.
LEMMA OthersAddNoWork ==
    ASSUME HostTypeOK, NEW g \in Hosts, Fetch(g) \/ ByHand(g) \/ Confirm(g)
    PROVE  \A h \in Hosts : WorkLeft(h)' <= WorkLeft(h)
<1> SUFFICES ASSUME NEW h \in Hosts
             PROVE  WorkLeft(h)' <= WorkLeft(h)
  OBVIOUS
<1> USE DEF HostTypeOK
<1>1. CASE Fetch(g)
  <2>1. CASE h # g
    <3>1. WorkLeft(h)' = WorkLeft(h)
      BY <1>1, <2>1, SameWork DEF Fetch
    <3> QED
      BY <3>1 DEF WorkLeft
  <2>2. CASE h = g
    BY <1>1, <2>2 DEF Fetch, WorkLeft
  <2> QED
    BY <2>1, <2>2
<1>2. CASE ByHand(g)
  BY <1>2 DEF ByHand, SuspendByHand, Resume, deployer, WorkLeft
<1>3. CASE Confirm(g)
  BY <1>3 DEF Confirm, WorkLeft
<1> QED
  BY <1>1, <1>2, <1>3

\* RetriesAreBounded for one step of the rollout: of the script only an accept
\* touches a host.
LEMMA BoundedStep ==
    ASSUME TypeOK, [Next]_vars, NEW h \in Hosts, hostVars' # hostVars
    PROVE  /\ WorkLeft(h)' <= WorkLeft(h)
           /\ HostStep(h) => WorkLeft(h)' < WorkLeft(h)
<1>0. HostTypeOK
  BY DEF TypeOK
<1>1. HostStep(h) => WorkLeft(h)' < WorkLeft(h)
  BY <1>0, HostStepWorks
<1> SUFFICES WorkLeft(h)' <= WorkLeft(h)
  BY <1>1
<1>2. WorkLeft(h) \in Int
  BY DEF WorkLeft
<1>3. ASSUME NEW g \in Hosts, HostStep(g)
      PROVE  WorkLeft(h)' <= WorkLeft(h)
  <2>1. CASE h # g
    <3>1. WorkLeft(h)' = WorkLeft(h)
      BY <1>0, <1>3, <2>1, HostStepWorks
    <3> QED
      BY <3>1, <1>2
  <2>2. CASE h = g
    <3>1. WorkLeft(h)' < WorkLeft(h) /\ WorkLeft(h)' \in Int
      BY <1>1, <1>3, <2>2 DEF WorkLeft
    <3> QED
      BY <3>1, <1>2
  <2> QED
    BY <2>1, <2>2
<1>4. CASE HostsNext
  <2>1. PICK g \in Hosts : HostStep(g) \/ Fetch(g) \/ ByHand(g)
    BY <1>4 DEF HostsNext
  <2>2. CASE HostStep(g)
    BY <2>2, <1>3
  <2>3. CASE Fetch(g) \/ ByHand(g)
    BY <2>3, <1>0, OthersAddNoWork
  <2> QED
    BY <2>1, <2>2, <2>3
<1>5. CASE Script
  <2>1. Confirm(Host) /\ Host \in Hosts
    BY <1>5, HostOfRing DEF Script, Start, Abort, DeployDone, Healthy, VersionReached, Precheck, Pending, Accept
  <2> QED
    BY <1>0, <2>1, OthersAddNoWork
<1>6. CASE UNCHANGED vars
  BY <1>6 DEF vars
<1> QED
  BY <1>4, <1>5, <1>6 DEF Next

\* RetriesAreBounded: whatever the script, the poller and the operators do in
\* between, each step of comin and of the gate on a host uses up some of the
\* work the new generation is worth there, and nothing adds to it: no host is
\* retried for ever, for any number of hosts.
THEOREM RetriesUseUpWork == Spec => RetriesAreBounded
<1>1. TypeOK /\ [Next]_vars =>
        [\A h \in Hosts : /\ WorkLeft(h)' <= WorkLeft(h)
                          /\ HostStep(h) => WorkLeft(h)' < WorkLeft(h)]_hostVars
  BY BoundedStep
<1> QED
  BY <1>1, RolloutTypeCorrect, PTL DEF Spec, RetriesAreBounded
=============================================================================
