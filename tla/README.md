# A verification project for nixos-configurations

This repository configures a fleet of NixOS hosts. Most of it is declarative and has no behaviour
over time; a handful of programs in it do, and they are the ones that can lose a user's files, lock
a host out of its own secrets or take a cluster down: the helper that attaches iSCSI volumes to
Coder workspaces, the script that replaces a host's age key, and the gate and the gatekeeper that
roll a new generation out. Two more, the LLM benchmarks, lose nothing but may mislead: what they say
of a server's prompt cache decides how it is run. This directory holds TLA+ models of them, TLC
configurations that check the models on small instances, and proofs of their most important
properties for every value of the constants.

Contents: [inventory](#1-inventory), [modules](#2-modules-and-how-they-correspond-to-the-code),
[runs](#3-runs), [assumptions and fairness](#4-assumptions-and-fairness), [proofs](#5-proofs), [what
the checks found](#6-what-the-checks-found), [limits](#7-what-is-not-modelled-and-known-limits),
[plan](#8-plan).

## 1. Inventory

### The components with behaviour of their own

**Coder iSCSI helper** (`pkgs/coder-iscsi-helper/helper.py`). A root service on llm01. Clients (the
Terraform provider of the workspace template, in another repository) send it HTTPS requests:
`acquire` and `release` a global lease, `provision`, `attach`, `detach`, `DELETE` a workspace. It
talks to TrueNAS (zvol, target, extent, association), to `iscsiadm`, `blkid`, `mkfs`, `mount` and
`podman`.

- *State.* The lease, as a cached dictionary (`_state`) and a file (`lease.json`); the threads of a
  `ThreadingHTTPServer`, each with the request it serves; the operation lock; and, outside the
  process, the objects on TrueNAS, the sessions, the file systems, the mounts, the containers.
- *Operations.* `acquire`, `authorize`, `release`, `clear_stale`; `provision`, `attach`, `detach`,
  `destroy`; the boot (`reconcile_stale_leases`).
- *Interaction.* A request is authorized against the lease, waits for the operation lock, makes one
  external call after the other, and a `DELETE` then releases the lease. Containers are started and
  stopped by someone else altogether.
- *What is hard.* Concurrent requests; nine calls of which any may fail half-way; a check that is
  minutes old when the operation runs; a cache that is assigned before the write that may raise;
  crashes and reboots between any two calls; lost answers and repeated requests.
- *Correct means.* At most one workspace is mounted; a mounted workspace is backed by all of its
  objects; nothing is orphaned; files disappear only by `DELETE`; a repeated `DELETE` finishes; the
  lease agrees with what clients were told, and no client's capability opens another's lease.

**Age key swap** (`scripts/titan-age-key-swap.sh`). Run by an operator on titan. It installs the
host's own key beside the old one, activates, installs it alone, activates again, checks the
secrets, destroys the old key.

- *State.* Shell variables (`INSTALLED`, `BACKUP`, `COMIN_WAS_ACTIVE`, the exit status), the files
  `KEY_DEST`, its backup in `$WORK`, `KEY_DEST.backup`, `KEY_FILE`; whether comin runs.
- *What is hard.* `set -e` with an EXIT/INT/TERM trap that reads `$?`; a key file rewritten in
  place; comin activating beside it; SIGKILL and reboots.
- *Correct means.* The old key is within reach until the new one is proved; a failed run restores
  it; success is reported only for a proved, narrowed key; comin never reads half a key file and
  runs again afterwards.

**Comin health gate** (`modules/nixos/comin-health-gate.nix`). comin, the GitOps daemon of every
host, calls it after each deployment. A failed deployment is submitted once more and then comin is
suspended; a deployment that is done is checked, and on a bad check rolled back, after which comin
is suspended.

- *State.* The retry flag; comin's queue, status and suspension; the running generation.
- *What is hard.* It runs after comin already shows `done`; its rollback target may have been
  collected; its commands may fail and nothing looks at their status.
- *Correct means.* Retries end; what it does to a host is visible to the gatekeeper.

**Comin gatekeeper** (`scripts/comin-approve.sh`). Run by an operator. Waits for the canaries to
have deployed, then accepts the pending deployment on the fleet host by host, control plane first.

- *State.* Its position in the two rings; everything else it reads over ssh.
- *What is hard.* Everything it reads changes under it; the status may be that of an earlier
  deployment; a host that has nothing pending may be done or may not have started.
- *Correct means.* No agent of the fleet runs a newer version than a server; the hosts of the fleet
  are deployed one at a time.

**LLM benchmarks** (`scripts/agent-benchmark.py`, `scripts/benchmark-agentic-cache.py`). The first
plays sessions of an agent whose prompt grows from turn to turn, over a streaming API, and reports
times; the second asks twice with the same beginning and reports whether the server kept it.

- *State.* Round, turn and history; the locals of the request in flight (first token, last token,
  latencies); the results. Behind both, the server's cache of prompts.
- *What is hard.* The prompt must repeat the one before it exactly, or a benchmark of the cache
  silently measures its absence (1242-1248 tell of such a bug); the nonces of `--cache-mode miss`
  must never repeat; a stream may stop, be rejected or bring chunks without text; a server with few
  slots forgets one client's prompt for the other's.
- *Correct means.* Hits can hit and misses miss; a rejection ends the run; the figures of a turn fit
  into its duration; the verdict on the cache is true of the server; a server that falls silent does
  not keep a run waiting for ever.

**Age key split** (`scripts/titan-key-split.sh`), **k3s snapshot monitor**
(`modules/nixos/k3s-snapshot-monitor.nix`), **static network and its watchdog**
(`modules/nixos/static-network.nix`), **Open-iSCSI preparation** (`modules/nixos/openiscsi.nix`),
**kubeconfig segregation** (`modules/home-manager/kube-segregation.nix`), **pi compaction fallback**
(`modules/home-manager/pi/extensions`): small programs with some state; not modelled yet, see the
plan.

### The rest

Host, home and service definitions are evaluated once and have no steps. Bootstrap and CI are lists
of commands for external tools. `nix-sweep` and the configuration of comin matter only through what
they do to the gate, which is a choice in its model. PROJECT.json lists all of them, and lists the
hazards of this code line by line with the properties that would show them.

## 2. Modules and how they correspond to the code

| Module | Models | Extends / instantiates |
|---|---|---|
| `GlobalLease` | the abstract lease: one atomic value, granted, released, cleared at boot | |
| `CapabilityStore` | `CapabilityStore` of helper.py: cache and file | refines `GlobalLease` |
| `CoderHelper` | the request handlers, one external call a step | extends `GlobalLease` |
| `CoderWorkspaces` | the helper with one client per workspace | extends `CoderHelper` |
| `TitanAgeKeySwap` | the key swap with its trap, beside comin | |
| `CominHealthGate` | comin and the gate on every host | |
| `CominRollout` | the gatekeeper beside the hosts | extends `CominHealthGate` |
| `InferenceServer` | a server that keeps prompts, as the benchmarks see it (external) | |
| `AgentBenchmark` | agent-benchmark.py | extends `InferenceServer` |
| `CacheBenchmark` | benchmark-agentic-cache.py | extends `InferenceServer` |
| `LlmBenchmarks` | both scripts against one server | extends both |
| `MC*` | constants and symmetry sets for TLC | the module named |
| `*_proofs` | theorems | the module named, `TLAPS` |

### The helper

*Lease.* `lease` in `GlobalLease` is `{}` or one pair of workspace and capability. `CapabilityStore`
splits it into `mem` (the `_state` dictionary, with a value for "not loaded") and `disk`
(`lease.json`). Each public method is one step, because all of them hold one `RLock`; what is split
off is what can really come between: a write that fails after the cache was assigned
(`AcquireWriteFails`, `ReleaseWriteFails`), an answer that never arrives, the death of the process.
The refinement mapping is `lease <- Current`, where `Current` is what `_load` returns: the cache if
there is one, else the file. Boot is three actions, `ListContainers`, `ListingFails` and
`ClearStale`, as `reconcile_stale_leases` reads the containers and acts on them in two steps.

*Handlers.* In `CoderHelper` a thread has a program counter that names the external call it makes
next (`"dataset"`, `"create_zvol"`, ... `"format"`, `"mount"`, ... `"del_zvol"`). What the code
keeps in local variables between two calls is only used to choose later calls, so it is in the
counter, but for the targets that `destroy` found first, which the request keeps. `Arrive` is
`_dispatch` up to the authorization, `Enter` takes `_op_lock`, `Fail` is any exception of any call:
the `with` block releases the lock and the request answers an error. A call that took effect and
then reported a failure is that call followed by `Fail`. `ReleaseAfterDestroy` is the release of the
lease that `_dispatch` does after `destroy` has returned and the lock is free again. `nas[w]` is the
set of TrueNAS objects of a workspace, `session`, `mounted` and `running` are sets of workspaces,
`fs[w]` is what its zvol holds. `Unidentified` is the set of contents on which `blkid` may exit
nonzero: with `{"blank"}` it answers as one hopes, and one run shows what happens otherwise.
`SeemsUnmounted` is `is_mounted` (413-415), for which a `mountpoint -q` that fails is a place where
nothing is mounted; it can fail if `MountpointErrs` is TRUE.

*Clients.* The client is outside this repository. `CoderWorkspaces` models it from what the design
document and the plan in `docs/superpowers` require: acquire, provision or attach, start the
container; stop it, detach, release; DELETE until it is answered 200; never release before detach or
DELETE has succeeded. `client[w]` is its phase and `awaits[w]` the request whose answer it is
waiting for. The constants `Crashes`, `ClientTimeouts`, `LostAnswers` choose the faults.

### The key swap

`pc` is the next command of the script. `put_key` is split in two, `PutKey` (the file is truncated
or unlinked) and `KeyWritten`, because everything that runs beside the script can happen in between;
the copy in `cleanup` is split likewise. A key file is the set of identities in it, and a
half-written one has a proper subset. `activate` succeeds only if some identity in the file opens
the secrets of the running generation (`gen`). `Die` is every way into the EXIT trap: `die`, or `set
-e`. `Signal` runs the trap between two commands with either status, since `rc=$?` is then that of
whatever ran last (`Interrupt` is a ^C that also kills the command that is writing a file); the
`exit` at the end of the trap then runs the EXIT trap a second time (`trapped`). The `wipe` of
several files is one step: only the backup is ever asked about.

### The rollout

One new generation is pushed. Per host, `fetched`, `pending`, `queued`, `status`, `suspended` are
what `comin status --json` shows, `system` is the generation that runs, `gate` is whether the gate
runs and with which status. The gate's checks are one choice: pass (healing included) or give up.
`Retry` is the first failure, `GiveUpRetrying` the second, `RollbackAndSuspend` the function of that
name with its three branches; `comin suspend` and `submit-latest` may fail, and nothing notices. The
gatekeeper has a program counter and a position in one of two sequences (`ring`, `at`); each probe
is a step that reads one host, and any probe may end the run (`Abort`). Runs can be repeated any
number of times. `ByHand` is an operator who runs `comin suspend` or `comin resume` on a host, at
any time, in the middle of a run as well (24-27 ask for both). A step `Ends` both sets the status
and starts the gate: comin shows `done` while the gate still runs, which is why a host may be
suspended after the script has asked.

### The benchmarks

A prompt is a sequence of messages and a message a tuple of the words and numbers that make it
differ from others: `<<"system", round, turn>>` is the system prompt with the nonce of that turn.
What is left out is what the messages say. `Reuse(p)` is the length, in messages, of the longest
prefix of `p` that some kept prompt begins with; `Remember` lets the server drop any prompts but
those it is working on. `Ask` is the request of a turn, `OllamaLine` and `OpenAiLine` one data line
of the answer (`Read`, `TokenRead` are what `measure_turn_*` does with it), `EndTurn` the
bookkeeping of `run_benchmark` after a turn, `EndRefused` its early return, `AgentDies` and
`ErrorBodyRaises` the exceptions that nobody catches. A stream has three futures besides its end: it
breaks (`AgentDies`), it falls silent (`Silence`, and after 600 s without a byte `TimeOut`), or it
goes on. Both scripts skip lines that are not data, and such lines are no steps; but each byte
starts the time limit anew, so that a script may stay in its stream for ever. The clock of a turn
counts lines, so that two chunks in a row are one tick apart. `Percentile` and `TwiceMedian` are
`BenchmarkResults.summary`; `Sorted` gives the k-th place to a value with fewer than k values below
it (`Below`) and at least k up to it (`UpTo`), of which there is just one. In `CacheBenchmark` the
two turns of a round are `SendTurn1`, `Answer1`, `SendTurn2`, `Answer2`; `CacheN` is what
`extract_metrics` finds, which depends on what the server says of cached tokens (`figures`):
nothing, or a count, with or without the tokens that the chat template puts before every prompt
(`Template`). `kept` in a round records whether the server still had all of turn 1 when turn 2 was
asked, which the script cannot know and which its verdict is compared with; that verdict is whether
*any* token of turn 2 was cached (`Retained`). `CacheSilence` and `CacheTimeOut` are as above, with
120 s for each read.

## 3. Runs

| Run | Module / cfg | Shows |
|---|---|---|
| `store` | `CapabilityStore` | Types; answers are durable until a write fails; capabilities stay private whatever fails; a boot spares a container that never stopped; cache and file refine the atomic lease. |
| `write_fault` | `CapabilityStore` | **violated**: `DurableStore`, once a write may fail. |
| `helper` | `CoderHelper` | Types; no orphans; mounts are backed; only DELETE loses data; the handlers refine the lease. |
| `unidentified` | `CoderHelper` | **violated**: only DELETE loses data, when blkid fails on a device with files. |
| `exclusive` | `CoderWorkspaces` | At most one workspace mounted; a container has its mount and its lease; a mounted workspace never loses its lease; a DELETE that was answered left nothing. |
| `retry` | `CoderWorkspaces` | A repeated DELETE is completed in the end. |
| `restart_overlap` | `CoderWorkspaces` | **violated**: at most one mounted, when the service restarts between mount and container start. |
| `keyswap` | `TitanAgeKeySwap` | Old key in reach; failed runs restore; old key destroyed last; success is proved; comin reads whole keys and is put back. |
| `keyswap_write_fault` | `TitanAgeKeySwap` | **violated**: every failed run restores, when a write may fail. |
| `rollout` | `CominRollout` | Types; skew only where a server was skipped or given up on; fleet hosts that no run skipped are deployed one at a time; each step of a host uses up work, and retries end. |
| `rollout_skew` | `CominRollout` | **violated**: no agent of the fleet ahead of a server. |
| `benchmarks` | `LlmBenchmarks` | Types; hits reuse the whole last prompt and misses nothing; a noticed rejection ends the run; times fit and percentiles bracket; the cache verdict is true but for the tokens of a chat template; each step uses up work, and both scripts end unless an answer goes on for ever. |

*Bounds.* Each is a constant of a cfg.

- Two workspaces and two capabilities in the store: every interaction it has is between the holder
  and one other, and a second token is what a stale one is told apart from.
- One workspace and two threads in `helper`: the operation lock is global, and all that a handler
  reads or writes belongs to its own workspace, so what two requests of *one* workspace do to each
  other is the hard case. The proofs are for any number of both.
- Two workspaces, two capabilities and two threads in `exclusive`, with at most two failing calls
  (`MaxFaults`): mutual exclusion needs two workspaces and a request of each; the second fault is
  there so that the retry of a failed request can fail.
- Three faults in `retry`, one workspace: enough to fail a DELETE, crash its retry and time out.
- Two identities in the key swap, the admin's and titan's: the script tells no more apart. Signals,
  kills and reboots are not bounded, and runs can follow one another.
- One canary, one server, one agent in the rollout, and any number of runs. The proofs are for any
  rings. Any host may have been suspended before; the canary is the one that the operator holds back
  in between (`Held`), as 24-27 have it, and the server is the one that may start without a
  deployment shown (`Fresh`) or with the retry flag of an earlier generation (`Flagged`). More of
  each multiplies the states and shows nothing new, and the proofs are for any such sets.
- `MountpointErrs` is FALSE in all runs. With TRUE, `CoderHelper.cfg` still satisfies `TypeOK`,
  `NoOrphans` and `ImplementsGlobalLease`; section 6 says what fails.
- Two rounds of two turns, answers of at most two lines, two slots, one round of the cache benchmark
  (its default). Two turns are what a prefix takes, two rounds what a repeated nonce would take; two
  lines give a chunk without text before or after one with; with two slots each script can push out
  what the other one left. The proofs are for any of these numbers.

*Deadlock* is checked in every run but two. `benchmarks` stops when both scripts have ended. In
`exclusive` a client that has lost the answer to an acquire may wait for ever for a lease that
nobody can release, and once faults and tokens are used up nothing else moves. `retry` has no
deadlock only because it excludes that fault.

*Mutants.* PROJECT.json names, for every property of every passing run, a small change to one
definition that breaks it, e.g. a `destroy` that skips the target, a `_persist` that does not write,
or an `INSTALLED` that is never set. They are defined next to the original as `Mut...` and are part
of no specification.

## 4. Assumptions and fairness

The models take the following for granted. What a check shows holds under these only.

- SHA-256 is injective; a rename that returned survives a reboot.
- Nothing but the helper changes the objects it manages. `umount` of a busy mount is one of the
  failing calls. Sessions and mounts do not survive a reboot. `mkfs` refuses a mounted device.
- A TrueNAS request takes effect before its answer or not at all; one that timed out does not take
  effect later.
- systemd runs one helper process.
- Where a property of the helper needs it, that blkid identifies what it must not format
  (`Unidentified`) and that `mountpoint -q` does not fail on a mount (`MountpointErrs`). The
  theorems that need them state them as hypotheses.
- Activation of the running generation leaves a stopped comin stopped, and `switch-to-configuration`
  exists in it.
- comin runs one deployment at a time, shows the status of the last one until the next begins, and
  shows it before the gate has ended.
- The version that the API server reports for a node is the one of its running generation.

- An inference server reuses only whole messages from the beginning of a prompt, and keeps a prompt
  while it works on it. It reports the cached tokens of each answer or of none.

*Fairness.* Only the four liveness properties use it.

- `WorkspacesFairSpec` (for `DeleteConverges`): weak fairness of each thread's next step. The code
  justifies it: every TrueNAS request has a timeout of 30 s and every command one of 120 or 300 s
  (`helper.py` 237, 335-348), so a handler never stays at a call, and the operation lock is released
  on every way out. Weak fairness of the boot: systemd restarts the unit. Weak fairness of the
  client that was asked to delete: it repeats, acquiring the lease again when it has to; this is
  what the plan demands of the template. Nothing is assumed of failures except that they are bounded
  (`MaxFaults`), i.e. that they stop.
- `HostFairness` (for `RetriesEnd`): weak fairness of comin and the gate on each host. The deployer
  works off its queue, a switch ends, and each wait of the gate is bounded (the halogen wait by
  `halogenWarmupSec`, 82-90). The script is given no fairness: it may stop anywhere.
- In `LlmBenchmarks` (for `AgentEnds` and `CacheEnds`) the fairness is only that a script goes on to
  its next request, and that its time limits expire once no byte comes any more: 600 s in
  agent-benchmark.py (`sock_read`, 1177), 180 s for the whole of its warm-up (1185), and 120 s in
  benchmark-agentic-cache.py, where httpx, requests and urllib all apply it to each read (188, 203,
  242, 287). The server owes nothing: not the next byte, not the end of a stream, and not a
  connection that breaks. Both properties therefore except the answer that goes on for ever.
- `MaxLines` bounds the data lines of one answer, as for a server that honours `max_tokens`.
  `AgentIsBounded` and `AgentRunsAreBounded` are about such servers.

## 5. Proofs

All theorems are checked by tlapm with Z3, Zenon and LS4, and hold for every value of the constants
that satisfies the named ASSUMEs (`UnidentifiedAssumption`, `FaultsAssumption`,
`IdentitiesAssumption`, `AutoAssumption`, `OrderAssumption`, `SlotsAssumption`, `AgentAssumption`,
`CacheAssumption`, `MountpointAssumption`) and the hypotheses stated in the theorem.

**`CapabilityStore_proofs`.** `StoreTypeCorrect`. `CapabilitiesStayPrivate`: `PrivateCapability` is
not inductive, since it says nothing of the tokens that clients know and no lease holds; the
invariant `PrivateInv` adds that no two clients were given the same one (`OwnCapabilities`).
`AnswersAreDurable`: the invariant `DurableInv` adds that, until a write has failed, a cache that is
loaded equals the file; that is what makes a crash harmless. `StoreImplementsGlobalLease`: under the
same invariant every step of the store maps to a step of the lease, the death of the process to
`Crash` with the lease unchanged (`RefinementStep`). `BootKeepsSteadyHolder`: `SteadyInv` says that
the containers which ran ever since the service died are in the listing it works from, and that
nothing loads the file before that; it needs no assumption on writes.

**`CoderHelper_proofs`.** `HelperTypeCorrect`, one lemma per operation. `StorageInvariant` proves
the inductive invariant behind the safety properties: one thread at most is in an operation and it
holds the lock; the objects of a workspace are an initial segment of the order of creation; a
session and a mount are backed by the objects they need; and *what each thread in an operation still
knows*: at each call, which objects its earlier calls have made certain (a thread about to create
the extent knows that zvol and target exist; one about to delete the zvol knows that the rest is
gone). Its step lemmas (`ProvisionKeeps`, `MountKeeps`, `DetachKeeps`, `DestroyKeeps`) are one per
operation; `OthersUndisturbed` says that a step of the thread in the lock disturbs no other thread.
`NoOrphansEver`, `MountsAreBacked` and `OnlyDeleteLosesDataEver` follow; the last assumes that blkid
identifies a device that holds data (`Unidentified` within `{"blank", "ext4"}`), which is the
hypothesis the run `unidentified` shows to be needed. The last two assume `MountpointErrs = FALSE`:
what the invariant says of mounts is conditional on `MountpointTells`, and the rest of it, with
`NoOrphansEver` and the refinement, holds also when `mountpoint -q` lies.
`HelperImplementsGlobalLease`: the only step of a handler that changes the lease is the release
after a DELETE, and a thread there still has a request whose capability `Release` checks again
(`RequestsKept`).

**`CoderWorkspaces_proofs`.** `WorkspacesUseTheHelper`: the composition with clients is a behaviour
of the helper, so that all of `CoderHelper_proofs` holds of it. `WorkspacesTypeCorrect`, whatever
faults happen. The invariant of helper and clients comes in two parts, because they need different
hypotheses; both need `MountpointErrs = FALSE`, without which a deleted workspace may still be
mounted.

`Served` is what remains true whatever fails and however often the service crashes or the host
reboots, as long as clients wait for their answers (`ClientTimeouts = FALSE`; a client that gives up
may have two requests at work). `Outstanding`: each workspace has at most one request in flight, the
one its client waits for. `Asked`: that request fits the client's phase. `Achieved`: a request that
ended well has mounted, unmounted or deleted. `Settled`: what a client believes mounted is.
`WorkspacesAreServed` proves it, and from it follow `DeletedMeansGone`, since nothing touches a
workspace between its `destroy` and the answer; `ContainersRunOnTheirMount`; and
`MountsKeepTheirLease`, which says that a mounted workspace can lose its lease in one step only, a
boot that lists no container of it. That is the very step of `restart_overlap`: the theorem shows
that nothing else leads there.

`Leased` is that a client from the grant on, a request in work, and above all a mounted workspace
has the lease. It needs `Crashes = FALSE` besides, as the boot refutes it; failing calls and lost
answers are still allowed. `WorkspacesExclude` proves it together with the first part. The lease is
one, so the mounts are (`OneMountEver`); a container runs only in phase `active`, so on its mount
and lease (`ContainersHoldLeases`).

**`TitanAgeKeySwap_proofs`.** `SwapTypeCorrect`. `OldKeyStaysInReach` by `ReachInv`, which says for
each command where the old key is while nothing is proved. `FailedRunsRestore`,
`OldKeyDestroyedLast`, `SuccessMeansProved` by `RunInv`, the phases of a run in which no write fails
and no signal comes. `CominNeverReadsHalfAKey` by `CominInv` (comin is stopped from `save` to
`startComin`) and `CominIsPutBack` by `PutBackInv` (a comin that was running is running or noted).

**`CominRollout_proofs`.** `RolloutTypeCorrect`. `SkewIsExplained`, for a fleet in servers-first
order with `EXPECT_VERSION`: `SkewInv` adds that a host which was not accepted is quiet
(`QuietInv`), that every server the loop has passed runs the new generation, was skipped or was
given up on (`PassedInv`), and so has every server if any agent was accepted (`AgentsInv`).
`BehindStays` is the key lemma: a server once fit stays fit, as only a rollback takes it back.
`FleetGoesOneByOne`, for either order, with `EXPECT_VERSION`, by `OneInv`: a host of the fleet is
`Over` when some run skipped it, or it was confirmed and runs the new generation or has nothing left
that could deploy; every host the loop has passed is over (`LoopInv`), and so is every host before
one that was confirmed (`TurnInv`). `OverStays` is its key lemma. Of two hosts being deployed the
later one is confirmed, so the earlier one is over, which it is not. `RetriesUseUpWork`:
`WorkLeft(h)` bounds the steps that comin and the gate may still take on a host, up to the end of
the retry; each of their steps lowers it (`HostStepWorks`) and no step of the script, the poller or
an operator raises it (`OthersAddNoWork`), an accept or a resume in the middle of a retry included.

**`AgentBenchmark_proofs`** is about what agent-benchmark.py computes. The library's induction
theorems are out of reach for the provers, so what takes an induction goes by a least
counterexample: a nonempty set of naturals has a least element (`LeastOf`, from the library's
well-foundedness of `<`), and the one before it is none. That gives the function by which the
community modules define a fold (`FoldExists`) and that a sum grows by each element that is appended
(`SumOfAppend`). The invariant behind `TurnTimesFit` is `TimesAdd`: the latencies *are* the time
from the start to the last token, not just at most that. `SortedSorts` shows that `Sorted` has a
value for every place, rises, and has as many elements up to any value as the list has, so it is the
sorted list. `Brackets` derives from it what a summary's percentile and median are worth.

**`LlmBenchmarks_proofs`.** `ReuseIs` and `SameFirst` say what the cache can give: prompts that
share anything share their first message. On that rest `MissesMiss`, whose invariant `Fresh` says
that every nonce in the cache is one of a turn gone by, whoever else uses the server, and the
independence of the two scripts, whose prompts begin differently (`PromptsDiffer`). `TurnsReuse`: in
hit mode the history continues the last request (`Continues`). `RejectionsEndRuns` by
`NoneRejected`; `VerificationsAreExplained` and `AlertsAreExplained` by `Truthful`, which relates
each round's report to what the server had kept. For an alert the hard case is that turn 2 begins
with turn 1, so that a server which kept turn 1 reuses it. For the opposite verdict it is that a
single cached message proves all of turn 1 cached: `Opened` says that whatever is kept and begins
like this script's prompts goes on with all of turn 1, whoever else uses the server.
`BenchmarksTypeCorrect` includes that the server never keeps more than `Slots` prompts nor drops one
it works on (`AgentServed`, `CacheServed`).

`TurnsAreTimed` and `SummariesBracket` bring the lemmas of `AgentBenchmark_proofs` to every run, for
answers and sessions of any length. `AgentRunsAreBounded` and `CacheRunsAreBounded`: each step
lowers `AgentWork` or `CacheWork`, the number of steps the options still allow, which needs that a
script which still runs has a turn or a round left (`TurnsAreLeft`).

Every invariant and every action property of a passing run is thus stated by a theorem. Only
model-checked are the four liveness properties, `DeleteConverges`, `RetriesEnd`, `AgentEnds` and
`CacheEnds`: fairness and ENABLED are beyond the prover. Of the last three the safe half is proved,
by `RetriesAreBounded`, `AgentIsBounded` and `CacheIsBounded`: their steps run out. What fairness
adds is that the next step is taken. `DeleteConverges` has no such half: before the DELETE its
client may mount and unmount the workspace any number of times.

## 6. What the checks found

Five disagreements between the code and what the repository says of it; each is a run that ends in a
counterexample, with the quotation in PROJECT.json.

1. `helper.py:191`: the cache is assigned before the write; a failed write answers a retry from the
   cache with 200, and a restart brings the old lease back (`write_fault`).
2. `helper.py:397`: every nonzero exit of blkid means "empty", so an unreadable device is formatted
   (`unidentified`).
3. `helper.py:206`: boot clears the lease of a holder that has no container yet and leaves it
   mounted; the next workspace is mounted beside it (`restart_overlap`).
4. `titan-age-key-swap.sh:258`: `put_key` may fail before `INSTALLED=1`; the cleanup restores
   nothing and wipes the backup of the old key (`keyswap_write_fault`).
5. `comin-approve.sh:249`: a server whose comin has not fetched the generation yet has nothing
   pending and is skipped; the agents behind it are accepted (`rollout_skew`).

Others are visible in the models, or were met while reading, without a run of their own.

- `helper.py:716`: the capability is checked before the wait for the operation lock and not after
  it, so an operation may start under a lease that a DELETE ahead of it has released; the design
  document (`docs/superpowers/specs/2026-08-08-coder-workspaces-llm01-podman-design.md:118`) has
  operations reject a mismatched capability before they touch TrueNAS or a mount.
  `WorkspacesExclude` shows that clients which keep the documented order never come to it.
- With `LostAnswers = TRUE`, `DeleteConverges` fails: a lease whose capability was lost on the way
  can be presented by nobody until a restart clears it.
- `helper.py:413`: `is_mounted` takes any failure of `mountpoint -q` for "not mounted", as
  `filesystem_type` does with blkid. With `MountpointErrs = TRUE` in `CoderHelper.cfg`,
  `MountedIsBacked` and `OnlyDeleteLosesData` fail: `destroy` skips the `umount`, logs out and
  deletes the zvol under the mount.
- `LeaseLock` (`helper.py:611`), the lock between processes, is never taken.
- `comin-approve.sh:24-27` tells the operator to suspend comin on the canary k8s-node05 before a k3s
  upgrade is merged and to "resume it once the servers have converged". But the script waits for
  every canary and aborts on a suspended one (215-220) before it accepts a server, so the servers
  never converge while node05 is held, unless it is taken out of `CANARY_RING` (9) for that run. If
  node05 is not held, it is an agent ahead of all servers: `SkewExplained` is about the agents that
  the script accepts.
- The suspension is asked for once per host (215, 262), after comin shows `done` and while the gate
  still runs. A host that the gate suspends after that is passed like a healthy one.
- In the key swap a signal may find `$?` = 0: the trap then restores nothing, wipes the backup and
  exits with 0; `SuccessIsProved` holds only without signals, and a ^C in the middle of `put_key`
  loses the old key as a failing write does. Its comment (28-29) says that the script shreds
  `KEY_FILE` also when it refuses; the only `wipe` of it is the one at the end (305).
- `agent-benchmark.py` stops "the whole benchmark on a server rejection" (1226), but
  `measure_turn_ollama` (956-1012) never looks at the status, so a rejected Ollama request is a turn
  like any other: `RejectionEndsRun` excepts it. An error message that is empty (`{"error": ""}`)
  counts as none, and any exception loses the results so far.
- The nonces of `--cache-mode miss` are the same in every run of the script. `MissesMiss` is about
  one run against a server that starts empty; a second run against a server that still has the
  prompts of the first does hit.
- Neither benchmark limits a whole answer: `total=None` (`agent-benchmark.py:1177`), and a `timeout`
  for each read (`benchmark-agentic-cache.py:188`). A server that sends a line now and then, a
  comment that keeps the connection alive for example, keeps either script waiting for ever, without
  any output.
- `cache_retained` (`benchmark-agentic-cache.py:434`) is "any token cached". Where the chat template
  begins every prompt with the same tokens, a server that has dropped turn 1 for another client's
  prompt may still count these, and the report calls prefix caching functional (501-503).
- The ALERT of `benchmark-agentic-cache.py` lists causes in the server only (504-509).
  `AlertIsExplained` needs one more, a server that says nothing of cached tokens in a stream, which
  the script does not ask it to.
- `--context-size` no longer has an effect on the tool results, which are fixed at 500 tokens
  (1251-1257); `scripts/README.md` (19, 29) says they are budgeted by it.

## 7. What is not modelled, and known limits

- Of the helper: TLS, JSON and configuration, the validation of names, and `LeaseLock`, which
  nothing uses. Late effects of timed-out TrueNAS requests.
- Of the key swap: `--no-activate`, and how the checks decrypt; a check accepts only what the
  property needs and may refuse anything. That a switch by NixOS may itself start comin.
- Of the gate: the single health checks, their healing and their own races (the wipe of the iSCSI
  database checks for sessions first); log output.
- Of the rollout: a second generation pushed while the first is rolled out, so neither that `accept`
  takes whatever is pending by then nor that the retry flag is set for one generation and found with
  the next (that it may be there from the start is modelled); hosts that are no cluster nodes are
  not told apart (each has a Ready wait that always passes).
- Of the benchmarks: what prompts and answers say, tokens (two prompts that differ in a message may
  still share some of its first tokens), the adaptive estimates of a prompt's size, the formats of
  the four APIs, options, printing. Earlier prompts in the server's cache.
- Of the rest: see the inventory and PROJECT.json.

## 8. Plan

Done: the helper bottom up (`GlobalLease`, `CapabilityStore`, `CoderHelper`, `CoderWorkspaces`),
then `TitanAgeKeySwap`, then `CominHealthGate` and `CominRollout`, each with its runs and its
proofs, in the order of what can be lost: files, then access, then availability. After them the
composition of helper and clients was proved, and the benchmarks were modelled and proved. The
proofs now cover every invariant and action property of the runs.

Next, in this order:

1. `CominRollout` with two generations: the retry flag, `accept` and the expected version under a
   push in the middle of a rollout. With one, the run has 700,000 states; a second one that only the
   agent gets to see makes that 13 million, before liveness, so the model has to be cut first, for
   instance into one host with its gate and a rollout over abstract hosts.
2. `NodeStorage`: the iSCSI check of the gate, `openiscsi.nix` and the sessions of a node: the wipe
   of the node database never races a login; healing ends.
3. `TitanKeySplit`: the trap of `titan-key-split.sh`; no plaintext is left in the repository,
   whatever fails.
4. `SnapshotMonitor` (a metric never claims a snapshot that was not verified) and `StaticNetwork`
   (the watchdog against activation), if they prove to have enough behaviour.

Runs are kept few, one per question. The abstract specification still worth stating is that of a
rollout: a fleet moves from one generation to the next in an order in which no agent is ahead of a
server, which the gatekeeper refines where no host is skipped.
