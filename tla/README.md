# Verification of node-operator

TLA+ models, TLC runs and TLAPS proofs kept beside the node-operator
repository. The repository operates Ethereum Hoodi validators on a private
Kubernetes cluster: it installs the infrastructure, brings up Vault and the
remote signer, activates validator clients, runs recovery ceremonies and
records evidence. Source paths below are relative to the repository.

Ten parts are modelled. They are the ones in which independent actors and
failures meet and a mistake costs most: two signers for one validator key, an
audit record that vanishes, a cluster-admin grant that nobody takes back, a
root token that stays live, a signer left without its role, a client left
running by a failed activation, data without its key.

| part | modules | checked | proved |
| --- | --- | --- | --- |
| Signing-fence Lease protocol and its release | `ExclusiveAuthority`, `FenceLease`, `MCFenceLease`, `FenceLeaseProofs` | safety, action properties, refinement | all of its safety and the refinement |
| One signing-fence process | `FenceProxy`, `MCFenceProxy`, `FenceProxyProofs` | safety, action property, liveness | all but liveness |
| Validator client activation | `Activation`, `MCActivation`, `ActivationProofs` | safety, action property | all of it |
| Vault audit relay | `AuditRelay`, `AuditRelayProofs` | safety, delivery | all of its safety |
| Guided Vault platform of the installer | `VaultPlatform`, `InstallerStagesProofs` | safety, liveness | all of its safety |
| Installer stages, with the guided Vault platform | `InstallerStages`, `InstallerStagesProofs` | safety, action property, refinement, liveness | all of its safety and the refinement |
| Vault ceremony | `VaultCeremony`, `GuidedReleaseProofs` | safety, action properties | all but the finding |
| Guided release, with bootstrap and ceremony | `GuidedRelease`, `GuidedReleaseProofs` | safety, liveness | all of its safety, and that it implements the ceremony |
| UC-5 ceremony | `RoleCustody`, `Uc5Ceremony`, `MCUc5Ceremony`, `Uc5CeremonyProofs` | safety, action properties, refinement | all but the finding |
| Deletion of a deployment | `Cleanup`, `MCCleanup`, `CleanupProofs` | action properties, liveness | all but liveness |

## 1. The system

### 1.1 Components

**Signing fence** (`cmd/validator-signing-fence`, a sidecar of the validator
client). State: the holder identity (namespace, Pod, UID), the resource version
and deadline of the authority it holds, `fenced`, the set of open connections,
the pinned client and the watchdog timer. Operations: `acquireOrRenew`
(GET the Lease, decide, PATCH with tests on holder and resource version),
`serve` (accept, admit, register, proxy to the signer), `renewLoop`, `trip`,
health server, `main`. It interacts with the API server over HTTP, with other
fences only through the Lease, with the client and the signer over TCP.
Hard: skewed clocks; PATCHes that are late, lost or answered to nobody; a
restart under the same UID; goroutines that race with `trip`; a renewal that
hangs. Correct when: at most one Pod at a time can reach the signer; authority
never outlives what the Lease shows; a fenced process forwards nothing and
exits.

**Release of an expired Lease** (`scripts/ops/release-expired-hoodi-validator-fence-lease.sh`).
State: two observations of a quiescent validator and the Lease it read.
Operation: clear the holder by a PATCH with tests. Correct when: it never takes
authority from a live fence.

**Vault audit relay** (`cmd/vault-audit-relay`, a sidecar of Vault). State: an
offset in the audit file, the open socket connections, a bounded channel. Operations:
`tailFile`/`followFile`, `readRecords`, `writeRecords`. Interacts with Vault
through a file and a Unix socket, with the log collector through stdout. Hard:
appends that become visible in parts, records beyond the buffer, a full
channel, restarts. Correct when: each device's records reach stdout in order,
once, and none is lost that should not be.

**Installer** (`scripts/release/interactive_deploy.py` and `installer_*.py`).
State: a private state directory with `checkpoint.json` (one status per
stage), inputs, saved Terraform plans, attempt and success markers, receipts of
the mirror and of the platform build. Operations: one resume command per stage
(infrastructure, SSM access, Vault) and the guided continuation of the Vault
platform. Interacts with AWS by `terraform`, `aws` and CodeBuild. Hard: every
invocation may die between a change in AWS and the file that records it, and
Terraform may outlive it. Correct when: one Terraform works at a time, nothing
uncertain is repeated, stages and evidence are true, no stage takes away what a
later one has made, temporary authority is given back.

**UC-5 ceremony** (`scripts/ops/run-hoodi-uc5-ceremony.py`, `scripts/ops/lib/uc5-*.py`).
State: a maintenance marker in the cluster, the runtime role in Vault, the
replicas and Pods of client, fence and signer, a recovery root token, and the
locals of `run()`. Operations: take the marker, capture, fence the client, stop
the signer, verify, delete the Vault role, prove that signing is denied,
restore, recover, and a `finally` block that undoes what was begun. Later
`prepare-activation` takes the marker again and collects evidence. It interacts
with the API server and with Vault. Hard: a failure or an interrupt at every
call, changes whose answer is lost, requests that land after their sender has
moved on. Correct when: one invocation maintains at a time, nothing runs on a
role that is cut, and the marker and the root token outlive no damage.

**Validator client activation** (`scripts/ops/activate-hoodi-validator-client.sh`).
State: the replicas of client and fence, their Pods, UC-5's maintenance marker,
a receipt. Operations: preflight, confirmation, two compare-and-swap scale-ups
with their observations, the receipt, and a trap that rolls back. Hard:
activations that overlap, PATCHes without an answer or too late, a ceremony
that begins meanwhile. Correct when: a failed activation leaves nothing of its
own up or says so, and nobody takes down what runs but who may.

**Guided release** (`scripts/release/interactive-hoodi-release.sh`,
`interactive-hoodi-resume.py`). State: a working directory with a receipt (the
lifecycle phase, the custody it is bound to, what is prepared), a lock, and the
completion receipts of its ceremonies. Operations: go from phase to phase; after
an interruption, resume. It runs the platform bootstrap, the Vault ceremony,
audit, custody and activation as children. Hard: it may die between what a
child did and the phase that says so, and a child may outlive it. Correct when:
no ceremony is repeated, no phase is recorded that is not true, and it can be
brought to its end.

**Platform bootstrap** (`scripts/release/run-platform-bootstrap.sh`,
`platform_bootstrap_build.py`, `platform_bootstrap_replay.py`). State: a
whole-platform lock, a replay checkpoint of six steps, a handle per build.
Operations: apply, build and monitor, retry a failed build, revoke the temporary
cluster administrators. Correct when: one build of a project runs at a time and
keeps its access while it does.

**Vault ceremony** (`scripts/ops/recover-and-bootstrap-hoodi-vault-v2.sh`). State:
in Vault the root tokens and the generation in progress, on disk the response
with the only copy of the shares, the checkpoint. Operations: initialize or
generate a root token share by share, configure, and a trap that revokes,
cancels and records. Hard: nothing excludes a second invocation; the trap
undoes only what it knows of. Correct when: who passes leaves no live token of
its own, no generation it knows of and can cancel stays behind, and the shares
are not lost.

**Deletion of a deployment** (`scripts/release/delete-all-node-operator-resources.sh`).
State: within an execution the inventory, the residuals, the barriers it has
verified; between executions nothing. Operations: inventories, about thirty
handlers in a fixed order, each with an ownership check, children and waits, and
a claim. Hard: hours between inventory and deletion, partial failures, an API
that lags. Correct when: only what is ours goes, what recovery needs goes last,
and success is true.

**Isolated Vault recovery** (`manage-isolated-vault-recovery-grant.py`,
`with-isolated-vault-grant-admin.py`, `rehearse-isolated-vault-restore.py` in
`scripts/ops`). A temporary grant around a wrapped command, to be withdrawn on every exit.

**Slashing-history recovery, observers** (`scripts/ops`, `scripts/release`): a
database transaction in a Job, and programs that read and write evidence.

**Release authorization, policies, probes, manifests, Terraform, CI**: decisions
on documents, or declarations. They keep no state of their own. `PROJECT.json`
lists each with the reason it has no model.

### 1.2 What is hard to test

`PROJECT.json` lists the hazards at the lines where they bite, with the
properties that would notice. A hazard without a property has a note that says
why; several of those belong to the modules of section 6.

## 2. The models

### 2.1 FenceLease: who may sign

One Lease per validator, any number of Pods. `lease` is the object in the API
server with its resource version. Every Pod has the variables of one fence
process: what it read, the instant it captured before the PATCH (`nowUTC`), its
deadline, and its position in `acquireOrRenew` (`PC`). A PATCH under way may be
applied and answered, applied without an answer, or come late: `late` holds
requests whose sender has given up, restarted or lost its connection, and the
API server may still apply them. The API server is external: a JSON Patch
passes when its `test` operations do.

Time is one global clock; `WallClock` gives each reading of a node's clock any
value within `MaxSkew` of it. Deadlines are monotonic, as `time.Time` comparisons
are in Go.

| model | code |
| --- | --- |
| `Get`, `Send`, `Deliver`, `Conflict`, `Receive` | `acquireOrRenew`, `main.go:269-344` |
| `Refuse`, `Acceptable`, `ExpiredAt` | the decision, `:286-300` |
| `PatchOf`, `Passes`, `Apply` | the JSON Patch, `:302-316` |
| `GrantedDeadline` | `:343`, the renewal's instant plus duration less safety margin |
| `Trip`, `Poll`, `Boot` | `trip`, `renewLoop`, `main` |
| `OpQuiesce` ... `OpRelease` | the release script |

`ExclusiveAuthority` is the promise in one variable: the Pod with authority, or
nobody; it changes through nobody. `FenceLease` implements it under the mapping
`Signer`, the Pod whose process is live and before its deadline.

### 2.2 FenceProxy: one process at the end of its authority

The goroutines of one process: acceptor, a proxy per connection, the renewal
loop, `trip` with its snapshot, the health server's view, `main`. The
scheduler may stop between any two steps that another goroutine can observe;
what a mutex protects is one action. A renewal grants one of the numbers of
ticks in `Grants`; sockets carry the deadline they were given when they were
registered. The run grants the same number always: `ForwardsWithinAuthority` does
not hold when a later renewal shortens the authority, which the Lease's constant
duration excludes. A proxy's end is
two steps, unregister and close, as the deferred calls are. The watchdog of
each deadline is modelled with its generation.

### 2.3 AuditRelay: from Vault's devices to stdout

Records are numbers; in the file a record is one or more chunks, the last with
the newline. `Torn` lets a reader see part of an append. The reader of the file,
the channel and the writer are as in the code; so are the readers of the socket,
one for each connection it accepts (`Connect`), and the reader of an older
connection may still hold a record when that of a newer one sends its own. The
code keeps the order of one connection, not that of two, and `InOrder` says no
more. Vault writes each record to one open connection, whichever, or to none if
there is none; a record it writes again counts as another. A crash empties
everything but the file and stdout; the new process opens the file at its end.

### 2.4 VaultPlatform: an installer that may die anywhere

`evidence`, `mirror`, `intent`, `record`, `receipt` and `work` are the files of
the state directory; `cloud` and `builds` are what they are about. One
invocation exists at a time, for it holds the checkpoint lock. Its position
`pc` names every point between two durable effects. `Exception` is any failure
that runs the `finally` blocks the invocation has come to (an AWS error, a
cancelled prompt, Ctrl-C); `Kill` runs none. A work directory exists before its
caller has entered the `try` whose `finally` removes it (`made`), so an exception
there leaves it, and so does one, an interrupt or a file that cannot be removed,
in the `finally` itself; `stale` remembers the jobs whose directory an invocation
left in one of these ways or by being killed. `Outcome` chooses what a command under way does to AWS when
the invocation ends: Terraform may have done nothing, half or all.

| model | code |
| --- | --- |
| `Resume`, `Advance`, `NextJob`, `Terminated` | `_continue_vault_platform`, `_advance_vault_platform` |
| `Workspace`, `Try` ... `Cleanup` | `prepare_vault_plan_workspace`, `plan_vault_*`, `apply_vault_*`, `reconcile_vault_authority` |
| `Start` ... `BuildFailed` | `installer_vault_platform.run` |
| `Mirror*` | `mirror` |

The expert commands `--mirror-vault-artifacts`, `--plan-vault` and `--apply-vault` are
`Asked`: they enter at the mirror or at a workspace of the preparation without
looking at what has been done (`Obstructed` is what stops them there) and return
after that one job (`expert`, `Returns`).

The continuation's bound of twelve turns is left out: it cannot bind, since each
of the at most nine turns leaves a file behind.

### 2.5 Uc5Ceremony: a role cut and restored

`stage` is the action of `run()` an invocation is in, with the parts of an
action that change something as stages of their own; `flags` are the locals
that are true and `unconfirmed` the entries of `cleanup` that say so. Every
step is one call. A change is three: look, request, readback. The look of a
replica change remembers the `resourceVersion` (`seen`), and whatever touches
the controller afterwards makes the PATCH fail, on time or late. Requests to
Vault carry no version, only a token that must still be live.

`Answered`, `Unanswered` and `Delayed` are the fates of a request besides
`Fail`, in which it was never carried out. A delayed request joins `late`; it
may arrive at any later time or never (`Arrives`, `Dropped`), and `Late` names the kinds
that may. `Raise` is an exception, which leads to the next handler of `run()`;
`Kill` ends the process.

| model | code |
| --- | --- |
| `After`, `Gains` | the body of `run()`, `uc5-ceremony.py:42-77` |
| `ToCleanup`, `ToSafe`, `ToRestore`, `ToRelease`, `Doubts` | its `finally` block, `:82-130` |
| `SeeNoMarker`, `Acquired`, `Reconcile`, `SeeMarker`, `Released`, `Marks` | the marker, `uc5-kube-control.py:58-97` |
| `SeeReplicas`, `Scales`, `Scaled` | `set_replicas`, `:99-125` |
| `SeeRole`, `Deleted`, `SeeRoleToRestore`, `Restored`, `Configures` | `uc5-vault-adapter.py`, `uc5-runtime-role-state.py` |
| `RunningBaseline` ... `Predelete`, `Denied`, `Continuity` | `uc5-probes.py`, `uc5-live-guards.py` |
| `Collector`, `CompletedCeremony`, stage `settle` | `prepare-activation`, `run-hoodi-uc5-ceremony.py:88-124` |
| `CleanupRoot` | the wrapper's EXIT trap and `cleanup-root` |

`RoleCustody` is the promise: a marker that goes from nobody to somebody and
back, a role cut only under a marker, a marker given up only with the role in
place. `Uc5Ceremony` implements it with the variables of the same names.

### 2.6 Activation: up, or down again

`replicas` and `ready` are the two controllers and their Pods. An invocation is
at a place `<<part, step>>`: `client` and `fence` scale up, `unfence` and
`unclient` roll back, each by reading the marker, reading the controller and
sending a PATCH that tests the `resourceVersion` it has read. `fresh` says whose
reading is still good; whatever changes a controller, its status too, makes it
stale (`Outdates`), but a PATCH of 0 over 0 changes nothing. `late` are PATCHes
whose sender has moved on. `raised` records who brought a controller up, and
along with whom. The preflight is a step for each thing it reads, in the script's
order (the receipt, the Pods, the StatefulSet, the fence, the marker), so a
controller may come up between any two of them, and so are the reads to which
the receipt is bound.

| model | code |
| --- | --- |
| `Begin`, `Preflight` | arguments, evidence, cluster checks one after another, `ACTIVATE`, lines 1-167 |
| `ReadMarker`, `ReadController`, `Patched`, `PatchRefused`, `PatchUnanswered` | `cas_scale`, `:169-181` |
| `Observe` | rollouts, client Pod, Lease, `:279-302`, and the second look of the receipt, `:224-260` |
| `Publish`, `Complete` | `:266-272`, `:307` |
| `ScaleFails`, `Exit`, `Verify`, `Status` | `rollback`, `:184-203` |

All invocations have one receipt path. A rollback does not ask whose activation
it rolls back: a second one whose preflight read the StatefulSet before the first
scale-up is refused by `cas_scale`, and its trap takes the first one's client down.
No document promises otherwise, and `Undisturbed` states how far it can go: only
activations that had read a controller at zero before it came up (`FoundDown`) can
take it down, by a step or by a PATCH that comes late. The second thing to know is
that 0 over 0 leaves an unanswered scale-up valid: one that arrives after a
verified rollback brings the client up. `RolledBack` excepts exactly that.

### 2.7 VaultCeremony: root tokens and shares

`stage`, `root` and `flags` are the place and the locals of each invocation,
`live`, `generation` are Vault's, `response` and `checkpoint` are on disk. The EXIT
trap is four stages, `trap`, `cancel`, `remove`, `mark`, so that a kill may come
between any two and a revocation may fail. `-cancel` carries no nonce, so `Left`
empties `generation` whoever owns it. `Unheard` is a command that was carried out
while the invocation does not come to its next line, because the answer is lost
or a signal came: after `-init` the trap then has no `started` to go by and leaves
the generation, after the last share a token nobody holds stays live.
`CancelFails` is a `-cancel` that fails, done or not. `astray` remembers both, and
`GenerationOwned` excepts them, with the kill, by name.

| model | code |
| --- | --- |
| `LookInitialized`, `LookNew` | what the checkpoint allows |
| `Initialize`, `Parse`, `Deliver`, `Acknowledge` | initialization, share files, `BACKED_UP` |
| `Discard`, `Generate`, `Quorum`, `SharesRefused` | generate-root |
| `Configure` | the bootstrap scripts |
| `Revoke`, `Cancel`, `CancelFails`, `Remove`, `Mark` | the EXIT trap, `:54-79` |

### 2.8 GuidedRelease: eighteen phases, any number of resumes

The module extends `VaultCeremony`: a run of the release begins a ceremony of its
own, and `ByHand` is one the operator takes up when the release refuses to
replay it. `receipt` is the receipt, `replay` the bootstrap's checkpoint, `handle`
the build monitor's, `builds` and `runners` are in AWS; `attempts`, `done` and
`proofs` say what became of the ceremonies and the repeatable work. An
invocation has its place `pc`, the phase it works at (`at`) and the receipt it is
about to write (`copy`): the helper reads, checks and replaces without a lock.

A resume that reads `infrastructure` or `infrastructure-complete` applies what is
missing, writes `platform-started` and goes directly on to the first bootstrap
(`Began`); only one that reads `platform-started` asks for a replay checkpoint
(`Replayable`). Either ends when it has written `platform-complete` (`Closes`), for
it has no custody to go on with. `DeadEnd` therefore counts `platform-started`
without a checkpoint only when nobody is on the way to the bootstrap.

`Exit` runs the traps; `Kill` does not, leaves the lock, and may leave the child of
the invocation at work (`orphan`). `Outcome` is what the command under way may
still have done.

| model | code |
| --- | --- |
| `Enter`, `Step`, `LookAdvance`, `LookBind`, `LookPrepare`, `Write` | the flow of `interactive-hoodi-release.sh` and the operations of `interactive-hoodi-resume.py` |
| `Resume` | `WORK_DIR` and the RESUME prompt |
| `Landing`, `Began`, `Closes` | what follows when a phase is written, `:474-495` and `advance_lifecycle` |
| `Attempt`, `Effect`, `Prove`, `Perform`, `VaultReturns` | ceremonies and repeatable work |
| `BootBegins`, `BootIntent`, `Act`, `BootRecord`, `BootEnds` | `run-platform-bootstrap.sh` with `platform_bootstrap_replay.py` |
| `BuildIntent` ... `BuildPoll`, `RetryTerminal` | `platform_bootstrap_build.py` |

### 2.9 Cleanup: what goes, and in which order

A resource has a kind, a home (the VPC, cluster or role it depends on) and a tag;
the thirty kinds of the script are eleven here, one for each way in which the
script treats a kind: known from the tagging API only (`logs`, `kms`), with
children (`eks`, `vpc`), known by its role (`scheduler`), refused while in use
(`eip`) or when it holds something foreign (`profile`), and the guarded ones
(`data`, `backend`, `kms`). `scanning` is an inventory in progress, service by
service, for the beginning, for one of the two barriers or for the last look;
`res` is the list of residuals.

| model | code |
| --- | --- |
| `Look`, `Listed`, `Orphans` | `inventory`, `iam`, `scheduler` |
| `Inventoried`, `Barrier`, `Verified`, `Skip`, `Postflight`, `Report` | `go`, `postflight` |
| `Holds`, `Take`, `Refuse` | the check at the start of each handler |
| `List`, `DeleteChild`, `Settle`, `ChildrenGone`, `Unlisted`, `DeleteSelf`, `Await` | the handlers `eks`, `vpc` and the others, `nat_wait`, `wait` |

Every call may fail, and the handlers go on as the script does: a cluster that
cannot be described leaves its security group unnoted (`Take` with `fails`), and a
listing that fails while the children are waited for counts as an empty one, so that
the cluster is tried with children left in it (`Unlisted`). Both leave a residual.
The claim of success has the exceptions `Unseen` names: what was created meanwhile, what
the tagging API does not show, and a schedule whose role is gone, is not
ours any more or was created meanwhile, for a schedule is known by its role only.

### 2.10 InstallerStages: the gates before the platform

The module has an instance of `VaultPlatform`, whose variables it shares, and adds
the rest of `run()`. What both take as given, the faults and the bound on builds, is in
`InstallerFaults`. `store`, `temp` and `stage` are the checkpoint; `base` and `host`
are in AWS; `handoff`, `opsplan` and `session` are the files by which one stage finds
what another has made. `at` is where the invocation is between two writes of the
checkpoint, and `child` its Terraform wrapper. The `flock` excludes a second
invocation (`Free`), but `subprocess.run` does not hand the descriptor down: when an
invocation is cut short the lock is free, while its wrapper may go on as the
`orphan`. Against it stands only the stage that is marked as running.

The two meet in AWS. The Vault runner is in the Terraform state of the baseline,
and the inputs of the infrastructure apply do not have it; `PlanHarmless` is the
search of the plan for deletions. Guided steps are `Guided` and `Platform`, which
leave the stages alone; `VaultMirror` and `VaultJob` begin an expert job of
`VaultPlatform`, and `VaultEnded` is the `finally` that takes the `vault` stage back
to `awaiting_input`. A kill (`Killed`) skips it and leaves the stage running, which
shuts the guided command out as well. That all the others leave the platform alone is
`ImplementsPlatform`, a theorem. `calm` is `VaultPlatform`'s: from then on nothing
fails, and the operator gives the next command that leads on (`NextCommand`).

| model | code |
| --- | --- |
| `Create`, `Created`, `Begin`, `Begun` | start, resume and the first writes, `interactive_deploy.py:279-313`, `installer_state.py:185-192` |
| `Prepared`, `Confirmed`, `Recorded` | the infrastructure commands, `:409-438` |
| `OpsPrepared`, `OpsMarked`, `OpsRecorded`, `OpsVerified` | the SSM commands, `:362-408` |
| `VaultInputs`, `VaultMirror`, `VaultJob`, `VaultEnded` | the expert Vault commands, `:320-361` |
| `Foundation`, `Baseline`, `BaselineRefused`, `Outputs` | `zero_apply` and `apply_phase` of `node-operator-release.sh` |
| `OpsPlan`, `Instance`, `Session` | `node-operator-ops-access.sh` |
| `CutShort`, `VerifyFails`, `Fails` | what `run()` does not catch, what it catches, a wrapper that fails |

What a killed invocation's orphan does is modelled step by step here; Terraform
of a killed guided step has its outcome chosen at once, as in `VaultPlatform`.

`DeadEnd` names what no command leads out of: a state directory without its
checkpoint, a stage left running, a temporary file while stages are open, an
infrastructure stage reset after the runner was made, a host without its session
handoff. The fourth needs no failure: `--prepare-infrastructure` and
`--apply-infrastructure` set a complete stage back to `awaiting_input`
(`interactive_deploy.py:423`), the apply that would complete it is refused for the
deletion of the runner (`validate_phase_plan`), and until then the guided command,
the one that revokes the access, is shut out (`:315`).

## 3. The runs

| run | asks |
| --- | --- |
| `fence_lease` | two Pods, skew up to the safety margin, one late PATCH at a time, restarts, the operator: exclusive authority (`MutualExclusion`), covered by the Lease (`AuthorityCovered`), taken from its holder only when expired at that instant (`OnlyExpiredTaken`), refinement |
| `fence_proxy` | a connection against trip, renewals that may hang, watchdogs and shutdown: `NoSurvivor`, `ForwardsWithinAuthority`, expiry fences the process, a fenced process exits |
| `activation` | two activations, failing and killed anywhere, late PATCHes, one maintenance: `RolledBack`, `Undisturbed` |
| `relay` | torn appends, oversized records, two connections read at once beside the file, one restart: order, no duplicates, and every record that fits, was appended since the relay follows and was not cut at the end of the file reaches stdout |
| `relay_torn` | finding 1 |
| `vault_platform_end` | finding 2 |
| `installer_stages` | stages and guided platform, failing and killed anywhere, any commands and any number of them: one Terraform at a time (`OneTerraform`), complete stages true (`CompleteTrue`), Vault work founded, one build, authorized, evidence true (`PlatformSafe`), and the authority is given back unless a change is uncertain, a job still to be done left its work directory behind (its invocation was killed, or interrupted before its `try` or in the removal) or the installer is in a `DeadEnd` (`AuthorityReturned`) |
| `vault_root` | finding 4 |
| `guided_release` | an installation, resumes, a ceremony by hand, failing and killed anywhere: nothing twice (`OnceEach`), the receipt true (`PhaseTrue`), one live build, the ceremony's three properties, and it completes unless it is in one of the dead ends `DeadEnd` names |
| `uc5_ceremony` | two ceremonies and a collection, failing and killed anywhere, one late request: one maintains at a time (`ExclusiveControl`), nothing runs on a cut role (`CutIsolated`), the root token dies before the marker (`RootRevokedFirst`), what is left when the marker goes (`ReleaseSafe`), refinement |
| `uc5_late_delete` | finding 3 |
| `cleanup` | a resource of each kind, two disturbances: only what is ours goes (`OursOnly`), what recovery needs goes last (`RecoveryLast`), success is true (`ClaimTrue`), executed again and again it completes or is stuck in a way `Stuck` names |

Each module's `TypeOK` is checked with them.

**Bounds.** Every bound is a constant with a comment in its module and is given
in the `.cfg`. Two Pods are enough for FenceLease's two-party races, and the
proofs cover any number. Durations of a few ticks leave room for a renewal, an
expiry and a takeover within `MaxTime`. `fence_proxy` has one connection, from the
client or from elsewhere: its hazards are one connection racing with `trip`, the
proxies share nothing but `conns`, and liveness is checked together with safety.
`MaxTime` in FenceLease and FenceProxy stops the clock; no liveness is claimed of
what happens after it. AuditRelay's records of two chunks fit a buffer of two
exactly and cross a read boundary; one of three fills the buffer and its rest is
discarded by a second read. Two connections are an old one and its successor.
`MaxBuilds` is two, one more than the properties allow. InstallerStages has no other
bound: its run is exhaustive for any number of faults, commands and resumes, and
checks VaultPlatform with everything that goes on beside it; by itself that module
is run for finding 2 only.

`guided_release` has one identity that resumes, any number of times, and one
ceremony by hand: with the installation these are the three that can meet over
Vault. `Alone` is TRUE: a resume does not start while the installation is still at
work, for the installation does not take the lock that resumes exclude each
other with, and `OnceEach` does not hold without it; a hazard says so. Every fault of
`VaultCeremony` is allowed; after an unanswered initialization Vault's shares exist
nowhere, and the release is in one of the dead ends (a ceremony without proof).

`cleanup` has one resource of each kind, a log group that comes late and four
resources that may be handed over. A disturbance is a failed call, a creation, a
handover or a kill; two of them make every pair. `activation`'s two invocations
make every overlap of a rollback with another's scale-up, and its proofs cover
any number.

In `Uc5Ceremony` two ceremonies and one collection make every pair of
invocations that can meet over the marker; one late request is what a single
timeout leaves. In `uc5_ceremony` a DELETE does not come late, for finding 3
says what happens then, and neither does the PATCH
that starts the signer: the cleanup makes no PATCH of its own when it finds 0
replicas, so a late start can bring up the signer of a failed ceremony after it
was found absent, and `ReleaseSafe` would fail. `Exclusive` and `RootRevoked` are
proved with both, and with any number of late requests.

Symmetry is used for the Pods, the UC-5 ceremonies and the activations, in runs
without liveness only.

**Fairness.** FenceProxy: goroutines that are ready run, timers fire, the
operating system ends a copy whose socket is closed or past its deadline; a
renewal's answer has no fairness, so a call to the Kubernetes API may hang, and
neither has the traffic of clients. AuditRelay: the reader of the file, the writer and the visibility of a
finished append are fair; Vault, the readers of the socket and crashes are not. VaultPlatform: the invocation proceeds,
the operator resumes an ended one (strongly fair, since expert commands may come
in between), CodeBuild ends builds by its timeout, and
faults cease at some time (`Calm`); nothing else. InstallerStages: besides, the
operator gives a command when one is admitted, and wrappers go on or end. GuidedRelease: the same, and the
ceremonies and monitors that are under way go on; the operator need not retry a
failed build nor run a ceremony by hand. Cleanup: the operator runs it again until
it succeeds, AWS ends the deletions it has begun, and the tagging API catches up;
failures are bounded by `MaxEvents`.

## 4. The proofs

`FenceLeaseProofs`, for every set of Pods, duration, flag and bound, from the
named assumptions of `FenceLease`, of which `SkewAssumption` (two clocks differ
by at most the safety margin) is the one that matters. `MutualExclusion` is not
inductive: it says nothing of requests under way. `IInv` adds what makes it so.
Every request, early or late, carries the renewal instant and the version its
sender read; every process's view is an earlier state of the Lease; a live
process's deadline is the Lease's renewal plus duration less margin whenever
the Lease still names it, and has passed otherwise. From it follow
`TypeCorrect`, `Exclusion`, `Covered`, `TakenOnlyExpired`, `RenewTimeForward`
(`renewTime` never goes back by more than the skew), and
`Implements`: each step maps to a step or a stutter of `ExclusiveAuthority`. That an
expired Lease is never renewed is not among them, for it is not so: a PATCH stamped
before the expiry and applied after it renews the Lease for its holder.

`FenceProxyProofs`, for every set of connections, grants and bounds. `ProxyInv` says,
beside the types, who answers for an open socket: `acceptLoop` has it in hand, or it is
registered, or its goroutine is about to close it (`Handled`); and that a trip knows
every registered connection whose socket is still open and has none left when it
is over (`Snapped`). That gives `NoSurvivorHolds`. `ForwardsHold` adds that no proxy goes
by a deadline later than the authority recorded now, which no renewal takes back
(`Covered`); it has the hypothesis that every renewal grants the same, which the Lease's
constant duration and the fence's constant margin justify, and without which the
property does not hold.

`AuditRelayProofs`, for all sizes of records, buffer and channel and any number of
connections and restarts. `InOrder` alone says nothing of the records between Vault and stdout.
`RelayInv` follows them: in the file and on a connection a record begins after all
earlier ones (`Appended`, `Sent`); each reader has gone on behind every record it took in,
wherever that is now (`Taken`); and of two records of one stream (the file, or one
connection) that are in hand, in
the channel, at the writer or on stdout, the one nearer to stdout is the older
(`Flow`).

`InstallerStagesProofs`, for every set of faults and every bound on builds. First,
through the instance `V` of `VaultPlatform`, what the guided platform promises by
itself. The induction needs more than the properties: a job is under way only if
the evidence of the earlier phases is complete (`JobFounded`), AWS is what the
evidence says except in a phase attempted without success (`CloudKnown`), a
work directory is there for a known reason (`WorkKnown`), and
the build in hand is the only one (`BuildKnown`). No build runs unauthorized
because a revocation needs a terminal receipt, the receipt is true of the
recorded build, and that build is the only one there is. `UnobstructedHolds` adds
that an exception in the `try` leaves no work directory in the way of a retry: what
is in the way was left by a kill, or by an exception before the `try` or in the
`finally`.

Then the stages. `IInv` adds: whoever
waits for a wrapper, or left one behind, has its stage marked as running
(`ChildKnown`), so that none begins beside it; what the wrappers have behind them is
there (`BehindKnown`); Vault work is done on complete stages and, once the
preparation is recorded, the runner is there (`VaultKnown`). An apply that passes
the search finds no runner, hence no access either (`BaselineHarmless`): that is
the step the refinement rests on. `StagesImplementPlatform` is that refinement, and
`PlatformSafeHolds` carries the theorems about `VaultPlatform` over with it.
`DeadEndsStay` proves of `DeadEnd` that no step leads out of it.

`GuidedReleaseProofs`, first on the Vault ceremony, for any number of invocations and every set of faults.
`CeremonyInv` says what an invocation knows in the order in which it learns it
(`FreshFlags`, `FlagsInOrder`), that whoever holds the generation will cancel it
or has gone astray and cannot pass any more (`Cancellable`), that the token in its hand is its own or the initial one
(`RootOwned`), dead once the trap has revoked it (`RootRevoked`), and who has seen
the acknowledgement of the backup (`BackupKnown`). From it follow
`GenerationsAreOwned`, `PassedIsClean` and `SharesAreKept`.

Then on the release, for any set of resumes and faults. `ReleaseImplementsCeremony`:
whatever the release does, Vault goes through steps of `VaultCeremony`, so that the
three properties hold under it. `OnceEachHolds`, with `Alone`, by `ReleaseInv`: at most
one invocation at a time can write the receipt, the installation or the one that
made the lock (`Exclusive`); it knows the phase and takes it one further
(`PhaseKnown`); and at most one is about to start a ceremony, never one that was
started before (`StartedOnce`). The other two properties need no `Alone`.
`OneLiveBuildHolds`, by `BuildInv`: one invocation works at the platform and one process
at its builds (`OneAtWork`), the replay checkpoint and a build's handle never say more
than was done (`Recorded`, `Tracked`), a build is started only when the earlier ones
have failed, and its runner is there while it is live (`AtWork`, `Alive`).
`PhaseTrueHolds`, by `TruthInv`: the phases before the receipt's are earned (`Behind`), and so
are those before a phase an invocation is about to write, wherever it stands (`Fine`).
Nothing earned is lost: the configuration of Vault by `ConfiguredIsTrue` on the
ceremony, the platform and its access by `BuildInv`. So what
an invocation carries in its hands is true when it writes the receipt, also if
somebody else has written it meanwhile.

`ActivationProofs`, for any number of invocations and every set of faults.
`CleanInv` says that who has seen a controller down in its rollback, sure of its
own steps, has nothing up there; `AlongInv`, that whoever can still take down what
is up had found it at zero when it came up, late PATCHes included. The type
invariant carries the third fact: no scale-up under way can count for what is up
already. From these follow `RolledBackHolds` and `UndisturbedHolds`.

`Uc5CeremonyProofs`, for every set of invocations, every set of kinds that may
come late and every bound on them. Exclusive control needs to know what a late
removal of the marker may still do: its sender is over and has accounted for
the role (`LateFounded`). What an invocation has set by its stage (`Founded`,
`Asking`) says that it removes the marker only when it is `Disarmed`: its root
token is revoked and a deletion it attempted is restored. That gives
`Exclusive` and `RootRevoked`. `RoleFounded` names who answers for a role that
is cut and gives `Implements`, provided no DELETE comes late. `Isolated` adds
that client and fence stay down once somebody has attempted the deletion, and
the signer up to the DELETE itself; it excludes late starts of the signer too.
`ReleaseSafeHolds` is proved under the same two exclusions, the ones of the run.
Its invariant `WInv` adds what an invocation has behind it by its stage (`Orderly`) and,
for the ceremony whose marker it is, what it has found or brought about
(`Watched`): a failed ceremony's revocation and release come with client and
fence down and the signer gone, unless an entry of `cleanup` says otherwise; a
completed one's with the signer up. That stays so because no request under way
reaches the signer then (`NoneLate`: the scale-down of the body makes every earlier one
stale), and because a marker that is created late is that of an invocation
that never maintains (`LateCreate`).

`CleanupProofs`, for any resources of any owners, homes and kinds and any number of
disturbances. What goes wrong in a deletion lies hours apart, so `CleanupInv`
relates what an execution remembers to what there is. An inventory without
residuals has missed nothing of the services it has asked but what it could not
see (`Swept`): what the tagging API does not report yet, and the schedules of a
role that is gone or came later. A verified barrier stands as long as something
behind it remains to be deleted (`Between`): everything else of ours is gone or has
come since, or a residual was noted, after which no backend and no key is taken
in hand (`Given`). It stands across everything else that happens because what is
ours only fades, but for what counts as created since (`Fades`). From that follow `RecoveryLastHolds` and,
with `Claimed`, `ClaimTrueHolds`. `OursOnlyHolds` adds `OurOwn`: what is in hand, and what
is listed inside it, is ours or was handed over since. It has the hypothesis that
no log group is handed over, for a log group's tags are read again where the
inventory found them, in the tagging API that lags behind; the run hands over
no log group either.

Only model-checked: liveness, which is out of the prover's reach
(`FencedExits`, `ExpiryFences`, `FileRecordsReachStdout`, `Finishes`, `Completes`,
`AuthorityReturned`).

## 5. Findings

1. `relay_torn`: what is visible of a line at the end of the file is consumed
   as if it were all, and the record is lost.
2. `vault_platform_end`: after the revocation the guided continuation
   reconciles the grant once more, finds the drift the revocation made and can
   never report that it is finished.
3. `uc5_late_delete`: a DELETE of the runtime role that arrives after the
   cleanup has found the role in place is not undone, though
   `scripts/ops/lib/uc5-vault-adapter.py:141-143` says that "even a lost HTTP
   response triggers exact restoration"; every cleanup counts as confirmed and
   the marker goes.
4. `vault_root`: a ceremony that fails between the initialization and the
   revocation of its token leaves the initial root token live; the one that
   completes the work revokes its own and records `root_revoked` as true.

## 6. Not modelled, and the plan

A restarted relay starts at the end of the audit file, as `main.go:96-98` says it
means to; the model restarts it so, and what its predecessor held or had not
read is then delivered by nobody.

Left out of the modelled parts: the fence's audit lines and connection
receipts, edits of a Lease's duration, rotation of the audit file, failing
writes to stdout; of the installer `status`, the bootstrap state with its migration and the validation of documents; of
the UC-5 ceremony the diagnostic Pods, the evidence files, the preflight mode,
the wait for the Lease's expiry, the eviction of Pods, and the operator's
recovery of a marker that was kept; of the activation the contents of its
evidence, `--dry-run` and an activation without a receipt; of the release its
prompts and documents and what happens before its receipt exists; of the
deletion the dry run, the kinds that are treated like a modelled one, and the two
scripts that call it.

In order:

1. `RecoveryGrant`: a grant that every exit of the wrapped command withdraws.
2. Activation composed with `FenceLease` and `Uc5Ceremony`, which meet it here as
   a Ready Pod and a marker.
3. `FenceTiming`: edits of the Lease's duration between renewals.
4. `MirrorResume`: the pre-EKS mirror with its marker, lock and four outputs.

Much of the repository's code is without a protocol: validation of documents,
release authorization, reports, its own tests. Declarative or pure parts
(Terraform, manifests, Rego, probes, CI) stay without a model; `PROJECT.json` gives
the reason for each.
