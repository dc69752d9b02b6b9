---------------------------- MODULE GuidedRelease ----------------------------
(* The guided release: scripts/release/interactive-hoodi-release.sh with    *)
(* its receipt (interactive-hoodi-resume.py), the platform bootstrap and    *)
(* its replay checkpoint (run-platform-bootstrap.sh and its helpers),       *)
(* composed with the Vault ceremony it runs.  The installation makes the    *)
(* working directory and goes through the phases; when it is over, an       *)
(* operator may resume as often as it takes.  Work that may be repeated is  *)
(* done again; a ceremony that was started is never started again, and what *)
(* became of it has to be proved.                                           *)
(*                                                                          *)
(* An invocation may fail anywhere, which runs its traps, or be killed,     *)
(* which does not and may leave a child of it running.                      *)
EXTENDS VaultCeremony, Sequences

CONSTANTS Install,    \* the invocation that made the working directory
          Resumes,    \* the ones that resume it, each any number of times
          Alone,      \* nobody resumes while the installation is still under way
          Faults,     \* how one may be cut short
          MaxBuilds   \* bound: builds of one bootstrap project

ASSUME ReleaseAssumption ==
  /\ Install \notin Resumes /\ "operator" \notin Resumes \cup {Install}
  /\ Resumes \cup {Install} \subseteq Ceremony /\ Alone \in BOOLEAN
  /\ Faults \subseteq {"exit", "kill"} /\ MaxBuilds \in Nat

Lifecycle == <<"none", "infrastructure", "infrastructure-complete", "platform-started",
  "platform-complete", "vault-started", "vault-complete", "collector-complete", "audit-started",
  "audit-complete", "custody-started", "custody-complete", "runtime-complete",
  "activation-pending", "activation-started", "activated", "observing", "complete">>
Index == [p \in {Lifecycle[n] : n \in DOMAIN Lifecycle} |->
            CHOOSE n \in DOMAIN Lifecycle : Lifecycle[n] = p]
Phase == DOMAIN Index
Successor(p) == Lifecycle[Index[p] + 1]
Reached(p, q) == Index[p] >= Index[q]

(* The ceremonies, by the phase in which their outcome is unknown, and the  *)
(* work that is repeated instead, by the phase that calls for it.           *)
Ceremonies == {"vault", "audit", "custody", "activation"}
Started == [c \in Ceremonies |-> CASE c = "vault" -> "vault-started" [] c = "audit" -> "audit-started"
              [] c = "custody" -> "custody-started" [] OTHER -> "activation-started"]
Prepared == {"audit", "custody", "activation"}
Unknown(p) == {c \in Ceremonies : Started[c] = p}
Coming(p) == {c \in Ceremonies : p # "complete" /\ Started[c] = Successor(p)}
Repeatable == {"infrastructure", "vault-complete", "custody-complete", "runtime-complete", "observing"}

Bootstrap == <<"argocd_apply", "argocd_build", "tls_ready", "vault_apply", "vault_build",
               "revoke_complete">>
Project == [argocd_build |-> "argocd", vault_build |-> "vault"]
Builds == DOMAIN Project
Runs == Resumes \cup {Install}
Procs == Runs \cup {"operator"}

VARIABLES
  receipt,   \* interactive-resume.json: phase, whether custody is bound, prepared operations
  lock,      \* who made .interactive-resume.lock: {} or one
  stale,     \* the lock's maker was killed
  done,      \* the phases whose work has been done, the ceremonies that took effect
  attempts,  \* how often a ceremony has been started
  proofs,    \* completion receipts that ceremonies left
  replay,    \* status of the bootstrap phases, <<>> before there is a checkpoint
  runners,   \* temporary bootstrap runners with cluster-admin access
  handle,    \* the checkpoint of each bootstrap build
  builds,    \* the builds CodeBuild has started for it
  pc, at,    \* where an invocation is; the lifecycle_phase it goes by
  copy,      \* the receipt it is about to write
  orphan,    \* the invocations that were killed and left their child running
  calm       \* from now on nothing is cut short

world == <<done, attempts, proofs>>
platform == <<replay, runners, handle, builds>>
local == <<pc, at, copy, orphan>>
vars == <<ceremony, receipt, lock, stale, world, platform, local, calm>>

Blank == [phase |-> "none", bound |-> FALSE, prepared |-> {}]
Init ==
  /\ CeremonyInit
  /\ receipt = Blank
  /\ lock = {} /\ stale = FALSE
  /\ done = {} /\ attempts = [c \in Ceremonies |-> 0] /\ proofs = {}
  /\ replay = <<>> /\ runners = {}
  /\ handle = [k \in Builds |-> "none"] /\ builds = [k \in Builds |-> <<>>]
  /\ pc = [r \in Procs |-> IF r = Install THEN "step" ELSE "idle"]
  /\ at = [r \in Runs |-> "none"] /\ copy = [r \in Runs |-> Blank] /\ orphan = {}
  /\ calm = FALSE

Home(r) == IF r = Install THEN "over" ELSE "idle"
Moves(r, l) == pc' = [pc EXCEPT ![r] = l]
Stays(r, l) == Moves(r, l) /\ UNCHANGED <<lock, at, copy, orphan>>

(* The EXIT trap removes the lock that the invocation made.                 *)
Ends(r) == /\ Moves(r, Home(r))
           /\ lock' = IF stale THEN lock ELSE lock \ {r}
           /\ at' = [at EXCEPT ![r] = "none"] /\ copy' = [copy EXCEPT ![r] = Blank]
           /\ orphan' = orphan \ {r}

(* A child has ended well: its invocation goes on, if there still is one.   *)
Returns(r, l) == IF r \in orphan THEN Ends(r) ELSE Stays(r, l)

Quiet == UNCHANGED <<ceremony, stale, calm>>
Shell == Quiet /\ UNCHANGED <<receipt, world, platform>>

-----------------------------------------------------------------------------
(* WORK_DIR is given: the receipt is read and shown, RESUME is typed, the   *)
(* lock is made and the receipt read again, and must say the same phase.    *)
InstallOver == pc[Install] = "over"

Resume(r) == /\ pc[r] = "idle" /\ receipt.phase # "none"
             /\ Alone => /\ InstallOver \/ Install \in orphan
                         /\ \A i \in Ceremony : stage[i] \in Over
             /\ at' = [at EXCEPT ![r] = receipt.phase] /\ Moves(r, "prompted")
             /\ Shell /\ UNCHANGED <<lock, copy, orphan>>

Changed(r) == receipt.phase # at[r]
Enter(r) == /\ pc[r] = "prompted"
            /\ IF lock # {} \/ Changed(r) THEN Ends(r)
               ELSE lock' = {r} /\ Moves(r, "step") /\ UNCHANGED <<at, copy, orphan>>
            /\ Shell

-----------------------------------------------------------------------------
(* What the phase asks for: run_post_platform, and the paths before it.     *)
(* A ceremony that was started is looked up, never run; nobody but the      *)
(* installation can bind the custody that everything past the platform      *)
(* needs.                                                                   *)
ReplayedReconcile(p) == {"work"} \* mutant: a ceremony of unknown outcome is run again
Reconcile(p) == IF "vault" \in Unknown(p) /\ checkpoint # "configured" THEN {} ELSE {"advance"}
UnheededReplayable == FALSE \* mutant: a resume never replays the bootstrap
Replayable == replay # <<>>

Asks(r) ==
  LET p == at[r] IN
  CASE p \in {"none", "infrastructure-complete", "activated"} -> {"advance"}
    [] p \in Repeatable \cup {"complete"} -> {"work"}
    [] p = "platform-started" -> IF Replayable THEN {"work"} ELSE {}
    [] p = "platform-complete" /\ ~receipt.bound -> IF r = Install THEN {"bind"} ELSE {}
    [] Coming(p) # {} /\ (p = "platform-complete" => receipt.bound) -> IF Coming(p) \subseteq Prepared THEN {"prepare"} ELSE {"advance"}
    [] OTHER -> Reconcile(p)

Step(r) == /\ pc[r] = "step"
           /\ IF Asks(r) = {} THEN Ends(r) ELSE \E l \in Asks(r) : Stays(r, l)
           /\ Shell

(* The helper's operations on the receipt read it, check and build the new  *)
(* one (Look), and then replace the file (Write).                           *)
Writes(r, new) == Moves(r, "write") /\ copy' = [copy EXCEPT ![r] = new] /\ UNCHANGED <<lock, at, orphan>>

UnprovenAdvance(p) == TRUE \* mutant: a ceremony's receipt is not asked for
Proven(p) == Unknown(p) \cap Prepared \subseteq proofs \cap receipt.prepared
Advanceable(r) ==
  /\ receipt.phase = at[r]
  /\ Reached(at[r], "platform-complete") => receipt.bound
  /\ Coming(at[r]) \cap {"audit", "activation"} \subseteq receipt.prepared
  /\ Proven(at[r])
LookAdvance(r) == /\ pc[r] = "advance"
                  /\ IF Advanceable(r) THEN Writes(r, [receipt EXCEPT !.phase = Successor(at[r])])
                     ELSE Ends(r)
                  /\ Shell

LookBind(r) == /\ pc[r] = "bind"
               /\ IF receipt.phase = "platform-complete" /\ ~receipt.bound
                  THEN Writes(r, [receipt EXCEPT !.bound = TRUE]) ELSE Ends(r)
               /\ Shell

PreparedAt(c) == IF c = "custody" THEN {"platform-complete", "vault-complete", "audit-complete"}
                 ELSE {p \in Phase \ {"complete"} : c \in Coming(p)}
LookPrepare(r) ==
  /\ pc[r] = "prepare"
  /\ \E c \in Coming(at[r]) :
       IF receipt.phase \notin PreparedAt(c) \/ ~receipt.bound \/ c \in proofs THEN Ends(r)
       ELSE IF c \in receipt.prepared THEN Stays(r, "advance")
       ELSE Writes(r, [receipt EXCEPT !.prepared = @ \cup {c}])
  /\ Shell

(* Whoever has written that the platform or a ceremony is started goes on   *)
(* and starts it, without the questions asked of a resume that reads so.  A *)
(* resume that completes the platform has no custody to go on with.         *)
Began(r) == copy[r].phase # at[r] /\ (copy[r].phase = "platform-started" \/ Unknown(copy[r].phase) # {})
Closes(r) == \/ copy[r].phase = "complete"
             \/ r # Install /\ copy[r].phase = "platform-complete" /\ at[r] # "platform-complete"
Landing(r) == IF copy[r].phase = at[r] /\ at[r] # "platform-complete" THEN "advance"
              ELSE IF Began(r) THEN "work" ELSE "step"
Write(r) == /\ pc[r] = "write"
            /\ receipt' = copy[r]
            /\ IF Closes(r) THEN Ends(r)
               ELSE /\ Moves(r, Landing(r)) /\ at' = [at EXCEPT ![r] = copy[r].phase]
                    /\ copy' = [copy EXCEPT ![r] = Blank] /\ UNCHANGED <<lock, orphan>>
            /\ Quiet /\ UNCHANGED <<world, platform>>

-----------------------------------------------------------------------------
(* Deployment, collector, runtime, evidence and observation are done again  *)
(* whenever they are not known to be done.                                  *)
Perform(r) == /\ pc[r] = "work" /\ at[r] \in Repeatable \cup {"complete"}
              /\ done' = done \cup {at[r]}
              /\ IF at[r] = "complete" THEN Ends(r) ELSE Returns(r, "advance")
              /\ Quiet /\ UNCHANGED <<receipt, attempts, proofs, platform>>

(* A ceremony: it starts, it takes effect, it leaves its receipt.           *)
Attempt(r) == /\ pc[r] = "work"
              /\ \E c \in Unknown(at[r]) :
                   /\ attempts' = [attempts EXCEPT ![c] = IF @ < 2 THEN @ + 1 ELSE @]
                   /\ Stays(r, IF c = "vault" THEN "vault" ELSE "effect")
                   /\ IF c = "vault" /\ stage[r] = "idle" THEN Begin(r) ELSE UNCHANGED ceremony
              /\ UNCHANGED <<receipt, stale, done, proofs, platform, calm>>

Effect(r) == /\ pc[r] = "effect"
             /\ done' = done \cup Unknown(at[r]) /\ Stays(r, "proof")
             /\ Quiet /\ UNCHANGED <<receipt, attempts, proofs, platform>>

Prove(r) == /\ pc[r] = "proof"
            /\ proofs' = proofs \cup Unknown(at[r]) /\ Returns(r, "advance")
            /\ Quiet /\ UNCHANGED <<receipt, done, attempts, platform>>

VaultReturns(r) == /\ pc[r] = "vault" /\ stage[r] \in {"passed", "failed", "killed"}
                   /\ IF stage[r] = "passed" THEN Returns(r, "advance") ELSE Ends(r)
                   /\ Shell

-----------------------------------------------------------------------------
(* run-platform-bootstrap.sh under the whole-platform lock, which a child   *)
(* that outlives its invocation keeps.                                      *)
Monitoring == {"launch", "poll", "handle"}
Bootstrapping == {"boot", "act", "record"} \cup Monitoring
Locked == \E s \in Runs : pc[s] \in Bootstrapping

Incomplete == {n \in DOMAIN Bootstrap : replay[Bootstrap[n]] # "complete"}
Current == Bootstrap[CHOOSE n \in Incomplete : \A m \in Incomplete : n <= m]

BootBegins(r) ==
  /\ pc[r] = "work" /\ at[r] = "platform-started"
  /\ IF Locked THEN Ends(r) /\ UNCHANGED replay
     ELSE /\ Stays(r, "boot")
          /\ replay' = IF replay = <<>> THEN [k \in {Bootstrap[n] : n \in DOMAIN Bootstrap} |-> "new"]
                       ELSE replay
  /\ Quiet /\ UNCHANGED <<receipt, world, runners, handle, builds>>

BootIntent(r) == /\ pc[r] = "boot" /\ Incomplete # {}
                 /\ replay' = [replay EXCEPT ![Current] = "intent"] /\ Stays(r, "act")
                 /\ Quiet /\ UNCHANGED <<receipt, world, runners, handle, builds>>

BootRecord(r) == /\ pc[r] = "record"
                 /\ replay' = [replay EXCEPT ![Current] = "complete"] /\ Stays(r, "boot")
                 /\ Quiet /\ UNCHANGED <<receipt, world, runners, handle, builds>>

BootEnds(r) == /\ pc[r] = "boot" /\ Incomplete = {}
               /\ Returns(r, "advance")
               /\ Shell

Applied == CASE Current = "argocd_apply" -> runners \cup {"argocd"}
             [] Current = "vault_apply" -> runners \cup {"vault"}
             [] Current = "revoke_complete" -> {}
             [] OTHER -> runners
Act(r) == /\ pc[r] = "act" /\ Current \notin Builds
          /\ runners' = Applied /\ Stays(r, "record")
          /\ Quiet /\ UNCHANGED <<receipt, world, replay, handle, builds>>

(* platform_bootstrap_build.py: a start that is not known to have failed    *)
(* is not repeated, a build that failed is not followed by another one      *)
(* unless the operator asks for it (--retry-terminal).                      *)
Monitored == \E s \in Procs : pc[s] \in Monitoring
UnmarkedStart == handle \* mutant: the intent is not written before the start
Intended == [handle EXCEPT ![Current] = "start-intent"]

BuildIntent(r) == /\ pc[r] = "act" /\ Current \in Builds /\ ~Monitored /\ handle[Current] = "none"
                  /\ handle' = Intended /\ Stays(r, "launch")
                  /\ Quiet /\ UNCHANGED <<receipt, world, replay, runners, builds>>

BuildFollow(r) == /\ pc[r] = "act" /\ Current \in Builds
                  /\ IF Monitored \/ handle[Current] = "start-intent" THEN Ends(r)
                     ELSE handle[Current] # "none" /\ Stays(r, "poll")
                  /\ Shell

Launched == [builds EXCEPT ![Current] = Append(@, "IN_PROGRESS")]
BuildLaunch(r) == /\ pc[r] = "launch" /\ Len(builds[Current]) < MaxBuilds
                  /\ builds' = Launched /\ Moves(r, "handle")
                  /\ Quiet /\ UNCHANGED <<receipt, lock, at, copy, orphan, world, replay, runners, handle>>

BuildHandle(r) == /\ pc[r] = "handle"
                  /\ handle' = [handle EXCEPT ![Current] = "running"] /\ Moves(r, "poll")
                  /\ Quiet /\ UNCHANGED <<receipt, lock, at, copy, orphan, world, replay, runners, builds>>

Latest(k) == builds[k][Len(builds[k])]
BuildPoll(r) == /\ pc[r] = "poll" /\ Latest(Current) # "IN_PROGRESS"
                /\ handle' = [handle EXCEPT ![Current] = Latest(Current)]
                /\ IF r = "operator" THEN Moves(r, "idle") /\ UNCHANGED <<lock, at, copy, orphan>>
                   ELSE IF Latest(Current) = "SUCCEEDED" THEN Stays(r, "record") ELSE Ends(r)
                /\ Quiet /\ UNCHANGED <<receipt, world, replay, runners, builds>>

RetryTerminal ==
  /\ pc["operator"] = "idle" /\ replay # <<>> /\ Incomplete # {} /\ Current \in Builds
  /\ ~Monitored /\ handle[Current] = "FAILED" /\ Len(builds[Current]) < MaxBuilds
  /\ handle' = Intended /\ Moves("operator", "launch")
  /\ Quiet /\ UNCHANGED <<receipt, lock, at, copy, orphan, world, replay, runners, builds>>

(* CodeBuild.  A build works with its runner's access and fails without it. *)
BuildEnds == \E k \in Builds, s \in {"SUCCEEDED", "FAILED"} :
               /\ builds[k] # <<>> /\ Latest(k) = "IN_PROGRESS"
               /\ s = "SUCCEEDED" => Project[k] \in runners
               /\ builds' = [builds EXCEPT ![k][Len(builds[k])] = s]
               /\ Quiet /\ UNCHANGED <<receipt, lock, world, replay, runners, handle, local>>

-----------------------------------------------------------------------------
(* What the command under way may still have done when its caller ends.     *)
Between(a, b) == {x \in SUBSET (a \cup b) : a \cap b \subseteq x}
Outcome(r) ==
  /\ runners' \in IF pc[r] = "act" THEN Between(runners, Applied) ELSE {runners}
  /\ builds' \in IF pc[r] = "launch" /\ Len(builds[Current]) < MaxBuilds
                 THEN {builds, Launched} ELSE {builds}
  /\ done' \in IF pc[r] = "effect" THEN {done, done \cup Unknown(at[r])} ELSE {done}

Calm == calm' = TRUE /\ UNCHANGED <<ceremony, receipt, lock, stale, world, platform, local>>

Active(r) == pc[r] \notin {"idle", "over"} /\ ~calm
Exit(r) == /\ "exit" \in Faults /\ Active(r) /\ pc[r] # "vault"
           /\ Outcome(r)
           /\ IF r = "operator" THEN Moves(r, "idle") /\ UNCHANGED <<lock, at, copy, orphan>> ELSE Ends(r)
           /\ Quiet /\ UNCHANGED <<receipt, attempts, proofs, replay, handle>>

(* The lock stays for ever.  A child may go on alone.                       *)
Kill(r) == /\ "kill" \in Faults /\ Active(r) /\ r \in Runs
           /\ stale' = (stale \/ r \in lock)
           /\ \/ /\ Outcome(r) /\ Moves(r, Home(r)) /\ orphan' = orphan \ {r}
                 /\ at' = [at EXCEPT ![r] = "none"] /\ copy' = [copy EXCEPT ![r] = Blank]
              \/ /\ pc[r] \in {"work", "effect", "proof"} \cup Bootstrapping /\ r \notin orphan
                 /\ orphan' = orphan \cup {r} /\ UNCHANGED <<runners, builds, done, pc, at, copy>>
           /\ UNCHANGED <<ceremony, receipt, lock, attempts, proofs, replay, handle, calm>>

-----------------------------------------------------------------------------
Invocation(r) == \/ Step(r) \/ LookAdvance(r) \/ LookBind(r) \/ LookPrepare(r) \/ Write(r)
                 \/ Perform(r) \/ Attempt(r) \/ Effect(r) \/ Prove(r) \/ VaultReturns(r)
                 \/ BootBegins(r) \/ BootIntent(r) \/ Act(r) \/ BootRecord(r) \/ BootEnds(r)
                 \/ BuildIntent(r) \/ BuildFollow(r)
Monitor(r) == BuildLaunch(r) \/ BuildHandle(r) \/ BuildPoll(r)

(* The ceremony a run has begun, and one the operator takes up by hand when *)
(* the release says that it will not replay it.                             *)
ReleaseStays == UNCHANGED <<receipt, lock, stale, world, platform, local, calm>>
CeremonyGoes(i) == CeremonyStep(i) /\ ReleaseStays
CeremonyEnds(i) == (CeremonyExit(i) \/ CeremonyKill(i)) /\ ReleaseStays
ByHand(i) == /\ i \notin Runs /\ receipt.phase = "vault-started" /\ checkpoint # "configured"
             /\ Begin(i) /\ ReleaseStays

Next == \/ \E r \in Resumes : Resume(r) \/ Enter(r)
        \/ \E r \in Runs : Invocation(r) \/ Kill(r)
        \/ \E r \in Procs : Monitor(r) \/ Exit(r)
        \/ \E i \in Ceremony : CeremonyGoes(i) \/ CeremonyEnds(i) \/ ByHand(i)
        \/ RetryTerminal \/ BuildEnds \/ Calm

Spec == Init /\ [][Next]_vars

(* Invocations and the ceremonies in their hands go on, CodeBuild ends its  *)
(* builds, the operator resumes again and again, and faults cease.          *)
FairSpec == /\ Spec /\ WF_vars(BuildEnds) /\ WF_vars(Monitor("operator")) /\ WF_vars(Calm)
            /\ \A r \in Runs : WF_vars(Invocation(r) \/ Monitor(r))
            /\ \A i \in Ceremony : WF_vars(CeremonyGoes(i))
            /\ \A r \in Resumes : WF_vars(Resume(r) \/ Enter(r))

-----------------------------------------------------------------------------
TypeOK ==
  /\ CeremonyTypeOK
  /\ receipt \in [phase : Phase, bound : BOOLEAN, prepared : SUBSET Prepared]
  /\ lock \subseteq Runs /\ stale \in BOOLEAN /\ calm \in BOOLEAN
  /\ done \subseteq Phase \cup Ceremonies /\ proofs \subseteq Prepared
  /\ attempts \in [Ceremonies -> 0 .. 2]
  /\ replay = <<>> \/ replay \in [{Bootstrap[n] : n \in DOMAIN Bootstrap} ->
                                    {"new", "intent", "complete"}]
  /\ runners \subseteq {"argocd", "vault"}
  /\ handle \in [Builds -> {"none", "start-intent", "running", "SUCCEEDED", "FAILED"}]
  /\ builds \in [Builds -> Seq({"IN_PROGRESS", "SUCCEEDED", "FAILED"})]
  /\ at \in [Runs -> Phase] /\ orphan \subseteq Runs
  /\ copy \in [Runs -> [phase : Phase, bound : BOOLEAN, prepared : SUBSET Prepared]]
  /\ pc \in [Procs -> {"idle", "over", "prompted", "step", "prepare", "bind", "advance", "write",
                       "work", "effect", "proof", "vault"} \cup Bootstrapping]

(* No ceremony is started twice, however often and wherever the release is  *)
(* cut short and resumed (interactive-hoodi-release.sh 257-270, 326-441).   *)
OnceEach == \A c \in Ceremonies : attempts[c] <= 1

(* The receipt never runs ahead: a completed phase was done, in a Vault     *)
(* that is configured, on a platform that is complete and whose temporary   *)
(* cluster administrators are gone.                                         *)
PhaseTrue ==
  /\ \A p \in Repeatable : Index[receipt.phase] > Index[p] => p \in done
  /\ \A c \in Prepared : Index[receipt.phase] > Index[Started[c]] => c \in done
  /\ Index[receipt.phase] > Index["vault-started"] => configured
  /\ Reached(receipt.phase, "platform-complete") =>
       runners = {} /\ \A k \in Builds : builds[k] # <<>> /\ Latest(k) = "SUCCEEDED"

(* One build at a time for a project, started when all earlier ones had     *)
(* failed; while it runs nobody takes its runner away.                      *)
OneLiveBuild == \A k \in Builds : \A n \in DOMAIN builds[k] :
                  /\ n < Len(builds[k]) => builds[k][n] = "FAILED"
                  /\ builds[k][n] = "IN_PROGRESS" => Project[k] \in runners

(* Every way for a release to be stuck for good, as the code has it: the    *)
(* installation ended before the receipt or before it bound the custody,    *)
(* the lock of a killed invocation, a bootstrap that left no replay         *)
(* checkpoint, a build in doubt or failed, a ceremony without proof.        *)
Nobody(labels) == \A r \in Procs : pc[r] \notin labels
DeadEnd ==
  \/ InstallOver /\ receipt.phase = "none"
  \/ InstallOver /\ ~receipt.bound /\ receipt.phase = "platform-complete"
  \/ stale
  \/ InstallOver /\ receipt.phase = "platform-started" /\ replay = <<>> /\ Nobody({"work"})
  \/ \E k \in Builds : \/ handle[k] = "start-intent" /\ Nobody({"launch", "handle"})
                       \/ builds[k] # <<>> /\ Latest(k) = "FAILED"
  \/ receipt.phase = "vault-started" /\ checkpoint # "configured" /\ Nobody({"vault", "work"})
  \/ \E c \in Unknown(receipt.phase) \cap Prepared : c \notin proofs /\ Nobody({"work", "effect", "proof"})

(* Whatever cut it short before, a release that may go on from then on      *)
(* undisturbed completes, unless it is in one of these dead ends.           *)
Finishes == <>[](receipt.phase = "complete" \/ DeadEnd)
=============================================================================
