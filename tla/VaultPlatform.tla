--------------------------- MODULE VaultPlatform ---------------------------
(* The guided Vault platform of the installer: _advance_vault_platform of   *)
(* scripts/release/interactive_deploy.py and the adapters it calls.  One    *)
(* invocation at a time (it holds the checkpoint lock) mirrors the Vault    *)
(* artifacts, plans and applies the preparation and then the temporary      *)
(* cluster-admin grant, starts one CodeBuild build, records how it ended    *)
(* and plans and applies the revocation.  What an invocation knows is in    *)
(* the private files of the state directory, which outlive it: every step   *)
(* is guarded by the evidence the earlier ones left.  The expert commands   *)
(* do the mirror, or a step of the preparation, by themselves.              *)
(*                                                                          *)
(* An invocation may end by an exception (an AWS call that fails, a         *)
(* cancelled prompt, Ctrl-C), which runs the finally blocks it has come to, *)
(* or be killed, which runs none.                                           *)
EXTENDS Naturals, Sequences, InstallerFaults

Phases == {"prepare", "grant", "revoke"}
Jobs == (Phases \X {"plan", "apply"}) \cup {<<"grant", "reconcile">>}
Resource == {"absent", "partial", "present"}
Cloud == [runner : Resource, admin : Resource]
BuildStatus == {"IN_PROGRESS", "SUCCEEDED", "FAILED"}
Labels == {"idle", "advance", "mirror", "copy", "copied", "workspace", "made", "composed",
           "apply", "applied", "cleanup", "platform", "start", "record", "status"}

VARIABLES
  mirror,    \* artifact mirror: which of marker, manifest and receipt exist
  evidence,  \* for each phase: which of plan, attempt and success exist
  work,      \* work directories in the state directory, by the job they are for
  stale,     \* history: the jobs whose work directory an invocation left without coming to
             \* the end of its finally block
  intent,    \* vault-platform-intent.json exists
  record,    \* the build vault-platform-build.json names, 0 without the file
  receipt,   \* the builds the terminal receipts name, 0 without the file
  cloud,     \* the bootstrap runner and its cluster-admin access in AWS
  builds,    \* the status of every build CodeBuild started
  pc,        \* where the invocation is, idle when there is none
  job,       \* the phase and the action it works at
  inhand,    \* the build whose id it holds
  expert,    \* the invocation was asked for one step and does no other
  calm,      \* from now on no invocation is cut short
  result     \* what the last continuation returned, none when it did not return

platform == <<intent, record, receipt, stale>>
files == <<mirror, evidence, work, platform>>
aws == <<cloud, builds>>
local == <<job, inhand, expert, result, calm>>
vars == <<files, aws, pc, local>>

Init ==
  /\ mirror = {} /\ evidence = [ph \in Phases |-> {}] /\ work = {} /\ stale = {}
  /\ intent = FALSE /\ record = 0 /\ receipt = [success |-> 0, failure |-> 0]
  /\ cloud = [runner |-> "absent", admin |-> "absent"] /\ builds = <<>>
  /\ pc = "idle" /\ job = <<"prepare", "plan">> /\ inhand = 0 /\ result = "none"
  /\ expert = FALSE /\ calm = FALSE

(* The composition Terraform must find before a phase, and the one its      *)
(* apply makes.                                                             *)
UngrantedBefore(ph) == [runner |-> IF ph = "prepare" THEN "absent" ELSE "present",
                        admin |-> "absent"] \* mutant: revokes from the plain baseline
Before(ph) == [runner |-> IF ph = "prepare" THEN "absent" ELSE "present",
               admin |-> IF ph = "revoke" THEN "present" ELSE "absent"]
After(ph) == [runner |-> "present", admin |-> IF ph = "grant" THEN "present" ELSE "absent"]
Partial(ph) == [cloud EXCEPT ![IF ph = "prepare" THEN "runner" ELSE "admin"] = "partial"]
Expected(j) == IF j[2] = "reconcile" THEN After(j[1]) ELSE Before(j[1])

Complete(s) == s # "IN_PROGRESS"
HastyRecorded == intent \* mutant: a started build counts as a terminal one
Recorded == receipt.success # 0 \/ receipt.failure # 0
Open(ph) == "success" \notin evidence[ph]
JobOf(ph) == <<ph, IF "plan" \in evidence[ph] THEN "apply" ELSE "plan">>
Ends == pc' = "idle"

-----------------------------------------------------------------------------
(* resume --advance-vault-platform: _continue_vault_platform calls          *)
(* _advance_vault_platform until a final result.  Its bound of twelve turns *)
(* cannot bind: every turn but the last leaves a file behind, and there are *)
(* nine turns.                                                              *)
Resume == /\ pc = "idle"
          /\ pc' = "advance" /\ expert' = FALSE /\ result' = "none"
          /\ UNCHANGED <<files, cloud, builds, job, inhand, calm>>

NextJob == CASE Open("prepare") -> JobOf("prepare")
             [] ~Open("prepare") /\ Open("grant") -> JobOf("grant")
             [] OTHER -> <<"grant", "reconcile">>

Advance == /\ pc = "advance" /\ ~expert
           /\ IF "receipt" \notin mirror
              THEN pc' = "mirror" /\ UNCHANGED job
              ELSE pc' = "workspace" /\ job' = NextJob
           /\ UNCHANGED <<files, cloud, builds, inhand, expert, result, calm>>

(* resume --mirror-vault-artifacts, --plan-vault and --apply-vault.         *)
Asked(j) == /\ pc = "idle"
            /\ pc' = IF j = "mirror" THEN "mirror" ELSE "workspace"
            /\ job' = IF j = "mirror" THEN job ELSE <<"prepare", j>>
            /\ expert' = TRUE /\ result' = "none"
            /\ UNCHANGED <<files, cloud, builds, inhand, calm>>

Expert == \E j \in {"mirror", "plan", "apply"} : Asked(j)

Returns == /\ pc = "advance" /\ expert
           /\ Ends
           /\ UNCHANGED <<files, aws, local>>

(* mirror(): the marker is written before the first copy and never removed, *)
(* the consumer manifest and the receipt after the last.                    *)
MirrorBegins == /\ pc = "mirror" /\ mirror = {}
                /\ mirror' = {"marker"} /\ pc' = "copy"
                /\ UNCHANGED <<evidence, work, platform, aws, local>>

MirrorRefused == /\ pc = "mirror" /\ mirror # {}
                 /\ Ends
                 /\ UNCHANGED <<files, aws, local>>

MirrorPublishes == /\ \/ pc = "copy" /\ mirror' = mirror \cup {"manifest"} /\ pc' = "copied"
                      \/ pc = "copied" /\ mirror' = mirror \cup {"receipt"} /\ pc' = "advance"
                   /\ UNCHANGED <<evidence, work, platform, aws, local>>

-----------------------------------------------------------------------------
(* A fresh Terraform workspace of its own for every job.  Without the       *)
(* mirror's receipt a job has no inputs; a plan is made once, and only an   *)
(* apply that has left no evidence is begun.  The workspace is there before *)
(* its caller has entered the try whose finally removes it.                 *)
Due(j) == /\ j[2] = "plan" => evidence[j[1]] = {}
          /\ j[2] = "apply" => evidence[j[1]] = {"plan"}
Obstructed == job \in work \/ "receipt" \notin mirror \/ ~Due(job)

Workspace == /\ pc = "workspace" /\ ~Obstructed
             /\ work' = work \cup {job} /\ pc' = "made"
             /\ UNCHANGED <<mirror, evidence, platform, aws, local>>

Try == /\ pc = "made"
       /\ pc' = "composed"
       /\ UNCHANGED <<files, aws, local>>

WorkspaceRefused == /\ pc = "workspace" /\ Obstructed
                    /\ Ends
                    /\ UNCHANGED <<files, aws, local>>

(* The job's first step with its workspace is plan -detailed-exitcode: the  *)
(* composition must be the one the job expects, without pending changes.    *)
Drift == /\ pc = "composed" /\ cloud # Expected(job)
         /\ work' = work \ {job} /\ Ends
         /\ UNCHANGED <<mirror, evidence, platform, aws, local>>

(* plan_vault_prepare keeps its workspace when the plan is published.       *)
Plan == /\ pc = "composed" /\ cloud = Expected(job) /\ job[2] = "plan"
        /\ evidence' = [evidence EXCEPT ![job[1]] = @ \cup {"plan"}]
        /\ pc' = IF job[1] = "prepare" THEN "advance" ELSE "cleanup"
        /\ UNCHANGED <<mirror, work, platform, aws, local>>

UnmarkedAttempted(ph) == evidence \* mutant: the attempt is not recorded
Attempted(ph) == [evidence EXCEPT ![ph] = @ \cup {"attempt"}]
Attempt == /\ pc = "composed" /\ cloud = Expected(job) /\ job[2] = "apply"
           /\ evidence' = Attempted(job[1])
           /\ pc' = "apply"
           /\ UNCHANGED <<mirror, work, platform, aws, local>>

Terraform == /\ pc = "apply"
             /\ cloud' = After(job[1]) /\ pc' = "applied"
             /\ UNCHANGED <<files, builds, local>>

(* The grant and the revocation are reconciled once more, the preparation   *)
(* is not; Terraform has just made what they look for.                      *)
Confirm == /\ pc = "applied"
           /\ evidence' = [evidence EXCEPT ![job[1]] = @ \cup {"success"}]
           /\ pc' = "advance"
           /\ UNCHANGED <<mirror, work, platform, aws, local>>

Reconciled == /\ pc = "composed" /\ cloud = Expected(job) /\ job[2] = "reconcile"
              /\ pc' = "cleanup"
              /\ UNCHANGED <<files, aws, local>>

WithoutWork == work \ {job}
Cleanup == /\ pc = "cleanup"
           /\ work' = WithoutWork
           /\ pc' = IF job[2] = "reconcile" THEN "platform" ELSE "advance"
           /\ UNCHANGED <<mirror, evidence, platform, aws, local>>

-----------------------------------------------------------------------------
(* run() of installer_vault_platform.py after the grant is reconciled.      *)
Unrecorded == record = 0 \* mutant: an intent without a build id starts again
Unstarted == ~intent
Start == /\ pc = "platform" /\ ~Recorded /\ Unstarted /\ record = 0
         /\ intent' = TRUE /\ pc' = "start"
         /\ UNCHANGED <<mirror, evidence, work, record, receipt, stale, aws, local>>

StartBuild == /\ pc = "start" /\ Len(builds) < MaxBuilds
              /\ builds' = Append(builds, "IN_PROGRESS") /\ inhand' = Len(builds) + 1
              /\ pc' = "record"
              /\ UNCHANGED <<files, cloud, job, expert, result, calm>>

RecordBuild == /\ pc = "record"
               /\ record' = inhand /\ pc' = "status"
               /\ UNCHANGED <<mirror, evidence, work, intent, receipt, stale, aws, local>>

Follow == /\ pc = "platform" /\ ~Recorded /\ intent /\ record # 0
          /\ inhand' = record /\ pc' = "status"
          /\ UNCHANGED <<files, cloud, builds, job, expert, result, calm>>

(* An intent without a build record: the start may have happened.           *)
StartRefused == /\ pc = "platform" /\ ~Recorded /\ intent /\ record = 0
                /\ Ends
                /\ UNCHANGED <<files, aws, local>>

NotTerminal == /\ pc = "status" /\ ~Complete(builds[inhand])
               /\ Ends
               /\ UNCHANGED <<files, aws, local>>

BuildSucceeded == /\ pc = "status" /\ builds[inhand] = "SUCCEEDED"
                  /\ receipt' = [receipt EXCEPT !.success = inhand]
                  /\ pc' = "advance"
                  /\ UNCHANGED <<mirror, evidence, work, intent, record, stale, aws, local>>

(* "vault_platform_failed" is a final result: recovery needs a new resume.  *)
BuildFailed == /\ pc = "status" /\ Complete(builds[inhand]) /\ builds[inhand] # "SUCCEEDED"
               /\ receipt' = [receipt EXCEPT !.failure = inhand]
               /\ result' = "platform_failed" /\ Ends
               /\ UNCHANGED <<mirror, evidence, work, intent, record, stale, cloud, builds, job,
                              inhand, expert, calm>>

(* With a terminal receipt, whose build is looked up once more when it      *)
(* failed, the continuation goes on to the revocation; when that is done    *)
(* too it returns.                                                          *)
Terminated == /\ pc = "platform" /\ Recorded
              /\ IF Open("revoke")
                 THEN pc' = "workspace" /\ job' = JobOf("revoke") /\ UNCHANGED result
                 ELSE /\ Ends /\ UNCHANGED job
                      /\ result' = IF receipt.failure # 0 THEN "failed_authority_revoked"
                                   ELSE "sealed_authority_revoked"
              /\ UNCHANGED <<files, cloud, builds, inhand, expert, calm>>

-----------------------------------------------------------------------------
(* CodeBuild.  The build deploys with the runner's access, and fails        *)
(* without it.                                                              *)
BuildEnds == \E b \in DOMAIN builds, s \in BuildStatus \ {"IN_PROGRESS"} :
               /\ builds[b] = "IN_PROGRESS"
               /\ s = "SUCCEEDED" => cloud = After("grant")
               /\ builds' = [builds EXCEPT ![b] = s]
               /\ UNCHANGED <<files, cloud, pc, local>>

(* What a command under way when the invocation ends may still do: a killed *)
(* invocation leaves terraform or aws running, but nobody looks at what     *)
(* they do before they end, so their outcome is chosen at once.             *)
Outcome == /\ cloud' \in IF pc = "apply" THEN {cloud, Partial(job[1]), After(job[1])} ELSE {cloud}
           /\ builds' \in IF pc = "start" /\ Len(builds) < MaxBuilds
                          THEN {builds, Append(builds, "IN_PROGRESS")} ELSE {builds}

Calm == calm' = TRUE /\ UNCHANGED <<files, cloud, builds, pc, job, inhand, expert, result>>

(* An exception in the try removes the workspace, but that of an apply that *)
(* left evidence.  One between making it and the try leaves it, and so does *)
(* one, an interrupt or a file that cannot be removed, in the finally.      *)
WorkMade == pc \in {"made", "composed", "cleanup"}
Exception == /\ "exception" \in Faults /\ pc # "idle" /\ ~calm
             /\ Outcome /\ Ends
             /\ \/ /\ pc # "made" /\ UNCHANGED stale
                   /\ work' = IF WorkMade THEN work \ {job} ELSE work
                \/ WorkMade /\ stale' = stale \cup {job} /\ UNCHANGED work
             /\ UNCHANGED <<mirror, evidence, intent, record, receipt, local>>

Kill == /\ "kill" \in Faults /\ pc # "idle" /\ ~calm
        /\ Outcome /\ Ends
        /\ stale' = IF WorkMade THEN stale \cup {job} ELSE stale
        /\ UNCHANGED <<mirror, evidence, work, intent, record, receipt, local>>

Invocation == \/ Advance \/ Returns \/ MirrorBegins \/ MirrorRefused \/ MirrorPublishes
              \/ Workspace \/ WorkspaceRefused \/ Try \/ Drift \/ Plan \/ Attempt \/ Terraform
              \/ Confirm \/ Reconciled \/ Cleanup
              \/ Start \/ StartBuild \/ RecordBuild \/ Follow \/ StartRefused
              \/ NotTerminal \/ BuildSucceeded \/ BuildFailed \/ Terminated

Next == Resume \/ Expert \/ Invocation \/ BuildEnds \/ Calm \/ Exception \/ Kill

Spec == Init /\ [][Next]_vars

(* The operator resumes until the end, whatever expert commands he gives    *)
(* in between; the invocation goes on, CodeBuild ends every build (projects *)
(* have a timeout), and the faults cease.                                   *)
FairSpec == Spec /\ SF_vars(Resume) /\ WF_vars(Invocation)
                 /\ WF_vars(BuildEnds) /\ WF_vars(Calm)

-----------------------------------------------------------------------------
(* Variables keep their types, and the evidence of a phase is complete: a   *)
(* success has its attempt, an attempt its plan.                            *)
TypeOK ==
  /\ mirror \subseteq {"marker", "manifest", "receipt"}
  /\ evidence \in [Phases -> SUBSET {"plan", "attempt", "success"}]
  /\ \A ph \in Phases : /\ "success" \in evidence[ph] => "attempt" \in evidence[ph]
                        /\ "attempt" \in evidence[ph] => "plan" \in evidence[ph]
  /\ work \subseteq Jobs /\ stale \subseteq Jobs
  /\ intent \in BOOLEAN /\ record \in 0 .. MaxBuilds
  /\ receipt \in [success : 0 .. MaxBuilds, failure : 0 .. MaxBuilds]
  /\ cloud \in Cloud
  /\ builds \in Seq(BuildStatus) /\ Len(builds) <= MaxBuilds
  /\ expert \in BOOLEAN /\ calm \in BOOLEAN /\ pc \in Labels /\ job \in Jobs /\ inhand \in 0 .. MaxBuilds
  /\ result \in {"none", "platform_failed", "failed_authority_revoked", "sealed_authority_revoked"}

(* However often the operator resumes, and wherever an invocation was cut   *)
(* short, CodeBuild is asked for one build at most.                         *)
AtMostOneBuild == Len(builds) <= 1

(* The cluster-admin access is there as long as a build that needs it runs: *)
(* it is not revoked under a build that is still deploying.                 *)
BuildsAuthorized == \A b \in DOMAIN builds : builds[b] = "IN_PROGRESS" => cloud = After("grant")

(* The local evidence tells the truth about the temporary authority: there  *)
(* is none in AWS that no attempt accounts for, a recorded success that no  *)
(* later attempt disturbs is what AWS has, and a revoked one is gone.       *)
AuthorityEvident ==
  /\ cloud.admin # "absent" => "attempt" \in evidence["grant"]
  /\ \A ph \in Phases : /\ "success" \in evidence[ph]
                        /\ \A later \in Phases : Before(later) = After(ph) /\ later # ph
                             => "attempt" \notin evidence[later]
                        => cloud = After(ph)

(* A terminal receipt is unique and true of the recorded build, which       *)
(* CodeBuild ran on an intent.                                              *)
BuildEvident ==
  /\ receipt.success = 0 \/ receipt.failure = 0
  /\ receipt.success # 0 => receipt.success = record /\ builds[record] = "SUCCEEDED"
  /\ receipt.failure # 0 => receipt.failure = record /\ builds[record] = "FAILED"
  /\ record # 0 => record \in DOMAIN builds
  /\ builds # <<>> => intent

(* The inductive invariant.  A job is only worked at when the evidence that *)
(* the earlier ones leave is complete, AWS is what the evidence says but    *)
(* for the phase whose attempt has no success, and the build in hand is the *)
(* only one.                                                                *)
Tried(ph) == "attempt" \in evidence[ph]
AtWork == pc \in {"workspace", "made", "composed", "apply", "applied", "cleanup"}

JobFounded ==
  /\ AtWork /\ job[1] # "prepare" => ~Open("prepare")
  /\ AtWork /\ (job[1] = "revoke" \/ job[2] = "reconcile") => ~Open("grant")
  /\ AtWork /\ job[1] = "revoke" => Recorded
  /\ pc \in {"apply", "applied"} => /\ Tried(job[1]) /\ Open(job[1]) /\ job[2] = "apply"
                                   /\ cloud = IF pc = "apply" THEN Before(job[1]) ELSE After(job[1])
  /\ pc \in {"made", "composed"} /\ job[2] = "apply" => ~Tried(job[1]) /\ "plan" \in evidence[job[1]]
  /\ expert => pc \notin {"platform", "start", "record", "status"}
  /\ expert /\ AtWork => job[1] = "prepare"
  /\ pc = "workspace" /\ ~expert => /\ job[2] = "plan" => evidence[job[1]] = {}
                                    /\ job[2] = "apply" => "plan" \in evidence[job[1]]
  /\ pc = "cleanup" => job[2] # "apply"
  /\ pc \in {"platform", "start", "record", "status"} \/ intent => ~Open("grant")

CloudKnown ==
  /\ Tried("grant") => ~Open("prepare")
  /\ Tried("revoke") => ~Open("grant") /\ Recorded
  /\ ~Tried("prepare") => cloud = Before("prepare")
  /\ ~Open("prepare") /\ ~Tried("grant") => cloud = After("prepare")
  /\ ~Open("grant") /\ ~Tried("revoke") => cloud = After("grant")
  /\ ~Open("revoke") => cloud = After("revoke")
  /\ cloud.admin # "absent" => Tried("grant")

BuildKnown ==
  /\ Len(builds) <= 1
  /\ pc = "start" => intent /\ builds = <<>>
  /\ pc = "record" => inhand = 1 /\ Len(builds) = 1
  /\ pc \in {"start", "record"} => record = 0
  /\ pc = "status" => inhand = record /\ record # 0 /\ ~Recorded

\* What a workspace is still there for, but for those that were left behind.
WorkKnown ==
  \A j \in work \ stale : \/ j = <<"prepare", "plan">> /\ "plan" \in evidence["prepare"]
                          \/ j[2] = "apply" /\ Tried(j[1])
                          \/ WorkMade /\ j = job

IInv == TypeOK /\ JobFounded /\ WorkKnown /\ CloudKnown /\ BuildKnown /\ BuildEvident

(* A job finds the workspace of an earlier invocation in its way only if    *)
(* that one was killed with it, or ended by an exception between making it  *)
(* and the try block that removes it, or in the removal itself; or if an    *)
(* expert command asks for what was done before.  However else an           *)
(* invocation ends or fails, the next one can do the job.                   *)
Unobstructed ==
  pc = "workspace" => \/ expert
                      \/ job \notin work \ stale
                      \/ job[2] = "apply" /\ "attempt" \in evidence[job[1]]

(* What the evidence leaves open when an invocation ended inside a change:  *)
(* a mirror, an apply or the start of a build that was begun and is not     *)
(* known to have been done.  Those are refused until somebody looks.        *)
Uncertain == \/ mirror # {} /\ "receipt" \notin mirror
             \/ \E ph \in Phases : Tried(ph) /\ Open(ph)
             \/ intent /\ record = 0

(* The guided continuation, resumed until it ends, returns one of the two   *)
(* results that say the authority is revoked: _continue_vault_platform and  *)
(* its test name them as the end of the sequence.                           *)
ContinuationEnds == <>(result \in {"failed_authority_revoked", "sealed_authority_revoked"})

-----------------------------------------------------------------------------
=============================================================================
