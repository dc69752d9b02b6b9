------------------------ MODULE InstallerStagesProofs ------------------------
(* Proofs about the installer's stages and the guided platform inside, for  *)
(* every set of faults and every bound on the builds: first what            *)
(* VaultPlatform promises by itself, through its instance V, then the       *)
(* stages around it.                                                        *)
EXTENDS InstallerStages, TLAPS

(* The initial state satisfies the invariant.                               *)
LEMMA PlatformInit == V!Init => V!IInv
<1> SUFFICES ASSUME V!Init PROVE V!IInv
  OBVIOUS
<1> USE PlatformAssumption DEF V!Init, V!Phases, V!Before, V!Open, V!Recorded, V!Tried, V!AtWork, V!WorkMade
<1>1. V!TypeOK
  <2>1. builds \in Seq(V!BuildStatus) /\ Len(builds) <= MaxBuilds
    OBVIOUS
  <2>2. cloud \in V!Cloud
    BY DEF V!Cloud, V!Resource
  <2>3. receipt \in [success : 0 .. MaxBuilds, failure : 0 .. MaxBuilds]
    OBVIOUS
  <2>4. evidence \in [V!Phases -> SUBSET {"plan", "attempt", "success"}]
    OBVIOUS
  <2>5. pc \in V!Labels /\ job \in V!Jobs
    BY DEF V!Labels, V!Jobs
  <2> QED
    BY <2>1, <2>2, <2>3, <2>4, <2>5 DEF V!TypeOK
<1>2. V!JobFounded /\ V!WorkKnown /\ V!CloudKnown /\ V!BuildKnown /\ V!BuildEvident
  BY DEF V!JobFounded, V!WorkKnown, V!CloudKnown, V!BuildKnown, V!BuildEvident
<1> QED
  BY <1>1, <1>2 DEF V!IInv

(* Every step of an invocation keeps the invariant.                         *)
LEMMA InvocationFounded == V!IInv /\ V!Invocation => V!IInv'
<1> SUFFICES ASSUME V!IInv, V!Invocation PROVE V!IInv'
  OBVIOUS
<1> USE PlatformAssumption
<1> USE DEF V!IInv, V!TypeOK, V!JobFounded, V!WorkKnown, V!CloudKnown, V!BuildKnown, V!BuildEvident,
            V!Phases, V!Jobs, V!Cloud, V!Resource, V!Labels, V!BuildStatus,
            V!Before, V!After, V!Open, V!Recorded, V!Tried, V!AtWork, V!WorkMade, V!Ends,
            V!files, V!platform, V!aws, V!local
<1>2. CASE V!Advance \/ V!Returns
  BY <1>2 DEF V!Advance, V!Returns, V!NextJob, V!JobOf
<1>3. CASE V!MirrorBegins
  BY <1>3 DEF V!MirrorBegins
<1>4. CASE V!MirrorRefused
  BY <1>4 DEF V!MirrorRefused
<1>5. CASE V!MirrorPublishes
  <2>1. mirror' \subseteq {"marker", "manifest", "receipt"}
    BY <1>5 DEF V!MirrorPublishes
  <2>2. pc' \in {"copied", "advance"} /\ pc \in {"copy", "copied"}
    BY <1>5 DEF V!MirrorPublishes
  <2> QED
    BY <1>5, <2>1, <2>2 DEF V!MirrorPublishes
<1>6. CASE V!Workspace
  BY <1>6 DEF V!Workspace, V!Obstructed, V!Due
<1>7. CASE V!WorkspaceRefused
  BY <1>7 DEF V!WorkspaceRefused
<1>24. CASE V!Try
  BY <1>24 DEF V!Try
<1>8. CASE V!Drift
  BY <1>8 DEF V!Drift, V!Expected
<1>9. CASE V!Plan
  BY <1>9 DEF V!Plan, V!Expected
<1>10. CASE V!Attempt
  BY <1>10 DEF V!Attempt, V!Expected, V!Attempted
<1>11. CASE V!Terraform
  BY <1>11 DEF V!Terraform
<1>12. CASE V!Confirm
  BY <1>12 DEF V!Confirm
<1>13. CASE V!Reconciled
  BY <1>13 DEF V!Reconciled, V!Expected
<1>14. CASE V!Cleanup
  BY <1>14 DEF V!Cleanup, V!WithoutWork
<1>15. CASE V!Start
  BY <1>15 DEF V!Start, V!Unstarted
<1>16. CASE V!StartBuild
  BY <1>16 DEF V!StartBuild
<1>17. CASE V!RecordBuild
  BY <1>17 DEF V!RecordBuild
<1>18. CASE V!Follow
  BY <1>18 DEF V!Follow
<1>19. CASE V!StartRefused
  BY <1>19 DEF V!StartRefused
<1>20. CASE V!NotTerminal
  BY <1>20 DEF V!NotTerminal
<1>21. CASE V!BuildSucceeded
  BY <1>21 DEF V!BuildSucceeded
<1>22. CASE V!BuildFailed
  BY <1>22 DEF V!BuildFailed, V!Complete
<1>23. CASE V!Terminated
  BY <1>23 DEF V!Terminated, V!JobOf
<1> QED
  BY <1>2, <1>3, <1>4, <1>5, <1>6, <1>7, <1>8, <1>9, <1>10, <1>11, <1>12,
     <1>13, <1>14, <1>15, <1>16, <1>17, <1>18, <1>19, <1>20, <1>21, <1>22, <1>23, <1>24 DEF V!Invocation

(* So does every other step.                                                *)
LEMMA PlatformStep == V!IInv /\ [V!Next]_(V!vars) => V!IInv'
<1> SUFFICES ASSUME V!IInv, [V!Next]_(V!vars) PROVE V!IInv'
  OBVIOUS
<1> USE PlatformAssumption
<1> USE DEF V!IInv, V!TypeOK, V!JobFounded, V!WorkKnown, V!CloudKnown, V!BuildKnown, V!BuildEvident,
            V!Phases, V!Jobs, V!Cloud, V!Resource, V!Labels, V!BuildStatus,
            V!Before, V!After, V!Open, V!Recorded, V!Tried, V!AtWork, V!WorkMade, V!Ends,
            V!files, V!platform, V!aws, V!local
<1>1. CASE V!Resume \/ V!Expert
  <2>1. CASE V!Resume
    <3>1. ~expert' /\ pc' = "advance" /\ result' = "none"
      BY <2>1 DEF V!Resume
    <3>2. expert' \in BOOLEAN
      BY <2>1 DEF V!Resume
    <3>3. V!TypeOK'
      BY <2>1, <3>1, <3>2 DEF V!Resume
    <3>4. V!JobFounded'
      BY <2>1, <3>1 DEF V!Resume
    <3>5. (V!WorkKnown /\ V!CloudKnown /\ V!BuildKnown /\ V!BuildEvident)'
      BY <2>1, <3>1 DEF V!Resume
    <3> QED
      BY <3>3, <3>4, <3>5
  <2>2. ASSUME NEW j \in {"mirror", "plan", "apply"}, V!Asked(j) PROVE V!IInv'
    <3>1. job' \in V!Jobs /\ (pc' = "workspace" => job'[1] = "prepare")
      BY <2>2 DEF V!Asked
    <3>2. pc' \in {"mirror", "workspace"} /\ expert' = TRUE /\ result' = "none"
      BY <2>2 DEF V!Asked
    <3> QED
      BY <2>2, <3>1, <3>2 DEF V!Asked
  <2> QED
    BY <1>1, <2>1, <2>2 DEF V!Expert
<1>2. CASE V!BuildEnds
  BY <1>2 DEF V!BuildEnds
<1>3. CASE V!Calm
  BY <1>3 DEF V!Calm
<1>4. CASE V!Exception
  BY <1>4 DEF V!Exception, V!Outcome, V!Partial
<1>5. CASE V!Kill
  BY <1>5 DEF V!Kill, V!Outcome, V!Partial
<1>6. CASE UNCHANGED V!vars
  BY <1>6 DEF V!vars
<1> QED
  BY <1>1, <1>2, <1>3, <1>4, <1>5, <1>6, InvocationFounded DEF V!Next

(* The inductive invariant holds in every reachable state.                  *)
THEOREM PlatformInductive == V!Spec => []V!IInv
BY PlatformInit, PlatformStep, PTL DEF V!Spec

(* Variables keep their types.                                              *)
THEOREM PlatformTyped == V!Spec => []V!TypeOK
<1>1. V!IInv => V!TypeOK
  BY DEF V!IInv
<1> QED
  BY <1>1, PlatformInductive, PTL

(* One build at most, whatever is cut short and resumed.                    *)
THEOREM OneBuild == V!Spec => []V!AtMostOneBuild
<1>1. V!IInv => V!AtMostOneBuild
  BY DEF V!IInv, V!BuildKnown, V!AtMostOneBuild
<1> QED
  BY <1>1, PlatformInductive, PTL

(* A job finds the workspace of an earlier invocation in its way only if    *)
(* that one did not come to the end of the finally block that removes it:   *)
(* it was killed, or an exception met it before the try or in the removal.  *)
THEOREM UnobstructedHolds == V!Spec => []V!Unobstructed
<1>1. V!IInv => V!Unobstructed
  BY DEF V!IInv, V!JobFounded, V!WorkKnown, V!WorkMade, V!Tried, V!Unobstructed
<1> QED
  BY <1>1, PlatformInductive, PTL

(* Terminal receipts are unique and true.                                   *)
THEOREM TrueReceipts == V!Spec => []V!BuildEvident
<1>1. V!IInv => V!BuildEvident
  BY DEF V!IInv
<1> QED
  BY <1>1, PlatformInductive, PTL

(* No build runs without the authority it needs: while one runs, no         *)
(* terminal receipt exists, hence no attempt to revoke the grant.           *)
THEOREM Authorized == V!Spec => []V!BuildsAuthorized
<1>1. ASSUME V!IInv PROVE V!BuildsAuthorized
  <2> SUFFICES ASSUME NEW b \in DOMAIN builds, builds[b] = "IN_PROGRESS"
               PROVE cloud = V!After("grant")
    BY DEF V!BuildsAuthorized
  <2> USE <1>1, PlatformAssumption
  <2>1. b = 1 /\ builds # <<>>
    BY DEF V!IInv, V!TypeOK, V!BuildKnown
  <2>2. ~V!Recorded
    BY <2>1 DEF V!IInv, V!TypeOK, V!BuildKnown, V!BuildEvident, V!Recorded
  <2>3. ~V!Open("grant") /\ ~V!Tried("revoke")
    BY <2>1, <2>2 DEF V!IInv, V!BuildEvident, V!JobFounded, V!CloudKnown
  <2> QED
    BY <2>3 DEF V!IInv, V!CloudKnown
<1> QED
  BY <1>1, PlatformInductive, PTL

(* The local evidence of the temporary authority is true of AWS.            *)
THEOREM TrueAuthority == V!Spec => []V!AuthorityEvident
<1>1. V!IInv => V!AuthorityEvident
  BY DEF V!IInv, V!TypeOK, V!CloudKnown, V!AuthorityEvident, V!Tried, V!Open, V!Phases, V!Before, V!After
<1> QED
  BY <1>1, PlatformInductive, PTL
-----------------------------------------------------------------------------
(* Only an invocation that is at work takes steps that touch AWS or the     *)
(* evidence.  None of them takes the runner away, and a recorded            *)
(* preparation has it there.                                                *)
LEMMA InvocationWorks == V!Invocation => pc # "idle"
BY DEF V!Invocation, V!Advance, V!Returns, V!MirrorBegins, V!MirrorRefused, V!MirrorPublishes,
       V!Workspace, V!WorkspaceRefused, V!Try, V!Drift, V!Plan, V!Attempt, V!Terraform, V!Confirm,
       V!Reconciled, V!Cleanup, V!Start, V!StartBuild, V!RecordBuild, V!Follow,
       V!StartRefused, V!NotTerminal, V!BuildSucceeded, V!BuildFailed, V!Terminated

LEMMA InvocationEvidence ==
  ASSUME V!Invocation
  PROVE  \/ UNCHANGED <<evidence, cloud>> \/ V!Plan \/ V!Attempt \/ V!Terraform \/ V!Confirm
<1> USE DEF V!files, V!platform, V!aws, V!local
<1>1. CASE V!Advance \/ V!Returns \/ V!MirrorBegins \/ V!MirrorRefused \/ V!MirrorPublishes
  BY <1>1 DEF V!Advance, V!Returns, V!MirrorBegins, V!MirrorRefused, V!MirrorPublishes
<1>2. CASE V!Workspace \/ V!WorkspaceRefused \/ V!Try \/ V!Drift \/ V!Reconciled \/ V!Cleanup
  BY <1>2 DEF V!Workspace, V!WorkspaceRefused, V!Try, V!Drift, V!Reconciled, V!Cleanup
<1>3. CASE V!Start \/ V!StartBuild \/ V!RecordBuild \/ V!Follow \/ V!StartRefused
  BY <1>3 DEF V!Start, V!StartBuild, V!RecordBuild, V!Follow, V!StartRefused
<1>4. CASE V!NotTerminal \/ V!BuildSucceeded \/ V!BuildFailed \/ V!Terminated
  BY <1>4 DEF V!NotTerminal, V!BuildSucceeded, V!BuildFailed, V!Terminated
<1> QED
  BY <1>1, <1>2, <1>3, <1>4 DEF V!Invocation

Access == V!Invocation \/ V!BuildEnds \/ V!Calm \/ V!Exception \/ V!Kill
RunnerKnown == ~V!Open("prepare") => cloud.runner = "present"

LEMMA PlatformFrame ==
  ASSUME V!IInv, RunnerKnown, Access
  PROVE  /\ pc # "idle" \/ UNCHANGED <<pc, cloud>>
         /\ cloud.runner # "absent" => cloud'.runner # "absent"
         /\ RunnerKnown'
<1> USE DEF V!IInv, V!TypeOK, V!Cloud, V!Resource, V!files, V!platform, V!aws, V!local, V!Ends,
            V!Open, V!Phases, V!Jobs, RunnerKnown
<1>1. CASE V!BuildEnds \/ V!Calm
  BY <1>1 DEF V!BuildEnds, V!Calm
<1>2. CASE V!Exception \/ V!Kill
  <2>1. cloud' \in IF pc = "apply" THEN {cloud, V!Partial(job[1]), V!After(job[1])} ELSE {cloud}
    BY <1>2 DEF V!Exception, V!Kill, V!Outcome
  <2>2. pc # "idle" /\ UNCHANGED evidence
    BY <1>2 DEF V!Exception, V!Kill
  <2>3. pc = "apply" => V!Open(job[1]) /\ job[1] \in V!Phases
    BY DEF V!JobFounded
  <2> QED
    BY <2>1, <2>2, <2>3 DEF V!Partial, V!After
<1>3. CASE V!Invocation
  <2>1. CASE UNCHANGED <<evidence, cloud>>
    BY <1>3, <2>1, InvocationWorks
  <2>2. CASE V!Plan \/ V!Attempt
    BY <2>2 DEF V!Plan, V!Attempt, V!Attempted
  <2>3. CASE V!Terraform
    BY <2>3 DEF V!Terraform, V!After
  <2>4. CASE V!Confirm
    BY <2>4 DEF V!Confirm, V!JobFounded, V!After
  <2> QED
    BY <1>3, <2>1, <2>2, <2>3, <2>4, InvocationEvidence
<1> QED
  BY <1>1, <1>2, <1>3 DEF Access

(* Two wrappers at work would need an invocation that waits for one, while  *)
(* the other has outlived its own: its stage is marked, and none begins.    *)
LEMMA Alone == IInv => OneTerraform
<1> SUFFICES ASSUME ChildKnown, Working("own"), Working("orphan") PROVE FALSE
  BY DEF IInv, OneTerraform
<1> QED
  BY DEF ChildKnown, Working, Steps

(* The steps of an invocation and of a wrapper, as the guided platform sees *)
(* them: nothing happens, and the baseline's apply changes nothing of its.  *)
LEMMA BaselineHarmless == IInv /\ cloud.runner = "absent"
                            => cloud = [runner |-> "absent", admin |-> "absent"]
<1> SUFFICES ASSUME IInv, cloud.runner = "absent"
             PROVE cloud = [runner |-> "absent", admin |-> "absent"]
  OBVIOUS
<1>1. cloud \in [runner : Resource, admin : Resource]
  BY DEF IInv, V!IInv, V!TypeOK, V!Cloud, V!Resource, Resource
<1>2. V!Open("prepare")
  BY DEF IInv, VaultKnown
<1>3. cloud.admin = "absent"
  BY <1>2 DEF IInv, V!IInv, V!CloudKnown
<1> QED
  BY <1>1, <1>3

LEMMA StepImplements == IInv /\ [Next]_vars => [V!Next]_(V!vars)
<1> SUFFICES ASSUME IInv, [Next]_vars PROVE [V!Next]_(V!vars)
  OBVIOUS
<1> USE DEF V!vars, V!files, V!platform, V!aws, V!local, guided
<1>1. ASSUME NEW c \in Commands, Create(c) \/ Begin(c) PROVE UNCHANGED V!vars
  BY <1>1 DEF Create, Begin
<1>2. CASE Guided
  BY <1>2 DEF Guided, V!Next
<1>3. CASE Run
  <2>1. CASE VaultMirror \/ VaultJob("vault_plan", "plan") \/ VaultJob("vault_apply", "apply")
    BY <2>1 DEF VaultMirror, VaultJob, V!Next, V!Expert
  <2> QED
    BY <1>3, <2>1 DEF Run, Created, Begun, Prepared, Confirmed, Recorded, OpsPrepared, OpsMarked,
                OpsRecorded, OpsVerified, VaultInputs, VaultEnded
<1>4. ASSUME NEW c \in {"own", "orphan"}, Wrapper(c) \/ Fails(c) PROVE UNCHANGED V!vars
  <2>1. CASE Baseline(c)
    BY <2>1, BaselineHarmless DEF Baseline, PlanHarmless
  <2>2. CASE Foundation(c) \/ BaselineRefused(c) \/ Outputs(c)
    BY <2>2 DEF Foundation, BaselineRefused, Outputs
  <2>3. CASE OpsPlan(c) \/ Instance(c) \/ Session(c) \/ Fails(c)
    BY <2>3 DEF OpsPlan, Instance, Session, Fails
  <2> QED
    BY <1>4, <2>1, <2>2, <2>3 DEF Wrapper
<1>5. CASE CutShort \/ VerifyFails
  BY <1>5 DEF CutShort, VerifyFails
<1>6. CASE Platform
  BY <1>6 DEF Platform, Killed, V!Next
<1>7. CASE UNCHANGED vars
  BY <1>7 DEF vars
<1> QED
  BY <1>1, <1>2, <1>3, <1>4, <1>5, <1>6, <1>7 DEF Next, Command, Children

Mine == TypeOK /\ CheckpointKnown /\ ChildKnown /\ BehindKnown /\ CompleteTrue /\ VaultKnown

LEMMA CommandKeeps == ASSUME IInv, Command PROVE Mine'
<1> USE DEF IInv, Mine, TypeOK, CheckpointKnown, ChildKnown, BehindKnown, CompleteTrue, VaultKnown,
            Free, Working, Steps, Required, Stages, Status, Commands, Resource, Labels, Interrupted, Verified,
            V!Open, guided, checkpoint, files, installer
<1>1. ASSUME NEW c \in Commands, Create(c) PROVE Mine'
  BY <1>1 DEF Create
<1>2. ASSUME NEW c \in Commands, Begin(c) PROVE Mine'
  <2>1. /\ at' \in {"begin", "ops_prepare", "ops_mark", "vault_mark"} /\ op' = c /\ Free
        /\ UNCHANGED <<checkpoint, base, host, files, child, guided, cloud>>
        /\ store = "ready" /\ ~temp /\ ~Interrupted
    BY <1>2 DEF Begin, FirstLabel, OpsCommands, VaultCommands
  <2>2. at' = "vault_mark" \/ (at' = "begin" /\ c = "mirror") => c \in VaultCommands
    BY <1>2 DEF Begin, FirstLabel, OpsCommands, VaultCommands
  <2>3. c \in VaultCommands => Verified
    BY <1>2 DEF Begin, Admits
  <2> HIDE DEF Commands, VaultCommands
  <2>4. TypeOK' /\ CheckpointKnown'
    BY <2>1
  <2>5. ChildKnown' /\ BehindKnown'
    BY <2>1
  <2>6. CompleteTrue'
    BY <2>1
  <2>7. VaultKnown'
    BY <2>1, <2>2, <2>3
  <2> QED
    BY <2>4, <2>5, <2>6, <2>7
<1>3. CASE Guided
  BY <1>3 DEF Guided, Gate, V!Resume, V!files, V!platform
<1> QED
  BY <1>1, <1>2, <1>3 DEF Command

LEMMA RunKeeps == ASSUME IInv, Run PROVE Mine'
<1> USE DEF IInv, Mine, TypeOK, CheckpointKnown, ChildKnown, BehindKnown, CompleteTrue, VaultKnown,
            Working, Steps, Required, Stages, Status, Commands, Resource, Labels, Interrupted, Verified,
            V!Open, guided, checkpoint, files, Marks, Yields
<1>1. CASE Created
  BY <1>1 DEF Created
<1>2. CASE Begun
  BY <1>2 DEF Begun
<1>3. CASE Prepared
  BY <1>3 DEF Prepared
<1>4. CASE Confirmed
  BY <1>4 DEF Confirmed
<1>5. CASE Recorded
  BY <1>5 DEF Recorded, Outcome
<1>6. CASE OpsPrepared
  BY <1>6 DEF OpsPrepared
<1>7. CASE OpsMarked
  BY <1>7 DEF OpsMarked, OpsStep
<1>8. CASE OpsRecorded
  BY <1>8 DEF OpsRecorded
<1>9. CASE OpsVerified
  BY <1>9 DEF OpsVerified, Reachable
<1>10. CASE VaultInputs
  BY <1>10 DEF VaultInputs
<1>11. CASE VaultMirror
  BY <1>11 DEF VaultMirror, V!Asked, V!files, V!platform
<1>12. ASSUME NEW c, NEW j, VaultJob(c, j) PROVE Mine'
  BY <1>12 DEF VaultJob, V!Asked, V!files, V!platform
<1>13. CASE VaultEnded
  BY <1>13 DEF VaultEnded
<1> QED
  BY <1>1, <1>2, <1>3, <1>4, <1>5, <1>6, <1>7, <1>8, <1>9, <1>10, <1>11, <1>12, <1>13 DEF Run

(* A wrapper works on its own: the other one does not, and neither does the *)
(* guided platform.                                                         *)
LEMMA ChildAlone == ASSUME IInv, NEW c \in {"own", "orphan"}, Working(c)
                    PROVE  /\ pc = "idle"
                           /\ \A d \in {"own", "orphan"} \ {c} : ~Working(d)
<1>1. pc = "idle"
  BY DEF IInv, ChildKnown, VaultKnown, Working, Steps, Required, Interrupted, Verified
<1> QED
  BY <1>1, Alone DEF OneTerraform

LEMMA ChildrenKeep == ASSUME IInv, Children PROVE Mine'
<1> SUFFICES ASSUME NEW c \in {"own", "orphan"}, Wrapper(c) \/ Fails(c) PROVE Mine'
  BY DEF Children
<1>1. Working(c)
  BY DEF Wrapper, Fails, Foundation, Baseline, BaselineRefused, Outputs, OpsPlan, Instance,
         Session, Working, Steps
<1>2. pc = "idle" /\ \A d \in {"own", "orphan"} \ {c} : ~Working(d)
  BY <1>1, ChildAlone
<1> USE <1>1, <1>2
<1> USE DEF IInv, Mine, TypeOK, CheckpointKnown, ChildKnown, BehindKnown, CompleteTrue, VaultKnown,
            Working, Steps, Required, Stages, Status, Resource, Labels, Interrupted, Verified, V!Open,
            guided, checkpoint, files
<1>3. CASE Foundation(c)
  BY <1>3 DEF Foundation
<1>4. CASE Baseline(c)
  BY <1>4, BaselineHarmless DEF Baseline, PlanHarmless
<1>5. CASE BaselineRefused(c)
  BY <1>5 DEF BaselineRefused
<1>6. CASE Outputs(c)
  BY <1>6 DEF Outputs
<1>7. CASE OpsPlan(c)
  BY <1>7 DEF OpsPlan
<1>8. CASE Instance(c)
  BY <1>8 DEF Instance
<1>9. CASE Session(c)
  BY <1>9 DEF Session
<1>10. CASE Fails(c)
  <2>1. base' \in Resource /\ (base = "present" => base' = "present")
    BY <1>10 DEF Fails, Half
  <2>2. host' \in Resource /\ (host = "present" => host' = "present")
    BY <1>10 DEF Fails, Half
  <2>3. opsplan' \in BOOLEAN /\ (opsplan' # opsplan => child[c] = "plan")
    BY <1>10 DEF Fails
  <2>4. child' = [child EXCEPT ![c] = "broken"]
        /\ UNCHANGED <<checkpoint, handoff, session, at, op, guided, cloud>>
    BY <1>10 DEF Fails
  <2> QED
    BY <2>1, <2>2, <2>3, <2>4
<1> QED
  BY <1>3, <1>4, <1>5, <1>6, <1>7, <1>8, <1>9, <1>10 DEF Wrapper

LEMMA EndKeeps == ASSUME IInv, CutShort \/ VerifyFails PROVE Mine'
<1> USE DEF IInv, Mine, TypeOK, CheckpointKnown, ChildKnown, BehindKnown, CompleteTrue, VaultKnown,
            Working, Steps, Required, Stages, Status, Resource, Labels, Interrupted, Verified, V!Open,
            guided, checkpoint, files, Marks, Yields
<1>1. CASE CutShort
  BY <1>1 DEF CutShort, Writing
<1>2. CASE VerifyFails
  BY <1>2 DEF VerifyFails
<1> QED
  BY <1>1, <1>2

LEMMA PlatformKeeps == ASSUME IInv, Platform PROVE Mine'
<1>1. /\ Access
      /\ at' \in {at, "idle"} /\ (at' # at => pc' = "idle" /\ pc # "idle")
      /\ UNCHANGED <<checkpoint, base, host, files, op, child>>
  BY DEF Platform, Killed, Access, installer, V!Kill, V!Ends
<1>2. RunnerKnown
  BY DEF IInv, VaultKnown, RunnerKnown
<1>3. /\ pc # "idle" \/ UNCHANGED <<pc, cloud>>
      /\ cloud.runner # "absent" => cloud'.runner # "absent"
      /\ RunnerKnown'
  BY <1>1, <1>2, PlatformFrame DEF IInv
<1>4. pc # "idle" => /\ at \in {"idle", "vault"} /\ Verified
                     /\ base = "present" /\ host = "present"
                     /\ ~Working("own") /\ ~Working("orphan") /\ child["own"] = "none"
  BY DEF IInv, ChildKnown, VaultKnown, CompleteTrue, Verified, Required, Working, Steps
<1> USE DEF checkpoint, files, Working, Interrupted, Verified, Required
<1>5. (TypeOK /\ CheckpointKnown /\ CompleteTrue)'
  BY <1>1, <1>4 DEF IInv, TypeOK, CheckpointKnown, CompleteTrue, Labels
<1>6. ChildKnown'
  BY <1>1, <1>3, <1>4 DEF IInv, ChildKnown, Steps
<1>7. BehindKnown'
  BY <1>1, <1>3, <1>4 DEF IInv, BehindKnown, Steps
<1>8. VaultKnown'
  BY <1>1, <1>3, <1>4 DEF IInv, VaultKnown, RunnerKnown
<1> QED
  BY <1>5, <1>6, <1>7, <1>8 DEF Mine

(* The invariant is inductive.                                              *)
LEMMA InitInvariant == Init => IInv
<1> SUFFICES ASSUME Init PROVE IInv
  OBVIOUS
<1>1. V!IInv
  BY PlatformInit DEF Init
<1>2. pc = "idle" /\ cloud.runner = "absent" /\ V!Open("prepare")
  BY DEF Init, V!Init, V!Open, V!Phases
<1> QED
  BY <1>1, <1>2 DEF Init, IInv, TypeOK, CheckpointKnown, ChildKnown, BehindKnown, CompleteTrue,
                    VaultKnown, Required, Stages, Status, Commands, Resource, Labels, Steps, Working,
                    Interrupted

LEMMA NextInvariant == IInv /\ [Next]_vars => IInv'
<1> SUFFICES ASSUME IInv, [Next]_vars PROVE IInv'
  OBVIOUS
<1>1. V!IInv'
  BY StepImplements, PlatformStep DEF IInv
<1>2. Mine'
  <2>1. CASE UNCHANGED vars
    BY <2>1 DEF vars, installer, checkpoint, files, guided, IInv, Mine, TypeOK, CheckpointKnown,
                ChildKnown, BehindKnown, CompleteTrue, VaultKnown, Working, Interrupted,
                Required, Verified, V!Open
  <2> QED
    BY <2>1, CommandKeeps, RunKeeps, ChildrenKeep, EndKeeps, PlatformKeeps DEF Next
<1> QED
  BY <1>1, <1>2 DEF IInv, Mine

THEOREM StagesInductive == Spec => []IInv
BY InitInvariant, NextInvariant, PTL DEF Spec

(* Variables keep their types and the files their order.                    *)
THEOREM StagesTyped == Spec => []TypeOK
<1>1. IInv => TypeOK
  BY DEF IInv
<1> QED
  BY <1>1, StagesInductive, PTL

(* Never two Terraform wrappers at work: the running mark keeps out whom    *)
(* the lock, free while an orphan works, would let in.                      *)
THEOREM OneTerraformHolds == Spec => []OneTerraform
BY Alone, StagesInductive, PTL

(* A complete stage is true of AWS and of the files.                        *)
THEOREM CompleteTrueHolds == Spec => []CompleteTrue
<1>1. IInv => CompleteTrue
  BY DEF IInv
<1> QED
  BY <1>1, StagesInductive, PTL

(* Vault work and its runner are there on a whole, reachable baseline only. *)
THEOREM VaultFoundedHolds == Spec => []VaultFounded
<1>1. IInv => VaultFounded
  BY DEF IInv, VaultKnown, CompleteTrue, Verified, Required, VaultFounded
<1> QED
  BY <1>1, StagesInductive, PTL

(* The composition implements the guided platform: whatever the stages do   *)
(* beside it, nothing it has made in AWS changes under it.                  *)
THEOREM StagesImplementPlatform == Spec => ImplementsPlatform
<1>1. Init => V!Init
  BY DEF Init
<1> QED
  BY <1>1, StagesInductive, StepImplements, PTL DEF Spec, ImplementsPlatform, V!Spec

(* So what is proved of the platform holds here: no infrastructure apply,   *)
(* interrupted or repeated, takes the access away from a build that is      *)
(* still deploying with it, no build is started twice, and the evidence     *)
(* stays true.                                                              *)
THEOREM PlatformSafeHolds == Spec => []PlatformSafe
<1>1. VaultFounded /\ V!AtMostOneBuild /\ V!BuildsAuthorized /\ V!AuthorityEvident
      => PlatformSafe
  BY DEF PlatformSafe
<1> QED
  BY <1>1, OneBuild, Authorized, TrueAuthority, VaultFoundedHolds, StagesImplementPlatform, PTL
  DEF ImplementsPlatform

(* What can change while no invocation is there, and who completes a stage. *)
LEMMA IdleStep ==
  ASSUME IInv, [Next]_vars, at = "idle"
  PROVE  \/ UNCHANGED <<store, temp, stage, at>>
         \/ store = "none"
         \/ store = "ready" /\ ~Interrupted /\ ~temp
<1> USE DEF checkpoint, installer
<1>1. ASSUME NEW c \in Commands, Create(c) \/ Begin(c)
      PROVE store = "none" \/ (store = "ready" /\ ~Interrupted /\ ~temp)
  BY <1>1 DEF Create, Begin
<1>2. CASE Guided \/ Platform
  BY <1>2 DEF Guided, Platform, Killed
<1>3. CASE Run \/ CutShort \/ VerifyFails
  BY <1>3 DEF Run, Created, Begun, Prepared, Confirmed, Recorded, OpsPrepared, OpsMarked,
              OpsRecorded, OpsVerified, VaultInputs, VaultMirror, VaultJob, VaultEnded, CutShort, VerifyFails
<1>4. CASE Children
  BY <1>4 DEF Children, Wrapper, Foundation, Baseline, BaselineRefused, Outputs, OpsPlan,
              Instance, Session, Fails
<1>5. CASE UNCHANGED vars
  BY <1>5 DEF vars
<1> QED
  BY <1>1, <1>2, <1>3, <1>4, <1>5 DEF Next, Command

LEMMA CompletedStep ==
  ASSUME IInv, [Next]_vars, stage["infrastructure"] # "complete"
  PROVE  stage'["infrastructure"] # "complete" \/ (Recorded /\ cloud.runner = "absent")
<1> USE DEF checkpoint, installer, IInv, TypeOK, Required, Stages, Marks
<1>1. ASSUME NEW c \in Commands, Create(c) \/ Begin(c) PROVE UNCHANGED stage
  BY <1>1 DEF Create, Begin
<1>2. CASE Guided \/ Platform
  BY <1>2 DEF Guided, Platform, Killed
<1>3. CASE Recorded
  BY <1>3 DEF Recorded, Outcome, ChildKnown
<1>4. CASE Created \/ Begun \/ Prepared \/ Confirmed \/ OpsPrepared \/ OpsMarked
           \/ OpsRecorded \/ OpsVerified
  BY <1>4 DEF Created, Begun, Prepared, Confirmed, OpsPrepared, OpsMarked, OpsRecorded, OpsVerified
<1>8. ASSUME NEW c, NEW j, VaultInputs \/ VaultMirror \/ VaultJob(c, j) \/ VaultEnded
      PROVE stage'["infrastructure"] # "complete"
  BY <1>8 DEF VaultInputs, VaultMirror, VaultJob, VaultEnded
<1>5. CASE Children
  BY <1>5 DEF Children, Wrapper, Foundation, Baseline, BaselineRefused, Outputs, OpsPlan,
              Instance, Session, Fails
<1>6. CASE CutShort \/ VerifyFails
  BY <1>6 DEF CutShort, VerifyFails
<1>7. CASE UNCHANGED vars
  BY <1>7 DEF vars
<1> QED
  BY <1>1, <1>2, <1>3, <1>4, <1>5, <1>6, <1>7, <1>8 DEF Next, Command, Run

(* Nobody takes the runner away again.                                      *)
LEMMA RunnerStays == ASSUME IInv, [Next]_vars, cloud.runner # "absent"
                     PROVE cloud'.runner # "absent"
<1>1. CASE Platform
  <2>1. Access /\ RunnerKnown
    BY <1>1 DEF Platform, Killed, Access, IInv, VaultKnown, RunnerKnown
  <2> QED
    BY <2>1, PlatformFrame DEF IInv
<1>2. CASE Guided
  BY <1>2 DEF Guided, V!Resume
<1>3. ASSUME NEW c \in Commands, Create(c) \/ Begin(c) PROVE UNCHANGED cloud
  BY <1>3 DEF Create, Begin
<1>4. CASE Run
  BY <1>4 DEF Run, Created, Begun, Prepared, Confirmed, Recorded, OpsPrepared, OpsMarked,
              OpsRecorded, OpsVerified, VaultInputs, VaultMirror, VaultJob, VaultEnded, V!Asked
<1>5. CASE Children
  BY <1>5 DEF Children, Wrapper, Foundation, Baseline, PlanHarmless, BaselineRefused, Outputs,
              OpsPlan, Instance, Session, Fails
<1>6. CASE CutShort \/ VerifyFails
  BY <1>6 DEF CutShort, VerifyFails
<1>7. CASE UNCHANGED vars
  BY <1>7 DEF vars
<1> QED
  BY <1>1, <1>2, <1>3, <1>4, <1>5, <1>6, <1>7 DEF Next, Command

(* A host without its session gets one from the wrapper that made it, and   *)
(* from no other.                                                           *)
LEMMA HostStep ==
  ASSUME IInv, [Next]_vars, host # "absent", ~session, child["own"] # "session"
  PROVE  /\ host' # "absent"
         /\ ~session' \/ (Working("orphan") /\ UNCHANGED <<at, stage>>)
         /\ child'["own"] # "session"
<1> USE DEF checkpoint, installer, files, IInv, TypeOK, Working, Steps
<1>1. ASSUME NEW c \in Commands, Create(c) \/ Begin(c)
      PROVE UNCHANGED <<host, session, child>>
  BY <1>1 DEF Create, Begin
<1>2. CASE Guided \/ Platform
  BY <1>2 DEF Guided, Platform, Killed
<1>3. CASE Run
  BY <1>3 DEF Run, Created, Begun, Prepared, Confirmed, Recorded, OpsPrepared, OpsMarked, OpsStep,
              OpsRecorded, OpsVerified, VaultInputs, VaultMirror, VaultJob, VaultEnded
<1>4. ASSUME NEW c \in {"own", "orphan"}, Wrapper(c) \/ Fails(c)
      PROVE  /\ host' # "absent"
             /\ ~session' \/ (Working("orphan") /\ UNCHANGED <<at, stage>>)
             /\ child'["own"] # "session"
  <2>1. CASE Foundation(c) \/ Baseline(c) \/ BaselineRefused(c) \/ Outputs(c) \/ OpsPlan(c)
    BY <2>1 DEF Foundation, Baseline, BaselineRefused, Outputs, OpsPlan
  <2>2. CASE Instance(c)
    BY <2>2 DEF Instance
  <2>3. CASE Session(c)
    BY <2>3 DEF Session
  <2>4. CASE Fails(c)
    BY <2>4 DEF Fails, Half
  <2> QED
    BY <1>4, <2>1, <2>2, <2>3, <2>4 DEF Wrapper
<1>5. CASE CutShort \/ VerifyFails
  <2>1. UNCHANGED <<host, session>>
    BY <1>5 DEF CutShort, VerifyFails
  <2>2. child'["own"] # "session"
    <3>1. child'["own"] = "none" \/ child' = child
      BY <1>5 DEF CutShort, VerifyFails
    <3> QED
      BY <3>1
  <2> QED
    BY <2>1, <2>2
<1>6. CASE UNCHANGED vars
  BY <1>6 DEF vars
<1> QED
  BY <1>1, <1>2, <1>3, <1>4, <1>5, <1>6 DEF Next, Command, Children

LEMMA DeadEndKept == IInv /\ [Next]_vars /\ DeadEnd => DeadEnd'
<1> SUFFICES ASSUME IInv, [Next]_vars, DeadEnd PROVE DeadEnd'
  OBVIOUS
<1>1. CASE at = "idle" /\ (store = "empty" \/ Interrupted)
  <2>1. store # "none"
    BY <1>1 DEF IInv, CheckpointKnown
  <2>2. UNCHANGED <<store, temp, stage, at>>
    BY <1>1, <2>1, IdleStep
  <2> QED
    BY <1>1, <2>2 DEF DeadEnd, Interrupted
<1>2. CASE temp /\ ~Verified
  <2>1. at = "idle" /\ store = "ready"
    BY <1>2 DEF IInv, CheckpointKnown
  <2>2. UNCHANGED <<store, temp, stage, at>>
    BY <1>2, <2>1, IdleStep
  <2> QED
    BY <1>2, <2>2 DEF DeadEnd, Verified
<1>3. CASE stage["infrastructure"] # "complete" /\ cloud.runner # "absent"
  BY <1>3, CompletedStep, RunnerStays DEF DeadEnd
<1>4. CASE host # "absent" /\ ~session /\ child["own"] # "session"
  <2>1. Working("orphan") /\ UNCHANGED <<at, stage>> => (at = "idle" /\ Interrupted)'
    BY DEF IInv, ChildKnown, Interrupted, Stages
  <2> QED
    BY <1>4, <2>1, HostStep DEF DeadEnd
<1> QED
  BY <1>1, <1>2, <1>3, <1>4 DEF DeadEnd

(* No dead end is ever left.                                                *)
THEOREM DeadEndsStay == Spec => DeadEndStays
<1>1. IInv /\ [Next]_vars => [DeadEnd => DeadEnd']_vars
  BY DeadEndKept
<1> QED
  BY <1>1, StagesInductive, PTL DEF Spec, DeadEndStays
=============================================================================
