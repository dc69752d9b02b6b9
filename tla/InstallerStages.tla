--------------------------- MODULE InstallerStages ---------------------------
(* The installer: run() of scripts/release/interactive_deploy.py with its   *)
(* checkpoint, the infrastructure and ops-access stages, their Terraform    *)
(* wrappers, and the guided Vault platform (VaultPlatform), which the       *)
(* stages let in and which shares the baseline's Terraform state with the   *)
(* infrastructure apply.                                                    *)
(*                                                                          *)
(* An invocation holds an exclusive flock, so there is one at a time.  Its  *)
(* children do not inherit the descriptor: when it is killed or interrupted *)
(* the lock is free, and a wrapper it started may still be at work.  What   *)
(* keeps others out is the stage it has marked as running.                  *)
EXTENDS Naturals, Sequences, InstallerFaults

Required == {"infrastructure", "ops_access"}
Stages == Required \cup {"vault"}
Status == {"pending", "running", "complete", "failed", "awaiting_input"}
Commands == {"discover", "prepare", "apply",
             "ops_prepare", "ops_plan", "ops_apply", "ops_verify",
             "mirror", "vault_inputs", "vault_plan", "vault_apply"}
VaultCommands == {"mirror", "vault_inputs", "vault_plan", "vault_apply"}
Resource == {"absent", "partial", "present"}
Labels == {"idle", "create", "begin", "prepare", "confirm", "apply",
           "ops_prepare", "ops_mark", "ops", "vault_mark", "vault"}
Steps == {"foundation", "baseline", "outputs", "plan", "instance", "session"}

VARIABLES
  store,    \* the state directory: none, without a checkpoint, or ready
  temp,     \* .checkpoint.json.tmp was left behind
  stage,    \* the status of each stage in the checkpoint
  base,     \* the foundation and the baseline in AWS
  handoff,  \* baseline-output.json and ops-access-handoff.json exist
  opsplan,  \* ops-access-plans/approved.tfplan exists
  host,     \* the private SSM host in AWS
  session,  \* private-eks-session.json exists
  at, op,   \* where the invocation is, and its command
  child,    \* the Terraform wrapper it waits for, and one that outlived its parent
  \* the guided Vault platform
  mirror, evidence, work, stale, intent, record, receipt, cloud, builds, pc, job, inhand, expert,
  calm, result

guided == <<mirror, evidence, work, stale, intent, record, receipt, builds, pc, job, inhand,
            expert, calm, result>>
files == <<handoff, opsplan, session>>
checkpoint == <<store, temp, stage>>
installer == <<checkpoint, base, host, files, at, op, child>>
vars == <<installer, guided, cloud>>

V == INSTANCE VaultPlatform

Init == /\ store = "none" /\ temp = FALSE /\ stage = [s \in Stages |-> "pending"]
        /\ base = "absent" /\ host = "absent"
        /\ handoff = FALSE /\ opsplan = FALSE /\ session = FALSE
        /\ at = "idle" /\ op = "discover" /\ child = [c \in {"own", "orphan"} |-> "none"]
        /\ V!Init

Working(c) == child[c] \in Steps
Free == at = "idle" /\ pc = "idle"
HeedlessInterrupted == FALSE \* mutant: a running stage is taken up again
Interrupted == \E s \in Stages : stage[s] = "running"
Verified == \A s \in Required : stage[s] = "complete"
Marks(s, status) == stage' = [stage EXCEPT ![s] = status]
Yields == at' = "idle"

-----------------------------------------------------------------------------
(* run().  A start makes the directory with the lock, then the checkpoint.  *)
Create(c) == /\ Free /\ store = "none" /\ c \in {"discover", "prepare", "apply"}
             /\ store' = "empty" /\ at' = "create" /\ op' = c
             /\ UNCHANGED <<temp, stage, base, host, files, child, guided, cloud>>

Created == /\ at = "create"
           /\ store' = "ready" /\ at' = "begin"
           /\ UNCHANGED <<temp, stage, base, host, files, op, child, guided, cloud>>

(* A resume.  Every command but the guided one writes a stage first, which  *)
(* the temporary file of an interrupted write refuses for ever.             *)
OpsCommands == {"ops_prepare", "ops_plan", "ops_apply", "ops_verify"}
StrictAdmits(c) ==
  /\ c \in OpsCommands => /\ stage["infrastructure"] = "complete"
                          /\ stage["ops_access"] \in {"pending", "awaiting_input"}
  /\ c \in VaultCommands => Verified \* mutant: a failure is final
Admits(c) ==
  /\ c \in OpsCommands => /\ stage["infrastructure"] = "complete"
                          /\ stage["ops_access"] = "complete" => c = "ops_verify"
  /\ c \in VaultCommands => Verified

FirstLabel(c) == CASE c = "ops_prepare" -> "ops_prepare"
                   [] c \in OpsCommands \ {"ops_prepare"} -> "ops_mark"
                   [] c \in VaultCommands \ {"mirror"} -> "vault_mark"
                   [] OTHER -> "begin"

(* From some time on the operator goes straight ahead.                      *)
NextCommand == CASE stage["infrastructure"] # "complete" -> "apply"
                 [] ~opsplan -> "ops_plan"
                 [] opsplan /\ ~session -> "ops_apply"
                 [] OTHER -> "ops_verify"

Begin(c) == /\ Free /\ store = "ready" /\ ~Interrupted /\ ~temp /\ Admits(c)
            /\ calm => c = NextCommand /\ ~Verified
            /\ at' = FirstLabel(c) /\ op' = c
            /\ UNCHANGED <<checkpoint, base, host, files, child, guided, cloud>>

Begun == /\ at = "begin"
         /\ at' = CASE op = "discover" -> "idle"
                    [] op = "mirror" -> "vault_mark"
                    [] OTHER -> "prepare"
         /\ UNCHANGED <<checkpoint, base, host, files, op, child, guided, cloud>>

(* The inputs are generated, or found as they were; the stage waits for the *)
(* apply, whatever it was before.                                           *)
Prepared == /\ at = "prepare"
            /\ Marks("infrastructure", "awaiting_input")
            /\ at' = IF op = "apply" THEN "confirm" ELSE "idle"
            /\ UNCHANGED <<store, temp, base, host, files, op, child, guided, cloud>>

Confirmed == /\ at = "confirm"
             /\ Marks("infrastructure", "running")
             /\ at' = "apply" /\ child' = [child EXCEPT !["own"] = "foundation"]
             /\ UNCHANGED <<store, temp, base, host, files, op, guided, cloud>>

UncheckedOutcome(c) == "complete" \* mutant: the wrapper's exit code is not looked at
Outcome(c) == IF child[c] = "done" THEN "complete" ELSE "failed"
Recorded == /\ at = "apply" /\ ~Working("own")
            /\ Marks("infrastructure", Outcome("own"))
            /\ child' = [child EXCEPT !["own"] = "none"] /\ Yields
            /\ UNCHANGED <<store, temp, base, host, files, op, guided, cloud>>

OpsPrepared == /\ at = "ops_prepare"
               /\ Marks("ops_access", "awaiting_input") /\ Yields
               /\ UNCHANGED <<store, temp, base, host, files, op, child, guided, cloud>>

(* A saved plan is never overwritten, and is applied once: a session        *)
(* handoff refuses it, and so does Terraform when it is stale.              *)
UncheckedOpsStep == CASE op = "ops_plan" -> "plan" [] op = "ops_apply" -> "instance"
                      [] OTHER -> "none" \* mutant: the reviewed digest is not compared
OpsStep == CASE op = "ops_plan" -> IF handoff /\ ~opsplan THEN "plan" ELSE "broken"
             [] op = "ops_apply" -> IF opsplan /\ ~session THEN "instance" ELSE "broken"
             [] OTHER -> "none"
OpsMarked == /\ at = "ops_mark"
             /\ Marks("ops_access", "running")
             /\ at' = "ops" /\ child' = [child EXCEPT !["own"] = OpsStep]
             /\ UNCHANGED <<store, temp, base, host, files, op, guided, cloud>>

OpsRecorded == /\ at = "ops" /\ op # "ops_verify" /\ ~Working("own")
               /\ Marks("ops_access",
                        IF child["own"] = "done" THEN "awaiting_input" ELSE "failed")
               /\ child' = [child EXCEPT !["own"] = "none"] /\ Yields
               /\ UNCHANGED <<store, temp, base, host, files, op, guided, cloud>>

(* verify_ops_access: the session handoff, the live host, and the private   *)
(* endpoint behind it.                                                      *)
Reachable == session /\ host = "present"
OpsVerified == /\ at = "ops" /\ op = "ops_verify"
               /\ Marks("ops_access", IF Reachable THEN "complete" ELSE "awaiting_input") /\ Yields
               /\ UNCHANGED <<store, temp, base, host, files, op, child, guided, cloud>>

(* The expert Vault commands: the inputs by themselves, the mirror, or one  *)
(* job of the preparation, for which the stage is marked as running.        *)
VaultInputs == /\ at = "vault_mark" /\ op = "vault_inputs"
               /\ Marks("vault", "awaiting_input") /\ Yields
               /\ UNCHANGED <<store, temp, base, host, files, op, child, guided, cloud>>

VaultMirror == /\ at = "vault_mark" /\ op = "mirror"
               /\ V!Asked("mirror") /\ at' = "vault"
               /\ UNCHANGED <<checkpoint, base, host, files, op, child>>

VaultJob(c, j) == /\ at = "vault_mark" /\ op = c
                  /\ Marks("vault", "running")
                  /\ V!Asked(j) /\ at' = "vault"
                  /\ UNCHANGED <<store, temp, base, host, files, op, child>>

(* However the job ends, its finally block takes the stage back.            *)
VaultEnded == /\ at = "vault" /\ pc = "idle"
              /\ IF op = "mirror" THEN UNCHANGED stage ELSE Marks("vault", "awaiting_input")
              /\ Yields
              /\ UNCHANGED <<store, temp, base, host, files, op, child, guided, cloud>>

-----------------------------------------------------------------------------
(* node-operator-release.sh zero apply.  The composition of the baseline's  *)
(* inputs has no Vault runner: a plan that would delete one is refused.     *)
RecklessHarmless == TRUE \* mutant: the plan is not searched for deletions
PlanHarmless == cloud.runner = "absent"
Foundation(c) == /\ child[c] = "foundation"
                 /\ base' = IF base = "absent" THEN "partial" ELSE base
                 /\ child' = [child EXCEPT ![c] = "baseline"]
                 /\ UNCHANGED <<checkpoint, host, files, at, op, guided, cloud>>

Baseline(c) == /\ child[c] = "baseline" /\ PlanHarmless
               /\ base' = "present" /\ cloud' = [runner |-> "absent", admin |-> "absent"]
               /\ child' = [child EXCEPT ![c] = "outputs"]
               /\ UNCHANGED <<checkpoint, host, files, at, op, guided>>

BaselineRefused(c) == /\ child[c] = "baseline" /\ ~PlanHarmless
                      /\ child' = [child EXCEPT ![c] = "broken"]
                      /\ UNCHANGED <<checkpoint, base, host, files, at, op, guided, cloud>>

Outputs(c) == /\ child[c] = "outputs"
              /\ handoff' = TRUE /\ child' = [child EXCEPT ![c] = "done"]
              /\ UNCHANGED <<checkpoint, base, host, opsplan, session, at, op, guided, cloud>>

(* node-operator-ops-access.sh plan and apply.  A plan is saved before it   *)
(* is judged: fresh without a host, or without changes; and it is stale for *)
(* Terraform once it has been applied, if only in part.                     *)
OpsPlan(c) == /\ child[c] = "plan"
              /\ opsplan' = TRUE
              /\ child' = [child EXCEPT ![c] = IF host = "partial" THEN "broken" ELSE "done"]
              /\ UNCHANGED <<checkpoint, base, host, handoff, session, at, op, guided, cloud>>

Instance(c) == /\ child[c] = "instance"
               /\ IF host = "absent"
                  THEN host' = "present" /\ child' = [child EXCEPT ![c] = "session"]
                  ELSE child' = [child EXCEPT ![c] = "broken"] /\ UNCHANGED host
               /\ UNCHANGED <<checkpoint, base, files, at, op, guided, cloud>>

Session(c) == /\ child[c] = "session"
              /\ session' = TRUE /\ child' = [child EXCEPT ![c] = "done"]
              /\ UNCHANGED <<checkpoint, base, host, handoff, opsplan, at, op, guided, cloud>>

(* A wrapper fails at any step, its Terraform command half way.             *)
Half(r) == IF r = "absent" THEN {"absent", "partial"} ELSE {r}
Fails(c) == /\ "exception" \in Faults /\ ~calm /\ Working(c)
            /\ base' \in IF child[c] \in {"foundation", "baseline"} THEN Half(base) ELSE {base}
            /\ host' \in IF child[c] = "instance" THEN Half(host) ELSE {host}
            /\ opsplan' \in IF child[c] = "plan" THEN BOOLEAN ELSE {opsplan}
            /\ child' = [child EXCEPT ![c] = "broken"]
            /\ UNCHANGED <<checkpoint, handoff, session, at, op, guided, cloud>>

Wrapper(c) == \/ Foundation(c) \/ Baseline(c) \/ BaselineRefused(c) \/ Outputs(c)
              \/ OpsPlan(c) \/ Instance(c) \/ Session(c)

-----------------------------------------------------------------------------
(* A kill, an exception nobody handles (a cancelled prompt, a failed check, *)
(* a write that fails) or Ctrl-C: run() catches the controlled errors of an *)
(* apply, and of a verification everything.  The temporary file of the      *)
(* write it was at may stay, and the wrapper go on.                         *)
Writing == \/ at \in {"begin", "prepare", "confirm", "ops_prepare", "ops_mark"}
           \/ at \in {"apply", "ops"} /\ ~Working("own")
           \/ at \in {"vault_mark", "vault"} /\ op # "mirror"
CutShort == /\ at # "idle" /\ pc = "idle" /\ ~calm
            /\ "kill" \in Faults \/ ("exception" \in Faults /\ ~(at = "ops" /\ op = "ops_verify"))
            /\ temp' \in IF Writing THEN {temp, TRUE} ELSE {temp}
            /\ child' = [child EXCEPT !["own"] = "none",
                         !["orphan"] = IF Working("own") THEN child["own"] ELSE @]
            /\ Yields
            /\ UNCHANGED <<store, stage, base, host, files, op, guided, cloud>>

VerifyFails == /\ "exception" \in Faults /\ ~calm /\ at = "ops" /\ op = "ops_verify"
               /\ Marks("ops_access", "awaiting_input") /\ Yields
               /\ UNCHANGED <<store, temp, base, host, files, op, child, guided, cloud>>

-----------------------------------------------------------------------------
(* resume --advance-vault-platform writes no stage.                         *)
LaxGate == stage["infrastructure"] = "complete" \* mutant: the access need not be verified
Gate == Verified
Guided == /\ Free /\ store = "ready" /\ ~Interrupted /\ Gate
          /\ V!Resume
          /\ UNCHANGED installer

(* An exception ends an expert job, and a kill the whole invocation, which  *)
(* leaves the stage marked.                                                 *)
Killed == /\ V!Kill
          /\ at' = "idle" /\ UNCHANGED <<checkpoint, base, host, files, op, child>>

Platform == \/ Killed
            \/ /\ V!Invocation \/ V!BuildEnds \/ V!Calm \/ V!Exception
               /\ UNCHANGED installer

Command == Guided \/ \E c \in Commands : Create(c) \/ Begin(c)
Run == \/ Created \/ Begun \/ Prepared \/ Confirmed \/ Recorded
       \/ OpsPrepared \/ OpsMarked \/ OpsRecorded \/ OpsVerified
       \/ VaultInputs \/ VaultMirror \/ VaultJob("vault_plan", "plan")
       \/ VaultJob("vault_apply", "apply") \/ VaultEnded
Children == \E c \in {"own", "orphan"} : Wrapper(c) \/ Fails(c)

Next == Command \/ Run \/ Children \/ CutShort \/ VerifyFails \/ Platform

Spec == Init /\ [][Next]_vars

(* The operator, the invocation, its wrapper and AWS go on, and the faults  *)
(* and detours cease.                                                       *)
FairSpec == /\ Spec
            /\ WF_vars(Command) /\ WF_vars(Run)
            /\ WF_vars(Wrapper("own")) /\ WF_vars(Wrapper("orphan"))
            /\ WF_vars(V!Invocation /\ UNCHANGED installer)
            /\ WF_vars(V!BuildEnds /\ UNCHANGED installer)
            /\ WF_vars(V!Calm /\ UNCHANGED installer)

-----------------------------------------------------------------------------
(* Variables keep their types, and the files come in their order: a session *)
(* handoff only from a saved plan, and that only from the baseline's.       *)
TypeOK ==
  /\ store \in {"none", "empty", "ready"} /\ temp \in BOOLEAN
  /\ stage \in [Stages -> Status]
  /\ base \in Resource /\ host \in Resource
  /\ handoff \in BOOLEAN /\ opsplan \in BOOLEAN /\ session \in BOOLEAN
  /\ (session => opsplan) /\ (opsplan => handoff)
  /\ at \in Labels /\ op \in Commands
  /\ child \in [{"own", "orphan"} -> Steps \cup {"none", "done", "broken"}]

(* No two Terraform wrappers are ever at work at once, though the lock is   *)
(* free while one that outlived its invocation still is.                    *)
OneTerraform == ~(Working("own") /\ Working("orphan"))

(* A complete stage is true of AWS and of the files that later stages read: *)
(* the baseline is there with its handoff, the host with its session.       *)
CompleteTrue ==
  /\ stage["infrastructure"] = "complete" => base = "present" /\ handoff
  /\ stage["ops_access"] = "complete" => host = "present" /\ session

(* Vault work is done, and its runner is there, only on a whole baseline    *)
(* whose private access works.                                              *)
VaultFounded == pc # "idle" \/ cloud.runner # "absent" => base = "present" /\ host = "present"

(* The inductive invariant.  Who waits for a wrapper has marked its stage   *)
(* as running, and so had the parent of one that goes on alone; what the    *)
(* wrappers have behind them is there; and the Vault work is done by an     *)
(* invocation of its own, on complete stages.                               *)
CheckpointKnown ==
  /\ store # "ready" => at \in {"idle", "create"} /\ ~Interrupted
  /\ temp => at = "idle" /\ store = "ready"

ChildKnown ==
  /\ at \notin {"apply", "ops"} => child["own"] = "none"
  /\ at = "apply" => /\ stage["infrastructure"] = "running"
                     /\ child["own"] \in {"foundation", "baseline", "outputs", "done", "broken"}
                     /\ child["own"] = "done" => handoff /\ cloud.runner = "absent"
  /\ at = "ops" => /\ stage["ops_access"] = "running"
                   /\ child["own"] \notin {"foundation", "baseline", "outputs"}
                   /\ op = "ops_verify" => child["own"] = "none"
  /\ Working("orphan") => at = "idle" /\ \E s \in Required : stage[s] = "running"

BehindKnown ==
  /\ handoff => base = "present"
  /\ session => host = "present"
  /\ \A c \in {"own", "orphan"} :
       /\ child[c] = "outputs" => base = "present" /\ cloud.runner = "absent"
       /\ child[c] = "plan" => handoff /\ ~opsplan
       /\ child[c] \in {"instance", "session"} => opsplan
       /\ child[c] = "session" => host = "present"

VaultKnown ==
  /\ pc # "idle" => at \in {"idle", "vault"} /\ Verified
  /\ at = "vault_mark" \/ (at \in {"create", "begin"} /\ op = "mirror") => Verified
  /\ cloud.runner # "absent" => base = "present" /\ host = "present"
  /\ ~V!Open("prepare") => cloud.runner = "present"

IInv == TypeOK /\ CheckpointKnown /\ ChildKnown /\ BehindKnown /\ CompleteTrue /\ VaultKnown
        /\ V!IInv

(* What no command leads out of: a directory whose checkpoint was never     *)
(* written, a stage left running, a temporary file in the way of the stages *)
(* that are open, a baseline reset after the Vault runner was made, which   *)
(* every apply would delete and none may, and a host without its session.   *)
DeadEnd == \/ at = "idle" /\ (store = "empty" \/ Interrupted)
           \/ temp /\ ~Verified
           \/ stage["infrastructure"] # "complete" /\ cloud.runner # "absent"
           \/ host # "absent" /\ ~session /\ child["own"] # "session"

(* The dead ends are real: nothing anybody can do with the installer, nor a *)
(* wrapper that is still at work, leads out of one.                         *)
DeadEndStays == [][DeadEnd => DeadEnd']_vars

(* The composition implements VaultPlatform: an infrastructure apply, its   *)
(* failures and repetitions included, never takes away what the guided      *)
(* platform has made, the access of a running build above all.              *)
ImplementsPlatform == V!Spec

(* What the guided platform promises, with all that goes on beside it: its  *)
(* work is founded, CodeBuild is asked for one build at most, the access is *)
(* there as long as that build runs, and the evidence is true of AWS.       *)
PlatformSafe == /\ VaultFounded
                /\ V!AtMostOneBuild
                /\ V!BuildsAuthorized
                /\ V!AuthorityEvident

(* The temporary cluster-admin access is given back however the build ends  *)
(* and however many commands fail or are killed on the way, unless the      *)
(* installer is in one of its dead ends, a change is uncertain, or a job    *)
(* that is still to be done was killed, interrupted before its try block or *)
(* ended in the removal of its workspace, and has left that: these are the  *)
(* only ways in which it can stay for ever.                                 *)
AuthorityReturned ==
  <>[](\/ DeadEnd \/ V!Uncertain \/ \E j \in stale : V!Due(j)
       \/ ~V!Open("revoke") /\ cloud.admin = "absent")

=============================================================================
