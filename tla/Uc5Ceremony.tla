---------------------------- MODULE Uc5Ceremony -----------------------------
(* The UC-5 ceremony, scripts/ops/lib/uc5-ceremony.py with the live actions, *)
(* the cluster control, the probes and the Vault adapter it runs, and the    *)
(* collection of activation evidence after it (prepare-activation).          *)
(*                                                                           *)
(* A ceremony stops client, fence and signer, deletes the signer's runtime   *)
(* role in Vault, proves that a new signer is denied, and restores all but   *)
(* client and fence.  It holds a marker (a ConfigMap) from before the first  *)
(* change and, when any cleanup is unconfirmed, keeps it for recovery.       *)
(*                                                                           *)
(* Every step is one call to the API server or to Vault.  A call may fail,   *)
(* and a change may be made and its answer lost, or its request may come     *)
(* late, after the ceremony has given up on it.  The process may be killed   *)
(* anywhere; an interrupt between two cleanup steps, outside their try       *)
(* blocks, ends it likewise.                                                 *)
EXTENDS Naturals, FiniteSets

CONSTANTS Ceremony,   \* ceremony identifiers of "execute" invocations
          Collector,  \* those of "prepare-activation" invocations
          None,
          Late,       \* the kinds of request that may come late
          MaxLate     \* bound: requests under way after their senders gave up

Id == Ceremony \cup Collector
Kind == {"create", "unlock", "scale_up", "scale_down", "delete", "write", "revoke"}
Target == {"client", "fence", "signer"}

ASSUME CeremonyAssumption ==
  /\ None \notin Id /\ Ceremony \cap Collector = {}
  /\ None \notin Target
  /\ Late \subseteq Kind /\ MaxLate \in Nat

VARIABLES
  marker,       \* the maintenance marker's owner, None without the ConfigMap
  replicas,     \* spec.replicas of the three controllers
  pods,         \* their Pods
  role,         \* the runtime role in Vault
  token,        \* root token of each ceremony
  late,         \* requests under way whose sender no longer waits
  stage,        \* where each invocation is
  call,         \* the call it makes there: look, request or readback
  flags,        \* the local variables of run() that are true
  unconfirmed,  \* the entries of cleanup that are "unconfirmed"
  seen          \* the target whose resourceVersion it holds, if still current

cluster == <<marker, replicas, pods, role, token, late>>
local == <<stage, call, flags, unconfirmed>>
vars == <<cluster, local, seen>>

Flag == {"lock_attempted", "lock_owned", "maintenance_attempted", "before_history",
         "role_delete_attempted", "role_restored", "probe_complete", "collected"}
Cleanup == {"lock", "fenced", "signer_stopped", "role", "administrator"}
PodState == {"none", "starting", "denied", "ready"}

-----------------------------------------------------------------------------
(* The stages of run(), with the parts of an action that change something   *)
(* as stages of their own.  A stage in Scaling is one set_replicas.         *)
Scaling == [stop_fence |-> <<"fence", 0>>, stop_client |-> <<"client", 0>>,
            stop_signer |-> <<"signer", 0>>, start_denied |-> <<"signer", 1>>,
            stop_denied |-> <<"signer", 0>>, recover |-> <<"signer", 1>>,
            keep_fence |-> <<"fence", 0>>, keep_client |-> <<"client", 0>>,
            safe_fence |-> <<"fence", 0>>, safe_client |-> <<"client", 0>>,
            safe_signer |-> <<"signer", 0>>]

After == [administrator_ready |-> "acquire", capture |-> "running",
          running |-> "stop_fence", stop_fence |-> "stop_client",
          stop_client |-> "quiesced", quiesced |-> "stop_signer",
          stop_signer |-> "signer_absent", signer_absent |-> "predelete",
          predelete |-> "delete", delete |-> "start_denied",
          start_denied |-> "denied", denied |-> "stop_denied",
          stop_denied |-> "denied_absent", denied_absent |-> "restore",
          restore |-> "recover", recover |-> "continuity",
          continuity |-> "audit", audit |-> "keep_fence",
          keep_fence |-> "keep_client", keep_client |-> "kept_quiesced",
          kept_quiesced |-> "revoke",
          safe_fence |-> "safe_client", safe_client |-> "safe_quiesced",
          safe_quiesced |-> "safe_signer", safe_signer |-> "safe_absent",
          safe_restore |-> "revoke", release |-> "ended",
          completed |-> "acquire", collect |-> "settle"]

\* The body of run() in its parts, the stages of the finally block, and those of
\* prepare-activation.
Locking == {"administrator_ready", "acquire"}
Guarded == {"capture", "running", "stop_fence", "stop_client", "quiesced",
            "stop_signer", "signer_absent", "predelete"}
CutOff == {"delete", "start_denied", "denied", "stop_denied", "denied_absent", "restore"}
Recovery == {"recover", "continuity", "audit", "keep_fence", "keep_client", "kept_quiesced"}
Body == Locking \cup Guarded \cup CutOff \cup Recovery
SafeFenced == {"safe_fence", "safe_client", "safe_quiesced"}
SafeSigner == {"safe_signer", "safe_absent"}
Final == {"reconcile", "safe_restore", "revoke", "release"} \cup SafeFenced \cup SafeSigner
OfCollectors == {"completed", "collect", "settle"}
Stage == Body \cup Final \cup OfCollectors \cup {"ended", "dead"}

\* What run() has set once a stage is finished (or, before a first change, entered).
Gains == [administrator_ready |-> "lock_attempted", acquire |-> "lock_owned",
          capture |-> "maintenance_attempted", signer_absent |-> "before_history",
          safe_absent |-> "before_history", predelete |-> "role_delete_attempted",
          restore |-> "role_restored", safe_restore |-> "role_restored",
          kept_quiesced |-> "probe_complete", collect |-> "collected"]
Gain(s) == IF s \in DOMAIN Gains THEN {Gains[s]} ELSE {}

\* The entry of cleanup that a failure in a stage leaves unconfirmed.
Doubts == [reconcile |-> "lock", safe_fence |-> "fenced", safe_client |-> "fenced",
           safe_quiesced |-> "fenced", safe_signer |-> "signer_stopped",
           safe_absent |-> "signer_stopped", safe_restore |-> "role",
           revoke |-> "administrator", release |-> "lock"]
StageDoubt(s) == {s} \* mutant: names the stage, which no later check asks for
Doubt(s) == IF s \in DOMAIN Doubts THEN {Doubts[s]} ELSE {}

(* The finally block: each group is entered under its own condition.        *)
CarelessToRelease(f, u) == IF "lock_owned" \in f THEN "release" ELSE "ended" \* mutant: unconfirmed too
ToRelease(f, u) == IF "lock_owned" \in f /\ u = {} THEN "release" ELSE "ended"
TardyToRestore(f) == "revoke" \* mutant: a deletion without an answer counts as none
ToRestore(f) == IF "role_delete_attempted" \in f /\ "role_restored" \notin f
                THEN "safe_restore" ELSE "revoke"
ToSafe(f) == IF "maintenance_attempted" \in f /\ "probe_complete" \notin f
             THEN "safe_fence" ELSE ToRestore(f)
ToCleanup(f) == IF "lock_attempted" \in f /\ "lock_owned" \notin f
                THEN "reconcile" ELSE ToSafe(f)

Go(c, s) == /\ stage' = [stage EXCEPT ![c] = s]
            /\ call' = [call EXCEPT ![c] = IF s = "revoke" THEN "request" ELSE "look"]

\* The call at hand succeeds and ends its stage; g is what else it established.
Finish(c, g) ==
  LET s == stage[c]
      f == flags[c] \cup Gain(s) \cup g
  IN  /\ flags' = [flags EXCEPT ![c] = f] /\ UNCHANGED unconfirmed
      /\ \/ s \in DOMAIN After /\ Go(c, After[s])
         \/ s = "acquire" /\ Go(c, IF c \in Ceremony THEN "capture" ELSE "collect")
         \/ s = "reconcile" /\ Go(c, ToSafe(f))
         \/ s = "safe_absent" /\ Go(c, ToRestore(f))
         \/ s = "revoke" /\ Go(c, ToRelease(f, unconfirmed[c]))
         \/ s = "settle" /\ Go(c, IF {"lock_owned", "collected"} \subseteq f
                                 THEN "release" ELSE "ended")

\* An exception leaves the stage for the next handler.
Raise(c) ==
  LET s == stage[c]
      f == flags[c]
      u == unconfirmed[c] \cup Doubt(s)
  IN  /\ unconfirmed' = [unconfirmed EXCEPT ![c] = u] /\ UNCHANGED flags
      /\ \/ s = "reconcile" /\ Go(c, ToSafe(f))
         \/ s \in SafeFenced /\ Go(c, "safe_signer")
         \/ s \in SafeSigner /\ Go(c, ToRestore(f))
         \/ s = "safe_restore" /\ Go(c, "revoke")
         \/ s = "revoke" /\ Go(c, ToRelease(f, u))
         \/ s \in {"release", "settle", "completed"} /\ Go(c, "ended")
         \/ s \in {"acquire", "collect"} /\ c \in Collector /\ Go(c, "settle")
         \/ s \in Body /\ c \in Ceremony /\ Go(c, ToCleanup(f))

Die(c) == stage' = [stage EXCEPT ![c] = "dead"] /\ UNCHANGED <<call, flags, unconfirmed>>

Turn(c, k) == call' = [call EXCEPT ![c] = k] /\ UNCHANGED <<stage, flags, unconfirmed>>

Running(c) == stage[c] \notin {"ended", "dead"}
At(c, s, k) == stage[c] = s /\ call[c] = k

UnwatchedQuiesced == \A t \in {"client", "fence"} : replicas[t] = 0 \* mutant: replicas alone
Quiesced == \A t \in {"client", "fence"} : replicas[t] = 0 /\ pods[t] = "none"
SignerAbsent == replicas["signer"] = 0 /\ pods["signer"] = "none"

Init ==
  /\ marker = None
  /\ replicas = [t \in Target |-> 1]
  /\ pods \in [Target -> {"starting", "ready"}]
  /\ role = "exact"
  /\ token = [c \in Id |-> IF c \in Ceremony THEN "live" ELSE "none"]
  /\ late = {}
  /\ stage = [c \in Id |-> IF c \in Ceremony THEN "administrator_ready" ELSE "completed"]
  /\ call = [c \in Id |-> "look"]
  /\ flags = [c \in Id |-> {}] /\ unconfirmed = [c \in Id |-> {}]
  /\ seen = [c \in Id |-> None]

-----------------------------------------------------------------------------
(* Changes at the API server and at Vault.  A replica PATCH tests the        *)
(* resourceVersion, the removal of the marker its uid; Vault compares        *)
(* nothing and asks only for a live token.                                   *)
Requests == [kind : Kind, by : Id, target : Target \cup {None}]

Unscoped == [acquire |-> "create", release |-> "unlock", delete |-> "delete",
             restore |-> "write", safe_restore |-> "write", revoke |-> "revoke"]
RequestOf(c) ==
  IF stage[c] \in DOMAIN Scaling
  THEN [kind |-> IF Scaling[stage[c]][2] = 1 THEN "scale_up" ELSE "scale_down",
        by |-> c, target |-> Scaling[stage[c]][1]]
  ELSE [kind |-> Unscoped[stage[c]], by |-> c, target |-> None]

\* The resourceVersion of a controller is new: nobody's copy is current any more.
Touch(t, rest) == /\ seen' = [c \in Id |-> IF seen[c] = t THEN None ELSE seen[c]]
                  /\ late' = {r \in rest : r.target # t}

OverwritingMarks(r) == \* mutant: the marker is applied, not created
  \/ r.kind = "create" /\ marker' = r.by
  \/ r.kind = "unlock" /\ marker = r.by /\ marker' = None
Marks(r) ==
  \/ r.kind = "create" /\ marker = None /\ marker' = r.by
  \/ r.kind = "unlock" /\ marker = r.by /\ marker' = None

Scales(r, rest) ==
  /\ r.kind \in {"scale_up", "scale_down"}
  /\ replicas' = [replicas EXCEPT ![r.target] = IF r.kind = "scale_up" THEN 1 ELSE 0]
  /\ Touch(r.target, rest)

Configures(r) ==
  /\ token[r.by] = "live"
  /\ \/ r.kind = "delete" /\ role' = "absent" /\ UNCHANGED token
     \/ r.kind = "write" /\ role' = "exact" /\ UNCHANGED token
     \/ r.kind = "revoke" /\ token' = [token EXCEPT ![r.by] = "revoked"] /\ UNCHANGED role

\* r is carried out; rest are the requests that remain under way.
Effect(r, rest) ==
  /\ UNCHANGED pods
  /\ \/ Marks(r) /\ late' = rest /\ UNCHANGED <<replicas, role, token, seen>>
     \/ Scales(r, rest) /\ UNCHANGED <<marker, role, token>>
     \/ Configures(r) /\ late' = rest /\ UNCHANGED <<marker, replicas, seen>>

\* A PATCH that was read against an older resourceVersion fails its test.
Current(c) == stage[c] \in DOMAIN Scaling => seen[c] = Scaling[stage[c]][1]

Answered(c) == /\ call[c] = "request" /\ Running(c) /\ Current(c)
               /\ Effect(RequestOf(c), late)
               /\ Turn(c, "readback")

\* The change is made, and the caller gets an error or a timeout.
Unanswered(c) == /\ call[c] = "request" /\ Running(c) /\ Current(c)
                 /\ Effect(RequestOf(c), late)
                 /\ Raise(c)

\* The caller gives up, or is killed, before the request is carried out.
Delayed(c) == /\ call[c] = "request" /\ Running(c) /\ Current(c)
              /\ RequestOf(c).kind \in Late /\ Cardinality(late) < MaxLate
              /\ late' = late \cup {RequestOf(c)}
              /\ Raise(c) \/ Die(c)
              /\ UNCHANGED <<marker, replicas, pods, role, token, seen>>

Arrives(r) == r \in late /\ Effect(r, late \ {r}) /\ UNCHANGED local

Dropped(r) == /\ r \in late /\ late' = late \ {r}
              /\ UNCHANGED <<marker, replicas, pods, role, token, seen, local>>

-----------------------------------------------------------------------------
(* Kubernetes' controllers.  The signer's init container logs in to Vault    *)
(* with the runtime role and retries; without it the Pod stays blocked.      *)
PodStarts(t) == /\ replicas[t] = 1 /\ pods[t] = "none"
                /\ pods' = [pods EXCEPT ![t] = "starting"]
                /\ Touch(t, late)
                /\ UNCHANGED <<marker, replicas, role, token, local>>

PodReady(t) == /\ pods[t] \in {"starting", "denied"}
               /\ t = "signer" => role = "exact"
               /\ pods' = [pods EXCEPT ![t] = "ready"]
               /\ Touch(t, late)
               /\ UNCHANGED <<marker, replicas, role, token, local>>

LoginDenied == /\ pods["signer"] = "starting" /\ role = "absent"
               /\ pods' = [pods EXCEPT !["signer"] = "denied"]
               /\ UNCHANGED <<marker, replicas, role, token, late, local, seen>>

PodStops(t) == /\ replicas[t] = 0 /\ pods[t] # "none"
               /\ pods' = [pods EXCEPT ![t] = "none"]
               /\ Touch(t, late)
               /\ UNCHANGED <<marker, replicas, role, token, local>>

-----------------------------------------------------------------------------
(* administrator_ready and audit_ready: the token answers as root.           *)
AdministratorReady(c) == /\ At(c, "administrator_ready", "look") /\ token[c] = "live"
                         /\ Finish(c, {})
                         /\ UNCHANGED <<cluster, seen>>

(* acquire_maintenance_lock: read, create, read.                             *)
SeeNoMarker(c) == /\ At(c, "acquire", "look") /\ marker = None
                  /\ Turn(c, "request")
                  /\ UNCHANGED <<cluster, seen>>

Acquired(c) == /\ At(c, "acquire", "readback") /\ marker = c
               /\ Finish(c, {})
               /\ UNCHANGED <<cluster, seen>>

(* capture_original_role_and_baseline.                                       *)
Capture(c) == /\ At(c, "capture", "look") /\ marker = c /\ role = "exact"
              /\ Finish(c, {})
              /\ UNCHANGED <<cluster, seen>>

(* fresh_fence: all is running before, client and fence are gone after.      *)
RunningBaseline(c) == /\ At(c, "running", "look") /\ marker = c
                      /\ \A t \in Target : replicas[t] = 1 /\ pods[t] = "ready"
                      /\ Finish(c, {})
                      /\ UNCHANGED <<cluster, seen>>

FreshFence(c) == /\ At(c, "quiesced", "look") /\ marker = c /\ Quiesced
                 /\ Finish(c, {})
                 /\ UNCHANGED <<cluster, seen>>

(* set_replicas: assert the marker and read, PATCH unless it is as wanted,   *)
(* read.                                                                     *)
SeeReplicas(c) == /\ stage[c] \in DOMAIN Scaling /\ call[c] = "look" /\ marker = c
                  /\ IF replicas[Scaling[stage[c]][1]] = Scaling[stage[c]][2]
                     THEN Finish(c, {}) /\ UNCHANGED seen
                     ELSE Turn(c, "request")
                          /\ seen' = [seen EXCEPT ![c] = Scaling[stage[c]][1]]
                  /\ UNCHANGED cluster

Scaled(c) == /\ stage[c] \in DOMAIN Scaling /\ call[c] = "readback"
             /\ replicas[Scaling[stage[c]][1]] = Scaling[stage[c]][2]
             /\ Finish(c, {})
             /\ UNCHANGED <<cluster, seen>>

(* wait_signer_absent, and the slashing history when it is not yet read.     *)
SignerStopped(c) == /\ stage[c] \in {"signer_absent", "denied_absent", "safe_absent"}
                    /\ marker = c /\ SignerAbsent
                    /\ "before_history" \in flags[c] \/ Quiesced
                    /\ Finish(c, {})
                    /\ UNCHANGED <<cluster, seen>>

(* verify_immediate_predelete.                                               *)
Predelete(c) == /\ At(c, "predelete", "look") /\ marker = c /\ SignerAbsent /\ Quiesced
                /\ Finish(c, {})
                /\ UNCHANGED <<cluster, seen>>

(* delete_runtime_role: no drift, DELETE, read.                              *)
SeeRole(c) == /\ At(c, "delete", "look") /\ marker = c
              /\ role = "exact" /\ token[c] = "live"
              /\ Turn(c, "request")
              /\ UNCHANGED <<cluster, seen>>

Deleted(c) == /\ At(c, "delete", "readback") /\ role = "absent" /\ token[c] = "live"
              /\ Finish(c, {})
              /\ UNCHANGED <<cluster, seen>>

(* new_signer_identity and confirm_denied_start.                             *)
Denied(c) == /\ At(c, "denied", "look") /\ marker = c /\ Quiesced
             /\ replicas["signer"] = 1 /\ pods["signer"] = "denied"
             /\ Finish(c, {})
             /\ UNCHANGED <<cluster, seen>>

(* restore_exact_runtime_role: leave an exact role alone, write an absent    *)
(* one, read.                                                                *)
SeeRoleToRestore(c) == /\ stage[c] \in {"restore", "safe_restore"} /\ call[c] = "look"
                       /\ marker = c /\ token[c] = "live"
                       /\ IF role = "exact" THEN Finish(c, {}) ELSE Turn(c, "request")
                       /\ UNCHANGED <<cluster, seen>>

Restored(c) == /\ stage[c] \in {"restore", "safe_restore"} /\ call[c] = "readback"
               /\ role = "exact" /\ token[c] = "live"
               /\ Finish(c, {})
               /\ UNCHANGED <<cluster, seen>>

(* verify_continuity, after the ceremony and when evidence is collected.     *)
Continuity(c) == /\ stage[c] \in {"continuity", "collect"}
                 /\ marker = c /\ Quiesced
                 /\ replicas["signer"] = 1 /\ pods["signer"] = "ready"
                 /\ Finish(c, {})
                 /\ UNCHANGED <<cluster, seen>>

(* verify_vault_audit_chain reads the audit records of what was done.        *)
AuditChain(c) == /\ At(c, "audit", "look")
                 /\ Finish(c, {})
                 /\ UNCHANGED <<cluster, seen>>

(* The end of ensure_client_fence_quiesced: no Pod of client or fence.       *)
NoPods(c) == /\ stage[c] \in {"kept_quiesced", "safe_quiesced"}
             /\ pods["client"] = "none" /\ pods["fence"] = "none"
             /\ Finish(c, {})
             /\ UNCHANGED <<cluster, seen>>

(* reconcile_maintenance_lock, in the finally block of either mode.          *)
Reconcile(c) == /\ stage[c] \in {"reconcile", "settle"} /\ marker \in {None, c}
                /\ Finish(c, IF marker = c THEN {"lock_owned"} ELSE {})
                /\ UNCHANGED <<cluster, seen>>

(* revoke_administrator: POST, then the token must be refused.               *)
Revoked(c) == /\ At(c, "revoke", "readback") /\ token[c] = "revoked"
              /\ Finish(c, {})
              /\ UNCHANGED <<cluster, seen>>

(* release_owned_maintenance_lock: read, delete by uid, read.                *)
SeeMarker(c) == /\ At(c, "release", "look") /\ marker \in {None, c}
                /\ IF marker = None THEN Finish(c, {}) ELSE Turn(c, "request")
                /\ UNCHANGED <<cluster, seen>>

Released(c) == /\ At(c, "release", "readback") /\ marker = None
               /\ Finish(c, {})
               /\ UNCHANGED <<cluster, seen>>

(* require_completed_ceremony: evidence of a ceremony that ended as          *)
(* PROBE_COMPLETE.                                                           *)
Complete(c) == stage[c] = "ended" /\ "probe_complete" \in flags[c] /\ unconfirmed[c] = {}

CompletedCeremony(c) == /\ At(c, "completed", "look") /\ \E d \in Ceremony : Complete(d)
                        /\ Finish(c, {})
                        /\ UNCHANGED <<cluster, seen>>

-----------------------------------------------------------------------------
(* Any call may fail, and what it finds may not be what the ceremony needs.  *)
Fail(c) == Running(c) /\ Raise(c) /\ UNCHANGED <<cluster, seen>>

Kill(c) == Running(c) /\ Die(c) /\ UNCHANGED <<cluster, seen>>

(* cleanup-root, from the EXIT trap of recover-and-run-hoodi-uc5.sh.         *)
CleanupRoot(c) == /\ ~Running(c) /\ token[c] = "live"
                  /\ token' = [token EXCEPT ![c] = "revoked"]
                  /\ UNCHANGED <<marker, replicas, pods, role, late, local, seen>>

Step(c) ==
  \/ AdministratorReady(c) \/ SeeNoMarker(c) \/ Acquired(c)
  \/ Capture(c) \/ RunningBaseline(c) \/ FreshFence(c)
  \/ SeeReplicas(c) \/ Scaled(c) \/ SignerStopped(c) \/ Predelete(c)
  \/ SeeRole(c) \/ Deleted(c) \/ Denied(c) \/ SeeRoleToRestore(c) \/ Restored(c)
  \/ Continuity(c) \/ AuditChain(c) \/ NoPods(c) \/ Reconcile(c)
  \/ Revoked(c) \/ SeeMarker(c) \/ Released(c) \/ CompletedCeremony(c)
  \/ Answered(c) \/ Unanswered(c) \/ Delayed(c)
  \/ Fail(c) \/ Kill(c) \/ CleanupRoot(c)

Environment ==
  \/ \E r \in late : Arrives(r) \/ Dropped(r)
  \/ \E t \in Target : PodStarts(t) \/ PodReady(t) \/ PodStops(t)
  \/ LoginDenied

Next == Environment \/ \E c \in Id : Step(c)

Spec == Init /\ [][Next]_vars

-----------------------------------------------------------------------------
(* The variables keep their types.                                           *)
TypeOK ==
  /\ marker \in Id \cup {None}
  /\ replicas \in [Target -> 0 .. 1] /\ pods \in [Target -> PodState]
  /\ role \in {"exact", "absent"} /\ token \in [Id -> {"live", "revoked", "none"}]
  /\ late \subseteq Requests /\ IsFiniteSet(late) /\ Cardinality(late) <= MaxLate
  /\ stage \in [Id -> Stage] /\ call \in [Id -> {"look", "request", "readback"}]
  /\ flags \in [Id -> SUBSET Flag] /\ unconfirmed \in [Id -> SUBSET Cleanup]
  /\ seen \in [Id -> Target \cup {None}]

(* Exclusive control: an invocation that owns the lock and has not yet come  *)
(* to its release holds the marker, whatever becomes of the requests and the *)
(* processes of others (acquire, reconcile, release): no two maintain at     *)
(* once.                                                                     *)
Holding(c) == "lock_owned" \in flags[c] /\ stage[c] \notin {"release", "ended", "dead"}
ExclusiveControl == \A c \in Id : Holding(c) => marker = c

(* The marker is given up only after the root token of its ceremony has been *)
(* revoked (safe_cleanup, revoke_administrator).                             *)
RootRevokedFirst ==
  [][\A c \in Ceremony : marker = c /\ marker' # c => token[c] = "revoked"]_vars

(* While the role is cut no client or fence runs, and no signer Pod is       *)
(* ready: a signer that logged in before would keep what it read.            *)
CutIsolated == role = "absent" =>
  pods["client"] = "none" /\ pods["fence"] = "none" /\ pods["signer"] # "ready"

(* What a ceremony leaves behind when its marker goes, by its own call or by *)
(* one that comes late: the role is in place, client and fence are down, and *)
(* the signer is up again if it reports PROBE_COMPLETE and gone if it failed *)
(* (the order of run() and its finally block).                               *)
Left(c) == /\ role = "exact" /\ Quiesced
           /\ IF "probe_complete" \in flags[c] THEN replicas["signer"] = 1 ELSE SignerAbsent
ReleaseSafe ==
  [][\A c \in Ceremony :
       marker = c /\ marker' # c /\ "maintenance_attempted" \in flags[c] => Left(c)]_vars

-----------------------------------------------------------------------------
(* The inductive invariant: what an invocation has set by the stage it has   *)
(* come to, what its late requests may still do, and who answers for the     *)
(* role while it is cut.                                                     *)
Attempted(c) == "role_delete_attempted" \in flags[c]
Accounted(c) == Attempted(c) => "role_restored" \in flags[c]
Disarmed(c) == Accounted(c) /\ (c \in Ceremony => token[c] = "revoked")

Founded(c) ==
  /\ c \in Ceremony => stage[c] \notin OfCollectors /\ token[c] # "none"
  /\ c \in Collector =>
       /\ stage[c] \in OfCollectors \cup {"acquire", "release", "ended", "dead"}
       /\ ~Attempted(c) /\ "role_restored" \notin flags[c]
  /\ stage[c] \in Guarded \cup CutOff \cup Recovery \cup {"collect"} => "lock_owned" \in flags[c]
  /\ stage[c] \in Locking \cup Guarded => ~Attempted(c) /\ "role_restored" \notin flags[c]
  /\ stage[c] \in CutOff => Attempted(c) /\ "role_restored" \notin flags[c]
  /\ stage[c] \in Recovery => "role_restored" \in flags[c]
  /\ stage[c] = "revoke" => Accounted(c) \/ "role" \in unconfirmed[c]
  /\ stage[c] = "release" => Disarmed(c)

Asking(c) == Running(c) /\ call[c] = "request" =>
  stage[c] \in DOMAIN Scaling \cup DOMAIN Unscoped

LateFounded == \A r \in late :
  /\ r.kind \in Late
  /\ r.kind = "unlock" => stage[r.by] \in {"ended", "dead"} /\ Disarmed(r.by)

RoleFounded == role = "absent" /\ "delete" \notin Late =>
  \E c \in Id : marker = c /\ ~Accounted(c)

IInv == /\ TypeOK /\ ExclusiveControl /\ LateFounded /\ RoleFounded
        /\ \A c \in Id : Founded(c) /\ Asking(c)

-----------------------------------------------------------------------------
(* "Even a lost HTTP response triggers exact restoration" (lib/              *)
(* uc5-vault-adapter.py:141-143): whoever has attempted the deletion gives   *)
(* up the marker only with the role in place.  Late DELETEs break it.        *)
DeletionRestored ==
  [][\A c \in Ceremony :
       marker = c /\ marker' # c /\ "role_delete_attempted" \in flags[c] => role = "exact"]_vars

(* The marker, as the abstract custody of the role.                          *)
Custody == INSTANCE RoleCustody WITH Holder <- Id, Nobody <- None
ImplementsCustody == Custody!Spec
=============================================================================
