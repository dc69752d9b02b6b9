----------------------------- MODULE Activation -----------------------------
(* The guarded activation of a validator: scripts/ops/                      *)
(* activate-hoodi-validator-client.sh.  With client and fence at zero and   *)
(* no maintenance marker it scales the client and then the fence to one,    *)
(* each by a PATCH that tests the resourceVersion it has read, waits for    *)
(* their Pods, checks the Lease and publishes a receipt.  The trap rolls an *)
(* incomplete activation back to zero, the fence first, and exits with 70   *)
(* when it cannot verify that both are.                                     *)
(*                                                                          *)
(* Any command may fail, a PATCH may be carried out without an answer or    *)
(* after its sender has given up, and the process may be killed.  A UC-5    *)
(* ceremony (Uc5Ceremony) may take its marker and stop what runs.           *)
CONSTANTS Activator,  \* invocations, each of which runs once
          Faults      \* "exit", "kill", "late", "maintenance"

ASSUME ActivationAssumption ==
  Faults \subseteq {"exit", "kill", "late", "maintenance"}

VARIABLES
  replicas,    \* the controllers, client and fence, that are scaled to one
  ready,       \* those that have a Ready Pod
  marker,      \* the maintenance marker is there
  late,        \* PATCHes under way that were given up: <<controller, to one?, sender>>
  activating,  \* where an invocation is
  fresh,       \* those who have read the present resourceVersion of what they PATCH next
  unsure,      \* cleanup_failed
  published,   \* whose receipt is there
  maintained,  \* history: a marker was taken
  raised       \* history of what was last scaled to one: by whom, with a late PATCH or
               \* not, and along with which invocations that had found it at zero

cluster == <<replicas, ready, marker, late, fresh>>
traces == <<maintained, raised>>
vars == <<cluster, activating, unsure, published, traces>>

Controllers == {"client", "fence"}
At(part, step) == <<part, step>>
Finished == {At("over", o) : o \in {"refused", "passed", "failed", "critical", "killed"}}
Rollback == At("unfence", "marker")
ScaledNext == [client |-> At("client", "rollout"), fence |-> At("fence", "rollout"),
               unfence |-> At("unclient", "marker"), unclient |-> At("verify", "fence")]

Init ==
  /\ replicas = {} /\ ready = {} /\ marker = FALSE /\ late = {} /\ fresh = {}
  /\ activating = [i \in Activator |-> At("idle", "idle")] /\ unsure = {} /\ published = {}
  /\ maintained = FALSE
  /\ raised = [c \in Controllers |-> [by |-> {}, late |-> FALSE, along |-> {}]]

Part(i) == activating[i][1]
InHand(i) == IF Part(i) \in {"client", "unclient"} THEN "client" ELSE "fence"
Raises(i) == Part(i) \in {"client", "fence"}
Reaches(i, s) == activating' = [activating EXCEPT ![i] = s]
Is(i, part, step) == activating[i] = At(part, step)
Checked(i, holds, next, otherwise) == Reaches(i, IF holds THEN next ELSE otherwise)
                                      /\ UNCHANGED <<cluster, unsure, published, traces>>

-----------------------------------------------------------------------------
(* The preflight looks for the receipt, reads the Pods, the StatefulSet,    *)
(* the fence's Deployment and the marker one after another, and asks for    *)
(* ACTIVATE.  The trap is not set yet.                                      *)
Begin(i) == /\ Is(i, "idle", "idle") /\ Reaches(i, At("preflight", "receipt"))
            /\ UNCHANGED <<cluster, unsure, published, traces>>

Refused == At("over", "refused")
Look(i, step, holds, next) == Is(i, "preflight", step) /\ Checked(i, holds, next, Refused)
UncheckedPreflight(i) == \* mutant: the StatefulSet's replicas are not looked at
  \/ Look(i, "receipt", published = {}, At("preflight", "pods"))
  \/ Look(i, "pods", "client" \notin ready, At("preflight", "client"))
  \/ Look(i, "client", TRUE, At("preflight", "fence"))
  \/ Look(i, "fence", "fence" \notin replicas, At("preflight", "marker"))
  \/ Look(i, "marker", ~marker, At("preflight", "confirm"))
  \/ Look(i, "confirm", TRUE, At("client", "marker"))
Preflight(i) ==
  \/ Look(i, "receipt", published = {}, At("preflight", "pods"))
  \/ Look(i, "pods", "client" \notin ready, At("preflight", "client"))
  \/ Look(i, "client", "client" \notin replicas, At("preflight", "fence"))
  \/ Look(i, "fence", "fence" \notin replicas, At("preflight", "marker"))
  \/ Look(i, "marker", ~marker, At("preflight", "confirm"))
  \/ Look(i, "confirm", TRUE, At("client", "marker"))

-----------------------------------------------------------------------------
(* cas_scale.  When it fails a scale-up is rolled back, and a rollback goes *)
(* on with the next controller, unsure of its result.                       *)
Scaling == {"client", "fence", "unfence", "unclient"}
ScaleFails(i) == IF Raises(i) THEN Reaches(i, Rollback) /\ UNCHANGED unsure
                 ELSE Reaches(i, ScaledNext[Part(i)]) /\ unsure' = unsure \cup {i}

ReadMarker(i) == /\ Part(i) \in Scaling /\ Is(i, Part(i), "marker")
                 /\ IF marker THEN ScaleFails(i) ELSE Reaches(i, At(Part(i), "look")) /\ UNCHANGED unsure
                 /\ fresh' = fresh \ {i} /\ UNCHANGED <<replicas, ready, marker, late, published, traces>>

ReadController(i) ==
  /\ Part(i) \in Scaling /\ Is(i, Part(i), "look")
  /\ IF Raises(i) /\ InHand(i) \in replicas THEN ScaleFails(i) /\ UNCHANGED fresh
     ELSE Reaches(i, At(Part(i), "patch")) /\ fresh' = fresh \cup {i} /\ UNCHANGED unsure
  /\ UNCHANGED <<replicas, ready, marker, late, published, traces>>

(* Whatever changes a controller, its status too, gives it a new            *)
(* resourceVersion: what was read before is no longer good for a PATCH.  A  *)
(* PATCH that sets what is set already changes nothing.                     *)
UntestedVersion(c) == late' = late /\ fresh' = fresh \* mutant: the PATCH does not test it
Outdates(c) == /\ fresh' = {i \in fresh : InHand(i) # c}
               /\ late' = {m \in late : m[1] # c}
Before(c) == {At("idle", "idle")}
             \cup {At("preflight", s) : s \in {"receipt", "pods", "client"}
                                         \cup (IF c = "fence" THEN {"fence"} ELSE {})}
FoundDown(c) == {i \in Activator : activating[i] \notin Finished \cup Before(c)}
ScaledTo(c, one) == IF one THEN replicas \cup {c} ELSE replicas \ {c}
Applies(c, one, i, tardy) ==
  /\ replicas' = ScaledTo(c, one)
  /\ IF replicas' = replicas THEN UNCHANGED <<fresh, raised>> /\ late' = late \ {<<c, one, i>>}
     ELSE /\ Outdates(c)
          /\ raised' = IF one THEN [raised EXCEPT ![c] = [by |-> {i}, late |-> tardy, along |-> FoundDown(c) \cup {i}]]
                       ELSE raised
Unapplied == UNCHANGED <<replicas, fresh, late, raised>>

Patching(i) == Part(i) \in Scaling /\ Is(i, Part(i), "patch") /\ UNCHANGED <<ready, marker, published, maintained>>
Patched(i) == /\ Patching(i) /\ i \in fresh
              /\ Applies(InHand(i), Raises(i), i, FALSE)
              /\ Reaches(i, ScaledNext[Part(i)]) /\ UNCHANGED unsure
PatchRefused(i) == Patching(i) /\ i \notin fresh /\ Unapplied /\ ScaleFails(i)

(* No answer: carried out, never carried out, or still to be.               *)
Fate(i) == \/ Unapplied
           \/ i \in fresh /\ Applies(InHand(i), Raises(i), i, FALSE)
           \/ /\ i \in fresh /\ "late" \in Faults /\ UNCHANGED <<replicas, fresh, raised>>
              /\ late' = late \cup {<<InHand(i), Raises(i), i>>}
PatchUnanswered(i) == "exit" \in Faults /\ Patching(i) /\ Fate(i) /\ ScaleFails(i)

-----------------------------------------------------------------------------
(* The rollouts (which time out), the Pods, the Lease of the fence's Pod;   *)
(* for the receipt the controllers, Pods and Lease are read once more.      *)
Running == replicas \cap ready
Observe(i) ==
  \/ Is(i, "client", "rollout") /\ Checked(i, "client" \in Running, At("client", "pod"), Rollback)
  \/ Is(i, "client", "pod") /\ Checked(i, "client" \in ready, At("fence", "marker"), Rollback)
  \/ Is(i, "fence", "rollout") /\ Checked(i, "fence" \in Running, At("fence", "lease"), Rollback)
  \/ Is(i, "fence", "lease") /\ Checked(i, "fence" \in ready, At("receipt", "client"), Rollback)
  \/ Is(i, "receipt", "client") /\ Checked(i, "client" \in replicas, At("receipt", "fence"), Rollback)
  \/ Is(i, "receipt", "fence") /\ Checked(i, "fence" \in replicas, At("receipt", "pod"), Rollback)
  \/ Is(i, "receipt", "pod") /\ Checked(i, "client" \in ready, At("receipt", "lease"), Rollback)
  \/ Is(i, "receipt", "lease") /\ Checked(i, "fence" \in ready, At("receipt", "publish"), Rollback)

Publish(i) == /\ Is(i, "receipt", "publish")
              /\ IF published = {} THEN published' = {i} /\ Reaches(i, At("receipt", "published"))
                 ELSE Reaches(i, Rollback) /\ UNCHANGED published
              /\ UNCHANGED <<cluster, unsure, traces>>
Complete(i) == Is(i, "receipt", "published") /\ Checked(i, TRUE, At("over", "passed"), Rollback)

(* The rollback ends with a look at both: status 70 unless they are down    *)
(* and each of its steps went well.                                         *)
HeedlessStatus(i) == IF "client" \in replicas THEN "critical" ELSE "failed" \* mutant: cleanup_failed is forgotten
Status(i) == IF i \in unsure \/ "client" \in replicas THEN "critical" ELSE "failed"
Verify(i) ==
  /\ Part(i) = "verify" /\ UNCHANGED <<cluster, published, traces>>
  /\ \/ /\ Is(i, "verify", "fence") /\ Reaches(i, At("verify", "client"))
        /\ unsure' = unsure \cup (IF "fence" \in replicas THEN {i} ELSE {})
     \/ Is(i, "verify", "client") /\ Reaches(i, At("over", Status(i))) /\ UNCHANGED unsure

-----------------------------------------------------------------------------
(* A command fails or a signal is caught, which runs the trap, once: in the *)
(* rollback a signal ends the process.                                      *)
Exit(i) ==
  /\ "exit" \in Faults /\ activating[i][2] # "patch" /\ UNCHANGED <<cluster, published>>
  /\ \/ /\ Part(i) = "preflight" /\ Reaches(i, Refused) /\ UNCHANGED <<unsure, traces>>
     \/ Part(i) \in {"client", "fence", "receipt"} /\ Reaches(i, Rollback) /\ UNCHANGED <<unsure, traces>>
     \/ /\ Part(i) \in {"unfence", "unclient"} /\ ScaleFails(i) /\ UNCHANGED traces
     \/ /\ Part(i) = "verify" /\ unsure' = unsure \cup {i} /\ UNCHANGED traces
        /\ Reaches(i, IF Is(i, "verify", "fence") THEN At("verify", "client") ELSE At("over", "critical"))

Kill(i) ==
  /\ "kill" \in Faults /\ activating[i] \notin Finished /\ Part(i) # "idle"
  /\ IF activating[i][2] = "patch" THEN Fate(i) ELSE Unapplied
  /\ Reaches(i, At("over", "killed"))
  /\ UNCHANGED <<ready, marker, unsure, published, maintained>>

-----------------------------------------------------------------------------
(* Kubernetes, the late PATCHes and the UC-5 ceremony.                      *)
PodsFollow == \E c \in Controllers :
  /\ (c \in ready) # (c \in replicas)
  /\ ready' = IF c \in replicas THEN ready \cup {c} ELSE ready \ {c}
  /\ Outdates(c)
  /\ UNCHANGED <<replicas, marker, activating, unsure, published, traces>>

LateLands == \E m \in late :
  /\ Applies(m[1], m[2], m[3], TRUE)
  /\ UNCHANGED <<ready, marker, activating, unsure, published, maintained>>

MarkerComes == /\ "maintenance" \in Faults /\ ~maintained
               /\ marker' = TRUE /\ maintained' = TRUE
               /\ UNCHANGED <<replicas, ready, late, fresh, activating, unsure, published, raised>>
MarkerGoes == /\ marker /\ marker' = FALSE
              /\ UNCHANGED <<replicas, ready, late, fresh, activating, unsure, published, traces>>
Maintenance == /\ marker /\ \E c \in replicas : Outdates(c) /\ replicas' = replicas \ {c}
               /\ UNCHANGED <<ready, marker, activating, unsure, published, traces>>

Step(i) == \/ Preflight(i) \/ ReadMarker(i) \/ ReadController(i) \/ Patched(i)
           \/ PatchRefused(i) \/ Observe(i) \/ Publish(i) \/ Complete(i) \/ Verify(i)
EndsEarly(i) == PatchUnanswered(i) \/ Exit(i) \/ Kill(i)
Surroundings == PodsFollow \/ LateLands \/ MarkerComes \/ MarkerGoes \/ Maintenance

Next == (\E i \in Activator : Begin(i) \/ Step(i) \/ EndsEarly(i)) \/ Surroundings

Spec == Init /\ [][Next]_vars

-----------------------------------------------------------------------------
Places == Finished \cup {At("idle", "idle")}
          \cup {At("preflight", s) : s \in {"receipt", "pods", "client", "fence", "marker", "confirm"}}
          \cup (Scaling \X {"marker", "look", "patch", "rollout", "pod", "lease"})
          \cup {At("receipt", s) : s \in {"client", "fence", "pod", "lease", "publish", "published"}}
          \cup {At("verify", c) : c \in Controllers}

(* The type of the state; of two activations at most one has a receipt, and *)
(* what will be scaled up by a PATCH that still counts is down.             *)
TypeOK ==
  /\ replicas \subseteq Controllers /\ ready \subseteq Controllers /\ marker \in BOOLEAN
  /\ late \subseteq Controllers \X BOOLEAN \X Activator /\ fresh \subseteq Activator
  /\ \A m \in late : m[2] => m[1] \notin replicas
  /\ \A i \in fresh : Is(i, Part(i), "patch") /\ Raises(i) => InHand(i) \notin replicas
  /\ unsure \subseteq Activator /\ published \subseteq Activator /\ \A i, j \in published : i = j
  /\ activating \in [Activator -> Places]
  /\ maintained \in BOOLEAN
  /\ raised \in [Controllers -> [by : SUBSET Activator, late : BOOLEAN, along : SUBSET Activator]]

(* An activation that fails and does not exit with 70 leaves nothing up     *)
(* that it has brought up (lines 183-199), whichever of its requests went   *)
(* unanswered, and whatever other activations do.  Only a PATCH of its own  *)
(* that comes later may undo that: rolling back what is at zero changes     *)
(* nothing and so does not outdate it.                                      *)
RolledBack == \A i \in Activator, c \in replicas :
                Is(i, "over", "failed") /\ i \in raised[c].by => raised[c].late

(* Without a maintenance marker, what is up is taken down by no activation  *)
(* but those that had found it at zero in their preflight before it came    *)
(* up, whether by a step of theirs or by a PATCH of theirs that comes late. *)
(* Any of those may do it, for a rollback does not ask whose activation it  *)
(* rolls back; one that finds it up, in whichever of the preflight's reads  *)
(* it came up, never does.                                                  *)
Undisturbed ==
  [][\A c \in replicas \ replicas' : ~marker =>
       \E i \in raised[c].along :
         \/ activating'[i] # activating[i]
         \/ UNCHANGED activating /\ <<c, FALSE, i>> \in late]_vars
=============================================================================
