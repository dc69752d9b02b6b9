-------------------------- MODULE ActivationProofs --------------------------
(* Proofs about the activation, for any number of invocations and any of    *)
(* the faults.                                                              *)
EXTENDS Activation, TLAPS

Clean(i, c) == c \in replicas /\ i \in raised[c].by => raised[c].late

(* What an invocation relies on that has looked at the controllers and      *)
(* found them down, in the rollback as long as it is sure of all its steps. *)
CleanInv == \A i \in Activator :
  /\ Is(i, "verify", "client") /\ i \notin unsure => Clean(i, "fence")
  /\ Is(i, "over", "failed") => Clean(i, "fence") /\ Clean(i, "client")

(* Whoever has found at zero what is up now, or has a PATCH under way that  *)
(* takes it down, had found it at zero when it came up.                     *)
AlongInv == \A c \in replicas :
  /\ FoundDown(c) \subseteq raised[c].along
  /\ \A i \in Activator : <<c, FALSE, i>> \in late => i \in raised[c].along

ActivationInv == TypeOK /\ CleanInv /\ AlongInv

-----------------------------------------------------------------------------
(* Nobody moves but to a place the type knows, and only ReadController      *)
(* leads to a PATCH.                                                        *)
LEMMA PlaceFacts ==
  /\ Finished \subseteq Places /\ Rollback \in Places /\ Refused \in Places
  /\ \A p \in Scaling : ScaledNext[p] \in Places /\ ScaledNext[p][2] # "patch"
  /\ Rollback[2] # "patch" /\ Refused[2] # "patch"
<1> USE DEF At
<1>1. /\ Finished \subseteq Places /\ Rollback \in Places /\ Refused \in Places
      /\ Rollback[2] # "patch" /\ Refused[2] # "patch"
  BY DEF Finished, Places, Rollback, Refused, Scaling
<1>2. /\ ScaledNext["client"] = <<"client", "rollout">> /\ ScaledNext["fence"] = <<"fence", "rollout">>
      /\ ScaledNext["unfence"] = <<"unclient", "marker">> /\ ScaledNext["unclient"] = <<"verify", "fence">>
  BY DEF ScaledNext
<1>3. /\ <<"client", "rollout">> \in Places /\ <<"fence", "rollout">> \in Places
      /\ <<"unclient", "marker">> \in Places /\ <<"verify", "fence">> \in Places
  BY DEF Places, Scaling, Controllers
<1> QED
  BY <1>1, <1>2, <1>3 DEF Scaling

(* A PATCH that is carried out keeps the types, and leaves under way no     *)
(* other PATCH that could still change what it has changed.                 *)
LEMMA AppliedType ==
  ASSUME TypeOK, NEW c \in Controllers, NEW one \in BOOLEAN, NEW i \in Activator,
         NEW tardy \in BOOLEAN, Applies(c, one, i, tardy)
  PROVE /\ replicas' \subseteq Controllers /\ late' \subseteq late /\ fresh' \subseteq fresh
        /\ raised' \in [Controllers -> [by : SUBSET Activator, late : BOOLEAN, along : SUBSET Activator]]
        /\ \A m \in late' : m[2] => m[1] \notin replicas'
        /\ \A j \in fresh' : Is(j, Part(j), "patch") /\ Raises(j) => InHand(j) \notin replicas'
<1>1. replicas' \subseteq Controllers
  BY DEF Applies, ScaledTo, TypeOK
<1>2. CASE replicas' = replicas
  BY <1>1, <1>2 DEF Applies, TypeOK
<1>3. CASE replicas' # replicas
  <2>1. Outdates(c) /\ \A d \in Controllers \ {c} : d \in replicas' <=> d \in replicas
    BY <1>3 DEF Applies, ScaledTo
  <2>2. raised' \in [Controllers -> [by : SUBSET Activator, late : BOOLEAN, along : SUBSET Activator]]
    BY <1>3 DEF Applies, TypeOK, FoundDown
  <2>3. late' \subseteq late /\ \A m \in late' : m[1] # c /\ m[1] \in Controllers
    BY <2>1 DEF Outdates, TypeOK
  <2>4. fresh' \subseteq fresh /\ \A j \in fresh' : InHand(j) # c /\ InHand(j) \in Controllers
    BY <2>1 DEF Outdates, InHand, Controllers
  <2> QED
    BY <1>1, <2>1, <2>2, <2>3, <2>4 DEF TypeOK
<1> QED
  BY <1>2, <1>3

Placed(i) == \E s \in Places : s[2] # "patch" /\ Reaches(i, s)
Scaled == /\ replicas' \subseteq Controllers /\ late' \subseteq Controllers \X BOOLEAN \X Activator
          /\ raised' \in [Controllers -> [by : SUBSET Activator, late : BOOLEAN, along : SUBSET Activator]]
          /\ fresh' \subseteq fresh
          /\ \A m \in late' : m[2] => m[1] \notin replicas'
          /\ \A j \in fresh' : Is(j, Part(j), "patch") /\ Raises(j) => InHand(j) \notin replicas'

(* So the type stands after a step to a place that is not a PATCH.          *)
LEMMA MovedType ==
  ASSUME TypeOK, NEW i \in Activator, Placed(i), Scaled, unsure' \subseteq Activator,
         UNCHANGED <<ready, marker, published, maintained>>
  PROVE TypeOK'
<1>1. PICK s \in Places : s[2] # "patch" /\ Reaches(i, s)
  BY DEF Placed
<1>2. activating' \in [Activator -> Places] /\ activating'[i] = s
      /\ \A j \in Activator \ {i} : activating'[j] = activating[j]
  BY <1>1 DEF Reaches, TypeOK
<1>3. ASSUME NEW j \in fresh', Is(j, Part(j), "patch")', Raises(j)' PROVE InHand(j)' \notin replicas'
  <2>1. j \in Activator /\ j # i
    BY <1>1, <1>2, <1>3 DEF Is, At, TypeOK, Scaled
  <2> QED
    BY <1>2, <1>3, <2>1 DEF Scaled, Is, Part, Raises, InHand
<1> QED
  BY <1>2, <1>3 DEF TypeOK, Scaled

LEMMA UntouchedScaled ==
  ASSUME TypeOK, UNCHANGED <<replicas, late, raised>>, fresh' \subseteq fresh
  PROVE Scaled
  BY DEF TypeOK, Scaled

LEMMA FailedPlace ==
  ASSUME TypeOK, NEW i \in Activator, Part(i) \in Scaling, ScaleFails(i)
  PROVE Placed(i) /\ unsure' \subseteq Activator
  BY PlaceFacts DEF ScaleFails, Placed, TypeOK

LEMMA FateScaled ==
  ASSUME TypeOK, NEW i \in Activator, Part(i) \in Scaling, Is(i, Part(i), "patch"), Fate(i)
  PROVE Scaled
<1>1. InHand(i) \in Controllers /\ Raises(i) \in BOOLEAN
  BY DEF InHand, Raises, Controllers
<1>2. CASE Unapplied
  BY <1>2, UntouchedScaled DEF Unapplied
<1>3. CASE i \in fresh /\ Applies(InHand(i), Raises(i), i, FALSE)
  BY <1>1, <1>3, AppliedType DEF Scaled, TypeOK
<1>4. CASE /\ i \in fresh /\ UNCHANGED <<replicas, fresh, raised>>
           /\ late' = late \cup {<<InHand(i), Raises(i), i>>}
  BY <1>1, <1>4 DEF TypeOK, Scaled
<1> QED
  BY <1>2, <1>3, <1>4 DEF Fate

Goes(i) == Begin(i) \/ Step(i) \/ EndsEarly(i)

LEMMA StepType ==
  ASSUME TypeOK, NEW i \in Activator, Goes(i)
  PROVE TypeOK'
<1> USE DEF cluster, traces
<1>1. CASE Begin(i)
  <2>1. Placed(i)
    BY <1>1 DEF Begin, Placed, Places, At
  <2> QED
    BY <1>1, <2>1, MovedType, UntouchedScaled DEF Begin, TypeOK
<1>2. CASE Preflight(i) \/ Observe(i) \/ Complete(i)
  <2> DEFINE Here == {At("preflight", "pods"), At("preflight", "client"), At("preflight", "fence"),
                      At("preflight", "marker"), At("preflight", "confirm"), At("client", "marker"),
                      At("client", "pod"), At("fence", "marker"), At("fence", "lease"),
                      At("receipt", "client"), At("receipt", "fence"), At("receipt", "pod"),
                      At("receipt", "lease"), At("receipt", "publish"), At("over", "passed"),
                      Refused, Rollback}
  <2>1. \A s \in Here : s \in Places /\ s[2] # "patch"
    BY PlaceFacts DEF Places, Scaling, At, Finished
  <2>2. /\ UNCHANGED <<cluster, unsure, published, traces>>
        /\ \E s \in Here : Reaches(i, s)
    <3>1. CASE Preflight(i)
      BY <3>1 DEF Preflight, Look, Checked
    <3>2. CASE Observe(i)
      BY <3>2 DEF Observe, Checked
    <3>3. CASE Complete(i)
      BY <3>3 DEF Complete, Checked
    <3> QED
      BY <1>2, <3>1, <3>2, <3>3
  <2> HIDE DEF Here
  <2>3. Placed(i)
    BY <2>1, <2>2 DEF Placed
  <2> QED
    BY <2>2, <2>3, MovedType, UntouchedScaled DEF TypeOK
<1>3. CASE ReadMarker(i)
  <2>1. Placed(i) /\ unsure' \subseteq Activator
    <3>1. CASE ScaleFails(i)
      BY <1>3, <3>1, FailedPlace DEF ReadMarker
    <3>2. CASE Reaches(i, At(Part(i), "look")) /\ UNCHANGED unsure
      BY <1>3, <3>2 DEF ReadMarker, Placed, Places, At, TypeOK
    <3> QED
      BY <1>3, <3>1, <3>2 DEF ReadMarker
  <2> QED
    BY <1>3, <2>1, MovedType, UntouchedScaled DEF ReadMarker
<1>4. CASE ReadController(i)
  <2>1. CASE ScaleFails(i) /\ UNCHANGED fresh
    <3>1. Placed(i) /\ unsure' \subseteq Activator
      BY <1>4, <2>1, FailedPlace DEF ReadController
    <3> QED
      BY <1>4, <2>1, <3>1, MovedType, UntouchedScaled DEF ReadController
  <2>2. CASE /\ ~(Raises(i) /\ InHand(i) \in replicas) /\ UNCHANGED unsure
             /\ Reaches(i, At(Part(i), "patch")) /\ fresh' = fresh \cup {i}
    <3>1. At(Part(i), "patch") \in Places
      BY <1>4 DEF ReadController, Places, At
    <3>2. activating' \in [Activator -> Places] /\ activating'[i] = At(Part(i), "patch")
          /\ \A j \in Activator \ {i} : activating'[j] = activating[j]
      BY <2>2, <3>1 DEF Reaches, TypeOK
    <3>3. ASSUME NEW j \in fresh', Is(j, Part(j), "patch")', Raises(j)' PROVE InHand(j)' \notin replicas'
      <4>1. CASE j = i
        BY <1>4, <2>2, <3>2, <3>3, <4>1 DEF ReadController, Raises, InHand, Part, At
      <4>2. CASE j # i
        BY <1>4, <2>2, <3>2, <3>3, <4>2 DEF ReadController, Raises, InHand, Part, Is, At, TypeOK
      <4> QED
        BY <4>1, <4>2
    <3> QED
      BY <1>4, <2>2, <3>2, <3>3 DEF ReadController, TypeOK
  <2> QED
    BY <1>4, <2>1, <2>2 DEF ReadController
<1>5. CASE Patched(i)
  <2>1. Placed(i)
    BY <1>5, PlaceFacts DEF Patched, Patching, Placed
  <2>2. Scaled
    BY <1>5, FateScaled DEF Patched, Patching, Fate
  <2> QED
    BY <1>5, <2>1, <2>2, MovedType DEF Patched, Patching, TypeOK
<1>6. CASE PatchRefused(i) \/ PatchUnanswered(i)
  <2>1. Placed(i) /\ unsure' \subseteq Activator
    BY <1>6, FailedPlace DEF PatchRefused, PatchUnanswered, Patching
  <2>2. Scaled
    BY <1>6, FateScaled DEF PatchRefused, PatchUnanswered, Patching, Fate
  <2> QED
    BY <1>6, <2>1, <2>2, MovedType DEF PatchRefused, PatchUnanswered, Patching
<1>7. CASE Publish(i)
  <2>1. CASE published = {} /\ published' = {i} /\ Reaches(i, At("receipt", "published"))
    <3>1. At("receipt", "published") \in Places
      BY DEF Places, At
    <3>2. activating' \in [Activator -> Places] /\ activating'[i] = At("receipt", "published")
          /\ \A j \in Activator \ {i} : activating'[j] = activating[j]
      BY <2>1, <3>1 DEF Reaches, TypeOK
    <3> QED
      BY <1>7, <2>1, <3>2 DEF Publish, TypeOK, Is, Part, Raises, InHand, At
  <2>2. CASE Reaches(i, Rollback) /\ UNCHANGED published
    BY <1>7, <2>2, PlaceFacts, MovedType, UntouchedScaled DEF Publish, Placed, TypeOK
  <2> QED
    BY <1>7, <2>1, <2>2 DEF Publish
<1>8. CASE Verify(i)
  <2>1. Placed(i)
    BY <1>8 DEF Verify, Placed, Places, At, Finished, Controllers, Status
  <2> QED
    BY <1>8, <2>1, MovedType, UntouchedScaled DEF Verify, TypeOK
<1>9. CASE Exit(i)
  <2>1. Placed(i) /\ unsure' \subseteq Activator
    <3>1. CASE Part(i) \in {"unfence", "unclient"} /\ ScaleFails(i)
      BY <3>1, FailedPlace DEF Scaling
    <3>2. CASE Reaches(i, Refused) /\ UNCHANGED unsure
      BY <3>2, PlaceFacts DEF Placed, TypeOK
    <3>3. CASE Reaches(i, Rollback) /\ UNCHANGED unsure
      BY <3>3, PlaceFacts DEF Placed, TypeOK
    <3>4. CASE /\ unsure' = unsure \cup {i}
               /\ \/ Reaches(i, At("verify", "client"))
                  \/ Reaches(i, At("over", "critical"))
      BY <3>4 DEF Placed, Places, At, Finished, Controllers, TypeOK
    <3> QED
      BY <1>9, <3>1, <3>2, <3>3, <3>4 DEF Exit
  <2> QED
    BY <1>9, <2>1, MovedType, UntouchedScaled DEF Exit
<1>10. CASE Kill(i)
  <2>1. Placed(i)
    BY <1>10 DEF Kill, Placed, Places, At, Finished
  <2>2. Scaled
    <3>1. CASE Unapplied
      BY <3>1, UntouchedScaled DEF Unapplied
    <3>2. CASE activating[i][2] = "patch" /\ Fate(i)
      <4>1. Part(i) \in Scaling /\ Is(i, Part(i), "patch")
        BY <3>2 DEF Part, Is, At, TypeOK, Places, Finished, Scaling, Controllers
      <4> QED
        BY <3>2, <4>1, FateScaled
    <3> QED
      BY <1>10, <3>1, <3>2 DEF Kill
  <2> QED
    BY <1>10, <2>1, <2>2, MovedType DEF Kill, TypeOK
<1> QED
  BY <1>1, <1>2, <1>3, <1>4, <1>5, <1>6, <1>7, <1>8, <1>9, <1>10 DEF Goes, Step, EndsEarly

LEMMA SurroundingsType ==
  ASSUME TypeOK, Surroundings
  PROVE TypeOK'
<1> USE DEF traces
<1>1. CASE PodsFollow
  BY <1>1 DEF PodsFollow, Outdates, TypeOK, Controllers, Is, Part, Raises, InHand
<1>2. CASE LateLands
  <2>1. PICK m \in late : Applies(m[1], m[2], m[3], TRUE)
    BY <1>2 DEF LateLands
  <2>2. m[1] \in Controllers /\ m[2] \in BOOLEAN /\ m[3] \in Activator
    BY DEF TypeOK
  <2> QED
    BY <1>2, <2>1, <2>2, AppliedType DEF LateLands, TypeOK, Is, Part, Raises, InHand
<1>3. CASE MarkerComes \/ MarkerGoes
  BY <1>3 DEF MarkerComes, MarkerGoes, TypeOK, Is, Part, Raises, InHand
<1>4. CASE Maintenance
  BY <1>4 DEF Maintenance, Outdates, TypeOK, Is, Part, Raises, InHand
<1> QED
  BY <1>1, <1>2, <1>3, <1>4 DEF Surroundings

LEMMA TypeOfInit == Init => TypeOK
<1>1. At("idle", "idle") \in Places
  BY DEF Places, At
<1>2. Init => raised \in [Controllers -> [by : SUBSET Activator, late : BOOLEAN, along : SUBSET Activator]]
  BY DEF Init
<1>3. Init => activating \in [Activator -> Places]
  BY <1>1 DEF Init
<1> QED
  BY <1>2, <1>3 DEF Init, TypeOK

LEMMA TypeOfStep == TypeOK /\ [Next]_vars => TypeOK'
<1>1. ASSUME TypeOK, UNCHANGED vars PROVE TypeOK'
  BY <1>1 DEF vars, cluster, traces, TypeOK, Is, Part, Raises, InHand
<1> QED
  BY <1>1, StepType, SurroundingsType DEF Next, Goes

(* The type of the state and the two facts stated with it: one receipt at   *)
(* most, and no PATCH to scale up what is up that could still count.        *)
THEOREM ActivationTypeCorrect == Spec => []TypeOK
  BY TypeOfInit, TypeOfStep, PTL DEF Spec

-----------------------------------------------------------------------------
(* What a step of an invocation does to a controller, and to the PATCHes    *)
(* under way that may still change it.                                      *)
Raised(c, i) == /\ c \in replicas' \ replicas
                /\ raised'[c] = [by |-> {i}, late |-> FALSE, along |-> FoundDown(c) \cup {i}]
                /\ Raises(i) /\ activating[i][2] = "patch" /\ \A m \in late' : m[1] # c
Lowered(c, i) == c \in replicas \ replicas' /\ i \in FoundDown(c) /\ activating'[i] # activating[i]
Left(c, i) == /\ c \in replicas' <=> c \in replicas
              /\ raised'[c] = raised[c]
              /\ \A m \in late' : m[1] = c => m \in late \/ (m[3] = i /\ i \in FoundDown(c))
Touches(i) == \A c \in Controllers : Raised(c, i) \/ Lowered(c, i) \/ Left(c, i)

LEMMA PatchTouches ==
  ASSUME TypeOK, NEW i \in Activator, activating[i][2] = "patch", Fate(i), activating'[i][2] # "patch"
  PROVE Touches(i)
<1>1. /\ Part(i) \in Scaling /\ \A c \in Controllers : i \in FoundDown(c)
      /\ InHand(i) \in Controllers /\ Raises(i) \in BOOLEAN /\ activating'[i] # activating[i]
  BY DEF Part, TypeOK, Places, Finished, Scaling, Controllers, FoundDown, Before, At, InHand, Raises
<1>2. CASE Unapplied
  BY <1>2 DEF Unapplied, Touches, Left
<1>3. CASE i \in fresh /\ Applies(InHand(i), Raises(i), i, FALSE)
  <2>1. CASE replicas' = replicas
    BY <1>3, <2>1 DEF Applies, Touches, Left
  <2>2. CASE replicas' # replicas
    <3>1. ASSUME NEW c \in Controllers, c # InHand(i) PROVE Left(c, i)
      BY <1>1, <1>3, <2>2, <3>1 DEF Applies, ScaledTo, Outdates, Left, TypeOK
    <3>2. Raised(InHand(i), i) \/ Lowered(InHand(i), i)
      <4>1. CASE Raises(i)
        BY <1>1, <1>3, <2>2, <4>1 DEF Applies, ScaledTo, Outdates, Raised, TypeOK
      <4>2. CASE ~Raises(i)
        BY <1>1, <1>3, <2>2, <4>2 DEF Applies, ScaledTo, Lowered, TypeOK
      <4> QED
        BY <4>1, <4>2
    <3> QED
      BY <3>1, <3>2 DEF Touches
  <2> QED
    BY <2>1, <2>2
<1>4. CASE /\ i \in fresh /\ UNCHANGED <<replicas, fresh, raised>>
           /\ late' = late \cup {<<InHand(i), Raises(i), i>>}
  BY <1>1, <1>4 DEF Touches, Left
<1> QED
  BY <1>2, <1>3, <1>4 DEF Fate

LEMMA StepTouches ==
  ASSUME TypeOK, NEW i \in Activator, Goes(i)
  PROVE Touches(i)
<1> USE DEF cluster, traces
<1>1. CASE Begin(i) \/ Preflight(i) \/ ReadMarker(i) \/ ReadController(i)
  BY <1>1 DEF Begin, Preflight, Look, ReadMarker, ReadController, Checked, Touches, Left
<1>2. CASE Observe(i) \/ Publish(i) \/ Complete(i) \/ Verify(i) \/ Exit(i)
  BY <1>2 DEF Observe, Publish, Complete, Verify, Exit, Checked, Touches, Left
<1>3. CASE Patched(i)
  <2>1. activating[i][2] = "patch" /\ Part(i) \in Scaling
    BY <1>3 DEF Patched, Patching, Is, At
  <2>2. activating'[i][2] # "patch"
    BY <1>3, <2>1, PlaceFacts DEF Patched, Reaches, TypeOK
  <2>3. Fate(i)
    BY <1>3 DEF Patched, Fate
  <2> QED
    BY <2>1, <2>2, <2>3, PatchTouches
<1>4. CASE PatchRefused(i) \/ PatchUnanswered(i)
  <2>1. activating[i][2] = "patch" /\ Part(i) \in Scaling
    BY <1>4 DEF PatchRefused, PatchUnanswered, Patching, Is, At
  <2>3. Fate(i) /\ ScaleFails(i)
    BY <1>4 DEF PatchRefused, PatchUnanswered, Fate
  <2>2. activating'[i][2] # "patch"
    BY <2>1, <2>3, PlaceFacts DEF ScaleFails, Reaches, TypeOK
  <2> QED
    BY <2>1, <2>2, <2>3, PatchTouches
<1>5. CASE Kill(i)
  <2>1. CASE Unapplied
    BY <2>1 DEF Unapplied, Touches, Left
  <2>2. CASE activating[i][2] = "patch" /\ Fate(i)
    <3>1. activating'[i][2] # "patch"
      BY <1>5 DEF Kill, Reaches, At, TypeOK
    <3> QED
      BY <2>2, <3>1, PatchTouches
  <2> QED
    BY <1>5, <2>1, <2>2 DEF Kill
<1> QED
  BY <1>1, <1>2, <1>3, <1>4, <1>5 DEF Goes, Step, EndsEarly

LEMMA SurroundingsTouch ==
  ASSUME TypeOK, Surroundings, NEW c \in Controllers
  PROVE \/ /\ c \in replicas' \ replicas /\ \A m \in late' : m[1] # c
           /\ raised'[c].late /\ FoundDown(c) \subseteq raised'[c].along
        \/ c \in replicas \ replicas' /\ (marker \/ \E i \in Activator : <<c, FALSE, i>> \in late)
        \/ /\ c \in replicas' <=> c \in replicas
           /\ raised'[c] = raised[c] /\ \A m \in late' : m[1] = c => m \in late
<1> USE DEF traces
<1>1. CASE PodsFollow
  BY <1>1 DEF PodsFollow, Outdates
<1>2. CASE LateLands
  <2>1. PICK m \in late : Applies(m[1], m[2], m[3], TRUE)
    BY <1>2 DEF LateLands
  <2>2. m[1] \in Controllers /\ m[2] \in BOOLEAN /\ m[3] \in Activator /\ m = <<m[1], m[2], m[3]>>
    BY DEF TypeOK
  <2>3. CASE replicas' = replicas
    BY <2>1, <2>3 DEF Applies
  <2>4. CASE replicas' # replicas /\ c # m[1]
    BY <2>1, <2>2, <2>4 DEF Applies, ScaledTo, Outdates, TypeOK
  <2>5. CASE replicas' # replicas /\ c = m[1]
    <3>1. CASE m[2]
      BY <2>1, <2>2, <2>5, <3>1 DEF Applies, ScaledTo, Outdates, TypeOK
    <3>2. CASE ~m[2]
      BY <2>1, <2>2, <2>5, <3>2 DEF Applies, ScaledTo
    <3> QED
      BY <3>1, <3>2
  <2> QED
    BY <2>3, <2>4, <2>5
<1>3. CASE MarkerComes \/ MarkerGoes
  BY <1>3 DEF MarkerComes, MarkerGoes
<1>4. CASE Maintenance
  BY <1>4 DEF Maintenance, Outdates
<1> QED
  BY <1>1, <1>2, <1>3, <1>4 DEF Surroundings

-----------------------------------------------------------------------------
(* An invocation finds a controller at zero only while it is.               *)
LEMMA FoundDownOf ==
  ASSUME TypeOK, NEW i \in Activator, Goes(i), NEW c \in Controllers
  PROVE /\ \A j \in Activator \ {i} : activating'[j] = activating[j]
        /\ FoundDown(c)' \subseteq FoundDown(c) \cup {i}
        /\ i \in FoundDown(c)' \ FoundDown(c) => c \notin replicas'
<1>1. \E s : Reaches(i, s)
  <2>1. CASE Begin(i) \/ Preflight(i) \/ ReadMarker(i) \/ ReadController(i) \/ Observe(i) \/ Publish(i)
    BY <2>1 DEF Begin, Preflight, Look, ReadMarker, ReadController, Observe, Publish, Checked, ScaleFails
  <2>2. CASE Patched(i) \/ PatchRefused(i) \/ PatchUnanswered(i) \/ Complete(i) \/ Verify(i)
    BY <2>2 DEF Patched, PatchRefused, PatchUnanswered, Complete, Verify, Checked, ScaleFails
  <2>3. CASE Exit(i) \/ Kill(i)
    BY <2>3 DEF Exit, Kill, ScaleFails
  <2> QED
    BY <2>1, <2>2, <2>3 DEF Goes, Step, EndsEarly
<1>2. \A j \in Activator \ {i} : activating'[j] = activating[j]
  BY <1>1 DEF Reaches, TypeOK
<1>3. ASSUME i \in FoundDown(c)' \ FoundDown(c) PROVE c \notin replicas'
  <2>1. activating[i] \in Finished \cup Before(c) /\ activating'[i] \notin Finished \cup Before(c)
    BY <1>3 DEF FoundDown, Finished, Before, At
  <2>2. CASE activating[i] \in Finished
    <3>1. Part(i) = "over"
      BY <2>2 DEF Part, Finished, At
    <3>2. ~Goes(i)
      <4>0. \A p \in {"idle", "preflight", "client", "fence", "receipt"} : \A t : ~Is(i, p, t)
        BY <3>1 DEF Part, Is, At
      <4>1. ~Begin(i) /\ ~Preflight(i) /\ ~Observe(i) /\ ~Publish(i) /\ ~Complete(i)
        BY <4>0 DEF Begin, Preflight, Look, Observe, Publish, Complete
      <4>2. ~ReadMarker(i) /\ ~ReadController(i) /\ ~Patching(i) /\ ~Verify(i)
        BY <3>1 DEF ReadMarker, ReadController, Patching, Verify, Scaling
      <4>3. ~Exit(i) /\ ~Kill(i)
        BY <2>2, <3>1 DEF Exit, Kill
      <4> QED
        BY <4>1, <4>2, <4>3 DEF Goes, Step, EndsEarly, Patched, PatchRefused, PatchUnanswered
    <3> QED
      BY <3>2
  <2>3. CASE activating[i] \in Before(c)
    <3>0. Part(i) \in {"idle", "preflight"} /\ \A p \in {"client", "fence", "receipt"} : \A t : ~Is(i, p, t)
      BY <2>3 DEF Before, Part, Is, At
    <3>1. ~ReadMarker(i) /\ ~ReadController(i) /\ ~Patching(i) /\ ~Verify(i) /\ ~Observe(i)
          /\ ~Publish(i) /\ ~Complete(i)
      BY <3>0 DEF ReadMarker, ReadController, Patching, Verify, Observe, Publish, Complete, Scaling
    <3>2. CASE Begin(i)
      BY <2>1, <3>2 DEF Begin, Reaches, Before, TypeOK
    <3>3. CASE Preflight(i)
      <4>1. PICK s \in {"receipt", "pods", "client", "fence", "marker", "confirm"} : Is(i, "preflight", s)
        BY <3>3 DEF Preflight, Look
      <4>2. replicas' = replicas /\ activating'[i] # Refused
        BY <2>1, <3>3 DEF Preflight, Look, Checked, cluster, Refused, Finished
      <4>3. CASE s \in {"receipt", "pods"}
        BY <2>1, <3>3, <4>1, <4>2, <4>3 DEF Preflight, Look, Checked, Reaches, Before, Is, At, Refused, TypeOK
      <4>4. CASE s = "client"
        <5>1. CASE c = "client"
          BY <3>3, <4>1, <4>2, <4>4, <5>1 DEF Preflight, Look, Checked, Reaches, Is, At, Refused, TypeOK
        <5>2. CASE c = "fence"
          BY <2>1, <3>3, <4>1, <4>2, <4>4, <5>2 DEF Preflight, Look, Checked, Reaches, Before, Is, At, Refused, TypeOK
        <5> QED
          BY <5>1, <5>2 DEF Controllers
      <4>5. CASE s = "fence"
        <5>1. c = "fence"
          BY <2>3, <4>1, <4>5 DEF Before, Is, At, Controllers
        <5> QED
          BY <3>3, <4>1, <4>2, <4>5, <5>1 DEF Preflight, Look, Checked, Reaches, Is, At, Refused, TypeOK
      <4>6. CASE s \in {"marker", "confirm"}
        BY <2>3, <4>1, <4>6 DEF Before, Is, At
      <4> QED
        BY <4>1, <4>3, <4>4, <4>5, <4>6
    <3>4. CASE Exit(i) \/ Kill(i)
      BY <2>1, <2>3, <3>4 DEF Exit, Kill, Reaches, Before, Is, Part, At, Finished, Refused, TypeOK
    <3> QED
      BY <3>1, <3>2, <3>3, <3>4 DEF Goes, Step, EndsEarly, Patched, PatchRefused, PatchUnanswered
  <2> QED
    BY <2>1, <2>2, <2>3
<1> QED
  BY <1>2, <1>3 DEF FoundDown, Finished, Before

LEMMA AlongStep ==
  ASSUME TypeOK, AlongInv, [Next]_vars
  PROVE AlongInv'
<1> SUFFICES ASSUME NEW c \in replicas'
             PROVE /\ FoundDown(c)' \subseteq raised'[c].along
                   /\ \A i \in Activator : <<c, FALSE, i>> \in late' => i \in raised'[c].along
  BY DEF AlongInv
<1>1. c \in Controllers
  BY TypeOfStep DEF TypeOK
<1>2. CASE UNCHANGED vars
  BY <1>2 DEF vars, cluster, traces, AlongInv, FoundDown, Finished, Before
<1>3. ASSUME NEW i \in Activator, Goes(i)
      PROVE /\ FoundDown(c)' \subseteq raised'[c].along
            /\ \A j \in Activator : <<c, FALSE, j>> \in late' => j \in raised'[c].along
  <2>1. Raised(c, i) \/ Left(c, i)
    BY <1>1, <1>3, StepTouches DEF Touches, Lowered
  <2>2. FoundDown(c)' \subseteq FoundDown(c) \cup {i} /\ (i \in FoundDown(c)' => i \in FoundDown(c))
    BY <1>1, <1>3, FoundDownOf
  <2>3. CASE Raised(c, i)
    <3>1. raised'[c].along = FoundDown(c) \cup {i}
      BY <2>3 DEF Raised
    <3>2. \A j \in Activator : <<c, FALSE, j>> \notin late'
      BY <2>3 DEF Raised
    <3> QED
      BY <2>2, <3>1, <3>2
  <2>4. CASE Left(c, i)
    BY <2>2, <2>4 DEF Left, AlongInv
  <2> QED
    BY <2>1, <2>3, <2>4
<1>4. CASE Surroundings
  <2>1. FoundDown(c)' = FoundDown(c)
    BY <1>4 DEF Surroundings, PodsFollow, LateLands, MarkerComes, MarkerGoes, Maintenance,
                FoundDown, Finished, Before
  <2> QED
    BY <1>1, <1>4, <2>1, SurroundingsTouch DEF AlongInv
<1> QED
  BY <1>2, <1>3, <1>4 DEF Next, Goes

-----------------------------------------------------------------------------
(* What an invocation has not raised by an answered or tardy PATCH of its   *)
(* own stays clean of it.                                                   *)
LEMMA CleanKept ==
  ASSUME TypeOK, [Next]_vars, NEW i \in Activator, NEW c \in Controllers, Clean(i, c),
         ~(Raises(i) /\ activating[i][2] = "patch")
  PROVE Clean(i, c)'
<1>1. CASE UNCHANGED vars
  BY <1>1 DEF vars, cluster, traces, Clean
<1>2. ASSUME NEW j \in Activator, Goes(j) PROVE Clean(i, c)'
  <2>1. Raised(c, j) \/ Lowered(c, j) \/ Left(c, j)
    BY <1>2, StepTouches DEF Touches
  <2> QED
    BY <2>1 DEF Raised, Lowered, Left, Clean
<1>3. CASE Surroundings
  BY <1>3, SurroundingsTouch DEF Clean
<1> QED
  BY <1>1, <1>2, <1>3 DEF Next, Goes

(* The places from which an invocation comes to the end of its rollback.    *)
LEMMA EndsOfRollback ==
  ASSUME TypeOK, [Next]_vars, NEW i \in Activator
  PROVE /\ Is(i, "verify", "client")' => \/ Is(i, "verify", "client") /\ unsure \subseteq unsure'
                                         \/ i \in unsure' \/ "fence" \notin replicas'
        /\ Is(i, "over", "failed")' => \/ Is(i, "over", "failed")
                                       \/ /\ Is(i, "verify", "client") /\ i \notin unsure
                                          /\ "client" \notin replicas'
<1>1. CASE UNCHANGED vars
  BY <1>1 DEF vars, Is
<1>2. CASE Surroundings
  <2>1. UNCHANGED <<activating, unsure>>
    BY <1>2 DEF Surroundings, PodsFollow, LateLands, MarkerComes, MarkerGoes, Maintenance
  <2> QED
    BY <2>1 DEF Is
<1>3. ASSUME NEW j \in Activator, Goes(j), j # i
      PROVE UNCHANGED activating[i] /\ unsure \subseteq unsure'
  <2>1. unsure \subseteq unsure'
    BY <1>3 DEF Goes, Begin, Step, EndsEarly, Preflight, Look, ReadMarker, ReadController, Patched, Patching,
       PatchRefused, PatchUnanswered, Observe, Publish, Complete, Verify, Exit, Kill, ScaleFails, Checked
  <2>2. \A k \in Activator \ {j} : activating'[k] = activating[k]
    BY <1>3, FoundDownOf DEF Controllers
  <2> QED
    BY <1>3, <2>1, <2>2
<1>4. ASSUME Goes(i)
      PROVE /\ Is(i, "verify", "client")' => i \in unsure' \/ "fence" \notin replicas'
            /\ Is(i, "over", "failed")' => /\ Is(i, "verify", "client") /\ i \notin unsure
                                           /\ "client" \notin replicas'
  <2>1. CASE Verify(i)
    BY <2>1 DEF Verify, Reaches, Is, At, Status, TypeOK, cluster
  <2>2. CASE Exit(i)
    <3>1. Is(i, "verify", "client")' => i \in unsure'
      BY <2>2 DEF Exit, ScaleFails, ScaledNext, Reaches, Is, At, Rollback, Refused, TypeOK
    <3>2. ~Is(i, "over", "failed")'
      BY <2>2 DEF Exit, ScaleFails, ScaledNext, Reaches, Is, At, Rollback, Refused, TypeOK
    <3> QED
      BY <3>1, <3>2
  <2>3. CASE ~Verify(i) /\ ~Exit(i)
    <3>1. Is(i, "verify", "client")' \/ Is(i, "over", "failed")' => FALSE
      <4>1. CASE Begin(i) \/ Preflight(i) \/ Complete(i)
        BY <4>1 DEF Begin, Preflight, Look, Complete, Checked, Reaches, Is, At, Refused, Rollback, TypeOK
      <4>2. CASE Observe(i) \/ Publish(i) \/ Kill(i)
        BY <4>2 DEF Observe, Publish, Kill, Checked, Reaches, Is, At, Rollback, TypeOK
      <4>3. CASE ScaleFails(i) /\ Part(i) \in Scaling
        BY <4>3 DEF ScaleFails, ScaledNext, Scaling, Raises, Reaches, Is, At, Rollback, TypeOK
      <4>4. CASE Patched(i)
        BY <4>4 DEF Patched, Patching, ScaledNext, Scaling, Reaches, Is, At, TypeOK
      <4>5. CASE Part(i) \in Scaling /\ (Reaches(i, At(Part(i), "look")) \/ Reaches(i, At(Part(i), "patch")))
        BY <4>5 DEF Reaches, Is, At, TypeOK
      <4> QED
        BY <1>4, <2>3, <4>1, <4>2, <4>3, <4>4, <4>5 DEF Goes, Step, EndsEarly, ReadMarker,
           ReadController, PatchRefused, PatchUnanswered, Patching
    <3> QED
      BY <3>1
  <2> QED
    BY <2>1, <2>2, <2>3
<1> QED
  BY <1>1, <1>2, <1>3, <1>4 DEF Next, Goes, Is

LEMMA CleanStep ==
  ASSUME TypeOK, CleanInv, [Next]_vars
  PROVE CleanInv'
<1> SUFFICES ASSUME NEW i \in Activator
             PROVE /\ (Is(i, "verify", "client") /\ i \notin unsure => Clean(i, "fence"))'
                   /\ (Is(i, "over", "failed") => Clean(i, "fence") /\ Clean(i, "client"))'
  BY DEF CleanInv
<1> "client" \in Controllers /\ "fence" \in Controllers
  BY DEF Controllers
<1>1. ASSUME Is(i, "verify", "client")', i \notin unsure' PROVE Clean(i, "fence")'
  <2>1. CASE "fence" \notin replicas'
    BY <2>1 DEF Clean
  <2>2. CASE Is(i, "verify", "client") /\ unsure \subseteq unsure'
    <3>1. Clean(i, "fence") /\ ~Raises(i)
      BY <1>1, <2>2 DEF CleanInv, Raises, Part, Is, At
    <3> QED
      BY <3>1, CleanKept
  <2> QED
    BY <1>1, <2>1, <2>2, EndsOfRollback
<1>2. ASSUME Is(i, "over", "failed")' PROVE Clean(i, "fence")' /\ Clean(i, "client")'
  <2>1. CASE Is(i, "over", "failed")
    <3>1. Clean(i, "fence") /\ Clean(i, "client") /\ ~Raises(i)
      BY <2>1 DEF CleanInv, Raises, Part, Is, At
    <3> QED
      BY <3>1, CleanKept
  <2>2. CASE Is(i, "verify", "client") /\ i \notin unsure /\ "client" \notin replicas'
    <3>1. Clean(i, "fence") /\ ~Raises(i)
      BY <2>2 DEF CleanInv, Raises, Part, Is, At
    <3> QED
      BY <2>2, <3>1, CleanKept DEF Clean
  <2> QED
    BY <1>2, <2>1, <2>2, EndsOfRollback
<1> QED
  BY <1>1, <1>2

LEMMA ActivationInvariant == Spec => []ActivationInv
<1>1. Init => ActivationInv
  <2>1. Init => CleanInv /\ AlongInv
    BY DEF Init, CleanInv, AlongInv, Is, At
  <2> QED
    BY <2>1, TypeOfInit DEF ActivationInv
<1>2. ActivationInv /\ [Next]_vars => ActivationInv'
  BY TypeOfStep, CleanStep, AlongStep DEF ActivationInv
<1> QED
  BY <1>1, <1>2, PTL DEF Spec

(* An activation that fails and does not exit with 70 leaves nothing up     *)
(* that it has brought up, unless a PATCH of its own comes later.           *)
THEOREM RolledBackHolds == Spec => []RolledBack
<1>1. ActivationInv => RolledBack
  BY DEF ActivationInv, CleanInv, Clean, RolledBack, TypeOK, Controllers
<1> QED
  BY <1>1, ActivationInvariant, PTL

(* What is up is taken down, without a maintenance, only by an activation   *)
(* that had found it at zero before it came up.                             *)
THEOREM UndisturbedHolds == Spec => Undisturbed
<1>1. ASSUME ActivationInv, [Next]_vars, NEW c \in replicas \ replicas', ~marker
      PROVE \E i \in raised[c].along : \/ activating'[i] # activating[i]
                                       \/ UNCHANGED activating /\ <<c, FALSE, i>> \in late
  <2>1. c \in Controllers
    BY <1>1 DEF ActivationInv, TypeOK
  <2>2. ~UNCHANGED vars
    BY <1>1 DEF vars, cluster
  <2>3. CASE \E i \in Activator : Goes(i)
    <3>1. PICK i \in Activator : Goes(i)
      BY <2>3
    <3>2. i \in FoundDown(c) /\ activating'[i] # activating[i]
      BY <1>1, <2>1, <3>1, StepTouches DEF ActivationInv, Touches, Raised, Lowered, Left
    <3> QED
      BY <1>1, <3>2 DEF ActivationInv, AlongInv
  <2>4. CASE Surroundings
    <3>1. UNCHANGED activating
      BY <2>4 DEF Surroundings, PodsFollow, LateLands, MarkerComes, MarkerGoes, Maintenance
    <3>2. \E i \in Activator : <<c, FALSE, i>> \in late
      BY <1>1, <2>1, <2>4, SurroundingsTouch DEF ActivationInv
    <3> QED
      BY <1>1, <3>1, <3>2 DEF ActivationInv, AlongInv
  <2> QED
    BY <1>1, <2>2, <2>3, <2>4 DEF Next, Goes
<1>2. ActivationInv /\ [Next]_vars =>
        [\A c \in replicas \ replicas' : ~marker =>
           \E i \in raised[c].along :
             \/ activating'[i] # activating[i]
             \/ UNCHANGED activating /\ <<c, FALSE, i>> \in late]_vars
  BY <1>1
<1> QED
  BY <1>2, ActivationInvariant, PTL DEF Undisturbed, Spec
=============================================================================
