------------------------- MODULE Uc5CeremonyProofs --------------------------
(* Proofs about Uc5Ceremony for every set of ceremonies and collectors and   *)
(* every bound on late requests.                                             *)
EXTENDS Uc5Ceremony, FiniteSetTheorems, TLAPS

USE CeremonyAssumption

LocalTypes == /\ stage \in [Id -> Stage] /\ call \in [Id -> {"look", "request", "readback"}]
              /\ flags \in [Id -> SUBSET Flag] /\ unconfirmed \in [Id -> SUBSET Cleanup]

(* Where an invocation goes next is always a stage.                          *)
LEMMA NextStages ==
  /\ \A s \in DOMAIN After : After[s] \in Stage
  /\ \A f, u : ToRelease(f, u) \in Stage /\ ToRestore(f) \in Stage
  /\ \A f : ToSafe(f) \in Stage /\ ToCleanup(f) \in Stage
  /\ \A s : Gain(s) \subseteq Flag /\ Doubt(s) \subseteq Cleanup
<1>1. \A s \in DOMAIN After : After[s] \in Stage
  BY DEF After, Stage, Body, Locking, Guarded, CutOff, Recovery, Final, SafeFenced, SafeSigner,
         OfCollectors
<1>2. \A f, u : ToRelease(f, u) \in Stage /\ ToRestore(f) \in Stage
  BY DEF ToRelease, ToRestore, Stage, Final
<1>3. \A f : ToSafe(f) \in Stage /\ ToCleanup(f) \in Stage
  BY DEF ToCleanup, ToSafe, ToRestore, Stage, Final, SafeFenced
<1>4. \A s : Gain(s) \subseteq Flag
  BY DEF Gain, Gains, Flag
<1>5. \A s : Doubt(s) \subseteq Cleanup
  BY DEF Doubt, Doubts, Cleanup
<1> QED
  BY <1>1, <1>2, <1>3, <1>4, <1>5

(* The three ways to leave a stage keep the types.                           *)
LEMMA GoTypes ==
  ASSUME LocalTypes, NEW c \in Id, NEW s \in Stage, Go(c, s)
  PROVE  stage' \in [Id -> Stage] /\ call' \in [Id -> {"look", "request", "readback"}]
BY DEF LocalTypes, Go

LEMMA FinishTypes ==
  ASSUME LocalTypes, NEW c \in Id, NEW g \in SUBSET Flag, Finish(c, g)
  PROVE  LocalTypes'
<1> DEFINE f == flags[c] \cup Gain(stage[c]) \cup g
<1>1. flags' = [flags EXCEPT ![c] = f] /\ UNCHANGED unconfirmed
  BY DEF Finish
<1>2. f \in SUBSET Flag
  BY NextStages DEF LocalTypes
<1>3. \E s \in Stage : Go(c, s)
  <2>1. {"capture", "collect", "release", "ended"} \subseteq Stage
    BY DEF Stage, Body, Guarded, OfCollectors, Final
  <2>2. CASE stage[c] \in DOMAIN After /\ Go(c, After[stage[c]])
    BY <2>2, NextStages
  <2>3. CASE Go(c, ToSafe(f)) \/ Go(c, ToRestore(f)) \/ Go(c, ToRelease(f, unconfirmed[c]))
    BY <2>3, NextStages
  <2>4. CASE \/ Go(c, IF c \in Ceremony THEN "capture" ELSE "collect")
             \/ Go(c, IF {"lock_owned", "collected"} \subseteq f THEN "release" ELSE "ended")
    BY <2>4, <2>1
  <2> QED
    BY <2>2, <2>3, <2>4 DEF Finish
<1> QED
  BY <1>1, <1>2, <1>3, GoTypes DEF LocalTypes

LEMMA RaiseTypes ==
  ASSUME LocalTypes, NEW c \in Id, Raise(c)
  PROVE  LocalTypes'
<1> DEFINE u == unconfirmed[c] \cup Doubt(stage[c])
<1>1. unconfirmed' = [unconfirmed EXCEPT ![c] = u] /\ UNCHANGED flags
  BY DEF Raise
<1>2. u \in SUBSET Cleanup
  BY NextStages DEF LocalTypes
<1>3. \E s \in Stage : Go(c, s)
  <2>1. {"safe_signer", "revoke", "ended", "settle"} \subseteq Stage
    BY DEF Stage, Final, SafeSigner, OfCollectors
  <2>2. CASE \/ Go(c, ToSafe(flags[c])) \/ Go(c, ToRestore(flags[c]))
             \/ Go(c, ToRelease(flags[c], u)) \/ Go(c, ToCleanup(flags[c]))
    BY <2>2, NextStages
  <2>3. CASE Go(c, "safe_signer") \/ Go(c, "revoke") \/ Go(c, "ended") \/ Go(c, "settle")
    BY <2>3, <2>1
  <2> QED
    BY <2>2, <2>3 DEF Raise
<1> QED
  BY <1>1, <1>2, <1>3, GoTypes DEF LocalTypes

(* The stages and flags that the stages of run() lead to.                    *)
LEMMA Groups ==
  /\ After["administrator_ready"] = "acquire"
  /\ \A s \in Guarded \ {"predelete"} : s \in DOMAIN After /\ After[s] \in Guarded
  /\ After["predelete"] = "delete"
  /\ \A s \in CutOff \ {"restore"} : s \in DOMAIN After /\ After[s] \in CutOff
  /\ After["restore"] = "recover"
  /\ \A s \in Recovery \ {"kept_quiesced"} : s \in DOMAIN After /\ After[s] \in Recovery
  /\ After["kept_quiesced"] = "revoke"
  /\ \A s \in SafeFenced \cup {"safe_signer"} : After[s] \in SafeFenced \cup SafeSigner
  /\ After["safe_restore"] = "revoke" /\ After["release"] = "ended"
  /\ After["completed"] = "acquire" /\ After["collect"] = "settle"
BY DEF After, Guarded, CutOff, Recovery, SafeFenced, SafeSigner

(* Which stage sets which flag.                                              *)
LEMMA Gained ==
  /\ \A s \in Stage \ {"predelete"} : "role_delete_attempted" \notin Gain(s)
  /\ \A s \in Stage \ {"restore", "safe_restore"} : "role_restored" \notin Gain(s)
  /\ \A s \in {"restore", "safe_restore"} : "role_restored" \in Gain(s)
  /\ \A s \in Stage \ {"acquire"} : "lock_owned" \notin Gain(s)
  /\ "lock_owned" \in Gain("acquire") /\ "role_delete_attempted" \in Gain("predelete")
<1>1. \A s \in Stage : s \in DOMAIN Gains /\ Gains[s] = "role_delete_attempted" => s = "predelete"
  BY DEF Gains
<1>2. \A s \in Stage : s \in DOMAIN Gains /\ Gains[s] = "role_restored" => s \in {"restore", "safe_restore"}
  BY DEF Gains
<1>3. \A s \in Stage : s \in DOMAIN Gains /\ Gains[s] = "lock_owned" => s = "acquire"
  BY DEF Gains
<1>4. \A s \in {"restore", "safe_restore"} : s \in DOMAIN Gains /\ Gains[s] = "role_restored"
  BY DEF Gains
<1>5. /\ "acquire" \in DOMAIN Gains /\ Gains["acquire"] = "lock_owned"
      /\ "predelete" \in DOMAIN Gains /\ Gains["predelete"] = "role_delete_attempted"
  BY DEF Gains
<1> QED
  BY <1>1, <1>2, <1>3, <1>4, <1>5 DEF Gain

-----------------------------------------------------------------------------
(* The ways the local state of one invocation may change.                    *)
Checked(c) ==
  /\ stage[c] = "running" => replicas["signer"] = 1
  /\ stage[c] \in DOMAIN Scaling => replicas[Scaling[stage[c]][1]] = Scaling[stage[c]][2]
  /\ stage[c] = "safe_quiesced" => pods["client"] = "none" /\ pods["fence"] = "none"
  /\ stage[c] = "safe_absent" => SignerAbsent

Ends(c) == /\ Running(c) /\ Checked(c)
           /\ \E g \in {{}, {"lock_owned"}} : Finish(c, g) /\ (g = {} \/ marker = c)
           /\ stage[c] = "acquire" => marker = c
           /\ stage[c] = "predelete" => SignerAbsent /\ Quiesced
           /\ stage[c] \in {"restore", "safe_restore"} => role = "exact"
           /\ stage[c] = "revoke" => token[c] = "revoked"

Turns(c) == Running(c) /\ \E k \in {"request", "readback"} :
  Turn(c, k) /\ (k = "request" => stage[c] \in DOMAIN Scaling \cup DOMAIN Unscoped)
Breaks(c) == Running(c) /\ (Raise(c) \/ Die(c))

(* Tokens are only ever revoked.                                             *)
TokensKept == \A c \in Id : token'[c] = token[c] \/ token'[c] = "revoked"

(* Nothing changes for the others.                                           *)
LEMMA Others ==
  ASSUME LocalTypes, NEW c \in Id, Ends(c) \/ Turns(c) \/ Breaks(c)
  PROVE  \A d \in Id \ {c} : stage'[d] = stage[d] /\ flags'[d] = flags[d]
                              /\ unconfirmed'[d] = unconfirmed[d]
<1>1. CASE Ends(c)
  BY <1>1 DEF Ends, Finish, Go, LocalTypes
<1>2. CASE Turns(c)
  BY <1>2 DEF Turns, Turn, LocalTypes
<1>3. CASE Breaks(c)
  BY <1>3 DEF Breaks, Raise, Die, Go, LocalTypes
<1> QED
  BY <1>1, <1>2, <1>3

(* What an invocation has set fits the stage it comes to.                    *)
LEMMA EndsFounded ==
  ASSUME LocalTypes, NEW c \in Id, Founded(c), Ends(c), TokensKept
  PROVE  Founded(c)'
<1> PICK g \in {{}, {"lock_owned"}} : Finish(c, g)
  BY DEF Ends
<1> DEFINE s == stage[c]
           f == flags[c] \cup Gain(s) \cup g
<1>1. flags'[c] = f /\ unconfirmed'[c] = unconfirmed[c]
  BY DEF Finish, LocalTypes
<1>2. s \in Stage /\ s \notin {"ended", "dead"}
  BY DEF Ends, Running, LocalTypes
<1>3. \A t : Go(c, t) => stage'[c] = t
  BY DEF Go, LocalTypes
<1> USE <1>1, <1>2, <1>3 DEF TokensKept, Founded, Disarmed, Accounted, Attempted
<1>4. CASE s \in Locking
  <2>1. s = "administrator_ready" => stage'[c] = "acquire"
    BY <1>4, Groups DEF Finish, After
  <2>2. s = "acquire" => stage'[c] \in {"capture", "collect"} /\ (c \in Ceremony <=> stage'[c] = "capture")
    BY DEF Finish, After
  <2> QED
    BY <1>4, <2>1, <2>2, Gained DEF Locking, Guarded, CutOff, Recovery, OfCollectors
<1>5. CASE s \in Guarded
  <2>1. stage'[c] = After[s]
    BY <1>5, Groups DEF Finish, After, Guarded
  <2>2. IF s = "predelete" THEN stage'[c] = "delete" ELSE stage'[c] \in Guarded
    BY <1>5, <2>1, Groups
  <2> QED
    BY <1>5, <2>2, Gained DEF Locking, Guarded, CutOff, Recovery, OfCollectors
<1>6. CASE s \in CutOff
  <2>1. stage'[c] = After[s]
    BY <1>6, Groups DEF Finish, After, CutOff
  <2>2. IF s = "restore" THEN stage'[c] = "recover" ELSE stage'[c] \in CutOff
    BY <1>6, <2>1, Groups
  <2> QED
    BY <1>6, <2>2, Gained DEF Locking, Guarded, CutOff, Recovery, OfCollectors
<1>7. CASE s \in Recovery
  <2>1. stage'[c] = After[s]
    BY <1>7, Groups DEF Finish, After, Recovery
  <2>2. IF s = "kept_quiesced" THEN stage'[c] = "revoke" ELSE stage'[c] \in Recovery
    BY <1>7, <2>1, Groups
  <2> QED
    BY <1>7, <2>2, Gained DEF Locking, Guarded, CutOff, Recovery, OfCollectors
<1>8. CASE s \in SafeFenced \cup {"safe_signer"}
  <2>1. stage'[c] \in SafeFenced \cup SafeSigner
    BY <1>8, Groups DEF Finish, After, SafeFenced
  <2> QED
    BY <1>8, <2>1 DEF SafeFenced, SafeSigner, Locking, Guarded, CutOff, Recovery, OfCollectors
<1>9. CASE s \in {"reconcile", "safe_absent"}
  <2>1. stage'[c] \in {"safe_fence", "safe_restore", "revoke"}
    BY <1>9 DEF Finish, After, ToSafe, ToRestore
  <2>2. stage'[c] = "revoke" => Accounted(c)'
    BY <1>9 DEF Finish, After, ToSafe, ToRestore
  <2> QED
    BY <1>9, <2>1, <2>2 DEF Locking, Guarded, CutOff, Recovery, OfCollectors
<1>10. CASE s = "safe_restore"
  <2>1. stage'[c] = "revoke"
    BY <1>10, Groups DEF Finish, After
  <2> QED
    BY <1>10, <2>1, Gained DEF Locking, Guarded, CutOff, Recovery, OfCollectors
<1>11. CASE s = "revoke"
  <2>1. stage'[c] \in {"release", "ended"}
    BY <1>11 DEF Finish, After, ToRelease
  <2>2. stage'[c] = "release" => unconfirmed[c] = {}
    BY <1>11 DEF Finish, After, ToRelease
  <2>3. token[c] = "revoked"
    BY <1>11 DEF Ends
  <2> QED
    BY <1>11, <2>1, <2>2, <2>3, Gained DEF Locking, Guarded, CutOff, Recovery, OfCollectors
<1>12. CASE s = "release"
  <2>1. stage'[c] = "ended"
    BY <1>12, Groups DEF Finish, After
  <2> QED
    BY <1>12, <2>1, Gained DEF Locking, Guarded, CutOff, Recovery, OfCollectors
<1>13. CASE s \in OfCollectors
  <2>1. stage'[c] \in {"acquire", "settle", "release", "ended"}
    BY <1>13, Groups DEF Finish, After, OfCollectors
  <2>2. c \in Collector /\ c \notin Ceremony
    BY <1>13 DEF Id
  <2>3. s \notin {"predelete", "restore", "safe_restore"}
    BY <1>13 DEF OfCollectors
  <2>4. "role_delete_attempted" \notin f /\ "role_restored" \notin f
    BY <1>2, <2>2, <2>3, Gained
  <2>5. stage'[c] \notin Guarded \cup CutOff \cup Recovery \cup {"collect", "revoke"}
    BY <2>1 DEF Guarded, CutOff, Recovery
  <2>6. stage'[c] \in OfCollectors \cup {"acquire", "release", "ended", "dead"}
    BY <2>1 DEF OfCollectors
  <2> QED
    BY <2>2, <2>4, <2>5, <2>6
<1> QED
  BY <1>2, <1>4, <1>5, <1>6, <1>7, <1>8, <1>9, <1>10, <1>11, <1>12, <1>13
  DEF Stage, Body, Final, SafeSigner

(* And after a failure.                                                      *)
LEMMA BreaksFounded ==
  ASSUME LocalTypes, NEW c \in Id, Founded(c), Breaks(c), TokensKept
  PROVE  Founded(c)'
<1> DEFINE s == stage[c]
           f == flags[c]
           u == unconfirmed[c] \cup Doubt(s)
<1> USE DEF TokensKept, Founded, Disarmed, Accounted, Attempted
<1>1. CASE Die(c)
  <2>1. stage'[c] = "dead" /\ flags' = flags /\ unconfirmed' = unconfirmed
    BY <1>1 DEF Die, LocalTypes
  <2> QED
    BY <2>1 DEF Locking, Guarded, CutOff, Recovery, OfCollectors
<1>2. CASE Raise(c)
  <2>1. flags' = flags /\ unconfirmed'[c] = u /\ (\A t : Go(c, t) => stage'[c] = t)
    BY <1>2 DEF Raise, Go, LocalTypes
  <2>2. \A g : ToRestore(g) = "revoke" /\ "role_delete_attempted" \in g => "role_restored" \in g
    BY DEF ToRestore
  <2>3. \A g : ToRestore(g) \in {"safe_restore", "revoke"}
    BY DEF ToRestore
  <2>4. \A g : \/ ToSafe(g) = "safe_fence" \/ ToSafe(g) = ToRestore(g)
    BY DEF ToSafe
  <2>5. \A g : ToCleanup(g) = "reconcile" \/ ToCleanup(g) = ToSafe(g)
    BY DEF ToCleanup
  <2>6. s = "revoke" => ToRelease(f, u) = "ended"
    BY DEF ToRelease, Doubt, Doubts
  <2>7. s = "safe_restore" => "role" \in u
    BY DEF Doubt, Doubts
  <2>8. CASE \/ s \in SafeSigner /\ Go(c, ToRestore(f))
             \/ s = "reconcile" /\ Go(c, ToSafe(f))
             \/ c \in Ceremony /\ Go(c, ToCleanup(f))
    <3>1. stage'[c] \in {"reconcile", "safe_fence", "safe_restore", "revoke"}
      BY <2>8, <2>1, <2>3, <2>4, <2>5
    <3>2. stage'[c] = "revoke" => stage'[c] = ToRestore(f)
      BY <2>8, <2>1, <2>3, <2>4, <2>5
    <3>3. c \in Ceremony
      BY <2>8 DEF SafeSigner, OfCollectors, Id
    <3> QED
      BY <3>1, <3>2, <3>3, <2>1, <2>2
      DEF Locking, Guarded, CutOff, Recovery, OfCollectors
  <2>9. CASE \/ s \in SafeFenced /\ Go(c, "safe_signer")
             \/ s = "safe_restore" /\ Go(c, "revoke")
             \/ s = "revoke" /\ Go(c, ToRelease(f, u))
    BY <2>9, <2>1, <2>6, <2>7
    DEF SafeFenced, Locking, Guarded, CutOff, Recovery, OfCollectors
  <2>10. CASE \/ s \in {"release", "settle", "completed"} /\ Go(c, "ended")
              \/ s \in {"acquire", "collect"} /\ c \in Collector /\ Go(c, "settle")
    <3>1. stage'[c] = "ended" \/ (stage'[c] = "settle" /\ c \in Collector /\ c \notin Ceremony)
      BY <2>10, <2>1
    <3>2. stage'[c] \notin Locking \cup Guarded \cup CutOff \cup Recovery \cup {"collect", "revoke", "release"}
      BY <3>1 DEF Locking, Guarded, CutOff, Recovery
    <3>3. /\ c \in Ceremony => stage'[c] \notin OfCollectors
          /\ stage'[c] \in OfCollectors \cup {"acquire", "release", "ended", "dead"}
      BY <3>1 DEF OfCollectors
    <3> HIDE DEF u
    <3> QED
      BY <3>2, <3>3, <2>1
  <2> QED
    BY <1>2, <2>8, <2>9, <2>10 DEF Raise
<1> QED
  BY <1>1, <1>2 DEF Breaks

(* The same for a step within a stage, and for the invocations not involved. *)
LEMMA TurnsFounded ==
  ASSUME LocalTypes, NEW c \in Id, Founded(c), Turns(c), TokensKept
  PROVE  Founded(c)'
BY DEF Turns, Turn, Founded, Disarmed, Accounted, Attempted, TokensKept

LEMMA KeptFounded ==
  ASSUME NEW c \in Id, Founded(c), TokensKept, stage'[c] = stage[c], flags'[c] = flags[c],
         unconfirmed'[c] = unconfirmed[c]
  PROVE  Founded(c)'
BY DEF Founded, Disarmed, Accounted, Attempted, TokensKept

(* What one step does to one invocation.                                     *)
Moves(c) == Ends(c) \/ Turns(c) \/ Breaks(c)

(* The local part of the invariant survives whatever one invocation does.    *)
LEMMA MovesFounded ==
  ASSUME LocalTypes, NEW c \in Id, Moves(c), TokensKept,
         \A d \in Id : Founded(d) /\ Asking(d)
  PROVE  LocalTypes' /\ \A d \in Id : Founded(d)' /\ Asking(d)'
<1>1. LocalTypes'
  <2>1. CASE Ends(c)
    <3> PICK g \in {{}, {"lock_owned"}} : Finish(c, g)
      BY <2>1 DEF Ends
    <3> g \in SUBSET Flag
      BY DEF Flag
    <3> QED
      BY FinishTypes
  <2>2. CASE Turns(c)
    BY <2>2 DEF Turns, Turn, LocalTypes
  <2>3. CASE Raise(c)
    BY <2>3, RaiseTypes
  <2>4. CASE Die(c)
    <3> "dead" \in Stage
      BY DEF Stage
    <3> QED
      BY <2>4 DEF Die, LocalTypes
  <2> QED
    BY <2>1, <2>2, <2>3, <2>4 DEF Moves, Breaks
<1>2. \A d \in Id : Founded(d)'
  <2>1. Founded(c)'
    BY EndsFounded, TurnsFounded, BreaksFounded DEF Moves
  <2>2. \A d \in Id \ {c} : Founded(d)'
    BY Others, KeptFounded DEF Moves
  <2> QED
    BY <2>1, <2>2
<1>3. \A d \in Id : Asking(d)'
  <2>1. \A s : Go(c, s) => Asking(c)' /\ \A d \in Id \ {c} : Asking(d)'
    <3> SUFFICES ASSUME NEW s, Go(c, s)
                 PROVE  Asking(c)' /\ \A d \in Id \ {c} : Asking(d)'
      OBVIOUS
    <3>1. stage'[c] = s /\ call'[c] = IF s = "revoke" THEN "request" ELSE "look"
      BY DEF Go, LocalTypes
    <3>2. \A d \in Id \ {c} : stage'[d] = stage[d] /\ call'[d] = call[d]
      BY DEF Go, LocalTypes
    <3>3. "revoke" \in DOMAIN Unscoped
      BY DEF Unscoped
    <3> QED
      BY <3>1, <3>2, <3>3 DEF Asking, Running
  <2>2. CASE Ends(c)
    <3>1. \E s : Go(c, s)
      BY <2>2 DEF Ends, Finish
    <3> QED
      BY <2>1, <3>1
  <2>3. CASE Raise(c)
    <3>1. \E s : Go(c, s)
      BY <2>3 DEF Raise
    <3> QED
      BY <2>1, <3>1
  <2>4. CASE Die(c)
    BY <2>4 DEF Die, LocalTypes, Asking, Running
  <2>5. CASE Turns(c)
    <3>1. \A d \in Id \ {c} : call'[d] = call[d] /\ stage'[d] = stage[d]
      BY <2>5 DEF Turns, Turn, LocalTypes
    <3>2. stage'[c] = stage[c]
          /\ (call'[c] = "request" => stage[c] \in DOMAIN Scaling \cup DOMAIN Unscoped)
      BY <2>5 DEF Turns, Turn, LocalTypes
    <3> QED
      BY <3>1, <3>2 DEF Asking, Running
  <2> QED
    BY <2>2, <2>3, <2>4, <2>5 DEF Moves, Breaks
<1> QED
  BY <1>1, <1>2, <1>3

(* Who holds the marker after a move held it before, or has just seen itself *)
(* in the marker.                                                            *)
LEMMA MovesHolding ==
  ASSUME LocalTypes, NEW c \in Id, Moves(c)
  PROVE  /\ \A d \in Id : Holding(d)' => Holding(d) \/ (d = c /\ marker = c)
         /\ Turns(c) \/ Breaks(c) => flags' = flags /\ \A d \in Id : Holding(d)' => Holding(d)
<1>1. \A d \in Id \ {c} : Holding(d)' => Holding(d)
  BY Others DEF Holding, Moves
<1>2. Ends(c) => \A d \in Id : Holding(d)' => Holding(d) \/ (d = c /\ marker = c)
  <2> SUFFICES ASSUME Ends(c)
               PROVE  Holding(c)' => Holding(c) \/ marker = c
    BY <1>1
  <2> PICK g \in {{}, {"lock_owned"}} : Finish(c, g) /\ (g = {} \/ marker = c)
    BY DEF Ends
  <2>1. flags'[c] = flags[c] \cup Gain(stage[c]) \cup g
    BY DEF Finish, LocalTypes
  <2>2. stage[c] \in Stage /\ stage[c] \notin {"ended", "dead"}
    BY DEF Ends, Running, LocalTypes
  <2>3. "lock_owned" \in Gain(stage[c]) => marker = c
    BY <2>2, Gained DEF Ends
  <2>4. stage[c] = "release" => stage'[c] = "ended"
    <3>1. stage[c] = "release" => Go(c, "ended")
      BY Groups DEF Finish, After
    <3> QED
      BY <3>1 DEF Go, LocalTypes
  <2> QED
    BY <2>1, <2>2, <2>3, <2>4 DEF Holding
<1>3. Turns(c) => flags' = flags /\ \A d \in Id : Holding(d)' => Holding(d)
  BY DEF Turns, Turn, Holding
<1>4. Breaks(c) => flags' = flags /\ \A d \in Id : Holding(d)' => Holding(d)
  <2> SUFFICES ASSUME Breaks(c)
               PROVE  flags' = flags /\ (Holding(c)' => Holding(c))
    BY <1>1
  <2>1. CASE Raise(c)
    <3>1. stage[c] = "release" => Go(c, "ended")
      BY <2>1 DEF Raise, Body, Locking, Guarded, CutOff, Recovery, SafeFenced, SafeSigner
    <3>2. stage[c] = "release" => stage'[c] = "ended"
      BY <3>1 DEF Go, LocalTypes
    <3>3. Running(c) /\ flags' = flags
      BY <2>1 DEF Breaks, Raise
    <3> QED
      BY <3>2, <3>3 DEF Holding, Running
  <2>2. CASE Die(c)
    BY <2>2 DEF Die, LocalTypes, Holding
  <2> QED
    BY <2>1, <2>2 DEF Breaks
<1> QED
  BY <1>2, <1>3, <1>4 DEF Moves

-----------------------------------------------------------------------------
(* Requests: what a call asks for by its stage, and what a request may do.   *)
(* A request is allowed when its sender is done with what it takes away.     *)
Inv(r) == /\ r \in Requests
          /\ r.kind = "unlock" => Disarmed(r.by) /\ ~Holding(r.by)
          /\ r.kind = "delete" /\ "delete" \notin Late => marker = r.by /\ ~Accounted(r.by)

(* The request of a call at hand is one the invariant allows.               *)
LEMMA RequestAllowed ==
  ASSUME IInv, NEW c \in Id, call[c] = "request", Running(c)
  PROVE  /\ Inv(RequestOf(c)) /\ RequestOf(c).by = c
         /\ RequestOf(c).kind = "unlock" => stage[c] = "release"
         /\ RequestOf(c).kind = "delete" => stage[c] = "delete"
         /\ RequestOf(c).kind = "scale_up" =>
              RequestOf(c).target = "signer" /\ stage[c] \in {"start_denied", "recover"}
<1> DEFINE s == stage[c]
           r == RequestOf(c)
<1>1. s \in DOMAIN Scaling \cup DOMAIN Unscoped /\ Founded(c)
  BY DEF IInv, Asking
<1>2. CASE s \in DOMAIN Scaling
  <2>1. Scaling[s][1] \in Target
    BY <1>2 DEF Scaling, Target
  <2>2. r = [kind |-> IF Scaling[s][2] = 1 THEN "scale_up" ELSE "scale_down",
             by |-> c, target |-> Scaling[s][1]]
    BY <1>2 DEF RequestOf
  <2>3. Scaling[s][2] = 1 => s \in {"start_denied", "recover"} /\ Scaling[s][1] = "signer"
    BY <1>2 DEF Scaling
  <2> QED
    BY <2>1, <2>2, <2>3 DEF Inv, Requests, Kind
<1>3. CASE s \in DOMAIN Unscoped /\ s \notin DOMAIN Scaling
  <2>1. r = [kind |-> Unscoped[s], by |-> c, target |-> None]
    BY <1>3 DEF RequestOf
  <2>2. Unscoped[s] \in Kind
    BY <1>3 DEF Unscoped, Kind
  <2>3. /\ Unscoped[s] = "unlock" => s = "release"
        /\ Unscoped[s] = "delete" => s = "delete"
        /\ Unscoped[s] # "scale_up"
    BY <1>3 DEF Unscoped
  <2>4. r.kind = "unlock" => Disarmed(c) /\ ~Holding(c)
    BY <1>1, <2>1, <2>3 DEF Founded, Holding
  <2>5. r.kind = "delete" => marker = c /\ ~Accounted(c)
    <3>1. "delete" \in CutOff
      BY DEF CutOff
    <3>2. s = "delete" => "lock_owned" \in flags[c] /\ ~Accounted(c)
      BY <1>1, <3>1 DEF Founded, Accounted
    <3> QED
      BY <2>1, <2>3, <3>2 DEF IInv, ExclusiveControl, Holding
  <2> QED
    BY <2>1, <2>2, <2>3, <2>4, <2>5 DEF Inv, Requests
<1> QED
  BY <1>1, <1>2, <1>3

(* So is a request that is still under way.                                 *)
LEMMA LateAllowed ==
  ASSUME IInv, NEW r \in late
  PROVE  Inv(r)
<1>1. r \in Requests /\ r.kind \in Late
  BY DEF IInv, TypeOK, LateFounded
<1>2. r.kind = "unlock" => Disarmed(r.by) /\ ~Holding(r.by)
  BY DEF IInv, LateFounded, Holding
<1> QED
  BY <1>1, <1>2 DEF Inv

(* A new resourceVersion only takes copies and requests away.                *)
LEMMA TouchTypes ==
  ASSUME TypeOK, NEW t, NEW rest \in SUBSET late, Touch(t, rest)
  PROVE  seen' \in [Id -> Target \cup {None}] /\ late' \subseteq late
BY DEF Touch, TypeOK

(* What a request may change of the marker and the role.                     *)
Changes(r) == \/ marker = None /\ marker' = r.by /\ role' = role
              \/ r.kind = "unlock" /\ marker = r.by /\ marker' = None /\ role' = role
              \/ r.kind = "delete" /\ marker' = marker /\ role' = "absent"
              \/ marker' = marker /\ role' = "exact"

(* What any request may do to the cluster and to Vault.                      *)
LEMMA EffectTypes ==
  ASSUME TypeOK, NEW r \in Requests, NEW rest \in SUBSET late, Effect(r, rest)
  PROVE  /\ marker' \in Id \cup {None} /\ replicas' \in [Target -> 0 .. 1] /\ pods' = pods
         /\ role' \in {"exact", "absent"} /\ token' \in [Id -> {"live", "revoked", "none"}]
         /\ late' \subseteq late /\ seen' \in [Id -> Target \cup {None}] /\ TokensKept
         /\ UNCHANGED <<marker, role>> \/ Changes(r)
<1>0. r.by \in Id
  BY DEF Requests
<1>1. CASE Marks(r) /\ late' = rest /\ UNCHANGED <<replicas, role, token, seen>>
  BY <1>0, <1>1 DEF Changes, Marks, TypeOK, TokensKept, Effect
<1>2. CASE Scales(r, rest) /\ UNCHANGED <<marker, role, token>>
  <2>1. replicas' \in [Target -> 0 .. 1]
    <3> DEFINE n == IF r.kind = "scale_up" THEN 1 ELSE 0
    <3>1. replicas' = [replicas EXCEPT ![r.target] = n]
      BY <1>2 DEF Scales
    <3>2. n \in 0 .. 1 /\ replicas \in [Target -> 0 .. 1]
      BY DEF TypeOK
    <3> QED
      BY <3>1, <3>2
  <2>2. seen' \in [Id -> Target \cup {None}] /\ late' \subseteq late
    BY <1>2, TouchTypes DEF Scales
  <2>3. pods' = pods
    BY DEF Effect
  <2> QED
    BY <1>2, <2>1, <2>2, <2>3 DEF TypeOK, TokensKept
<1>3. CASE Configures(r) /\ late' = rest /\ UNCHANGED <<marker, replicas, seen>>
  BY <1>0, <1>3 DEF Changes, Configures, TypeOK, TokensKept, Effect
<1> QED
  BY <1>1, <1>2, <1>3 DEF Effect

-----------------------------------------------------------------------------
(* The kinds of step: a move of one invocation that leaves the cluster and   *)
(* Vault alone, its request carried out or delayed, a late request that      *)
(* arrives, and the rest.                                                    *)
Quiet(c) == Moves(c) /\ UNCHANGED cluster /\ seen' \in [Id -> Target \cup {None}]
Performs(c) == /\ call[c] = "request" /\ Running(c)
               /\ Turns(c) \/ Breaks(c)
               /\ Effect(RequestOf(c), late)
Background == /\ UNCHANGED <<marker, replicas, role, local>> /\ TokensKept /\ late' \subseteq late
              /\ pods' \in [Target -> PodState] /\ token' \in [Id -> {"live", "revoked", "none"}]
              /\ seen' \in [Id -> Target \cup {None}]
              /\ \A t \in Target : replicas[t] = 0 /\ pods[t] = "none" => pods'[t] = "none"
              /\ pods'["signer"] = "ready" => pods["signer"] = "ready" \/ role = "exact"

LEMMA Unchecked ==
  ASSUME NEW c \in Id,
         stage[c] \in {"acquire", "restore", "safe_restore", "reconcile", "settle", "revoke",
                       "release", "delete"}
  PROVE  Checked(c)
BY DEF Checked, Scaling

(* Most stages end without a condition on the marker, the role or the token. *)
LEMMA PlainEnd ==
  ASSUME TypeOK, NEW c \in Id, Finish(c, {}), UNCHANGED <<cluster, seen>>, Checked(c),
         stage[c] \notin {"ended", "dead", "acquire", "predelete", "restore", "safe_restore", "revoke"}
  PROVE  Quiet(c)
BY DEF Quiet, Moves, Ends, Running, TypeOK

(* The reads that decide whether a request is made.                          *)
LEMMA Looks ==
  ASSUME TypeOK, NEW c \in Id,
         SeeNoMarker(c) \/ SeeReplicas(c) \/ SeeRole(c) \/ SeeRoleToRestore(c) \/ SeeMarker(c)
  PROVE  Quiet(c)
<1> DEFINE Asks == /\ Turn(c, "request")
                   /\ stage[c] \in DOMAIN Scaling \cup DOMAIN Unscoped
                   /\ stage[c] \notin {"ended", "dead"}
<1>1. ASSUME Asks, UNCHANGED cluster, seen' \in [Id -> Target \cup {None}]
      PROVE  Quiet(c)
  BY <1>1 DEF Quiet, Moves, Turns, Running
<1>2. seen \in [Id -> Target \cup {None}]
  BY DEF TypeOK
<1>3. CASE SeeNoMarker(c)
  BY <1>1, <1>2, <1>3 DEF SeeNoMarker, At, Unscoped
<1>4. CASE SeeReplicas(c)
  <2> DEFINE target == Scaling[stage[c]][1]
  <2>1. stage[c] \in DOMAIN Scaling /\ target \in Target
    BY <1>4 DEF SeeReplicas, Scaling, Target
  <2>2. stage[c] \notin {"ended", "dead", "acquire", "predelete", "restore", "safe_restore", "revoke"}
    BY <2>1 DEF Scaling
  <2>3. CASE replicas[target] = Scaling[stage[c]][2] /\ Finish(c, {}) /\ UNCHANGED seen
    <3>1. Checked(c)
      BY <2>1, <2>3 DEF Checked, Scaling
    <3> QED
      BY <1>4, <2>2, <2>3, <3>1, PlainEnd DEF SeeReplicas
  <2>4. CASE Turn(c, "request") /\ seen' = [seen EXCEPT ![c] = target]
    BY <1>1, <1>2, <1>4, <2>1, <2>2, <2>4 DEF SeeReplicas
  <2> QED
    BY <1>4, <2>3, <2>4 DEF SeeReplicas
<1>5. CASE SeeRole(c)
  BY <1>1, <1>2, <1>5 DEF SeeRole, At, Unscoped
<1>6. CASE SeeRoleToRestore(c)
  <2>1. CASE role = "exact" /\ Finish(c, {})
    BY <1>2, <1>6, <2>1, Unchecked DEF SeeRoleToRestore, Quiet, Moves, Ends, Running
  <2>2. CASE Turn(c, "request")
    BY <1>1, <1>2, <1>6, <2>2 DEF SeeRoleToRestore, Unscoped
  <2> QED
    BY <1>6, <2>1, <2>2 DEF SeeRoleToRestore
<1>7. CASE SeeMarker(c)
  <2>1. CASE Finish(c, {})
    BY <1>7, <2>1, PlainEnd, Unchecked DEF SeeMarker, At
  <2>2. CASE Turn(c, "request")
    BY <1>1, <1>2, <1>7, <2>2 DEF SeeMarker, At, Unscoped
  <2> QED
    BY <1>7, <2>1, <2>2 DEF SeeMarker
<1> QED
  BY <1>3, <1>4, <1>5, <1>6, <1>7

(* The reads that confirm what was asked for.                                *)
LEMMA Readbacks ==
  ASSUME TypeOK, NEW c \in Id,
         \/ Acquired(c) \/ Scaled(c) \/ Deleted(c) \/ Restored(c) \/ Reconcile(c)
         \/ Revoked(c) \/ Released(c)
  PROVE  Quiet(c)
<1>1. seen \in [Id -> Target \cup {None}]
  BY DEF TypeOK
<1>2. CASE Acquired(c)
  BY <1>1, <1>2, Unchecked DEF Acquired, At, Quiet, Moves, Ends, Running
<1>3. CASE Scaled(c)
  <2>1. Checked(c)
    BY <1>3 DEF Scaled, Checked, Scaling
  <2> QED
    BY <1>3, <2>1, PlainEnd DEF Scaled, Scaling
<1>4. CASE Deleted(c)
  BY <1>4, PlainEnd, Unchecked DEF Deleted, At
<1>5. CASE Restored(c)
  BY <1>1, <1>5, Unchecked DEF Restored, Quiet, Moves, Ends, Running
<1>6. CASE Reconcile(c)
  <2>1. stage[c] \in {"reconcile", "settle"}
    BY <1>6 DEF Reconcile
  <2>2. \E g \in {{}, {"lock_owned"}} : Finish(c, g) /\ (g = {} \/ marker = c)
    BY <1>6 DEF Reconcile
  <2> QED
    BY <1>1, <1>6, <2>1, <2>2, Unchecked DEF Reconcile, Quiet, Moves, Ends, Running
<1>7. CASE Revoked(c)
  BY <1>1, <1>7, Unchecked DEF Revoked, At, Quiet, Moves, Ends, Running
<1>8. CASE Released(c)
  BY <1>8, PlainEnd, Unchecked DEF Released, At
<1> QED
  BY <1>2, <1>3, <1>4, <1>5, <1>6, <1>7, <1>8

(* The reads that only check.                                                *)
LEMMA Checks ==
  ASSUME TypeOK, NEW c \in Id,
         \/ AdministratorReady(c) \/ Capture(c) \/ RunningBaseline(c) \/ FreshFence(c)
         \/ SignerStopped(c) \/ Predelete(c) \/ Denied(c) \/ Continuity(c)
         \/ AuditChain(c) \/ NoPods(c) \/ CompletedCeremony(c)
  PROVE  Quiet(c)
<1>1. Finish(c, {}) /\ UNCHANGED <<cluster, seen>>
  BY DEF AdministratorReady, Capture, RunningBaseline, FreshFence, SignerStopped, Predelete,
         Denied, Continuity, AuditChain, NoPods, CompletedCeremony
<1>2. stage[c] \notin {"ended", "dead", "acquire", "restore", "safe_restore", "revoke"}
  BY DEF AdministratorReady, Capture, RunningBaseline, FreshFence, SignerStopped, Predelete,
         Denied, Continuity, AuditChain, NoPods, CompletedCeremony, At
<1>3. stage[c] = "predelete" => SignerAbsent /\ Quiesced
  BY DEF AdministratorReady, Capture, RunningBaseline, FreshFence, SignerStopped, Predelete,
         Denied, Continuity, AuditChain, NoPods, CompletedCeremony, At
<1>4. Checked(c)
  BY DEF AdministratorReady, Capture, RunningBaseline, FreshFence, SignerStopped, Predelete,
         Denied, Continuity, AuditChain, NoPods, CompletedCeremony, At, Checked, Scaling, Target
<1>5. Running(c) /\ Ends(c)
  BY <1>1, <1>2, <1>3, <1>4 DEF Ends, Running
<1> QED
  BY <1>1, <1>5 DEF Quiet, Moves, TypeOK

(* There is no other kind of step.                                           *)
LEMMA Steps ==
  ASSUME TypeOK, Next \/ UNCHANGED vars
  PROVE  \/ \E c \in Id : Quiet(c) \/ Performs(c) \/ Delayed(c)
         \/ \E r \in late : Arrives(r)
         \/ Background
<1>1. ASSUME NEW c \in Id, Step(c)
      PROVE  Quiet(c) \/ Performs(c) \/ Delayed(c) \/ Background
  <2>1. CASE Answered(c)
    <3>1. Turns(c)
      BY <2>1 DEF Answered, Turns
    <3> QED
      BY <2>1, <3>1 DEF Answered, Performs
  <2>2. CASE Unanswered(c)
    BY <2>2 DEF Unanswered, Performs, Breaks
  <2>3. CASE Fail(c) \/ Kill(c)
    BY <2>3 DEF Fail, Kill, Quiet, Moves, Breaks, TypeOK
  <2>4. CASE CleanupRoot(c)
    BY <2>4 DEF CleanupRoot, Background, TokensKept, TypeOK, local
  <2> QED
    BY <1>1, <2>1, <2>2, <2>3, <2>4, Looks, Readbacks, Checks DEF Step
<1>2. CASE \E t \in Target : PodStarts(t) \/ PodReady(t) \/ PodStops(t)
  <2> PICK t \in Target : PodStarts(t) \/ PodReady(t) \/ PodStops(t)
    BY <1>2
  <2>1. /\ Touch(t, late) /\ UNCHANGED <<marker, replicas, role, token, local>>
        /\ \E p \in PodState : pods' = [pods EXCEPT ![t] = p]
    BY DEF PodStarts, PodReady, PodStops, PodState
  <2>2. pods' \in [Target -> PodState] /\ pods \in [Target -> PodState]
    BY <2>1 DEF TypeOK
  <2>3. \A u \in Target : replicas[u] = 0 /\ pods[u] = "none" => pods'[u] = "none"
    BY <2>2 DEF PodStarts, PodReady, PodStops
  <2>4. pods'["signer"] = "ready" => pods["signer"] = "ready" \/ role = "exact"
    BY <2>2 DEF PodStarts, PodReady, PodStops, Target
  <2> QED
    BY <2>1, <2>2, <2>3, <2>4, TouchTypes DEF Background, TokensKept, TypeOK
<1>3. CASE LoginDenied
  <2>1. /\ pods' \in [Target -> PodState]
        /\ \A u \in Target : replicas[u] = 0 /\ pods[u] = "none" => pods'[u] = "none"
        /\ pods'["signer"] = "ready" => pods["signer"] = "ready" \/ role = "exact"
    BY <1>3 DEF LoginDenied, TypeOK, PodState, Target
  <2> QED
    BY <1>3, <2>1 DEF LoginDenied, Background, TokensKept, TypeOK
<1>4. CASE \E r \in late : Dropped(r)
  BY <1>4 DEF Dropped, Background, TokensKept, TypeOK
<1>5. CASE UNCHANGED vars
  BY <1>5 DEF vars, cluster, Background, TokensKept, TypeOK
<1> QED
  BY <1>1, <1>2, <1>3, <1>4, <1>5 DEF Next, Environment

-----------------------------------------------------------------------------
(* The set of late requests stays finite and within its bound.               *)
LEMMA FewerLate ==
  ASSUME TypeOK, late' \subseteq late
  PROVE  late' \subseteq Requests /\ IsFiniteSet(late') /\ Cardinality(late') <= MaxLate
<1>1. IsFiniteSet(late) /\ late \subseteq Requests /\ Cardinality(late) <= MaxLate
  BY DEF TypeOK
<1>2. IsFiniteSet(late') /\ Cardinality(late') <= Cardinality(late)
  BY <1>1, FS_Subset
<1>3. Cardinality(late) \in Nat /\ Cardinality(late') \in Nat
  BY <1>1, <1>2, FS_CardinalityType
<1> QED
  BY <1>1, <1>2, <1>3

LEMMA OneMoreLate ==
  ASSUME TypeOK, NEW r \in Requests, Cardinality(late) < MaxLate, late' = late \cup {r}
  PROVE  late' \subseteq Requests /\ IsFiniteSet(late') /\ Cardinality(late') <= MaxLate
<1>1. IsFiniteSet(late) /\ late \subseteq Requests
  BY DEF TypeOK
<1>2. /\ IsFiniteSet(late \cup {r})
      /\ Cardinality(late \cup {r}) \in {Cardinality(late), Cardinality(late) + 1}
  BY <1>1, FS_AddElement
<1>3. Cardinality(late) \in Nat /\ MaxLate \in Nat
  BY <1>1, FS_CardinalityType
<1> QED
  BY <1>1, <1>2, <1>3

(* The parts of the invariant that relate the marker, the role and the late  *)
(* requests to the local variables, after a change at the cluster or at      *)
(* Vault and a move of at most one invocation.                               *)
LEMMA MarkerKept ==
  ASSUME IInv, TypeOK',
         UNCHANGED <<marker, role>> \/ \E r \in Requests : Inv(r) /\ Changes(r),
         UNCHANGED flags, \A d \in Id : Holding(d)' => Holding(d)
  PROVE  ExclusiveControl' /\ RoleFounded'
<1> USE DEF IInv
<1>0. (\A d \in Id : Accounted(d)' <=> Accounted(d)) /\ None \notin Id
  BY DEF Accounted, Attempted
<1>1. CASE UNCHANGED <<marker, role>>
  BY <1>0, <1>1 DEF ExclusiveControl, RoleFounded
<1>2. ASSUME NEW r \in Requests, Inv(r), Changes(r)
      PROVE  ExclusiveControl' /\ RoleFounded'
  <2>0. r.by \in Id
    BY DEF Requests
  <2>1. CASE marker = None /\ marker' = r.by /\ role' = role
    BY <1>0, <2>1 DEF ExclusiveControl, RoleFounded
  <2>2. CASE r.kind = "unlock" /\ marker = r.by /\ marker' = None /\ role' = role
    BY <1>2, <2>0, <2>2 DEF ExclusiveControl, RoleFounded, Inv, Disarmed
  <2>3. CASE r.kind = "delete" /\ marker' = marker /\ role' = "absent"
    BY <1>0, <1>2, <2>0, <2>3 DEF ExclusiveControl, RoleFounded, Inv
  <2>4. CASE marker' = marker /\ role' = "exact"
    BY <2>4 DEF ExclusiveControl, RoleFounded
  <2> QED
    BY <1>2, <2>1, <2>2, <2>3, <2>4 DEF Changes
<1> QED
  BY <1>1, <1>2

(* What late requests may do stays bounded by what their senders have done.  *)
LEMMA LateKept ==
  ASSUME IInv, TokensKept, late' \subseteq late,
         \A d \in Id : stage[d] \in {"ended", "dead"} =>
                         stage'[d] = stage[d] /\ flags'[d] = flags[d]
  PROVE  LateFounded'
<1> SUFFICES ASSUME NEW r \in late'
             PROVE  /\ r.kind \in Late
                    /\ r.kind = "unlock" => stage'[r.by] \in {"ended", "dead"} /\ Disarmed(r.by)'
  BY DEF LateFounded
<1>1. r \in late /\ r.by \in Id
  BY DEF IInv, TypeOK, Requests
<1>2. r.kind \in Late /\ (r.kind = "unlock" => stage[r.by] \in {"ended", "dead"} /\ Disarmed(r.by))
  BY <1>1 DEF IInv, LateFounded
<1> QED
  BY <1>1, <1>2 DEF Disarmed, Accounted, Attempted, TokensKept

(* An invocation that is over stays as it is.                                *)
LEMMA MovesOver ==
  ASSUME LocalTypes, NEW c \in Id, Moves(c)
  PROVE  \A d \in Id : stage[d] \in {"ended", "dead"} =>
                         stage'[d] = stage[d] /\ flags'[d] = flags[d]
<1>1. Running(c)
  BY DEF Moves, Ends, Turns, Breaks
<1> QED
  BY <1>1, Others DEF Running, Moves

-----------------------------------------------------------------------------
(* The invariant holds at the start and after every kind of step.            *)
LEMMA InitInvariant ==
  ASSUME Init
  PROVE  IInv
<1> USE DEF Init
<1>1. TypeOK
  <2>1. IsFiniteSet(late) /\ Cardinality(late) <= MaxLate
    BY FS_EmptySet
  <2>2. /\ replicas \in [Target -> 0 .. 1] /\ pods \in [Target -> PodState]
        /\ token \in [Id -> {"live", "revoked", "none"}]
    BY DEF PodState
  <2>3. stage \in [Id -> Stage] /\ call \in [Id -> {"look", "request", "readback"}]
    BY DEF Stage, Body, Locking, OfCollectors
  <2>4. /\ flags \in [Id -> SUBSET Flag] /\ unconfirmed \in [Id -> SUBSET Cleanup]
        /\ seen \in [Id -> Target \cup {None}]
    OBVIOUS
  <2> QED
    BY <2>1, <2>2, <2>3, <2>4 DEF TypeOK, Requests
<1>2. ExclusiveControl /\ LateFounded /\ RoleFounded
  BY DEF ExclusiveControl, Holding, LateFounded, RoleFounded
<1>3. \A c \in Id : Founded(c) /\ Asking(c)
  BY DEF Founded, Asking, Attempted, Guarded, CutOff, Recovery, Locking, OfCollectors, Id
<1> QED
  BY <1>1, <1>2, <1>3 DEF IInv

LEMMA LocalOfInvariant ==
  ASSUME IInv
  PROVE  LocalTypes /\ TypeOK
BY DEF IInv, TypeOK, LocalTypes

LEMMA QuietInvariant ==
  ASSUME IInv, NEW c \in Id, Quiet(c)
  PROVE  IInv'
<1> USE LocalOfInvariant
<1>1. Moves(c) /\ UNCHANGED cluster
  BY DEF Quiet
<1>2. TokensKept
  BY <1>1 DEF cluster, TokensKept
<1>3. LocalTypes' /\ \A d \in Id : Founded(d)' /\ Asking(d)'
  BY <1>1, <1>2, MovesFounded DEF IInv
<1>4. TypeOK'
  BY <1>1, <1>3 DEF TypeOK, LocalTypes, Quiet, cluster
<1>5. ExclusiveControl'
  BY <1>1, MovesHolding DEF IInv, ExclusiveControl, cluster
<1>6. LateFounded'
  BY <1>1, <1>2, MovesOver, LateKept DEF cluster
<1>7. RoleFounded'
  <2>1. SUFFICES ASSUME role = "absent", "delete" \notin Late
                 PROVE  \E d \in Id : marker = d /\ ~Accounted(d)'
    BY <1>1 DEF RoleFounded, cluster
  <2>2. PICK d \in Id : marker = d /\ ~Accounted(d)
    BY <2>1 DEF IInv, RoleFounded
  <2>3. flags'[d] = flags[d] \/ "role_restored" \notin flags'[d]
    <3>1. CASE d = c /\ Ends(c)
      <4> PICK g \in {{}, {"lock_owned"}} : Finish(c, g)
        BY <3>1 DEF Ends
      <4>1. flags'[c] = flags[c] \cup Gain(stage[c]) \cup g
        BY DEF Finish, LocalTypes
      <4>2. stage[c] \in Stage \ {"restore", "safe_restore"}
        BY <2>1, <3>1 DEF Ends, LocalTypes
      <4> QED
        BY <2>2, <3>1, <4>1, <4>2, Gained DEF Accounted
    <3>2. CASE d # c
      BY <1>1, <3>2, Others DEF Moves
    <3>3. CASE Turns(c) \/ Breaks(c)
      BY <3>3, MovesHolding DEF Moves
    <3> QED
      BY <1>1, <3>1, <3>2, <3>3 DEF Moves
  <2>4. Attempted(d)'
    <3>1. flags[d] \subseteq flags'[d]
      <4>1. CASE d = c /\ Ends(c)
        BY <4>1 DEF Ends, Finish, LocalTypes
      <4>2. CASE d # c
        BY <1>1, <4>2, Others DEF Moves
      <4>3. CASE Turns(c) \/ Breaks(c)
        BY <4>3, MovesHolding DEF Moves
      <4> QED
        BY <1>1, <4>1, <4>2, <4>3 DEF Moves
    <3> QED
      BY <2>2, <3>1 DEF Accounted, Attempted
  <2> QED
    BY <2>2, <2>3, <2>4 DEF Accounted, Attempted
<1> QED
  BY <1>3, <1>4, <1>5, <1>6, <1>7 DEF IInv

LEMMA PerformsInvariant ==
  ASSUME IInv, NEW c \in Id, Performs(c)
  PROVE  IInv'
<1> USE LocalOfInvariant
<1> DEFINE r == RequestOf(c)
<1>1. /\ Moves(c) /\ UNCHANGED flags
      /\ \A d \in Id : Holding(d)' => Holding(d)
  BY MovesHolding DEF Performs, Moves
<1>2. Inv(r) /\ r \in Requests /\ Effect(r, late)
  BY RequestAllowed DEF Performs, Inv
<1> HIDE DEF r
<1>3. late' \subseteq late /\ TokensKept
  BY <1>2, EffectTypes
<1>4. LocalTypes' /\ \A d \in Id : Founded(d)' /\ Asking(d)'
  BY <1>1, <1>3, MovesFounded DEF IInv
<1>5. TypeOK'
  BY <1>2, <1>3, <1>4, EffectTypes, FewerLate DEF TypeOK, LocalTypes
<1>6. ExclusiveControl' /\ RoleFounded'
  BY <1>1, <1>2, <1>5, EffectTypes, MarkerKept
<1>7. LateFounded'
  BY <1>1, <1>3, MovesOver, LateKept
<1> QED
  BY <1>4, <1>5, <1>6, <1>7 DEF IInv

LEMMA DelayedInvariant ==
  ASSUME IInv, NEW c \in Id, Delayed(c)
  PROVE  IInv'
<1> USE LocalOfInvariant
<1> DEFINE r == RequestOf(c)
<1>1. Breaks(c) /\ Moves(c) /\ call[c] = "request" /\ Running(c)
  BY DEF Delayed, Breaks, Moves
<1>2. UNCHANGED flags /\ \A d \in Id : Holding(d)' => Holding(d)
  BY <1>1, MovesHolding
<1>3. /\ Inv(r) /\ r \in Requests /\ r.by = c
      /\ r.kind = "unlock" => stage[c] = "release"
  BY <1>1, RequestAllowed DEF Inv
<1>4. /\ r.kind \in Late /\ Cardinality(late) < MaxLate /\ late' = late \cup {r}
      /\ UNCHANGED <<marker, replicas, pods, role, token, seen>>
  BY DEF Delayed
<1>5. stage[c] = "release" => stage'[c] \in {"ended", "dead"}
  <2>1. stage[c] = "release" /\ Raise(c) => Go(c, "ended")
    BY DEF Raise, Body, Locking, Guarded, CutOff, Recovery, SafeFenced, SafeSigner
  <2> QED
    BY <1>1, <2>1 DEF Breaks, Go, Die, LocalTypes
<1> HIDE DEF r
<1>6. TokensKept
  BY <1>4 DEF TokensKept
<1>7. LocalTypes' /\ \A d \in Id : Founded(d)' /\ Asking(d)'
  BY <1>1, <1>6, MovesFounded DEF IInv
<1>8. TypeOK'
  BY <1>3, <1>4, <1>7, OneMoreLate DEF TypeOK, LocalTypes
<1>9. ExclusiveControl' /\ RoleFounded'
  BY <1>2, <1>4, <1>8, MarkerKept
<1>10. LateFounded'
  <2> SUFFICES ASSUME NEW q \in late'
               PROVE  /\ q.kind \in Late
                      /\ q.kind = "unlock" => stage'[q.by] \in {"ended", "dead"} /\ Disarmed(q.by)'
    BY DEF LateFounded
  <2>1. CASE q = r
    BY <1>2, <1>3, <1>4, <1>5, <2>1 DEF Inv, Disarmed, Accounted, Attempted
  <2>2. CASE q \in late
    <3>1. q.by \in Id /\ q.kind \in Late
      BY <2>2 DEF IInv, TypeOK, Requests, LateFounded
    <3>2. q.kind = "unlock" => stage[q.by] \in {"ended", "dead"} /\ Disarmed(q.by)
      BY <2>2 DEF IInv, LateFounded
    <3>3. stage[q.by] \in {"ended", "dead"} => stage'[q.by] = stage[q.by]
      BY <1>1, <3>1, MovesOver
    <3> QED
      BY <1>2, <1>4, <3>1, <3>2, <3>3 DEF Disarmed, Accounted, Attempted
  <2> QED
    BY <1>4, <2>1, <2>2
<1> QED
  BY <1>7, <1>8, <1>9, <1>10 DEF IInv

(* An invocation nothing happens to keeps its part of the invariant.         *)
LEMMA StillFounded ==
  ASSUME IInv, UNCHANGED local, TokensKept
  PROVE  /\ LocalTypes' /\ \A d \in Id : Founded(d)' /\ Asking(d)'
         /\ UNCHANGED flags /\ \A d \in Id : Holding(d)' => Holding(d)
<1>1. LocalTypes'
  BY LocalOfInvariant DEF LocalTypes, local
<1>2. \A d \in Id : Founded(d)' /\ Asking(d)'
  BY KeptFounded DEF IInv, local, Asking, Running
<1> QED
  BY <1>1, <1>2 DEF local, Holding

LEMMA ArrivesInvariant ==
  ASSUME IInv, NEW r \in late, Arrives(r)
  PROVE  IInv'
<1> USE LocalOfInvariant
<1>1. Inv(r) /\ r \in Requests /\ Effect(r, late \ {r}) /\ UNCHANGED local
  BY LateAllowed DEF Arrives, Inv
<1>2. late' \subseteq late /\ TokensKept
  BY <1>1, EffectTypes
<1>3. TypeOK'
  BY <1>1, <1>2, StillFounded, EffectTypes, FewerLate DEF TypeOK, LocalTypes
<1>4. ExclusiveControl' /\ RoleFounded'
  BY <1>1, <1>2, <1>3, StillFounded, EffectTypes, MarkerKept
<1>5. LateFounded'
  BY <1>1, <1>2, LateKept DEF local
<1> QED
  BY <1>1, <1>2, <1>3, <1>4, <1>5, StillFounded DEF IInv

LEMMA BackgroundInvariant ==
  ASSUME IInv, Background
  PROVE  IInv'
<1> USE LocalOfInvariant
<1>1. UNCHANGED <<marker, replicas, role, local>> /\ TokensKept /\ late' \subseteq late
  BY DEF Background
<1>2. TypeOK'
  BY <1>1, StillFounded, FewerLate DEF Background, TypeOK, LocalTypes
<1>3. ExclusiveControl' /\ RoleFounded'
  BY <1>1, <1>2, StillFounded, MarkerKept
<1>4. LateFounded'
  BY <1>1, LateKept DEF local
<1> QED
  BY <1>1, <1>2, <1>3, <1>4, StillFounded DEF IInv

LEMMA NextInvariant ==
  ASSUME IInv, Next \/ UNCHANGED vars
  PROVE  IInv'
BY Steps, LocalOfInvariant, QuietInvariant, PerformsInvariant, DelayedInvariant,
   ArrivesInvariant, BackgroundInvariant

(* The invariant is inductive, for every set of invocations and whatever     *)
(* requests may come late.                                                   *)
THEOREM Inductive == Spec => []IInv
<1>1. Init => IInv
  BY InitInvariant
<1>2. IInv /\ [Next]_vars => IInv'
  BY NextInvariant
<1> QED
  BY <1>1, <1>2, PTL DEF Spec

(* The variables keep their types.                                           *)
THEOREM TypeCorrect == Spec => []TypeOK
<1>1. IInv => TypeOK
  BY DEF IInv
<1> QED
  BY <1>1, Inductive, PTL

(* Exclusive control, for every set of invocations: whoever owns the lock    *)
(* holds the marker, with requests that come late and processes that die.    *)
THEOREM Exclusive == Spec => []ExclusiveControl
<1>1. IInv => ExclusiveControl
  BY DEF IInv
<1> QED
  BY <1>1, Inductive, PTL

(* The marker and the role change only as a request allowed by the invariant *)
(* changes them.                                                             *)
LEMMA MarkerSteps ==
  ASSUME IInv, Next \/ UNCHANGED vars
  PROVE  UNCHANGED <<marker, role>> \/ \E r \in Requests : Inv(r) /\ Changes(r)
<1> USE LocalOfInvariant
<1>1. CASE \E c \in Id : Quiet(c) \/ Delayed(c)
  BY <1>1 DEF Quiet, Delayed, cluster
<1>2. ASSUME NEW c \in Id, Performs(c)
      PROVE  UNCHANGED <<marker, role>> \/ \E r \in Requests : Inv(r) /\ Changes(r)
  <2>1. Inv(RequestOf(c)) /\ RequestOf(c) \in Requests /\ Effect(RequestOf(c), late)
    BY <1>2, RequestAllowed DEF Performs, Inv
  <2> QED
    BY <2>1, EffectTypes
<1>3. ASSUME NEW r \in late, Arrives(r)
      PROVE  UNCHANGED <<marker, role>> \/ \E q \in Requests : Inv(q) /\ Changes(q)
  <2>1. Inv(r) /\ r \in Requests /\ Effect(r, late \ {r})
    BY <1>3, LateAllowed DEF Arrives, Inv
  <2> QED
    BY <2>1, EffectTypes
<1>4. CASE Background
  BY <1>4 DEF Background
<1> QED
  BY <1>1, <1>2, <1>3, <1>4, Steps

(* A marker that is given up is given up by its owner's own request.         *)
LEMMA GivenUp ==
  ASSUME IInv, Next \/ UNCHANGED vars, NEW c \in Id, marker = c, marker' # c
  PROVE  Disarmed(c) /\ marker' = None /\ role' = role
BY MarkerSteps DEF Changes, Inv

(* The root token dies before the marker, for every set of ceremonies and    *)
(* whatever requests come late.                                              *)
THEOREM RootRevoked == Spec => RootRevokedFirst
<1>1. IInv /\ [Next]_vars =>
        (\A c \in Ceremony : marker = c /\ marker' # c => token[c] = "revoked")
  BY GivenUp DEF Disarmed, Id
<1> QED
  BY <1>1, Inductive, PTL DEF Spec, RootRevokedFirst

(* The ceremonies together keep the abstract custody of the role: it is cut  *)
(* only under a marker and the marker is given up only with the role in      *)
(* place, unless a DELETE comes late.                                        *)
THEOREM Implements ==
  ASSUME "delete" \notin Late
  PROVE  Spec => ImplementsCustody
<1>1. Init => Custody!Init
  BY DEF Init, Custody!Init
<1>2. IInv /\ [Next]_vars => [Custody!Next]_<<marker, role>>
  <2> SUFFICES ASSUME IInv, Next \/ UNCHANGED vars
               PROVE  Custody!Next \/ UNCHANGED <<marker, role>>
    BY DEF vars
  <2>1. ASSUME NEW r \in Requests, Inv(r), Changes(r)
        PROVE  Custody!Next \/ UNCHANGED <<marker, role>>
    <3>0. r.by \in Id /\ None \notin Id /\ role \in {"exact", "absent"}
      BY DEF Requests, IInv, TypeOK
    <3>1. CASE marker = None /\ marker' = r.by /\ role' = role
      BY <3>0, <3>1 DEF Custody!Next, Custody!Take
    <3>2. CASE r.kind = "unlock" /\ marker = r.by /\ marker' = None /\ role' = role
      <4>1. role = "exact"
        BY <2>1, <3>0, <3>2 DEF Inv, Disarmed, IInv, RoleFounded
      <4> QED
        BY <3>0, <3>2, <4>1 DEF Custody!Next, Custody!GiveUp
    <3>3. CASE r.kind = "delete" /\ marker' = marker /\ role' = "absent"
      BY <2>1, <3>0, <3>3 DEF Inv, Custody!Next, Custody!Cut
    <3>4. CASE marker' = marker /\ role' = "exact"
      BY <3>0, <3>4 DEF Custody!Next, Custody!Restore
    <3> QED
      BY <2>1, <3>1, <3>2, <3>3, <3>4 DEF Changes
  <2> QED
    BY <2>1, MarkerSteps
<1> QED
  BY <1>1, <1>2, Inductive, PTL DEF Spec, ImplementsCustody, Custody!Spec

-----------------------------------------------------------------------------
(* Isolation of the cut: who has attempted the deletion has found client and *)
(* fence gone, and up to the DELETE itself the signer too.                   *)
Isolation == /\ \A c \in Id : Attempted(c) => Quiesced
             /\ \A c \in Id : stage[c] = "delete" => SignerAbsent
             /\ role = "absent" => Quiesced /\ pods["signer"] # "ready"

(* Nobody comes to the deletion but from the checks right before it.         *)
LEMMA MovesDeletion ==
  ASSUME LocalTypes, NEW c \in Id, Moves(c), NEW d \in Id
  PROVE  /\ Attempted(d)' => Attempted(d) \/ (SignerAbsent /\ Quiesced)
         /\ stage'[d] = "delete" => stage[d] = "delete" \/ (SignerAbsent /\ Quiesced)
<1>1. CASE d # c
  BY <1>1, Others DEF Moves, Attempted
<1>2. CASE d = c /\ Ends(c)
  <2> PICK g \in {{}, {"lock_owned"}} : Finish(c, g)
    BY <1>2 DEF Ends
  <2>1. flags'[c] = flags[c] \cup Gain(stage[c]) \cup g
    BY DEF Finish, LocalTypes
  <2>2. Attempted(c)' => Attempted(c) \/ stage[c] = "predelete"
    BY <2>1, Gained DEF Attempted, LocalTypes
  <2>3. \A s \in DOMAIN After : After[s] = "delete" => s = "predelete"
    BY DEF After
  <2>4. \A t : Go(c, t) => stage'[c] = t
    BY DEF Go, LocalTypes
  <2>5. stage'[c] = "delete" => stage[c] = "predelete"
    BY <2>3, <2>4 DEF Finish, ToSafe, ToRestore, ToRelease
  <2> QED
    BY <1>2, <2>2, <2>5 DEF Ends
<1>3. CASE d = c /\ Turns(c)
  BY <1>3 DEF Turns, Turn, Attempted
<1>4. CASE d = c /\ Raise(c)
  <2>1. \A t : Go(c, t) => stage'[c] = t
    BY DEF Go, LocalTypes
  <2>2. stage'[c] # "delete"
    BY <1>4, <2>1 DEF Raise, ToCleanup, ToSafe, ToRestore, ToRelease
  <2> QED
    BY <1>4, <2>2 DEF Raise, Attempted
<1>5. CASE d = c /\ Die(c)
  BY <1>5 DEF Die, Attempted, LocalTypes
<1> QED
  BY <1>1, <1>2, <1>3, <1>4, <1>5 DEF Moves, Breaks

(* No request brings client or fence back, and only the owner of the marker  *)
(* starts the signer.                                                        *)
LEMMA StillDown ==
  ASSUME TypeOK, NEW r \in Requests, NEW rest, Effect(r, rest), r.kind = "scale_up" => r.target = "signer"
  PROVE  /\ Quiesced => Quiesced'
         /\ r.kind # "scale_up" /\ SignerAbsent => SignerAbsent'
<1>1. pods' = pods
  BY DEF Effect
<1>2. CASE UNCHANGED replicas
  BY <1>1, <1>2 DEF Quiesced, SignerAbsent
<1>3. CASE Scales(r, rest)
  <2>1. \A t \in Target : replicas[t] = 0 /\ ~(r.kind = "scale_up" /\ t = "signer") => replicas'[t] = 0
    BY <1>3 DEF Scales, TypeOK
  <2> QED
    BY <1>1, <2>1 DEF Quiesced, SignerAbsent, Target
<1> QED
  BY <1>2, <1>3 DEF Effect

(* Every step keeps the isolation.                                           *)
LEMMA IsolationKept ==
  ASSUME "delete" \notin Late, "scale_up" \notin Late, IInv, Isolation, Next \/ UNCHANGED vars
  PROVE  Isolation'
<1> USE LocalOfInvariant
<1>1. ASSUME NEW c \in Id, Moves(c), UNCHANGED <<replicas, pods, role>>
      PROVE  Isolation'
  BY <1>1, MovesDeletion DEF Isolation, Quiesced, SignerAbsent, Attempted
<1>2. ASSUME NEW c \in Id, Performs(c)
      PROVE  Isolation'
  <2> DEFINE r == RequestOf(c)
  <2>1. /\ Moves(c) /\ UNCHANGED flags
    BY <1>2, MovesHolding DEF Performs, Moves
  <2>2. /\ Inv(r) /\ r \in Requests /\ Effect(r, late)
        /\ r.kind = "delete" => stage[c] = "delete"
        /\ r.kind = "scale_up" => r.target = "signer" /\ stage[c] \in {"start_denied", "recover"}
    BY <1>2, RequestAllowed DEF Performs, Inv
  <2> HIDE DEF r
  <2>3. Quiesced => Quiesced'
    BY <2>2, StillDown
  <2>4. \A d \in Id : stage'[d] = "delete" => stage[d] = "delete"
    <3>1. Turns(c) => stage' = stage
      BY DEF Turns, Turn
    <3>2. Die(c) => \A d \in Id : stage'[d] \in {stage[d], "dead"}
      BY DEF Die, LocalTypes
    <3>3. Raise(c) => \A d \in Id : stage'[d] = stage[d] \/ stage'[d] # "delete"
      BY DEF Raise, Go, ToCleanup, ToSafe, ToRestore, ToRelease, LocalTypes
    <3> QED
      BY <1>2, <3>1, <3>2, <3>3 DEF Performs, Breaks
  <2>5. ASSUME NEW d \in Id, stage[d] = "delete"
        PROVE  SignerAbsent'
    <3>1. Holding(d)
      BY <2>5 DEF IInv, Founded, Holding, CutOff
    <3>2. stage[c] \in {"start_denied", "recover"} => Holding(c)
      BY DEF IInv, Founded, Holding, CutOff, Recovery
    <3>3. r.kind # "scale_up"
      BY <2>2, <2>5, <3>1, <3>2 DEF IInv, ExclusiveControl
    <3> QED
      BY <2>2, <2>5, <3>3, StillDown DEF Isolation
  <2>6. role' = "absent" => Quiesced' /\ pods'["signer"] # "ready"
    <3>1. pods' = pods
      BY <2>2, EffectTypes
    <3>2. CASE role = "absent"
      BY <2>3, <3>1, <3>2 DEF Isolation
    <3>3. CASE role' = "absent" /\ role # "absent"
      <4>1. r.kind = "delete"
        BY <2>2, <3>3, EffectTypes DEF Changes
      <4>2. Quiesced /\ SignerAbsent
        BY <2>2, <4>1 DEF Isolation, IInv, Founded, CutOff
      <4> QED
        BY <2>3, <3>1, <4>2 DEF SignerAbsent
    <3> QED
      BY <3>2, <3>3
  <2> QED
    BY <2>1, <2>3, <2>4, <2>5, <2>6 DEF Isolation, Attempted
<1>3. ASSUME NEW r \in late, Arrives(r)
      PROVE  Isolation'
  <2>1. /\ r \in Requests /\ Effect(r, late \ {r}) /\ UNCHANGED local
        /\ r.kind \notin {"delete", "scale_up"}
    BY <1>3, LateAllowed DEF Arrives, Inv, IInv, LateFounded
  <2>2. (Quiesced => Quiesced') /\ (SignerAbsent => SignerAbsent')
    BY <2>1, StillDown
  <2>3. pods' = pods /\ (role' = "absent" => role = "absent")
    BY <2>1, EffectTypes DEF Changes
  <2> QED
    BY <2>1, <2>2, <2>3 DEF Isolation, Attempted, local
<1>4. CASE Background
  <2>1. (Quiesced => Quiesced') /\ (SignerAbsent => SignerAbsent')
    BY <1>4 DEF Background, Quiesced, SignerAbsent, Target
  <2> QED
    BY <1>4, <2>1 DEF Background, Isolation, Attempted, local
<1> QED
  BY <1>1, <1>2, <1>3, <1>4, Steps DEF Quiet, cluster, Delayed, Breaks, Moves

(* While the role is cut no client or fence runs and no signer Pod is ready, *)
(* for every set of ceremonies, unless a DELETE or a start of the signer     *)
(* comes late.                                                               *)
THEOREM Isolated ==
  ASSUME "delete" \notin Late, "scale_up" \notin Late
  PROVE  Spec => []CutIsolated
<1>1. Init => Isolation
  BY DEF Init, Isolation, Attempted, Id
<1>2. Isolation /\ IInv /\ [Next]_vars => Isolation'
  BY IsolationKept
<1>3. Isolation => CutIsolated
  BY DEF Isolation, CutIsolated, Quiesced
<1> QED
  BY <1>1, <1>2, <1>3, Inductive, PTL DEF Spec

-----------------------------------------------------------------------------
(* What a ceremony leaves behind: what it has found or brought about by the  *)
(* stage it has come to, as long as the marker is its own.                   *)
Maintained(c) == "maintenance_attempted" \in flags[c]
Probed(c) == "probe_complete" \in flags[c]

(* Maintenance begins after the lock is acquired, and a ceremony that ran to *)
(* its end has nothing before it but the revocation and the release.         *)
Orderly(c) ==
  /\ Maintained(c) => "lock_owned" \in flags[c] /\ c \in Ceremony
  /\ stage[c] \in Locking \cup {"capture"} => ~Maintained(c)
  /\ stage[c] \in (Guarded \ {"capture"}) \cup CutOff \cup Recovery \cup SafeFenced \cup SafeSigner
       => Maintained(c)
  /\ stage[c] \in Recovery => Attempted(c)
  /\ Probed(c) => /\ Maintained(c) /\ Attempted(c)
                  /\ stage[c] \in {"revoke", "release", "ended", "dead"}

(* The marker of a create that comes late belongs to an invocation that has  *)
(* not touched the cluster and no longer will.                               *)
Over == {"reconcile", "safe_restore", "revoke", "release", "settle", "ended", "dead"}
LateCreate == \A r \in late : r.kind = "create" => stage[r.by] \in Over /\ ~Maintained(r.by)

(* No request that is under way changes the signer.                          *)
NoneLate == \A r \in late : r.target # "signer"
Unlocking(c) == stage[c] = "release" \/ \E r \in late : r.kind = "unlock" /\ r.by = c
Stopping == {"stop_fence", "stop_client", "quiesced", "stop_signer"}
Stopped == {"signer_absent", "predelete"} \cup CutOff \cup Recovery

Watched(c) == marker = c /\ Maintained(c) =>
  /\ stage[c] \in Stopping => replicas["signer"] = 1 \/ NoneLate
  /\ stage[c] \in Stopped \/ Probed(c) => NoneLate
  /\ stage[c] \in Recovery \ {"recover"} \/ Probed(c) => replicas["signer"] = 1
  /\ stage[c] \in {"safe_client", "safe_quiesced"} => replicas["fence"] = 0
  /\ stage[c] = "safe_quiesced" => replicas["client"] = 0
  /\ stage[c] \in SafeSigner => Quiesced \/ "fenced" \in unconfirmed[c]
  /\ stage[c] \in {"safe_restore", "revoke"} /\ ~Probed(c) =>
       /\ Quiesced \/ "fenced" \in unconfirmed[c]
       /\ SignerAbsent \/ "signer_stopped" \in unconfirmed[c]
  /\ Unlocking(c) /\ ~Probed(c) => Quiesced /\ SignerAbsent

WInv == IInv /\ Isolation /\ LateCreate /\ \A c \in Id : Orderly(c) /\ Watched(c)

(* Where a stage leads when it ends.                                         *)
LEMMA EndsTo ==
  ASSUME LocalTypes, NEW c \in Id, Ends(c)
  PROVE  /\ stage[c] \in Stage \ {"ended", "dead"}
         /\ unconfirmed'[c] = unconfirmed[c]
         /\ stage[c] \in DOMAIN After => stage'[c] = After[stage[c]]
         /\ stage[c] = "acquire" => stage'[c] = IF c \in Ceremony THEN "capture" ELSE "collect"
         /\ stage[c] = "reconcile" => stage'[c] = ToSafe(flags'[c])
         /\ stage[c] = "safe_absent" => stage'[c] = ToRestore(flags'[c])
         /\ stage[c] = "revoke" => stage'[c] = ToRelease(flags'[c], unconfirmed[c])
         /\ stage[c] = "settle" => stage'[c] \in {"release", "ended"}
<1> PICK g \in {{}, {"lock_owned"}} : Finish(c, g)
  BY DEF Ends
<1>1. flags'[c] = flags[c] \cup Gain(stage[c]) \cup g /\ unconfirmed'[c] = unconfirmed[c]
  BY DEF Finish, LocalTypes
<1>2. \A t : Go(c, t) => stage'[c] = t
  BY DEF Go, LocalTypes
<1>3. stage[c] \in Stage \ {"ended", "dead"}
  BY DEF Ends, Running, LocalTypes
<1> USE <1>1, <1>2 DEF Finish
<1>4. stage[c] \in DOMAIN After => stage'[c] = After[stage[c]]
  BY DEF After
<1>5. stage[c] = "acquire" => stage'[c] = IF c \in Ceremony THEN "capture" ELSE "collect"
  BY DEF After
<1>6. stage[c] = "reconcile" => stage'[c] = ToSafe(flags'[c])
  BY DEF After
<1>7. stage[c] = "safe_absent" => stage'[c] = ToRestore(flags'[c])
  BY DEF After
<1>8. stage[c] = "revoke" => stage'[c] = ToRelease(flags'[c], unconfirmed[c])
  BY DEF After
<1>9. stage[c] = "settle" => stage'[c] \in {"release", "ended"}
  BY DEF After
<1> QED
  BY <1>3, <1>4, <1>5, <1>6, <1>7, <1>8, <1>9

(* Which flags it sets.                                                      *)
LEMMA EndsSet ==
  ASSUME LocalTypes, NEW c \in Id, Ends(c)
  PROVE  /\ flags[c] \subseteq flags'[c]
         /\ Maintained(c)' <=> Maintained(c) \/ stage[c] = "capture"
         /\ Probed(c)' <=> Probed(c) \/ stage[c] = "kept_quiesced"
         /\ Attempted(c)' <=> Attempted(c) \/ stage[c] = "predelete"
<1> PICK g \in {{}, {"lock_owned"}} : Finish(c, g)
  BY DEF Ends
<1>1. flags'[c] = flags[c] \cup Gain(stage[c]) \cup g
  BY DEF Finish, LocalTypes
<1>2. stage[c] \in Stage
  BY DEF LocalTypes
<1>3. \A s \in Stage : "maintenance_attempted" \in Gain(s) <=> s = "capture"
  BY DEF Gain, Gains
<1>4. \A s \in Stage : "probe_complete" \in Gain(s) <=> s = "kept_quiesced"
  BY DEF Gain, Gains
<1>5. \A s \in Stage : "role_delete_attempted" \in Gain(s) <=> s = "predelete"
  BY DEF Gain, Gains
<1> QED
  BY <1>1, <1>2, <1>3, <1>4, <1>5 DEF Maintained, Probed, Attempted

(* Where a failure leads: the finally block goes on with what is next.       *)
LEMMA BreaksTo ==
  ASSUME LocalTypes, NEW c \in Id, Breaks(c)
  PROVE  /\ flags'[c] = flags[c] /\ stage[c] \notin {"ended", "dead"}
         /\ unconfirmed[c] \subseteq unconfirmed'[c]
         /\ \/ stage'[c] = "dead"
            \/ /\ unconfirmed'[c] = unconfirmed[c] \cup Doubt(stage[c])
               /\ \/ stage[c] = "reconcile" /\ stage'[c] = ToSafe(flags[c])
                  \/ stage[c] \in SafeFenced /\ stage'[c] = "safe_signer"
                  \/ stage[c] \in SafeSigner /\ stage'[c] = ToRestore(flags[c])
                  \/ stage[c] = "safe_restore" /\ stage'[c] = "revoke"
                  \/ stage[c] = "revoke" /\ stage'[c] = "ended"
                  \/ stage[c] \in {"release", "settle", "completed"} /\ stage'[c] = "ended"
                  \/ stage[c] \in {"acquire", "collect"} /\ c \in Collector /\ stage'[c] = "settle"
                  \/ stage[c] \in Body /\ c \in Ceremony /\ stage'[c] = ToCleanup(flags[c])
<1>1. \A t : Go(c, t) => stage'[c] = t
  BY DEF Go, LocalTypes
<1>2. stage[c] \notin {"ended", "dead"}
  BY DEF Breaks, Running
<1>3. CASE Die(c)
  BY <1>2, <1>3 DEF Die, LocalTypes
<1>4. CASE Raise(c)
  <2>1. /\ flags'[c] = flags[c]
        /\ unconfirmed'[c] = unconfirmed[c] \cup Doubt(stage[c])
    BY <1>4 DEF Raise, LocalTypes
  <2>2. stage[c] = "revoke" => ToRelease(flags[c], unconfirmed[c] \cup Doubt(stage[c])) = "ended"
    BY DEF ToRelease, Doubt, Doubts
  <2> QED
    BY <1>1, <1>2, <1>4, <2>1, <2>2 DEF Raise
<1> QED
  BY <1>3, <1>4 DEF Breaks

(* The finally block from a given point on.                                  *)
LEMMA Turnings ==
  ASSUME NEW f, NEW u
  PROVE  /\ ToRestore(f) \in {"safe_restore", "revoke"}
         /\ ToSafe(f) = IF "maintenance_attempted" \in f /\ "probe_complete" \notin f
                        THEN "safe_fence" ELSE ToRestore(f)
         /\ ToCleanup(f) \in {"reconcile", ToSafe(f)}
         /\ "lock_owned" \in f => ToCleanup(f) = ToSafe(f)
         /\ ToRelease(f, u) \in {"release", "ended"}
         /\ ToRelease(f, u) = "release" => u = {}
BY DEF ToRestore, ToSafe, ToCleanup, ToRelease

(* Maintenance is as orderly after a move as before.                         *)
LEMMA EndsOrderly ==
  ASSUME LocalTypes, NEW c \in Id, Founded(c), Orderly(c), Ends(c)
  PROVE  Orderly(c)'
<1> DEFINE s == stage[c]
           t == stage'[c]
<1>1. /\ s \in Stage \ {"ended", "dead"} /\ flags[c] \subseteq flags'[c]
      /\ Maintained(c)' <=> Maintained(c) \/ s = "capture"
      /\ Probed(c)' <=> Probed(c) \/ s = "kept_quiesced"
      /\ Attempted(c)' <=> Attempted(c) \/ s = "predelete"
  BY EndsTo, EndsSet
<1> SUFFICES /\ t \in Locking \cup {"capture"} => ~Maintained(c)'
             /\ t \in (Guarded \ {"capture"}) \cup CutOff \cup Recovery \cup SafeFenced \cup SafeSigner
                  => Maintained(c)'
             /\ t \in Recovery => Attempted(c)'
             /\ Probed(c)' => t \in {"revoke", "release", "ended", "dead"}
  <2>1. Maintained(c)' => "lock_owned" \in flags'[c] /\ c \in Ceremony
    <3>1. s = "capture" => c \in Ceremony /\ "lock_owned" \in flags[c]
      BY DEF Founded, Guarded, OfCollectors, Id
    <3> QED
      BY <1>1, <3>1 DEF Orderly
  <2>2. Probed(c)' => Maintained(c)' /\ Attempted(c)'
    BY <1>1 DEF Orderly, Recovery
  <2> QED
    BY <2>1, <2>2 DEF Orderly
<1>2. CASE s \in Locking
  <2>1. t \in {"acquire", "capture", "collect"}
    BY <1>2, EndsTo DEF Locking, After
  <2>2. ~Maintained(c)' /\ ~Probed(c)'
    BY <1>1, <1>2 DEF Orderly, Locking
  <2> QED
    BY <2>1, <2>2 DEF Guarded, CutOff, Recovery, SafeFenced, SafeSigner
<1>3. CASE s \in Guarded
  <2>1. t \in (Guarded \ {"capture"}) \cup {"delete"}
    BY <1>3, EndsTo DEF Guarded, After
  <2>2. Maintained(c)' /\ ~Probed(c)'
    BY <1>1, <1>3 DEF Orderly, Guarded
  <2> QED
    BY <2>1, <2>2 DEF Guarded, CutOff, Recovery, Locking
<1>4. CASE s \in CutOff
  <2>1. t \in CutOff \cup {"recover"}
    BY <1>4, EndsTo DEF CutOff, After
  <2>2. Maintained(c)' /\ Attempted(c)' /\ ~Probed(c)'
    BY <1>1, <1>4 DEF Orderly, CutOff, Founded
  <2> QED
    BY <2>1, <2>2 DEF CutOff, Locking
<1>5. CASE s \in Recovery
  <2>1. IF s = "kept_quiesced" THEN t = "revoke" ELSE t \in Recovery
    BY <1>5, EndsTo DEF Recovery, After
  <2>2. Maintained(c)' /\ Attempted(c)'
    BY <1>1, <1>5 DEF Orderly
  <2>3. Probed(c)' => t = "revoke"
    BY <1>1, <1>5, <2>1 DEF Orderly, Recovery
  <2> QED
    BY <2>1, <2>2, <2>3 DEF Recovery, Locking
<1>6. CASE s \in SafeFenced \cup {"safe_signer"}
  <2>1. t \in SafeFenced \cup SafeSigner
    BY <1>6, EndsTo, Groups DEF After, SafeFenced
  <2>2. Maintained(c)' /\ ~Probed(c)'
    BY <1>1, <1>6 DEF Orderly, SafeFenced, SafeSigner
  <2> QED
    BY <2>1, <2>2 DEF SafeFenced, SafeSigner, Locking, Recovery
<1>7. CASE s \in {"reconcile", "safe_absent"}
  <2>1. /\ t \in {"safe_fence", "safe_restore", "revoke"}
        /\ t = "safe_fence" => Maintained(c)'
    BY <1>7, EndsTo, Turnings DEF Maintained
  <2>2. ~Probed(c)'
    BY <1>1, <1>7 DEF Orderly
  <2> QED
    BY <2>1, <2>2 DEF Locking, Guarded, CutOff, Recovery, SafeFenced, SafeSigner
<1>8. CASE s \in {"safe_restore", "revoke", "release"}
  <2>1. t \in {"revoke", "release", "ended"}
    BY <1>8, EndsTo, Turnings DEF After
  <2> QED
    BY <2>1 DEF Locking, Guarded, CutOff, Recovery, SafeFenced, SafeSigner
<1>9. CASE s \in OfCollectors
  <2>1. t \in {"acquire", "settle", "release", "ended"}
    BY <1>9, EndsTo DEF OfCollectors, After
  <2>2. ~Maintained(c)' /\ ~Probed(c)'
    <3>1. c \notin Ceremony
      BY <1>9 DEF Founded
    <3> QED
      BY <3>1, <1>1, <1>9 DEF Orderly, OfCollectors
  <2> QED
    BY <2>1, <2>2 DEF Locking, Guarded, CutOff, Recovery, SafeFenced, SafeSigner
<1> QED
  BY <1>1, <1>2, <1>3, <1>4, <1>5, <1>6, <1>7, <1>8, <1>9 DEF Stage, Body, Final, SafeSigner

LEMMA BreaksOrderly ==
  ASSUME LocalTypes, NEW c \in Id, Founded(c), Orderly(c), Breaks(c)
  PROVE  Orderly(c)'
<1>1. flags'[c] = flags[c]
  BY BreaksTo
<1>2. \/ stage'[c] \in {"reconcile", "safe_restore", "revoke", "ended", "settle", "dead"}
      \/ stage'[c] \in {"safe_fence", "safe_signer"} /\ Maintained(c)
  <2>1. CASE stage[c] \in SafeFenced /\ stage'[c] = "safe_signer"
    BY <2>1 DEF Orderly
  <2>2. CASE stage'[c] \in {ToSafe(flags[c]), ToRestore(flags[c]), ToCleanup(flags[c])}
    BY <2>2, Turnings DEF Maintained
  <2> QED
    BY <2>1, <2>2, BreaksTo
<1>3. Probed(c) => stage'[c] \in {"revoke", "release", "ended", "dead"}
  <2>1. Probed(c) => stage[c] \in {"revoke", "release"}
    BY BreaksTo DEF Orderly
  <2> QED
    BY <2>1, BreaksTo DEF SafeFenced, SafeSigner, Body, Locking, Guarded, CutOff, Recovery
<1> QED
  BY <1>1, <1>2, <1>3 DEF Orderly, Maintained, Probed, Attempted, Locking, Guarded, CutOff, Recovery,
                          SafeFenced, SafeSigner

LEMMA StillOrderly ==
  ASSUME NEW c \in Id, Orderly(c), stage'[c] = stage[c], flags'[c] = flags[c]
  PROVE  Orderly(c)'
BY DEF Orderly, Maintained, Probed, Attempted

LEMMA MovesOrderly ==
  ASSUME LocalTypes, NEW c \in Id, Moves(c), \A d \in Id : Founded(d) /\ Orderly(d)
  PROVE  \A d \in Id : Orderly(d)'
<1>1. \A d \in Id \ {c} : Orderly(d)'
  BY Others, StillOrderly DEF Moves
<1>2. CASE Turns(c)
  BY <1>1, <1>2, StillOrderly DEF Turns, Turn
<1> QED
  BY <1>1, <1>2, EndsOrderly, BreaksOrderly DEF Moves

(* An invocation whose create comes late does not begin anything.            *)
LEMMA MovesLapsed ==
  ASSUME LocalTypes, NEW c \in Id, Moves(c), NEW d \in Id, stage[d] \in Over, ~Maintained(d)
  PROVE  stage'[d] \in Over /\ ~Maintained(d)'
<1>1. CASE d # c
  BY <1>1, Others DEF Moves, Maintained
<1>2. CASE d = c /\ Turns(c)
  BY <1>2 DEF Turns, Turn, Maintained
<1>3. CASE d = c /\ Ends(c)
  <2>1. ~Maintained(c)'
    BY <1>3, EndsSet DEF Over
  <2>2. stage'[c] \in {After["safe_restore"], After["release"], ToSafe(flags'[c]),
                       ToRelease(flags'[c], unconfirmed[c]), "release", "ended"}
    BY <1>3, EndsTo DEF Over, After
  <2>3. ToSafe(flags'[c]) \in Over
    BY <2>1, Turnings DEF Over, Maintained
  <2> QED
    BY <1>3, <2>1, <2>2, <2>3, Groups, Turnings DEF Over
<1>4. CASE d = c /\ Breaks(c)
  <2>1. ToSafe(flags[c]) \in Over
    BY <1>4, Turnings DEF Over, Maintained
  <2>2. stage'[c] \in {"dead", ToSafe(flags[c]), "revoke", "ended"}
    BY <1>4, BreaksTo DEF Over, SafeFenced, SafeSigner, Body, Locking, Guarded, CutOff, Recovery
  <2> QED
    BY <1>4, <2>1, <2>2, BreaksTo DEF Over, Maintained
<1> QED
  BY <1>1, <1>2, <1>3, <1>4 DEF Moves

(* What a change at the cluster or at Vault leaves to the ceremony that has  *)
(* the marker.                                                               *)
Stands(c) == marker' = c /\ Maintained(c) =>
  /\ marker = c
  /\ \A t \in {"client", "fence"} : replicas[t] = 0 => replicas'[t] = 0
  /\ Quiesced => Quiesced'
  /\ SignerAbsent /\ stage[c] \notin {"start_denied", "recover"} => SignerAbsent'
  /\ (\E r \in late' : r.kind = "unlock" /\ r.by = c) => Unlocking(c)
  /\ NoneLate /\ (stage[c] \notin DOMAIN Scaling \/ stage'[c] = stage[c]) => NoneLate'
  /\ (replicas["signer"] = 1 \/ NoneLate) /\ stage'[c] = stage[c] =>
       replicas'["signer"] = 1 \/ NoneLate'
  /\ /\ replicas["signer"] = 1 /\ NoneLate
     /\ stage[c] \notin {"stop_signer", "stop_denied", "safe_signer"}
     => replicas'["signer"] = 1

(* The request to remove a marker is under way only when its sender is over, *)
(* or about to be.                                                           *)
LEMMA UnlockingOver ==
  ASSUME IInv, NEW c \in Id, Unlocking(c)
  PROVE  stage[c] \in {"release", "ended", "dead"}
BY DEF IInv, LateFounded, Unlocking

(* An invocation that nothing happens to.                                    *)
LEMMA StillWatched ==
  ASSUME IInv, NEW c \in Id, Watched(c), Stands(c), stage'[c] = stage[c],
         flags'[c] = flags[c], unconfirmed'[c] = unconfirmed[c], Orderly(c)
  PROVE  Watched(c)'
<1> SUFFICES ASSUME marker' = c, Maintained(c)
             PROVE  Watched(c)'
  BY DEF Watched, Maintained
<1>1. Probed(c)' <=> Probed(c)
  BY DEF Probed
<1>2. marker = c
  BY DEF Stands
<1>3. stage[c] \in Stopping => replicas'["signer"] = 1 \/ NoneLate'
  BY <1>2 DEF Stands, Watched
<1>4. stage[c] \in Stopped \/ Probed(c) => NoneLate'
  BY <1>2 DEF Stands, Watched
<1>5. stage[c] \in Recovery \ {"recover"} \/ Probed(c) => replicas'["signer"] = 1
  <2>1. stage[c] \in Recovery \ {"recover"} \/ Probed(c) =>
          stage[c] \notin {"stop_signer", "stop_denied", "safe_signer"}
    BY DEF Orderly, Recovery
  <2> QED
    BY <1>2, <2>1 DEF Stands, Watched, Stopped
<1>6. /\ stage[c] \in {"safe_client", "safe_quiesced"} => replicas'["fence"] = 0
      /\ stage[c] = "safe_quiesced" => replicas'["client"] = 0
  BY <1>2 DEF Stands, Watched
<1>7. /\ stage[c] \in SafeSigner => Quiesced' \/ "fenced" \in unconfirmed[c]
      /\ stage[c] \in {"safe_restore", "revoke"} /\ ~Probed(c) =>
           /\ Quiesced' \/ "fenced" \in unconfirmed[c]
           /\ SignerAbsent' \/ "signer_stopped" \in unconfirmed[c]
  BY <1>2 DEF Stands, Watched
<1>8. Unlocking(c)' /\ ~Probed(c) => Quiesced' /\ SignerAbsent'
  <2>1. Unlocking(c)' => Unlocking(c)
    BY DEF Unlocking, Stands
  <2> QED
    BY <1>2, <2>1, UnlockingOver DEF Stands, Watched
<1> QED
  BY <1>1, <1>3, <1>4, <1>5, <1>6, <1>7, <1>8 DEF Watched

(* A ceremony that fails: its finally block takes nothing for done that it   *)
(* has not seen.                                                             *)
LEMMA BreaksWatched ==
  ASSUME LocalTypes, IInv, NEW c \in Id, Orderly(c), Watched(c), Stands(c), Breaks(c)
  PROVE  Watched(c)'
<1>1. /\ flags'[c] = flags[c] /\ unconfirmed[c] \subseteq unconfirmed'[c]
      /\ stage[c] \notin {"ended", "dead"}
  BY BreaksTo
<1> SUFFICES ASSUME marker' = c, Maintained(c)
             PROVE  Watched(c)'
  BY <1>1 DEF Watched, Maintained
<1>2. /\ Probed(c)' <=> Probed(c)
      /\ marker = c /\ "lock_owned" \in flags[c] /\ c \in Ceremony
  BY <1>1 DEF Probed, Stands, Orderly
<1>3. Probed(c) => NoneLate' /\ replicas'["signer"] = 1
  <2>1. Probed(c) => stage[c] \in {"revoke", "release"}
    BY <1>1 DEF Orderly
  <2>2. {"revoke", "release"} \cap DOMAIN Scaling = {}
    BY DEF Scaling
  <2> QED
    BY <1>2, <2>1, <2>2 DEF Watched, Stands
<1>4. ~Unlocking(c)' \/ stage[c] = "release"
  <2>1. stage'[c] # "release"
    <3>1. ToSafe(flags[c]) # "release" /\ ToRestore(flags[c]) # "release" /\ ToCleanup(flags[c]) # "release"
      BY Turnings
    <3> QED
      BY <3>1, BreaksTo
  <2>2. (\E r \in late' : r.kind = "unlock" /\ r.by = c) => stage[c] = "release"
    BY <1>1, UnlockingOver DEF Stands
  <2> QED
    BY <2>1, <2>2 DEF Unlocking
<1>5. Unlocking(c)' /\ ~Probed(c) => Quiesced' /\ SignerAbsent'
  BY <1>2, <1>4 DEF Stands, Watched, Unlocking
<1>6. \/ stage'[c] \in {"safe_fence", "ended", "dead"}
      \/ stage'[c] \in {"safe_restore", "revoke"} /\ Probed(c)
      \/ stage[c] \in SafeFenced /\ stage'[c] = "safe_signer" /\ "fenced" \in unconfirmed'[c]
      \/ stage[c] \in SafeSigner /\ stage'[c] \in {"safe_restore", "revoke"} /\ "signer_stopped" \in unconfirmed'[c]
      \/ stage[c] = "safe_restore" /\ stage'[c] = "revoke"
  <2>1. ToSafe(flags[c]) = "safe_fence" \/ (Probed(c) /\ ToSafe(flags[c]) \in {"safe_restore", "revoke"})
    BY Turnings DEF Maintained, Probed
  <2>2. ToCleanup(flags[c]) = ToSafe(flags[c])
    BY <1>2, Turnings
  <2>3. stage[c] \in SafeFenced => "fenced" \in Doubt(stage[c])
    BY DEF SafeFenced, Doubt, Doubts
  <2>4. stage[c] \in SafeSigner => "signer_stopped" \in Doubt(stage[c])
    BY DEF SafeSigner, Doubt, Doubts
  <2>5. c \notin Collector
    BY <1>2
  <2> QED
    BY <2>1, <2>2, <2>3, <2>4, <2>5, BreaksTo, Turnings
<1>7. stage'[c] \notin Stopping \cup Stopped \cup Recovery \cup {"safe_client", "safe_quiesced"}
  BY <1>6 DEF Stopping, Stopped, CutOff, Recovery
<1>8. stage'[c] \in SafeSigner => Quiesced' \/ "fenced" \in unconfirmed'[c]
  BY <1>6 DEF SafeSigner
<1>9. stage'[c] \in {"safe_restore", "revoke"} /\ ~Probed(c) =>
        /\ Quiesced' \/ "fenced" \in unconfirmed'[c]
        /\ SignerAbsent' \/ "signer_stopped" \in unconfirmed'[c]
  BY <1>1, <1>2, <1>6 DEF Watched, Stands, SafeSigner
<1> QED
  BY <1>2, <1>3, <1>5, <1>7, <1>8, <1>9 DEF Watched

(* A ceremony that goes on has seen what its next stage relies on.           *)
LEMMA EndsWatched ==
  ASSUME LocalTypes, IInv, NEW c \in Id, Orderly(c), Watched(c), Ends(c), UNCHANGED cluster
  PROVE  Watched(c)'
<1> DEFINE s == stage[c]
           t == stage'[c]
<1>1. /\ s \in Stage \ {"ended", "dead"} /\ unconfirmed'[c] = unconfirmed[c]
      /\ Maintained(c)' <=> Maintained(c) \/ s = "capture"
      /\ Probed(c)' <=> Probed(c) \/ s = "kept_quiesced"
  BY EndsTo, EndsSet
<1> SUFFICES ASSUME marker = c, Maintained(c)'
             PROVE  Watched(c)'
  BY DEF Watched, cluster
<1>2. /\ Quiesced' <=> Quiesced
      /\ SignerAbsent' <=> SignerAbsent
      /\ NoneLate' <=> NoneLate
      /\ UNCHANGED <<replicas, late>>
  BY DEF cluster, Quiesced, SignerAbsent, NoneLate
<1>3. Unlocking(c)' => t = "release"
  <2>1. \A r \in late : r.kind = "unlock" /\ r.by = c => s \in {"ended", "dead"}
    BY DEF IInv, LateFounded
  <2> QED
    BY <1>1, <1>2, <2>1 DEF Unlocking
<1>4. Checked(c) /\ Founded(c)
  BY DEF Ends, IInv
<1> SUFFICES /\ t \in Stopping => replicas["signer"] = 1 \/ NoneLate
             /\ t \in Stopped \/ Probed(c)' => NoneLate
             /\ t \in Recovery \ {"recover"} \/ Probed(c)' => replicas["signer"] = 1
             /\ t \in {"safe_client", "safe_quiesced"} => replicas["fence"] = 0
             /\ t = "safe_quiesced" => replicas["client"] = 0
             /\ t \in SafeSigner => Quiesced \/ "fenced" \in unconfirmed[c]
             /\ t \in {"safe_restore", "revoke"} /\ ~Probed(c)' =>
                  /\ Quiesced \/ "fenced" \in unconfirmed[c]
                  /\ SignerAbsent \/ "signer_stopped" \in unconfirmed[c]
             /\ t = "release" /\ ~Probed(c)' => Quiesced /\ SignerAbsent
  BY <1>1, <1>2, <1>3 DEF Watched
<1>5. s # "capture" => Maintained(c)
  BY <1>1
<1>6. s = "capture" => ~Probed(c)
  BY DEF Orderly
<1>7. CASE s = "capture"
  BY <1>1, <1>6, <1>7, EndsTo
  DEF After, Stopping, Stopped, CutOff, Recovery, SafeSigner
<1>8. CASE s = "running"
  BY <1>1, <1>4, <1>8, EndsTo
  DEF After, Checked, Orderly, Stopping, Stopped, CutOff, Recovery, SafeSigner
<1>9. CASE s \in {"stop_fence", "stop_client", "quiesced"}
  BY <1>1, <1>5, <1>9, EndsTo
  DEF After, Watched, Orderly, Stopping, Stopped, CutOff, Recovery, SafeSigner
<1>10. CASE s = "stop_signer"
  <2>1. replicas["signer"] = 0
    BY <1>4, <1>10 DEF Checked, Scaling
  <2>2. NoneLate
    BY <1>5, <1>10, <2>1 DEF Watched, Stopping
  <2> QED
    BY <1>1, <1>10, <2>2, EndsTo
    DEF After, Orderly, Stopping, Stopped, CutOff, Recovery, SafeSigner
<1>11. CASE s \in {"signer_absent", "predelete"} \cup CutOff
  <2>1. NoneLate /\ ~Probed(c)
    BY <1>5, <1>11 DEF Watched, Stopped, Orderly, CutOff
  <2>2. t \in {"predelete", "recover"} \cup CutOff
    BY <1>11, EndsTo DEF After, CutOff
  <2> QED
    BY <1>1, <1>11, <2>1, <2>2 DEF Stopping, Stopped, CutOff, Recovery, SafeSigner
<1>12. CASE s \in Recovery
  <2>1. NoneLate /\ ~Probed(c)
    BY <1>5, <1>12 DEF Watched, Stopped, Orderly, Recovery
  <2>2. replicas["signer"] = 1
    <3>1. s = "recover" => replicas["signer"] = 1
      BY <1>4 DEF Checked, Scaling
    <3> QED
      BY <1>5, <1>12, <3>1 DEF Watched, Recovery
  <2>3. IF s = "kept_quiesced" THEN t = "revoke" ELSE t \in Recovery
    BY <1>12, EndsTo DEF Recovery, After
  <2> QED
    BY <1>1, <2>1, <2>2, <2>3 DEF Stopping, Stopped, Recovery, SafeSigner
<1>13. CASE s \in {"safe_fence", "safe_client"}
  <2>1. /\ s = "safe_fence" => replicas["fence"] = 0
        /\ s = "safe_client" => replicas["client"] = 0
    BY <1>4 DEF Checked, Scaling
  <2>2. s = "safe_client" => replicas["fence"] = 0
    BY <1>5 DEF Watched
  <2>3. ~Probed(c)' /\ t = IF s = "safe_fence" THEN "safe_client" ELSE "safe_quiesced"
    BY <1>1, <1>13, EndsTo DEF After, Orderly
  <2> QED
    BY <1>13, <2>1, <2>2, <2>3 DEF Stopping, Stopped, CutOff, Recovery, SafeSigner
<1>14. CASE s = "safe_quiesced"
  <2>1. Quiesced
    BY <1>4, <1>5, <1>14 DEF Watched, Checked, Quiesced
  <2>2. ~Probed(c)' /\ t = "safe_signer"
    BY <1>1, <1>14, EndsTo DEF After, Orderly
  <2> QED
    BY <2>1, <2>2 DEF Stopping, Stopped, CutOff, Recovery, SafeSigner
<1>15. CASE s \in SafeSigner
  <2>1. Quiesced \/ "fenced" \in unconfirmed[c]
    BY <1>5, <1>15 DEF Watched, SafeSigner
  <2>2. s = "safe_absent" => SignerAbsent
    BY <1>4 DEF Checked
  <2>3. ~Probed(c)' /\ IF s = "safe_signer" THEN t = "safe_absent" ELSE t \in {"safe_restore", "revoke"}
    BY <1>1, <1>15, EndsTo, Turnings DEF After, Orderly, SafeSigner
  <2> QED
    BY <1>15, <2>1, <2>2, <2>3 DEF Stopping, Stopped, CutOff, Recovery, SafeSigner
<1>16. CASE s = "safe_restore"
  <2>1. ~Probed(c)' /\ t = "revoke"
    BY <1>1, <1>16, EndsTo DEF After, Orderly
  <2> QED
    BY <1>1, <1>5, <1>16, <2>1 DEF Watched, Stopping, Stopped, CutOff, Recovery, SafeSigner
<1>17. CASE s = "revoke"
  <2>1. t \in {"release", "ended"} /\ (t = "release" => unconfirmed[c] = {})
    BY <1>17, EndsTo, Turnings
  <2>2. Probed(c)' => Probed(c) /\ NoneLate /\ replicas["signer"] = 1
    BY <1>1, <1>5, <1>17 DEF Watched
  <2>3. ~Probed(c)' /\ t = "release" => Quiesced /\ SignerAbsent
    BY <1>1, <1>5, <1>17, <2>1 DEF Watched
  <2> QED
    BY <2>1, <2>2, <2>3 DEF Stopping, Stopped, CutOff, Recovery, SafeSigner
<1>18. CASE s = "release"
  <2>1. t = "ended"
    BY <1>18, EndsTo DEF After
  <2>2. Probed(c)' => Probed(c) /\ NoneLate /\ replicas["signer"] = 1
    BY <1>1, <1>5, <1>18 DEF Watched
  <2> QED
    BY <2>1, <2>2 DEF Stopping, Stopped, CutOff, Recovery, SafeSigner
<1>19. CASE s = "reconcile"
  <2>1. ~Probed(c)' /\ t = "safe_fence"
    BY <1>1, <1>19, EndsTo, Turnings DEF Orderly, Maintained, Probed
  <2> QED
    BY <2>1 DEF Stopping, Stopped, CutOff, Recovery, SafeSigner
<1>20. CASE s \in Locking \cup OfCollectors
  <2>1. s # "capture"
    BY <1>20 DEF Locking, OfCollectors
  <2>2. FALSE
    BY <1>4, <1>5, <1>20, <2>1 DEF Orderly, Founded
  <2> QED
    BY <2>2
<1> QED
  BY <1>1, <1>7, <1>8, <1>9, <1>10, <1>11, <1>12, <1>13, <1>14, <1>15, <1>16, <1>17, <1>18, <1>19,
     <1>20 DEF Stage, Body, Guarded, Final, SafeFenced

-----------------------------------------------------------------------------
(* What the requests of the others leave alone.  A request creates a marker  *)
(* for an invocation that maintains nothing; it starts the signer for the    *)
(* owner of the marker; and it touches the signer for that owner, unless it  *)
(* comes late.                                                               *)
Scoped(r) ==
  /\ r.kind = "create" => ~Maintained(r.by)
  /\ r.kind = "scale_up" => /\ r.target = "signer" /\ marker = r.by
                            /\ stage[r.by] \in {"start_denied", "recover"}
  /\ r.kind = "scale_down" /\ r.target = "signer" /\ r \notin late =>
       marker = r.by /\ stage[r.by] \in {"stop_signer", "stop_denied", "safe_signer"}

LEMMA RequestScoped ==
  ASSUME IInv, NEW c \in Id, Orderly(c), call[c] = "request", Running(c)
  PROVE  /\ Scoped(RequestOf(c)) /\ RequestOf(c).by = c
         /\ RequestOf(c).kind = "create" => stage[c] = "acquire"
         /\ RequestOf(c).target = "signer" => stage[c] \in DOMAIN Scaling /\ marker = c
<1> DEFINE s == stage[c]
           r == RequestOf(c)
<1>1. s \in DOMAIN Scaling \cup DOMAIN Unscoped
  BY DEF IInv, Asking
<1>2. CASE s \in DOMAIN Scaling
  <2>1. r = [kind |-> IF Scaling[s][2] = 1 THEN "scale_up" ELSE "scale_down",
             by |-> c, target |-> Scaling[s][1]]
    BY <1>2 DEF RequestOf
  <2>2. Scaling[s][2] = 1 => s \in {"start_denied", "recover"} /\ Scaling[s][1] = "signer"
    BY <1>2 DEF Scaling
  <2>3. Scaling[s][2] # 1 /\ Scaling[s][1] = "signer" =>
          s \in {"stop_signer", "stop_denied", "safe_signer"}
    BY <1>2 DEF Scaling
  <2>4. marker = c
    <3>1. Maintained(c)
      BY <1>2 DEF Scaling, Orderly, Guarded, CutOff, Recovery, SafeFenced, SafeSigner
    <3>2. Holding(c)
      BY <1>2, <3>1 DEF Orderly, Holding, Scaling
    <3> QED
      BY <3>2 DEF IInv, ExclusiveControl
  <2> QED
    BY <1>2, <2>1, <2>2, <2>3, <2>4 DEF Scoped
<1>3. CASE s \in DOMAIN Unscoped /\ s \notin DOMAIN Scaling
  <2>1. r = [kind |-> Unscoped[s], by |-> c, target |-> None]
    BY <1>3 DEF RequestOf
  <2>2. Unscoped[s] # "scale_up" /\ (Unscoped[s] = "create" => s = "acquire")
    BY <1>3 DEF Unscoped
  <2>3. None # "signer"
    BY DEF Target
  <2>4. s = "acquire" => ~Maintained(c)
    BY DEF Orderly, Locking
  <2> QED
    BY <2>1, <2>2, <2>3, <2>4 DEF Scoped
<1> QED
  BY <1>1, <1>2, <1>3

LEMMA LateScoped ==
  ASSUME IInv, LateCreate, "scale_up" \notin Late, NEW r \in late
  PROVE  Scoped(r)
BY DEF IInv, LateFounded, LateCreate, Scoped

(* A request that is carried out leaves a maintaining ceremony what it has.  *)
LEMMA EffectStands ==
  ASSUME IInv, NEW r \in Requests, NEW rest \in SUBSET late, Scoped(r), Effect(r, rest),
         r \in late \/ rest = late, NEW c \in Id
  PROVE  Stands(c)
<1> SUFFICES ASSUME marker' = c, Maintained(c)
             PROVE  Stands(c)
  BY DEF Stands
<1>0. TypeOK /\ None \notin Id
  BY DEF IInv
<1>1. marker = c /\ late' \subseteq late
  <2>1. late' \subseteq late
    BY <1>0, EffectTypes
  <2>2. marker' = marker \/ (r.kind = "create" /\ marker' = r.by) \/ marker' = None
    BY DEF Effect, Marks
  <2> QED
    BY <1>0, <2>1, <2>2 DEF Scoped
<1>2. \A t \in {"client", "fence"} : replicas[t] = 0 => replicas'[t] = 0
  <2>1. CASE UNCHANGED replicas
    BY <2>1
  <2>2. CASE Scales(r, rest)
    BY <1>0, <2>2 DEF Scales, Scoped, TypeOK, Target
  <2> QED
    BY <2>1, <2>2 DEF Effect
<1>3. /\ Quiesced => Quiesced'
      /\ SignerAbsent /\ stage[c] \notin {"start_denied", "recover"} => SignerAbsent'
  BY <1>0, <1>1, StillDown DEF Scoped
<1>4. (\E q \in late' : q.kind = "unlock" /\ q.by = c) => Unlocking(c)
  BY <1>1 DEF Unlocking
<1>5. NoneLate => NoneLate'
  BY <1>1 DEF NoneLate
<1>6. CASE replicas'["signer"] = replicas["signer"]
  BY <1>1, <1>2, <1>3, <1>4, <1>5, <1>6 DEF Stands
<1>7. CASE replicas'["signer"] # replicas["signer"]
  <2>1. Scales(r, rest) /\ r.target = "signer"
    <3>1. Scales(r, rest)
      BY <1>7 DEF Effect
    <3> QED
      BY <1>0, <1>7, <3>1 DEF Scales, TypeOK, Target
  <2>2. NoneLate'
    BY <2>1 DEF Scales, Touch, NoneLate
  <2>3. /\ NoneLate /\ stage[c] \notin {"stop_signer", "stop_denied", "safe_signer"}
        => replicas'["signer"] = 1
    <3>1. CASE r.kind = "scale_up"
      BY <1>0, <2>1, <3>1 DEF Scales, TypeOK, Target
    <3>2. CASE r.kind = "scale_down"
      BY <1>1, <2>1, <3>2 DEF NoneLate, Scoped
    <3> QED
      BY <2>1, <3>1, <3>2 DEF Scales
  <2> QED
    BY <1>1, <1>2, <1>3, <1>4, <1>5, <2>2, <2>3 DEF Stands
<1> QED
  BY <1>6, <1>7

LEMMA SameStands ==
  ASSUME UNCHANGED cluster, NEW c \in Id
  PROVE  Stands(c)
BY DEF Stands, cluster, Quiesced, SignerAbsent, Unlocking, NoneLate

LEMMA BackgroundStands ==
  ASSUME Background, NEW c \in Id
  PROVE  Stands(c)
<1>1. UNCHANGED <<marker, replicas, stage>> /\ late' \subseteq late
  BY DEF Background, local
<1>2. (Quiesced => Quiesced') /\ (SignerAbsent => SignerAbsent')
  BY DEF Background, Quiesced, SignerAbsent, Target
<1>3. NoneLate => NoneLate'
  BY <1>1 DEF NoneLate
<1>4. (\E r \in late' : r.kind = "unlock" /\ r.by = c) => Unlocking(c)
  BY <1>1 DEF Unlocking
<1> QED
  BY <1>1, <1>2, <1>3, <1>4 DEF Stands

(* A request that is given up and still under way.                           *)
LEMMA DelayedStands ==
  ASSUME IInv, NEW d \in Id, Orderly(d), Delayed(d), NEW c \in Id
  PROVE  Stands(c)
<1> PICK r : r = RequestOf(d)
  OBVIOUS
<1>0. LocalTypes
  BY LocalOfInvariant
<1>1. /\ late' = late \cup {r} /\ UNCHANGED <<marker, replicas, pods>>
      /\ call[d] = "request" /\ Running(d) /\ Breaks(d)
  BY DEF Delayed, Breaks
<1>2. /\ r.by = d
      /\ r.kind = "unlock" => stage[d] = "release"
      /\ r.target = "signer" => stage[d] \in DOMAIN Scaling /\ marker = d
  <2>1. r.by = d /\ (r.target = "signer" => stage[d] \in DOMAIN Scaling /\ marker = d)
    BY <1>1, RequestScoped
  <2>2. stage[d] \in DOMAIN Scaling \cup DOMAIN Unscoped
    BY <1>1 DEF IInv, Asking
  <2>3. r.kind = "unlock" => stage[d] = "release"
    BY <2>2 DEF RequestOf, Unscoped
  <2> QED
    BY <2>1, <2>3
<1> SUFFICES ASSUME marker = c
             PROVE  Stands(c)
  BY <1>1 DEF Stands
<1>3. (Quiesced => Quiesced') /\ (SignerAbsent => SignerAbsent')
  BY <1>1 DEF Quiesced, SignerAbsent
<1>4. (\E q \in late' : q.kind = "unlock" /\ q.by = c) => Unlocking(c)
  BY <1>1, <1>2 DEF Unlocking
<1>5. stage'[d] # stage[d]
  BY <1>0, <1>1, BreaksTo, Turnings
  DEF SafeFenced, SafeSigner, Body, Locking, Guarded, CutOff, Recovery
<1>6. NoneLate /\ (stage[c] \notin DOMAIN Scaling \/ stage'[c] = stage[c]) => NoneLate'
  BY <1>1, <1>2, <1>5 DEF NoneLate
<1> QED
  BY <1>1, <1>3, <1>4, <1>5, <1>6 DEF Stands

(* Creates that come late stay those of invocations that maintain nothing.   *)
LEMMA LateCreateKept ==
  ASSUME IInv, LateCreate, \A c \in Id : Orderly(c), Next \/ UNCHANGED vars
  PROVE  LateCreate'
<1> USE LocalOfInvariant
<1>0. \A r \in late : r.by \in Id
  BY DEF IInv, TypeOK, Requests
<1>1. ASSUME NEW c \in Id, Moves(c)
      PROVE  \A r \in late : r.kind = "create" => stage'[r.by] \in Over /\ ~Maintained(r.by)'
  BY <1>0, <1>1, MovesLapsed DEF LateCreate
<1>2. ASSUME NEW c \in Id, Quiet(c)
      PROVE  LateCreate'
  BY <1>1, <1>2 DEF Quiet, cluster, LateCreate
<1>3. ASSUME NEW c \in Id, Performs(c)
      PROVE  LateCreate'
  <2> PICK r : r = RequestOf(c)
    OBVIOUS
  <2>1. r \in Requests /\ Effect(r, late) /\ Moves(c)
    BY <1>3, RequestAllowed DEF Performs, Inv, Moves
  <2>2. late' \subseteq late
    BY <2>1, EffectTypes
  <2> QED
    BY <1>1, <2>1, <2>2 DEF LateCreate
<1>4. ASSUME NEW c \in Id, Delayed(c)
      PROVE  LateCreate'
  <2> PICK r : r = RequestOf(c)
    OBVIOUS
  <2>1. /\ late' = late \cup {r} /\ Breaks(c) /\ Moves(c)
        /\ call[c] = "request" /\ Running(c)
    BY <1>4 DEF Delayed, Breaks, Moves
  <2>2. r.by = c /\ (r.kind = "create" => stage[c] = "acquire" /\ ~Maintained(c))
    BY <2>1, RequestScoped DEF Orderly, Locking
  <2>3. stage[c] = "acquire" /\ ~Maintained(c) => stage'[c] \in Over /\ ~Maintained(c)'
    <3>1. ~Maintained(c) => ToCleanup(flags[c]) \in Over
      BY Turnings DEF Over, Maintained
    <3>2. stage[c] = "acquire" => stage'[c] \in {"dead", "settle", ToCleanup(flags[c])}
      BY <2>1, BreaksTo DEF SafeFenced, SafeSigner
    <3>3. flags'[c] = flags[c]
      BY <2>1, BreaksTo
    <3> QED
      BY <3>1, <3>2, <3>3 DEF Over, Maintained
  <2> QED
    BY <1>1, <2>1, <2>2, <2>3 DEF LateCreate
<1>5. ASSUME NEW r \in late, Arrives(r)
      PROVE  LateCreate'
  <2>1. r \in Requests /\ Effect(r, late \ {r}) /\ UNCHANGED local
    BY <1>5, LateAllowed DEF Arrives, Inv
  <2>2. late' \subseteq late
    BY <2>1, EffectTypes
  <2> QED
    BY <2>1, <2>2 DEF LateCreate, local, Maintained
<1>6. CASE Background
  BY <1>6 DEF Background, LateCreate, local, Maintained
<1> QED
  BY <1>2, <1>3, <1>4, <1>5, <1>6, Steps

(* One invocation moves, and the cluster changes as little as it may.        *)
LEMMA MovesWatched ==
  ASSUME IInv, NEW c \in Id, Turns(c) \/ Breaks(c) \/ (Ends(c) /\ UNCHANGED cluster),
         \A d \in Id : Orderly(d) /\ Watched(d) /\ Stands(d)
  PROVE  \A d \in Id : Watched(d)'
<1> USE LocalOfInvariant
<1>1. \A d \in Id \ {c} : Watched(d)'
  BY Others, StillWatched
<1>2. CASE Ends(c) /\ UNCHANGED cluster
  BY <1>1, <1>2, EndsWatched
<1>3. CASE Turns(c)
  <2>1. UNCHANGED <<stage, flags, unconfirmed>>
    BY <1>3 DEF Turns, Turn
  <2> QED
    BY <1>1, <2>1, StillWatched
<1>4. CASE Breaks(c)
  BY <1>1, <1>4, BreaksWatched
<1> QED
  BY <1>2, <1>3, <1>4

(* Every step keeps the orderly invocations orderly, and what the owner of   *)
(* the marker has found or brought about.                                    *)
LEMMA WatchKept ==
  ASSUME "scale_up" \notin Late, IInv, LateCreate, \A c \in Id : Orderly(c) /\ Watched(c),
         Next \/ UNCHANGED vars
  PROVE  \A c \in Id : Orderly(c)' /\ Watched(c)'
<1> USE LocalOfInvariant
<1>0. \A c \in Id : Founded(c)
  BY DEF IInv
<1>1. ASSUME NEW c \in Id, Moves(c)
      PROVE  \A d \in Id : Orderly(d)'
  BY <1>0, <1>1, MovesOrderly
<1>2. ASSUME NEW c \in Id, Quiet(c)
      PROVE  \A d \in Id : Orderly(d)' /\ Watched(d)'
  <2>1. Moves(c) /\ UNCHANGED cluster
    BY <1>2 DEF Quiet
  <2>2. \A d \in Id : Stands(d)
    BY <2>1, SameStands
  <2> QED
    BY <1>1, <2>1, <2>2, MovesWatched DEF Moves
<1>3. ASSUME NEW c \in Id, Performs(c)
      PROVE  \A d \in Id : Orderly(d)' /\ Watched(d)'
  <2> PICK r : r = RequestOf(c)
    OBVIOUS
  <2>1. /\ r \in Requests /\ Effect(r, late) /\ Moves(c)
        /\ Turns(c) \/ Breaks(c)
    BY <1>3, RequestAllowed DEF Performs, Inv, Moves
  <2>2. Scoped(r)
    BY <1>3, RequestScoped DEF Performs
  <2>3. \A d \in Id : Stands(d)
    BY <2>1, <2>2, EffectStands
  <2> QED
    BY <1>1, <2>1, <2>3, MovesWatched
<1>4. ASSUME NEW c \in Id, Delayed(c)
      PROVE  \A d \in Id : Orderly(d)' /\ Watched(d)'
  <2>1. Breaks(c) /\ Moves(c)
    BY <1>4 DEF Delayed, Breaks, Moves
  <2>2. \A d \in Id : Stands(d)
    BY <1>4, DelayedStands
  <2> QED
    BY <1>1, <2>1, <2>2, MovesWatched
<1>5. ASSUME UNCHANGED local, \A d \in Id : Stands(d)
      PROVE  \A d \in Id : Orderly(d)' /\ Watched(d)'
  BY <1>5, StillOrderly, StillWatched DEF local
<1>6. ASSUME NEW r \in late, Arrives(r)
      PROVE  \A d \in Id : Orderly(d)' /\ Watched(d)'
  <2>1. r \in Requests /\ Effect(r, late \ {r}) /\ UNCHANGED local
    BY <1>6, LateAllowed DEF Arrives, Inv
  <2>2. \A d \in Id : Stands(d)
    BY <2>1, LateScoped, EffectStands
  <2> QED
    BY <1>5, <2>1, <2>2
<1>7. CASE Background
  BY <1>5, <1>7, BackgroundStands DEF Background
<1> QED
  BY <1>2, <1>3, <1>4, <1>6, <1>7, Steps

(* The marker goes by its owner's own request to remove it.                  *)
LEMMA GivenUpBy ==
  ASSUME IInv, Next \/ UNCHANGED vars, NEW c \in Id, marker = c, marker' # c
  PROVE  Unlocking(c)
<1> USE LocalOfInvariant
<1>0. None \notin Id
  OBVIOUS
<1>1. ASSUME NEW r \in Requests, NEW rest \in SUBSET late, Effect(r, rest)
      PROVE  r.kind = "unlock" /\ r.by = c
  BY <1>0, <1>1, EffectTypes DEF Changes
<1>2. ASSUME NEW d \in Id, Performs(d)
      PROVE  Unlocking(c)
  <2> PICK r : r = RequestOf(d)
    OBVIOUS
  <2>1. r \in Requests /\ Effect(r, late) /\ r.by = d
    BY <1>2, RequestAllowed DEF Performs, Inv
  <2>2. stage[d] \in DOMAIN Scaling \cup DOMAIN Unscoped
    BY <1>2 DEF Performs, IInv, Asking
  <2>3. r.kind = "unlock" => stage[d] = "release"
    BY <2>2 DEF RequestOf, Unscoped
  <2> QED
    BY <1>1, <2>1, <2>3 DEF Unlocking
<1>3. ASSUME NEW r \in late, Arrives(r)
      PROVE  Unlocking(c)
  BY <1>1, <1>3, LateAllowed DEF Arrives, Inv, Unlocking
<1>4. ~Background /\ \A d \in Id : ~Quiet(d) /\ ~Delayed(d)
  BY DEF Background, Quiet, Delayed, cluster
<1> QED
  BY <1>2, <1>3, <1>4, Steps

(* When the marker of a ceremony that has begun its maintenance goes, the    *)
(* role is in place, client and fence are down, and the signer is up if the  *)
(* ceremony reports PROBE_COMPLETE and gone if it failed: for every set of   *)
(* ceremonies, unless a DELETE or a start of the signer comes late.          *)
THEOREM ReleaseSafeHolds ==
  ASSUME "delete" \notin Late, "scale_up" \notin Late
  PROVE  Spec => ReleaseSafe
<1>1. Init => WInv
  <2>1. Init => IInv /\ Isolation
    BY InitInvariant DEF Init, Isolation, Attempted, Id
  <2>2. Init => LateCreate
    BY DEF Init, LateCreate
  <2>3. ASSUME Init, NEW c \in Id
        PROVE  Orderly(c) /\ Watched(c)
    BY <2>3 DEF Init, Orderly, Watched, Maintained, Probed, Attempted, Guarded, CutOff, Recovery,
                SafeFenced, SafeSigner
  <2> QED
    BY <2>1, <2>2, <2>3 DEF WInv
<1>2. WInv /\ [Next]_vars => WInv'
  <2> SUFFICES ASSUME WInv, Next \/ UNCHANGED vars
               PROVE  WInv'
    OBVIOUS
  <2> QED
    BY NextInvariant, IsolationKept, LateCreateKept, WatchKept DEF WInv
<1>3. WInv /\ [Next]_vars =>
        \A c \in Ceremony : marker = c /\ marker' # c /\ "maintenance_attempted" \in flags[c] => Left(c)
  <2> SUFFICES ASSUME WInv, Next \/ UNCHANGED vars, NEW c \in Ceremony, marker = c, marker' # c,
                      Maintained(c)
               PROVE  Left(c)
    BY DEF Maintained
  <2>0. IInv /\ Isolation /\ c \in Id /\ Orderly(c) /\ Watched(c)
    BY DEF WInv, Id
  <2>1. Disarmed(c) /\ Unlocking(c)
    BY <2>0, GivenUp, GivenUpBy
  <2>2. role = "exact"
    BY <2>0, <2>1 DEF IInv, TypeOK, RoleFounded, Disarmed
  <2>3. Probed(c) => Quiesced /\ replicas["signer"] = 1
    BY <2>0 DEF Orderly, Isolation, Watched
  <2>4. ~Probed(c) => Quiesced /\ SignerAbsent
    BY <2>0, <2>1 DEF Watched
  <2> QED
    BY <2>2, <2>3, <2>4 DEF Left, Probed
<1> QED
  BY <1>1, <1>2, <1>3, PTL DEF Spec, ReleaseSafe
=============================================================================
