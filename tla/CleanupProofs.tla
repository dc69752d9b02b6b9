---------------------------- MODULE CleanupProofs ----------------------------
(* Proofs about the deletion of a deployment, for any resources of any      *)
(* owners and any number of disturbances: only what is ours goes, what      *)
(* recovery needs goes last, and success is true.                           *)
EXTENDS Cleanup, TLAPS

(* An execution has a resource in hand exactly while its handler is at      *)
(* work, and has nothing at all in between executions.                      *)
AtHand == {"list", "batch", "self", "await"}
InHand ==
  /\ pc \in AtHand <=> current # {}
  /\ current \subseteq todo
  /\ pc = "idle" => todo = {} /\ res = {} /\ barriers = {}
  /\ pc \notin AtHand => seen = {}
  /\ \A c \in seen : Kind[c] \in Children
  /\ pc \in {"list", "batch"} => \A r \in current : Kind[r] \in DOMAIN ChildKinds
  /\ pc = "batch" => \A r \in current : batch <= Len(Batches(r))
  /\ pc # "scan" => scanning[1] = "none"

(* What is in hand is ours or was handed over since it was taken.           *)
Mine(r) == tag[r] = "ours" \/ r \in moved
OurOwn ==
  /\ \A r \in current : Mine(r) \/ Kind[r] = "scheduler"
  /\ \A c \in seen : Mine(c) \/ c \in captured
  /\ \A r \in index : Kind[r] = "logs" => tag[r] = "ours"

(* An inventory misses nothing of the services it has asked but what it     *)
(* cannot see, unless it has noted a residual.                              *)
Looked == UNION {Services[m] : m \in 1 .. scanning[2] - 1}
Swept == pc = "scan" /\ "bad" \notin res =>
           \A r \in Resource : Owned(r) /\ Kind[r] \in Looked => r \in found \/ Unseen(r)

(* A barrier that was verified holds as long as it is needed: until the     *)
(* last resource it stands before is worked off.  Its resources are in      *)
(* hand only behind it, with no residual noted.                             *)
Clear(b) == \A r \in Resource : Owned(r) /\ Kind[r] \in Handled \ Allowed[b] => Unseen(r)
Stands(b) == "bad" \in res \/ Clear(b) \/ \A r \in todo : Kind[r] # b
Between == /\ scanning[1] = "first" => barriers = {}
           /\ scanning[1] = "backend" => "kms" \notin barriers
           /\ scanning[1] \in {"first", "last"} => todo = {}
           /\ "kms" \in barriers \/ scanning[1] = "kms" => \A r \in todo : Kind[r] # "backend"
           /\ \A b \in barriers : Stands(b)
Given == pc = "self" => \A r \in current :
           Kind[r] \in {"backend", "kms"} => Kind[r] \in barriers /\ "bad" \notin res

(* Success stays true.                                                      *)
Nothing == \A r \in Resource : Owned(r) /\ Kind[r] \in Handled => Scheduled(r) \/ Unseen(r)
Claimed == outcome \in {"complete", "pending"} => pc = "idle" /\ Nothing

CleanupInv == TypeOK /\ InHand /\ Swept /\ Between /\ Given /\ Claimed

(* The handlers' steps.                                                     *)
Waited(r, f) == ChildrenGone(r, f) \/ Unlisted(r)
Handles(r) == \E f : Refuse(r, f) \/ List(r, f) \/ DeleteChild(r, f) \/ Settle(r, f)
                       \/ Waited(r, f) \/ DeleteSelf(r, f) \/ Await(r, f)
Executes == \/ Start \/ (\E f : Look(f)) \/ Inventoried \/ Verified \/ Report \/ Barrier \/ Skip
            \/ Postflight \/ (\E r \in Resource : (\E f : Take(r, f)) \/ Handles(r)) \/ Kill
World == Vanish \/ Create \/ HandOver \/ Index

LEMMA Actions ==
  ASSUME Next
  PROVE  Executes \/ World
<1>1. ASSUME NEW ok, Handler(ok) PROVE \E r \in Resource : Handles(r)
  BY <1>1, Zenon DEF Handler, Handles, Waited
<1>2. ASSUME NEW r \in Resource, ChildrenGone(r, FALSE) \/ Unlisted(r) PROVE Handles(r)
  BY <1>2, Zenon DEF Handles, Waited
<1>3. Work => Executes
  <2>1. CASE \E r \in Resource : Take(r, FALSE) \/ (Hopeless(r) /\ ChildrenGone(r, FALSE))
    BY <1>2, <2>1, Zenon DEF Executes
  <2>2. CASE Handler(TRUE)
    BY <1>1, <2>2, Zenon DEF Executes
  <2> QED
    BY <2>1, <2>2, Zenon DEF Work, Executes
<1>4. Fail => Executes
  <2>1. CASE \E r \in Resource : Take(r, TRUE) \/ Unlisted(r)
    BY <1>2, <2>1, Zenon DEF Executes
  <2>2. CASE Handler(FALSE)
    BY <1>1, <2>2, Zenon DEF Executes
  <2> QED
    BY <2>1, <2>2, Zenon DEF Fail, Executes
<1> QED
  BY <1>3, <1>4 DEF Next, Goes, Disturbs, Executes, World

(* The kinds are all there is to delete.                                    *)
LEMMA Kinds ==
  /\ Kind \in [Resource -> Handled \cup Children] /\ Home \in [Resource -> Resource]
  /\ DOMAIN ChildKinds = {"eks", "vpc"} /\ Len(ChildKinds["eks"]) = 1 /\ Len(ChildKinds["vpc"]) = 3
  /\ Len(Services) = 7
  /\ \A k \in {"eks", "vpc"} : \A n \in 1 .. Len(ChildKinds[k]) : ChildKinds[k][n] \in Children
<1>1. Kind \in [Resource -> Handled \cup Children] /\ Home \in [Resource -> Resource]
  BY CleanupAssumption
<1>2. DOMAIN ChildKinds = {"eks", "vpc"} /\ Len(ChildKinds["eks"]) = 1 /\ Len(ChildKinds["vpc"]) = 3
  BY DEF ChildKinds, ClusterChildren, NetworkChildren
<1>3. Len(Services) = 7
  BY DEF Services
<1>4. \A n \in 1 .. 1 : ChildKinds["eks"][n] \in Children
  BY DEF ChildKinds, ClusterChildren, Children
<1>5. \A n \in 1 .. 3 : ChildKinds["vpc"][n] \in Children
  BY DEF ChildKinds, NetworkChildren, Children
<1> QED
  BY <1>1, <1>2, <1>3, <1>4, <1>5

(* What a deletion does.                                                    *)
LEMMA Deletion ==
  ASSUME TypeOK, NEW r \in Resource, NEW f, Delete(r, f)
  PROVE  /\ life' \in [Resource -> {"absent", "live", "deleting", "pending"}]
         /\ \A q \in Resource : q # r => life'[q] = life[q]
         /\ life[r] = "absent" => life'[r] = "absent"
         /\ res' \in {res, res \cup {"bad"}}
         /\ life'[r] # life[r] => res' = res /\ life'[r] \in {"absent", "deleting", "pending"}
         /\ life'[r] = "pending" => life[r] = "pending" \/ Kind[r] = "kms"
<1>1. CASE UNCHANGED life /\ res' \in {res, res \cup {"bad"}}
  BY <1>1 DEF TypeOK
<1>2. CASE life' = Gone(r) /\ UNCHANGED res /\ There(r)
  <2> PICK v : v = CASE Kind[r] = "kms" -> "pending" [] Kind[r] \in Slow -> "deleting"
                     [] OTHER -> "absent"
    OBVIOUS
  <2>1. v \in {"absent", "deleting", "pending"} /\ (v = "pending" => Kind[r] = "kms")
    OBVIOUS
  <2>2. life' = [life EXCEPT ![r] = v]
    BY <1>2 DEF Gone
  <2> QED
    BY <1>2, <2>1, <2>2 DEF TypeOK, There
<1> QED
  BY <1>1, <1>2 DEF Delete, Adds

-----------------------------------------------------------------------------
(* The types.                                                               *)
LEMMA ExecutionTyped ==
  ASSUME TypeOK, InHand, Executes, UNCHANGED events \/ (events < MaxEvents /\ events' = events + 1)
  PROVE  TypeOK'
<1> USE DEF TypeOK
<1>0. events' \in 0 .. MaxEvents
  BY CleanupAssumption
<1> USE <1>0, Kinds
<1>1. CASE Start
  BY <1>1 DEF Start, Scan, world
<1>2. ASSUME NEW f, Look(f) PROVE TypeOK'
  BY <1>2 DEF Look, Adds, world
<1>3. CASE Inventoried
  <2>1. CASE "bad" \in res
    BY <1>3, <2>1 DEF Inventoried, Ends, Forget, world
  <2>2. CASE "bad" \notin res
    <3>1. GoesOn /\ todo' = found /\ UNCHANGED <<res, barriers>>
      BY <1>3, <2>2 DEF Inventoried
    <3>2. /\ pc' = "run" /\ scanning' = <<"none", 1>> /\ found' = {}
          /\ UNCHANGED <<life, tag, index, late, moved, outcome, current, batch, seen, captured>>
      BY <3>1 DEF GoesOn, world, history
    <3> QED
      BY <3>1, <3>2
  <2> QED
    BY <2>1, <2>2
<1>4. CASE Verified
  <2>1. Verdict \subseteq {"bad", "pending"}
    BY DEF Verdict
  <2> QED
    <3>1. barriers' \subseteq {"backend", "kms"} /\ res' \subseteq {"bad", "pending"}
      BY <1>4, <2>1 DEF Verified, Scanned, Adds
    <3>2. scanning' = <<"none", 1>> /\ pc' = "run" /\ found' = {} /\ UNCHANGED todo
      BY <1>4 DEF Verified, GoesOn
    <3> QED
      BY <1>4, <3>1, <3>2 DEF Verified, GoesOn, world, history
<1>5. CASE Report
  <2>1. Claims \in {"residual", "pending", "complete"}
    BY DEF Claims
  <2> QED
    BY <1>5, <2>1 DEF Report, Ends, Forget, world
<1>6. CASE Barrier
  BY <1>6 DEF Barrier, Barred, Scan, world
<1>7. CASE Skip
  BY <1>7 DEF Skip, world, history
<1>8. CASE Postflight
  BY <1>8 DEF Postflight, Scan, world
<1>9. ASSUME NEW r \in Resource, NEW f, Take(r, f) PROVE TypeOK'
  BY <1>9 DEF Take, Adds, world
<1>10. ASSUME NEW r \in Resource, NEW f, Refuse(r, f) PROVE TypeOK'
  BY <1>10 DEF Refuse, Reason, Adds, world
<1>11. ASSUME NEW r \in Resource, NEW f, List(r, f) PROVE TypeOK'
  BY <1>11 DEF List, In, Adds, world, history
<1>12. ASSUME NEW r \in Resource, NEW f, DeleteChild(r, f) PROVE TypeOK'
  BY <1>12, Deletion DEF DeleteChild, history
<1>13. ASSUME NEW r \in Resource, NEW f, Settle(r, f) PROVE TypeOK'
  <2>1. batch' \in 1 .. 4
    BY <1>13 DEF Settle, InHand, Batches
  <2> QED
    BY <1>13, <2>1 DEF Settle, Adds, world, history
<1>14. ASSUME NEW r \in Resource, NEW f, Waited(r, f) PROVE TypeOK'
  <2>1. /\ UNCHANGED <<life, tag, index, late, outcome, scanning, found, captured, barriers>>
        /\ res' \in {res, res \cup {"bad"}}
        /\ \/ pc' = "self" /\ UNCHANGED <<todo, current, seen, batch, moved>>
           \/ Over
    BY <1>14 DEF Waited, ChildrenGone, Unlisted, Adds, world, history
  <2>2. CASE pc' = "self" /\ UNCHANGED <<todo, current, seen, batch, moved>>
    BY <2>1, <2>2
  <2>3. CASE Over
    BY <2>1, <2>3 DEF Over
  <2> QED
    BY <2>1, <2>2, <2>3
<1>15. ASSUME NEW r \in Resource, NEW f, DeleteSelf(r, f) PROVE TypeOK'
  BY <1>15, Deletion DEF DeleteSelf, history
<1>16. ASSUME NEW r \in Resource, NEW f, Await(r, f) PROVE TypeOK'
  BY <1>16 DEF Await, Over, Adds, world
<1>17. CASE Kill
  BY <1>17 DEF Kill, Ends, Forget, world
<1> QED
  BY <1>1, <1>2, <1>3, <1>4, <1>5, <1>6, <1>7, <1>8, <1>9, <1>10, <1>11, <1>12, <1>13, <1>14, <1>15,
     <1>16, <1>17 DEF Executes, Handles

LEMMA WorldTyped ==
  ASSUME TypeOK, World, UNCHANGED events \/ (events < MaxEvents /\ events' = events + 1)
  PROVE  TypeOK'
<1> USE DEF TypeOK
<1>0. events' \in 0 .. MaxEvents
  BY CleanupAssumption
<1>1. CASE Vanish
  BY <1>0, <1>1 DEF Vanish, memory, history
<1>2. CASE Create
  BY <1>0, <1>2, CleanupAssumption DEF Create, memory
<1>3. CASE HandOver
  BY <1>0, <1>3, CleanupAssumption DEF HandOver, memory
<1>4. CASE Index
  BY <1>0, <1>4 DEF Index, memory, history
<1> QED
  BY <1>1, <1>2, <1>3, <1>4 DEF World

-----------------------------------------------------------------------------
(* What is ours only fades: whatever is ours after a step was ours before,  *)
(* or counts as created since the inventory.                                *)
Fades == late \subseteq late' /\ \A r \in Resource : Owned(r)' => Owned(r) \/ r \in late'

LEMMA Fading ==
  ASSUME Fades
  PROVE  /\ \A r \in Resource : Owned(r)' => Unseen(r)' \/ (Owned(r) /\ (Unseen(r) => Unseen(r)'))
         /\ \A b : Clear(b) => Clear(b)'
<1>1. ASSUME NEW r \in Resource, Unseen(r) PROVE Unseen(r)'
  BY <1>1, Kinds DEF Unseen, Fades
<1>2. \A r \in Resource : r \in late' => Unseen(r)'
  BY DEF Unseen
<1>3. \A r \in Resource : Owned(r)' => Unseen(r)' \/ (Owned(r) /\ (Unseen(r) => Unseen(r)'))
  BY <1>1, <1>2 DEF Fades
<1>4. \A b : Clear(b) => Clear(b)'
  BY <1>3 DEF Clear
<1> QED
  BY <1>3, <1>4

(* Every step but the beginning of an inventory.                            *)
LEMMA WorldFades ==
  ASSUME TypeOK, World
  PROVE  Fades
<1>1. CASE Vanish
  BY <1>1 DEF Vanish, Fades, Owned, There, history
<1>2. CASE Create
  BY <1>2, CleanupAssumption DEF Create, Fades, Owned, There, TypeOK
<1>3. CASE HandOver
  BY <1>3, CleanupAssumption DEF HandOver, Fades, Owned, There, TypeOK
<1>4. CASE Index
  BY <1>4 DEF Index, Fades, Owned, There, history
<1> QED
  BY <1>1, <1>2, <1>3, <1>4 DEF World

LEMMA ExecutionFades ==
  ASSUME TypeOK, Executes, ~Start, ~Barrier, ~Postflight
  PROVE  Fades
<1> USE DEF Fades, Owned, There
<1>1. ASSUME UNCHANGED <<world, late>> PROVE Fades
  BY <1>1 DEF world
<1>2. ASSUME NEW f, Look(f) PROVE Fades
  BY <1>2 DEF Look, world
<1>3. Inventoried \/ Verified \/ Report \/ Skip \/ Kill => UNCHANGED <<world, late>>
  BY DEF Inventoried, Verified, Report, Skip, Kill, Ends, GoesOn, history
<1>4. ASSUME NEW r \in Resource, NEW f, Take(r, f) PROVE UNCHANGED <<world, late>>
  BY <1>4 DEF Take
<1>5. ASSUME NEW r \in Resource, NEW f,
             Refuse(r, f) \/ List(r, f) \/ Settle(r, f) \/ Waited(r, f) \/ Await(r, f)
      PROVE  UNCHANGED <<world, late>>
  BY <1>5 DEF Refuse, List, Settle, Waited, ChildrenGone, Unlisted, Await, history
<1>6. ASSUME NEW r \in Resource, NEW f, DeleteChild(r, f) PROVE Fades
  <2>1. PICK c \in seen : Delete(c, f)
    BY <1>6 DEF DeleteChild
  <2>2. c \in Resource /\ UNCHANGED <<tag, late>>
    BY <1>6 DEF DeleteChild, history, TypeOK
  <2> QED
    BY <2>1, <2>2, Deletion
<1>7. ASSUME NEW r \in Resource, NEW f, DeleteSelf(r, f) PROVE Fades
  <2>1. Delete(r, f) /\ UNCHANGED <<tag, late>>
    BY <1>7 DEF DeleteSelf, history
  <2> QED
    BY <2>1, Deletion
<1>8. ASSUME NEW r \in Resource, Handles(r) PROVE Fades
  BY <1>1, <1>5, <1>6, <1>7, <1>8, Zenon DEF Handles
<1> QED
  BY <1>1, <1>2, <1>3, <1>4, <1>8 DEF Executes

-----------------------------------------------------------------------------
(* The hand.                                                                *)
LEMMA Handed ==
  ASSUME TypeOK, InHand, Executes \/ World
  PROVE  InHand'
<1> USE DEF InHand, AtHand
<1>0. UNCHANGED <<pc, current, todo, seen, res, barriers, batch, scanning>> => InHand'
  BY DEF Batches
<1>1. CASE Start
  BY <1>1 DEF Start, Scan
<1>2. ASSUME NEW f, Look(f) PROVE InHand'
  BY <1>2 DEF Look
<1>3. CASE Inventoried
  <2>1. CASE "bad" \in res
    BY <1>3, <2>1 DEF Inventoried, Ends, Forget
  <2>2. CASE "bad" \notin res
    BY <1>3, <2>2 DEF Inventoried, GoesOn, Scanned
  <2> QED
    BY <2>1, <2>2
<1>4. CASE Verified
  BY <1>4 DEF Verified, GoesOn, Scanned
<1>5. CASE Report
  BY <1>5 DEF Report, Ends, Forget
<1>6. CASE Barrier
  BY <1>6 DEF Barrier, Scan
<1>7. CASE Skip
  BY <1>7 DEF Skip
<1>8. CASE Postflight
  BY <1>8 DEF Postflight, Scan
<1>9. ASSUME NEW r \in Resource, NEW f, Take(r, f) PROVE InHand'
  BY <1>9 DEF Take, Taken, Next1
<1>10. ASSUME NEW r \in Resource, NEW f, Refuse(r, f) PROVE InHand'
  BY <1>10 DEF Refuse, Taken
<1>11. ASSUME NEW r \in Resource, NEW f, List(r, f) PROVE InHand'
  <2>1. batch \in 1 .. Len(Batches(r)) /\ Kind[r] \in DOMAIN ChildKinds /\ current = {r}
    BY <1>11 DEF List, TypeOK
  <2>2. Batches(r)[batch] \in Children
    BY <2>1, Kinds DEF Batches
  <2>3. \A c \in seen' : Kind[c] \in Children
    BY <1>11, <2>2 DEF List, In
  <2>4. pc' = "batch" /\ UNCHANGED <<current, todo, batch, scanning>> /\ pc = "list"
    BY <1>11 DEF List
  <2> QED
    BY <2>1, <2>3, <2>4 DEF Batches
<1>12. ASSUME NEW r \in Resource, NEW f, DeleteChild(r, f) PROVE InHand'
  BY <1>12 DEF DeleteChild, Batches
<1>13. ASSUME NEW r \in Resource, NEW f, Settle(r, f) PROVE InHand'
  BY <1>13 DEF Settle
<1>14. ASSUME NEW r \in Resource, NEW f, Waited(r, f) PROVE InHand'
  <2>1. /\ pc = "list" /\ current = {r} /\ UNCHANGED <<scanning, barriers>>
        /\ \/ pc' = "self" /\ UNCHANGED <<todo, current, seen, batch>>
           \/ Over
    BY <1>14 DEF Waited, ChildrenGone, Unlisted
  <2>2. CASE pc' = "self" /\ UNCHANGED <<todo, current, seen, batch>>
    BY <2>1, <2>2
  <2>3. CASE Over
    BY <2>1, <2>3 DEF Over
  <2> QED
    BY <2>1, <2>2, <2>3
<1>15. ASSUME NEW r \in Resource, NEW f, DeleteSelf(r, f) PROVE InHand'
  BY <1>15 DEF DeleteSelf
<1>16. ASSUME NEW r \in Resource, NEW f, Await(r, f) PROVE InHand'
  BY <1>16 DEF Await, Over
<1>17. CASE Kill
  BY <1>17 DEF Kill, Ends, Forget
<1>18. World => UNCHANGED <<pc, current, todo, seen, res, barriers, batch, scanning>>
  BY DEF World, Vanish, Create, HandOver, Index, memory
<1> QED
  BY <1>0, <1>1, <1>2, <1>3, <1>4, <1>5, <1>6, <1>7, <1>8, <1>9, <1>10, <1>11, <1>12, <1>13, <1>14,
     <1>15, <1>16, <1>17, <1>18 DEF Executes, Handles

(* The inventory.                                                           *)
LEMMA AllServices ==
  /\ UNION {Services[m] : m \in 1 .. 7} = Handled
  /\ \A m, n \in 1 .. 7 : \A k \in Services[m] : k \in Services[n] => m = n
  /\ Services[1] = {"logs", "kms"} /\ "scheduler" \in Services[7] /\ "iam" \in Services[6]
<1>1. /\ Services[1] = {"logs", "kms"} /\ Services[2] = {"eks"} /\ Services[3] = {"vpc"}
      /\ Services[4] = {"eip", "instance"} /\ Services[5] = {"data", "backend"}
      /\ Services[6] = {"iam", "profile"} /\ Services[7] = {"scheduler"}
  BY DEF Services
<1>2. Handled = {"scheduler", "logs", "eks", "instance", "vpc", "eip", "profile", "iam", "data", "backend", "kms"}
  BY DEF Handled, Order
<1>3. \A m \in 1 .. 7 : m \in {1, 2, 3, 4, 5, 6, 7}
  OBVIOUS
<1>4. UNION {Services[m] : m \in 1 .. 7} = Handled
  <2>1. \A k \in Handled : \E m \in 1 .. 7 : k \in Services[m]
    BY <1>1, <1>2
  <2>2. \A m \in 1 .. 7 : \A k \in Services[m] : k \in Handled
    BY <1>1, <1>2, <1>3
  <2> QED
    BY <2>1, <2>2
<1>5. \A m, n \in 1 .. 7 : \A k \in Services[m] : k \in Services[n] => m = n
  BY <1>1, <1>3
<1> QED
  BY <1>1, <1>4, <1>5

LEMMA Looks ==
  ASSUME TypeOK, Swept, NEW f, Look(f)
  PROVE  Swept'
<1>1. /\ scanning[2] \in 1 .. 7 /\ pc = "scan" /\ scanning'[2] = scanning[2] + 1
      /\ UNCHANGED <<life, tag, index>>
  BY Kinds DEF TypeOK, Look, world
<1>2. SUFFICES ASSUME "bad" \notin res', NEW r \in Resource, Owned(r)', Kind[r] \in Looked',
                      ~Unseen(r)'
               PROVE  r \in found'
  BY DEF Swept
<1> PICK n : n = scanning[2]
  OBVIOUS
<1>3. /\ "bad" \notin res
      /\ found' = found \cup {q \in Resource : Kind[q] \in Services[n] /\ Listed(q)}
  BY <1>2 DEF Look, Adds
<1>4. Owned(r) /\ ~Unseen(r) /\ r \notin late'
  <2>1. late \subseteq late'
    BY DEF Look
  <2> QED
    BY <1>1, <1>2, <2>1 DEF Unseen, Owned, There
<1>5. CASE Kind[r] \in Looked
  BY <1>1, <1>3, <1>4, <1>5 DEF Swept
<1>6. CASE Kind[r] \notin Looked
  <2>1. PICK m \in 1 .. scanning'[2] - 1 : Kind[r] \in Services[m]
    BY <1>2 DEF Looked
  <2>2. m = n
    <3>1. m \notin 1 .. scanning[2] - 1
      BY <1>6, <2>1 DEF Looked
    <3> QED
      BY <1>1, <2>1, <3>1
  <2>3. Kind[r] \in Services[n]
    BY <2>1, <2>2
  <2>4. Listed(r)
    <3>1. CASE Kind[r] \in {"logs", "kms"}
      <4>1. n = 1
        BY <1>1, <2>3, <3>1, AllServices
      <4>2. r \in index
        BY <1>4, <3>1, <4>1 DEF Look, Indexed
      <4> QED
        BY <3>1, <4>2 DEF Listed
    <3>2. CASE Kind[r] = "scheduler"
      <4>1. n = 7
        BY <1>1, <2>3, <3>2, AllServices
      <4>2. Owned(Home[r]) /\ Home[r] \notin late /\ There(r)
        BY <1>4, <3>2 DEF Unseen, Owned
      <4>3. Home[r] \in Resource /\ Kind[Home[r]] = "iam"
        BY <3>2, CleanupAssumption
      <4>4. "iam" \in Looked
        BY <4>1, AllServices DEF Looked
      <4>5. ~Unseen(Home[r])
        BY <4>2, <4>3 DEF Unseen
      <4>6. Home[r] \in found
        BY <1>1, <1>3, <4>2, <4>3, <4>4, <4>5 DEF Swept
      <4> QED
        BY <3>2, <4>2, <4>6 DEF Listed
    <3>3. CASE Kind[r] \notin {"logs", "kms", "scheduler"}
      BY <1>4, <3>3 DEF Listed
    <3> QED
      BY <3>1, <3>2, <3>3
  <2> QED
    BY <1>3, <2>3, <2>4
<1> QED
  BY <1>5, <1>6

LEMMA SweptKept ==
  ASSUME TypeOK, InHand, Swept, Executes \/ World
  PROVE  Swept'
<1>1. ASSUME NEW b, Scan(b) PROVE Swept'
  BY <1>1 DEF Scan, Swept, Looked
<1>2. ASSUME NEW f, Look(f) PROVE Swept'
  BY <1>2, Looks
<1>3. ASSUME World PROVE Swept'
  <2>1. Fades /\ UNCHANGED <<pc, res, found, scanning>>
    BY <1>3, WorldFades DEF World, Vanish, Create, HandOver, Index, memory
  <2> QED
    BY <2>1, Fading DEF Swept, Looked
<1>4. ASSUME pc' # "scan" PROVE Swept'
  BY <1>4 DEF Swept
<1>5. Start \/ Barrier \/ Postflight => \E b : Scan(b)
  BY DEF Start, Barrier, Postflight
<1>6. Inventoried \/ Verified \/ Report \/ Skip \/ Kill => pc' # "scan"
  BY DEF Inventoried, Verified, Report, Skip, Kill, Ends, GoesOn
<1>7. ASSUME NEW r \in Resource, (\E f : Take(r, f)) \/ Handles(r) PROVE pc' # "scan"
  <2>1. ASSUME NEW f, Take(r, f) PROVE pc' # "scan"
    BY <2>1 DEF Take
  <2>2. ASSUME NEW f, Refuse(r, f) \/ List(r, f) \/ DeleteChild(r, f) \/ Settle(r, f) \/ Waited(r, f)
                        \/ DeleteSelf(r, f) \/ Await(r, f)
        PROVE  pc' # "scan"
    BY <2>2 DEF Refuse, Taken, List, DeleteChild, Settle, Waited, ChildrenGone, Unlisted, DeleteSelf, Await, Over
  <2> QED
    BY <1>7, <2>1, <2>2, Zenon DEF Handles
<1> QED
  BY <1>1, <1>2, <1>3, <1>4, <1>5, <1>6, <1>7 DEF Executes

-----------------------------------------------------------------------------
(* The barriers.                                                            *)

(* An inventory that leaves no residual has found nothing but what may      *)
(* still be there.                                                          *)
LEMMA Found ==
  ASSUME TypeOK, Swept, NEW b \in {"backend", "kms", "last"}, Scanned({b}), "bad" \notin res \cup Verdict
  PROVE  \A r \in Resource : Owned(r) /\ Kind[r] \in Handled \ Allowed[b] => Scheduled(r) \/ Unseen(r)
<1>1. pc = "scan" /\ scanning[1] = b /\ scanning[2] = 8 /\ "bad" \notin res
  BY Kinds DEF Scanned, TypeOK
<1>2. Looked = Handled
  BY <1>1, AllServices DEF Looked
<1>3. ASSUME NEW r \in found, Kind[r] \notin Allowed[b] PROVE Scheduled(r)
  BY <1>1, <1>3 DEF Verdict
<1> QED
  BY <1>1, <1>2, <1>3 DEF Swept

LEMMA BetweenFades ==
  ASSUME Between, Fades, UNCHANGED barriers, todo' \subseteq todo, res \subseteq res',
         scanning'[1] \in {"none", scanning[1]}
  PROVE  Between'
<1>1. \A b : Stands(b) => Stands(b)'
  BY Fading DEF Stands
<1> QED
  BY <1>1 DEF Between

LEMMA BetweenKept ==
  ASSUME TypeOK, InHand, Swept, Between, Executes \/ World
  PROVE  Between'
<1>1. CASE Start
  BY <1>1 DEF Start, Scan, InHand, Between
<1>2. ASSUME Barrier PROVE Between'
  <2>1. PICK r \in Next1 : Barred(r) /\ Scan(Kind[r])
    BY <1>2 DEF Barrier
  <2>2. /\ r \in todo /\ Kind[r] \in {"backend", "kms"} \ barriers /\ r \in Resource
        /\ \A q \in todo : Order[Kind[r]] <= Order[Kind[q]]
    BY <2>1 DEF Next1, Barred, TypeOK
  <2>3. UNCHANGED <<barriers, todo, res>> /\ scanning'[1] = Kind[r]
    BY <1>2, <2>1 DEF Barrier, Scan
  <2>4. CASE Kind[r] = "backend"
    <3>1. barriers = {}
      BY <2>2, <2>4 DEF Between, TypeOK
    <3> QED
      BY <2>2, <2>3, <2>4, <3>1 DEF Between
  <2>5. CASE Kind[r] = "kms"
    <3>1. \A q \in todo : Kind[q] # "backend"
      BY <2>2, <2>5 DEF Order
    <3>2. barriers \subseteq {"backend"}
      BY <2>2, <2>5 DEF TypeOK
    <3> QED
      BY <2>3, <2>5, <3>1, <3>2 DEF Between, Stands
  <2> QED
    BY <2>2, <2>4, <2>5
<1>3. CASE Postflight
  BY <1>3 DEF Postflight, Scan, Between, Stands
<1>4. CASE Inventoried
  <2>1. CASE "bad" \in res
    BY <1>4, <2>1 DEF Inventoried, Ends, Forget, Between
  <2>2. CASE "bad" \notin res
    BY <1>4, <2>2 DEF Inventoried, GoesOn, Scanned, Between
  <2> QED
    BY <2>1, <2>2
<1>5. ASSUME Verified PROVE Between'
  <2>1. PICK b \in {"backend", "kms"} : Scanned({b})
    BY <1>5 DEF Verified, Scanned
  <2>2. /\ barriers' = barriers \cup {b} /\ res' = res \cup Verdict /\ UNCHANGED todo
        /\ scanning'[1] = "none" /\ scanning[1] = b
    BY <1>5, <2>1 DEF Verified, GoesOn, Adds, Scanned
  <2>3. Fades
    BY <1>5, ExecutionFades DEF Executes, Start, Barrier, Postflight, Verified, Scanned
  <2>4. Stands(b)'
    <3>1. CASE "bad" \in res'
      BY <3>1 DEF Stands
    <3>2. CASE "bad" \notin res'
      <4>1. \A r \in Resource : Owned(r) /\ Kind[r] \in Handled \ Allowed[b] => Scheduled(r) \/ Unseen(r)
        BY <2>1, <2>2, <3>2, Found
      <4>2. "kms" \in Allowed[b]
        BY DEF Allowed
      <4>3. Clear(b)
        BY <4>1, <4>2 DEF Clear, Scheduled
      <4> QED
        BY <2>3, <4>3, Fading DEF Stands
    <3> QED
      BY <3>1, <3>2
  <2>5. \A a : Stands(a) => Stands(a)'
    BY <2>2, <2>3, Fading DEF Stands
  <2> QED
    BY <2>1, <2>2, <2>4, <2>5 DEF Between
<1>6. CASE Report \/ Kill
  BY <1>6 DEF Report, Kill, Ends, Forget, Between
<1>7. ASSUME NEW f, Look(f) PROVE Between'
  <2>1. Fades
    BY <1>7, ExecutionFades DEF Executes, Start, Barrier, Postflight, Look
  <2> QED
    BY <1>7, <2>1, BetweenFades DEF Look, Adds
<1>8. CASE Skip
  <2>1. Fades
    BY <1>8, ExecutionFades DEF Executes, Start, Barrier, Postflight, Skip, history, Scan
  <2> QED
    BY <1>8, <2>1, BetweenFades DEF Skip
<1>9. ASSUME NEW r \in Resource, NEW f, Take(r, f) PROVE Between'
  <2>1. Fades
    BY <1>9 DEF Take, Fades, world, Owned, There
  <2>2. /\ barriers' = barriers /\ todo' = todo /\ scanning' = scanning
        /\ res \subseteq res' /\ pc' # "scan"
    BY <1>9 DEF Take, Adds
  <2> QED
    BY <2>1, <2>2, BetweenFades
<1>10. ASSUME NEW r \in Resource, Handles(r) PROVE Between'
  <2>1. ASSUME NEW f, Refuse(r, f) \/ List(r, f) \/ DeleteChild(r, f) \/ Settle(r, f) \/ Waited(r, f)
                        \/ DeleteSelf(r, f) \/ Await(r, f)
        PROVE  UNCHANGED <<barriers, scanning>> /\ todo' \subseteq todo /\ res \subseteq res' /\ pc' # "scan"
    <3> USE DEF Adds
    <3>1. CASE Refuse(r, f) \/ List(r, f) \/ Settle(r, f)
      BY <3>1 DEF Refuse, List, Settle, Taken
    <3>2. CASE Waited(r, f)
      BY <3>2 DEF Waited, ChildrenGone, Unlisted, Over
    <3>3. CASE Await(r, f)
      BY <3>3 DEF Await, Over
    <3>4. CASE DeleteChild(r, f)
      BY <3>4 DEF DeleteChild, Delete
    <3>5. CASE DeleteSelf(r, f)
      BY <3>5 DEF DeleteSelf, Delete
    <3> QED
      BY <2>1, <3>1, <3>2, <3>3, <3>4, <3>5
  <2>2. UNCHANGED <<barriers, scanning>> /\ todo' \subseteq todo /\ res \subseteq res' /\ pc' # "scan"
    BY <1>10, <2>1, Zenon DEF Handles
  <2>3. Executes
    BY <1>10, Zenon DEF Executes
  <2>4. Fades
    BY <2>2, <2>3, ExecutionFades DEF Start, Barrier, Postflight, Scan
  <2> QED
    BY <2>2, <2>4, BetweenFades
<1>11. ASSUME World PROVE Between'
  <2>1. UNCHANGED <<barriers, todo, res, scanning>>
    BY <1>11 DEF World, Vanish, Create, HandOver, Index, memory
  <2> QED
    BY <1>11, <2>1, WorldFades, BetweenFades
<1> QED
  BY <1>1, <1>2, <1>3, <1>4, <1>5, <1>6, <1>7, <1>8, <1>9, <1>10, <1>11 DEF Executes

LEMMA GivenKept ==
  ASSUME TypeOK, InHand, Given, Executes \/ World
  PROVE  Given'
<1>1. ASSUME pc' # "self" PROVE Given'
  BY <1>1 DEF Given
<1>2. ASSUME NEW r \in Resource, NEW f, Take(r, f) PROVE Given'
  <2>1. barriers' = barriers /\ current' = {r} /\ ~Barred(r) /\ ~Kept(r)
    BY <1>2 DEF Take, Taken
  <2>2. CASE ~f
    <3>1. res' = res
      BY <1>2, <2>2 DEF Take, Adds
    <3> QED
      BY <2>1, <3>1 DEF Given, Barred, Kept, Guarded
  <2>3. CASE f
    <3>1. Kind[r] = "eks"
      BY <1>2, <2>3 DEF Take
    <3> QED
      BY <2>1, <3>1 DEF Given
  <2> QED
    BY <2>2, <2>3
<1>3. ASSUME NEW r \in Resource, NEW f, Waited(r, f) PROVE Given'
  <2>1. pc = "list" /\ current = {r} /\ (current' = current \/ pc' = "run")
    BY <1>3 DEF Waited, ChildrenGone, Unlisted, Over
  <2>2. Kind[r] \in {"eks", "vpc"}
    BY <2>1, Kinds DEF InHand
  <2> QED
    BY <2>1, <2>2 DEF Given
<1>4. ASSUME NEW r \in Resource, Handles(r) PROVE Given'
  <2>1. ASSUME NEW f, Refuse(r, f) \/ List(r, f) \/ DeleteChild(r, f) \/ Settle(r, f)
                        \/ DeleteSelf(r, f) \/ Await(r, f)
        PROVE  pc' # "self"
    BY <2>1 DEF Refuse, Taken, List, DeleteChild, Settle, DeleteSelf, Await, Over
  <2> QED
    BY <1>1, <1>3, <1>4, <2>1, Zenon DEF Handles
<1>5. Start \/ Barrier \/ Postflight \/ Inventoried \/ Verified \/ Report \/ Skip \/ Kill => pc' # "self"
  BY DEF Start, Barrier, Postflight, Scan, Inventoried, Verified, Report, Skip, Kill, Ends, GoesOn
<1>6. ASSUME NEW f, Look(f) PROVE pc' # "self"
  BY <1>6 DEF Look
<1>7. World => UNCHANGED <<pc, current, res, barriers>>
  BY DEF World, Vanish, Create, HandOver, Index, memory
<1>8. World => Given'
  BY <1>7 DEF Given
<1> QED
  BY <1>1, <1>2, <1>4, <1>5, <1>6, <1>8 DEF Executes

-----------------------------------------------------------------------------
(* The claim.                                                               *)
LEMMA Reports ==
  ASSUME TypeOK, Swept, Report, outcome' \in {"complete", "pending"}
  PROVE  Nothing
<1>1. Scanned({"last"}) /\ outcome' = Claims
  BY DEF Report, Ends
<1>2. "bad" \notin res \cup Verdict
  BY <1>1 DEF Claims
<1>3. Allowed["last"] = {}
  BY DEF Allowed
<1> QED
  BY <1>1, <1>2, <1>3, Found DEF Nothing

LEMMA ClaimedKept ==
  ASSUME TypeOK, InHand, Swept, Claimed, Executes \/ World
  PROVE  Claimed'
<1>1. SUFFICES ASSUME outcome' \in {"complete", "pending"} PROVE pc' = "idle" /\ Nothing'
  BY DEF Claimed
<1>2. CASE Report
  <2>1. pc' = "idle" /\ UNCHANGED <<life, tag, late>>
    BY <1>2 DEF Report, Ends, world
  <2> QED
    BY <1>1, <1>2, <2>1, Reports DEF Nothing, Owned, There, Scheduled, Unseen
<1>3. ASSUME Executes, ~Report PROVE FALSE
  <2>1. outcome' = outcome => pc = "idle"
    BY <1>1 DEF Claimed
  <2>2. ASSUME NEW f, Look(f) PROVE FALSE
    BY <1>1, <2>1, <2>2 DEF Look
  <2>3. ~Start /\ ~Barrier /\ ~Skip /\ ~Postflight
    BY <1>1, <2>1 DEF Start, Barrier, Skip, Postflight
  <2>4. ~Inventoried /\ ~Verified /\ ~Kill
    BY <1>1, <2>1 DEF Inventoried, Verified, Kill, Ends, GoesOn, Scanned
  <2>5. ASSUME NEW r \in Resource, NEW f, Take(r, f) PROVE FALSE
    BY <1>1, <2>1, <2>5 DEF Take, Taken
  <2>6. ASSUME NEW r \in Resource, Handles(r) PROVE FALSE
    <3>1. ASSUME NEW f, Refuse(r, f) \/ List(r, f) \/ DeleteChild(r, f) \/ Settle(r, f) \/ Waited(r, f)
                          \/ DeleteSelf(r, f) \/ Await(r, f)
          PROVE  FALSE
      BY <1>1, <2>1, <3>1
         DEF Refuse, Taken, List, DeleteChild, Settle, Waited, ChildrenGone, Unlisted, DeleteSelf, Await
    <3> QED
      BY <2>6, <3>1, Zenon DEF Handles
  <2> QED
    BY <1>3, <2>2, <2>3, <2>4, <2>5, <2>6 DEF Executes
<1>4. ASSUME World PROVE pc' = "idle" /\ Nothing'
  <2>1. UNCHANGED <<pc, outcome>>
    BY <1>4 DEF World, Vanish, Create, HandOver, Index
  <2>2. pc' = "idle" /\ Nothing
    BY <1>1, <2>1 DEF Claimed
  <2>3. \A r \in Resource : Scheduled(r) /\ Owned(r)' => Scheduled(r)'
    BY <1>4 DEF World, Vanish, Create, HandOver, Index, Scheduled, Owned, There, TypeOK
  <2> QED
    BY <1>4, <2>2, <2>3, WorldFades, Fading DEF Nothing
<1> QED
  BY <1>2, <1>3, <1>4

-----------------------------------------------------------------------------
(* What is in hand.                                                         *)
LEMMA OursKept ==
  ASSUME TypeOK, InHand, OurOwn, Executes \/ World, \A r \in Movable : Kind[r] # "logs"
  PROVE  OurOwn'
<1> USE DEF OurOwn, Mine
<1>1. ASSUME UNCHANGED <<tag, index>>, current' = {}, seen' = {} PROVE OurOwn'
  BY <1>1
<1>2. ASSUME UNCHANGED <<tag, index, current, moved, captured>>, seen' \subseteq seen PROVE OurOwn'
  BY <1>2
<1>3. ASSUME pc \notin AtHand PROVE current = {} /\ seen = {}
  BY <1>3 DEF InHand
<1>4. Start \/ Barrier \/ Postflight \/ Inventoried \/ Verified \/ Report \/ Skip \/ Kill => OurOwn'
  <2>1. Start \/ Barrier \/ Postflight \/ Skip => UNCHANGED <<tag, index, current, moved, captured, seen>>
    BY DEF Start, Barrier, Postflight, Skip, world, history
  <2>2. Report \/ Kill => UNCHANGED <<tag, index>> /\ current' = {} /\ seen' = {}
    BY DEF Report, Kill, Ends, Forget, world
  <2>3. Verified => UNCHANGED <<tag, index, current, moved, captured, seen>>
    BY DEF Verified, GoesOn, world, history
  <2>4. Inventoried => \/ UNCHANGED <<tag, index, current, moved, captured, seen>>
                       \/ UNCHANGED <<tag, index>> /\ current' = {} /\ seen' = {}
    BY DEF Inventoried, GoesOn, Ends, Forget, world, history
  <2> QED
    BY <1>1, <1>2, <2>1, <2>2, <2>3, <2>4
<1>5. ASSUME NEW f, Look(f) PROVE OurOwn'
  BY <1>5 DEF Look, world
<1>6. ASSUME NEW r \in Resource, NEW f, Take(r, f) PROVE OurOwn'
  <2>1. UNCHANGED <<tag, index, moved, seen>> /\ current' = {r} /\ Holds(r) /\ seen = {}
    BY <1>3, <1>6 DEF Take, Taken, AtHand, world
  <2>2. Kind[r] = "scheduler" \/ tag[r] = "ours"
    <3>1. CASE Kind[r] = "kms"
      BY <2>1, <3>1 DEF Holds, TaggedHolds, Owned
    <3>2. CASE Kind[r] = "logs"
      BY <2>1, <3>2 DEF Holds, TaggedHolds
    <3>3. CASE Kind[r] \notin {"kms", "logs", "scheduler"}
      BY <2>1, <3>3 DEF Holds, AddressHolds, ProfileHolds, Owned
    <3> QED
      BY <3>1, <3>2, <3>3
  <2> QED
    BY <2>1, <2>2
<1>7. ASSUME NEW r \in Resource, NEW f, Refuse(r, f) PROVE OurOwn'
  <2>1. UNCHANGED <<tag, index, moved, seen, current, captured>>
    BY <1>7 DEF Refuse, world
  <2> QED
    BY <1>2, <2>1
<1>8. ASSUME NEW r \in Resource, NEW f, List(r, f) PROVE OurOwn'
  <2>1. UNCHANGED <<tag, index, moved, current, captured>> /\ \A c \in seen' : Ours(c)
    BY <1>8 DEF List, world, history
  <2> QED
    BY <2>1 DEF Ours, Owned
<1>9. ASSUME NEW r \in Resource, NEW f, DeleteChild(r, f) \/ Settle(r, f) \/ DeleteSelf(r, f) PROVE OurOwn'
  BY <1>2, <1>9 DEF DeleteChild, Settle, DeleteSelf, world, history
<1>10. ASSUME NEW r \in Resource, NEW f, Waited(r, f) \/ Await(r, f) PROVE OurOwn'
  <2>1. UNCHANGED <<tag, index, captured>> /\ current = {r}
    BY <1>10 DEF Waited, ChildrenGone, Unlisted, Await, world
  <2>2. (UNCHANGED <<current, seen, moved>>) \/ Over
    BY <1>10 DEF Waited, ChildrenGone, Unlisted, Await, history
  <2> QED
    BY <1>1, <1>2, <2>1, <2>2 DEF Over
<1>11. ASSUME NEW r \in Resource, Handles(r) PROVE OurOwn'
  BY <1>7, <1>8, <1>9, <1>10, <1>11, Zenon DEF Handles
<1>12. CASE Vanish \/ Create
  BY <1>2, <1>12 DEF Vanish, Create, memory, history
<1>13. ASSUME HandOver PROVE OurOwn'
  <2>1. PICK r \in Movable : /\ tag' = [tag EXCEPT ![r] = "theirs"]
                             /\ moved' = IF current = {} THEN {} ELSE moved \cup {r}
    BY <1>13 DEF HandOver
  <2>2. UNCHANGED <<index, current, seen, captured>>
    BY <1>13 DEF HandOver, memory
  <2>3. r \in Resource /\ Kind[r] # "logs"
    BY <2>1, CleanupAssumption
  <2>4. CASE current = {}
    <3>1. seen = {}
      BY <2>4 DEF InHand
    <3> QED
      BY <2>1, <2>2, <2>3, <2>4, <3>1 DEF TypeOK
  <2>5. CASE current # {}
    BY <2>1, <2>2, <2>3, <2>5 DEF TypeOK
  <2> QED
    BY <2>4, <2>5
<1>14. CASE Index
  <2>1. \A q \in index' : q \in index \/ Owned(q)
    BY <1>14 DEF Index, Indexed
  <2> QED
    BY <1>14, <2>1 DEF Index, memory, history, Owned
<1> QED
  BY <1>4, <1>5, <1>6, <1>11, <1>12, <1>13, <1>14 DEF Executes, World

-----------------------------------------------------------------------------
(* The theorems.                                                            *)
LEMMA Initial ==
  ASSUME Init
  PROVE  CleanupInv /\ OurOwn
<1> USE DEF Init
<1>1. TypeOK
  <2>1. tag \in [Resource -> {"ours", "theirs", "none"}]
    OBVIOUS
  <2>2. MaxEvents \in Nat
    BY CleanupAssumption
  <2> QED
    BY <2>1, <2>2, Kinds DEF TypeOK
<1>2. InHand
  BY DEF InHand, AtHand
<1>3. Swept /\ Between /\ Given /\ Claimed
  BY DEF Swept, Between, Given, Claimed
<1>4. ASSUME NEW r \in index, Kind[r] = "logs" PROVE tag[r] = "ours"
  BY <1>4
<1>5. OurOwn
  BY <1>4 DEF OurOwn
<1> QED
  BY <1>1, <1>2, <1>3, <1>5 DEF CleanupInv

LEMMA Step ==
  ASSUME CleanupInv, [Next]_vars
  PROVE  CleanupInv'
<1> USE DEF CleanupInv
<1>1. CASE Next
  <2>1. Executes \/ World
    BY <1>1, Actions
  <2>2. UNCHANGED events \/ (events < MaxEvents /\ events' = events + 1)
    BY <1>1 DEF Next
  <2>3. TypeOK'
    BY <2>1, <2>2, ExecutionTyped, WorldTyped
  <2> QED
    BY <2>1, <2>3, Handed, SweptKept, BetweenKept, GivenKept, ClaimedKept
<1>2. CASE UNCHANGED vars
  BY <1>2 DEF vars, world, memory, history, TypeOK, InHand, AtHand, Batches, Swept, Looked, Unseen, Owned, There,
              Between, Stands, Clear, Given, Claimed, Nothing, Scheduled
<1> QED
  BY <1>1, <1>2

(* Only the deletion of what is in hand, or of a child that is listed,      *)
(* removes something, and a cluster that takes its security group along.    *)
LEMMA Removals ==
  ASSUME TypeOK, InHand, Next, NEW r \in Resource, Removed(r)
  PROVE  \/ pc = "self" /\ current = {r}
         \/ r \in seen
         \/ Kind[r] = "group" /\ tag[r] = "none"
<1>1. Executes \/ World
  BY Actions
<1>2. ASSUME UNCHANGED life PROVE FALSE
  BY <1>2 DEF Removed
<1>3. ASSUME World PROVE Kind[r] = "group" /\ tag[r] = "none"
  <2>1. Vanish
    BY <1>3, CleanupAssumption DEF World, Create, HandOver, Index, Removed, TypeOK
  <2> QED
    BY <2>1 DEF Vanish, Removed
<1>4. ASSUME NEW q \in Resource, Handles(q) PROVE (pc = "self" /\ current = {r}) \/ r \in seen
  <2>1. ASSUME NEW f, Refuse(q, f) \/ List(q, f) \/ Settle(q, f) \/ Waited(q, f) \/ Await(q, f)
        PROVE  UNCHANGED life
    BY <2>1 DEF Refuse, List, Settle, Waited, ChildrenGone, Unlisted, Await, world
  <2>2. ASSUME NEW f, DeleteChild(q, f) PROVE r \in seen
    <3>1. PICK c \in seen : Delete(c, f)
      BY <2>2 DEF DeleteChild
    <3>2. c \in Resource
      BY DEF TypeOK
    <3> QED
      BY <3>1, <3>2, Deletion DEF Removed
  <2>3. ASSUME NEW f, DeleteSelf(q, f) PROVE pc = "self" /\ current = {r}
    <3>1. Delete(q, f) /\ pc = "self" /\ current = {q}
      BY <2>3 DEF DeleteSelf
    <3> QED
      BY <3>1, Deletion DEF Removed
  <2> QED
    BY <1>2, <1>4, <2>1, <2>2, <2>3, Zenon DEF Handles
<1>5. ASSUME Executes, \A q \in Resource : ~Handles(q) PROVE UNCHANGED life
  <2>1. Start \/ Barrier \/ Postflight \/ Skip => UNCHANGED life
    BY DEF Start, Barrier, Postflight, Skip, world
  <2>2. Inventoried \/ Verified \/ Report \/ Kill => UNCHANGED life
    BY DEF Inventoried, Verified, Report, Kill, Ends, GoesOn, world
  <2>3. ASSUME NEW f, Look(f) PROVE UNCHANGED life
    BY <2>3 DEF Look, world
  <2>4. ASSUME NEW q \in Resource, NEW f, Take(q, f) PROVE UNCHANGED life
    BY <2>4 DEF Take, world
  <2> QED
    BY <1>5, <2>1, <2>2, <2>3, <2>4 DEF Executes
<1> QED
  BY <1>1, <1>2, <1>3, <1>4, <1>5

LEMMA Invariance == Spec => []CleanupInv
<1>1. Init => CleanupInv
  BY Initial
<1>2. CleanupInv /\ [Next]_vars => CleanupInv'
  BY Step
<1> QED
  BY <1>1, <1>2, PTL DEF Spec

(* The types, for any number of disturbances: the inventory comes to its    *)
(* end, and a handler to the last of its batches.                           *)
THEOREM CleanupTyped == Spec => []TypeOK
<1>1. CleanupInv => TypeOK
  BY DEF CleanupInv
<1> QED
  BY <1>1, Invariance, PTL

(* What is not ours stays, whatever the inventory had found and whatever    *)
(* happens since, unless it is handed over while it, or the parent it is    *)
(* in, is in hand (go 1803-1828).  A log group whose tags change is left    *)
(* out: its tags are read again where the inventory found them, in the      *)
(* tagging API (unsupported, 523-560), which may lag behind.                *)
THEOREM OursOnlyHolds ==
  ASSUME \A r \in Movable : Kind[r] # "logs"
  PROVE  Spec => OursOnly
<1> DEFINE Inv == CleanupInv /\ OurOwn
<1>1. Init => Inv
  BY Initial
<1>2. Inv /\ [Next]_vars => Inv'
  <2>1. ASSUME Inv, Next PROVE OurOwn'
    <3>1. TypeOK /\ InHand /\ OurOwn
      BY <2>1 DEF CleanupInv
    <3> QED
      BY <2>1, <3>1, Actions, OursKept
  <2>2. ASSUME Inv, UNCHANGED vars PROVE OurOwn'
    BY <2>2 DEF vars, world, memory, history, OurOwn, Mine
  <2> QED
    BY <2>1, <2>2, Step
<1>3. Inv /\ [Next]_vars =>
        [\A r \in Resource : Removed(r) /\ pc # "idle" =>
           \/ tag[r] = "ours" \/ r \in moved \cup captured \/ Kind[r] = "scheduler"
           \/ (Kind[r] = "group" /\ tag[r] = "none")]_vars
  <2>1. ASSUME Inv, Next, NEW r \in Resource, Removed(r)
        PROVE  \/ tag[r] = "ours" \/ r \in moved \cup captured \/ Kind[r] = "scheduler"
               \/ (Kind[r] = "group" /\ tag[r] = "none")
    <3>1. TypeOK /\ InHand /\ OurOwn
      BY <2>1 DEF CleanupInv
    <3>2. \/ pc = "self" /\ current = {r}
          \/ r \in seen
          \/ Kind[r] = "group" /\ tag[r] = "none"
      BY <2>1, <3>1, Removals
    <3> QED
      BY <3>1, <3>2 DEF OurOwn, Mine
  <2> QED
    BY <2>1
<1> QED
  BY <1>1, <1>2, <1>3, PTL DEF Spec, OursOnly

(* A backend or a key is given up only when nothing else of ours is left    *)
(* that the inventory of its barrier could see: a failure, a crash or       *)
(* something created since never takes the key or the state before the      *)
(* rest (go 1774-1828).                                                     *)
THEOREM RecoveryLastHolds == Spec => RecoveryLast
<1>1. ASSUME CleanupInv, Next, NEW b \in Resource, Removed(b), Kind[b] \in {"backend", "kms"}
      PROVE  \A r \in Resource : Owned(r) /\ Kind[r] \in Handled \ Allowed[Kind[b]] => Unseen(r)
  <2>1. TypeOK /\ InHand /\ Between /\ Given
    BY <1>1 DEF CleanupInv
  <2>2. b \notin seen /\ Kind[b] # "group"
    BY <1>1, <2>1 DEF InHand, Children
  <2>3. pc = "self" /\ current = {b}
    BY <1>1, <2>1, <2>2, Removals
  <2>4. Kind[b] \in barriers /\ "bad" \notin res /\ b \in todo
    BY <1>1, <2>1, <2>3 DEF Given, InHand
  <2>5. Clear(Kind[b])
    BY <2>1, <2>4 DEF Between, Stands
  <2> QED
    BY <2>5 DEF Clear
<1>2. CleanupInv /\ [Next]_vars =>
        [\A b \in Resource : Removed(b) /\ Kind[b] \in {"backend", "kms"} =>
           \A r \in Resource : Owned(r) /\ Kind[r] \in Handled \ Allowed[Kind[b]] => Unseen(r)]_vars
  BY <1>1
<1> QED
  BY <1>2, Invariance, PTL DEF Spec, RecoveryLast

(* Success is not claimed, and does not stay claimed, while anything of     *)
(* ours is there that the last inventory could see: all but what the        *)
(* exceptions of ClaimTrue name (go 1829-1856).                             *)
THEOREM ClaimTrueHolds == Spec => ClaimTrue
<1>1. ASSUME CleanupInv, Next, outcome' \in {"complete", "pending"}
      PROVE  \A r \in Resource : Owned(r) /\ Kind[r] \in Handled => Scheduled(r) \/ Unseen(r)
  <2>1. TypeOK /\ Swept /\ Claimed
    BY <1>1 DEF CleanupInv
  <2>2. CASE Report
    BY <1>1, <2>1, <2>2, Reports DEF Nothing
  <2>3. CASE outcome \in {"complete", "pending"}
    BY <2>1, <2>3 DEF Claimed, Nothing
  <2>4. ~Report => outcome' = outcome \/ outcome' \notin {"complete", "pending"}
    <3>1. Executes \/ World
      BY <1>1, Actions
    <3>2. World => UNCHANGED outcome
      BY DEF World, Vanish, Create, HandOver, Index
    <3>3. ASSUME NEW r \in Resource, Handles(r) PROVE UNCHANGED outcome
      <4>1. ASSUME NEW f, Refuse(r, f) \/ List(r, f) \/ DeleteChild(r, f) \/ Settle(r, f) \/ Waited(r, f)
                            \/ DeleteSelf(r, f) \/ Await(r, f)
            PROVE  UNCHANGED outcome
        BY <4>1 DEF Refuse, List, DeleteChild, Settle, Waited, ChildrenGone, Unlisted, DeleteSelf, Await
      <4> QED
        BY <3>3, <4>1, Zenon DEF Handles
    <3>4. Start \/ Barrier \/ Postflight \/ Skip \/ Verified => UNCHANGED outcome
      BY DEF Start, Barrier, Postflight, Skip, Verified, GoesOn
    <3>5. Inventoried \/ Kill => outcome' \in {outcome, "residual", "none"}
      BY DEF Inventoried, Kill, Ends, GoesOn
    <3>6. ASSUME NEW f, Look(f) PROVE UNCHANGED outcome
      BY <3>6 DEF Look
    <3>7. ASSUME NEW r \in Resource, NEW f, Take(r, f) PROVE UNCHANGED outcome
      BY <3>7 DEF Take
    <3> QED
      BY <3>1, <3>2, <3>3, <3>4, <3>5, <3>6, <3>7 DEF Executes
  <2> QED
    BY <1>1, <2>2, <2>3, <2>4
<1>2. CleanupInv /\ [Next]_vars =>
        [outcome' \in {"complete", "pending"} =>
           \A r \in Resource : Owned(r) /\ Kind[r] \in Handled => Scheduled(r) \/ Unseen(r)]_vars
  BY <1>1
<1> QED
  BY <1>2, Invariance, PTL DEF Spec, ClaimTrue
=============================================================================
