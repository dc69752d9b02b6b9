------------------------------- MODULE Cleanup -------------------------------
(* scripts/release/delete-all-node-operator-resources.sh: the deletion of   *)
(* everything that carries a deployment's tags.  An execution takes an      *)
(* inventory, deletes what it found in a fixed order, each resource by a    *)
(* handler of its own that reads the tags again, and takes the inventory    *)
(* again before it deletes the Terraform backend, before it schedules the   *)
(* deletion of the keys and before it claims success.  It keeps nothing     *)
(* between executions: one that failed is followed by another.              *)
(*                                                                          *)
(* The AWS command may fail at any call, a deletion may take longer than    *)
(* the handler waits, and the execution may be killed.  Meanwhile resources *)
(* are created and handed over to others, and the tagging API, from which   *)
(* some kinds are only known, lags behind.                                  *)
EXTENDS Naturals, Sequences

CONSTANTS Resource,    \* what there is or may be
          Kind,        \* the kind of each
          Home,        \* the VPC or cluster it is in, the role it uses; itself for none
          Stranger,    \* what belongs to somebody else from the start
          Later,       \* what is not there yet at the start
          Movable,     \* what may be handed over to somebody else
          MaxEvents    \* bound: disturbances of all sorts

(* order, lines 1774-1801, with one kind for each way of being handled.     *)
Order == [scheduler |-> 5, logs |-> 7, eks |-> 10, instance |-> 11, vpc |-> 20, eip |-> 25, profile |-> 40,
          iam |-> 42, data |-> 70, backend |-> 92, kms |-> 99]
Handled == DOMAIN Order
(* eks 856-979 and vpc 1484-1720: what goes before a cluster and a VPC.     *)
ClusterChildren == <<"nodegroup">>
NetworkChildren == <<"nat", "subnet", "group">>
ChildKinds == [eks |-> ClusterChildren, vpc |-> NetworkChildren]
Children == {"nodegroup", "nat", "subnet", "group"}

ASSUME CleanupAssumption ==
  /\ Kind \in [Resource -> Handled \cup Children] /\ Home \in [Resource -> Resource]
  /\ \A r \in Resource : Kind[r] = "scheduler" => Kind[Home[r]] = "iam"
  /\ Stranger \subseteq Resource /\ Later \subseteq Resource /\ Movable \subseteq Resource
  /\ MaxEvents \in Nat

VARIABLES
  life,      \* "absent", "live", "deleting"; a key may be "pending"
  tag,       \* "ours", "theirs", or "none"
  index,     \* what the tagging API reports as ours
  pc,        \* where the execution is
  scanning,  \* what the inventory is for, and how far it is
  found,     \* its result
  todo,      \* what remains of the inventory that is being worked off
  current,   \* the resource in hand: {} or one
  batch,     \* which of its kinds of children
  seen,      \* the children of that kind that are going to be deleted
  captured,  \* cluster_sgs
  res,       \* what there is in the list of residuals: "bad", "pending"
  barriers,  \* verified_barriers
  outcome,   \* what the last execution has reported
  late,      \* history: created since the last inventory began, or not reported to it
  moved,     \* history: handed over since the current resource was taken in hand
  events     \* how many disturbances there have been

world == <<life, tag, index>>
memory == <<scanning, found, todo, current, batch, seen, captured, res, barriers>>
history == <<late, moved>>
vars == <<world, memory, history, pc, outcome, events>>

Init ==
  /\ life = [r \in Resource |-> IF r \in Later THEN "absent" ELSE "live"]
  /\ tag = [r \in Resource |-> CASE r \in Stranger -> "theirs" [] Kind[r] = "group" -> "none" [] OTHER -> "ours"]
  /\ index = {r \in Resource \ (Stranger \cup Later) : Kind[r] \in {"logs", "kms"}}
  /\ events = 0
  /\ pc = "idle" /\ outcome = "none"
  /\ scanning = <<"none", 1>> /\ found = {} /\ todo = {} /\ current = {} /\ batch = 1 /\ seen = {}
  /\ captured = {} /\ res = {} /\ barriers = {} /\ late = {} /\ moved = {}

There(r) == life[r] # "absent"
Owned(r) == There(r) /\ tag[r] = "ours"
In(h, k) == {c \in Resource \ {h} : Home[c] = h /\ Kind[c] = k /\ There(c)}
Remaining(h) == {c \in Resource \ {h} : Home[c] = h /\ Kind[c] \in Children /\ There(c)}
Adds(x) == res' = res \cup x

-----------------------------------------------------------------------------
(* The inventory: the tagging API, then service by service, then IAM, then  *)
(* the schedules, which are ours when the role of their target is.          *)
Services == <<{"logs", "kms"}, {"eks"}, {"vpc"}, {"eip", "instance"}, {"data", "backend"}, {"iam", "profile"}, {"scheduler"}>>
Indexed(r) == Kind[r] \in {"logs", "kms"} /\ Owned(r)
Listed(r) == CASE Kind[r] \in {"logs", "kms"} -> r \in index
               [] Kind[r] = "scheduler" -> There(r) /\ Home[r] \in found
               [] OTHER -> Owned(r)
(* A NAT gateway of ours in a VPC that is not: it will not be deleted.      *)
Orphans == {c \in Resource : Kind[c] = "nat" /\ Owned(c) /\ ~Owned(Home[c])}

Forget == /\ scanning' = <<"none", 1>> /\ found' = {} /\ todo' = {} /\ current' = {} /\ batch' = 1
          /\ seen' = {} /\ captured' = {} /\ res' = {} /\ barriers' = {} /\ moved' = {}

Scan(for) == /\ pc' = "scan" /\ scanning' = <<for, 1>> /\ found' = {} /\ late' = {}

Start == /\ pc = "idle" /\ outcome \notin {"complete", "pending"}
         /\ Scan("first")
         /\ UNCHANGED <<world, outcome, todo, current, batch, seen, captured, res, barriers, moved>>

Look(fails) ==
  /\ pc = "scan" /\ scanning[2] <= Len(Services)
  /\ LET kinds == Services[scanning[2]] IN
       /\ found' = IF fails THEN found ELSE found \cup {r \in Resource : Kind[r] \in kinds /\ Listed(r)}
       /\ Adds(IF fails \/ ("vpc" \in kinds /\ Orphans # {}) THEN {"bad"} ELSE {})
  /\ scanning' = <<scanning[1], scanning[2] + 1>>
  /\ late' = late \cup IF scanning[2] = 1 THEN {r \in Resource : Indexed(r) /\ r \notin index} ELSE {}
  /\ UNCHANGED <<world, moved, pc, outcome, todo, current, batch, seen, captured, barriers>>

Allowed == [backend |-> {"backend", "kms"}, kms |-> {"kms"}, last |-> {}]
Scheduled(r) == Kind[r] = "kms" /\ life[r] = "pending"
Verdict == {IF Scheduled(r) THEN "pending" ELSE "bad" :
              r \in {q \in found : Kind[q] \notin Allowed[scanning[1]]}}

Ends(o) == pc' = "idle" /\ outcome' = o /\ Forget /\ UNCHANGED <<world, late>>
GoesOn == /\ pc' = "run" /\ scanning' = <<"none", 1>> /\ found' = {}
          /\ UNCHANGED <<world, history, outcome, current, batch, seen, captured>>
Scanned(for) == pc = "scan" /\ scanning[1] \in for /\ scanning[2] > Len(Services)

Inventoried == /\ Scanned({"first"})
               /\ IF "bad" \in res THEN Ends("residual")
                  ELSE GoesOn /\ todo' = found /\ UNCHANGED <<res, barriers>>

Verified == /\ Scanned({"backend", "kms"})
            /\ GoesOn /\ barriers' = barriers \cup {scanning[1]} /\ Adds(Verdict) /\ UNCHANGED todo

HeedlessClaims == \* mutant: what the last inventory finds is not held against the execution
  IF "bad" \in res THEN "residual" ELSE IF "pending" \in res THEN "pending" ELSE "complete"
Claims == LET all == res \cup Verdict IN
          IF "bad" \in all THEN "residual" ELSE IF "pending" \in all THEN "pending" ELSE "complete"
Report == Scanned({"last"}) /\ Ends(Claims)

-----------------------------------------------------------------------------
(* go: the next resource; what may still be needed waits for a barrier, and *)
(* stays when anything is left over.                                        *)
Next1 == {r \in todo : \A q \in todo : Order[Kind[r]] <= Order[Kind[q]]}
Guarded == {"data", "backend", "kms"}
Barred(r) == Kind[r] \in {"backend", "kms"} \ barriers
HeedlessKept(r) == FALSE \* mutant: residuals do not stop the deletion of data and keys
Kept(r) == Kind[r] \in Guarded /\ "bad" \in res

Barrier == /\ pc = "run" /\ \E r \in Next1 : Barred(r) /\ Scan(Kind[r])
           /\ UNCHANGED <<world, outcome, todo, current, batch, seen, captured, res, barriers, moved>>

Skip == /\ pc = "run" /\ \E r \in Next1 : ~Barred(r) /\ Kept(r) /\ todo' = todo \ {r}
        /\ UNCHANGED <<world, history, pc, outcome, scanning, found, current, batch, seen, captured, res, barriers>>

Postflight == /\ pc = "run" /\ todo = {} /\ Scan("last")
              /\ UNCHANGED <<world, outcome, todo, current, batch, seen, captured, res, barriers, moved>>

(* Every handler begins by reading the tags once more, where the inventory  *)
(* had found them: unsupported for what the tagging API knows, where a key  *)
(* whose deletion is scheduled is only reported; scheduler_delete, by the   *)
(* role; ec2child, which leaves an address in use alone; instance_profile,  *)
(* which leaves a profile alone that holds a foreign role; the others.      *)
TaggedHolds(r) == IF Kind[r] = "kms" THEN Owned(r) /\ ~Scheduled(r) ELSE r \in index
ScheduleHolds(r) == There(r) /\ Owned(Home[r])
AddressHolds(r) == Owned(r) /\ ~There(Home[r])
ProfileHolds(r) == Owned(r) /\ (There(Home[r]) => Owned(Home[r]))
UnreadHolds(r) == There(r) \* mutant: whatever the inventory has found is deleted
Holds(r) == CASE Kind[r] \in {"logs", "kms"} -> TaggedHolds(r) [] Kind[r] = "scheduler" -> ScheduleHolds(r)
              [] Kind[r] = "eip" -> AddressHolds(r) [] Kind[r] = "profile" -> ProfileHolds(r)
              [] OTHER -> Owned(r)

Taken(r) == pc = "run" /\ r \in Next1 /\ ~Barred(r) /\ ~Kept(r)
(* A cluster's handler notes its security group before it lists the         *)
(* children; when describe-cluster fails it goes on without.                *)
Take(r, fails) ==
  /\ Taken(r) /\ Holds(r) /\ (fails => Kind[r] = "eks")
  /\ pc' = IF Kind[r] \in DOMAIN ChildKinds THEN "list" ELSE "self"
  /\ current' = {r} /\ batch' = 1 /\ UNCHANGED moved
  /\ captured' = IF Kind[r] = "eks" /\ ~fails THEN captured \cup {g \in Resource : Kind[g] = "group" /\ There(g) /\ tag[g] = "none"}
                 ELSE captured
  /\ Adds(IF fails THEN {"bad"} ELSE {})
  /\ UNCHANGED <<world, outcome, scanning, found, todo, seen, barriers, late>>

MislabelledReason(r, fails) == IF ~fails /\ Scheduled(r) THEN "scheduled" ELSE "bad" \* mutant: a kind nothing knows
StrictReason(r, fails) == "bad" \* mutant: a key whose deletion is scheduled counts as left over
Reason(r, fails) == IF ~fails /\ Scheduled(r) THEN "pending" ELSE "bad"
Refuse(r, fails) ==
  /\ Taken(r) /\ (fails \/ ~Holds(r))
  /\ Adds({Reason(r, fails)})
  /\ todo' = todo \ {r}
  /\ UNCHANGED <<world, outcome, pc, scanning, found, current, batch, seen, captured, barriers, late, moved>>

Over == /\ pc' = "run" /\ todo' = todo \ current /\ current' = {} /\ seen' = {} /\ batch' = 1
        /\ moved' = {}

-----------------------------------------------------------------------------
(* AWS.  A deletion that something depends on is refused; some take their   *)
(* time.                                                                    *)
Slow == {"eks", "nodegroup", "nat", "instance", "data", "backend"}
Depends(r) == CASE Kind[r] \in DOMAIN ChildKinds -> Remaining(r)
                [] Kind[r] \in {"subnet", "group"} ->
                     {c \in Resource : There(c) /\ Kind[c] \in {"eks", "nat", "instance"} /\ Home[c] = Home[r]}
                [] Kind[r] = "iam" -> {c \in Resource : There(c) /\ Kind[c] = "profile" /\ Home[c] = r}
                [] OTHER -> {}
Gone(r) == [life EXCEPT ![r] = CASE Kind[r] = "kms" -> "pending" [] Kind[r] \in Slow -> "deleting"
                                 [] OTHER -> "absent"]
Delete(r, fails) ==
  IF ~There(r) /\ ~fails THEN UNCHANGED <<life, res>>
  ELSE IF fails \/ Depends(r) # {} THEN Adds({"bad"}) /\ UNCHANGED life
  ELSE life' = Gone(r) /\ UNCHANGED res

(* A parent's children, kind by kind: of a listing those are deleted that   *)
(* are ours, and the security group that the cluster's handler has noted.   *)
Ours(c) == Owned(c) \/ c \in captured
Batches(r) == ChildKinds[Kind[r]]

List(r, fails) ==
  /\ pc = "list" /\ current = {r} /\ batch <= Len(Batches(r))
  /\ LET all == In(r, Batches(r)[batch]) IN
       /\ seen' = IF fails THEN {} ELSE {c \in all : Ours(c)}
       /\ Adds(IF fails \/ \E c \in all : ~Ours(c) THEN {"bad"} ELSE {})
  /\ pc' = "batch"
  /\ UNCHANGED <<world, history, outcome, scanning, found, todo, current, batch, captured, barriers>>

DeleteChild(r, fails) ==
  /\ pc = "batch" /\ current = {r}
  /\ \E c \in seen : Delete(c, fails) /\ seen' = seen \ {c}
  /\ UNCHANGED <<tag, index, history, pc, outcome, scanning, found, todo, current, batch, captured, barriers>>

(* A VPC's gateways are waited for one kind at a time, a cluster's children *)
(* in the end and all together: whatever is left then is left for good.     *)
Settled(r) == \A c \in In(r, Batches(r)[batch]) : Kind[r] = "vpc" => life[c] # "deleting"
Settle(r, patient) ==
  /\ pc = "batch" /\ current = {r} /\ seen = {} /\ (patient <=> Settled(r))
  /\ Adds(IF patient THEN {} ELSE {"bad"})
  /\ pc' = "list" /\ batch' = batch + 1
  /\ UNCHANGED <<world, history, outcome, scanning, found, todo, current, seen, captured, barriers>>

Cleared(r) == Kind[r] = "vpc" \/ Remaining(r) = {}
ChildrenGone(r, patient) ==
  /\ pc = "list" /\ current = {r} /\ batch > Len(Batches(r)) /\ (patient <=> Cleared(r))
  /\ IF patient THEN pc' = "self" /\ UNCHANGED <<todo, current, seen, batch, res, moved>> ELSE Over /\ Adds({"bad"})
  /\ UNCHANGED <<world, late, outcome, scanning, found, captured, barriers>>

(* A listing that fails is an empty one: the wait for a cluster's children  *)
(* ends, and the cluster is tried with what is left of them.                *)
Unlisted(r) == /\ pc = "list" /\ current = {r} /\ batch > Len(Batches(r)) /\ Kind[r] = "eks"
               /\ pc' = "self" /\ Adds({"bad"})
               /\ UNCHANGED <<world, history, outcome, scanning, found, todo, current, batch, seen,
                              captured, barriers>>

(* The resource itself.                                                     *)
DeleteSelf(r, fails) ==
  /\ pc = "self" /\ current = {r}
  /\ Delete(r, fails)
  /\ pc' = "await"
  /\ UNCHANGED <<tag, index, history, outcome, scanning, found, todo, current, batch, seen, captured, barriers>>

Await(r, patient) ==
  /\ pc = "await" /\ current = {r} /\ (patient <=> life[r] # "deleting")
  /\ Adds(IF patient THEN {} ELSE {"bad"}) /\ Over
  /\ UNCHANGED <<world, late, outcome, scanning, found, captured, barriers>>

-----------------------------------------------------------------------------
(* The world goes on.  A cluster takes its security group along, or not.    *)
Vanish == \E r \in Resource :
            /\ life[r] = "deleting"
            /\ \E g \in SUBSET {c \in Resource : Kind[r] = "eks" /\ Kind[c] = "group" /\ tag[c] = "none" /\ There(c)} :
                 life' = [q \in Resource |-> IF q \in g \cup {r} THEN "absent" ELSE life[q]]
            /\ UNCHANGED <<tag, index, memory, history, pc, outcome>>

Create == /\ outcome \notin {"complete", "pending"}
          /\ \E r \in Later : /\ life[r] = "absent" /\ tag[r] = "ours" /\ life' = [life EXCEPT ![r] = "live"]
                              /\ (Home[r] = r \/ There(Home[r])) /\ late' = late \cup {r}
          /\ UNCHANGED <<tag, index, memory, moved, pc, outcome>>

HandOver == /\ \E r \in Movable : /\ Owned(r) /\ tag' = [tag EXCEPT ![r] = "theirs"]
                                  /\ moved' = IF current = {} THEN {} ELSE moved \cup {r}
            /\ UNCHANGED <<life, index, memory, late, pc, outcome>>

Index == \E r \in Resource : /\ Kind[r] \in {"logs", "kms"} /\ (r \in index) # Indexed(r)
                             /\ index' = IF Indexed(r) THEN index \cup {r} ELSE index \ {r}
                             /\ UNCHANGED <<life, tag, memory, history, pc, outcome>>

Kill == pc # "idle" /\ Ends("none")

Handler(ok) == \E r \in Resource :
  Refuse(r, ~ok) \/ List(r, ~ok) \/ DeleteChild(r, ~ok) \/ Settle(r, ok) \/ ChildrenGone(r, ok)
    \/ DeleteSelf(r, ~ok) \/ Await(r, ok)
(* Nothing is on its way any more: the wait ends with its time.             *)
Hopeless(r) == \A c \in Remaining(r) : life[c] # "deleting"
Work == \/ Start \/ Look(FALSE) \/ Inventoried \/ Verified \/ Report \/ Barrier \/ Skip \/ Postflight
        \/ (\E r \in Resource : Take(r, FALSE) \/ (Hopeless(r) /\ ChildrenGone(r, FALSE))) \/ Handler(TRUE)
Fail == Look(TRUE) \/ Handler(FALSE) \/ \E r \in Resource : Take(r, TRUE) \/ Unlisted(r)

Goes == Work \/ Vanish \/ Index
Disturbs == Fail \/ Create \/ HandOver \/ Kill
Next == \/ Goes /\ UNCHANGED events
        \/ events < MaxEvents /\ Disturbs /\ events' = events + 1

Spec == Init /\ [][Next]_vars

(* The operator runs it again until it succeeds, AWS ends what it has begun *)
(* and the tagging API catches up.                                          *)
FairSpec == Spec /\ WF_vars(Work /\ UNCHANGED events)
                 /\ WF_vars(Vanish /\ UNCHANGED events) /\ WF_vars(Index /\ UNCHANGED events)

-----------------------------------------------------------------------------
TypeOK ==
  /\ life \in [Resource -> {"absent", "live", "deleting", "pending"}]
  /\ tag \in [Resource -> {"ours", "theirs", "none"}] /\ index \subseteq Resource
  /\ pc \in {"idle", "scan", "run", "list", "batch", "self", "await"}
  /\ scanning \in {"none", "first", "backend", "kms", "last"} \X (1 .. Len(Services) + 1)
  /\ found \subseteq Resource /\ todo \subseteq Resource /\ current \subseteq Resource
  /\ seen \subseteq Resource /\ captured \subseteq Resource /\ batch \in 1 .. 4
  /\ res \subseteq {"bad", "pending"} /\ barriers \subseteq {"backend", "kms"}
  /\ outcome \in {"none", "residual", "pending", "complete"}
  /\ late \subseteq Resource /\ moved \subseteq Resource
  /\ events \in 0 .. MaxEvents

Removed(r) == life[r] = "live" /\ life'[r] # "live"

(* However old the inventory is, what has been handed over is not deleted,  *)
(* unless that happened while it, or the parent it is in, was in hand; and  *)
(* nothing that was never ours but the cluster's own security group         *)
(* (go 1803-1828 and the checks at the start of each handler).              *)
OursOnly == [][\A r \in Resource : Removed(r) /\ pc # "idle" =>
                 \/ tag[r] = "ours" \/ r \in moved \cup captured \/ Kind[r] = "scheduler"
                 \/ (Kind[r] = "group" /\ tag[r] = "none")]_vars

(* What is needed to recover what remains goes last: a backend or a key is  *)
(* given up only when nothing else of ours is left, but what was created    *)
(* since the inventory of its barrier or what that could not see: what the  *)
(* tagging API did not yet report, and a schedule whose role is gone or was *)
(* created since.                                                           *)
Unseen(r) == r \in late \/ (Kind[r] = "scheduler" /\ (~Owned(Home[r]) \/ Home[r] \in late))
RecoveryLast ==
  [][\A b \in Resource : Removed(b) /\ Kind[b] \in {"backend", "kms"} =>
       \A r \in Resource : Owned(r) /\ Kind[r] \in Handled \ Allowed[Kind[b]] => Unseen(r)]_vars

(* Success is not claimed while anything of ours is there, but what was     *)
(* created meanwhile, what the tagging API does not show, and a schedule    *)
(* whose role is gone or not ours any more, or was created meanwhile.       *)
ClaimTrue ==
  [][outcome' \in {"complete", "pending"} =>
       \A r \in Resource : Owned(r) /\ Kind[r] \in Handled => Scheduled(r) \/ Unseen(r)]_vars

(* What keeps an execution from ever succeeding: something of somebody      *)
(* else's inside what is ours or ours inside theirs, or the security group  *)
(* of a cluster that is gone, which no later execution can recognize.       *)
Stuck == \/ \E c \in Resource : /\ There(c) /\ tag[c] = "theirs" /\ Home[c] # c
                                /\ Kind[c] \in Children \cup {"eks"} /\ Owned(Home[c])
         \/ \E g \in Resource : /\ Kind[g] = "group" /\ There(g) /\ tag[g] = "none" /\ g \notin captured
                                /\ \A c \in Resource : Kind[c] = "eks" => ~Owned(c)
         \/ \E c \in Resource : Kind[c] \in {"nat", "profile"} /\ Owned(c) /\ There(Home[c]) /\ ~Owned(Home[c])

(* Executed again and again, the deletion is completed in the end, whatever *)
(* failed in between and however long it takes, or is stuck (go 1744-1856). *)
Completes == <>[](outcome \in {"complete", "pending"} \/ Stuck)
=============================================================================
