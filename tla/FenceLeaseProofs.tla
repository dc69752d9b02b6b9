-------------------------- MODULE FenceLeaseProofs --------------------------
(* Proofs about FenceLease for every set of Pods, every duration, flag and  *)
(* bound, as long as clocks disagree by no more than the safety margin.     *)
EXTENDS FenceLease, TLAPS

(* The initial states are typed.                                            *)
LEMMA InitTyped == Init => TypeOK
<1> SUFFICES ASSUME Init PROVE TypeOK
  OBVIOUS
<1> USE FlagAssumption, PodAssumption
<1>1. PICK d \in Durations :
        lease = [rv |-> 0, holder |-> NoPod, renewed |-> NoTime, duration |-> d]
  BY DEF Init
<1>3. lease \in Leases /\ lease.holder = NoPod
  BY <1>1 DEF Leases, Holders
<1>2. Blank \in Leases
  BY DEF Blank, Leases, Holders, NoTime
<1> QED
  BY <1>2, <1>3 DEF Init, TypeOK, PC

(* What a passing PATCH makes of the Lease.                                 *)
LEMMA ApplyTyped ==
  ASSUME TypeOK, NEW m \in Patches, Apply(m)
  PROVE  /\ lease' \in Leases
         /\ lease'.rv = lease.rv + 1
         /\ lease'.holder = m.holder
         /\ lease'.renewed = m.renewed
         /\ lease'.duration = lease.duration
         /\ HasRenewed(lease')
<1>1. /\ lease.rv \in Nat /\ lease.duration \in Nat
      /\ m.holder \in Holders /\ m.renewed \in Nat
  BY DEF TypeOK, Leases, Patches
<1>2. lease' = [rv |-> lease.rv + 1, holder |-> m.holder,
                renewed |-> m.renewed, duration |-> lease.duration]
  BY DEF Apply
<1> QED
  BY <1>1, <1>2 DEF Leases, HasRenewed, NoTime

(* The PATCH of a process, and of the script, is a patch.                   *)
LEMMA PatchTyped ==
  ASSUME TypeOK
  PROVE  /\ \A p \in Pod : PatchOf(p) \in Patches
         /\ opc = "rechecked" => OpPatch \in Patches
BY DEF TypeOK, PatchOf, OpPatch, Patches, Leases, Holders, HasRenewed

(* Every step keeps the types.                                              *)
LEMMA StepTyped == TypeOK /\ [Next]_vars => TypeOK'
<1> SUFFICES ASSUME TypeOK, [Next]_vars PROVE TypeOK'
  OBVIOUS
<1> USE FlagAssumption, SkewAssumption, PodAssumption
<1>0. Blank \in Leases
  BY DEF Blank, Leases, Holders, NoTime
<1>1. CASE Tick
  BY <1>1 DEF Tick, TypeOK, procVars, opVars, HasRenewed
<1>2. ASSUME NEW p \in Pod, Fence(p) PROVE TypeOK'
  <2>a. ASSUME Trip(p) PROVE TypeOK'
    BY <1>0, <2>a, PatchTyped DEF Trip, Forget, TypeOK, opVars, PC, HasRenewed
  <2>1. CASE Boot(p) \/ Poll(p)
    BY <2>1 DEF Boot, Poll, TypeOK, opVars, PC, HasRenewed
  <2>2. CASE Get(p)
    BY <2>2 DEF Get, TypeOK, opVars, PC, HasRenewed
  <2>3. CASE Send(p)
    BY <2>3 DEF Send, TypeOK, opVars, PC, HasRenewed, WallClock
  <2>4. CASE Refuse(p) \/ Expire(p) \/ Abandon(p)
    BY <2>4, <2>a DEF Refuse, Expire, Abandon
  <2>5. CASE Deliver(p)
    BY <2>5, ApplyTyped, PatchTyped DEF Deliver, TypeOK, opVars, PC, HasRenewed
  <2>6. CASE Conflict(p)
    BY <1>0, <2>6 DEF Conflict, Forget, TypeOK, opVars, PC, HasRenewed
  <2>7. CASE Receive(p)
    <3>1. GrantedDeadline(p) \in Nat
      BY <2>7 DEF Receive, GrantedDeadline, Usable, TypeOK, Leases
    <3> QED
      BY <1>0, <2>7, <3>1 DEF Receive, Forget, TypeOK, opVars, PC, HasRenewed
  <2> QED
    BY <1>2, <2>1, <2>2, <2>3, <2>4, <2>5, <2>6, <2>7 DEF Fence
<1>3. ASSUME NEW m \in late, DeliverLate(m) \/ LoseLate(m) PROVE TypeOK'
  <2> m \in Patches
    BY DEF TypeOK
  <2>1. CASE DeliverLate(m)
    BY <2>1, ApplyTyped DEF DeliverLate, TypeOK, procVars, opVars, HasRenewed
  <2>2. CASE LoseLate(m)
    BY <2>2 DEF LoseLate, TypeOK, procVars, opVars, HasRenewed
  <2> QED
    BY <1>3, <2>1, <2>2
<1>4. CASE Operator
  <2>1. CASE OpQuiesce \/ OpRecheck
    BY <2>1 DEF OpQuiesce, OpRecheck, TypeOK, procVars, HasRenewed
  <2>2. CASE OpRead
    BY <2>2 DEF OpRead, Releasable, TypeOK, procVars, HasRenewed
  <2>3. CASE OpRelease
    BY <1>0, <2>3, ApplyTyped, PatchTyped DEF OpRelease, TypeOK, procVars, HasRenewed
  <2>4. CASE OpStop
    BY <1>0, <2>4, PatchTyped DEF OpStop, TypeOK, procVars, HasRenewed
  <2> QED
    BY <1>4, <2>1, <2>2, <2>3, <2>4 DEF Operator
<1>5. CASE UNCHANGED vars
  BY <1>5 DEF vars, procVars, opVars, TypeOK, HasRenewed
<1> QED
  BY <1>1, <1>2, <1>3, <1>4, <1>5 DEF Next

(* Type correctness of the fences, the Lease and the requests in flight.    *)
THEOREM TypeCorrect == Spec => []TypeOK
BY InitTyped, StepTyped, PTL DEF Spec

-----------------------------------------------------------------------------
(* A PATCH that is safe to apply finds no other Pod with authority: whoever *)
(* holds the Lease stops forwarding before any clock shows it expired.      *)
LEMMA HolderGone ==
  ASSUME IInv, NEW m \in Patches, PatchSafe(m), Passes(m),
         NEW p \in Pod, p # m.holder
  PROVE  /\ ~(now < deadline[p])
         /\ pc[p] = "applied" => ~(now < GrantedDeadline(p))
<1> USE SkewAssumption, FlagAssumption, PodAssumption
<1>1. TypeOK /\ SentInv /\ DeadlineInv
  BY DEF IInv
<1>2. lease.holder = p => now + MaxSkew >= lease.renewed + lease.duration
  BY DEF PatchSafe, Passes
<1>3. /\ now \in Nat /\ lease.duration \in Nat /\ lease.renewed \in Int
      /\ deadline[p] \in Nat /\ base[p] \in Nat
  BY <1>1 DEF TypeOK, Leases, NoTime
<1>4. ~(now < deadline[p])
  BY <1>1, <1>2, <1>3 DEF DeadlineInv
<1>5. pc[p] = "applied" => ~(now < GrantedDeadline(p))
  BY <1>1, <1>2, <1>3 DEF SentInv, GrantedDeadline
<1> QED
  BY <1>4, <1>5

(* Requests computed from an older version, and what was read of it, stay   *)
(* harmless when the Lease moves on.                                        *)
LEMMA ApplyAges ==
  ASSUME TypeOK, NEW m \in Patches, Apply(m), UNCHANGED now
  PROVE  /\ \A x \in Patches : PatchPast(x) => x.rv < lease'.rv
         /\ \A x \in Patches : PatchPast(x) => PatchSafe(x)' /\ PatchPast(x)'
         /\ \A l \in Leases : l.rv <= lease.rv => l.rv < lease'.rv
<1>1. lease.rv \in Nat /\ lease'.rv = lease.rv + 1
  BY ApplyTyped DEF TypeOK, Leases
<1>2. ASSUME NEW x \in Patches, PatchPast(x) PROVE x.rv < lease'.rv
  BY <1>1, <1>2 DEF PatchPast, Patches
<1>3. ASSUME NEW x \in Patches, PatchPast(x) PROVE PatchSafe(x)' /\ PatchPast(x)'
  BY <1>1, <1>2, <1>3 DEF PatchPast, PatchSafe, Patches
<1>4. ASSUME NEW l \in Leases, l.rv <= lease.rv PROVE l.rv < lease'.rv
  BY <1>1, <1>4 DEF Leases
<1> QED
  BY <1>2, <1>3, <1>4

(* The initial states satisfy the inductive invariant.                      *)
LEMMA InitInv == Init => IInv
<1> SUFFICES ASSUME Init PROVE IInv
  OBVIOUS
<1>1. TypeOK
  BY InitTyped
<1>2. lease.renewed <= now + MaxSkew
  BY SkewAssumption DEF Init, NoTime
<1>3. ViewInv /\ OpInv /\ SentInv /\ LateInv
  BY DEF Init, ViewInv, OpInv, SentInv, LateInv
<1>4. DeadlineInv
  BY DEF Init, DeadlineInv
<1> QED
  BY <1>1, <1>2, <1>3, <1>4 DEF IInv

(* Time passes.                                                             *)
LEMMA TickInv == IInv /\ Tick => IInv'
<1> SUFFICES ASSUME IInv, Tick PROVE IInv'
  OBVIOUS
<1> USE SkewAssumption, FlagAssumption
<1>1. TypeOK /\ TypeOK'
  BY StepTyped DEF IInv, Next
<1>2. now \in Nat /\ now' = now + 1 /\ UNCHANGED <<lease, pc, view, stamp, base, deadline, late, opc, oview>>
  BY <1>1 DEF Tick, TypeOK, procVars, opVars
<1>3. ASSUME NEW m \in Patches, PatchSafe(m), PatchPast(m)
      PROVE  PatchSafe(m)' /\ PatchPast(m)'
  BY <1>1, <1>2, <1>3 DEF PatchSafe, PatchPast, Patches, TypeOK, Leases, NoTime
<1>4. (lease.renewed <= now + MaxSkew)'
  BY <1>1, <1>2 DEF IInv, TypeOK, Leases, NoTime
<1>5. ViewInv'
  BY <1>2 DEF IInv, ViewInv
<1>6. OpInv'
  BY <1>1, <1>2 DEF IInv, OpInv, TypeOK, Leases, NoTime
<1>7. SentInv'
  <2> SUFFICES ASSUME NEW p \in Pod
               PROVE  /\ pc[p] = "sent" => /\ PatchSafe(PatchOf(p))' /\ PatchPast(PatchOf(p))'
                                           /\ base[p] <= stamp[p] /\ base[p] <= now'
                      /\ pc[p] = "applied" =>
                           /\ base[p] <= now'
                           /\ view[p].duration = lease.duration
                           /\ now' < GrantedDeadline(p) => lease.holder = p /\ base[p] <= lease.renewed
    BY <1>2 DEF SentInv, GrantedDeadline, PatchOf, PatchSafe, PatchPast
  <2>1. base[p] \in Nat /\ view[p].duration \in Nat /\ PatchOf(p) \in Patches
    BY <1>1, PatchTyped DEF TypeOK, Leases
  <2>2. SentInv
    BY DEF IInv
  <2>3. CASE pc[p] = "sent"
    BY <1>2, <1>3, <2>1, <2>2, <2>3 DEF SentInv, PatchOf, PatchSafe, PatchPast
  <2>4. CASE pc[p] = "applied"
    BY <1>2, <2>1, <2>2, <2>4 DEF SentInv, GrantedDeadline
  <2> QED
    BY <2>3, <2>4
<1>8. LateInv'
  BY <1>1, <1>2, <1>3 DEF IInv, LateInv, TypeOK
<1>9. DeadlineInv'
  BY <1>1, <1>2 DEF IInv, DeadlineInv, TypeOK, Leases, NoTime
<1> QED
  BY <1>1, <1>4, <1>5, <1>6, <1>7, <1>8, <1>9 DEF IInv

(* What a process leaves behind when it stops is harmless: its request was. *)
LEMMA TripInv ==
  ASSUME IInv, NEW p \in Pod, TypeOK',
         UNCHANGED <<now, lease, opc, oview>>,
         pc' = [pc EXCEPT ![p] = "down"],
         deadline' = [deadline EXCEPT ![p] = 0],
         Forget(p),
         late' \in {late, late \cup {PatchOf(p)}},
         late' # late => pc[p] = "sent"
  PROVE  IInv'
<1>1. TypeOK /\ SentInv /\ LateInv
  BY DEF IInv
<1>2. /\ \A q \in Pod : q # p => /\ pc'[q] = pc[q] /\ deadline'[q] = deadline[q]
                                 /\ view'[q] = view[q] /\ stamp'[q] = stamp[q]
                                 /\ base'[q] = base[q]
      /\ pc'[p] = "down" /\ deadline'[p] = 0
  BY <1>1 DEF TypeOK, Forget
<1>3. (lease.renewed <= now + MaxSkew)' /\ OpInv'
  BY DEF IInv, OpInv
<1>4. ViewInv'
  BY <1>2 DEF IInv, ViewInv
<1>5. SentInv'
  BY <1>1, <1>2 DEF SentInv, PatchOf, PatchSafe, PatchPast, GrantedDeadline
<1>6. LateInv'
  <2> SUFFICES ASSUME NEW m \in late'
               PROVE  /\ PatchSafe(m) /\ PatchPast(m)
                      /\ \A q \in Pod : m.holder = q /\ (deadline'[q] # 0 \/ pc'[q] = "applied")
                                          => m.rv < lease.rv
    BY DEF LateInv, PatchSafe, PatchPast
  <2>1. CASE m \in late
    BY <1>1, <1>2, <2>1 DEF LateInv
  <2>2. CASE m \notin late
    <3>1. m = PatchOf(p) /\ pc[p] = "sent"
      BY <2>2
    <3> QED
      BY <1>1, <1>2, <3>1 DEF SentInv, PatchOf
  <2> QED
    BY <2>1, <2>2
<1>7. DeadlineInv'
  BY <1>1, <1>2 DEF IInv, DeadlineInv, TypeOK
<1> QED
  BY <1>3, <1>4, <1>5, <1>6, <1>7 DEF IInv

(* A process starts, or its ticker fires.                                   *)
LEMMA BootPollInv ==
  ASSUME IInv, TypeOK', NEW p \in Pod, Boot(p) \/ Poll(p) PROVE IInv'
<1>1. TypeOK
  BY DEF IInv
<1>2. /\ UNCHANGED <<now, lease, view, stamp, base, deadline, late, opc, oview>>
      /\ pc[p] \in {"down", "run"} /\ pc' = [pc EXCEPT ![p] = "poll"]
  BY DEF Boot, Poll, opVars
<1>3. (lease.renewed <= now + MaxSkew)' /\ OpInv' /\ ViewInv'
  BY <1>1, <1>2 DEF IInv, OpInv, ViewInv, TypeOK
<1>4. SentInv'
  BY <1>1, <1>2 DEF IInv, SentInv, PatchOf, PatchSafe, PatchPast, GrantedDeadline, TypeOK
<1>5. LateInv'
  BY <1>1, <1>2 DEF IInv, LateInv, PatchSafe, PatchPast, TypeOK
<1>6. DeadlineInv'
  BY <1>1, <1>2 DEF IInv, DeadlineInv, TypeOK
<1> QED
  BY <1>3, <1>4, <1>5, <1>6 DEF IInv

(* The Lease is read.                                                       *)
LEMMA GetInv == ASSUME IInv, TypeOK', NEW p \in Pod, Get(p) PROVE IInv'
<1>1. TypeOK
  BY DEF IInv
<1>2. /\ UNCHANGED <<now, lease, stamp, base, deadline, late, opc, oview>>
      /\ pc[p] = "poll" /\ pc' = [pc EXCEPT ![p] = "got"]
      /\ view' = [view EXCEPT ![p] = lease]
  BY DEF Get, opVars
<1>3. (lease.renewed <= now + MaxSkew)' /\ OpInv'
  BY <1>1, <1>2 DEF IInv, OpInv, TypeOK
<1>4. ViewInv'
  BY <1>1, <1>2 DEF IInv, ViewInv, TypeOK, Leases
<1>5. SentInv'
  BY <1>1, <1>2 DEF IInv, SentInv, PatchOf, PatchSafe, PatchPast, GrantedDeadline, TypeOK
<1>6. LateInv'
  BY <1>1, <1>2 DEF IInv, LateInv, PatchSafe, PatchPast, TypeOK
<1>7. DeadlineInv'
  BY <1>1, <1>2 DEF IInv, DeadlineInv, TypeOK
<1> QED
  BY <1>3, <1>4, <1>5, <1>6, <1>7 DEF IInv

(* The decision: the PATCH sent is safe as long as the version it read is   *)
(* current, because clocks differ by at most the skew.                      *)
LEMMA SendInv == ASSUME IInv, TypeOK', NEW p \in Pod, Send(p) PROVE IInv'
<1> USE SkewAssumption, FlagAssumption, PodAssumption
<1>1. TypeOK
  BY DEF IInv
<1>2. PICK w \in WallClock(now) : /\ Acceptable(p, view[p], w)
                                  /\ stamp' = [stamp EXCEPT ![p] = w]
  BY DEF Send
<1>3. /\ UNCHANGED <<now, lease, view, deadline, late, opc, oview>>
      /\ pc[p] = "got" /\ pc' = [pc EXCEPT ![p] = "sent"]
      /\ base' = [base EXCEPT ![p] = now]
  BY DEF Send, opVars
<1>4. w \in Int /\ now <= w /\ w <= now + MaxSkew /\ now \in Nat
  BY <1>1 DEF WallClock, TypeOK
<1>5. (lease.renewed <= now + MaxSkew)' /\ OpInv' /\ ViewInv'
  BY <1>1, <1>3 DEF IInv, OpInv, ViewInv, TypeOK
<1>6. PatchSafe(PatchOf(p))' /\ PatchPast(PatchOf(p))'
  <2>1. PatchOf(p)' = [rv |-> view[p].rv, test |-> view[p].holder, holder |-> p, renewed |-> w]
    BY <1>1, <1>2, <1>3 DEF PatchOf, TypeOK
  <2>2. view[p].rv <= lease.rv /\ (view[p].rv = lease.rv => view[p] = lease)
    BY <1>3 DEF IInv, ViewInv
  <2>3. /\ lease.renewed \in Int /\ lease.duration \in Nat
        /\ lease.renewed <= now + MaxSkew
    BY <1>1 DEF IInv, TypeOK, Leases, NoTime
  <2>4. CASE view[p].rv = lease.rv
    BY <1>2, <1>3, <1>4, <2>1, <2>2, <2>3, <2>4
       DEF PatchSafe, PatchPast, Acceptable, ExpiredAt
  <2>5. CASE view[p].rv # lease.rv
    BY <1>3, <1>4, <2>1, <2>2, <2>5 DEF PatchSafe, PatchPast
  <2> QED
    BY <2>4, <2>5
<1>7. SentInv'
  <2> SUFFICES ASSUME NEW q \in Pod
               PROVE  /\ pc'[q] = "sent" => /\ PatchSafe(PatchOf(q))' /\ PatchPast(PatchOf(q))'
                                            /\ base'[q] <= stamp'[q] /\ base'[q] <= now'
                      /\ pc'[q] = "applied" =>
                           /\ base'[q] <= now'
                           /\ view'[q].duration = lease'.duration
                           /\ now' < GrantedDeadline(q)' => lease'.holder = q /\ base'[q] <= lease'.renewed
    BY DEF SentInv
  <2>1. CASE q = p
    BY <1>1, <1>2, <1>3, <1>4, <1>6, <2>1 DEF TypeOK
  <2>2. CASE q # p
    BY <1>1, <1>2, <1>3, <2>2
       DEF IInv, SentInv, PatchOf, PatchSafe, PatchPast, GrantedDeadline, TypeOK
  <2> QED
    BY <2>1, <2>2
<1>8. LateInv'
  BY <1>1, <1>3 DEF IInv, LateInv, PatchSafe, PatchPast, TypeOK
<1>9. DeadlineInv'
  BY <1>1, <1>3, <1>4 DEF IInv, DeadlineInv, TypeOK
<1> QED
  BY <1>5, <1>7, <1>8, <1>9 DEF IInv

(* The API server applies the PATCH of a waiting process.                   *)
LEMMA DeliverInv == ASSUME IInv, TypeOK', NEW p \in Pod, Deliver(p) PROVE IInv'
<1> USE SkewAssumption, FlagAssumption, PodAssumption
<1> DEFINE m == PatchOf(p)
<1>1. TypeOK
  BY DEF IInv
<1>2. /\ UNCHANGED <<now, stamp, base, deadline, late, opc, oview>>
      /\ pc[p] = "sent" /\ pc' = [pc EXCEPT ![p] = "applied"]
      /\ Apply(m) /\ Passes(m)
      /\ view' = [view EXCEPT ![p] = lease']
  BY DEF Deliver, Apply, opVars
<1>3. m \in Patches /\ m.holder = p /\ m.renewed = stamp[p] /\ m.rv = lease.rv
  BY <1>1, <1>2, PatchTyped DEF PatchOf, Passes
<1>4. PatchSafe(m) /\ PatchPast(m) /\ base[p] <= stamp[p] /\ base[p] <= now
  BY <1>2 DEF IInv, SentInv
<1>5. /\ lease'.rv = lease.rv + 1 /\ lease'.holder = p
      /\ lease'.renewed = stamp[p] /\ lease'.duration = lease.duration
  BY <1>1, <1>2, <1>3, ApplyTyped
<1>6. \A q \in Pod : q # p => /\ ~(now < deadline[q])
                              /\ pc[q] = "applied" => ~(now < GrantedDeadline(q))
  BY <1>2, <1>3, <1>4, HolderGone
<1>7. (lease.renewed <= now + MaxSkew)'
  BY <1>2, <1>3, <1>4, <1>5 DEF PatchPast
<1>8. ViewInv'
  BY <1>1, <1>2, <1>5, ApplyAges DEF IInv, ViewInv, TypeOK, Leases
<1>9. OpInv'
  BY <1>1, <1>2, <1>5, ApplyAges DEF IInv, OpInv, TypeOK, Leases
<1>10. SentInv'
  <2> SUFFICES ASSUME NEW q \in Pod
               PROVE  /\ pc'[q] = "sent" => /\ PatchSafe(PatchOf(q))' /\ PatchPast(PatchOf(q))'
                                            /\ base'[q] <= stamp'[q] /\ base'[q] <= now'
                      /\ pc'[q] = "applied" =>
                           /\ base'[q] <= now'
                           /\ view'[q].duration = lease'.duration
                           /\ now' < GrantedDeadline(q)' => lease'.holder = q /\ base'[q] <= lease'.renewed
    BY DEF SentInv
  <2>1. CASE q = p
    BY <1>1, <1>2, <1>4, <1>5, <2>1 DEF TypeOK
  <2>2. CASE q # p /\ pc[q] = "sent"
    <3>1. PatchOf(q)' = PatchOf(q) /\ pc'[q] = "sent" /\ PatchOf(q) \in Patches
      BY <1>1, <1>2, <2>2, PatchTyped DEF PatchOf, TypeOK
    <3>2. PatchPast(PatchOf(q)) /\ base[q] <= stamp[q] /\ base[q] <= now
      BY <2>2 DEF IInv, SentInv
    <3>3. PatchSafe(PatchOf(q))' /\ PatchPast(PatchOf(q))'
      BY <1>1, <1>2, <1>3, <3>1, <3>2, ApplyAges DEF PatchSafe, PatchPast
    <3> QED
      BY <1>2, <3>1, <3>2, <3>3
  <2>3. CASE q # p /\ pc[q] # "sent"
    BY <1>1, <1>2, <1>5, <1>6, <2>3 DEF IInv, SentInv, GrantedDeadline, TypeOK
  <2> QED
    BY <2>1, <2>2, <2>3
<1>11. LateInv'
  <2> SUFFICES ASSUME NEW x \in late
               PROVE  PatchSafe(x)' /\ PatchPast(x)' /\ x.rv < lease'.rv
    BY <1>2 DEF LateInv
  <2> QED
    BY <1>1, <1>2, <1>3, ApplyAges DEF IInv, LateInv, TypeOK
<1>12. DeadlineInv'
  <2> SUFFICES ASSUME NEW q \in Pod
               PROVE  /\ pc'[q] = "down" => deadline[q] = 0
                      /\ now < deadline[q] =>
                           /\ lease'.holder = q
                           /\ deadline[q] <= lease'.renewed + lease'.duration - SafetyMargin
                           /\ deadline[q] <= now + lease'.duration - SafetyMargin
                           /\ pc'[q] \in {"sent", "applied"} =>
                                deadline[q] <= base[q] + lease'.duration - SafetyMargin
    BY <1>2 DEF DeadlineInv
  <2>1. CASE q = p
    BY <1>1, <1>2, <1>4, <1>5, <2>1 DEF IInv, DeadlineInv, TypeOK, Leases
  <2>2. CASE q # p
    BY <1>1, <1>2, <1>6, <2>2 DEF IInv, DeadlineInv, TypeOK
  <2> QED
    BY <2>1, <2>2
<1> QED
  BY <1>7, <1>8, <1>9, <1>10, <1>11, <1>12 DEF IInv

(* The response: the new deadline is covered by the Lease, or has passed.   *)
LEMMA ReceiveInv == ASSUME IInv, TypeOK', NEW p \in Pod, Receive(p) PROVE IInv'
<1> USE SkewAssumption, FlagAssumption, PodAssumption
<1>1. TypeOK
  BY DEF IInv
<1>2. /\ UNCHANGED <<now, lease, late, opc, oview>>
      /\ pc[p] = "applied" /\ pc' = [pc EXCEPT ![p] = "run"]
      /\ deadline' = [deadline EXCEPT ![p] = GrantedDeadline(p)]
  BY DEF Receive, opVars
<1>3. /\ \A q \in Pod : q # p => /\ pc'[q] = pc[q] /\ deadline'[q] = deadline[q]
                                 /\ view'[q] = view[q] /\ stamp'[q] = stamp[q]
                                 /\ base'[q] = base[q]
      /\ pc'[p] = "run" /\ deadline'[p] = GrantedDeadline(p)
  BY <1>1, <1>2 DEF TypeOK, Forget, Receive
<1>4. /\ base[p] <= now /\ view[p].duration = lease.duration
      /\ now < GrantedDeadline(p) => lease.holder = p /\ base[p] <= lease.renewed
  BY <1>2 DEF IInv, SentInv
<1>5. (lease.renewed <= now + MaxSkew)' /\ OpInv' /\ ViewInv'
  BY <1>2, <1>3 DEF IInv, OpInv, ViewInv
<1>6. SentInv'
  BY <1>2, <1>3 DEF IInv, SentInv, PatchOf, PatchSafe, PatchPast, GrantedDeadline
<1>7. LateInv'
  BY <1>2, <1>3 DEF IInv, LateInv, PatchSafe, PatchPast
<1>8. DeadlineInv'
  BY <1>1, <1>2, <1>3, <1>4 DEF IInv, DeadlineInv, GrantedDeadline, TypeOK, Leases, NoTime
<1> QED
  BY <1>5, <1>6, <1>7, <1>8 DEF IInv

(* A late PATCH reaches the API server.                                     *)
LEMMA DeliverLateInv ==
  ASSUME IInv, TypeOK', NEW m \in late, DeliverLate(m) PROVE IInv'
<1> USE SkewAssumption, FlagAssumption, PodAssumption
<1>1. TypeOK
  BY DEF IInv
<1>2. /\ UNCHANGED <<now, pc, view, stamp, base, deadline, opc, oview>>
      /\ Apply(m) /\ Passes(m) /\ late' = late \ {m} /\ m.rv = lease.rv
  BY DEF DeliverLate, Apply, Passes, procVars, opVars
<1>3. m \in Patches /\ PatchSafe(m) /\ PatchPast(m)
  BY <1>1 DEF IInv, LateInv, TypeOK
<1>4. lease'.rv = lease.rv + 1 /\ lease'.renewed = m.renewed /\ lease'.duration = lease.duration
  BY <1>1, <1>2, <1>3, ApplyTyped
<1>5. \A q \in Pod : /\ ~(now < deadline[q])
                     /\ pc[q] = "applied" => ~(now < GrantedDeadline(q))
  <2> SUFFICES ASSUME NEW q \in Pod
               PROVE  /\ ~(now < deadline[q])
                      /\ pc[q] = "applied" => ~(now < GrantedDeadline(q))
    OBVIOUS
  <2>1. CASE m.holder # q
    BY <1>2, <1>3, <2>1, HolderGone
  <2>2. CASE m.holder = q
    BY <1>1, <1>2, <2>2 DEF IInv, LateInv, TypeOK, Leases
  <2> QED
    BY <2>1, <2>2
<1>6. (lease.renewed <= now + MaxSkew)'
  BY <1>2, <1>3, <1>4 DEF PatchPast
<1>7. ViewInv'
  BY <1>1, <1>2, <1>3, <1>4, ApplyAges DEF IInv, ViewInv, TypeOK, Leases
<1>8. OpInv'
  BY <1>1, <1>2, <1>3, <1>4, ApplyAges DEF IInv, OpInv, TypeOK, Leases
<1>9. SentInv'
  <2> SUFFICES ASSUME NEW q \in Pod
               PROVE  /\ pc[q] = "sent" => /\ PatchSafe(PatchOf(q))' /\ PatchPast(PatchOf(q))'
                                           /\ base[q] <= stamp[q] /\ base[q] <= now
                      /\ pc[q] = "applied" =>
                           /\ base[q] <= now
                           /\ view[q].duration = lease'.duration
                           /\ ~(now < GrantedDeadline(q))
    BY <1>2 DEF SentInv, GrantedDeadline
  <2>1. CASE pc[q] = "sent"
    <3>1. PatchOf(q)' = PatchOf(q) /\ PatchOf(q) \in Patches
      BY <1>1, <1>2, PatchTyped DEF PatchOf
    <3>2. PatchPast(PatchOf(q)) /\ base[q] <= stamp[q] /\ base[q] <= now
      BY <2>1 DEF IInv, SentInv
    <3>3. PatchSafe(PatchOf(q))' /\ PatchPast(PatchOf(q))'
      BY <1>1, <1>2, <1>3, <3>1, <3>2, ApplyAges DEF PatchSafe, PatchPast
    <3> QED
      BY <2>1, <3>2, <3>3
  <2>2. CASE pc[q] # "sent"
    BY <1>4, <1>5, <2>2 DEF IInv, SentInv
  <2> QED
    BY <2>1, <2>2
<1>10. LateInv'
  <2> SUFFICES ASSUME NEW x \in late
               PROVE  PatchSafe(x)' /\ PatchPast(x)' /\ x.rv < lease'.rv
    BY <1>2 DEF LateInv
  <2> QED
    BY <1>1, <1>2, <1>3, ApplyAges DEF IInv, LateInv, TypeOK
<1>11. DeadlineInv'
  BY <1>2, <1>5 DEF IInv, DeadlineInv
<1> QED
  BY <1>6, <1>7, <1>8, <1>9, <1>10, <1>11 DEF IInv

(* The script releases the holder it found expired.                         *)
LEMMA OpReleaseInv == ASSUME IInv, TypeOK', OpRelease PROVE IInv'
<1> USE SkewAssumption, FlagAssumption, PodAssumption
<1> DEFINE m == OpPatch
<1>1. TypeOK
  BY DEF IInv
<1>2. /\ UNCHANGED <<now, pc, view, stamp, base, deadline, late>>
      /\ opc = "rechecked" /\ opc' = "idle" /\ Apply(m) /\ Passes(m)
  BY DEF OpRelease, Apply, procVars
<1>3. m \in Patches /\ m.holder = NoPod /\ m.renewed = oview.renewed /\ m.rv = oview.rv
  BY <1>1, <1>2, PatchTyped DEF OpPatch
<1>4. /\ oview = lease /\ now + MaxSkew >= lease.renewed + lease.duration
      /\ oview.renewed <= now + MaxSkew
  BY <1>2, <1>3 DEF IInv, OpInv, Passes
<1>5. PatchSafe(m) /\ PatchPast(m)
  BY <1>1, <1>3, <1>4 DEF PatchSafe, PatchPast, OpPatch, TypeOK, Leases, NoTime
<1>6. lease'.rv = lease.rv + 1 /\ lease'.renewed = m.renewed /\ lease'.duration = lease.duration
  BY <1>1, <1>2, <1>3, ApplyTyped
<1>7. \A q \in Pod : /\ ~(now < deadline[q])
                     /\ pc[q] = "applied" => ~(now < GrantedDeadline(q))
  BY <1>2, <1>3, <1>5, HolderGone
<1>8. (lease.renewed <= now + MaxSkew)' /\ OpInv'
  BY <1>2, <1>5, <1>6 DEF PatchPast, OpInv
<1>9. ViewInv'
  BY <1>1, <1>2, <1>3, <1>6, ApplyAges DEF IInv, ViewInv, TypeOK, Leases
<1>10. SentInv'
  <2> SUFFICES ASSUME NEW q \in Pod
               PROVE  /\ pc[q] = "sent" => /\ PatchSafe(PatchOf(q))' /\ PatchPast(PatchOf(q))'
                                           /\ base[q] <= stamp[q] /\ base[q] <= now
                      /\ pc[q] = "applied" =>
                           /\ base[q] <= now
                           /\ view[q].duration = lease'.duration
                           /\ ~(now < GrantedDeadline(q))
    BY <1>2 DEF SentInv, GrantedDeadline
  <2>1. CASE pc[q] = "sent"
    <3>1. PatchOf(q)' = PatchOf(q) /\ PatchOf(q) \in Patches
      BY <1>1, <1>2, PatchTyped DEF PatchOf
    <3>2. PatchPast(PatchOf(q)) /\ base[q] <= stamp[q] /\ base[q] <= now
      BY <2>1 DEF IInv, SentInv
    <3>3. PatchSafe(PatchOf(q))' /\ PatchPast(PatchOf(q))'
      BY <1>1, <1>2, <1>3, <3>1, <3>2, ApplyAges DEF PatchSafe, PatchPast
    <3> QED
      BY <2>1, <3>2, <3>3
  <2>2. CASE pc[q] # "sent"
    BY <1>6, <1>7, <2>2 DEF IInv, SentInv
  <2> QED
    BY <2>1, <2>2
<1>11. LateInv'
  <2> SUFFICES ASSUME NEW x \in late
               PROVE  PatchSafe(x)' /\ PatchPast(x)' /\ x.rv < lease'.rv
    BY <1>2 DEF LateInv
  <2> QED
    BY <1>1, <1>2, <1>3, ApplyAges DEF IInv, LateInv, TypeOK
<1>12. DeadlineInv'
  BY <1>2, <1>7 DEF IInv, DeadlineInv
<1> QED
  BY <1>8, <1>9, <1>10, <1>11, <1>12 DEF IInv

(* The other steps of the script.                                           *)
LEMMA OpInvStep ==
  ASSUME IInv, TypeOK', OpQuiesce \/ OpRead \/ OpRecheck \/ OpStop PROVE IInv'
<1> USE SkewAssumption, GraceAssumption
<1>1. TypeOK
  BY DEF IInv
<1>2. UNCHANGED <<now, lease, pc, view, stamp, base, deadline>>
  BY DEF OpQuiesce, OpRead, OpRecheck, OpStop, procVars
<1>3. (lease.renewed <= now + MaxSkew)' /\ ViewInv' /\ SentInv' /\ DeadlineInv'
  BY <1>2 DEF IInv, ViewInv, SentInv, DeadlineInv, PatchOf, PatchSafe, PatchPast, GrantedDeadline
<1>4. OpInv'
  <2>1. CASE OpRead
    <3>1. PICK w \in WallClock(now), r \in (lease.renewed - Truncation) .. lease.renewed :
             Releasable(lease, w, r)
      BY <2>1 DEF OpRead
    <3>2. /\ now \in Nat /\ lease.renewed \in Int /\ lease.duration \in Nat
          /\ w \in Int /\ w <= now + MaxSkew /\ r \in Int /\ lease.renewed - Truncation <= r
      BY <1>1, <3>1 DEF TypeOK, Leases, NoTime, WallClock
    <3>3. lease.holder # NoPod /\ now + MaxSkew >= lease.renewed + lease.duration
      BY <3>1, <3>2 DEF Releasable
    <3>4. oview' = lease /\ opc' = "read" /\ lease.rv \in Nat /\ lease.renewed <= now + MaxSkew
      BY <1>1, <2>1 DEF OpRead, IInv, TypeOK, Leases
    <3> QED
      BY <1>2, <3>3, <3>4 DEF OpInv
  <2>2. CASE OpQuiesce \/ OpRecheck \/ OpStop
    BY <1>2, <2>2 DEF OpQuiesce, OpRecheck, OpStop, IInv, OpInv
  <2> QED
    BY <2>1, <2>2
<1>5. LateInv'
  <2>1. CASE late' = late
    BY <1>2, <2>1 DEF IInv, LateInv, PatchSafe, PatchPast
  <2>2. CASE late' # late
    <3>1. opc = "rechecked" /\ late' = late \cup {OpPatch}
      BY <2>2 DEF OpQuiesce, OpRead, OpRecheck, OpStop
    <3>2. OpInv
      BY DEF IInv
    <3>3. PatchSafe(OpPatch) /\ PatchPast(OpPatch) /\ OpPatch.holder = NoPod
      BY <1>1, <3>1, <3>2, PodAssumption
         DEF OpInv, PatchSafe, PatchPast, OpPatch, TypeOK, Leases, NoTime
    <3>4. \A q \in Pod : OpPatch.holder # q
      BY <3>3, PodAssumption
    <3> QED
      BY <1>2, <3>1, <3>3, <3>4 DEF IInv, LateInv, PatchSafe, PatchPast
  <2> QED
    BY <2>1, <2>2
<1> QED
  BY <1>3, <1>4, <1>5 DEF IInv

(* Every step keeps the inductive invariant.                                *)
LEMMA StepInv == IInv /\ [Next]_vars => IInv'
<1> SUFFICES ASSUME IInv, [Next]_vars PROVE IInv'
  OBVIOUS
<1>0. TypeOK /\ TypeOK'
  BY StepTyped DEF IInv
<1>1. CASE Tick
  BY <1>1, TickInv
<1>2. ASSUME NEW p \in Pod, Fence(p) PROVE IInv'
  <2>1. CASE Boot(p) \/ Poll(p)
    BY <1>0, <2>1, BootPollInv
  <2>2. CASE Get(p)
    BY <1>0, <2>2, GetInv
  <2>3. CASE Send(p)
    BY <1>0, <2>3, SendInv
  <2>4. CASE Refuse(p) \/ Expire(p) \/ Abandon(p)
    <3>1. Trip(p)
      BY <2>4 DEF Refuse, Expire, Abandon
    <3> QED
      BY <1>0, <3>1, TripInv DEF Trip, opVars
  <2>5. CASE Deliver(p)
    BY <1>0, <2>5, DeliverInv
  <2>6. CASE Conflict(p)
    BY <1>0, <2>6, TripInv DEF Conflict, opVars
  <2>7. CASE Receive(p)
    BY <1>0, <2>7, ReceiveInv
  <2> QED
    BY <1>2, <2>1, <2>2, <2>3, <2>4, <2>5, <2>6, <2>7 DEF Fence
<1>3. ASSUME NEW m \in late, DeliverLate(m) \/ LoseLate(m) PROVE IInv'
  <2>1. CASE DeliverLate(m)
    BY <1>0, <2>1, DeliverLateInv
  <2>2. CASE LoseLate(m)
    BY <1>0, <2>2
       DEF LoseLate, procVars, opVars, IInv, ViewInv, OpInv, SentInv, LateInv, DeadlineInv,
           PatchOf, PatchSafe, PatchPast, GrantedDeadline
  <2> QED
    BY <1>3, <2>1, <2>2
<1>4. CASE Operator
  BY <1>0, <1>4, OpReleaseInv, OpInvStep DEF Operator
<1>5. CASE UNCHANGED vars
  BY <1>0, <1>5
     DEF vars, procVars, opVars, IInv, ViewInv, OpInv, SentInv, LateInv, DeadlineInv,
         PatchOf, PatchSafe, PatchPast, GrantedDeadline
<1> QED
  BY <1>1, <1>2, <1>3, <1>4, <1>5 DEF Next

(* The inductive invariant holds of every behaviour.                        *)
THEOREM Inductive == Spec => []IInv
BY InitInv, StepInv, PTL DEF Spec

-----------------------------------------------------------------------------
(* Two Pods with authority would both be the holder.                        *)
LEMMA InvExcludes == IInv => MutualExclusion
BY DEF IInv, DeadlineInv, MutualExclusion, Live

(* At most one Pod may forward at any instant, for any number of Pods and   *)
(* any durations and flags, when clocks differ by at most the margin.       *)
THEOREM Exclusion == Spec => []MutualExclusion
BY Inductive, InvExcludes, PTL

(* Authority ends before any clock in the cluster shows the Lease expired.  *)
LEMMA InvCovers == IInv => AuthorityCovered
<1> SUFFICES ASSUME IInv, NEW p \in Pod, Live(p)
             PROVE  /\ lease.holder = p
                    /\ \A w \in WallClock(now) : ~ExpiredAt(lease, w)
  BY DEF AuthorityCovered
<1>1. /\ lease.holder = p
      /\ deadline[p] <= lease.renewed + lease.duration - SafetyMargin
      /\ now < deadline[p]
  BY DEF IInv, DeadlineInv, Live
<1>2. /\ now \in Nat /\ deadline[p] \in Nat
      /\ lease.renewed \in Int /\ lease.duration \in Nat
  BY DEF IInv, TypeOK, Leases, NoTime
<1>3. ASSUME NEW w \in WallClock(now) PROVE ~ExpiredAt(lease, w)
  <2>1. w \in Int /\ w <= now + MaxSkew
    BY <1>2, SkewAssumption DEF WallClock
  <2> QED
    BY <1>1, <1>2, <2>1, SkewAssumption, FlagAssumption DEF ExpiredAt
<1> QED
  BY <1>1, <1>3

(* The same for every behaviour of the fences.                              *)
THEOREM Covered == Spec => []AuthorityCovered
BY Inductive, InvCovers, PTL

-----------------------------------------------------------------------------
(* Only a PATCH that passes its tests, and was safe, changes the Lease.     *)
LEMMA LeaseChange ==
  ASSUME IInv, [Next]_vars, lease' # lease
  PROVE  \E m \in Patches : PatchSafe(m) /\ Apply(m)
<1>1. TypeOK
  BY DEF IInv
<1>2. CASE \E p \in Pod : Fence(p)
  <2>1. PICK p \in Pod : Fence(p)
    BY <1>2
  <2>2. Deliver(p)
    BY <2>1 DEF Fence, Boot, Poll, Get, Send, Refuse, Conflict, Receive, Expire, Abandon, Trip
  <2> QED
    BY <1>1, <2>2, PatchTyped DEF Deliver, IInv, SentInv
<1>3. CASE \E m \in late : DeliverLate(m) \/ LoseLate(m)
  BY <1>1, <1>3 DEF DeliverLate, LoseLate, IInv, LateInv, TypeOK
<1>4. CASE Operator
  <2>1. OpRelease
    BY <1>4 DEF Operator, OpQuiesce, OpRead, OpRecheck, OpStop
  <2>2. opc = "rechecked" /\ Apply(OpPatch) /\ OpPatch \in Patches /\ OpInv
    BY <1>1, <2>1, PatchTyped DEF OpRelease, IInv
  <2>3. PatchSafe(OpPatch)
    BY <1>1, <2>2, SkewAssumption, PodAssumption
       DEF OpInv, PatchSafe, OpPatch, TypeOK, Leases, NoTime
  <2> QED
    BY <2>2, <2>3
<1> QED
  BY <1>2, <1>3, <1>4 DEF Next, Tick, vars

(* No PATCH, however late it is applied, takes the Lease from a holder      *)
(* whose time no clock inside the skew shows to be over.                    *)
THEOREM TakenOnlyExpired == Spec => OnlyExpiredTaken
<1>1. ASSUME IInv, [Next]_vars, lease.holder # NoPod, lease'.holder # lease.holder
      PROVE  \E w \in WallClock(now) : ExpiredAt(lease, w)
  <2>1. PICK m \in Patches : PatchSafe(m) /\ Apply(m)
    BY <1>1, LeaseChange
  <2>2. lease'.holder = m.holder /\ m.rv = lease.rv
    BY <1>1, <2>1, ApplyTyped DEF IInv, Apply, Passes
  <2>3. now \in Nat /\ now + MaxSkew \in WallClock(now)
    BY <1>1, SkewAssumption DEF IInv, TypeOK, WallClock
  <2>4. now + MaxSkew >= lease.renewed + lease.duration
    BY <1>1, <2>1, <2>2 DEF PatchSafe
  <2> QED
    BY <2>3, <2>4 DEF ExpiredAt
<1>2. IInv /\ [Next]_vars =>
        [lease.holder # NoPod /\ lease'.holder # lease.holder
           => \E w \in WallClock(now) : ExpiredAt(lease, w)]_vars
  BY <1>1
<1> QED
  BY <1>2, Inductive, PTL DEF Spec, OnlyExpiredTaken

(* No late PATCH takes renewTime back beyond what the skew explains.        *)
THEOREM RenewTimeForward == Spec => RenewTimeAdvances
<1>1. ASSUME IInv, [Next]_vars, lease.renewed # NoTime
      PROVE  lease'.renewed >= lease.renewed - MaxSkew
  <2>1. lease.renewed \in Int
    BY <1>1 DEF IInv, TypeOK, Leases, NoTime
  <2>2. CASE lease' = lease
    BY <2>1, <2>2, SkewAssumption
  <2>3. CASE lease' # lease
    <3>1. PICK m \in Patches : PatchSafe(m) /\ Apply(m)
      BY <1>1, <2>3, LeaseChange
    <3> QED
      BY <1>1, <3>1, ApplyTyped DEF IInv, PatchSafe, Apply, Passes
  <2> QED
    BY <2>2, <2>3
<1>2. IInv /\ [Next]_vars =>
        [lease.renewed # NoTime => lease'.renewed >= lease.renewed - MaxSkew]_vars
  BY <1>1
<1> QED
  BY <1>2, Inductive, PTL DEF Spec, RenewTimeAdvances

(* Only the process that receives its response can become live in a step.   *)
LEMMA LiveStep ==
  ASSUME IInv, [Next]_vars, NEW p \in Pod, NEW q \in Pod, p # q,
         Live(p), ~Live(q), Live(q)'
  PROVE  Live(p)'
<1>1. TypeOK
  BY DEF IInv
<1>2. CASE Tick
  BY <1>1, <1>2 DEF Tick, procVars, Live, TypeOK
<1>3. ASSUME NEW r \in Pod, Fence(r) PROVE Live(p)'
  <2>1. CASE r = p
    <3>1. now' = now /\ deadline'[q] = deadline[q] /\ pc'[q] = pc[q]
      BY <1>1, <1>3, <2>1
         DEF Fence, Boot, Poll, Get, Send, Refuse, Deliver, Conflict, Receive, Expire,
             Abandon, Trip, TypeOK
    <3> QED
      BY <3>1 DEF Live
  <2>2. CASE r # p
    <3>1. now' = now /\ deadline'[p] = deadline[p] /\ pc'[p] = pc[p]
      BY <1>1, <1>3, <2>2
         DEF Fence, Boot, Poll, Get, Send, Refuse, Deliver, Conflict, Receive, Expire,
             Abandon, Trip, TypeOK
    <3> QED
      BY <3>1 DEF Live
  <2> QED
    BY <2>1, <2>2
<1>4. CASE \E m \in late : DeliverLate(m) \/ LoseLate(m)
  BY <1>4 DEF DeliverLate, LoseLate, procVars, Live
<1>5. CASE Operator \/ UNCHANGED vars
  BY <1>5 DEF Operator, OpQuiesce, OpRead, OpRecheck, OpRelease, OpStop, vars, procVars, Live
<1> QED
  BY <1>2, <1>3, <1>4, <1>5 DEF Next

(* The Signer of a state with exclusive authority.                          *)
LEMMA SignerIs ==
  ASSUME MutualExclusion
  PROVE  /\ \A p \in Pod : Live(p) => Signer = p
         /\ (\A p \in Pod : ~Live(p)) => Signer = NoPod
BY DEF Signer, MutualExclusion

(* The fences implement ExclusiveAuthority: every step of theirs grants     *)
(* authority when nobody has it, takes it away, or leaves it as it is.      *)
THEOREM Implements == Spec => ImplementsAuthority
<1>1. Init => Authority!Init
  <2>1. Init => \A p \in Pod : ~Live(p)
    BY DEF Init, Live
  <2> QED
    BY <2>1 DEF Signer, Authority!Init
<1>2. ASSUME IInv, IInv', [Next]_vars PROVE [Authority!Next]_Signer
  <2>a. MutualExclusion
    BY <1>2, InvExcludes
  <2>b. MutualExclusion'
    BY <1>2 DEF IInv, DeadlineInv, MutualExclusion, Live
  <2>1. MutualExclusion /\ MutualExclusion'
    BY <2>a, <2>b
  <2>2. /\ \A p \in Pod : Live(p) => Signer = p
        /\ (\A p \in Pod : ~Live(p)) => Signer = NoPod
    BY <2>1, SignerIs
  <2>3. /\ \A p \in Pod : Live(p)' => Signer' = p
        /\ (\A p \in Pod : ~Live(p)') => Signer' = NoPod
    BY <2>1 DEF Signer, MutualExclusion
  <2>4. CASE \A p \in Pod : ~Live(p)
    BY <2>2, <2>3, <2>4 DEF Authority!Next, Authority!Grant
  <2>5. CASE \E p \in Pod : Live(p)
    <3>1. PICK p \in Pod : Live(p)
      BY <2>5
    <3>2. CASE \A q \in Pod : ~Live(q)'
      BY <2>2, <2>3, <3>1, <3>2, PodAssumption DEF Authority!Next, Authority!Lose
    <3>3. CASE \E q \in Pod : Live(q)'
      <4>1. PICK q \in Pod : Live(q)'
        BY <3>3
      <4>2. p = q
        <5>1. SUFFICES ASSUME p # q PROVE FALSE
          OBVIOUS
        <5>2. ~Live(q)
          BY <2>1, <3>1, <5>1 DEF MutualExclusion
        <5>3. Live(p)'
          BY <1>2, <3>1, <4>1, <5>1, <5>2, LiveStep
        <5> QED
          BY <2>1, <4>1, <5>1, <5>3 DEF MutualExclusion
      <4> QED
        BY <2>2, <2>3, <3>1, <4>1, <4>2
    <3> QED
      BY <3>2, <3>3
  <2> QED
    BY <2>4, <2>5
<1> QED
  BY <1>1, <1>2, Inductive, PTL DEF Spec, ImplementsAuthority, Authority!Spec
=============================================================================
