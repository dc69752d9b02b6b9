----------------------------- MODULE FenceLease -----------------------------
(* cmd/validator-signing-fence: the fence processes of one validator set    *)
(* share one Kubernetes Lease.  A process reads it, decides on its own wall *)
(* clock whether it may take or renew it, PATCHes it with a test of the     *)
(* resourceVersion and of the holder it read, and derives a local deadline  *)
(* from the instant it captured before the PATCH.  The operator's script    *)
(* release-expired-hoodi-validator-fence-lease.sh clears an expired holder. *)
(*                                                                          *)
(* Time is true time, in units; a wall clock read at t shows any value of   *)
(* t .. t+MaxSkew (Pods run on different nodes and clocks may be stepped),  *)
(* the monotonic clock behind a deadline runs at the rate of true time.     *)
(* Requests take any time, are lost, or reach the API server after their    *)
(* sender gave up or died.  A PATCH that is applied changes renewTime (it   *)
(* carries microseconds), so it always gets a new resourceVersion.          *)
EXTENDS Integers, FiniteSets

CONSTANTS Pod,             \* Pod UIDs (--holder) that may run a fence
          NoPod,           \* the empty holderIdentity
          Durations,       \* leaseDurationSeconds the manifest may carry
          PollInterval, RequestTimeout, SafetyMargin,  \* the flags of main
          MaxSkew,         \* how far two wall clocks may disagree
          ReleaseGrace,    \* the script's 5 seconds beyond the duration
          Truncation,      \* what the script loses of renewTime: under 1 s
          MaxTime,         \* bound: true time stops here
          MaxVersion,      \* bound: resourceVersions handed out
          MaxLate          \* bound: no process starts with this many late PATCHes

ASSUME PodAssumption == NoPod \notin Pod
ASSUME FlagAssumption == /\ Durations \subseteq Nat
                         /\ PollInterval \in Nat \ {0}
                         /\ RequestTimeout \in Nat \ {0}
                         /\ SafetyMargin \in Nat \ {0}
ASSUME SkewAssumption == MaxSkew \in Nat /\ MaxSkew <= SafetyMargin
ASSUME GraceAssumption == /\ ReleaseGrace \in Nat /\ Truncation \in Nat
                          /\ Truncation <= ReleaseGrace
ASSUME BoundAssumption == \A b \in {MaxTime, MaxVersion, MaxLate} : b \in Nat

VARIABLES
  now,        \* true time
  lease,      \* the Lease object in the API server
  pc,         \* where each Pod's fence process is
  view,       \* the Lease as the process's last response showed it
  stamp,      \* nowUTC of its PATCH, from its wall clock
  base,       \* the monotonic instant captured with it
  deadline,   \* its authorityDeadline, 0 before start() has one
  late,       \* PATCHes whose sender stopped waiting, still on their way
  opc,        \* where the operator's release script is
  oview       \* the Lease the script read

procVars == <<pc, view, stamp, base, deadline>>
opVars == <<opc, oview>>
vars == <<now, lease, procVars, late, opVars>>

NoTime == -1                        \* renewTime absent
Holders == Pod \cup {NoPod}
Leases == [rv : Nat, holder : Holders, renewed : Nat \cup {NoTime}, duration : Nat]
Patches == [rv : Nat, test : Holders, holder : Holders, renewed : Nat]

\* What a process's locals show when acquireOrRenew is not running.
Blank == [rv |-> 0, holder |-> NoPod, renewed |-> NoTime, duration |-> 0]

\* down: no process; poll: in renewAuthority before the Lease GET; got: GET
\* answered; sent: PATCH on its way; applied: PATCH done, response on its
\* way; run: authority recorded, waiting for the ticker.
PC == {"down", "poll", "got", "sent", "applied", "run"}

WallClock(t) == t .. (t + MaxSkew)

HasRenewed(l) == l.renewed # NoTime

(* validDuration: room for one poll and all three requests before expiry. *)
Usable(l) == l.duration > PollInterval + 3 * RequestTimeout + SafetyMargin


EagerExpiredAt(l, w) == w >= l.renewed + l.duration - SafetyMargin - 1  \* mutant
ExpiredAt(l, w) == w >= l.renewed + l.duration

(* The decision of acquireOrRenew for a process of Pod p whose wall clock   *)
(* shows w: refuse a holder without a usable renewTime, refuse a live other *)
(* holder, and never revive an expired Lease of one's own (as this clock    *)
(* has it now: the PATCH may be applied later).                             *)
Acceptable(p, l, w) ==
  /\ l.holder # NoPod => HasRenewed(l) /\ l.renewed <= w + SafetyMargin
  /\ l.holder = p => ~ExpiredAt(l, w)
  /\ l.holder \notin {p, NoPod} => ExpiredAt(l, w)

(* The JSON Patch: tests of resourceVersion and holderIdentity, then the    *)
(* new holder and renewTime.                                                *)
UnrenewedPatchOf(p) == [rv |-> view[p].rv, test |-> view[p].holder,  \* mutant
                        holder |-> p, renewed |-> view[p].renewed]
PatchOf(p) == [rv |-> view[p].rv, test |-> view[p].holder,
               holder |-> p, renewed |-> stamp[p]]
OpPatch == [rv |-> oview.rv, test |-> oview.holder,
            holder |-> NoPod, renewed |-> oview.renewed]

(* The API server: a patch whose tests fail changes nothing.                *)
HolderPasses(m) == m.test = lease.holder                        \* mutant
Passes(m) == m.rv = lease.rv /\ m.test = lease.holder
Apply(m) == /\ Passes(m)
            /\ lease.rv < MaxVersion
            /\ lease' = [rv |-> lease.rv + 1, holder |-> m.holder,
                        renewed |-> m.renewed, duration |-> lease.duration]

(* The absolute deadline counts from the instant before the PATCH.          *)
ReceivedDeadline(p) == now + view[p].duration - SafetyMargin   \* mutant
UnreservedDeadline(p) == base[p] + view[p].duration            \* mutant
GrantedDeadline(p) == base[p] + view[p].duration - SafetyMargin

-----------------------------------------------------------------------------
Init == /\ now = 0
        /\ lease \in [rv : {0}, holder : {NoPod}, renewed : {NoTime},
                      duration : Durations]
        /\ pc = [p \in Pod |-> "down"]
        /\ view = [p \in Pod |-> Blank]
        /\ stamp = [p \in Pod |-> 0]
        /\ base = [p \in Pod |-> 0]
        /\ deadline = [p \in Pod |-> 0]
        /\ late = {}
        /\ opc = "idle"
        /\ oview = Blank

Tick == /\ now < MaxTime
        /\ now' = now + 1
        /\ UNCHANGED <<lease, procVars, late, opVars>>

(* acquireOrRenew returns: its locals are gone.                             *)
Forget(p) == /\ view' = [view EXCEPT ![p] = Blank]
             /\ stamp' = [stamp EXCEPT ![p] = 0]
             /\ base' = [base EXCEPT ![p] = 0]

(* The process is gone or fenced for good: trip closes its connections and  *)
(* main exits; a PATCH it has sent stays on its way.                        *)
Trip(p) == /\ pc' = [pc EXCEPT ![p] = "down"]
           /\ deadline' = [deadline EXCEPT ![p] = 0]
           /\ Forget(p)
           /\ late' = IF pc[p] = "sent" THEN late \cup {PatchOf(p)} ELSE late
           /\ UNCHANGED <<now, lease, opVars>>

(* main -> start: a container (re)start under the same Pod UID.             *)
Boot(p) == /\ pc[p] = "down"
           /\ Cardinality(late) < MaxLate
           /\ pc' = [pc EXCEPT ![p] = "poll"]
           /\ UNCHANGED <<now, lease, view, stamp, base, deadline, late, opVars>>

(* renewLoop's ticker.                                                      *)
Poll(p) == /\ pc[p] = "run"
           /\ pc' = [pc EXCEPT ![p] = "poll"]
           /\ UNCHANGED <<now, lease, view, stamp, base, deadline, late, opVars>>

(* The Lease GET is answered; getClientPod came before and changes nothing  *)
(* here (its failure is an Abandon).                                        *)
Get(p) == /\ pc[p] = "poll"
          /\ Usable(lease)
          /\ view' = [view EXCEPT ![p] = lease]
          /\ pc' = [pc EXCEPT ![p] = "got"]
          /\ UNCHANGED <<now, lease, stamp, base, deadline, late, opVars>>

(* Capture the clocks, decide, and send the PATCH; or give up.              *)
Send(p) == /\ pc[p] = "got"
           /\ \E w \in WallClock(now) :
                /\ Acceptable(p, view[p], w)
                /\ stamp' = [stamp EXCEPT ![p] = w]
           /\ base' = [base EXCEPT ![p] = now]
           /\ pc' = [pc EXCEPT ![p] = "sent"]
           /\ UNCHANGED <<now, lease, view, deadline, late, opVars>>

Refuse(p) == /\ pc[p] = "got"
             /\ \E w \in WallClock(now) : ~Acceptable(p, view[p], w)
             /\ Trip(p)

(* The API server handles the PATCH of a waiting process.                   *)
Deliver(p) == /\ pc[p] = "sent"
              /\ Apply(PatchOf(p))
              /\ view' = [view EXCEPT ![p] = lease']
              /\ pc' = [pc EXCEPT ![p] = "applied"]
              /\ UNCHANGED <<now, stamp, base, deadline, late, opVars>>

Conflict(p) == /\ pc[p] = "sent" /\ ~Passes(PatchOf(p))
               /\ pc' = [pc EXCEPT ![p] = "down"]
               /\ deadline' = [deadline EXCEPT ![p] = 0]
               /\ Forget(p)
               /\ UNCHANGED <<now, lease, late, opVars>>

(* The response: checked against what was sent, then setAuthorityDeadline.  *)
(* start() also refuses a deadline that has already passed.                 *)
Receive(p) == /\ pc[p] = "applied"
              /\ view[p].holder = p /\ view[p].renewed = stamp[p] /\ Usable(view[p])
              /\ deadline[p] = 0 => now < GrantedDeadline(p)
              /\ deadline' = [deadline EXCEPT ![p] = GrantedDeadline(p)]
              /\ Forget(p)
              /\ pc' = [pc EXCEPT ![p] = "run"]
              /\ UNCHANGED <<now, lease, late, opVars>>

(* The watchdog of setAuthorityDeadline, or start() that came too late.     *)
Expire(p) == /\ pc[p] # "down"
             /\ \/ deadline[p] # 0 /\ now >= deadline[p]
                \/ pc[p] = "applied" /\ deadline[p] = 0 /\ now >= GrantedDeadline(p)
             /\ Trip(p)

(* Any other end: a request that fails or times out, a client Pod that does *)
(* not match, SIGTERM, a failed health server, a crash.                     *)
Abandon(p) == pc[p] # "down" /\ Trip(p)

(* A PATCH whose sender no longer waits reaches the API server, or is lost. *)
DeliverLate(m) == /\ m \in late
                  /\ Apply(m)
                  /\ late' = late \ {m}
                  /\ UNCHANGED <<now, procVars, opVars>>

LoseLate(m) == /\ m \in late
               /\ late' = late \ {m}
               /\ UNCHANGED <<now, lease, procVars, opVars>>

-----------------------------------------------------------------------------
(* release-expired-hoodi-validator-fence-lease.sh                           *)
Quiescent == \A p \in Pod : pc[p] = "down"

OpQuiesce == /\ opc = "idle" /\ Quiescent
             /\ opc' = "quiesced"
             /\ UNCHANGED <<now, lease, procVars, late, oview>>

(* Expired by its own clock beyond the duration and the grace, with the     *)
(* fraction of a second cut off both the clock and renewTime.               *)
Releasable(l, w, r) == /\ l.holder # NoPod
                       /\ r <= w
                       /\ w >= r + l.duration + ReleaseGrace

OpRead == /\ opc = "quiesced"
          /\ \E w \in WallClock(now), r \in (lease.renewed - Truncation) .. lease.renewed :
               Releasable(lease, w, r)
          /\ oview' = lease
          /\ opc' = "read"
          /\ UNCHANGED <<now, lease, procVars, late>>

OpRecheck == /\ opc = "read" /\ Quiescent
             /\ opc' = "rechecked"
             /\ UNCHANGED <<now, lease, procVars, late, oview>>

OpRelease == /\ opc = "rechecked"
             /\ Apply(OpPatch)
             /\ opc' = "idle"
             /\ oview' = Blank
             /\ UNCHANGED <<now, procVars, late>>

(* A precondition or the CAS fails, or the script is stopped; kubectl's     *)
(* patch may still be on its way.                                           *)
OpStop == /\ opc # "idle"
          /\ opc' = "idle"
          /\ oview' = Blank
          /\ \/ UNCHANGED late
             \/ opc = "rechecked" /\ late' = late \cup {OpPatch}
          /\ UNCHANGED <<now, lease, procVars>>

-----------------------------------------------------------------------------
Fence(p) == \/ Boot(p) \/ Poll(p) \/ Get(p) \/ Send(p) \/ Refuse(p)
            \/ Deliver(p) \/ Conflict(p) \/ Receive(p) \/ Expire(p) \/ Abandon(p)

Operator == OpQuiesce \/ OpRead \/ OpRecheck \/ OpRelease \/ OpStop

Next == \/ Tick
        \/ \E p \in Pod : Fence(p)
        \/ \E m \in late : DeliverLate(m) \/ LoseLate(m)
        \/ Operator

Spec == Init /\ [][Next]_vars

-----------------------------------------------------------------------------
TypeOK == /\ now \in Nat
          /\ lease \in Leases
          /\ lease.holder # NoPod => HasRenewed(lease)
          /\ pc \in [Pod -> PC]
          /\ view \in [Pod -> Leases]
          /\ stamp \in [Pod -> Nat]
          /\ base \in [Pod -> Nat]
          /\ deadline \in [Pod -> Nat]
          /\ late \subseteq Patches
          /\ opc \in {"idle", "quiesced", "read", "rechecked"}
          /\ oview \in Leases
          /\ opc \in {"read", "rechecked"} => HasRenewed(oview)

(* A process may forward: it runs and its authorityDeadline, which every    *)
(* connection's own deadline respects, lies ahead.                          *)
Live(p) == pc[p] # "down" /\ now < deadline[p]

(* No two Pods may forward signing requests at the same instant, although   *)
(* the next holder judges the expiry on another clock, and although PATCHes *)
(* are late and processes crash and restart under the same Pod UID.         *)
MutualExclusion == \A p, q \in Pod : Live(p) /\ Live(q) => p = q

(* While a process may forward, no Pod whose clock is inside the skew can   *)
(* find the Lease empty, held by another or expired: its authority ends     *)
(* first (main.go 279-281, 343).                                            *)
AuthorityCovered ==
  \A p \in Pod : Live(p) =>
    /\ lease.holder = p
    /\ \A w \in WallClock(now) : ~ExpiredAt(lease, w)

(* "Bootstrap only an empty Lease or a demonstrably expired prior holder"   *)
(* (main.go 308): a holder loses its Lease, to another Pod or to the        *)
(* operator's release, only when the Lease is expired on some clock inside  *)
(* the skew at the instant the API server applies the PATCH - which may be  *)
(* long after the decision, when the holder has renewed or its sender died. *)
OnlyExpiredTaken ==
  [][lease.holder # NoPod /\ lease'.holder # lease.holder
       => \E w \in WallClock(now) : ExpiredAt(lease, w)]_vars

(* A late PATCH of an earlier attempt never replaces a newer renewTime by   *)
(* one that is older than the clocks' disagreement explains.                *)
RenewTimeAdvances ==
  [][lease.renewed # NoTime => lease'.renewed >= lease.renewed - MaxSkew]_vars

Signer == IF \E p \in Pod : Live(p) THEN CHOOSE p \in Pod : Live(p) ELSE NoPod

Authority == INSTANCE ExclusiveAuthority WITH signer <- Signer

(* The fences implement the abstract authority: it passes through "nobody"  *)
(* on its way from one Pod to another.                                      *)
ImplementsAuthority == Authority!Spec

-----------------------------------------------------------------------------
(* The inductive invariant behind the properties above.                     *)

(* A request computed from the current version still knows the Lease.       *)
PatchSafe(m) ==
  m.rv = lease.rv =>
    /\ m.test = lease.holder
    /\ m.renewed >= lease.renewed - MaxSkew
    /\ lease.holder \notin {m.holder, NoPod} =>
         now + MaxSkew >= lease.renewed + lease.duration

PatchPast(m) == m.rv <= lease.rv /\ m.renewed <= now + MaxSkew

(* What a process read is what the Lease was at that version.               *)
ViewInv ==
  \A p \in Pod : pc[p] \in {"got", "sent"} =>
    /\ view[p].rv <= lease.rv
    /\ view[p].duration = lease.duration
    /\ view[p].rv = lease.rv => view[p] = lease

OpInv ==
  opc \in {"read", "rechecked"} =>
    /\ oview.rv <= lease.rv
    /\ oview.renewed <= now + MaxSkew
    /\ oview.holder # NoPod
    /\ oview.rv = lease.rv =>
         /\ oview = lease
         /\ now + MaxSkew >= lease.renewed + lease.duration

SentInv ==
  \A p \in Pod :
    /\ pc[p] = "sent" => /\ PatchSafe(PatchOf(p)) /\ PatchPast(PatchOf(p))
                         /\ base[p] <= stamp[p] /\ base[p] <= now
    /\ pc[p] = "applied" =>
         /\ base[p] <= now
         /\ view[p].duration = lease.duration
         /\ now < GrantedDeadline(p) => lease.holder = p /\ base[p] <= lease.renewed

LateInv ==
  \A m \in late :
    /\ PatchSafe(m) /\ PatchPast(m)
    /\ \A p \in Pod : m.holder = p /\ (deadline[p] # 0 \/ pc[p] = "applied")
                        => m.rv < lease.rv

(* A deadline never outruns the renewTime in the Lease while it lies ahead. *)
DeadlineInv ==
  \A p \in Pod :
    /\ pc[p] = "down" => deadline[p] = 0
    /\ now < deadline[p] =>
         /\ lease.holder = p
         /\ deadline[p] <= lease.renewed + lease.duration - SafetyMargin
         /\ deadline[p] <= now + lease.duration - SafetyMargin
         /\ pc[p] \in {"sent", "applied"} =>
              deadline[p] <= base[p] + lease.duration - SafetyMargin

IInv == /\ TypeOK
        /\ lease.renewed <= now + MaxSkew
        /\ ViewInv /\ OpInv /\ SentInv /\ LateInv /\ DeadlineInv
=============================================================================
