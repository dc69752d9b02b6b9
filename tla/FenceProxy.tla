----------------------------- MODULE FenceProxy -----------------------------
(* cmd/validator-signing-fence: the goroutines of one fence process.  main  *)
(* starts the proxy; acceptLoop, one proxy goroutine per connection,        *)
(* renewLoop and one watchdog per recorded deadline share the fenceProxy    *)
(* struct under its mutex and race with trip, which whoever first sees a    *)
(* loss runs.  Each action is what happens between two releases of the      *)
(* mutex or two blocking calls.  What a renewal does to the Lease is        *)
(* FenceLease; here it yields a deadline or fails.                          *)
EXTENDS Integers, FiniteSets

CONSTANTS Conn,        \* TCP connections that may arrive
          Identity,    \* <<uid, ip>> pairs getClientPod may report
          Nobody,      \* the value of fields not set yet
          Grants,      \* what a renewal adds to its base: duration - margin
          MaxAge,      \* --max-connection-age
          MaxTime,     \* bound: time, and every deadline recorded, ends here
          MaxRenewals  \* bound: deadlines recorded

ASSUME GrantAssumption == Grants \subseteq Nat /\ MaxAge \in Nat \ {0}
ASSUME NobodyAssumption == Nobody \notin Conn
ASSUME ProxyBoundAssumption == MaxTime \in Nat /\ MaxRenewals \in Nat

VARIABLES
  now,
  fenced, listener, conns, client, downstreamIP,  \* the fenceProxy struct
  authDeadline, version, maxAge,
  watchdogs,       \* <<version, deadline>> of the timers not yet fired
  renewer, base,   \* renewLoop and the instant its PATCH counts from
  trip, tripper, snapshot,  \* how far trip is, who runs it, what it closes
  acceptor, acc,   \* acceptLoop and the connection it handles
  sock, src,       \* each client socket and its remote address
  px, dl, buf,     \* each proxy goroutine, its deadline, a chunk in its copy
  ctx, main        \* the signal context, the main goroutine

structVars == <<fenced, listener, conns, client, downstreamIP, authDeadline,
                version, maxAge>>
renewVars == <<renewer, base, watchdogs>>
tripVars == <<trip, tripper, snapshot>>
connVars == <<sock, src, px, dl, buf>>
acceptVars == <<acceptor, acc>>
mainVars == <<ctx, main>>
vars == <<now, structVars, renewVars, tripVars, connVars, acceptVars, mainVars>>

IPs == {id[2] : id \in Identity}
Least(a, b) == IF a <= b THEN a ELSE b
Running == main \notin {"start", "exit0", "exit1"}
Done == trip = "done"                      \* p.done is closed

Init ==
  /\ now = 0
  /\ fenced = FALSE /\ listener = "none" /\ conns = {}
  /\ client = Nobody /\ downstreamIP = Nobody
  /\ authDeadline = 0 /\ version = 0 /\ maxAge = MaxAge
  /\ watchdogs = {} /\ renewer = "off" /\ base = 0
  /\ trip = "none" /\ tripper = Nobody /\ snapshot = {}
  /\ acceptor = "off" /\ acc = Nobody
  /\ sock = [c \in Conn |-> "none"] /\ src = [c \in Conn |-> Nobody]
  /\ px = [c \in Conn |-> "none"] /\ dl = [c \in Conn |-> 0]
  /\ buf = [c \in Conn |-> FALSE]
  /\ ctx = "live" /\ main = "start"

Tick == /\ Running /\ now < MaxTime
        /\ now' = now + 1
        /\ UNCHANGED <<structVars, renewVars, tripVars, connVars, acceptVars, mainVars>>

-----------------------------------------------------------------------------
(* setAuthorityDeadline: record it and start its watchdog.                  *)
UnwatchedSetAuthorityDeadline(d) ==                              \* mutant
  /\ d <= MaxTime
  /\ authDeadline' = d
  /\ version' = version + 1
  /\ watchdogs' = IF version = 0 THEN {<<1, d>>} ELSE watchdogs
SetAuthorityDeadline(d) ==
  /\ d <= MaxTime
  /\ authDeadline' = d
  /\ version' = version + 1
  /\ watchdogs' = watchdogs \cup {<<version + 1, d>>}

(* main -> start: the first authority, the listener, then the goroutines.   *)
(* Part of the grant has passed when the response is here.                  *)
Start == /\ main = "start"
         /\ \E id \in Identity, g \in Grants : \E left \in 1 .. g :
              /\ client' = id
              /\ maxAge' = Least(maxAge, left)
              /\ SetAuthorityDeadline(now + left)
         /\ listener' = "open"
         /\ renewer' = "wait" /\ acceptor' = "accept" /\ main' = "serve"
         /\ UNCHANGED <<now, fenced, conns, downstreamIP, base, tripVars, connVars, acc, ctx>>

(* No authority, one that has already passed, or no listener: fatal.        *)
StartFails == /\ main = "start"
              /\ main' = "exit1"
              /\ UNCHANGED <<now, structVars, renewVars, tripVars, connVars, acceptVars, ctx>>

-----------------------------------------------------------------------------
(* trip, up to its unlock: the flag and the snapshot are one critical       *)
(* section; a second call returns at once.                                  *)
EnterTrip(who) == IF fenced THEN UNCHANGED <<fenced, tripVars>>
                  ELSE /\ fenced' = TRUE
                       /\ trip' = "listener"
                       /\ tripper' = who
                       /\ snapshot' = conns

structButFenced == <<listener, conns, client, downstreamIP, authDeadline, version, maxAge>>

TripListener == /\ Running /\ trip = "listener"
                /\ listener' = "closed"
                /\ sock' = [c \in Conn |-> IF sock[c] = "backlog" THEN "closed" ELSE sock[c]]
                /\ trip' = "conns"
                /\ UNCHANGED <<now, fenced, conns, client, downstreamIP, authDeadline, version,
                               maxAge, renewVars, tripper, snapshot, src, px, dl, buf,
                               acceptVars, mainVars>>

TripConn(c) == /\ Running /\ trip = "conns" /\ c \in snapshot
               /\ sock' = [sock EXCEPT ![c] = "closed"]
               /\ snapshot' = snapshot \ {c}
               /\ UNCHANGED <<now, structVars, renewVars, trip, tripper, src, px, dl, buf,
                              acceptVars, mainVars>>

HastyTripDone == /\ Running /\ trip = "conns"                     \* mutant
                 /\ trip' = "done"
                 /\ UNCHANGED <<now, structVars, renewVars, tripper, snapshot, connVars,
                                acceptVars, mainVars>>
TripDone == /\ Running /\ trip = "conns" /\ snapshot = {}
            /\ trip' = "done"
            /\ UNCHANGED <<now, structVars, renewVars, tripper, snapshot, connVars,
                           acceptVars, mainVars>>

-----------------------------------------------------------------------------
(* renewLoop.  It never looks at p.done: a fenced process goes on renewing  *)
(* until it exits.                                                          *)
RenewTick == /\ Running /\ renewer = "wait" /\ ctx = "live"
             /\ version < MaxRenewals
             /\ renewer' = "asked" /\ base' = now
             /\ UNCHANGED <<now, structVars, watchdogs, tripVars, connVars, acceptVars, mainVars>>

(* The client Pod is the one pinned and the Lease is renewed.               *)
RenewOk == /\ Running /\ renewer = "asked"
           /\ \E g \in Grants : SetAuthorityDeadline(base + g)
           /\ renewer' = "wait" /\ base' = 0
           /\ UNCHANGED <<now, fenced, listener, conns, client, downstreamIP, maxAge,
                          tripVars, connVars, acceptVars, mainVars>>

(* Another client Pod, a request that fails or times out, a Lease that is   *)
(* held, expired or conflicted.                                             *)
RenewFails == /\ Running /\ renewer = "asked"
              /\ EnterTrip("renewer")
              /\ renewer' = "stopped" /\ base' = 0
              /\ UNCHANGED <<now, structButFenced, watchdogs, connVars, acceptVars, mainVars>>

RenewCancelled == /\ Running /\ renewer = "wait" /\ ctx = "cancelled"
                  /\ EnterTrip("renewer")
                  /\ renewer' = "stopped" /\ base' = 0
                  /\ UNCHANGED <<now, structButFenced, watchdogs, connVars, acceptVars, mainVars>>

(* The timer of a deadline fires; only the newest may trip.                 *)
Watchdog(w) == /\ Running /\ w \in watchdogs /\ now >= w[2]
               /\ watchdogs' = watchdogs \ {w}
               /\ IF ~fenced /\ version = w[1] /\ now >= authDeadline
                  THEN EnterTrip("watchdog")
                  ELSE UNCHANGED <<fenced, tripVars>>
               /\ UNCHANGED <<now, structButFenced, renewer, base, connVars, acceptVars, mainVars>>

(* The health server stops serving.                                         *)
HealthFails == /\ Running
               /\ EnterTrip("health")
               /\ UNCHANGED <<now, structButFenced, renewVars, connVars, acceptVars, mainVars>>

-----------------------------------------------------------------------------
(* A client connects: the kernel completes the handshake.                   *)
Arrive(c) == /\ Running /\ listener = "open" /\ sock[c] = "none"
             /\ sock' = [sock EXCEPT ![c] = "backlog"]
             /\ \E ip \in IPs : src' = [src EXCEPT ![c] = ip]
             /\ UNCHANGED <<now, structVars, renewVars, tripVars, px, dl, buf, acceptVars, mainVars>>

Accept(c) == /\ Running /\ acceptor = "accept" /\ listener = "open" /\ sock[c] = "backlog"
             /\ sock' = [sock EXCEPT ![c] = "open"]
             /\ acceptor' = "admit" /\ acc' = c
             /\ UNCHANGED <<now, structVars, renewVars, tripVars, src, px, dl, buf, mainVars>>

AcceptStops == /\ Running /\ acceptor = "accept" /\ listener = "closed"
               /\ acceptor' = "stopped"
               /\ UNCHANGED <<now, structVars, renewVars, tripVars, connVars, acc, mainVars>>

(* acceptLoop closes the connection it has in hand and goes on.             *)
CloseAccepted == /\ sock' = [sock EXCEPT ![acc] = "closed"]
                 /\ acceptor' = "accept" /\ acc' = Nobody

Admissible == /\ ~fenced
              /\ src[acc] = client[2]
              /\ downstreamIP \in {Nobody, src[acc]}

AdmitSource == /\ Running /\ acceptor = "admit" /\ Admissible
               /\ downstreamIP' = src[acc]
               /\ acceptor' = "register"
               /\ UNCHANGED <<now, fenced, listener, conns, client, authDeadline, version, maxAge,
                              renewVars, tripVars, connVars, acc, mainVars>>

RejectSource == /\ Running /\ acceptor = "admit" /\ ~Admissible
                /\ CloseAccepted
                /\ UNCHANGED <<now, structVars, renewVars, tripVars, src, px, dl, buf, mainVars>>

(* The second look at fenced, with the registration under the same lock.    *)
UncheckedRegister == /\ Running /\ acceptor = "register"          \* mutant
                     /\ conns' = conns \cup {acc}
                     /\ px' = [px EXCEPT ![acc] = "begin"]
                     /\ acceptor' = "accept" /\ acc' = Nobody
                     /\ UNCHANGED <<now, fenced, listener, client, downstreamIP, authDeadline,
                                    version, maxAge, renewVars, tripVars, sock, src, dl, buf,
                                    mainVars>>
Register == /\ Running /\ acceptor = "register" /\ ~fenced
            /\ conns' = conns \cup {acc}
            /\ px' = [px EXCEPT ![acc] = "begin"]
            /\ acceptor' = "accept" /\ acc' = Nobody
            /\ UNCHANGED <<now, fenced, listener, client, downstreamIP, authDeadline, version,
                           maxAge, renewVars, tripVars, sock, src, dl, buf, mainVars>>

RejectFenced == /\ Running /\ acceptor = "register" /\ fenced
                /\ CloseAccepted
                /\ UNCHANGED <<now, structVars, renewVars, tripVars, src, px, dl, buf, mainVars>>

-----------------------------------------------------------------------------
(* proxy: connectionDeadline, then the upstream dial, then two copies.      *)
UncappedDeadline == now + maxAge                                  \* mutant
ConnectionDeadline == Least(now + maxAge, authDeadline)

proxyRest == <<now, fenced, listener, client, downstreamIP, authDeadline, version, maxAge,
               renewVars, tripVars, src, acceptVars, mainVars>>

Begin(c) == /\ Running /\ px[c] = "begin"
            /\ dl' = [dl EXCEPT ![c] = ConnectionDeadline]
            /\ px' = [px EXCEPT ![c] = IF now < ConnectionDeadline THEN "dial" ELSE "return"]
            /\ UNCHANGED <<proxyRest, conns, sock, buf>>

Dial(c) == /\ Running /\ px[c] = "dial"
           /\ \E next \in {"copy", "return"} : px' = [px EXCEPT ![c] = next]
           /\ UNCHANGED <<proxyRest, conns, sock, dl, buf>>

(* A socket can be read and written until it is closed or its deadline.     *)
Usable(c) == sock[c] = "open" /\ now < dl[c]

Read(c) == /\ Running /\ px[c] = "copy" /\ Usable(c) /\ ~buf[c]
           /\ buf' = [buf EXCEPT ![c] = TRUE]
           /\ UNCHANGED <<proxyRest, conns, sock, px, dl>>

(* The chunk reaches Web3Signer: the upstream socket has the same deadline  *)
(* but trip does not close it, and the other copy goes on until proxy's     *)
(* deferred calls have closed it.                                           *)
Forward(c) == /\ Running /\ px[c] \in {"copy", "return"} /\ buf[c] /\ now < dl[c]
              /\ buf' = [buf EXCEPT ![c] = FALSE]
              /\ UNCHANGED <<proxyRest, conns, sock, px, dl>>

(* One copy ends: the peer closed, trip closed the client, or the deadline. *)
CopyEnds(c) == /\ Running /\ px[c] = "copy"
               /\ px' = [px EXCEPT ![c] = "return"]
               /\ UNCHANGED <<proxyRest, conns, sock, dl, buf>>

(* The deferred calls: close the upstream, unregister, close the client.    *)
LeakyUnregister(c) == /\ Running /\ px[c] = "return"             \* mutant
                      /\ px' = [px EXCEPT ![c] = "close"]
                      /\ buf' = [buf EXCEPT ![c] = FALSE]
                      /\ UNCHANGED <<proxyRest, conns, sock, dl>>
Unregister(c) == /\ Running /\ px[c] = "return"
                 /\ conns' = conns \ {c}
                 /\ px' = [px EXCEPT ![c] = "close"]
                 /\ buf' = [buf EXCEPT ![c] = FALSE]
                 /\ UNCHANGED <<proxyRest, sock, dl>>

CloseClient(c) == /\ Running /\ px[c] = "close"
                  /\ sock' = [sock EXCEPT ![c] = "closed"]
                  /\ px' = [px EXCEPT ![c] = "end"]
                  /\ dl' = [dl EXCEPT ![c] = 0]
                  /\ UNCHANGED <<proxyRest, conns, buf>>

-----------------------------------------------------------------------------
Signal == /\ Running /\ ctx = "live"
          /\ ctx' = "cancelled"
          /\ UNCHANGED <<now, structVars, renewVars, tripVars, connVars, acceptVars, main>>

(* main's select: close() on a signal, or exit 1 when p.done is closed.     *)
MainClose == /\ main = "serve" /\ ctx = "cancelled"
             /\ EnterTrip("main")
             /\ main' = "close"
             /\ UNCHANGED <<now, structButFenced, renewVars, connVars, acceptVars, ctx>>

(* close() has returned: its own trip is finished, or another began first.  *)
MainReturns == /\ main = "close"
               /\ tripper = "main" => Done
               /\ main' = "exit0"
               /\ UNCHANGED <<now, structVars, renewVars, tripVars, connVars, acceptVars, ctx>>

SignalledMainLost == /\ main = "serve" /\ Done /\ ctx = "cancelled"  \* mutant
                     /\ main' = "exit1"
                     /\ UNCHANGED <<now, structVars, renewVars, tripVars, connVars, acceptVars,
                                    ctx>>
MainLost == /\ main = "serve" /\ Done
            /\ main' = "exit1"
            /\ UNCHANGED <<now, structVars, renewVars, tripVars, connVars, acceptVars, ctx>>

Terminated == main \in {"exit0", "exit1"} /\ UNCHANGED vars

TripStep == TripListener \/ (\E c \in Conn : TripConn(c)) \/ TripDone
RenewStep == RenewTick \/ RenewOk \/ RenewFails \/ RenewCancelled
AcceptStep == (\E c \in Conn : Accept(c)) \/ AcceptStops \/ AdmitSource \/ RejectSource
              \/ Register \/ RejectFenced
ProxyStep(c) == Begin(c) \/ Dial(c) \/ CopyEnds(c) \/ Unregister(c) \/ CloseClient(c)
MainStep == Start \/ StartFails \/ MainClose \/ MainReturns \/ MainLost

Next == \/ Tick \/ Signal \/ HealthFails
        \/ TripStep \/ RenewStep \/ AcceptStep \/ MainStep
        \/ \E w \in watchdogs : Watchdog(w)
        \/ \E c \in Conn : Arrive(c) \/ Read(c) \/ Forward(c) \/ ProxyStep(c)
        \/ Terminated

Spec == Init /\ [][Next]_vars

(* The Go scheduler runs every goroutine that can run, timers fire, the     *)
(* kernel ends a copy whose socket is closed or past its deadline.  Nothing *)
(* is assumed of the Kubernetes API, so nothing of renewLoop.               *)
CopyMustEnd(c) == ~(sock[c] = "open" /\ now < dl[c]) /\ CopyEnds(c)
Fairness ==
  /\ WF_vars(Tick) /\ WF_vars(TripStep) /\ WF_vars(AcceptStep) /\ WF_vars(MainStep)
  /\ WF_vars(\E w \in watchdogs : Watchdog(w))
  /\ \A c \in Conn : WF_vars(Begin(c) \/ Dial(c) \/ CopyMustEnd(c) \/ Unregister(c)
                              \/ CloseClient(c))

FairSpec == Spec /\ Fairness

-----------------------------------------------------------------------------
TypeOK ==
  /\ now \in 0 .. MaxTime
  /\ fenced \in BOOLEAN /\ listener \in {"none", "open", "closed"}
  /\ conns \subseteq Conn /\ snapshot \subseteq Conn
  /\ client \in Identity \cup {Nobody} /\ downstreamIP \in IPs \cup {Nobody}
  /\ authDeadline \in Nat /\ version \in 0 .. MaxRenewals + 1 /\ maxAge \in 1 .. MaxAge
  /\ watchdogs \subseteq ((1 .. version) \X Nat)
  /\ renewer \in {"off", "wait", "asked", "stopped"} /\ base \in 0 .. now
  /\ trip \in {"none", "listener", "conns", "done"} /\ (trip = "none" <=> ~fenced)
  /\ acceptor \in {"off", "accept", "admit", "register", "stopped"}
  /\ acc \in Conn \cup {Nobody} /\ (acc # Nobody <=> acceptor \in {"admit", "register"})
  /\ sock \in [Conn -> {"none", "backlog", "open", "closed"}]
  /\ px \in [Conn -> {"none", "begin", "dial", "copy", "return", "close", "end"}]
  /\ \A c \in Conn : c \in conns <=> px[c] \in {"begin", "dial", "copy", "return"}

(* When trip has run to its end no client socket is open, except one that   *)
(* acceptLoop has in its hand or a returning proxy has unregistered, and    *)
(* each of them will close it: no connection slips between the snapshot and *)
(* its registration (main.go 480-492, 559-577).                             *)
NoSurvivor == Done => \A c \in Conn : sock[c] = "open" => c = acc \/ px[c] = "close"

(* Nothing is forwarded at or after the authority deadline, however late    *)
(* the watchdog and renewLoop are scheduled (main.go 434-436, 513, 521).    *)
(* Stated for a Lease whose duration stays the same.                        *)
ForwardsWithinAuthority ==
  [][\A c \in Conn : buf[c] /\ ~buf'[c] /\ px'[c] = px[c] => now < authDeadline]_vars

(* Whoever trips the fence, the process ends.                               *)
FencedExits == fenced ~> ~Running

(* An authority that runs out fences the process, with renewLoop stuck in a *)
(* request that is never answered and whatever timers are left from earlier *)
(* deadlines; only a renewal can prevent it.                                *)
ExpiryFences == (Running /\ now >= authDeadline) ~> (fenced \/ ~Running \/ now < authDeadline)
=============================================================================
