-------------------------- MODULE FenceProxyProofs --------------------------
(* Proofs about one fence process, for any number of connections, any       *)
(* grants and bounds: the connections that trip must find, and the          *)
(* deadlines that cover what is forwarded.                                  *)
EXTENDS FenceProxy, TLAPS

(* Of the other variables what the argument needs: renewLoop asks within    *)
(* its bound, and the first authority is recorded by Start.                 *)
RestTyped ==
  /\ src \in [Conn -> IPs \cup {Nobody}]
  /\ dl \in [Conn -> Nat] /\ buf \in [Conn -> BOOLEAN]
  /\ main \in {"start", "serve", "close", "exit0", "exit1"}
  /\ main = "start" => version = 0 /\ authDeadline = 0 /\ acceptor = "off"
  /\ renewer = "asked" => version <= MaxRenewals

(* An open socket is in somebody's hand: acceptLoop's, or that of a proxy,  *)
(* which is registered until it has made up its mind to close the socket;   *)
(* nobody has it before it is accepted.                                     *)
Handled == \A c \in Conn :
  /\ sock[c] = "open" => c = acc \/ c \in conns \/ px[c] = "close"
  /\ sock[c] \in {"none", "backlog"} => c # acc /\ px[c] = "none"

(* trip knows every registered connection whose socket is still open, and   *)
(* has none left when it is done.                                           *)
Snapped == /\ fenced => \A c \in conns : sock[c] = "open" => c \in snapshot
           /\ Done => snapshot = {}

ProxyInv == TypeOK /\ RestTyped /\ Handled /\ Snapped

LEMMA ProxyBegins == Init => ProxyInv
<1> SUFFICES ASSUME Init PROVE ProxyInv
  OBVIOUS
<1> USE GrantAssumption, ProxyBoundAssumption, NobodyAssumption DEF Init
<1>1. /\ now \in 0 .. MaxTime /\ version \in 0 .. MaxRenewals + 1 /\ maxAge \in 1 .. MaxAge
      /\ watchdogs \subseteq (1 .. version) \X Nat /\ base \in 0 .. now
  OBVIOUS
<1>4. /\ sock \in [Conn -> {"none", "backlog", "open", "closed"}]
      /\ px \in [Conn -> {"none", "begin", "dial", "copy", "return", "close", "end"}]
      /\ \A c \in Conn : c \notin conns /\ px[c] = "none"
  OBVIOUS
<1>5. TypeOK
  BY <1>1, <1>4 DEF TypeOK
<1>2. RestTyped
  BY DEF RestTyped
<1>3. Handled /\ Snapped
  BY DEF Handled, Snapped, Done
<1> QED
  BY <1>5, <1>2, <1>3 DEF ProxyInv

(* Nothing but the flag, the snapshot and their owner changes.              *)
LEMMA EnterKeeps == ASSUME ProxyInv, NEW who, EnterTrip(who)
                    PROVE  /\ fenced' \in BOOLEAN /\ snapshot' \subseteq Conn
                           /\ trip' \in {"none", "listener", "conns", "done"}
                           /\ (trip' = "none" <=> ~fenced')
                           /\ fenced' => \A c \in conns : sock[c] = "open" => c \in snapshot'
                           /\ trip' = "done" => snapshot' = {}
<1> USE DEF ProxyInv, TypeOK, Snapped, Done, tripVars
<1>1. CASE fenced
  BY <1>1 DEF EnterTrip
<1>2. CASE ~fenced
  BY <1>2 DEF EnterTrip
<1> QED
  BY <1>1, <1>2

-----------------------------------------------------------------------------
(* The main goroutine, the clock and the signal.                            *)
LEMMA MainKeeps == ASSUME ProxyInv, MainStep \/ Tick \/ Signal \/ HealthFails PROVE ProxyInv'
<1> USE GrantAssumption, ProxyBoundAssumption
<1> USE DEF ProxyInv, TypeOK, RestTyped, Handled, Snapped, Done, structVars, structButFenced,
            renewVars, tripVars, connVars, acceptVars, mainVars
<1>1. CASE Start
  <2> USE DEF Start, SetAuthorityDeadline
  <2>1. PICK id \in Identity, left \in Nat \ {0} :
          /\ client' = id /\ maxAge' = Least(maxAge, left)
          /\ authDeadline' = now + left /\ version' = version + 1
          /\ watchdogs' = watchdogs \cup {<<version + 1, now + left>>}
    BY <1>1
  <2>3. maxAge' \in 1 .. MaxAge /\ authDeadline' \in Nat /\ version' = 1
    BY <1>1, <2>1 DEF Least
  <2>4. watchdogs' \subseteq (1 .. version') \X Nat
    BY <2>1, <2>3
  <2>7. client' \in Identity \cup {Nobody}
    BY <2>1
  <2>5. TypeOK'
    BY <1>1, <2>3, <2>4, <2>7
  <2>6. RestTyped' /\ Handled' /\ Snapped'
    BY <1>1, <2>3
  <2> QED
    BY <2>5, <2>6
<1>2. CASE StartFails \/ MainReturns \/ MainLost
  BY <1>2 DEF StartFails, MainReturns, MainLost
<1>3. CASE MainClose
  BY <1>3, EnterKeeps DEF MainClose
<1>4. CASE Tick \/ Signal
  BY <1>4 DEF Tick, Signal
<1>5. CASE HealthFails
  BY <1>5, EnterKeeps DEF HealthFails
<1> QED
  BY <1>1, <1>2, <1>3, <1>4, <1>5 DEF MainStep

(* trip closes what it has found.                                           *)
LEMMA TripKeeps == ASSUME ProxyInv, TripStep PROVE ProxyInv'
<1> USE DEF ProxyInv, TypeOK, RestTyped, Handled, Snapped, Done, structVars, structButFenced,
            renewVars, tripVars, connVars, acceptVars, mainVars
<1>1. CASE TripListener
  BY <1>1 DEF TripListener
<1>2. ASSUME NEW c \in Conn, TripConn(c) PROVE ProxyInv'
  BY <1>2 DEF TripConn
<1>3. CASE TripDone
  BY <1>3 DEF TripDone
<1> QED
  BY <1>1, <1>2, <1>3 DEF TripStep

(* renewLoop and the watchdogs.                                             *)
LEMMA RenewKeeps == ASSUME ProxyInv, RenewStep \/ \E w \in watchdogs : Watchdog(w) PROVE ProxyInv'
<1> USE GrantAssumption, ProxyBoundAssumption
<1> USE DEF ProxyInv, TypeOK, RestTyped, Handled, Snapped, Done, structVars, structButFenced,
            renewVars, tripVars, connVars, acceptVars, mainVars
<1>1. CASE RenewTick
  BY <1>1 DEF RenewTick
<1>2. CASE RenewOk
  <2>1. PICK g \in Grants : SetAuthorityDeadline(base + g)
    BY <1>2 DEF RenewOk
  <2>2. /\ authDeadline' \in Nat /\ version' \in 0 .. MaxRenewals + 1
        /\ watchdogs' \subseteq (1 .. version') \X Nat
    BY <1>2, <2>1 DEF RenewOk, SetAuthorityDeadline
  <2>3. TypeOK'
    BY <1>2, <2>2 DEF RenewOk
  <2>4. main # "start"
    BY <1>2 DEF RenewOk, Running
  <2>5. RestTyped' /\ Handled' /\ Snapped'
    BY <1>2, <2>4 DEF RenewOk
  <2> QED
    BY <2>3, <2>5
<1>3. CASE RenewFails \/ RenewCancelled
  BY <1>3, EnterKeeps DEF RenewFails, RenewCancelled
<1>4. ASSUME NEW w \in watchdogs, Watchdog(w) PROVE ProxyInv'
  BY <1>4, EnterKeeps DEF Watchdog
<1> QED
  BY <1>1, <1>2, <1>3, <1>4 DEF RenewStep

(* acceptLoop: what it has in hand it registers, before trip takes its      *)
(* snapshot, or closes.                                                     *)
LEMMA AcceptKeeps == ASSUME ProxyInv, AcceptStep \/ \E c \in Conn : Arrive(c) PROVE ProxyInv'
<1> USE NobodyAssumption
<1> USE DEF ProxyInv, TypeOK, RestTyped, Handled, Snapped, Done, structVars, structButFenced,
            renewVars, tripVars, connVars, acceptVars, mainVars
<1>1. ASSUME NEW c \in Conn, Accept(c) PROVE ProxyInv'
  <2>1. acc = Nobody /\ acc' = c /\ c # Nobody
    BY <1>1 DEF Accept
  <2>2. TypeOK' /\ RestTyped'
    BY <1>1, <2>1 DEF Accept
  <2>4. sock' = [sock EXCEPT ![c] = "open"] /\ sock[c] = "backlog"
        /\ UNCHANGED <<structVars, tripVars, px>>
    BY <1>1 DEF Accept
  <2>5. Handled'
    BY <2>1, <2>4
  <2>6. c \notin conns
    BY <1>1, <2>4
  <2>3. Handled' /\ Snapped'
    BY <2>1, <2>4, <2>5, <2>6
  <2> QED
    BY <2>2, <2>3
<1>6. ASSUME NEW c \in Conn, Arrive(c) PROVE ProxyInv'
  <2>1. TypeOK'
    BY <1>6 DEF Arrive
  <2>2. PICK ip \in IPs : src' = [src EXCEPT ![c] = ip]
    BY <1>6 DEF Arrive
  <2>3. RestTyped' /\ Handled' /\ Snapped'
    BY <1>6, <2>2 DEF Arrive
  <2> QED
    BY <2>1, <2>3
<1>2. CASE AcceptStops
  BY <1>2 DEF AcceptStops
<1>3. CASE AdmitSource
  BY <1>3 DEF AdmitSource, Admissible
<1>4. CASE RejectSource \/ RejectFenced
  BY <1>4 DEF RejectSource, RejectFenced, CloseAccepted
<1>5. CASE Register
  BY <1>5 DEF Register
<1> QED
  BY <1>1, <1>2, <1>3, <1>4, <1>5, <1>6 DEF AcceptStep

(* A proxy, from its deadline to its deferred calls.                        *)
LEMMA ConnectionKeeps == ASSUME ProxyInv, NEW c \in Conn, Read(c) \/ Forward(c) \/ ProxyStep(c)
                         PROVE  ProxyInv'
<1> USE DEF ProxyInv, TypeOK, RestTyped, Handled, Snapped, Done, structVars, proxyRest,
            renewVars, tripVars, connVars, acceptVars, mainVars
<1>1. CASE Begin(c)
  BY <1>1, GrantAssumption DEF Begin, ConnectionDeadline, Least
<1>2. CASE Dial(c) \/ CopyEnds(c)
  BY <1>2 DEF Dial, CopyEnds
<1>3. CASE Read(c) \/ Forward(c)
  <2>1. buf' \in [Conn -> BOOLEAN]
    BY <1>3 DEF Read, Forward
  <2>2. UNCHANGED <<proxyRest, conns, sock, px, dl>>
    BY <1>3 DEF Read, Forward
  <2> QED
    BY <2>1, <2>2
<1>4. CASE Unregister(c)
  <2>1. buf' \in [Conn -> BOOLEAN]
    BY <1>4 DEF Unregister
  <2> QED
    BY <1>4, <2>1 DEF Unregister
<1>5. CASE CloseClient(c)
  BY <1>5 DEF CloseClient
<1> QED
  BY <1>1, <1>2, <1>3, <1>4, <1>5 DEF ProxyStep

LEMMA ProxyKeeps == ProxyInv /\ [Next]_vars => ProxyInv'
<1> SUFFICES ASSUME ProxyInv, [Next]_vars PROVE ProxyInv'
  OBVIOUS
<1>1. CASE UNCHANGED vars
  BY <1>1 DEF vars, ProxyInv, TypeOK, RestTyped, Handled, Snapped, Done, structVars,
              renewVars, tripVars, connVars, acceptVars, mainVars
<1> QED
  BY <1>1, MainKeeps, TripKeeps, RenewKeeps, AcceptKeeps, ConnectionKeeps DEF Next, Terminated

(* The fence's variables keep their types.                                  *)
THEOREM ProxyTyped == Spec => []TypeOK
<1>1. ProxyInv => TypeOK
  BY DEF ProxyInv
<1> QED
  BY ProxyBegins, ProxyKeeps, <1>1, PTL DEF Spec

(* When trip has run to its end, no open socket is left but those whose     *)
(* goroutine has yet to close them (main.go 480-492, 559-577).              *)
THEOREM NoSurvivorHolds == Spec => []NoSurvivor
<1>1. ProxyInv => NoSurvivor
  BY DEF ProxyInv, TypeOK, Handled, Snapped, Done, NoSurvivor
<1> QED
  BY ProxyBegins, ProxyKeeps, <1>1, PTL DEF Spec

-----------------------------------------------------------------------------
(* Every deadline a proxy goes by is covered by the authority recorded now, *)
(* which no renewal of the same duration takes back.                        *)
Covered == /\ \A c \in Conn : dl[c] <= authDeadline
           /\ \A g \in Grants : /\ authDeadline <= now + g
                                /\ renewer = "asked" => authDeadline <= base + g

LEMMA CoveredKeeps == ASSUME \A g, h \in Grants : g = h, ProxyInv, Covered, [Next]_vars
                      PROVE  Covered'
<1> Grants \subseteq Nat
  BY GrantAssumption
<1> USE DEF ProxyInv, TypeOK, RestTyped, Covered, structVars, structButFenced, proxyRest,
            renewVars, tripVars, connVars, acceptVars, mainVars
<1>1. CASE UNCHANGED <<now, authDeadline, renewer, base, dl>>
  BY <1>1
<1>2. CASE Tick
  BY <1>2 DEF Tick
<1>3. CASE Start
  <2>1. PICK g \in Grants : \E left \in 1 .. g : authDeadline' = now + left
    BY <1>3 DEF Start, SetAuthorityDeadline
  <2>2. authDeadline' \in Nat /\ \A h \in Grants : authDeadline' <= now + h
    BY <2>1
  <2>3. \A c \in Conn : dl[c] <= 0 /\ dl'[c] = dl[c]
    BY <1>3 DEF Start
  <2> QED
    BY <1>3, <2>2, <2>3 DEF Start
<1>4. CASE RenewTick
  BY <1>4 DEF RenewTick
<1>5. CASE RenewOk
  <2>1. PICK g \in Grants : authDeadline' = base + g
    BY <1>5 DEF RenewOk, SetAuthorityDeadline
  <2>2. /\ authDeadline <= authDeadline' /\ authDeadline' \in Nat
        /\ \A h \in Grants : authDeadline' <= now + h
    BY <1>5, <2>1 DEF RenewOk
  <2> QED
    BY <1>5, <2>2 DEF RenewOk
<1>6. CASE RenewFails \/ RenewCancelled
  BY <1>6 DEF RenewFails, RenewCancelled
<1>7. ASSUME NEW c \in Conn, Begin(c) PROVE Covered'
  <2>1. ConnectionDeadline \in Nat /\ ConnectionDeadline <= authDeadline
    BY GrantAssumption DEF ConnectionDeadline, Least
  <2> QED
    BY <1>7, <2>1 DEF Begin
<1>8. ASSUME NEW c \in Conn, CloseClient(c) PROVE Covered'
  BY <1>8 DEF CloseClient
<1>9. CASE Signal \/ HealthFails \/ TripStep
  BY <1>1, <1>9 DEF Signal, HealthFails, TripStep, TripListener, TripConn, TripDone
<1>10. CASE AcceptStep
  BY <1>1, <1>10 DEF AcceptStep, Accept, AcceptStops, AdmitSource, RejectSource, Register,
                     RejectFenced
<1>11. CASE StartFails \/ MainClose \/ MainReturns \/ MainLost \/ UNCHANGED vars
  BY <1>1, <1>11 DEF StartFails, MainClose, MainReturns, MainLost, vars
<1>12. ASSUME NEW w \in watchdogs, Watchdog(w) PROVE Covered'
  BY <1>1, <1>12 DEF Watchdog
<1>13. ASSUME NEW c \in Conn,
              Arrive(c) \/ Read(c) \/ Forward(c) \/ Dial(c) \/ CopyEnds(c) \/ Unregister(c)
       PROVE  Covered'
  BY <1>1, <1>13 DEF Arrive, Read, Forward, Dial, CopyEnds, Unregister
<1> QED
  BY <1>2, <1>3, <1>4, <1>5, <1>6, <1>7, <1>8, <1>9, <1>10, <1>11, <1>12, <1>13
  DEF Next, RenewStep, MainStep, ProxyStep, Terminated

(* A chunk leaves a copy that stays where it is only before its deadline.   *)
LEMMA ForwardsBefore == ASSUME ProxyInv, [Next]_vars, NEW c \in Conn,
                               buf[c], ~buf'[c], px'[c] = px[c]
                        PROVE  now < dl[c]
<1> USE DEF ProxyInv, TypeOK, RestTyped, structVars, proxyRest, renewVars, tripVars, connVars,
            acceptVars, mainVars
<1>1. CASE UNCHANGED buf
  BY <1>1
<1>2. ASSUME NEW d \in Conn, Forward(d) PROVE now < dl[c]
  BY <1>2 DEF Forward
<1>3. ASSUME NEW d \in Conn, Read(d) PROVE now < dl[c]
  BY <1>3 DEF Read
<1>4. ASSUME NEW d \in Conn, Unregister(d) PROVE now < dl[c]
  BY <1>4 DEF Unregister
<1>5. CASE Tick \/ Signal \/ HealthFails \/ TripStep \/ UNCHANGED vars
  BY <1>1, <1>5 DEF Tick, Signal, HealthFails, TripStep, TripListener, TripConn, TripDone, vars
<1>6. CASE RenewStep
  BY <1>1, <1>6 DEF RenewStep, RenewTick, RenewOk, RenewFails, RenewCancelled
<1>7. CASE AcceptStep
  BY <1>1, <1>7 DEF AcceptStep, Accept, AcceptStops, AdmitSource, RejectSource, Register,
                    RejectFenced
<1>8. CASE MainStep
  BY <1>1, <1>8 DEF MainStep, Start, StartFails, MainClose, MainReturns, MainLost
<1>9. ASSUME NEW w \in watchdogs, Watchdog(w) PROVE now < dl[c]
  BY <1>1, <1>9 DEF Watchdog
<1>10. ASSUME NEW d \in Conn, Arrive(d) \/ Begin(d) \/ Dial(d) \/ CopyEnds(d) \/ CloseClient(d)
       PROVE  now < dl[c]
  BY <1>1, <1>10 DEF Arrive, Begin, Dial, CopyEnds, CloseClient
<1> QED
  BY <1>2, <1>3, <1>4, <1>5, <1>6, <1>7, <1>8, <1>9, <1>10 DEF Next, ProxyStep, Terminated

(* Where every renewal grants the same time, nothing is forwarded at or     *)
(* after the authority deadline, however late the watchdogs and renewLoop   *)
(* run (main.go 434-436, 513, 521).                                         *)
THEOREM ForwardsHold == ASSUME \A g, h \in Grants : g = h
                        PROVE  Spec => ForwardsWithinAuthority
<1>1. Init => Covered
  BY GrantAssumption DEF Init, Covered
<1>2. ProxyInv /\ Covered /\ [Next]_vars => Covered'
  BY CoveredKeeps
<1>3. ASSUME ProxyInv, Covered, [Next]_vars, NEW c \in Conn, buf[c], ~buf'[c], px'[c] = px[c]
      PROVE  now < authDeadline
  <2>1. now < dl[c]
    BY <1>3, ForwardsBefore
  <2> QED
    BY <1>3, <2>1 DEF Covered, ProxyInv, TypeOK, RestTyped
<1>4. ProxyInv /\ Covered /\ [Next]_vars
      => \A c \in Conn : buf[c] /\ ~buf'[c] /\ px'[c] = px[c] => now < authDeadline
  BY <1>3
<1> QED
  BY ProxyBegins, ProxyKeeps, <1>1, <1>2, <1>4, PTL DEF Spec, ForwardsWithinAuthority
=============================================================================
