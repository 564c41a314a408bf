--------------------------- MODULE ClientConnection ---------------------------
(***************************************************************************)
(* The relay connection of a NexnetClient (packages/client/src/client.ts):  *)
(* connect, disconnect and close, the asynchronous _connect with its awaits *)
(* of the certificate renewal and of the prekey publication, the socket's   *)
(* events, and the reconnect timers.                                        *)
(*                                                                          *)
(* _connectionGeneration is only ever compared for equality, so an attempt  *)
(* in flight records whether it is still the current one.  A timer that is  *)
(* pending while _reconnectTimer refers to another, or to none, can no      *)
(* longer be cleared; timers counts all of them and armed says whether the   *)
(* field refers to one.                                                     *)
(***************************************************************************)
EXTENDS Naturals, FiniteSets

CONSTANTS
  WebSockets,     \* WebSocket objects (one that has closed is used again)
  Attempts,       \* slots for calls of _connect suspended at an await
  Null,
  Renews,         \* a certificate lifecycle is configured
  Publishes,      \* a persistent client with a presence service
  EagerCaller,    \* the caller may connect() while a connection is under way
  MaxAttempts,    \* maxReconnectAttempts, 0 for no limit
  MaxTimers       \* bound: timers pending at once

ASSUME ConnectionAssumption ==
  /\ Null \notin WebSockets
  /\ Renews \in BOOLEAN /\ Publishes \in BOOLEAN /\ EagerCaller \in BOOLEAN
  /\ MaxAttempts \in Nat /\ MaxTimers \in Nat \ {0}

VARIABLES
  online,             \* _online
  ws,                 \* _ws
  socket,             \* "closed", "opening", "authenticated" or "closing"
  connecting,         \* [Attempts -> Null or [stage, current]]
  timers,             \* reconnect timers pending
  armed,              \* _reconnectTimer refers to one of them
  attempts,           \* _reconnectAttempts (0 throughout without a limit)
  intentionalClose,   \* _intentionalClose
  closed,             \* _closed
  renewing,           \* the lifecycle's renewal timer runs
  expired,            \* the device certificate has expired
  duty,               \* a lost connection has yet to be restored or given up
  stranded            \* the attempt to restore it ended before it had a socket

connectionVars == <<online, ws, socket, connecting, timers, armed, attempts,
                    intentionalClose, closed, renewing, expired, duty, stranded>>

SocketStates == {"closed", "opening", "authenticated", "closing"}
Stages == {"ensure", "publish"}

----------------------------------------------------------------------------
(* Steps shared by the handlers.                                            *)

\* Every attempt in flight is superseded: ++_connectionGeneration.
Superseded ==
  [a \in Attempts |-> IF connecting[a] = Null THEN Null
                      ELSE [connecting[a] EXCEPT !.current = FALSE]]

InFlight(a, stage) == connecting[a] # Null /\ connecting[a].stage = stage

Settled(a) == [connecting EXCEPT ![a] = Null]

\* A new WebSocket is the client's own from the moment it is created.
FreshSocket ==
  \E s \in WebSockets :
    /\ socket[s] = "closed"
    /\ socket' = [socket EXCEPT ![s] = "opening"]
    /\ ws' = s

\* The end of _connect: an expired certificate is refused, for good.
OpenSocket ==
  \/ /\ ~expired
     /\ FreshSocket
     /\ UNCHANGED duty
  \/ /\ expired
     /\ duty' = FALSE
     /\ UNCHANGED <<socket, ws>>

\* _connect up to its first await, or to its end when it has none.
StartConnect ==
  /\ ~closed
  /\ stranded' = FALSE
  /\ IF Renews \/ Publishes
     THEN /\ \E a \in Attempts :
               /\ connecting[a] = Null
               /\ connecting' = [Superseded EXCEPT ![a] =
                    [stage   |-> IF Renews THEN "ensure" ELSE "publish",
                     current |-> TRUE]]
          /\ UNCHANGED <<socket, ws, duty>>
     ELSE /\ connecting' = Superseded
          /\ OpenSocket

\* disconnect(): clearTimeout reaches the timer _reconnectTimer refers to.
\* remaining is what is left of the attempts in flight.
DisconnectEffects(remaining) ==
  /\ intentionalClose' = TRUE
  /\ connecting' = remaining
  /\ renewing' = FALSE
  /\ timers' = IF armed THEN timers - 1 ELSE timers
  /\ armed' = FALSE
  /\ socket' = IF ws = Null THEN socket ELSE [socket EXCEPT ![ws] = "closing"]
  /\ ws' = Null
  /\ online' = FALSE
  /\ attempts' = 0
  /\ duty' = FALSE
  /\ stranded' = FALSE

\* Mutant: the attempts are not counted.
ScheduleUncounted ==
  IF MaxAttempts > 0 /\ attempts >= MaxAttempts
  THEN duty' = FALSE /\ UNCHANGED <<timers, armed, attempts>>
  ELSE /\ timers < MaxTimers
       /\ timers' = timers + 1 /\ armed' = TRUE /\ duty' = TRUE
       /\ UNCHANGED attempts

\* _scheduleReconnect: an earlier timer is neither cleared nor remembered.
ScheduleReconnect ==
  IF MaxAttempts > 0 /\ attempts >= MaxAttempts
  THEN duty' = FALSE /\ UNCHANGED <<timers, armed, attempts>>
  ELSE /\ timers < MaxTimers
       /\ timers' = timers + 1 /\ armed' = TRUE /\ duty' = TRUE
       /\ attempts' = IF MaxAttempts = 0 THEN 0 ELSE attempts + 1

\* Something under way may yet bring the client online.
UnderWay ==
  \/ timers > 0
  \/ \E a \in Attempts : connecting[a] # Null /\ connecting[a].current
  \/ ws # Null

----------------------------------------------------------------------------
(* Calls of the application.                                                *)

Connect ==
  /\ ~online
  /\ ~EagerCaller => ~UnderWay
  /\ intentionalClose' = FALSE
  /\ StartConnect
  /\ UNCHANGED <<online, timers, armed, attempts, closed, renewing, expired>>

Disconnect ==
  /\ DisconnectEffects(Superseded)
  /\ UNCHANGED <<closed, expired>>

Close ==
  /\ ~closed
  /\ closed' = TRUE
  /\ DisconnectEffects(Superseded)
  /\ UNCHANGED expired

----------------------------------------------------------------------------
(* Continuations of _connect, and the lifecycle's renewal timer.            *)

\* ensureDeviceCertificate resolved: the certificate is valid.
EnsureDone(a) ==
  /\ InFlight(a, "ensure")
  /\ expired' = FALSE
  /\ IF connecting[a].current /\ Publishes
     THEN connecting' = [connecting EXCEPT ![a].stage = "publish"]
     ELSE connecting' = Settled(a)
  /\ IF connecting[a].current /\ ~Publishes
     THEN FreshSocket
     ELSE UNCHANGED <<socket, ws>>
  /\ UNCHANGED <<online, timers, armed, attempts, intentionalClose, closed,
                 renewing, duty, stranded>>

\* The renewal failed: the current attempt disconnects, here or, once the
\* certificate has expired, in the lifecycle.
EnsureFailed(a) ==
  /\ InFlight(a, "ensure")
  /\ IF connecting[a].current
     THEN DisconnectEffects([Superseded EXCEPT ![a] = Null])
     ELSE /\ connecting' = Settled(a)
          /\ UNCHANGED <<online, ws, socket, timers, armed, attempts,
                         intentionalClose, renewing, duty, stranded>>
  /\ UNCHANGED <<closed, expired>>

PublishDone(a) ==
  /\ InFlight(a, "publish")
  /\ connecting' = Settled(a)
  /\ IF connecting[a].current THEN OpenSocket
     ELSE UNCHANGED <<socket, ws, duty>>
  /\ UNCHANGED <<online, timers, armed, attempts, intentionalClose, closed,
                 renewing, expired, stranded>>

\* publishLocalPrekeys rejected: the attempt ends here, without a socket.
PublishFailed(a) ==
  /\ InFlight(a, "publish")
  /\ connecting' = Settled(a)
  /\ stranded' = (stranded \/ connecting[a].current)
  /\ UNCHANGED <<online, ws, socket, timers, armed, attempts, intentionalClose,
                 closed, renewing, expired, duty>>

\* The renewal timer finds the certificate expired and the signer out of reach.
RenewalFailed ==
  /\ renewing /\ expired
  /\ DisconnectEffects(Superseded)
  /\ UNCHANGED <<closed, expired>>

RenewalDone ==
  /\ renewing /\ expired
  /\ expired' = FALSE
  /\ UNCHANGED <<online, ws, socket, connecting, timers, armed, attempts,
                 intentionalClose, closed, renewing, duty, stranded>>

Expire ==
  /\ ~expired
  /\ expired' = TRUE
  /\ UNCHANGED <<online, ws, socket, connecting, timers, armed, attempts,
                 intentionalClose, closed, renewing, duty, stranded>>

----------------------------------------------------------------------------
(* Events of a socket.                                                      *)

\* The relay confirms; the messages of a socket that was replaced are ignored.
Authenticated(s) ==
  /\ socket[s] = "opening" /\ ws = s
  /\ socket' = [socket EXCEPT ![s] = "authenticated"]
  /\ online' = TRUE
  /\ attempts' = 0
  /\ renewing' = Renews
  /\ duty' = FALSE
  /\ UNCHANGED <<ws, connecting, timers, armed, intentionalClose, closed,
                 expired, stranded>>

\* The handshake timer of a socket that was never confirmed.
HandshakeTimeout(s) ==
  /\ socket[s] = "opening"
  /\ socket' = [socket EXCEPT ![s] = "closing"]
  /\ UNCHANGED <<online, ws, connecting, timers, armed, attempts,
                 intentionalClose, closed, renewing, expired, duty, stranded>>

\* onclose; rejected is a close with 4401 during the handshake.
SocketClose(s, rejected) ==
  /\ socket[s] # "closed"
  /\ rejected => socket[s] = "opening"
  /\ socket' = [socket EXCEPT ![s] = "closed"]
  /\ IF ws # s
     THEN UNCHANGED <<online, ws, duty, timers, armed, attempts>>
     ELSE /\ online' = FALSE /\ ws' = Null
          /\ IF intentionalClose \/ rejected
             THEN /\ duty' = FALSE
                  /\ UNCHANGED <<timers, armed, attempts>>
             ELSE ScheduleReconnect
  /\ UNCHANGED <<connecting, intentionalClose, closed, renewing, expired, stranded>>

----------------------------------------------------------------------------
(* Reconnect timers.                                                        *)

\* A timer fires, the one _reconnectTimer refers to or one it has forgotten;
\* either way the field is cleared.  After close() _connect throws at once.
TimerFires(isArmed) ==
  /\ IF isArmed THEN armed ELSE timers > (IF armed THEN 1 ELSE 0)
  /\ timers' = timers - 1
  /\ armed' = FALSE
  /\ IF closed
     THEN connecting' = Superseded /\ UNCHANGED <<socket, ws, duty, stranded>>
     ELSE StartConnect
  /\ UNCHANGED <<online, attempts, intentionalClose, closed, renewing, expired>>

ConnectionInit ==
  /\ online = FALSE /\ ws = Null
  /\ socket = [s \in WebSockets |-> "closed"]
  /\ connecting = [a \in Attempts |-> Null]
  /\ timers = 0 /\ armed = FALSE /\ attempts = 0
  /\ intentionalClose = FALSE /\ closed = FALSE
  /\ renewing = FALSE /\ expired = FALSE /\ duty = FALSE
  /\ stranded = FALSE

ConnectionNext ==
  \/ Connect \/ Disconnect \/ Close
  \/ \E a \in Attempts : EnsureDone(a) \/ EnsureFailed(a)
  \/ \E a \in Attempts : PublishDone(a) \/ PublishFailed(a)
  \/ RenewalFailed \/ RenewalDone \/ Expire
  \/ \E s \in WebSockets : Authenticated(s) \/ HandshakeTimeout(s)
  \/ \E s \in WebSockets, rejected \in BOOLEAN : SocketClose(s, rejected)
  \/ \E isArmed \in BOOLEAN : TimerFires(isArmed)

ConnectionSpec == ConnectionInit /\ [][ConnectionNext]_connectionVars

\* A pending timer fires; a closing socket closes; an unconfirmed one is
\* closed by its handshake timer; the renewal, which gives its signer 15
\* seconds, and the HTTP request of the publication settle one way or the
\* other.  The relay owes nothing.
ConnectionFairness ==
  /\ \A isArmed \in BOOLEAN : WF_connectionVars(TimerFires(isArmed))
  /\ \A s \in WebSockets :
       /\ WF_connectionVars(HandshakeTimeout(s))
       /\ WF_connectionVars(socket[s] = "closing" /\ SocketClose(s, FALSE))
  /\ \A a \in Attempts :
       /\ WF_connectionVars(EnsureDone(a) \/ EnsureFailed(a))
       /\ WF_connectionVars(PublishDone(a) \/ PublishFailed(a))

----------------------------------------------------------------------------
(* Properties.                                                              *)

\* Types of the fields; a timer the field refers to is pending, and only a
\* bounded number of attempts is counted.
ConnectionTypeOK ==
  /\ online \in BOOLEAN /\ closed \in BOOLEAN /\ duty \in BOOLEAN
  /\ ws \in WebSockets \cup {Null}
  /\ socket \in [WebSockets -> SocketStates]
  /\ \A a \in Attempts : connecting[a] # Null =>
       connecting[a] \in [stage : Stages, current : BOOLEAN]
  /\ timers \in 0..MaxTimers
  /\ armed => timers > 0
  /\ attempts \in 0..MaxAttempts
  /\ intentionalClose \in BOOLEAN /\ renewing \in BOOLEAN /\ expired \in BOOLEAN

\* After disconnect() or close() the client is and stays offline until the
\* application connects again, whatever timers, awaits and sockets were under
\* way when it was called.
NoReconnectAfterDisconnect ==
  intentionalClose => ~online

\* "onclose will schedule next attempt": an attempt to restore the connection
\* that fails is followed by another until the limit is reached.
NextAttemptScheduled ==
  duty => UnderWay

\* What becomes of a connection: with a limit on the attempts, a lost one is
\* eventually restored or given up, even when the relay never answers, and one
\* that disconnect() ended is not restored by what was under way.
LossSettles == []NoReconnectAfterDisconnect /\ (duty ~> ~duty \/ stranded)
=============================================================================
