---------------------------- MODULE PeerSessions ----------------------------
(***************************************************************************)
(* Direct sessions between two peers (PeerManager in packages/client/src/  *)
(* webrtc.ts, transport.ts): offers, answers and candidates over the relay *)
(* and the data channels they set up.                                      *)
(*                                                                         *)
(* connect() and the handler of an offer are suspended while the peer      *)
(* connection makes its descriptions; each is an action up to the first    *)
(* await and one from the last await on.  A session id is drawn at random, *)
(* here in order.  The peer connection itself is external: with both       *)
(* descriptions in place and a candidate across, its channel opens unless  *)
(* the network or the other end fails it.  Both peers may offer at once;   *)
(* each then tracks the session the other offered and keeps its own only   *)
(* under its session id.                                                   *)
(***************************************************************************)
EXTENDS Naturals, Sequences, FiniteSets

CONSTANTS
  Ends,          \* the two peers
  NoSession,     \* absence from a map
  MaxSessions,   \* bound: session ids drawn
  MaxFaults      \* bound: relay connections lost, networks failed, closes

ASSUME EndsAssumption == Cardinality(Ends) = 2

SessionIds == 1..MaxSessions

VARIABLES
  tracked,    \* peer's sessions map: its session with the other, or NoSession
  known,      \* peer's bySessionId map: the ids in it
  session,    \* peer, id |-> the PeerSession and its connection, or NoSession
  signals,    \* peer |-> signalling on its way to it, in order
  linked,     \* peers whose relay connection is up
  drawn,      \* session ids drawn so far
  faults,     \* faults so far
  lost        \* ids one of whose descriptions will never arrive

peerVars == <<tracked, known, session, signals, linked, drawn, faults, lost>>

Other(n) == CHOOSE m \in Ends : m # n

\* step follows the awaits of connect() and of the offer's handler; described:
\* both descriptions are set; reachable: a candidate of the other end was
\* added; up: the peer connection is not closed.
NewSession(role) ==
  [role |-> role, step |-> "describing", state |-> "connecting",
   described |-> FALSE, reachable |-> FALSE, up |-> TRUE]

Connecting(n, id) ==
  session[n][id] # NoSession /\ session[n][id].state = "connecting"

-----------------------------------------------------------------------------
(* Helpers *)

\* track(): a session of the same peer that was tracked stays in bySessionId.
Track(n, id, role) ==
  /\ tracked' = [tracked EXCEPT ![n] = id]
  /\ known' = [known EXCEPT ![n] = @ \cup {id}]
  /\ session' = [session EXCEPT ![n][id] = NewSession(role)]

\* The relay forwards to a peer that is connected and drops the rest.
Forwarded(n, messages) ==
  IF Other(n) \in linked
  THEN [signals EXCEPT ![Other(n)] = @ \o messages]
  ELSE signals

-----------------------------------------------------------------------------
(* connect() *)

\* A session that is neither closed nor failed is returned as it is.
Replaces(n) ==
  tracked[n] # NoSession =>
    session[n][tracked[n]].state \in {"closed", "failed"}

ConnectPeer(n) ==
  /\ Replaces(n)
  /\ drawn < MaxSessions
  /\ drawn' = drawn + 1
  /\ Track(n, drawn + 1, "offers")
  /\ UNCHANGED <<signals, linked, faults, lost>>

\* createOffer and setLocalDescription resolved, or rejected because the
\* connection was closed.  Sending while offline throws: connect() rejects
\* and leaves the session as it is.  The candidates follow the offer.
SendDescription(n, id) ==
  LET s == session[n][id]
      kind == IF s.role = "offers" THEN "offer" ELSE "answer"
      sent == s.up /\ n \in linked
  IN  /\ s # NoSession
      /\ s.step = "describing"
      /\ session' = [session EXCEPT ![n][id].step =
                       IF sent THEN "signalled" ELSE "rejected",
                     ![n][id].described = s.up /\ s.role = "answers"]
      /\ signals' =
           IF sent
           THEN Forwarded(n, <<[kind |-> kind, id |-> id],
                               [kind |-> "candidate", id |-> id]>>)
           ELSE signals
      /\ lost' = IF sent /\ Other(n) \in linked THEN lost
                 ELSE lost \cup {id}
      /\ UNCHANGED <<tracked, known, linked, drawn, faults>>

-----------------------------------------------------------------------------
(* Signalling handlers *)

OnOffer(n, id) == Track(n, id, "answers")

\* Mutant: the answer goes to the session tracked for the peer.
OnAnswerTracked(n, id) ==
  /\ session' = IF tracked[n] = id /\ session[n][id].up
                THEN [session EXCEPT ![n][id].described = TRUE]
                ELSE session
  /\ UNCHANGED <<tracked, known>>

\* The session is found by its id.
OnAnswer(n, id) ==
  /\ session' = IF id \in known[n] /\ session[n][id].up
                THEN [session EXCEPT ![n][id].described = TRUE]
                ELSE session
  /\ UNCHANGED <<tracked, known>>

OnCandidate(n, id) ==
  /\ session' = IF id \in known[n] /\ session[n][id].up
                THEN [session EXCEPT ![n][id].reachable = TRUE]
                ELSE session
  /\ UNCHANGED <<tracked, known>>

ReceiveSignal(n) ==
  /\ signals[n] # <<>>
  /\ LET m == Head(signals[n])
     IN  \/ m.kind = "offer" /\ OnOffer(n, m.id)
         \/ m.kind = "answer" /\ OnAnswer(n, m.id)
         \/ m.kind = "candidate" /\ OnCandidate(n, m.id)
  /\ signals' = [signals EXCEPT ![n] = Tail(@)]
  /\ UNCHANGED <<linked, drawn, faults, lost>>

-----------------------------------------------------------------------------
(* Events of the peer connection and its channel *)

\* The other end of the connection is there and has not given up.
OtherEndLives(n, id) ==
  LET t == session[Other(n)][id]
  IN  /\ t # NoSession
      /\ t.up /\ t.state \in {"connecting", "open"}

\* onopen of the channel bound by connect() or by ondatachannel.
ChannelOpens(n, id) ==
  LET s == session[n][id]
      t == session[Other(n)][id]
  IN  /\ s # NoSession /\ s.up /\ s.described /\ s.state = "connecting"
      /\ OtherEndLives(n, id) /\ t.described
      /\ s.reachable \/ t.reachable
      /\ session' = [session EXCEPT ![n][id].state = "open"]
      /\ UNCHANGED <<tracked, known, signals, linked, drawn, faults, lost>>

\* The other end is gone: onclose of an open channel, or the connection fails
\* because its checks are not answered.
OtherEndGone(n, id) ==
  LET s == session[n][id]
  IN  /\ s # NoSession /\ s.up /\ s.described
      /\ s.state \in {"connecting", "open"}
      /\ ~OtherEndLives(n, id)
      /\ session' = [session EXCEPT ![n][id].state =
                       IF @ = "open" THEN "closed" ELSE "failed"]
      /\ UNCHANGED <<tracked, known, signals, linked, drawn, faults, lost>>

\* The network fails a connection whose checks have started, or onerror.
ConnectionFails(n, id) ==
  LET s == session[n][id]
  IN  /\ faults < MaxFaults
      /\ s # NoSession /\ s.up /\ s.described
      /\ s.state \in {"connecting", "open"}
      /\ session' = [session EXCEPT ![n][id].state = "failed"]
      /\ faults' = faults + 1
      /\ UNCHANGED <<tracked, known, signals, linked, drawn, lost>>

-----------------------------------------------------------------------------
(* The application and the relay connection *)

\* close(): what the peer still tracks; other sessions with it stay.
ClosePeer(n) ==
  LET id == tracked[n]
  IN  /\ faults < MaxFaults
      /\ id # NoSession
      /\ session' = [session EXCEPT ![n][id].state = "closed",
                                    ![n][id].up = FALSE]
      /\ tracked' = [tracked EXCEPT ![n] = NoSession]
      /\ known' = [known EXCEPT ![n] = @ \ {id}]
      /\ faults' = faults + 1
      /\ UNCHANGED <<signals, linked, drawn, lost>>

RelayLost(n) ==
  /\ faults < MaxFaults
  /\ n \in linked
  /\ linked' = linked \ {n}
  /\ signals' = [signals EXCEPT ![n] = <<>>]
  /\ lost' = lost \cup {signals[n][k].id : k \in DOMAIN signals[n]}
  /\ faults' = faults + 1
  /\ UNCHANGED <<tracked, known, session, drawn>>

RelayBack(n) ==
  /\ n \notin linked
  /\ linked' = linked \cup {n}
  /\ UNCHANGED <<tracked, known, session, signals, drawn, faults, lost>>

-----------------------------------------------------------------------------
PeersInit ==
  /\ tracked = [n \in Ends |-> NoSession]
  /\ known = [n \in Ends |-> {}]
  /\ session = [n \in Ends |-> [id \in SessionIds |-> NoSession]]
  /\ signals = [n \in Ends |-> <<>>]
  /\ linked = Ends
  /\ drawn = 0
  /\ faults = 0
  /\ lost = {}

PeersNext ==
  \E n \in Ends :
    \/ ConnectPeer(n) \/ ReceiveSignal(n) \/ ClosePeer(n)
    \/ RelayLost(n) \/ RelayBack(n)
    \/ \E id \in SessionIds :
         \/ SendDescription(n, id) \/ ChannelOpens(n, id)
         \/ OtherEndGone(n, id) \/ ConnectionFails(n, id)

\* Promises resolve, the relay delivers what it forwards, and a connection
\* with complete signalling opens or fails.  Each of these steps is taken at
\* most once per session and signal, so it is enough that they go on.
PeersFairness ==
  WF_peerVars(\E n \in Ends :
    \/ ReceiveSignal(n)
    \/ \E id \in SessionIds : \/ SendDescription(n, id)
                              \/ ChannelOpens(n, id)
                              \/ OtherEndGone(n, id))

PeersSpec == PeersInit /\ [][PeersNext]_peerVars /\ PeersFairness

-----------------------------------------------------------------------------
(* Properties *)

\* Every direct session settles, also when both peers offer at once and each
\* keeps its own offer only in bySessionId: unless an offer or an answer of
\* that very session was lost, it opens, fails or is closed at both ends.
SessionsSettle ==
  []<>(\A n \in Ends, id \in SessionIds : Connecting(n, id) => id \in lost)
=============================================================================
