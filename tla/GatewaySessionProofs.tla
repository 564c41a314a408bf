------------------------- MODULE GatewaySessionProofs -------------------------
(***************************************************************************)
(* Proofs about the sessions of Gateway: which streams they bind and how a  *)
(* revocation ends them, for every set of identities, certificates, tokens, *)
(* streams and concurrent requests.                                         *)
(***************************************************************************)
EXTENDS GatewayProofs

\* The backend of every leaf that names none, with a second run of more time.
USE Zenon, ZenonT(20)

-----------------------------------------------------------------------------
(* Streams and their sessions.  deleteExpiredSessions tells no stream, so   *)
(* the invariant has to remember that a row it drops had run out by then:   *)
(* the sign-in that drops it arrived in the past.                           *)

SessionInv ==
  /\ \A t \in Tokens : sessions[t] # None =>
       minted[t] # None /\ minted[t].expiresAt = sessions[t].expiresAt
  /\ \A r \in Requests : Verifying(r) => requests[r].at <= now
  /\ \A w \in Sockets : sockets[w].state = "open" /\ sockets[w].token # None =>
       minted[sockets[w].token] # None
  /\ StreamsFollowSessions

\* Streams that are open and bound after a step were so before it.
BindingsKept ==
  \A w \in Sockets :
    sockets'[w].state = "open" /\ sockets'[w].token # None =>
      sockets[w].state = "open" /\ sockets[w].token = sockets'[w].token

\* No session and no sign-in at the start.
LEMMA InitSessionInv == GatewayInit => SessionInv
BY SMT, Z3 DEF GatewayInit, SessionInv, StreamsFollowSessions, Verifying,
     NewSocket

\* Steps that create and end no session.
LEMMA SessionsKept ==
  ASSUME AuthTyped, LogTyped, SessionInv, now \in Nat, now' \in Nat, now <= now',
         SignInsKept, BindingsKept, UNCHANGED <<sessions, minted>>
  PROVE  SessionInv'
<1>1. \A r \in Requests : Verifying(r) => requests[r].at \in Nat
  BY VerifyFields DEF Verifying
<1>2. \A t \in Tokens : minted[t] # None => minted[t].expiresAt \in Nat
  BY DEF AuthTyped, MintedType
<1>3. \A r \in Requests : Verifying(r)' => requests'[r].at <= now'
  BY SMT, Z3, <1>1 DEF SessionInv, SignInsKept
<1>4. StreamsFollowSessions'
  <2> SUFFICES ASSUME NEW w \in Sockets, sockets'[w].state = "open",
                      sockets'[w].token # None,
                      sessions[sockets'[w].token] = None
               PROVE  minted[sockets'[w].token].expiresAt <= now'
    BY DEF StreamsFollowSessions
  <2>1. sockets[w].state = "open" /\ sockets[w].token = sockets'[w].token
    BY DEF BindingsKept
  <2>2. minted[sockets[w].token].expiresAt <= now
    BY <2>1 DEF SessionInv, StreamsFollowSessions
  <2>3. sockets[w].token \in Tokens
    BY <2>1 DEF LogTyped, SocketType
  <2>4. minted[sockets[w].token].expiresAt \in Nat
    BY <1>2, <2>1, <2>3 DEF SessionInv
  <2> QED
    BY SMT, Z3, <2>1, <2>2, <2>4
<1> QED
  BY <1>3, <1>4 DEF SessionInv, BindingsKept

\* endSession closes every open stream bound to the token.
LEMMA EndUnbinds ==
  ASSUME LogTyped, NEW t \in Tokens, NEW w \in Sockets,
         SocketsAfterEnd(t)[w].state = "open",
         SocketsAfterEnd(t)[w].token # None
  PROVE  /\ sockets[w].state = "open" /\ sockets[w].token # t
         /\ sockets[w].token = SocketsAfterEnd(t)[w].token
<1>1. sockets[w] \in SocketType
  BY DEF LogTyped
<1>2. [sockets[w] EXCEPT !.token = None, !.state = "closing"].state = "closing"
  BY <1>1 DEF SocketType
<1> QED
  BY <1>2 DEF SocketsAfterEnd

\* Steps that end a session with endSession.
LEMMA SessionEnded ==
  ASSUME AuthTyped, LogTyped, SessionInv, SignInsKept,
         NEW t \in Tokens, sessions' = [sessions EXCEPT ![t] = None],
         \A w \in Sockets :
           sockets'[w].state = "open" /\ sockets'[w].token # None =>
             /\ sockets[w].state = "open" /\ sockets[w].token # t
             /\ sockets[w].token = sockets'[w].token,
         UNCHANGED <<minted, now>>
  PROVE  SessionInv'
<1>1. \A u \in Tokens : u # t => sessions'[u] = sessions[u]
  BY DEF AuthTyped
<1>2. sessions'[t] = None
  BY DEF AuthTyped
<1>3. \A w \in Sockets : sockets[w].token # None => sockets[w].token \in Tokens
  BY DEF LogTyped, SocketType
<1>4. StreamsFollowSessions'
  BY SMT, Z3, <1>1, <1>3 DEF SessionInv, StreamsFollowSessions
<1>5. \A r \in Requests : Verifying(r)' => requests'[r].at <= now'
  BY DEF SessionInv, SignInsKept
<1>6. \A u \in Tokens : sessions'[u] # None =>
        minted[u] # None /\ minted[u].expiresAt = sessions'[u].expiresAt
  BY SMT, Z3, <1>1, <1>2 DEF SessionInv
<1>7. \A w \in Sockets : sockets'[w].state = "open" /\ sockets'[w].token # None =>
        minted[sockets'[w].token] # None
  BY DEF SessionInv
<1> QED
  BY <1>4, <1>5, <1>6, <1>7 DEF SessionInv

\* Logout, a refused session, a swept one and a refused stream.
LEMMA EndingSteps ==
  ASSUME AuthTyped, LogTyped, SessionInv,
         \/ \E t \in Tokens : Logout(t) \/ RefuseSession(t)
         \/ \E w \in Sockets, t \in Tokens : OnSocketRefusedSession(w, t)
         \/ \E r \in Requests, t \in Tokens, d \in Devices :
              SweepOne(r, t, d) /\ EndSession(t)
  PROVE  SessionInv'
<1>1. ASSUME NEW t \in Tokens, EndSession(t), SignInsKept, UNCHANGED <<minted, now>>
      PROVE  SessionInv'
  <2>1. /\ sessions' = [sessions EXCEPT ![t] = None]
        /\ sockets' = SocketsAfterEnd(t)
    BY <1>1 DEF EndSession
  <2>2. ASSUME NEW w \in Sockets,
               sockets'[w].state = "open", sockets'[w].token # None
        PROVE  /\ sockets[w].state = "open" /\ sockets[w].token # t
               /\ sockets[w].token = sockets'[w].token
    BY <2>1, <2>2, EndUnbinds
  <2> QED
    BY <1>1, <2>1, <2>2, SessionEnded
<1>2. ASSUME NEW t \in Tokens, Logout(t) \/ RefuseSession(t)
      PROVE  SessionInv'
  <2>1. EndSession(t) /\ SignInsKept /\ UNCHANGED <<minted, now>>
    BY <1>2 DEF Logout, RefuseSession, SignInsKept, Verifying, chainVars
  <2> QED
    BY <1>1, <2>1
<1>3. ASSUME NEW w \in Sockets, NEW t \in Tokens, OnSocketRefusedSession(w, t)
      PROVE  SessionInv'
  <2>1. SignInsKept /\ UNCHANGED <<minted, now>>
        /\ sessions' = [sessions EXCEPT ![t] = None]
    BY <1>3 DEF OnSocketRefusedSession, SignInsKept, Verifying, chainVars
  <2>2. sockets' = [SocketsAfterEnd(t) EXCEPT
          ![w] = [SocketsAfterEnd(t)[w] EXCEPT !.state = "closing"]]
    BY <1>3 DEF OnSocketRefusedSession
  <2>3. SocketsAfterEnd(t) \in [Sockets -> SocketType]
    BY EndKeepsStreams
  <2>4. sockets'[w].state = "closing"
        /\ \A v \in Sockets : v # w => sockets'[v] = SocketsAfterEnd(t)[v]
    BY <2>2, <2>3 DEF SocketType
  <2>5. \A v \in Sockets :
          sockets'[v].state = "open" /\ sockets'[v].token # None =>
            /\ sockets[v].state = "open" /\ sockets[v].token # t
            /\ sockets[v].token = sockets'[v].token
    BY SMT, Z3, <2>4, EndUnbinds
  <2> QED
    BY <2>1, <2>5, SessionEnded
<1>4. ASSUME NEW r \in Requests, NEW t \in Tokens, NEW d \in Devices,
             SweepOne(r, t, d), EndSession(t)
      PROVE  SessionInv'
  <2>1. SignInsKept /\ UNCHANGED <<minted, now>>
    BY <1>4, OtherRequestsKeep DEF SweepOne, chainVars
  <2> QED
    BY <1>1, <1>4, <2>1
<1> QED
  BY <1>2, <1>3, <1>4

\* verifyChallenge starts with the time of the request.
LEMMA TakeSessionInv ==
  ASSUME AuthTyped, SessionInv, now \in Nat,
         NEW r \in Requests, NEW ch \in ChallengeIds, VerifyTake(r, ch)
  PROVE  SessionInv'
<1>1. UNCHANGED <<sessions, minted, sockets, now>>
  BY DEF VerifyTake, chainVars
<1>2. \A s \in Requests : Verifying(s)' =>
        \/ Verifying(s) /\ requests'[s] = requests[s]
        \/ requests'[s].at = now
  BY SMT, Z3 DEF VerifyTake, Verifying, AuthTyped
<1>3. \A s \in Requests : Verifying(s)' => requests'[s].at <= now'
  BY SMT, Z3, <1>1, <1>2 DEF SessionInv
<1> QED
  BY <1>1, <1>3 DEF SessionInv, StreamsFollowSessions

\* The tail of verifyChallenge drops rows that had run out when the request
\* arrived, and no others.
LEMMA CreateSessionInv ==
  ASSUME AuthTyped, LogTyped, SessionInv, now \in Nat,
         NEW r \in Requests, NEW t \in Tokens, VerifyCreateSession(r, t)
  PROVE  SessionInv'
<1> DEFINE q == requests[r]
           expiry == Min({q.cert.expiresAt, q.at + SessionMax})
<1>1. Verifying(r) /\ minted[t] = None /\ UNCHANGED <<sockets, now>>
  BY DEF VerifyCreateSession, IsVerify, Verifying, chainVars
<1>2. /\ q.cert \in Certificates /\ q.at \in Nat /\ q.challenge \in ChallengeIds
      /\ q.at <= now
  BY <1>1, VerifyFields DEF Verifying, SessionInv
<1>3. expiry \in Nat /\ q.cert.account \in Identities /\ q.cert.device \in Devices
  <2>1. /\ q.cert.account \in Identities /\ q.cert.device \in Devices
        /\ q.cert.expiresAt \in Nat
    BY <1>2, CertificateFields
  <2>2. PICK at \in Nat : at = q.at
    BY <1>2
  <2>3. at + SessionMax \in Nat
    BY SMT, Z3, GatewayAssumption
  <2> QED
    BY <2>1, <2>2, <2>3, MinOfTwo
<1> HIDE DEF expiry
<1>4. /\ sessions'[t] = [identity |-> q.cert.account, device |-> q.cert.device,
                         expiresAt |-> expiry]
      /\ minted'[t] = [challenge |-> q.challenge, expiresAt |-> expiry]
  <2>1. sessions'[t] = [identity |-> q.cert.account, device |-> q.cert.device,
                        expiresAt |-> expiry]
    <3>1. sessions[t] = None
      BY <1>1 DEF SessionInv
    <3> QED
      BY <3>1 DEF VerifyCreateSession, expiry
  <2>2. minted' = [minted EXCEPT ![t] =
          [challenge |-> q.challenge, expiresAt |-> expiry]]
    BY DEF VerifyCreateSession, expiry
  <2> QED
    BY <2>1, <2>2 DEF AuthTyped
<1>5. sessions'[t] \in SessionType /\ minted'[t] \in MintedType
  BY SMT, Z3, <1>2, <1>3, <1>4 DEF SessionType, MintedType
<1>6. /\ sessions'[t] # None /\ minted'[t] # None
      /\ minted'[t].expiresAt = sessions'[t].expiresAt
  BY SMT, Z3, <1>4, <1>5, NoneIsNoRow
<1>7. \A u \in Tokens : u # t =>
        /\ minted'[u] = minted[u]
        /\ \/ sessions'[u] = sessions[u]
           \/ sessions'[u] = None /\ ~(q.at < sessions[u].expiresAt)
  <2>1. \A u \in Tokens : u # t => minted'[u] = minted[u]
    BY DEF VerifyCreateSession, AuthTyped
  <2>2. \A u \in Tokens : u # t =>
          \/ sessions'[u] = sessions[u]
          \/ sessions'[u] = None
               /\ ~(sessions[u] # None /\ q.at < sessions[u].expiresAt)
    BY DEF VerifyCreateSession
  <2> QED
    BY <2>1, <2>2
<1>8. \A s \in Requests : Verifying(s)' => requests'[s].at <= now'
  BY <1>1 DEF VerifyCreateSession, Answer, Verifying, AuthTyped, SessionInv
<1>9. ASSUME NEW w \in Sockets, sockets'[w].state = "open",
             sockets'[w].token # None
      PROVE  /\ minted'[sockets'[w].token] # None
             /\ \/ sessions'[sockets'[w].token] # None
                \/ minted'[sockets'[w].token].expiresAt <= now'
  <2> DEFINE u == sockets[w].token
  <2>1. u \in Tokens /\ u # t /\ minted[u] # None
    BY <1>1, <1>9 DEF LogTyped, SocketType, SessionInv
  <2>2. minted[u].expiresAt \in Nat
    BY <2>1 DEF AuthTyped, MintedType
  <2>3. sessions[u] # None \/ minted[u].expiresAt <= now
    BY <1>1, <1>9 DEF SessionInv, StreamsFollowSessions
  <2>4. sessions[u] # None => sessions[u].expiresAt = minted[u].expiresAt
    BY <2>1 DEF SessionInv
  <2> QED
    BY SMT, Z3, <1>1, <1>2, <1>7, <2>1, <2>2, <2>3, <2>4
<1>10. \A u \in Tokens : sessions'[u] # None =>
         minted'[u] # None /\ minted'[u].expiresAt = sessions'[u].expiresAt
  BY <1>6, <1>7 DEF SessionInv
<1> QED
  BY <1>8, <1>9, <1>10 DEF SessionInv, StreamsFollowSessions

\* A stream is bound to the token of a session that authenticates.
LEMMA ReadySessionInv ==
  ASSUME AuthTyped, LogTyped, SessionInv, NEW w \in Sockets,
         NEW t \in Tokens \cup {None}, NEW s \in SUBSET Channels,
         OnSocketReady(w, t, s)
  PROVE  SessionInv'
<1> DEFINE x == [sockets[w] EXCEPT !.token = t, !.ready = TRUE, !.channels = s]
<1>1. x.token = t /\ x.state = "open"
  BY DEF LogTyped, SocketType, OnSocketReady
<1> HIDE DEF x
<1>2. /\ sockets' = [sockets EXCEPT ![w] = x]
      /\ UNCHANGED <<sessions, minted, requests, now>>
      /\ t # None => sessions[t] # None
  BY DEF OnSocketReady, SetSocket, Authenticates, authVars, chainVars, x
<1>3. sockets'[w] = x /\ \A v \in Sockets : v # w => sockets'[v] = sockets[v]
  BY <1>2 DEF LogTyped
<1>4. t # None => minted[t] # None
  BY <1>2 DEF SessionInv
<1>5. StreamsFollowSessions'
  BY SMT, Z3, <1>1, <1>2, <1>3 DEF SessionInv, StreamsFollowSessions
<1>6. \A v \in Sockets : sockets'[v].state = "open" /\ sockets'[v].token # None =>
        minted'[sockets'[v].token] # None
  BY <1>1, <1>2, <1>3, <1>4 DEF SessionInv
<1> QED
  BY <1>2, <1>5, <1>6 DEF SessionInv, Verifying

\* The other handlers of a stream, the broadcast and the restart bind nothing.
LEMMA BindingSteps ==
  ASSUME LogTyped,
         \/ \E w \in Sockets : OnSocketOpen(w) \/ OnSocketRefused(w)
                               \/ OnSocketClose(w)
         \/ Broadcast
         \/ GatewayRestart
  PROVE  BindingsKept /\ UNCHANGED <<sessions, minted, now>>
<1>1. ASSUME NEW w \in Sockets, OnSocketOpen(w)
      PROVE  BindingsKept /\ UNCHANGED <<sessions, minted, now>>
  <2>1. [NewSocket EXCEPT !.state = "open"].token = None
    BY DEF NewSocket
  <2> QED
    BY <1>1, <2>1 DEF OnSocketOpen, SetSocket, BindingsKept, LogTyped, authVars,
         chainVars
<1>2. ASSUME NEW w \in Sockets, OnSocketRefused(w) \/ OnSocketClose(w)
      PROVE  BindingsKept /\ UNCHANGED <<sessions, minted, now>>
  <2>1. \A x \in {"closing", "closed"} : [sockets[w] EXCEPT !.state = x].state = x
    BY DEF LogTyped, SocketType
  <2> QED
    BY <1>2, <2>1 DEF OnSocketRefused, OnSocketClose, SetSocket, BindingsKept,
         LogTyped, authVars, chainVars
<1>3. CASE Broadcast
  <2>1. \A w \in Sockets :
          [sockets[w] EXCEPT !.sent = Append(@, Head(outbox))].state
            = sockets[w].state
          /\ [sockets[w] EXCEPT !.sent = Append(@, Head(outbox))].token
            = sockets[w].token
    BY DEF LogTyped, SocketType
  <2>2. \A w \in Sockets :
          \/ sockets'[w] = sockets[w]
          \/ sockets'[w] = [sockets[w] EXCEPT !.sent = Append(@, Head(outbox))]
    BY <1>3 DEF Broadcast
  <2>3. UNCHANGED <<sessions, minted, now>>
    BY <1>3 DEF Broadcast, authVars, chainVars
  <2> QED
    BY <2>1, <2>2, <2>3 DEF BindingsKept
<1>4. CASE GatewayRestart
  <2>1. \A w \in Sockets : sockets'[w].state # "open"
    BY <1>4 DEF GatewayRestart, LogTyped, SocketType
  <2> QED
    BY <1>4, <2>1 DEF GatewayRestart, Restart, BindingsKept
<1> QED
  BY <1>1, <1>2, <1>3, <1>4

\* Steps that touch neither streams nor sessions.
LEMMA SessionsUntouched ==
  ASSUME \/ \E i \in Identities : CreateIdentity(i)
         \/ \E i \in Identities, k \in SshKeys : RegisterSsh(i, k)
         \/ \E i \in Identities, p \in Passkeys : RegisterPasskey(i, p, 0)
         \/ \E ch \in ChallengeIds, m \in Methods, c \in Certificates :
              IssueChallenge(ch, m, c)
         \/ \E r \in Requests, i \in Identities, c \in Credentials,
               n \in 1..MaxSequence : Revoke(r, i, c, n)
         \/ \E r \in Requests : SweepList(r) \/ RevokeAnswer(r)
         \/ \E c \in Channels : ReadMessages(c)
         \/ \E r \in Requests, t \in Tokens : PostAuthenticate(r, t)
         \/ \E r \in Requests, e \in Events : PostBody(r, e)
         \/ GatewayTick
         \/ UNCHANGED vars
  PROVE  UNCHANGED <<sessions, minted, sockets>>
<1>1. CASE \/ \E i \in Identities : CreateIdentity(i)
           \/ \E i \in Identities, k \in SshKeys : RegisterSsh(i, k)
           \/ \E i \in Identities, p \in Passkeys : RegisterPasskey(i, p, 0)
           \/ GatewayTick
           \/ UNCHANGED vars
  BY <1>1 DEF CreateIdentity, RegisterSsh, RegisterPasskey, GatewayTick, vars,
       gatewayVars, authVars
<1>2. CASE \/ \E ch \in ChallengeIds, m \in Methods, c \in Certificates :
                IssueChallenge(ch, m, c)
           \/ \E r \in Requests, i \in Identities, c \in Credentials,
                 n \in 1..MaxSequence : Revoke(r, i, c, n)
           \/ \E r \in Requests : SweepList(r) \/ RevokeAnswer(r)
  BY <1>2 DEF IssueChallenge, Revoke, SweepList, RevokeAnswer, authVars
<1>3. CASE \/ \E c \in Channels : ReadMessages(c)
           \/ \E r \in Requests, t \in Tokens : PostAuthenticate(r, t)
           \/ \E r \in Requests, e \in Events : PostBody(r, e)
  BY <1>3 DEF ReadMessages, PostAuthenticate, PostBody, authVars
<1> QED
  BY <1>1, <1>2, <1>3

\* The sign-ins that go on where no session is created.
LEMMA SignInsGoOn ==
  ASSUME AuthTyped, [GatewayNext]_vars,
         ~ \E r \in Requests, ch \in ChallengeIds : VerifyTake(r, ch)
  PROVE  SignInsKept
<1>1. CASE UNCHANGED requests
  BY <1>1 DEF SignInsKept, Verifying
<1>2. CASE GatewayRestart
  BY <1>2 DEF GatewayRestart, SignInsKept, Verifying
<1>3. CASE \E ch \in ChallengeIds, m \in Methods, c \in Certificates :
             IssueChallenge(ch, m, c)
  BY <1>3 DEF IssueChallenge, SignInsKept, Verifying
<1>4. CASE \E r \in Requests, t \in Tokens : VerifyCreateSession(r, t)
  BY <1>4 DEF VerifyCreateSession, Answer, SignInsKept, Verifying, AuthTyped
<1> QED
  BY <1>1, <1>2, <1>3, <1>4, OtherRequestsKeep, AuthorizingKeeps, QuietSteps DEF
       GatewayNext

\* One step keeps streams with their sessions.
LEMMA NextSessionInv ==
  ASSUME ChainInv, AuthTyped, LogTyped, SessionInv, [GatewayNext]_vars
  PROVE  SessionInv'
<1>1. now \in Nat /\ now' \in Nat /\ now <= now'
  BY TimePasses
<1>2. CASE \E r \in Requests, ch \in ChallengeIds : VerifyTake(r, ch)
  BY <1>1, <1>2, TakeSessionInv
<1>3. CASE \E r \in Requests, t \in Tokens : VerifyCreateSession(r, t)
  BY <1>1, <1>3, CreateSessionInv
<1>4. CASE ~ \E r \in Requests, ch \in ChallengeIds : VerifyTake(r, ch)
  <2>1. SignInsKept
    BY <1>4, SignInsGoOn
  <2>2. CASE UNCHANGED <<sessions, minted, sockets>>
    BY <1>1, <2>1, <2>2, SessionsKept DEF BindingsKept
  <2>3. CASE UNCHANGED <<authVars, sockets, logVars>>
    BY <1>1, <2>1, <2>3, SessionsKept DEF BindingsKept, authVars
  <2>4. CASE BindingsKept /\ UNCHANGED <<sessions, minted>>
    BY <1>1, <2>1, <2>4, SessionsKept
  <2>5. ASSUME NEW r \in Requests, NEW t \in Tokens, NEW d \in Devices,
               SweepOne(r, t, d)
        PROVE  SessionInv'
    <3>1. EndSession(t) \/ UNCHANGED <<sessions, minted, sockets>>
      BY <2>5 DEF SweepOne
    <3> QED
      BY <3>1, <2>2, <2>5, EndingSteps
  <2> QED
    BY <2>2, <2>3, <2>4, <2>5, <1>3, <1>4, SessionsUntouched, BindingSteps,
         ReadySessionInv, EndingSteps, AuthorizingKeeps DEF GatewayNext
<1> QED
  BY <1>2, <1>4

\* Streams and sessions stay together.
LEMMA SessionInvariant == GatewaySpec => []SessionInv
<1>1. ChainInv /\ AuthTyped /\ LogInv /\ SessionInv /\ [GatewayNext]_vars
        => SessionInv'
  BY NextSessionInv DEF LogInv
<1> QED
  BY <1>1, InitSessionInv, GatewayChainInvariant, LogInvariant, PTL
     DEF GatewaySpec


-----------------------------------------------------------------------------
(* Revocation.  While a revocation sweeps, the certificate it killed can    *)
(* expire and be replaced, sessions can end, and other revocations can come *)
(* in.  The invariant says what is left of the kill meanwhile: a session    *)
(* still there belongs to a device that is revoked, or whose authorisation  *)
(* is, or whose certificate has run out; and what the sweep has passed over *)
(* it passed over for the last reason.                                      *)

Killed(i, d) ==
  \/ IsRevoked(i, Device(d))
  \/ HasExpired(i, d)
  \/ /\ deviceAuthorizations[i][d] \notin {None, Root}
     /\ IsRevoked(i, deviceAuthorizations[i][d])

Sweeping(r) == requests[r] # None /\ requests[r].op = "revoke"

\* What is known of session t that revocation r killed.
DoomHolds(r, t) ==
  LET i == requests[r].identity
      d == sessions[t].device
  IN  /\ minted[t] # None
      /\ sessions[t] # None =>
           /\ sessions[t].identity = i
           /\ requests[r].credential = Device(d) => IsRevoked(i, Device(d))
           /\ Killed(i, d)
           /\ requests[r].phase = "sweeping" /\ <<t, d>> \notin requests[r].left
              => \/ sessions[t].expiresAt <= now
                 \/ requests[r].credential # Device(d) /\ HasExpired(i, d)

DoomedInv ==
  \A r \in Requests : Sweeping(r) =>
    \A t \in requests[r].doomed : DoomHolds(r, t)

\* A token is never given to a second session.
TokensKept ==
  \A t \in Tokens : minted[t] # None =>
    /\ minted'[t] = minted[t]
    /\ sessions'[t] # None => sessions'[t] = sessions[t]

\* Revocations under way neither move nor begin nor end.
SweepsKept ==
  \A r \in Requests : Sweeping(r) \/ Sweeping(r)' => requests'[r] = requests[r]

\* What killed a certificate stays: revocations are permanent, an unexpired
\* certificate keeps its authorisation, and an expired one stays expired.
LEMMA KilledPersists ==
  ASSUME ChainInv, BindingKept, RevocationsKept,
         now \in Nat, now' \in Nat, now <= now',
         NEW i \in Identities, NEW d \in Devices
  PROVE  /\ HasExpired(i, d) => HasExpired(i, d)'
         /\ IsRevoked(i, Device(d)) => IsRevoked(i, Device(d))'
         /\ Killed(i, d) => Killed(i, d)'
<1>1. HasExpired(i, d) => HasExpired(i, d)'
  <2> SUFFICES ASSUME NEW c \in Certificates, c.account = i, c.device = d,
                      c.expiresAt <= now
               PROVE  c.expiresAt <= now'
    BY DEF HasExpired
  <2>1. c.expiresAt \in Nat
    BY CertificateFields
  <2> QED
    BY SMT, Z3, <2>1
<1>2. \A x : IsRevoked(i, x) => IsRevoked(i, x)'
  BY DEF IsRevoked, RevocationsKept
<1>3. ASSUME deviceAuthorizations[i][d] \notin {None, Root},
             IsRevoked(i, deviceAuthorizations[i][d])
      PROVE  Killed(i, d)'
  <2> DEFINE c == deviceCertificates[i][d]
  <2>1. c # None /\ c.account = i /\ c.device = d
    BY <1>3 DEF ChainInv, AuthorityChain
  <2>2. c \in Certificates
    BY SMT, Z3, <2>1 DEF ChainInv, TypeOK, Image, ImageType
  <2>3. CASE now < c.expiresAt
    <3>1. deviceAuthorizations'[i][d] = deviceAuthorizations[i][d]
      BY <2>1, <2>3 DEF BindingKept
    <3>2. <<i, deviceAuthorizations[i][d]>> \in revocations'
      BY <1>3 DEF IsRevoked, RevocationsKept
    <3> QED
      BY <1>3, <3>1, <3>2 DEF Killed, IsRevoked, Root
  <2>4. CASE c.expiresAt <= now
    <3>1. HasExpired(i, d)
      BY <2>1, <2>2, <2>4 DEF HasExpired
    <3> QED
      BY <1>1, <3>1 DEF Killed
  <2> QED
    BY SMT, Z3, <2>2, <2>3, <2>4, CertificateFields
<1>4. IsRevoked(i, Device(d)) => IsRevoked(i, Device(d))'
  BY DEF IsRevoked, RevocationsKept, Device
<1> QED
  BY <1>1, <1>3, <1>4 DEF Killed

\* A session a revocation killed is followed through a step that leaves the
\* sweep where it is.
LEMMA DoomPersists ==
  ASSUME ChainInv, AuthTyped, BindingKept, RevocationsKept, TokensKept,
         now \in Nat, now' \in Nat, now <= now',
         NEW r \in Requests, Sweeping(r), NEW t \in requests[r].doomed,
         DoomHolds(r, t), Sweeping(r)',
         requests'[r].identity = requests[r].identity,
         requests'[r].credential = requests[r].credential,
         \/ sessions'[t] = None
         \/ requests'[r].phase = "recorded"
         \/ <<t, sessions'[t].device>> \in requests'[r].left
         \/ requests'[r].phase = requests[r].phase
            /\ <<t, sessions'[t].device>> \notin requests[r].left
         \/ requests[r].credential # Device(sessions'[t].device)
            /\ HasExpired(requests[r].identity, sessions'[t].device)
  PROVE  DoomHolds(r, t)'
<1>1. t \in Tokens /\ requests[r].identity \in Identities
  BY RevokeFields DEF Sweeping
<1>2. minted[t] # None /\ minted'[t] = minted[t]
  BY <1>1 DEF DoomHolds, TokensKept
<1>3. CASE sessions'[t] = None
  BY <1>2, <1>3 DEF DoomHolds
<1>4. CASE sessions'[t] # None
  <2>1. sessions'[t] = sessions[t] /\ sessions[t] # None
    BY <1>1, <1>2, <1>4 DEF TokensKept
  <2>2. PICK i \in Identities : i = requests[r].identity
    BY <1>1
  <2>3. PICK d \in Devices : d = sessions[t].device
    BY <1>1, <2>1 DEF AuthTyped, SessionType
  <2>4. sessions[t].expiresAt \in Nat
    BY <1>1, <2>1 DEF AuthTyped, SessionType
  <2>5. /\ HasExpired(i, d) => HasExpired(i, d)'
        /\ IsRevoked(i, Device(d)) => IsRevoked(i, Device(d))'
        /\ Killed(i, d) => Killed(i, d)'
    BY KilledPersists
  <2>6. /\ sessions[t].identity = i
        /\ requests[r].credential = Device(d) => IsRevoked(i, Device(d))
        /\ Killed(i, d)
        /\ requests[r].phase = "sweeping" /\ <<t, d>> \notin requests[r].left
           => \/ sessions[t].expiresAt <= now
              \/ requests[r].credential # Device(d) /\ HasExpired(i, d)
    BY <2>1, <2>2, <2>3 DEF DoomHolds
  <2>7. requests'[r].phase = "sweeping" /\ <<t, d>> \notin requests'[r].left
          => \/ sessions[t].expiresAt <= now'
             \/ requests[r].credential # Device(d) /\ HasExpired(i, d)'
    <3>1. sessions[t].expiresAt <= now => sessions[t].expiresAt <= now'
      BY SMT, Z3, <2>4
    <3> QED
      BY <1>4, <2>1, <2>2, <2>3, <2>5, <2>6, <3>1
  <2>8. /\ requests'[r].identity = i /\ sessions'[t].device = d
        /\ sessions'[t].identity = i
        /\ requests'[r].credential = Device(d) => IsRevoked(i, Device(d))'
    BY <2>1, <2>2, <2>3, <2>5, <2>6
  <2>9. Killed(i, d)'
    BY <2>5, <2>6
  <2> QED
    BY <1>2, <2>1, <2>7, <2>8, <2>9 DEF DoomHolds, Killed, IsRevoked,
         HasExpired, Device
<1> QED
  BY <1>3, <1>4


\* Every step keeps what a token stands for.
LEMMA NextTokensKept ==
  ASSUME AuthTyped, LogTyped, [GatewayNext]_vars
  PROVE  TokensKept
<1>1. CASE UNCHANGED <<sessions, minted>>
  BY <1>1 DEF TokensKept
<1>2. ASSUME NEW t \in Tokens, sessions' = [sessions EXCEPT ![t] = None],
             UNCHANGED minted
      PROVE  TokensKept
  BY <1>2 DEF TokensKept, AuthTyped
<1>3. ASSUME NEW r \in Requests, NEW t \in Tokens, VerifyCreateSession(r, t)
      PROVE  TokensKept
  <2> SUFFICES ASSUME NEW u \in Tokens, minted[u] # None
               PROVE  /\ minted'[u] = minted[u]
                      /\ sessions'[u] # None => sessions'[u] = sessions[u]
    BY DEF TokensKept
  <2>1. u # t
    BY <1>3 DEF VerifyCreateSession
  <2>2. minted'[u] = minted[u]
    BY <1>3, <2>1 DEF VerifyCreateSession, AuthTyped
  <2>3. sessions'[u] = sessions[u] \/ sessions'[u] = None
    BY <1>3, <2>1 DEF VerifyCreateSession
  <2> QED
    BY <2>2, <2>3
<1>4. ASSUME NEW t \in Tokens,
             \/ Logout(t) \/ RefuseSession(t)
             \/ \E w \in Sockets : OnSocketRefusedSession(w, t)
             \/ \E r \in Requests, d \in Devices : SweepOne(r, t, d)
      PROVE  TokensKept
  <2>1. UNCHANGED minted
    BY <1>4 DEF Logout, RefuseSession, OnSocketRefusedSession, SweepOne
  <2>2. sessions' = [sessions EXCEPT ![t] = None] \/ UNCHANGED sessions
    BY <1>4 DEF Logout, RefuseSession, OnSocketRefusedSession, SweepOne,
         EndSession
  <2> QED
    BY <1>1, <1>2, <2>1, <2>2
<1>5. ASSUME NEW r \in Requests, NEW ch \in ChallengeIds, VerifyTake(r, ch)
      PROVE  TokensKept
  BY <1>5 DEF VerifyTake, TokensKept
<1>6. ASSUME NEW w \in Sockets, NEW t \in Tokens \cup {None},
             NEW s \in SUBSET Channels, OnSocketReady(w, t, s)
      PROVE  TokensKept
  BY <1>6 DEF OnSocketReady, SetSocket, authVars, TokensKept
<1>7. CASE UNCHANGED <<authVars, sockets, logVars>>
  BY <1>7 DEF authVars, TokensKept
<1> QED
  BY <1>1, <1>3, <1>4, <1>5, <1>6, <1>7, SessionsUntouched, BindingSteps,
       AuthorizingKeeps DEF GatewayNext

\* A sign-in or a post that moves on, or is answered, is no revocation.
LEMMA OthersMove ==
  ASSUME AuthTyped, NEW r \in Requests, ~Sweeping(r), ~Sweeping(r)',
         \A s \in Requests : s # r => requests'[s] = requests[s]
  PROVE  SweepsKept
BY DEF SweepsKept, Sweeping

\* Steps outside of the revocation route and the restart leave the
\* revocations under way where they are.
LEMMA SweepsGoOn ==
  ASSUME AuthTyped, [GatewayNext]_vars,
         ~ \E r \in Requests, i \in Identities, c \in Credentials,
              n \in 1..MaxSequence : Revoke(r, i, c, n),
         ~ \E r \in Requests : SweepList(r) \/ RevokeAnswer(r),
         ~ \E r \in Requests, t \in Tokens, d \in Devices : SweepOne(r, t, d),
         ~ GatewayRestart
  PROVE  SweepsKept
<1>1. CASE UNCHANGED requests
  BY <1>1 DEF SweepsKept
<1>2. CASE \E ch \in ChallengeIds, m \in Methods, c \in Certificates :
             IssueChallenge(ch, m, c)
  BY <1>1, <1>2 DEF IssueChallenge
<1>3. ASSUME NEW r \in Requests, Verifying(r), NEW phase,
             ToPhase(r, phase) \/ Answer(r)
      PROVE  SweepsKept
  <2>1. \A s \in Requests : s # r => requests'[s] = requests[s]
    BY <1>3 DEF ToPhase, Answer, AuthTyped
  <2>2. requests'[r] = None \/ requests'[r].op = "verify"
    BY <1>3, VerifyFields DEF ToPhase, Answer, AuthTyped, Verifying
  <2> QED
    BY <1>3, <2>1, <2>2, OthersMove DEF Sweeping, Verifying
<1>4. CASE \/ \E r \in Requests : VerifyWithWallet(r)
           \/ \E r \in Requests, k \in SshKeys : VerifyWithSsh(r, k)
           \/ \E r \in Requests, p \in Passkeys, n \in 0..MaxCounter :
                VerifyWithPasskey(r, p, n)
           \/ \E r \in Requests : VerifyAuthorized(r)
           \/ \E r \in Requests, t \in Tokens : VerifyCreateSession(r, t)
  <2>1. PICK r \in Requests :
          /\ Verifying(r)
          /\ \/ ToPhase(r, "authorizing") \/ ToPhase(r, "authorized")
             \/ Answer(r)
    BY <1>4 DEF VerifyWithWallet, VerifyWithSsh, VerifyWithPasskey,
         VerifyAuthorized, VerifyCreateSession, IsVerify, Verifying
  <2> QED
    BY <1>3, <2>1
<1>5. ASSUME NEW r \in Requests, NEW ch \in ChallengeIds, VerifyTake(r, ch)
      PROVE  SweepsKept
  <2>1. CASE UNCHANGED requests
    BY <1>1, <2>1
  <2>2. CASE ~ UNCHANGED requests
    <3>1. \A s \in Requests : s # r => requests'[s] = requests[s]
      BY <1>5, <2>2 DEF VerifyTake, AuthTyped
    <3>2. requests[r] = None /\ requests'[r].op = "verify"
      <4>1. PICK x : x.op = "verify" /\ requests' = [requests EXCEPT ![r] = x]
        BY <1>5, <2>2 DEF VerifyTake
      <4> QED
        BY <1>5, <4>1 DEF VerifyTake, AuthTyped
    <3> QED
      BY <3>1, <3>2, OthersMove DEF Sweeping
  <2> QED
    BY <2>1, <2>2
<1>6. ASSUME NEW r \in Requests, NEW t \in Tokens, PostAuthenticate(r, t)
      PROVE  SweepsKept
  <2>1. \A s \in Requests : s # r => requests'[s] = requests[s]
    BY <1>6 DEF PostAuthenticate, AuthTyped
  <2>2. requests[r] = None /\ requests'[r].op = "post"
    BY <1>6 DEF PostAuthenticate, AuthTyped
  <2> QED
    BY <2>1, <2>2, OthersMove DEF Sweeping
<1>7. ASSUME NEW r \in Requests, NEW e \in Events, PostBody(r, e)
      PROVE  SweepsKept
  <2>1. /\ \A s \in Requests : s # r => requests'[s] = requests[s]
        /\ requests[r].op = "post" /\ requests'[r] = None
    BY <1>7 DEF PostBody, Answer, AuthTyped
  <2> QED
    BY <2>1, OthersMove DEF Sweeping
<1> QED
  BY <1>1, <1>2, <1>4, <1>5, <1>6, <1>7, QuietSteps DEF GatewayNext


\* The chain's part of a gateway step.
LEMMA ChainKeeps ==
  ASSUME ChainInv, AuthTyped, [GatewayNext]_vars
  PROVE  /\ BindingKept /\ RevocationsKept /\ KilledKept
         /\ now \in Nat /\ now' \in Nat /\ now <= now'
<1>1. [Next]_chainVars
  BY GatewayChainStep DEF vars
<1> QED
  BY <1>1, NextBinding, NextRevocations, KilledFromKept, TimePasses

\* A credential is neither missing nor the root.
LEMMA CredentialIsNamed ==
  ASSUME NEW x \in Credentials PROVE x # None /\ x # Root
<1>1. x # None
  BY AuthorizationAssumption
<1> QED
  BY SMT, Z3, <1>1 DEF Credentials, Root

\* A revocation enters with the sessions it kills.
LEMMA RevokeDooms ==
  ASSUME ChainInv, AuthTyped, SessionInv, NEW r \in Requests,
         NEW i \in Identities, NEW x \in Credentials, NEW n \in 1..MaxSequence,
         Revoke(r, i, x, n), NEW t \in requests'[r].doomed
  PROVE  DoomHolds(r, t)'
<1>1. /\ requests'[r].identity = i /\ requests'[r].credential = x
      /\ requests'[r].phase = "recorded"
      /\ requests'[r].doomed = {u \in SessionsForIdentity(i) :
           \/ x = Device(sessions[u].device)
           \/ x = deviceAuthorizations[i][sessions[u].device]}
  BY DEF Revoke, AuthTyped
<1>2. /\ t \in Tokens /\ sessions[t] # None /\ sessions[t].identity = i
      /\ \/ x = Device(sessions[t].device)
         \/ x = deviceAuthorizations[i][sessions[t].device]
  BY <1>1 DEF SessionsForIdentity
<1>3. PICK d \in Devices : d = sessions[t].device
  BY <1>2 DEF AuthTyped, SessionType
<1>4. /\ <<i, x>> \in revocations'
      /\ UNCHANGED <<deviceAuthorizations, sessions, minted>>
  BY DEF Revoke, RevokeCredential, authVars
<1>5. minted'[t] # None
  BY <1>2, <1>4 DEF SessionInv
<1>6. x # None /\ x # Root
  BY CredentialIsNamed
<1>7. x = Device(d) => <<i, Device(d)>> \in revocations'
  BY <1>4
<1>8. Killed(i, d)'
  <2>1. CASE x = Device(d)
    BY <1>7, <2>1 DEF Killed, IsRevoked, Device
  <2>2. CASE x = deviceAuthorizations[i][d]
    BY <1>4, <1>6, <2>2 DEF Killed, IsRevoked, Root
  <2> QED
    BY <1>2, <1>3, <2>1, <2>2
<1> QED
  BY <1>1, <1>2, <1>3, <1>4, <1>5, <1>7, <1>8 DEF DoomHolds, Killed, IsRevoked,
       HasExpired, Device

\* A session the sweep passes over belongs to a device whose certificate
\* resolves: the device is not revoked, and an earlier certificate ran out.
LEMMA SparedExpired ==
  ASSUME NEW i \in Identities, NEW d \in Devices, Killed(i, d),
         ResolveDeviceCertificate(i, d) # None
  PROVE  ~IsRevoked(i, Device(d)) /\ HasExpired(i, d)
BY DEF Killed, ResolveDeviceCertificate, IsCertificateRevoked

\* One step keeps what the sweeps under way rely on.
LEMMA NextDoomedInv ==
  ASSUME ChainInv, AuthTyped, LogTyped, SessionInv, DoomedInv,
         [GatewayNext]_vars
  PROVE  DoomedInv'
<1>1. /\ BindingKept /\ RevocationsKept /\ TokensKept
      /\ now \in Nat /\ now' \in Nat /\ now <= now'
  BY ChainKeeps, NextTokensKept
<1>2. ASSUME NEW s \in Requests, Sweeping(s)', requests'[s] = requests[s]
      PROVE  \A t \in requests'[s].doomed : DoomHolds(s, t)'
  <2> SUFFICES ASSUME NEW t \in requests[s].doomed
               PROVE  DoomHolds(s, t)'
    BY <1>2
  <2>1. Sweeping(s) /\ DoomHolds(s, t)
    BY <1>2 DEF Sweeping, DoomedInv
  <2>2. requests[s].phase \in {"recorded", "sweeping"}
    BY <2>1, RevokeFields DEF Sweeping
  <2> QED
    BY <1>1, <1>2, <2>1, <2>2, DoomPersists
<1>3. CASE SweepsKept
  BY <1>2, <1>3 DEF DoomedInv, SweepsKept
<1>4. CASE GatewayRestart
  BY <1>4 DEF GatewayRestart, DoomedInv, Sweeping
<1>5. ASSUME NEW r \in Requests, NEW i \in Identities, NEW x \in Credentials,
             NEW n \in 1..MaxSequence, Revoke(r, i, x, n)
      PROVE  DoomedInv'
  <2>1. \A s \in Requests : s # r => requests'[s] = requests[s]
    BY <1>5 DEF Revoke, AuthTyped
  <2> QED
    BY <1>2, <1>5, <2>1, RevokeDooms DEF DoomedInv
<1>6. ASSUME NEW r \in Requests, SweepList(r)
      PROVE  DoomedInv'
  <2>1. \A s \in Requests : s # r => requests'[s] = requests[s]
    BY <1>6 DEF SweepList, AuthTyped
  <2>2. Sweeping(r) /\ UNCHANGED <<sessions, minted>>
    BY <1>6 DEF SweepList, Sweeping, authVars
  <2> DEFINE listed == {<<t, sessions[t].device>> :
                          t \in SessionsForIdentity(requests[r].identity)}
  <2>3. requests' = [requests EXCEPT
          ![r] = [[requests[r] EXCEPT !.phase = "sweeping"] EXCEPT !.left = listed]]
    BY <1>6 DEF SweepList
  <2>4. /\ requests'[r] # None => Sweeping(r)'
        /\ requests'[r].identity = requests[r].identity
        /\ requests'[r].credential = requests[r].credential
        /\ requests'[r].doomed = requests[r].doomed
        /\ requests'[r].left = listed
    <3> HIDE DEF listed
    <3> QED
      BY <2>2, <2>3, RevokeFields DEF Sweeping, AuthTyped
  <2>5. ASSUME Sweeping(r)', NEW t \in requests'[r].doomed
        PROVE  DoomHolds(r, t)'
    <3>1. t \in requests[r].doomed /\ DoomHolds(r, t) /\ t \in Tokens
      BY <2>2, <2>4, <2>5, RevokeFields DEF DoomedInv, Sweeping
    <3>2. sessions'[t] = None \/ <<t, sessions'[t].device>> \in requests'[r].left
      BY <2>2, <2>4, <3>1 DEF DoomHolds, SessionsForIdentity
    <3> QED
      BY <1>1, <2>2, <2>4, <2>5, <3>1, <3>2, DoomPersists
  <2> QED
    BY <1>2, <2>1, <2>5 DEF DoomedInv
<1>7. ASSUME NEW r \in Requests, NEW u \in Tokens, NEW e \in Devices,
             SweepOne(r, u, e)
      PROVE  DoomedInv'
  <2>1. \A s \in Requests : s # r => requests'[s] = requests[s]
    BY <1>7 DEF SweepOne, AuthTyped
  <2>2. Sweeping(r) /\ requests[r].identity \in Identities
    BY <1>7, RevokeFields DEF SweepOne, Sweeping
  <2> DEFINE rest == requests[r].left \ {<<u, e>>}
  <2>3. requests' = [requests EXCEPT ![r] = [requests[r] EXCEPT !.left = rest]]
    BY <1>7 DEF SweepOne
  <2>4. /\ requests'[r].identity = requests[r].identity
        /\ requests'[r].credential = requests[r].credential
        /\ requests'[r].doomed = requests[r].doomed
        /\ requests'[r].phase = requests[r].phase
        /\ requests'[r].left = rest
    <3> HIDE DEF rest
    <3> QED
      BY <2>2, <2>3, RevokeFields DEF Sweeping, AuthTyped
  <2>5. ASSUME Sweeping(r)', NEW t \in requests'[r].doomed
        PROVE  DoomHolds(r, t)'
    <3>1. t \in requests[r].doomed /\ DoomHolds(r, t) /\ t \in Tokens
      BY <2>2, <2>4, <2>5, RevokeFields DEF DoomedInv, Sweeping
    <3>2. CASE sessions'[t] = None
      BY <1>1, <2>2, <2>4, <2>5, <3>1, <3>2, DoomPersists
    <3>3. CASE sessions'[t] # None /\ <<t, sessions'[t].device>> # <<u, e>>
      BY <1>1, <2>2, <2>4, <2>5, <3>1, <3>3, DoomPersists
    <3>4. CASE sessions'[t] # None /\ <<t, sessions'[t].device>> = <<u, e>>
      <4>1. t = u /\ sessions'[t].device = e
        BY <3>4
      <4>2. ResolveDeviceCertificate(requests[r].identity, e) # None
        BY <1>7, <3>1, <3>4, <4>1 DEF SweepOne, EndSession, AuthTyped
      <4>3. sessions[t] # None /\ sessions[t].device = e
        BY <1>1, <3>1, <3>4, <4>1 DEF TokensKept, DoomHolds
      <4>4. Killed(requests[r].identity, e)
            /\ (requests[r].credential = Device(e)
                  => IsRevoked(requests[r].identity, Device(e)))
        BY <3>1, <4>3 DEF DoomHolds
      <4>5. requests[r].credential # Device(e)
            /\ HasExpired(requests[r].identity, e)
        BY <2>2, <4>2, <4>4, SparedExpired
      <4> QED
        BY <1>1, <2>2, <2>4, <2>5, <3>1, <4>1, <4>5, DoomPersists
    <3> QED
      BY <3>2, <3>3, <3>4
  <2> QED
    BY <1>2, <2>1, <2>5 DEF DoomedInv
<1>8. ASSUME NEW r \in Requests, RevokeAnswer(r)
      PROVE  DoomedInv'
  <2>1. /\ \A s \in Requests : s # r => requests'[s] = requests[s]
        /\ ~Sweeping(r)'
    BY <1>8 DEF RevokeAnswer, Answer, AuthTyped, Sweeping
  <2> QED
    BY <1>2, <2>1 DEF DoomedInv
<1> QED
  BY <1>3, <1>4, <1>5, <1>6, <1>7, <1>8, SweepsGoOn


\* A step that answers a revocation leaves none of its sessions alive, but for
\* those of a device that another credential could take over.
LEMMA NextSweepEndsDoomed ==
  ASSUME ChainInv, AuthTyped, LogTyped, DoomedInv, [GatewayNext]_vars
  PROVE  SweepEndsDoomed
<1> SUFFICES ASSUME NEW r \in Requests, Sweeping(r), requests'[r] = None,
                    boot' = boot, NEW t \in requests[r].doomed,
                    sessions'[t] # None, now < sessions'[t].expiresAt
             PROVE  /\ requests[r].credential # Device(sessions'[t].device)
                    /\ HasExpired(requests[r].identity, sessions'[t].device)
  BY DEF SweepEndsDoomed, Sweeping
<1>1. requests'[r] # requests[r]
  BY DEF Sweeping
<1>2. ~SweepsKept
  BY <1>1 DEF SweepsKept
<1>3. ~GatewayRestart
  BY SMT, Z3 DEF GatewayRestart, LogTyped
<1>4. ~ \E s \in Requests, i \in Identities, c \in Credentials,
          n \in 1..MaxSequence : Revoke(s, i, c, n)
  BY <1>1 DEF Revoke, AuthTyped, Sweeping
<1>5. ASSUME NEW s \in Requests, SweepList(s)
      PROVE  FALSE
  <2>1. s = r
    BY <1>1, <1>5 DEF SweepList, AuthTyped
  <2> DEFINE listed == {<<u, sessions[u].device>> :
                          u \in SessionsForIdentity(requests[r].identity)}
  <2>2. requests'[r] =
          [[requests[r] EXCEPT !.phase = "sweeping"] EXCEPT !.left = listed]
    BY <1>5, <2>1 DEF SweepList, AuthTyped
  <2>3. listed \in SUBSET (Tokens \X Devices)
    BY SMT, Z3 DEF SessionsForIdentity, AuthTyped, SessionType
  <2>4. requests'[r] \in RequestType
    <3> HIDE DEF listed
    <3> QED
      BY <2>2, <2>3, RevokeFields DEF Sweeping, RequestType
  <2> QED
    BY <2>4, NoneIsNoRow
<1>6. ASSUME NEW s \in Requests, NEW u \in Tokens, NEW d \in Devices,
             SweepOne(s, u, d)
      PROVE  FALSE
  <2>1. s = r
    BY <1>1, <1>6 DEF SweepOne, AuthTyped
  <2> DEFINE rest == requests[r].left \ {<<u, d>>}
  <2>2. requests'[r] = [requests[r] EXCEPT !.left = rest]
    BY <1>6, <2>1 DEF SweepOne, AuthTyped
  <2>3. rest \in SUBSET (Tokens \X Devices)
    BY RevokeFields DEF Sweeping
  <2>4. requests'[r] \in RequestType
    <3> HIDE DEF rest
    <3> QED
      BY <2>2, <2>3, RevokeFields DEF Sweeping, RequestType
  <2> QED
    BY <2>4, NoneIsNoRow
<1>7. RevokeAnswer(r)
  <2>1. PICK s \in Requests : RevokeAnswer(s)
    BY <1>2, <1>3, <1>4, <1>5, <1>6, SweepsGoOn
  <2>2. s = r
    BY <1>1, <2>1 DEF RevokeAnswer, Answer, AuthTyped
  <2> QED
    BY <2>1, <2>2
<1>8. /\ UNCHANGED sessions
      /\ requests[r].phase = "sweeping" /\ requests[r].left = {}
  BY <1>7 DEF RevokeAnswer, authVars
<1>9. DoomHolds(r, t) /\ t \in Tokens
  BY RevokeFields DEF DoomedInv, Sweeping
<1>10. sessions[t].expiresAt \in Nat /\ now \in Nat
  BY <1>8, <1>9 DEF AuthTyped, SessionType, ChainInv, TypeOK
<1>11. ~(sessions[t].expiresAt <= now)
  BY SMT, Z3, <1>8, <1>10
<1> QED
  BY <1>8, <1>9, <1>11 DEF DoomHolds

\* Nothing is being revoked at the start.
LEMMA InitDoomedInv == GatewayInit => DoomedInv
BY DEF GatewayInit, DoomedInv, Sweeping

\* When a revocation is answered its sessions are gone, have run out, or
\* belong to a device that another credential took over after its certificate
\* had run out; and no open stream outlives the end of its session.  For any
\* number of sign-ins, posts, streams and revocations running at once.
THEOREM RevocationEndsSessions == GatewaySpec => RevocationEnds
<1>1. ChainInv /\ AuthTyped /\ LogInv /\ SessionInv /\ DoomedInv
        /\ [GatewayNext]_vars => DoomedInv' /\ [SweepEndsDoomed]_vars
  BY NextDoomedInv, NextSweepEndsDoomed DEF LogInv
<1>2. SessionInv => StreamsFollowSessions
  BY DEF SessionInv
<1> QED
  BY <1>1, <1>2, InitDoomedInv, GatewayChainInvariant, LogInvariant,
     SessionInvariant, PTL DEF GatewaySpec, RevocationEnds

\* One step never makes a session of a revoked certificate authenticate.
LEMMA NextRevokedStaysOut ==
  ASSUME ChainInv, AuthTyped, LogTyped, SessionInv, [GatewayNext]_vars,
         NEW t \in Tokens, sessions[t] # None,
         IsCertificateRevoked(sessions[t].identity, sessions[t].device),
         now < deviceCertificates[sessions[t].identity]
                                 [sessions[t].device].expiresAt
  PROVE  ~Authenticates(t)'
<1>1. PICK i \in Identities, d \in Devices :
        i = sessions[t].identity /\ d = sessions[t].device
  BY SMT, Z3 DEF AuthTyped, SessionType
<1>2. KilledKept /\ RevocationsKept /\ TokensKept
  BY ChainKeeps, NextTokensKept
<1>3. ResolveDeviceCertificate(i, d)' = None
  <2>1. CASE IsRevoked(i, Device(d))
    BY <1>2, <2>1 DEF RevocationsKept, IsRevoked, Device, IsCertificateRevoked,
         ResolveDeviceCertificate
  <2>2. CASE deviceAuthorizations[i][d] # None
    <3>1. deviceCertificates[i][d] # None
      BY <2>2 DEF ChainInv, AuthorityChain
    <3> QED
      BY <1>1, <1>2, <3>1 DEF KilledKept
  <2> QED
    BY <1>1, <2>1, <2>2 DEF IsCertificateRevoked
<1>4. sessions'[t] # None => sessions'[t] = sessions[t]
  BY <1>2 DEF TokensKept, SessionInv
<1>5. CASE sessions'[t] = None
  BY <1>5 DEF Authenticates
<1>6. CASE sessions'[t] = sessions[t]
  BY <1>1, <1>3, <1>6 DEF Authenticates, ResolveDeviceCertificate,
       IsCertificateRevoked, IsRevoked, Device, Root
<1> QED
  BY <1>4, <1>5, <1>6

\* A session whose certificate is revoked never authenticates again while the
\* certificate lives, whatever became of the sweep that should have ended it.
THEOREM RevokedSessionsStayOut == GatewaySpec => RevokedStaysOut
<1> DEFINE Out ==
      \A t \in Tokens :
        /\ sessions[t] # None
        /\ IsCertificateRevoked(sessions[t].identity, sessions[t].device)
        /\ now < deviceCertificates[sessions[t].identity]
                                   [sessions[t].device].expiresAt
        => ~Authenticates(t)'
<1>1. ChainInv /\ AuthTyped /\ LogInv /\ SessionInv /\ [GatewayNext]_vars => Out
  BY NextRevokedStaysOut DEF LogInv
<1>2. ([][Out]_vars) => RevokedStaysOut
  BY DEF RevokedStaysOut
<1> HIDE DEF Out
<1> QED
  BY <1>1, <1>2, GatewayChainInvariant, LogInvariant, SessionInvariant, PTL
     DEF GatewaySpec
=============================================================================
