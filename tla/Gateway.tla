------------------------------ MODULE Gateway ------------------------------
(***************************************************************************)
(* The gateway (packages/gateway/src/gateway.ts with store.ts and          *)
(* policy.ts) in front of the development chain: challenges, sign-in,      *)
(* bearer sessions, revocation sweeps, streams, and the message log of the *)
(* two channels.                                                           *)
(*                                                                         *)
(* A request suspended at an await is a record in requests.  The awaits    *)
(* that really leave the event loop are the request body (post reads it    *)
(* after it has authenticated) and the verification of a passkey           *)
(* assertion; the chain runs in the gateway's process, so its other        *)
(* answers come back within a few microtasks.  authenticate() with what    *)
(* follows it up to the next real await, and one iteration of              *)
(* sweepSessions, are single steps for that reason; sign-in is left        *)
(* interruptible at every chain call.                                      *)
(*                                                                         *)
(* The per-address limits (challengeLimit, mutationLimit,                  *)
(* identityCreateLimit) only refuse requests; a refused request is a       *)
(* stuttering step.                                                        *)
(***************************************************************************)
EXTENDS DevChain, RatePolicy, Sequences, FiniteSetsExt

CONSTANTS
  ChallengeIds,      \* random challenge ids, each drawn once
  Tokens,            \* random bearer tokens, each drawn once
  Sockets,           \* stream connections, each opened once
  Events,            \* signed channel.post events callers may submit
  Owner,             \* config.ownerIdentity, or None
  Updates, Public,   \* the two channel ids
  ChallengeTtl,      \* CHALLENGE_TTL_MS
  CertSkew,          \* CERT_SKEW_MS
  EventSkew,         \* EVENT_SKEW_MS
  SessionMax,        \* config.sessionMaxMs
  Retention,         \* config.publicRetentionMs
  MaxChallenges,     \* MAX_PENDING_CHALLENGES
  RateLimit,         \* channel |-> posts per identity and window
  MaxBoots           \* bound: how often the process is started

Channels == {Updates, Public}
Methods == {"wallet", "ssh", "passkey"}

\* An event is signed by one device key, for one channel.
EventType ==
  [id: Nat, author: Identities, device: Devices, key: DeviceKeys,
   sequence: Nat, createdAt: Nat, channel: Channels, body: STRING]

ASSUME GatewayAssumption ==
  /\ Events \subseteq EventType
  /\ \A e, f \in Events : e.id = f.id => e = f
  /\ Updates # Public
  /\ Owner \in Identities \cup {None}
  /\ ChallengeTtl \in Nat /\ CertSkew \in Nat /\ EventSkew \in Nat
  /\ SessionMax \in Nat /\ Retention \in Nat /\ MaxChallenges \in Nat
  /\ RateLimit \in [Channels -> Nat]

SessionType == [identity: Identities, device: Devices, expiresAt: Nat]

\* A suspended handler waits in the slot of the chain call it makes.
Requests == Calls

MintedType == [challenge: ChallengeIds, expiresAt: Nat]
ChallengeType == [method: Methods, cert: Certificates, expiresAt: Nat]

RequestType ==
  [op: {"verify"}, phase: {"proved", "authorizing", "authorized"},
   challenge: ChallengeIds, method: Methods, cert: Certificates, at: Nat]
    \cup
  [op: {"revoke"}, phase: {"recorded", "sweeping"}, identity: Identities,
   credential: Credentials, left: SUBSET (Tokens \X Devices),
   doomed: SUBSET Tokens]
    \cup
  [op: {"post"}, session: SessionType, key: DeviceKeys]

ASSUME NoneIsNoRow ==
  None \notin SessionType \cup RequestType \cup MintedType \cup CallType

VARIABLES
  challenges,        \* challenge id |-> pending challenge or None
  drawn,             \* challenge ids drawn so far
  sessions,          \* sessions table: token |-> session or None
  minted,            \* token |-> its challenge and expiry when minted, or None
  sockets,           \* socket |-> its state and SocketData
  requests,          \* request |-> what a suspended handler holds, or None
  log,               \* every message ever inserted, in seq order
  stored,            \* the messages table: positions of log still present
  deviceSequences,   \* device_sequences table
  hits,              \* postLimits: channel, identity |-> hits
  texts,             \* duplicateGuards: channel, identity |-> texts
  outbox,            \* inserted messages whose broadcast is still to come
  boot               \* how often the process has been started

authVars == <<challenges, drawn, sessions, minted>>
storeVars == <<log, stored, deviceSequences>>
logVars == <<storeVars, hits, texts, outbox, boot>>
gatewayVars == <<authVars, sockets, requests, logVars>>
vars == <<chainVars, gatewayVars>>

-----------------------------------------------------------------------------
(* Sessions and streams *)

NewSocket == [state |-> "new", token |-> None, ready |-> FALSE,
              channels |-> {}, sent |-> <<>>]

\* endSession: the row goes, and every stream bound to it is told and closed.
SocketsAfterEnd(t) ==
  [w \in Sockets |->
     IF sockets[w].state \in {"open", "closing"} /\ sockets[w].token = t
     THEN [sockets[w] EXCEPT !.token = None, !.state = "closing"]
     ELSE sockets[w]]

EndSession(t) ==
  /\ sessions' = [sessions EXCEPT ![t] = None]
  /\ sockets' = SocketsAfterEnd(t)

\* Mutant: the token's own lifetime is all that is asked.
AuthenticatesByExpiry(t) == sessions[t] # None /\ now < sessions[t].expiresAt

\* authenticate: the session is stored, has not expired, and its device's
\* certificate resolves.
Authenticates(t) ==
  /\ sessions[t] # None
  /\ now < sessions[t].expiresAt
  /\ ResolveDeviceCertificate(sessions[t].identity, sessions[t].device) # None

\* authenticate throws after ending a stored session (an unknown token
\* changes nothing).  Every authenticated route begins with it.
RefuseSession(t) ==
  /\ sessions[t] # None
  /\ ~Authenticates(t)
  /\ EndSession(t)
  /\ UNCHANGED <<chainVars, challenges, drawn, minted, requests, logVars>>

-----------------------------------------------------------------------------
(* Identity and credential routes: each is one chain call. *)

CreateIdentity(i) == RegisterIdentity(i) /\ UNCHANGED gatewayVars

RegisterSsh(i, k) == RegisterSshKey(i, k) /\ UNCHANGED gatewayVars

RegisterPasskey(i, p, n) ==
  RegisterPasskeyCredential(i, p, n) /\ UNCHANGED gatewayVars

-----------------------------------------------------------------------------
(* Sign-in *)

\* checkCertificateWindow
CertificateWindowOk(c, at) ==
  /\ at < c.expiresAt
  /\ c.issuedAt <= at + CertSkew
  /\ c.expiresAt - c.issuedAt \in 1..SessionMax

OpenChallenges == {ch \in ChallengeIds : challenges[ch] # None}

\* pruneChallenges, run only when the map is full.
PrunedChallenges ==
  IF Cardinality(OpenChallenges) >= MaxChallenges
  THEN [ch \in ChallengeIds |->
          IF challenges[ch] # None /\ challenges[ch].expiresAt <= now
          THEN None ELSE challenges[ch]]
  ELSE challenges

ChallengesFull ==
  Cardinality({ch \in ChallengeIds : PrunedChallenges[ch] # None})
    >= MaxChallenges

\* issueChallenge; a full map is pruned even when the request is then refused.
IssueChallenge(ch, method, c) ==
  /\ ch \notin drawn
  /\ CertificateWindowOk(c, now)
  /\ c.account \in identityRoots
  /\ ~IsRevoked(c.account, Device(c.device))
  /\ \/ /\ ChallengesFull \/ (method = "passkey" /\ ~HasLivePasskey(c.account))
        /\ challenges' = PrunedChallenges
        /\ UNCHANGED drawn
     \/ /\ ~ChallengesFull
        /\ method = "passkey" => HasLivePasskey(c.account)
        /\ challenges' = [PrunedChallenges EXCEPT ![ch] =
             [method |-> method, cert |-> c, expiresAt |-> now + ChallengeTtl]]
        /\ drawn' = drawn \cup {ch}
  /\ UNCHANGED <<chainVars, sessions, minted, sockets, requests, logVars>>

\* Mutant: the challenge stays until the session is created.
TakeWithoutDelete(r, ch) ==
  /\ requests[r] = None
  /\ challenges[ch] # None
  /\ now < challenges[ch].expiresAt
  /\ CertificateWindowOk(challenges[ch].cert, now)
  /\ requests' = [requests EXCEPT ![r] =
       [op |-> "verify", phase |-> "proved", challenge |-> ch,
        method |-> challenges[ch].method, cert |-> challenges[ch].cert,
        at |-> now]]
  /\ UNCHANGED <<chainVars, authVars, sockets, logVars>>

\* verifyChallenge up to the first chain call that changes state.  The
\* challenge is taken out of the map whatever happens next.
VerifyTake(r, ch) ==
  /\ requests[r] = None
  /\ challenges[ch] # None
  /\ challenges' = [challenges EXCEPT ![ch] = None]
  /\ \/ UNCHANGED requests                       \* expired or badly proved
     \/ /\ now < challenges[ch].expiresAt
        /\ CertificateWindowOk(challenges[ch].cert, now)
        /\ ~IsRevoked(challenges[ch].cert.account,
                      Device(challenges[ch].cert.device))
        /\ requests' = [requests EXCEPT ![r] =
             [op |-> "verify", phase |-> "proved", challenge |-> ch,
              method |-> challenges[ch].method, cert |-> challenges[ch].cert,
              at |-> now]]
  /\ UNCHANGED <<chainVars, drawn, sessions, minted, sockets, logVars>>

IsVerify(r, phase) ==
  requests[r] # None /\ requests[r].op = "verify" /\ requests[r].phase = phase

ToPhase(r, phase) == requests' = [requests EXCEPT ![r].phase = phase]
Answer(r) == requests' = [requests EXCEPT ![r] = None]

VerifyWithWallet(r) ==
  /\ IsVerify(r, "proved") /\ requests[r].method = "wallet"
  /\ \/ RegisterDeviceCertificate(requests[r].cert) /\ ToPhase(r, "authorized")
     \/ /\ ~CanRegisterDeviceCertificate(requests[r].cert)
        /\ Answer(r) /\ UNCHANGED chainVars
  /\ UNCHANGED <<authVars, sockets, logVars>>

VerifyWithSsh(r, k) ==
  /\ IsVerify(r, "proved") /\ requests[r].method = "ssh"
  /\ \/ /\ StartSshAuthorization(r, requests[r].cert, k)
        /\ ToPhase(r, "authorizing")
     \/ /\ ~CanStartSshAuthorization(requests[r].cert, k)
        /\ Answer(r) /\ UNCHANGED chainVars
  /\ UNCHANGED <<authVars, sockets, logVars>>

VerifyWithPasskey(r, p, n) ==
  /\ IsVerify(r, "proved") /\ requests[r].method = "passkey"
  /\ \/ /\ StartPasskeyAuthorization(r, requests[r].cert, p, n, TRUE)
        /\ ToPhase(r, "authorizing")
     \/ /\ ~CanStartPasskeyAuthorization(requests[r].cert, p, n, TRUE)
        /\ Answer(r) /\ UNCHANGED chainVars
  /\ UNCHANGED <<authVars, sockets, logVars>>

\* The chain's answer: the certificate was recorded, or the chain refused it.
VerifyAuthorized(r) ==
  /\ IsVerify(r, "authorizing")
  /\ FinishSshAuthorization(r) \/ FinishPasskeyAuthorization(r)
  /\ LET c == requests[r].cert
         authorization == [kind |-> calls[r].op, id |-> calls[r].credential]
     IN  IF /\ NoConflictingDevice(c, authorization)
            /\ calls[r].op = "ssh" => CanFinishSshAuthorization(r)
         THEN ToPhase(r, "authorized") ELSE Answer(r)
  /\ UNCHANGED <<authVars, sockets, logVars>>

\* The tail of verifyChallenge.  deleteExpiredSessions uses the time at which
\* the request arrived, and tells no stream.
VerifyCreateSession(r, t) ==
  /\ IsVerify(r, "authorized")
  /\ minted[t] = None
  /\ LET q == requests[r]
         expiry == Min({q.cert.expiresAt, q.at + SessionMax})
         live == {u \in Tokens : sessions[u] # None
                                   /\ q.at < sessions[u].expiresAt}
     IN  /\ sessions' = [u \in Tokens |->
              CASE u = t -> [identity |-> q.cert.account,
                             device |-> q.cert.device, expiresAt |-> expiry]
                [] u \in live -> sessions[u]
                [] OTHER -> None]
         /\ minted' = [minted EXCEPT ![t] =
              [challenge |-> q.challenge, expiresAt |-> expiry]]
  /\ Answer(r)
  /\ UNCHANGED <<chainVars, challenges, drawn, sockets, logVars>>

-----------------------------------------------------------------------------
(* Logout and revocation *)

\* logout ends whatever session the token names, without authenticating it.
Logout(t) ==
  /\ minted[t] # None
  /\ EndSession(t)
  /\ UNCHANGED <<chainVars, challenges, drawn, minted, requests, logVars>>

SessionsForIdentity(i) ==
  {t \in Tokens : sessions[t] # None /\ sessions[t].identity = i}

\* revoke: the chain records the revocation.  doomed remembers, for the
\* properties, the sessions whose certificate it killed.
Revoke(r, i, credential, n) ==
  /\ requests[r] = None
  /\ RevokeCredential(i, credential, n)
  /\ requests' = [requests EXCEPT ![r] =
       [op |-> "revoke", phase |-> "recorded", identity |-> i,
        credential |-> credential, left |-> {},
        doomed |-> {t \in SessionsForIdentity(i) :
          \/ credential = Device(sessions[t].device)
          \/ credential = deviceAuthorizations[i][sessions[t].device]}]]
  /\ UNCHANGED <<authVars, sockets, logVars>>

\* Mutant: the sweep forgets the sessions listed for it.
SweepStaleList(r) ==
  /\ requests[r] # None /\ requests[r].op = "revoke"
  /\ requests[r].phase = "recorded"
  /\ requests' = [requests EXCEPT ![r].phase = "sweeping"]
  /\ UNCHANGED <<chainVars, authVars, sockets, logVars>>

\* sweepSessions lists the identity's sessions ...
SweepList(r) ==
  /\ requests[r] # None /\ requests[r].op = "revoke"
  /\ requests[r].phase = "recorded"
  /\ requests' = [requests EXCEPT
       ![r].phase = "sweeping",
       ![r].left = {<<t, sessions[t].device>> :
                      t \in SessionsForIdentity(requests[r].identity)}]
  /\ UNCHANGED <<chainVars, authVars, sockets, logVars>>

\* ... and ends, one by one, those whose certificate no longer resolves, by
\* the rows read: one that ended meanwhile is ended again.
SweepOne(r, t, d) ==
  /\ requests[r] # None /\ requests[r].op = "revoke"
  /\ <<t, d>> \in requests[r].left
  /\ requests' = [requests EXCEPT ![r].left = @ \ {<<t, d>>}]
  /\ IF ResolveDeviceCertificate(requests[r].identity, d) = None
     THEN EndSession(t)
     ELSE UNCHANGED <<sessions, sockets>>
  /\ UNCHANGED <<chainVars, challenges, drawn, minted, logVars>>

RevokeAnswer(r) ==
  /\ requests[r] # None /\ requests[r].op = "revoke"
  /\ requests[r].phase = "sweeping" /\ requests[r].left = {}
  /\ Answer(r)
  /\ UNCHANGED <<chainVars, authVars, sockets, logVars>>

-----------------------------------------------------------------------------
(* The message log *)

InChannel(channel) == {p \in stored : log[p].event.channel = channel}

\* expireChannel: the whole of a channel that does not retain goes once its
\* last message is old enough.  device_sequences keeps its rows.
AfterExpiry(channel) ==
  IF /\ channel = Public /\ InChannel(channel) # {}
     /\ now - Max({log[p].receivedAt : p \in InChannel(channel)}) >= Retention
  THEN stored \ InChannel(channel) ELSE stored

\* readMessages
ReadMessages(channel) ==
  /\ stored' = AfterExpiry(channel)
  /\ UNCHANGED <<chainVars, authVars, sockets, requests, log,
                 deviceSequences, hits, texts, outbox, boot>>

\* post up to the await of the request body.
PostAuthenticate(r, t) ==
  /\ requests[r] = None
  /\ Authenticates(t)
  /\ LET s == sessions[t]
     IN  requests' = [requests EXCEPT ![r] =
           [op |-> "post", session |-> s,
            key |-> deviceCertificates[s.identity][s.device].key]]
  /\ UNCHANGED <<chainVars, authVars, sockets, logVars>>

\* Every check of post before the store is asked.
PostIsValid(q, e) ==
  /\ e.author = q.session.identity /\ e.device = q.session.device
  /\ e.key = q.key
  /\ now <= e.createdAt + EventSkew /\ e.createdAt <= now + EventSkew
  /\ e.channel = Updates => e.author = Owner

HasEvent(e) == \E p \in stored : log[p].event.id = e.id

\* Mutant: only the rows still stored are asked for a replay.
FreshByEventOnly(e) == ~HasEvent(e)

\* Replay and order checks; insertMessage repeats them in its transaction.
IsFresh(e) ==
  /\ ~HasEvent(e)
  /\ e.sequence > deviceSequences[e.author][e.device]

\* insertMessage; the broadcast follows once publicMessage has resolved.
InsertMessage(e) ==
  /\ log' = Append(log, [event |-> e, receivedAt |-> now, boot |-> boot])
  /\ stored' = AfterExpiry(e.channel) \cup {Len(log) + 1}
  /\ deviceSequences' =
       [deviceSequences EXCEPT ![e.author][e.device] = e.sequence]
  /\ outbox' = Append(outbox, Len(log) + 1)

\* The rest of post, with the body at hand: hits are spent before the
\* duplicate guard is asked, and the channel lapses before either.
PostBody(r, e) ==
  /\ requests[r] # None /\ requests[r].op = "post"
  /\ Answer(r)
  /\ LET spent == hits[e.channel][e.author]
         said == texts[e.channel][e.author]
         limit == RateLimit[e.channel]
     IN  \/ /\ ~(PostIsValid(requests[r], e) /\ IsFresh(e))
            /\ UNCHANGED <<storeVars, hits, texts, outbox>>
         \/ /\ PostIsValid(requests[r], e) /\ IsFresh(e)
            /\ hits' = [hits EXCEPT ![e.channel][e.author] =
                          SlidingWindowAfter(spent, limit, now)]
            /\ \/ /\ ~SlidingWindowAllows(spent, limit, now)
                  /\ stored' = AfterExpiry(e.channel)
                  /\ UNCHANGED <<log, deviceSequences, texts, outbox>>
               \/ /\ SlidingWindowAllows(spent, limit, now)
                  /\ texts' = [texts EXCEPT ![e.channel][e.author] =
                                 DuplicateGuardAfter(said, e.body, now)]
                  /\ \/ /\ ~DuplicateGuardAllows(said, e.body, now)
                        /\ stored' = AfterExpiry(e.channel)
                        /\ UNCHANGED <<log, deviceSequences, outbox>>
                     \/ /\ DuplicateGuardAllows(said, e.body, now)
                        /\ InsertMessage(e)
  /\ UNCHANGED <<chainVars, authVars, sockets, boot>>

\* Mutant: the newest message is broadcast first.
BroadcastNewest ==
  /\ outbox # <<>>
  /\ outbox' = SubSeq(outbox, 1, Len(outbox) - 1)
  /\ sockets' = [w \in Sockets |->
       IF /\ sockets[w].state = "open" /\ sockets[w].ready
          /\ log[outbox[Len(outbox)]].event.channel \in sockets[w].channels
       THEN [sockets[w] EXCEPT !.sent = Append(@, outbox[Len(outbox)])]
       ELSE sockets[w]]
  /\ UNCHANGED <<chainVars, authVars, requests, storeVars, hits, texts, boot>>

\* publicMessage awaits one chain read, which every post does alike, so
\* broadcasts leave in the order of the inserts.
Broadcast ==
  /\ outbox # <<>>
  /\ outbox' = Tail(outbox)
  /\ sockets' = [w \in Sockets |->
       IF /\ sockets[w].state = "open" /\ sockets[w].ready
          /\ log[Head(outbox)].event.channel \in sockets[w].channels
       THEN [sockets[w] EXCEPT !.sent = Append(@, Head(outbox))]
       ELSE sockets[w]]
  /\ UNCHANGED <<chainVars, authVars, requests, storeVars, hits, texts, boot>>

-----------------------------------------------------------------------------
(* Streams *)

SetSocket(w, fields) ==
  /\ sockets' = [sockets EXCEPT ![w] = fields]
  /\ UNCHANGED <<chainVars, authVars, requests, logVars>>

OnSocketOpen(w) ==
  /\ sockets[w].state = "new"
  /\ SetSocket(w, [NewSocket EXCEPT !.state = "open"])

\* The first frame without a token, or with one that authenticates.
OnSocketReady(w, t, subscribed) ==
  /\ sockets[w].state = "open" /\ ~sockets[w].ready
  /\ t # None => Authenticates(t)
  /\ SetSocket(w, [sockets[w] EXCEPT !.token = t, !.ready = TRUE,
                                     !.channels = subscribed])

\* A frame that does not parse, names an unknown token or no frame in time:
\* error, then close.
OnSocketRefused(w) ==
  /\ sockets[w].state = "open" /\ ~sockets[w].ready
  /\ SetSocket(w, [sockets[w] EXCEPT !.state = "closing"])

\* A frame with the token of a stored session that authenticate refuses.
OnSocketRefusedSession(w, t) ==
  /\ sockets[w].state = "open" /\ ~sockets[w].ready
  /\ sessions[t] # None /\ ~Authenticates(t)
  /\ sessions' = [sessions EXCEPT ![t] = None]
  /\ sockets' = [SocketsAfterEnd(t) EXCEPT ![w].state = "closing"]
  /\ UNCHANGED <<chainVars, challenges, drawn, minted, requests, logVars>>

\* The peer leaves, or a close started by the gateway completes.
OnSocketClose(w) ==
  /\ sockets[w].state \in {"open", "closing"}
  /\ SetSocket(w, [sockets[w] EXCEPT !.state = "closed"])

-----------------------------------------------------------------------------
(* The process *)

\* Both databases are files; challenges, limits, streams and requests are
\* memory.
GatewayRestart ==
  /\ boot < MaxBoots
  /\ boot' = boot + 1
  /\ Restart
  /\ challenges' = [ch \in ChallengeIds |-> None]
  /\ requests' = [r \in Requests |-> None]
  /\ sockets' = [w \in Sockets |-> [sockets[w] EXCEPT !.state =
                                      IF @ = "new" THEN @ ELSE "closed"]]
  /\ hits' = [c \in Channels |-> [i \in Identities |-> {}]]
  /\ texts' = [c \in Channels |-> [i \in Identities |-> {}]]
  /\ outbox' = <<>>
  /\ UNCHANGED <<drawn, sessions, minted, storeVars>>

GatewayTick == Tick /\ UNCHANGED gatewayVars

GatewayInit ==
  /\ Init
  /\ challenges = [ch \in ChallengeIds |-> None]
  /\ drawn = {}
  /\ sessions = [t \in Tokens |-> None]
  /\ minted = [t \in Tokens |-> None]
  /\ sockets = [w \in Sockets |-> NewSocket]
  /\ requests = [r \in Requests |-> None]
  /\ log = <<>>
  /\ stored = {}
  /\ deviceSequences = [i \in Identities |-> [d \in Devices |-> 0]]
  /\ hits = [c \in Channels |-> [i \in Identities |-> {}]]
  /\ texts = [c \in Channels |-> [i \in Identities |-> {}]]
  /\ outbox = <<>>
  /\ boot = 0

GatewayNext ==
  \/ \E i \in Identities : CreateIdentity(i)
  \/ \E i \in Identities, k \in SshKeys : RegisterSsh(i, k)
  \/ \E i \in Identities, p \in Passkeys : RegisterPasskey(i, p, 0)
  \/ \E ch \in ChallengeIds, m \in Methods, c \in Certificates :
       IssueChallenge(ch, m, c)
  \/ \E r \in Requests, ch \in ChallengeIds : VerifyTake(r, ch)
  \/ \E r \in Requests : VerifyWithWallet(r)
  \/ \E r \in Requests, k \in SshKeys : VerifyWithSsh(r, k)
  \/ \E r \in Requests, p \in Passkeys, n \in 0..MaxCounter :
       VerifyWithPasskey(r, p, n)
  \/ \E r \in Requests : VerifyAuthorized(r)
  \/ \E r \in Requests, t \in Tokens : VerifyCreateSession(r, t)
  \/ \E t \in Tokens : Logout(t) \/ RefuseSession(t)
  \/ \E r \in Requests, i \in Identities, c \in Credentials,
        n \in 1..MaxSequence : Revoke(r, i, c, n)
  \/ \E r \in Requests : SweepList(r) \/ RevokeAnswer(r)
  \/ \E r \in Requests, t \in Tokens, d \in Devices : SweepOne(r, t, d)
  \/ \E c \in Channels : ReadMessages(c)
  \/ \E r \in Requests, t \in Tokens : PostAuthenticate(r, t)
  \/ \E r \in Requests, e \in Events : PostBody(r, e)
  \/ Broadcast
  \/ \E w \in Sockets : OnSocketOpen(w) \/ OnSocketRefused(w)
                        \/ OnSocketClose(w)
  \/ \E w \in Sockets, t \in Tokens : OnSocketRefusedSession(w, t)
  \/ \E w \in Sockets, t \in Tokens \cup {None}, s \in SUBSET Channels :
       OnSocketReady(w, t, s)
  \/ GatewayRestart
  \/ GatewayTick

GatewaySpec == GatewayInit /\ [][GatewayNext]_vars

-----------------------------------------------------------------------------
(* Properties *)

\* The tables and maps hold rows of their TypeScript types, and a chain call
\* is suspended exactly while its sign-in waits for it.
GatewayTypeOK ==
  /\ TypeOK
  /\ \A ch \in ChallengeIds : challenges[ch] # None =>
       challenges[ch] \in ChallengeType
  /\ drawn \subseteq ChallengeIds
  /\ \A t \in Tokens :
       /\ sessions[t] # None => sessions[t] \in SessionType
       /\ minted[t] # None => minted[t].challenge \in drawn
  /\ \A r \in Requests :
       /\ requests[r] # None => requests[r] \in RequestType
       /\ (calls[r] # None) = IsVerify(r, "authorizing")
  /\ stored \subseteq DOMAIN log
  /\ deviceSequences \in [Identities -> [Devices -> Nat]]

\* A challenge is single-use: at most one session ever comes from it, however
\* verifications of it race (docs/gateway.md).
ChallengeSingleUse ==
  \A t, u \in Tokens :
    /\ minted[t] # None /\ minted[u] # None
    /\ minted[t].challenge = minted[u].challenge
    => t = u

\* An open stream bound to a token has its session, unless that session ran
\* out and its row was dropped by deleteExpiredSessions.
StreamsFollowSessions ==
  \A w \in Sockets :
    sockets[w].state = "open" /\ sockets[w].token # None =>
      \/ sessions[sockets[w].token] # None
      \/ minted[sockets[w].token].expiresAt <= now

\* A certificate of the device has run out.
HasExpired(i, d) ==
  \E c \in Certificates : c.account = i /\ c.device = d /\ c.expiresAt <= now

SweepEndsDoomed ==
  \A r \in Requests :
    /\ requests[r] # None /\ requests[r].op = "revoke"
    /\ requests'[r] = None /\ boot' = boot
    => \A t \in requests[r].doomed :
         sessions'[t] # None /\ now < sessions'[t].expiresAt
           => /\ requests[r].credential # Device(sessions'[t].device)
              /\ HasExpired(requests[r].identity, sessions'[t].device)

\* "revoking a credential closes its authenticated stream": when a revocation
\* is answered, the sessions it killed are gone or have run out, although
\* sign-ins and other revocations ran during the sweep (sweepSessions).  Where
\* a key was revoked and a certificate of the device has run out, another
\* credential may authorise the device before the sweep gets to its sessions,
\* which then stay.  And a stream never outlives the end of its session
\* (endSession).
RevocationEnds == []StreamsFollowSessions /\ [][SweepEndsDoomed]_vars

\* A session whose certificate is revoked never authenticates again while
\* that certificate lives, even when a crash cut the sweep short or the
\* session was created after the sweep.
RevokedStaysOut ==
  [][\A t \in Tokens :
       /\ sessions[t] # None
       /\ IsCertificateRevoked(sessions[t].identity, sessions[t].device)
       /\ now < deviceCertificates[sessions[t].identity]
                                  [sessions[t].device].expiresAt
       => ~Authenticates(t)']_vars

\* Each device's accepted posts have strictly increasing sequences in log
\* order.
AcceptedOnceInOrder ==
  \A p, q \in DOMAIN log :
    /\ p < q
    /\ log[p].event.author = log[q].event.author
    /\ log[p].event.device = log[q].event.device
    => log[p].event.sequence < log[q].event.sequence

\* Within one life of the process no identity has more posts accepted in a
\* window than its channel's limit, nor the same text DuplicateThreshold times.
WithinRate ==
  \A p \in DOMAIN log :
    LET window == {q \in DOMAIN log :
          /\ log[q].event.author = log[p].event.author
          /\ log[q].event.channel = log[p].event.channel
          /\ log[q].boot = log[p].boot
          /\ log[q].receivedAt \in log[p].receivedAt ..
                                   (log[p].receivedAt + RateWindow - 1)}
        same == {q \in window : log[q].event.body = log[p].event.body}
    IN  /\ Cardinality(window) <= RateLimit[log[p].event.channel]
        /\ Cardinality(same) < DuplicateThreshold

\* What the log accepts, over sessions, lapsed channels and restarts: no event
\* is accepted twice or after a later one of its device (postChannel's
\* deviceSequences), and no author exceeds a channel's limits (SlidingWindow,
\* DuplicateGuard), although a post is split at the await of its body.
PostsAdmissible == AcceptedOnceInOrder /\ WithinRate

\* A stream is sent each message at most once and in seq order.
StreamInOrder ==
  \A w \in Sockets : \A p, q \in DOMAIN sockets[w].sent :
    p < q => sockets[w].sent[p] < sockets[w].sent[q]
=============================================================================
