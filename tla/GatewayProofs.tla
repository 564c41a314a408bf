---------------------------- MODULE GatewayProofs ----------------------------
(***************************************************************************)
(* Proofs about Gateway for every set of identities, certificates,          *)
(* challenges, tokens, streams, events and concurrent requests.             *)
(***************************************************************************)
EXTENDS Gateway, DevChainProofs

\* The backend of every leaf that names none, with a second run of more time.
USE Zenon, ZenonT(20)

-----------------------------------------------------------------------------
(* Types, and the chain behind the gateway.                                 *)

\* What the sign-in, session and request tables hold.
AuthTyped ==
  /\ challenges \in [ChallengeIds -> ChallengeType \cup {None}]
  /\ drawn \in SUBSET ChallengeIds
  /\ sessions \in [Tokens -> SessionType \cup {None}]
  /\ minted \in [Tokens -> MintedType \cup {None}]
  /\ requests \in [Requests -> RequestType \cup {None}]

\* The challenge, the certificate and the time a suspended sign-in carries.
LEMMA VerifyFields ==
  ASSUME AuthTyped, NEW r \in Requests, requests[r] # None,
         requests[r].op = "verify"
  PROVE  /\ requests[r] \in
              [op: {"verify"}, phase: {"proved", "authorizing", "authorized"},
               challenge: ChallengeIds, method: Methods, cert: Certificates,
               at: Nat]
         /\ requests[r].cert \in Certificates
         /\ requests[r].challenge \in ChallengeIds
         /\ requests[r].at \in Nat
BY DEF AuthTyped, RequestType

\* What a suspended revocation carries.
LEMMA RevokeFields ==
  ASSUME AuthTyped, NEW r \in Requests, requests[r] # None,
         requests[r].op = "revoke"
  PROVE  /\ requests[r] \in
              [op: {"revoke"}, phase: {"recorded", "sweeping"},
               identity: Identities, credential: Credentials,
               left: SUBSET (Tokens \X Devices), doomed: SUBSET Tokens]
         /\ requests[r].identity \in Identities
         /\ requests[r].credential \in Credentials
         /\ requests[r].left \in SUBSET (Tokens \X Devices)
         /\ requests[r].doomed \in SUBSET Tokens
BY DEF AuthTyped, RequestType

\* Every step of the gateway is a step of the chain, or leaves the chain alone.
LEMMA GatewayChainStep ==
  ASSUME AuthTyped, GatewayNext
  PROVE  [Next]_chainVars
<1>1. CASE \E r \in Requests : VerifyWithWallet(r)
  <2>1. PICK r \in Requests : VerifyWithWallet(r)
    BY <1>1
  <2>2. requests[r].cert \in Certificates
    BY <2>1, VerifyFields DEF VerifyWithWallet, IsVerify
  <2> QED
    BY <2>1, <2>2 DEF VerifyWithWallet, Next
<1>2. CASE \E r \in Requests, k \in SshKeys : VerifyWithSsh(r, k)
  <2>1. PICK r \in Requests, k \in SshKeys : VerifyWithSsh(r, k)
    BY <1>2
  <2>2. requests[r].cert \in Certificates
    BY <2>1, VerifyFields DEF VerifyWithSsh, IsVerify
  <2> QED
    BY <2>1, <2>2 DEF VerifyWithSsh, Next, Requests
<1>3. CASE \E r \in Requests, p \in Passkeys, n \in 0..MaxCounter :
             VerifyWithPasskey(r, p, n)
  <2>1. PICK r \in Requests, p \in Passkeys, n \in 0..MaxCounter :
          VerifyWithPasskey(r, p, n)
    BY <1>3
  <2>2. requests[r].cert \in Certificates
    BY <2>1, VerifyFields DEF VerifyWithPasskey, IsVerify
  <2> QED
    BY <2>1, <2>2 DEF VerifyWithPasskey, Next, Requests
<1>4. CASE \E r \in Requests : VerifyAuthorized(r)
  BY <1>4 DEF VerifyAuthorized, Next, Requests
<1>5. CASE \/ \E i \in Identities : CreateIdentity(i)
           \/ \E i \in Identities, k \in SshKeys : RegisterSsh(i, k)
           \/ GatewayRestart \/ GatewayTick
  BY <1>5 DEF CreateIdentity, RegisterSsh, GatewayRestart, GatewayTick, Next
<1>6. CASE \E i \in Identities, p \in Passkeys : RegisterPasskey(i, p, 0)
  BY SMT, Z3, <1>6, BoundsAssumption DEF RegisterPasskey, Next
<1>7. CASE \E r \in Requests, i \in Identities, c \in Credentials,
              n \in 1..MaxSequence : Revoke(r, i, c, n)
  BY <1>7 DEF Revoke, Next
<1>8. CASE \/ \E ch \in ChallengeIds, m \in Methods, c \in Certificates :
                IssueChallenge(ch, m, c)
           \/ \E r \in Requests, ch \in ChallengeIds : VerifyTake(r, ch)
           \/ \E r \in Requests, t \in Tokens : VerifyCreateSession(r, t)
           \/ \E t \in Tokens : Logout(t) \/ RefuseSession(t)
           \/ \E r \in Requests : SweepList(r) \/ RevokeAnswer(r)
           \/ \E r \in Requests, t \in Tokens, d \in Devices : SweepOne(r, t, d)
  BY <1>8 DEF IssueChallenge, VerifyTake, VerifyCreateSession, Logout,
       RefuseSession, SweepList, RevokeAnswer, SweepOne
<1>9. CASE \/ \E c \in Channels : ReadMessages(c)
           \/ \E r \in Requests, t \in Tokens : PostAuthenticate(r, t)
           \/ \E r \in Requests, e \in Events : PostBody(r, e)
           \/ Broadcast
           \/ \E w \in Sockets : OnSocketOpen(w) \/ OnSocketRefused(w)
                                 \/ OnSocketClose(w)
           \/ \E w \in Sockets, t \in Tokens : OnSocketRefusedSession(w, t)
           \/ \E w \in Sockets, t \in Tokens \cup {None},
                 s \in SUBSET Channels : OnSocketReady(w, t, s)
  BY <1>9 DEF ReadMessages, PostAuthenticate, PostBody, Broadcast, OnSocketOpen,
       OnSocketRefused, OnSocketClose, OnSocketRefusedSession, OnSocketReady,
       SetSocket
<1> QED
  BY <1>1, <1>2, <1>3, <1>4, <1>5, <1>6, <1>7, <1>8, <1>9 DEF GatewayNext

\* The smaller of two times.
LEMMA MinOfTwo ==
  ASSUME NEW a \in Nat, NEW b \in Nat
  PROVE  Min({a, b}) \in Nat /\ Min({a, b}) <= a /\ Min({a, b}) <= b
<1>1. \E x \in {a, b} : \A y \in {a, b} : x <= y
  BY SMT, Z3
<1> QED
  BY <1>1 DEF Min

\* The tables are typed at the start.
LEMMA InitAuthTyped == GatewayInit => AuthTyped
BY DEF GatewayInit, AuthTyped

\* A request that moves to another phase of sign-in, or is answered.
LEMMA PhaseTyped ==
  ASSUME AuthTyped, NEW r \in Requests, requests[r] # None,
         requests[r].op = "verify",
         NEW phase \in {"proved", "authorizing", "authorized"},
         ToPhase(r, phase) \/ Answer(r)
  PROVE  requests' \in [Requests -> RequestType \cup {None}]
<1>1. CASE ToPhase(r, phase)
  <2>1. [requests[r] EXCEPT !.phase = phase] \in RequestType
    BY SMT, Z3, VerifyFields DEF RequestType
  <2> QED
    BY <1>1, <2>1 DEF ToPhase, AuthTyped
<1>2. CASE Answer(r)
  BY <1>2 DEF Answer, AuthTyped
<1> QED
  BY <1>1, <1>2

\* The sign-in steps keep the tables typed.
LEMMA SignInTyped ==
  ASSUME TypeOK, AuthTyped,
         \/ \E ch \in ChallengeIds, m \in Methods, c \in Certificates :
              IssueChallenge(ch, m, c)
         \/ \E r \in Requests, ch \in ChallengeIds : VerifyTake(r, ch)
         \/ \E r \in Requests : VerifyWithWallet(r)
         \/ \E r \in Requests, k \in SshKeys : VerifyWithSsh(r, k)
         \/ \E r \in Requests, p \in Passkeys, n \in 0..MaxCounter :
              VerifyWithPasskey(r, p, n)
         \/ \E r \in Requests : VerifyAuthorized(r)
         \/ \E r \in Requests, t \in Tokens : VerifyCreateSession(r, t)
  PROVE  AuthTyped'
<1>0. now \in Nat
  BY DEF TypeOK
<1>1. ASSUME NEW ch \in ChallengeIds, NEW m \in Methods,
             NEW c \in Certificates, IssueChallenge(ch, m, c)
      PROVE  AuthTyped'
  <2>1. PrunedChallenges \in [ChallengeIds -> ChallengeType \cup {None}]
    BY DEF PrunedChallenges, AuthTyped
  <2>2. [method |-> m, cert |-> c, expiresAt |-> now + ChallengeTtl]
          \in ChallengeType
    BY SMT, Z3, <1>0, GatewayAssumption DEF ChallengeType
  <2>3. challenges' \in [ChallengeIds -> ChallengeType \cup {None}]
    BY <1>1, <2>1, <2>2 DEF IssueChallenge
  <2> QED
    BY <1>1, <2>3 DEF IssueChallenge, AuthTyped
<1>2. ASSUME NEW r \in Requests, NEW ch \in ChallengeIds, VerifyTake(r, ch)
      PROVE  AuthTyped'
  <2>1. challenges[ch] \in ChallengeType
    BY <1>2 DEF VerifyTake, AuthTyped
  <2>2. [op |-> "verify", phase |-> "proved", challenge |-> ch,
         method |-> challenges[ch].method, cert |-> challenges[ch].cert,
         at |-> now] \in RequestType
    BY <1>0, <2>1 DEF RequestType, ChallengeType
  <2> QED
    BY SMT, Z3, <1>2, <2>2 DEF VerifyTake, AuthTyped
<1>3. ASSUME NEW r \in Requests, VerifyWithWallet(r)
      PROVE  AuthTyped'
  <2>1. requests' \in [Requests -> RequestType \cup {None}]
    BY <1>3, PhaseTyped DEF VerifyWithWallet, IsVerify
  <2> QED
    BY <1>3, <2>1 DEF VerifyWithWallet, AuthTyped, authVars
<1>4. ASSUME NEW r \in Requests, NEW k \in SshKeys, VerifyWithSsh(r, k)
      PROVE  AuthTyped'
  <2>1. requests' \in [Requests -> RequestType \cup {None}]
    BY <1>4, PhaseTyped DEF VerifyWithSsh, IsVerify
  <2> QED
    BY <1>4, <2>1 DEF VerifyWithSsh, AuthTyped, authVars
<1>5. ASSUME NEW r \in Requests, NEW p \in Passkeys, NEW n \in 0..MaxCounter,
             VerifyWithPasskey(r, p, n)
      PROVE  AuthTyped'
  <2>1. requests' \in [Requests -> RequestType \cup {None}]
    BY <1>5, PhaseTyped DEF VerifyWithPasskey, IsVerify
  <2> QED
    BY <1>5, <2>1 DEF VerifyWithPasskey, AuthTyped, authVars
<1>6. ASSUME NEW r \in Requests, VerifyAuthorized(r)
      PROVE  AuthTyped'
  <2>1. requests' \in [Requests -> RequestType \cup {None}]
    BY <1>6, PhaseTyped DEF VerifyAuthorized, IsVerify
  <2> QED
    BY <1>6, <2>1 DEF VerifyAuthorized, AuthTyped, authVars
<1>7. ASSUME NEW r \in Requests, NEW t \in Tokens, VerifyCreateSession(r, t)
      PROVE  AuthTyped'
  <2> DEFINE q == requests[r]
             expiry == Min({q.cert.expiresAt, q.at + SessionMax})
  <2>1. q.cert \in Certificates /\ q.at \in Nat /\ q.challenge \in ChallengeIds
    BY <1>7, VerifyFields DEF VerifyCreateSession, IsVerify
  <2>2. /\ q.cert.account \in Identities /\ q.cert.device \in Devices
        /\ q.cert.expiresAt \in Nat
    BY <2>1, CertificateFields
  <2>3. expiry \in Nat
    BY SMT, Z3, <2>1, <2>2, GatewayAssumption, MinOfTwo
  <2>4. /\ [identity |-> q.cert.account, device |-> q.cert.device,
            expiresAt |-> expiry] \in SessionType
        /\ [challenge |-> q.challenge, expiresAt |-> expiry] \in MintedType
    BY <2>1, <2>2, <2>3 DEF SessionType, MintedType
  <2> HIDE DEF expiry
  <2>5. sessions' \in [Tokens -> SessionType \cup {None}]
    BY <1>7, <2>4 DEF VerifyCreateSession, AuthTyped, expiry
  <2>6. minted' \in [Tokens -> MintedType \cup {None}]
    BY <1>7, <2>4 DEF VerifyCreateSession, AuthTyped, expiry
  <2> QED
    BY <1>7, <2>5, <2>6 DEF VerifyCreateSession, AuthTyped, Answer
<1> QED
  BY <1>1, <1>2, <1>3, <1>4, <1>5, <1>6, <1>7

\* Revocation, its sweep and the ends of sessions keep the tables typed.
LEMMA RevocationTyped ==
  ASSUME AuthTyped,
         \/ \E t \in Tokens : Logout(t) \/ RefuseSession(t)
         \/ \E r \in Requests, i \in Identities, c \in Credentials,
               n \in 1..MaxSequence : Revoke(r, i, c, n)
         \/ \E r \in Requests : SweepList(r) \/ RevokeAnswer(r)
         \/ \E r \in Requests, t \in Tokens, d \in Devices : SweepOne(r, t, d)
         \/ \E w \in Sockets, t \in Tokens : OnSocketRefusedSession(w, t)
  PROVE  AuthTyped'
<1>1. ASSUME NEW t \in Tokens, Logout(t) \/ RefuseSession(t)
      PROVE  AuthTyped'
  BY <1>1 DEF Logout, RefuseSession, EndSession, AuthTyped
<1>2. ASSUME NEW r \in Requests, NEW i \in Identities, NEW c \in Credentials,
             NEW n \in 1..MaxSequence, Revoke(r, i, c, n)
      PROVE  AuthTyped'
  <2> DEFINE doomed == {t \in SessionsForIdentity(i) :
               \/ c = Device(sessions[t].device)
               \/ c = deviceAuthorizations[i][sessions[t].device]}
  <2>1. doomed \in SUBSET Tokens
    BY DEF SessionsForIdentity
  <2> HIDE DEF doomed
  <2>2. [op |-> "revoke", phase |-> "recorded", identity |-> i,
         credential |-> c, left |-> {}, doomed |-> doomed] \in RequestType
    BY <2>1 DEF RequestType
  <2> QED
    BY <1>2, <2>2 DEF Revoke, AuthTyped, authVars, doomed
<1>3. ASSUME NEW r \in Requests, SweepList(r)
      PROVE  AuthTyped'
  <2> DEFINE left == {<<t, sessions[t].device>> :
                        t \in SessionsForIdentity(requests[r].identity)}
  <2>1. left \in SUBSET (Tokens \X Devices)
    BY SMT, Z3 DEF SessionsForIdentity, AuthTyped, SessionType
  <2> HIDE DEF left
  <2>2. [[requests[r] EXCEPT !.phase = "sweeping"] EXCEPT !.left = left]
          \in RequestType
    BY <1>3, <2>1, RevokeFields DEF SweepList, RequestType
  <2> QED
    BY <1>3, <2>2 DEF SweepList, AuthTyped, authVars, left
<1>4. ASSUME NEW r \in Requests, RevokeAnswer(r)
      PROVE  AuthTyped'
  BY <1>4 DEF RevokeAnswer, Answer, AuthTyped, authVars
<1>5. ASSUME NEW r \in Requests, NEW t \in Tokens, NEW d \in Devices,
             SweepOne(r, t, d)
      PROVE  AuthTyped'
  <2>1. [requests[r] EXCEPT !.left = @ \ {<<t, d>>}] \in RequestType
    BY SMT, Z3, <1>5, RevokeFields DEF SweepOne, RequestType
  <2>2. requests' \in [Requests -> RequestType \cup {None}]
    BY <1>5, <2>1 DEF SweepOne, AuthTyped
  <2>3. sessions' \in [Tokens -> SessionType \cup {None}]
    BY <1>5 DEF SweepOne, AuthTyped, EndSession
  <2> QED
    BY <1>5, <2>2, <2>3 DEF SweepOne, AuthTyped
<1>6. ASSUME NEW w \in Sockets, NEW t \in Tokens, OnSocketRefusedSession(w, t)
      PROVE  AuthTyped'
  BY <1>6 DEF OnSocketRefusedSession, AuthTyped
<1> QED
  BY <1>1, <1>2, <1>3, <1>4, <1>5, <1>6

\* A post up to its body, and its end.
LEMMA PostTyped ==
  ASSUME TypeOK, AuthTyped,
         \/ \E r \in Requests, t \in Tokens : PostAuthenticate(r, t)
         \/ \E r \in Requests, e \in Events : PostBody(r, e)
  PROVE  AuthTyped'
<1>1. ASSUME NEW r \in Requests, NEW t \in Tokens, PostAuthenticate(r, t)
      PROVE  AuthTyped'
  <2> DEFINE s == sessions[t]
             c == deviceCertificates[s.identity][s.device]
  <2>1. s \in SessionType
    BY <1>1 DEF PostAuthenticate, Authenticates, AuthTyped
  <2>2. s.identity \in Identities /\ s.device \in Devices
    BY <2>1 DEF SessionType
  <2>3. c \in Certificates
    <3>1. c \in Certificates \cup {None}
      BY SMT, Z3, <2>2, MemoryTyped DEF TypeOK, MemoryTypeOK
    <3>2. ResolveDeviceCertificate(s.identity, s.device) # None
      BY <1>1 DEF PostAuthenticate, Authenticates
    <3> QED
      BY <3>1, <3>2 DEF ResolveDeviceCertificate
  <2>4. [op |-> "post", session |-> s, key |-> c.key] \in RequestType
    BY <2>1, <2>3, CertificateFields DEF RequestType
  <2> QED
    BY <1>1, <2>4 DEF PostAuthenticate, AuthTyped, authVars
<1>2. ASSUME NEW r \in Requests, NEW e \in Events, PostBody(r, e)
      PROVE  AuthTyped'
  BY <1>2 DEF PostBody, Answer, AuthTyped, authVars
<1> QED
  BY <1>1, <1>2

\* One step keeps the tables typed.
LEMMA NextAuthTyped ==
  ASSUME TypeOK, AuthTyped, [GatewayNext]_vars
  PROVE  AuthTyped'
<1>1. CASE \/ \E i \in Identities : CreateIdentity(i)
           \/ \E i \in Identities, k \in SshKeys : RegisterSsh(i, k)
           \/ \E i \in Identities, p \in Passkeys : RegisterPasskey(i, p, 0)
           \/ \E c \in Channels : ReadMessages(c)
           \/ Broadcast
           \/ GatewayTick
  BY <1>1 DEF CreateIdentity, RegisterSsh, RegisterPasskey, ReadMessages,
       Broadcast, GatewayTick, gatewayVars, authVars, AuthTyped
<1>2. CASE \/ \E w \in Sockets : OnSocketOpen(w) \/ OnSocketRefused(w)
                                 \/ OnSocketClose(w)
           \/ \E w \in Sockets, t \in Tokens \cup {None},
                 s \in SUBSET Channels : OnSocketReady(w, t, s)
  BY <1>2 DEF OnSocketOpen, OnSocketRefused, OnSocketClose, OnSocketReady,
       SetSocket, authVars, AuthTyped
<1>3. CASE GatewayRestart
  BY <1>3 DEF GatewayRestart, AuthTyped
<1>4. CASE UNCHANGED vars
  BY <1>4 DEF vars, gatewayVars, authVars, AuthTyped
<1> QED
  BY <1>1, <1>2, <1>3, <1>4, SignInTyped, RevocationTyped, PostTyped DEF
       GatewayNext

\* The gateway's tables are typed and the chain behind it keeps its inductive
\* invariant, whatever the gateway's handlers do between two chain calls.
THEOREM GatewayChainInvariant == GatewaySpec => [](ChainInv /\ AuthTyped)
<1>1. GatewayInit => ChainInv /\ AuthTyped
  BY InitChainInv, InitAuthTyped DEF GatewayInit
<1>2. ChainInv /\ AuthTyped /\ [GatewayNext]_vars => (ChainInv /\ AuthTyped)'
  <2> SUFFICES ASSUME ChainInv, AuthTyped, [GatewayNext]_vars
               PROVE  ChainInv' /\ AuthTyped'
    BY SMT, Z3
  <2>1. [Next]_chainVars
    BY GatewayChainStep DEF vars
  <2> QED
    BY <2>1, NextChainInv, NextAuthTyped DEF ChainInv
<1> QED
  BY <1>1, <1>2, PTL DEF GatewaySpec

\* The gateway drives the chain only through its methods: whatever the chain
\* guarantees by itself it guarantees behind the gateway, where calls of
\* suspended sign-ins, revocations and restarts interleave.
THEOREM GatewayImplementsChain == GatewaySpec => Spec
<1>1. GatewayInit => Init
  BY DEF GatewayInit
<1>2. AuthTyped /\ [GatewayNext]_vars => [Next]_chainVars
  BY GatewayChainStep DEF vars
<1> QED
  BY <1>1, <1>2, GatewayChainInvariant, PTL DEF GatewaySpec, Spec

-----------------------------------------------------------------------------
(* Single use.  ChallengeSingleUse says nothing of sign-ins under way; the  *)
(* strengthening follows a challenge from the map into the one request that *)
(* took it and on to the token minted for it: it is in one of the three.    *)

Verifying(r) == requests[r] # None /\ requests[r].op = "verify"

ChallengeInv ==
  /\ \A ch \in ChallengeIds : challenges[ch] # None => ch \in drawn
  /\ \A r \in Requests : Verifying(r) =>
       /\ requests[r].challenge \in drawn
       /\ challenges[requests[r].challenge] = None
  /\ \A r, s \in Requests :
       /\ Verifying(r) /\ Verifying(s)
       /\ requests[r].challenge = requests[s].challenge
       => r = s
  /\ \A t \in Tokens : minted[t] # None =>
       /\ minted[t].challenge \in drawn
       /\ challenges[minted[t].challenge] = None
       /\ \A r \in Requests :
            Verifying(r) => requests[r].challenge # minted[t].challenge
  /\ ChallengeSingleUse

\* Sign-ins that go on or end keep their challenge and when they arrived.
SignInsKept ==
  \A r \in Requests : Verifying(r)' =>
    /\ Verifying(r)
    /\ requests'[r].challenge = requests[r].challenge
    /\ requests'[r].at = requests[r].at

\* Nothing has been drawn at the start.
LEMMA InitChallengeInv == GatewayInit => ChallengeInv
BY SMT, Z3 DEF GatewayInit, ChallengeInv, ChallengeSingleUse, Verifying

\* Steps that draw, take and mint nothing keep ChallengeInv.
LEMMA ChallengesKept ==
  ASSUME ChallengeInv, SignInsKept, UNCHANGED <<challenges, drawn, minted>>
  PROVE  ChallengeInv'
BY SMT, Z3 DEF ChallengeInv, SignInsKept, ChallengeSingleUse, Verifying

\* issueChallenge: the new challenge was never drawn before.
LEMMA IssueChallengeInv ==
  ASSUME AuthTyped, ChallengeInv,
         NEW ch \in ChallengeIds, NEW m \in Methods, NEW c \in Certificates,
         IssueChallenge(ch, m, c)
  PROVE  ChallengeInv'
<1>1. /\ drawn \subseteq drawn' /\ UNCHANGED <<requests, minted>>
      /\ ch \notin drawn
      /\ \A x \in ChallengeIds : x # ch =>
           challenges'[x] = None \/ challenges'[x] = challenges[x]
      /\ challenges'[ch] # None => ch \in drawn'
  <2>1. \A x \in ChallengeIds :
          PrunedChallenges[x] = None \/ PrunedChallenges[x] = challenges[x]
    BY DEF PrunedChallenges
  <2>2. PrunedChallenges \in [ChallengeIds -> ChallengeType \cup {None}]
    BY DEF PrunedChallenges, AuthTyped
  <2>3. challenges[ch] = None
    BY DEF IssueChallenge, ChallengeInv
  <2> QED
    BY <2>1, <2>2, <2>3 DEF IssueChallenge
<1>2. \A x \in drawn : challenges[x] = None => challenges'[x] = None
  BY <1>1 DEF AuthTyped
<1> QED
  BY <1>1, <1>2 DEF ChallengeInv, ChallengeSingleUse, Verifying

\* verifyChallenge takes the challenge out of the map before it awaits.
LEMMA VerifyTakeInv ==
  ASSUME AuthTyped, ChallengeInv, NEW r \in Requests, NEW ch \in ChallengeIds,
         VerifyTake(r, ch)
  PROVE  ChallengeInv'
<1>1. /\ challenges[ch] # None /\ ch \in drawn
      /\ challenges' = [challenges EXCEPT ![ch] = None]
      /\ UNCHANGED <<drawn, minted>>
  BY DEF VerifyTake, ChallengeInv
<1>2. \A s \in Requests : Verifying(s) => requests[s].challenge # ch
  BY <1>1 DEF ChallengeInv
<1>3. \A t \in Tokens : minted[t] # None => minted[t].challenge # ch
  BY <1>1 DEF ChallengeInv
<1>4. \A s \in Requests : Verifying(s)' =>
        \/ Verifying(s) /\ requests'[s].challenge = requests[s].challenge
        \/ s = r /\ requests'[s].challenge = ch
  BY SMT, Z3 DEF VerifyTake, Verifying, AuthTyped
<1>5. challenges'[ch] = None
        /\ \A x \in ChallengeIds : challenges[x] = None => challenges'[x] = None
  BY <1>1 DEF AuthTyped
<1>6. requests[r] = None
  BY DEF VerifyTake
<1>7. \A s \in Requests : Verifying(s) => requests[s].challenge \in ChallengeIds
  BY VerifyFields DEF Verifying
<1>8. \A t \in Tokens : minted[t] # None => minted[t].challenge \in ChallengeIds
  BY DEF AuthTyped, MintedType
<1> QED
  BY SMT, Z3, <1>1, <1>2, <1>3, <1>4, <1>5, <1>6, <1>7, <1>8 DEF ChallengeInv,
       ChallengeSingleUse, Verifying, AuthTyped

\* The end of verifyChallenge: the token takes the challenge over.
LEMMA VerifyCreateSessionInv ==
  ASSUME AuthTyped, ChallengeInv, NEW r \in Requests, NEW t \in Tokens,
         VerifyCreateSession(r, t)
  PROVE  ChallengeInv'
<1> DEFINE ch == requests[r].challenge
<1>1. Verifying(r) /\ minted[t] = None
  BY DEF VerifyCreateSession, IsVerify, Verifying
<1>2. /\ UNCHANGED <<challenges, drawn>>
      /\ requests' = [requests EXCEPT ![r] = None]
  BY DEF VerifyCreateSession, Answer
<1>3. /\ \A u \in Tokens : u # t => minted'[u] = minted[u]
      /\ minted'[t].challenge = ch
  BY DEF VerifyCreateSession, AuthTyped
<1>4. /\ ch \in drawn /\ challenges[ch] = None
      /\ \A s \in Requests : Verifying(s) /\ s # r => requests[s].challenge # ch
      /\ \A u \in Tokens : minted[u] # None => minted[u].challenge # ch
  BY <1>1 DEF ChallengeInv
<1>5. \A s \in Requests : Verifying(s)' =>
        s # r /\ Verifying(s) /\ requests'[s] = requests[s]
  BY <1>2 DEF Verifying, AuthTyped
<1> QED
  BY SMT, Z3, <1>2, <1>3, <1>4, <1>5 DEF ChallengeInv, ChallengeSingleUse,
       AuthTyped

\* A sign-in that moves on or is answered keeps its challenge.
LEMMA PhaseKeeps ==
  ASSUME AuthTyped, NEW r \in Requests, Verifying(r), NEW phase,
         ToPhase(r, phase) \/ Answer(r)
  PROVE  SignInsKept
BY SMT, Z3, VerifyFields DEF SignInsKept, Verifying, ToPhase, Answer, AuthTyped

\* The requests of the other routes carry no challenge.
LEMMA OtherRequestsKeep ==
  ASSUME AuthTyped,
         \/ \E r \in Requests, i \in Identities, c \in Credentials,
               n \in 1..MaxSequence : Revoke(r, i, c, n)
         \/ \E r \in Requests : SweepList(r) \/ RevokeAnswer(r)
         \/ \E r \in Requests, t \in Tokens, d \in Devices : SweepOne(r, t, d)
         \/ \E r \in Requests, t \in Tokens : PostAuthenticate(r, t)
         \/ \E r \in Requests, e \in Events : PostBody(r, e)
  PROVE  SignInsKept /\ UNCHANGED <<challenges, drawn, minted>>
<1>1. ASSUME NEW r \in Requests, NEW x, x.op # "verify",
             requests' = [requests EXCEPT ![r] = x], UNCHANGED authVars
      PROVE  SignInsKept /\ UNCHANGED <<challenges, drawn, minted>>
  <2>1. \A s \in Requests : requests'[s] = IF s = r THEN x ELSE requests[s]
    BY <1>1 DEF AuthTyped
  <2> QED
    BY <1>1, <2>1 DEF SignInsKept, Verifying, authVars
<1>5. ASSUME NEW r \in Requests, NEW i \in Identities, NEW c \in Credentials,
             NEW n \in 1..MaxSequence, Revoke(r, i, c, n)
      PROVE  SignInsKept /\ UNCHANGED <<challenges, drawn, minted>>
  <2>1. PICK x : x.op = "revoke" /\ requests' = [requests EXCEPT ![r] = x]
    BY <1>5 DEF Revoke
  <2>2. x.op # "verify" /\ UNCHANGED authVars
    BY <1>5, <2>1 DEF Revoke
  <2> QED
    BY <1>1, <2>1, <2>2
<1>6. ASSUME NEW r \in Requests, NEW t \in Tokens, PostAuthenticate(r, t)
      PROVE  SignInsKept /\ UNCHANGED <<challenges, drawn, minted>>
  <2>1. PICK x : x.op = "post" /\ requests' = [requests EXCEPT ![r] = x]
    BY <1>6 DEF PostAuthenticate
  <2>2. x.op # "verify" /\ UNCHANGED authVars
    BY <1>6, <2>1 DEF PostAuthenticate
  <2> QED
    BY <1>1, <2>1, <2>2
<1>2. ASSUME NEW r \in Requests, SweepList(r)
      PROVE  SignInsKept /\ UNCHANGED <<challenges, drawn, minted>>
  <2>1. \A s \in Requests : s # r => requests'[s] = requests[s]
    BY <1>2 DEF SweepList, AuthTyped
  <2>2. requests'[r].op = "revoke"
    BY <1>2, RevokeFields DEF SweepList, AuthTyped
  <2> QED
    BY <1>2, <2>1, <2>2 DEF SweepList, SignInsKept, Verifying, authVars
<1>3. ASSUME NEW r \in Requests, NEW t \in Tokens, NEW d \in Devices,
             SweepOne(r, t, d)
      PROVE  SignInsKept /\ UNCHANGED <<challenges, drawn, minted>>
  <2>1. \A s \in Requests : s # r => requests'[s] = requests[s]
    BY <1>3 DEF SweepOne, AuthTyped
  <2>2. requests'[r].op = "revoke"
    BY <1>3, RevokeFields DEF SweepOne, AuthTyped
  <2> QED
    BY <1>3, <2>1, <2>2 DEF SweepOne, SignInsKept, Verifying
<1>4. ASSUME NEW r \in Requests,
             RevokeAnswer(r) \/ \E e \in Events : PostBody(r, e)
      PROVE  SignInsKept /\ UNCHANGED <<challenges, drawn, minted>>
  BY <1>4 DEF RevokeAnswer, PostBody, Answer, SignInsKept, Verifying, AuthTyped,
       authVars
<1> QED
  BY <1>2, <1>3, <1>4, <1>5, <1>6

\* The sign-in steps between taking a challenge and creating the session.
LEMMA AuthorizingKeeps ==
  ASSUME AuthTyped,
         \/ \E r \in Requests : VerifyWithWallet(r)
         \/ \E r \in Requests, k \in SshKeys : VerifyWithSsh(r, k)
         \/ \E r \in Requests, p \in Passkeys, n \in 0..MaxCounter :
              VerifyWithPasskey(r, p, n)
         \/ \E r \in Requests : VerifyAuthorized(r)
  PROVE  SignInsKept /\ UNCHANGED <<authVars, sockets, logVars>>
<1>1. PICK r \in Requests :
        /\ Verifying(r)
        /\ \/ ToPhase(r, "authorizing") \/ ToPhase(r, "authorized") \/ Answer(r)
        /\ UNCHANGED <<authVars, sockets, logVars>>
  BY DEF VerifyWithWallet, VerifyWithSsh, VerifyWithPasskey, VerifyAuthorized,
       IsVerify, Verifying
<1> QED
  BY <1>1, PhaseKeeps

\* Steps outside of sign-in, the request routes and the restart leave the
\* requests alone.
LEMMA QuietSteps ==
  ASSUME \/ \E i \in Identities : CreateIdentity(i)
         \/ \E i \in Identities, k \in SshKeys : RegisterSsh(i, k)
         \/ \E i \in Identities, p \in Passkeys : RegisterPasskey(i, p, 0)
         \/ \E t \in Tokens : Logout(t) \/ RefuseSession(t)
         \/ \E c \in Channels : ReadMessages(c)
         \/ Broadcast
         \/ \E w \in Sockets : OnSocketOpen(w) \/ OnSocketRefused(w)
                               \/ OnSocketClose(w)
         \/ \E w \in Sockets, t \in Tokens : OnSocketRefusedSession(w, t)
         \/ \E w \in Sockets, t \in Tokens \cup {None}, s \in SUBSET Channels :
              OnSocketReady(w, t, s)
         \/ GatewayTick
         \/ UNCHANGED vars
  PROVE  UNCHANGED <<requests, challenges, drawn, minted>>
<1>1. CASE \/ \E i \in Identities : CreateIdentity(i)
           \/ \E i \in Identities, k \in SshKeys : RegisterSsh(i, k)
           \/ \E i \in Identities, p \in Passkeys : RegisterPasskey(i, p, 0)
           \/ GatewayTick
           \/ UNCHANGED vars
  BY <1>1 DEF CreateIdentity, RegisterSsh, RegisterPasskey, GatewayTick, vars,
       gatewayVars, authVars
<1>2. CASE \/ \E t \in Tokens : Logout(t) \/ RefuseSession(t)
           \/ \E w \in Sockets, t \in Tokens : OnSocketRefusedSession(w, t)
  BY <1>2 DEF Logout, RefuseSession, OnSocketRefusedSession
<1>3. CASE (\E c \in Channels : ReadMessages(c)) \/ Broadcast
  BY <1>3 DEF ReadMessages, Broadcast, authVars
<1>4. CASE \/ \E w \in Sockets : OnSocketOpen(w) \/ OnSocketRefused(w)
                                 \/ OnSocketClose(w)
           \/ \E w \in Sockets, t \in Tokens \cup {None},
                 s \in SUBSET Channels : OnSocketReady(w, t, s)
  BY <1>4 DEF OnSocketOpen, OnSocketRefused, OnSocketClose, OnSocketReady,
       SetSocket, authVars
<1> QED
  BY <1>1, <1>2, <1>3, <1>4

\* One step keeps every challenge in one place.
LEMMA NextChallengeInv ==
  ASSUME AuthTyped, ChallengeInv, [GatewayNext]_vars
  PROVE  ChallengeInv'
<1>1. CASE UNCHANGED <<requests, challenges, drawn, minted>>
  BY <1>1, ChallengesKept DEF SignInsKept, Verifying
<1>2. CASE SignInsKept /\ UNCHANGED authVars
  BY <1>2, ChallengesKept DEF authVars
<1>3. CASE SignInsKept /\ UNCHANGED <<challenges, drawn, minted>>
  BY <1>3, ChallengesKept
<1>4. CASE GatewayRestart
  BY <1>4 DEF GatewayRestart, ChallengeInv, ChallengeSingleUse, Verifying,
       AuthTyped, MintedType
<1> QED
  BY <1>1, <1>2, <1>3, <1>4, IssueChallengeInv, VerifyTakeInv,
       VerifyCreateSessionInv, OtherRequestsKeep, AuthorizingKeeps, QuietSteps
       DEF GatewayNext

\* A challenge is single-use: at most one session ever comes from it, however
\* many verifications of it race.
THEOREM ChallengesAreSingleUse == GatewaySpec => []ChallengeSingleUse
<1>1. AuthTyped /\ ChallengeInv /\ [GatewayNext]_vars => ChallengeInv'
  BY NextChallengeInv
<1>2. ChallengeInv => ChallengeSingleUse
  BY DEF ChallengeInv
<1> QED
  BY <1>1, <1>2, InitChallengeInv, GatewayChainInvariant, PTL DEF GatewaySpec

-----------------------------------------------------------------------------
(* The log and the streams.  A message is on its way from its insertion to  *)
(* its broadcast.  What a stream was sent precedes all that is on its way,  *)
(* and device_sequences bounds every sequence in the log, lapsed or not.    *)

SocketType ==
  [state: {"new", "open", "closing", "closed"}, token: Tokens \cup {None},
   ready: BOOLEAN, channels: SUBSET Channels, sent: Seq(Nat)]

LogRow == [event: Events, receivedAt: Nat, boot: Nat]

LogTyped ==
  /\ log \in Seq(LogRow)
  /\ deviceSequences \in [Identities -> [Devices -> Nat]]
  /\ outbox \in Seq(Nat)
  /\ boot \in Nat
  /\ sockets \in [Sockets -> SocketType]

StreamInv ==
  /\ \A p \in DOMAIN outbox : outbox[p] \in 1..Len(log)
  /\ \A p, q \in DOMAIN outbox : p < q => outbox[p] < outbox[q]
  /\ \A w \in Sockets : \A p \in DOMAIN sockets[w].sent :
       /\ sockets[w].sent[p] \in 1..Len(log)
       /\ \A q \in DOMAIN outbox : sockets[w].sent[p] < outbox[q]
  /\ StreamInOrder

SequenceInv ==
  /\ \A p \in DOMAIN log :
       log[p].event.sequence
         <= deviceSequences[log[p].event.author][log[p].event.device]
  /\ AcceptedOnceInOrder

LogInv == LogTyped /\ StreamInv /\ SequenceInv

\* A step that only opens, binds, empties or closes streams.
StreamsKept ==
  /\ sockets' \in [Sockets -> SocketType]
  /\ \A w \in Sockets : sockets'[w].sent = sockets[w].sent
                        \/ sockets'[w].sent = <<>>

\* The log is empty at the start.
LEMMA InitLogInv == GatewayInit => LogInv
<1> SUFFICES ASSUME GatewayInit PROVE LogInv
  BY SMT, Z3
<1>1. NewSocket \in SocketType /\ NewSocket.sent = <<>>
  BY SMT, Z3 DEF NewSocket, SocketType
<1>2. LogTyped
  BY SMT, Z3, <1>1 DEF GatewayInit, LogTyped
<1>3. StreamInv
  BY SMT, Z3, <1>1 DEF GatewayInit, StreamInv, StreamInOrder
<1>4. SequenceInv
  BY SMT, Z3 DEF GatewayInit, SequenceInv, AcceptedOnceInOrder
<1> QED
  BY <1>2, <1>3, <1>4 DEF LogInv

\* The end of a session closes its streams and sends no message.
LEMMA EndKeepsStreams ==
  ASSUME LogTyped, NEW t
  PROVE  /\ SocketsAfterEnd(t) \in [Sockets -> SocketType]
         /\ \A w \in Sockets : SocketsAfterEnd(t)[w].sent = sockets[w].sent
<1>1. \A w \in Sockets :
        /\ SocketsAfterEnd(t)[w] \in SocketType
        /\ SocketsAfterEnd(t)[w].sent = sockets[w].sent
  <2> SUFFICES ASSUME NEW w \in Sockets
               PROVE  /\ SocketsAfterEnd(t)[w] \in SocketType
                      /\ SocketsAfterEnd(t)[w].sent = sockets[w].sent
    BY SMT, Z3
  <2>1. sockets[w] \in SocketType
    BY DEF LogTyped
  <2>2. [sockets[w] EXCEPT !.token = None, !.state = "closing"] \in SocketType
        /\ [sockets[w] EXCEPT !.token = None, !.state = "closing"].sent
             = sockets[w].sent
    BY <2>1 DEF SocketType
  <2> QED
    BY <2>1, <2>2 DEF SocketsAfterEnd
<1> QED
  BY <1>1 DEF SocketsAfterEnd

\* The handlers of a stream but the broadcast, and the ends of sessions.
LEMMA StreamSteps ==
  ASSUME LogTyped,
         \/ \E w \in Sockets : OnSocketOpen(w) \/ OnSocketRefused(w)
                               \/ OnSocketClose(w)
         \/ \E w \in Sockets, t \in Tokens \cup {None}, s \in SUBSET Channels :
              OnSocketReady(w, t, s)
         \/ \E w \in Sockets, t \in Tokens : OnSocketRefusedSession(w, t)
         \/ \E t \in Tokens : Logout(t) \/ RefuseSession(t)
         \/ \E r \in Requests, t \in Tokens, d \in Devices : SweepOne(r, t, d)
  PROVE  StreamsKept /\ UNCHANGED logVars
<1>1. ASSUME NEW w \in Sockets, OnSocketOpen(w)
      PROVE  StreamsKept /\ UNCHANGED logVars
  <2>1. [NewSocket EXCEPT !.state = "open"] \in SocketType
        /\ [NewSocket EXCEPT !.state = "open"].sent = <<>>
    <3>1. NewSocket \in SocketType /\ NewSocket.sent = <<>>
      BY SMT, Z3 DEF NewSocket, SocketType
    <3>2. \A x \in SocketType : /\ [x EXCEPT !.state = "open"] \in SocketType
                                /\ [x EXCEPT !.state = "open"].sent = x.sent
      BY DEF SocketType
    <3> QED
      BY <3>1, <3>2
  <2> QED
    BY <1>1, <2>1 DEF OnSocketOpen, SetSocket, StreamsKept, LogTyped
<1>2. ASSUME NEW w \in Sockets, OnSocketRefused(w) \/ OnSocketClose(w)
      PROVE  StreamsKept /\ UNCHANGED logVars
  <2>1. sockets[w] \in SocketType
    BY DEF LogTyped
  <2>2. \A x \in {"closing", "closed"} :
          /\ [sockets[w] EXCEPT !.state = x] \in SocketType
          /\ [sockets[w] EXCEPT !.state = x].sent = sockets[w].sent
    BY <2>1 DEF SocketType
  <2> QED
    BY <1>2, <2>2 DEF OnSocketRefused, OnSocketClose, SetSocket, StreamsKept,
         LogTyped
<1>3. ASSUME NEW w \in Sockets, NEW t \in Tokens \cup {None},
             NEW s \in SUBSET Channels, OnSocketReady(w, t, s)
      PROVE  StreamsKept /\ UNCHANGED logVars
  <2> DEFINE x == [sockets[w] EXCEPT !.token = t, !.ready = TRUE, !.channels = s]
  <2>1. x \in SocketType /\ x.sent = sockets[w].sent
    BY DEF LogTyped, SocketType
  <2> HIDE DEF x
  <2>2. sockets' = [sockets EXCEPT ![w] = x] /\ UNCHANGED logVars
    BY <1>3 DEF OnSocketReady, SetSocket, x
  <2> QED
    BY <2>1, <2>2 DEF StreamsKept, LogTyped
<1>4. ASSUME NEW w \in Sockets, NEW t \in Tokens, OnSocketRefusedSession(w, t)
      PROVE  StreamsKept /\ UNCHANGED logVars
  <2>1. SocketsAfterEnd(t)[w] \in SocketType
    BY EndKeepsStreams
  <2>2. /\ [SocketsAfterEnd(t)[w] EXCEPT !.state = "closing"] \in SocketType
        /\ [SocketsAfterEnd(t)[w] EXCEPT !.state = "closing"].sent
             = SocketsAfterEnd(t)[w].sent
    BY <2>1 DEF SocketType
  <2>3. sockets' = [SocketsAfterEnd(t) EXCEPT
          ![w] = [SocketsAfterEnd(t)[w] EXCEPT !.state = "closing"]]
    BY <1>4 DEF OnSocketRefusedSession
  <2>4. UNCHANGED logVars
    BY <1>4 DEF OnSocketRefusedSession
  <2> QED
    BY <2>2, <2>3, <2>4, EndKeepsStreams DEF StreamsKept
<1>5. ASSUME NEW t \in Tokens, Logout(t) \/ RefuseSession(t)
      PROVE  StreamsKept /\ UNCHANGED logVars
  BY <1>5, EndKeepsStreams DEF Logout, RefuseSession, EndSession, StreamsKept
<1>6. ASSUME NEW r \in Requests, NEW t \in Tokens, NEW d \in Devices,
             SweepOne(r, t, d)
      PROVE  StreamsKept /\ UNCHANGED logVars
  BY SMT, Z3, <1>6, EndKeepsStreams DEF SweepOne, EndSession, StreamsKept,
       LogTyped
<1> QED
  BY <1>1, <1>2, <1>3, <1>4, <1>5, <1>6

\* Steps that insert and broadcast nothing keep the order.
LEMMA LogKept ==
  ASSUME LogInv, StreamsKept, UNCHANGED <<log, deviceSequences, outbox, boot>>
  PROVE  LogInv'
<1>1. LogTyped'
  BY DEF LogInv, LogTyped, StreamsKept
<1>2. StreamInv'
  <2>1. ASSUME NEW w \in Sockets
        PROVE  /\ \A p \in DOMAIN sockets'[w].sent :
                    /\ sockets'[w].sent[p] \in 1..Len(log)
                    /\ \A q \in DOMAIN outbox : sockets'[w].sent[p] < outbox[q]
               /\ \A p, q \in DOMAIN sockets'[w].sent :
                    p < q => sockets'[w].sent[p] < sockets'[w].sent[q]
    <3>1. CASE sockets'[w].sent = sockets[w].sent
      BY <3>1 DEF LogInv, StreamInv, StreamInOrder
    <3>2. CASE sockets'[w].sent = <<>>
      BY SMT, Z3, <3>2
    <3> QED
      BY <3>1, <3>2 DEF StreamsKept
  <2> QED
    BY <2>1 DEF LogInv, StreamInv, StreamInOrder
<1>3. SequenceInv'
  BY DEF LogInv, SequenceInv, AcceptedOnceInOrder
<1> QED
  BY <1>1, <1>2, <1>3 DEF LogInv

\* Every row of the log holds an event.
LEMMA EventsLogged ==
  ASSUME log \in Seq(LogRow)
  PROVE  \A p \in 1..Len(log) : log[p].event \in Events
<1>1. \A p \in 1..Len(log) : log[p] \in LogRow
  BY SMT, Z3
<1> QED
  BY <1>1 DEF LogRow

\* insertMessage: the position is new, and so is the device's sequence.
LEMMA InsertLogInv ==
  ASSUME LogInv, now \in Nat, NEW e \in Events, IsFresh(e), InsertMessage(e),
         UNCHANGED <<sockets, boot>>
  PROVE  LogInv'
<1> DEFINE i == e.author
           d == e.device
           row == [event |-> e, receivedAt |-> now, boot |-> boot]
           n == Len(log) + 1
<1>1. i \in Identities /\ d \in Devices /\ e.sequence \in Nat
  BY GatewayAssumption DEF EventType
<1>2. /\ log \in Seq(LogRow)
      /\ row \in LogRow
      /\ outbox \in Seq(Nat) /\ boot \in Nat
      /\ deviceSequences \in [Identities -> [Devices -> Nat]]
  BY DEF LogInv, LogTyped, LogRow
<1>3. log' = Append(log, row) /\ outbox' = Append(outbox, n)
      /\ deviceSequences' =
           [deviceSequences EXCEPT ![i][d] = e.sequence]
  BY DEF InsertMessage
<1> HIDE DEF row
<1>4. /\ Len(log) \in Nat /\ n \in Nat /\ Len(log') = n /\ DOMAIN log' = 1..n
      /\ \A p \in 1..Len(log) : log'[p] = log[p]
      /\ log'[n] = row /\ DOMAIN log = 1..Len(log)
  BY SMT, Z3, <1>2, <1>3
<1>5. /\ Len(outbox) \in Nat /\ DOMAIN outbox' = 1..(Len(outbox) + 1)
      /\ \A p \in 1..Len(outbox) : outbox'[p] = outbox[p]
      /\ outbox'[Len(outbox) + 1] = n /\ DOMAIN outbox = 1..Len(outbox)
  BY SMT, Z3, <1>2, <1>3, <1>4
<1>6. LogTyped'
  <2>1. deviceSequences' \in [Identities -> [Devices -> Nat]]
    BY <1>1, <1>2, <1>3
  <2> QED
    BY SMT, Z3, <1>2, <1>3, <1>4, <2>1 DEF LogTyped, LogInv
<1>7. StreamInv'
  <2>1. \A p \in DOMAIN outbox' : outbox'[p] \in 1..Len(log')
    BY SMT, Z3, <1>4, <1>5 DEF LogInv, StreamInv
  <2>2. \A p, q \in DOMAIN outbox' : p < q => outbox'[p] < outbox'[q]
    BY SMT, Z3, <1>4, <1>5 DEF LogInv, StreamInv
  <2>3. \A w \in Sockets : \A p \in DOMAIN sockets'[w].sent :
          /\ sockets'[w].sent[p] \in 1..Len(log')
          /\ \A q \in DOMAIN outbox' : sockets'[w].sent[p] < outbox'[q]
    <3> SUFFICES ASSUME NEW w \in Sockets, NEW p \in DOMAIN sockets[w].sent
                 PROVE  /\ sockets[w].sent[p] \in 1..n
                        /\ \A q \in DOMAIN outbox' :
                             sockets[w].sent[p] < outbox'[q]
      BY <1>4
    <3>1. /\ sockets[w].sent[p] \in 1..Len(log)
          /\ \A q \in DOMAIN outbox : sockets[w].sent[p] < outbox[q]
      BY DEF LogInv, StreamInv
    <3> QED
      BY SMT, Z3, <3>1, <1>4, <1>5
  <2>4. StreamInOrder'
    BY DEF LogInv, StreamInv, StreamInOrder
  <2> QED
    BY <2>1, <2>2, <2>3, <2>4 DEF StreamInv
<1>8. SequenceInv'
  <2>1. /\ deviceSequences'[i][d] = e.sequence
        /\ \A j \in Identities, f \in Devices :
             /\ deviceSequences'[j][f] \in Nat
             /\ deviceSequences[j][f] \in Nat
             /\ deviceSequences[j][f] <= deviceSequences'[j][f]
    BY SMT, Z3, <1>1, <1>2, <1>3 DEF IsFresh
  <2>2. \A p \in 1..Len(log) :
          /\ log[p].event \in Events
          /\ log[p].event.author \in Identities
          /\ log[p].event.device \in Devices
          /\ log[p].event.sequence \in Nat
    <3>1. \A p \in 1..Len(log) : log[p].event \in Events
      BY <1>2, EventsLogged
    <3>2. \A f \in Events : /\ f.author \in Identities /\ f.device \in Devices
                            /\ f.sequence \in Nat
      BY GatewayAssumption DEF EventType
    <3> QED
      BY <3>1, <3>2
  <2>3. row.event = e
    BY DEF row
  <2>4. \A p \in 1..Len(log) :
          log[p].event.author = i /\ log[p].event.device = d =>
            log[p].event.sequence < e.sequence
    <3>1. e.sequence > deviceSequences[i][d] /\ deviceSequences[i][d] \in Nat
      BY <1>1, <1>2 DEF IsFresh
    <3>2. \A p \in 1..Len(log) :
            log[p].event.sequence
              <= deviceSequences[log[p].event.author][log[p].event.device]
      BY <1>4 DEF LogInv, SequenceInv
    <3> QED
      BY SMT, Z3, <1>1, <2>2, <3>1, <3>2
  <2>5. \A p \in DOMAIN log' :
          log'[p].event.sequence
            <= deviceSequences'[log'[p].event.author][log'[p].event.device]
    <3> SUFFICES ASSUME NEW p \in 1..n
                 PROVE  log'[p].event.sequence
                   <= deviceSequences'[log'[p].event.author][log'[p].event.device]
      BY <1>4
    <3>1. CASE p = n
      BY SMT, Z3, <3>1, <1>1, <1>4, <2>1, <2>3
    <3>2. CASE p \in 1..Len(log)
      <4> DEFINE f == log[p].event
      <4>1. f.author \in Identities /\ f.device \in Devices /\ f.sequence \in Nat
        BY <3>2, <2>2
      <4>2. f.sequence <= deviceSequences[f.author][f.device]
        BY <3>2, <1>4 DEF LogInv, SequenceInv
      <4>3. f.sequence <= deviceSequences'[f.author][f.device]
        BY SMT, Z3, <4>1, <4>2, <2>1
      <4> QED
        BY <3>2, <1>4, <4>3
    <3> QED
      BY SMT, Z3, <3>1, <3>2, <1>4
  <2>6. AcceptedOnceInOrder'
    <3> SUFFICES ASSUME NEW p \in 1..n, NEW q \in 1..n, p < q,
                        log'[p].event.author = log'[q].event.author,
                        log'[p].event.device = log'[q].event.device
                 PROVE  log'[p].event.sequence < log'[q].event.sequence
      BY <1>4 DEF AcceptedOnceInOrder
    <3>1. CASE q = n
      BY SMT, Z3, <3>1, <1>4, <2>3, <2>4
    <3>2. CASE q \in 1..Len(log)
      BY SMT, Z3, <3>2, <1>4 DEF LogInv, SequenceInv, AcceptedOnceInOrder
    <3> QED
      BY SMT, Z3, <3>1, <3>2, <1>4
  <2> QED
    BY <2>5, <2>6 DEF SequenceInv
<1> QED
  BY <1>6, <1>7, <1>8 DEF LogInv

\* An increasing sequence stays so when a larger number is appended.
LEMMA AppendIncreasing ==
  ASSUME NEW s \in Seq(Nat), NEW h \in Nat, NEW u, u = Append(s, h),
         \A p \in DOMAIN s : s[p] < h,
         \A p, q \in DOMAIN s : p < q => s[p] < s[q]
  PROVE  /\ \A p \in DOMAIN u : (p \in DOMAIN s /\ u[p] = s[p]) \/ u[p] = h
         /\ \A p, q \in DOMAIN u : p < q => u[p] < u[q]
<1>1. /\ Len(s) \in Nat /\ DOMAIN s = 1..Len(s)
      /\ DOMAIN u = 1..(Len(s) + 1)
      /\ \A p \in 1..Len(s) : u[p] = s[p]
      /\ u[Len(s) + 1] = h
  BY SMT, Z3
<1>2. \A p \in 1..(Len(s) + 1) : p \in 1..Len(s) \/ p = Len(s) + 1
  BY SMT, Z3, <1>1
<1>3. ASSUME NEW p \in DOMAIN u, NEW q \in DOMAIN u, p < q
      PROVE  u[p] < u[q]
  <2>1. p \in 1..Len(s)
    BY SMT, Z3, <1>1, <1>3
  <2> QED
    BY <1>1, <1>2, <1>3, <2>1
<1> QED
  BY <1>1, <1>2, <1>3

\* A broadcast sends the oldest message on its way.
LEMMA BroadcastLogInv ==
  ASSUME LogInv, Broadcast
  PROVE  LogInv'
<1> DEFINE h == Head(outbox)
<1>1. /\ outbox \in Seq(Nat) /\ outbox # <<>> /\ outbox' = Tail(outbox)
      /\ UNCHANGED <<log, deviceSequences, boot>>
  BY DEF LogInv, LogTyped, Broadcast, storeVars
<1>2. /\ Len(outbox) \in Nat \ {0} /\ DOMAIN outbox = 1..Len(outbox)
      /\ h = outbox[1] /\ outbox' \in Seq(Nat)
      /\ DOMAIN outbox' = 1..(Len(outbox) - 1)
      /\ \A p \in DOMAIN outbox' : outbox'[p] = outbox[p + 1]
  BY SMT, Z3, <1>1
<1>3. h \in Nat /\ h \in 1..Len(log) /\ \A q \in DOMAIN outbox' : h < outbox'[q]
  BY SMT, Z3, <1>2 DEF LogInv, StreamInv
<1> HIDE DEF h
<1>4. \A w \in Sockets :
        /\ sockets'[w] \in SocketType
        /\ \/ sockets'[w].sent = sockets[w].sent
           \/ sockets'[w].sent = Append(sockets[w].sent, h)
  <2> SUFFICES ASSUME NEW w \in Sockets
               PROVE  /\ sockets'[w] \in SocketType
                      /\ \/ sockets'[w].sent = sockets[w].sent
                         \/ sockets'[w].sent = Append(sockets[w].sent, h)
    BY SMT, Z3
  <2>1. sockets[w] \in SocketType
    BY DEF LogInv, LogTyped
  <2>2. Append(sockets[w].sent, h) \in Seq(Nat)
    BY SMT, Z3, <1>3, <2>1 DEF SocketType
  <2>3. /\ [sockets[w] EXCEPT !.sent = Append(sockets[w].sent, h)] \in SocketType
        /\ [sockets[w] EXCEPT !.sent = Append(sockets[w].sent, h)].sent
             = Append(sockets[w].sent, h)
    BY <2>1, <2>2 DEF SocketType
  <2>4. \/ sockets'[w] = sockets[w]
        \/ sockets'[w] = [sockets[w] EXCEPT !.sent = Append(sockets[w].sent, h)]
    BY DEF Broadcast, h
  <2> QED
    BY <2>1, <2>3, <2>4
<1>5. LogTyped'
  <2>1. sockets' \in [Sockets -> SocketType]
    BY <1>4 DEF Broadcast
  <2> QED
    BY <1>1, <1>2, <2>1 DEF LogInv, LogTyped
<1>6. \A w \in Sockets : \A p \in DOMAIN sockets[w].sent : sockets[w].sent[p] < h
  BY SMT, Z3, <1>2 DEF LogInv, StreamInv, h
<1>7. \A w \in Sockets :
        /\ \A p \in DOMAIN sockets'[w].sent :
             /\ sockets'[w].sent[p] \in 1..Len(log)
             /\ \A q \in DOMAIN outbox' : sockets'[w].sent[p] < outbox'[q]
        /\ \A p, q \in DOMAIN sockets'[w].sent :
             p < q => sockets'[w].sent[p] < sockets'[w].sent[q]
  <2> SUFFICES ASSUME NEW w \in Sockets
               PROVE  /\ \A p \in DOMAIN sockets'[w].sent :
                           /\ sockets'[w].sent[p] \in 1..Len(log)
                           /\ \A q \in DOMAIN outbox' :
                                sockets'[w].sent[p] < outbox'[q]
                      /\ \A p, q \in DOMAIN sockets'[w].sent :
                           p < q => sockets'[w].sent[p] < sockets'[w].sent[q]
    BY SMT, Z3
  <2> DEFINE s == sockets[w].sent
  <2>1. s \in Seq(Nat)
    BY DEF LogInv, LogTyped, SocketType
  <2>2. /\ \A p \in DOMAIN s : s[p] \in 1..Len(log) /\ s[p] < h
        /\ \A p \in DOMAIN s : \A q \in DOMAIN outbox : s[p] < outbox[q]
        /\ \A p, q \in DOMAIN s : p < q => s[p] < s[q]
    BY <1>6 DEF LogInv, StreamInv, StreamInOrder
  <2> HIDE DEF s
  <2>3. CASE sockets'[w].sent = s
    BY SMT, Z3, <2>2, <2>3, <1>2
  <2>4. CASE sockets'[w].sent = Append(s, h)
    <3>1. PICK u : u = Append(s, h)
      OBVIOUS
    <3>5. /\ \A p \in DOMAIN s : s[p] < h
          /\ \A p, q \in DOMAIN s : p < q => s[p] < s[q]
          /\ h \in Nat
      BY <2>2, <1>3
    <3>2. /\ \A p \in DOMAIN u : (p \in DOMAIN s /\ u[p] = s[p]) \/ u[p] = h
          /\ \A p, q \in DOMAIN u : p < q => u[p] < u[q]
      BY SMT, Z3, <3>1, <2>1, <3>5, AppendIncreasing
    <3>3. ASSUME NEW p \in DOMAIN s, NEW q \in DOMAIN outbox'
          PROVE  s[p] < outbox'[q]
      <4>1. q + 1 \in DOMAIN outbox /\ outbox'[q] = outbox[q + 1]
        BY SMT, Z3, <1>2
      <4> QED
        BY <4>1, <2>2
    <3>4. sockets'[w].sent = u
      BY <3>1, <2>4
    <3> QED
      BY <3>2, <3>3, <3>4, <2>2, <1>3
  <2> QED
    BY <2>3, <2>4, <1>4 DEF s
<1>8. StreamInv'
  <2>1. /\ \A p \in DOMAIN outbox' : outbox'[p] \in 1..Len(log)
        /\ \A p, q \in DOMAIN outbox' : p < q => outbox'[p] < outbox'[q]
    <3>1. \A p \in DOMAIN outbox' : p \in Nat /\ p + 1 \in DOMAIN outbox
      BY SMT, Z3, <1>2
    <3>2. \A p, q \in DOMAIN outbox : p < q => outbox[p] < outbox[q]
      BY DEF LogInv, StreamInv
    <3>3. \A p \in DOMAIN outbox : outbox[p] \in 1..Len(log)
      BY DEF LogInv, StreamInv
    <3>4. ASSUME NEW p \in DOMAIN outbox', NEW q \in DOMAIN outbox', p < q
          PROVE  outbox'[p] < outbox'[q]
      BY SMT, Z3, <3>1, <3>2, <3>4, <1>2
    <3> QED
      BY <3>1, <3>3, <3>4, <1>2
  <2> QED
    BY <1>1, <1>7, <2>1 DEF StreamInv, StreamInOrder
<1>9. SequenceInv'
  BY <1>1 DEF LogInv, SequenceInv, AcceptedOnceInOrder
<1> QED
  BY <1>5, <1>8, <1>9 DEF LogInv

\* Posts: only one that is fresh and allowed is inserted.
LEMMA PostLogInv ==
  ASSUME LogInv, now \in Nat, NEW r \in Requests, NEW e \in Events, PostBody(r, e)
  PROVE  LogInv'
<1>1. UNCHANGED <<sockets, boot>>
  BY DEF PostBody
<1>2. \/ UNCHANGED <<log, deviceSequences, outbox>>
      \/ IsFresh(e) /\ InsertMessage(e)
  BY DEF PostBody, storeVars
<1>3. StreamsKept
  BY <1>1 DEF StreamsKept, LogInv, LogTyped
<1> QED
  BY <1>1, <1>2, <1>3, LogKept, InsertLogInv

\* A restart closes the streams and drops what was on its way.
LEMMA RestartLogInv ==
  ASSUME LogInv, GatewayRestart
  PROVE  LogInv'
<1>1. /\ outbox' = <<>> /\ boot' = boot + 1
      /\ UNCHANGED <<log, deviceSequences>>
  BY DEF GatewayRestart, storeVars
<1>2. \A w \in Sockets :
        sockets'[w] \in SocketType /\ sockets'[w].sent = sockets[w].sent
  <2>1. \A x \in SocketType, y \in {"new", "closed"} :
          /\ [x EXCEPT !.state = y] \in SocketType
          /\ [x EXCEPT !.state = y].sent = x.sent
    BY DEF SocketType
  <2>2. \A w \in Sockets :
          \/ sockets'[w] = [sockets[w] EXCEPT !.state = "new"]
          \/ sockets'[w] = [sockets[w] EXCEPT !.state = "closed"]
    <3> SUFFICES ASSUME NEW w \in Sockets
                 PROVE  \/ sockets'[w] = [sockets[w] EXCEPT !.state = "new"]
                        \/ sockets'[w] = [sockets[w] EXCEPT !.state = "closed"]
      BY SMT, Z3
    <3>1. sockets'[w] = [sockets[w] EXCEPT !.state =
            IF sockets[w].state = "new" THEN sockets[w].state ELSE "closed"]
      BY DEF GatewayRestart
    <3>2. CASE sockets[w].state = "new"
      BY <3>1, <3>2
    <3>3. CASE sockets[w].state # "new"
      BY <3>1, <3>3
    <3> QED
      BY <3>2, <3>3
  <2>3. \A w \in Sockets : sockets[w] \in SocketType
    BY DEF LogInv, LogTyped
  <2> QED
    BY <2>1, <2>2, <2>3
<1>3. LogTyped'
  <2>1. sockets' \in [Sockets -> SocketType]
    BY <1>2 DEF GatewayRestart
  <2> QED
    BY SMT, Z3, <1>1, <2>1 DEF LogInv, LogTyped
<1>4. StreamInv'
  BY SMT, Z3, <1>1, <1>2 DEF LogInv, StreamInv, StreamInOrder
<1>5. SequenceInv'
  BY <1>1 DEF LogInv, SequenceInv, AcceptedOnceInOrder
<1> QED
  BY <1>3, <1>4, <1>5 DEF LogInv

\* Steps that touch neither the streams nor what is inserted.
LEMMA LogUntouched ==
  ASSUME \/ \E i \in Identities : CreateIdentity(i)
         \/ \E i \in Identities, k \in SshKeys : RegisterSsh(i, k)
         \/ \E i \in Identities, p \in Passkeys : RegisterPasskey(i, p, 0)
         \/ \E ch \in ChallengeIds, m \in Methods, c \in Certificates :
              IssueChallenge(ch, m, c)
         \/ \E r \in Requests, ch \in ChallengeIds : VerifyTake(r, ch)
         \/ \E r \in Requests : VerifyWithWallet(r)
         \/ \E r \in Requests, k \in SshKeys : VerifyWithSsh(r, k)
         \/ \E r \in Requests, p \in Passkeys, n \in 0..MaxCounter :
              VerifyWithPasskey(r, p, n)
         \/ \E r \in Requests : VerifyAuthorized(r)
         \/ \E r \in Requests, t \in Tokens : VerifyCreateSession(r, t)
         \/ \E r \in Requests, i \in Identities, c \in Credentials,
               n \in 1..MaxSequence : Revoke(r, i, c, n)
         \/ \E r \in Requests : SweepList(r) \/ RevokeAnswer(r)
         \/ \E c \in Channels : ReadMessages(c)
         \/ \E r \in Requests, t \in Tokens : PostAuthenticate(r, t)
         \/ GatewayTick
         \/ UNCHANGED vars
  PROVE  /\ UNCHANGED <<log, deviceSequences, outbox, boot, sockets>>
         /\ UNCHANGED <<hits, texts>>
<1>1. CASE \/ \E i \in Identities : CreateIdentity(i)
           \/ \E i \in Identities, k \in SshKeys : RegisterSsh(i, k)
           \/ \E i \in Identities, p \in Passkeys : RegisterPasskey(i, p, 0)
           \/ GatewayTick
           \/ UNCHANGED vars
  BY <1>1 DEF CreateIdentity, RegisterSsh, RegisterPasskey, GatewayTick, vars,
       gatewayVars, logVars, storeVars
<1>2. CASE \/ \E ch \in ChallengeIds, m \in Methods, c \in Certificates :
                IssueChallenge(ch, m, c)
           \/ \E r \in Requests, ch \in ChallengeIds : VerifyTake(r, ch)
           \/ \E r \in Requests, t \in Tokens : VerifyCreateSession(r, t)
  BY <1>2 DEF IssueChallenge, VerifyTake, VerifyCreateSession, logVars,
       storeVars
<1>3. CASE \/ \E r \in Requests : VerifyWithWallet(r)
           \/ \E r \in Requests, k \in SshKeys : VerifyWithSsh(r, k)
           \/ \E r \in Requests, p \in Passkeys, n \in 0..MaxCounter :
                VerifyWithPasskey(r, p, n)
           \/ \E r \in Requests : VerifyAuthorized(r)
  BY <1>3 DEF VerifyWithWallet, VerifyWithSsh, VerifyWithPasskey,
       VerifyAuthorized, logVars, storeVars
<1>4. CASE \/ \E r \in Requests, i \in Identities, c \in Credentials,
                 n \in 1..MaxSequence : Revoke(r, i, c, n)
           \/ \E r \in Requests : SweepList(r) \/ RevokeAnswer(r)
           \/ \E c \in Channels : ReadMessages(c)
           \/ \E r \in Requests, t \in Tokens : PostAuthenticate(r, t)
  BY <1>4 DEF Revoke, SweepList, RevokeAnswer, ReadMessages, PostAuthenticate,
       logVars, storeVars
<1> QED
  BY <1>1, <1>2, <1>3, <1>4

\* One step keeps the order of the log and of the streams.
LEMMA NextLogInv ==
  ASSUME now \in Nat, LogInv, [GatewayNext]_vars
  PROVE  LogInv'
<1>1. CASE UNCHANGED <<log, deviceSequences, outbox, boot, sockets>>
  BY <1>1, LogKept DEF StreamsKept, LogInv, LogTyped
<1>2. CASE StreamsKept /\ UNCHANGED logVars
  BY <1>2, LogKept DEF logVars, storeVars
<1>3. LogTyped
  BY DEF LogInv
<1> QED
  BY <1>1, <1>2, <1>3, PostLogInv, RestartLogInv, LogUntouched, StreamSteps,
       BroadcastLogInv DEF GatewayNext

\* The order of the log and of the streams.
LEMMA LogInvariant == GatewaySpec => []LogInv
<1>1. ChainInv /\ LogInv /\ [GatewayNext]_vars => LogInv'
  BY NextLogInv DEF ChainInv, TypeOK
<1> QED
  BY <1>1, InitLogInv, GatewayChainInvariant, PTL DEF GatewaySpec

\* A stream is sent each message at most once and in seq order, over posts
\* that await their body, streams that come and go, and restarts.
THEOREM StreamsAreInOrder == GatewaySpec => []StreamInOrder
<1>1. LogInv => StreamInOrder
  BY DEF LogInv, StreamInv
<1> QED
  BY <1>1, LogInvariant, PTL

\* No event is accepted twice, or after a later one of its device, over
\* sessions, lapsed channels and restarts (device_sequences).
THEOREM PostsAreInOrder == GatewaySpec => []AcceptedOnceInOrder
<1>1. LogInv => AcceptedOnceInOrder
  BY DEF LogInv, SequenceInv
<1> QED
  BY <1>1, LogInvariant, PTL

\* The clock never goes back.
LEMMA TimePasses ==
  ASSUME ChainInv, AuthTyped, [GatewayNext]_vars
  PROVE  now \in Nat /\ now' \in Nat /\ now <= now'
<1>1. now \in Nat /\ [Next]_chainVars
  BY GatewayChainStep DEF ChainInv, TypeOK, vars
<1>2. now' = now \/ now' = now + 1
  BY <1>1 DEF Next, chainVars, RegisterIdentity, RegisterDeviceCertificate,
       RegisterPasskeyCredential, RegisterSshKey, RevokeCredential,
       BeginPasskeyDeviceCertificateAuthorization, StartPasskeyAuthorization,
       FinishPasskeyAuthorization, StartSshAuthorization,
       FinishSshAuthorization, Restart, Tick
<1> QED
  BY SMT, Z3, <1>1, <1>2

-----------------------------------------------------------------------------
(* Rates: the log against the limits.                                       *)

PostsOf(rows, b, c, i) ==
  {q \in DOMAIN rows : /\ rows[q].boot = b
                       /\ rows[q].event.channel = c
                       /\ rows[q].event.author = i}
TextsOf(rows, b, c, i, body) ==
  {q \in PostsOf(rows, b, c, i) : rows[q].event.body = body}

\* What the limiters know of an identity in a channel, in this life of the
\* process.
KeyTallied(rows, b, c, i, spent, said, at) ==
  /\ Tally(rows, PostsOf(rows, b, c, i), spent, at)
  /\ \A body \in STRING :
       Tally(rows, TextsOf(rows, b, c, i, body), SameTexts(said, body), at)

\* The limits hold in every life.
KeyBounded(rows, c, i) ==
  \A b \in Nat :
    /\ Bounded(rows, PostsOf(rows, b, c, i), RateLimit[c])
    /\ \A body \in STRING :
         Bounded(rows, TextsOf(rows, b, c, i, body), DuplicateThreshold - 1)

Keyed(map) == map = [c \in Channels |-> [i \in Identities |-> map[c][i]]]

\* The inductive invariant.
RateInv ==
  /\ Keyed(hits) /\ Keyed(texts)
  /\ \A q \in DOMAIN log : log[q].boot <= boot
  /\ \A c \in Channels, i \in Identities :
       /\ KeyTallied(log, boot, c, i, hits[c][i], texts[c][i], now)
       /\ KeyBounded(log, c, i)

\* An entry of one key is replaced.
Replaced(new, map, c, i, v) ==
  /\ Keyed(new) /\ new[c][i] = v
  /\ \A d \in Channels, j \in Identities :
       <<d, j>> # <<c, i>> => new[d][j] = map[d][j]

\* SlidingWindow.allow and DuplicateGuard.allow write the entry of one key.
LEMMA KeyedUpdate ==
  ASSUME NEW map, Keyed(map), NEW c \in Channels, NEW i \in Identities, NEW v,
         NEW new, new = [map EXCEPT ![c][i] = v]
  PROVE  Replaced(new, map, c, i, v)
<1>1. /\ DOMAIN map = Channels /\ \A d \in Channels : DOMAIN map[d] = Identities
      /\ map = [d \in Channels |-> map[d]]
      /\ \A d \in Channels : map[d] = [j \in Identities |-> map[d][j]]
  BY DEF Keyed
<1>2. PICK row : row = [map[c] EXCEPT ![i] = v] /\ new = [map EXCEPT ![c] = row]
  OBVIOUS
<1>3. /\ row[i] = v /\ \A j \in Identities : j # i => row[j] = map[c][j]
      /\ row = [j \in Identities |-> row[j]]
  BY <1>1, <1>2
<1>4. /\ new[c] = row /\ \A d \in Channels : d # c => new[d] = map[d]
      /\ new = [d \in Channels |-> new[d]]
  BY <1>1, <1>2
<1>5. \A d \in Channels : new[d] = [j \in Identities |-> new[d][j]]
  <2>1. new[c] = [j \in Identities |-> new[c][j]]
    BY <1>3, <1>4
  <2>2. ASSUME NEW d \in Channels, d # c
        PROVE  new[d] = [j \in Identities |-> new[d][j]]
    <3>1. new[d] = map[d]
      BY <1>4, <2>2
    <3>. QED
      BY <1>1, <3>1
  <2>. QED
    BY <2>1, <2>2
<1>6. Keyed(new)
  BY <1>4, <1>5 DEF Keyed
<1>7. ASSUME NEW d \in Channels, NEW j \in Identities, <<d, j>> # <<c, i>>
      PROVE  new[d][j] = map[d][j]
  BY <1>3, <1>4, <1>7
<1>. QED
  BY <1>3, <1>4, <1>6, <1>7 DEF Replaced

\* A message that is appended counts for its own key and text only.
OwnKey(row, b, c, i) ==
  row.boot = b /\ row.event.channel = c /\ row.event.author = i
PostsJoined(more, text, n, b, c, i) ==
  /\ PostsOf(more, b, c, i) = PostsOf(log, b, c, i) \cup {n}
  /\ TextsOf(more, b, c, i, text) = TextsOf(log, b, c, i, text) \cup {n}
  /\ \A body : body # text =>
       TextsOf(more, b, c, i, body) = TextsOf(log, b, c, i, body)
PostsKept(more, b, c, i) ==
  /\ PostsOf(more, b, c, i) = PostsOf(log, b, c, i)
  /\ \A body : TextsOf(more, b, c, i, body) = TextsOf(log, b, c, i, body)
AppendedAt(more, row, n) ==
  /\ n \notin DOMAIN log
  /\ more[n] = row /\ \A q \in DOMAIN log : more[q] = log[q]
  /\ \A b, c, i : OwnKey(row, b, c, i) =>
       PostsJoined(more, row.event.body, n, b, c, i)
  /\ \A b, c, i : ~OwnKey(row, b, c, i) => PostsKept(more, b, c, i)

\* The row appendEvent adds joins the posts of its own key and no others.
LEMMA AppendedPosts ==
  ASSUME log \in Seq(LogRow), NEW row \in LogRow,
         NEW more, more = Append(log, row), NEW n, n = Len(log) + 1
  PROVE  AppendedAt(more, row, n)
<1>1. /\ DOMAIN more = DOMAIN log \cup {n} /\ n \notin DOMAIN log
      /\ more[n] = row /\ \A q \in DOMAIN log : more[q] = log[q]
  BY SMT, Z3
<1>2. \A b, c, i : PostsOf(log, b, c, i) \subseteq DOMAIN log
  BY DEF PostsOf
<1>3. ASSUME NEW b, NEW c, NEW i, OwnKey(row, b, c, i)
      PROVE  PostsJoined(more, row.event.body, n, b, c, i)
  <2>1. PostsOf(more, b, c, i) = PostsOf(log, b, c, i) \cup {n}
    BY <1>1, <1>3 DEF PostsOf, OwnKey
  <2>2. ASSUME NEW body, row.event.body = body
        PROVE  TextsOf(more, b, c, i, body) = TextsOf(log, b, c, i, body) \cup {n}
    BY <1>1, <1>2, <2>1, <2>2 DEF TextsOf
  <2>3. ASSUME NEW body, body # row.event.body
        PROVE  TextsOf(more, b, c, i, body) = TextsOf(log, b, c, i, body)
    BY <1>1, <1>2, <2>1, <2>3 DEF TextsOf
  <2>. QED
    BY <2>1, <2>2, <2>3 DEF PostsJoined
<1>4. ASSUME NEW b, NEW c, NEW i, ~OwnKey(row, b, c, i)
      PROVE  PostsKept(more, b, c, i)
  <2>1. PostsOf(more, b, c, i) = PostsOf(log, b, c, i)
    BY <1>1, <1>4 DEF PostsOf, OwnKey
  <2>2. ASSUME NEW body
        PROVE  TextsOf(more, b, c, i, body) = TextsOf(log, b, c, i, body)
    BY <1>1, <1>2, <2>1 DEF TextsOf
  <2>. QED
    BY <2>1, <2>2 DEF PostsKept
<1>. QED
  BY <1>1, <1>3, <1>4 DEF AppendedAt

\* A post that is not inserted: its key may have spent a hit.
LEMMA RefusedKey ==
  ASSUME NEW c, NEW i, NEW spent, NEW said, NEW at \in Int, NEW limit, NEW body,
         KeyTallied(log, boot, c, i, spent, said, at)
  PROVE  /\ KeyTallied(log, boot, c, i, SlidingWindowAfter(spent, limit, at), said, at)
         /\ KeyTallied(log, boot, c, i, SlidingWindowAfter(spent, limit, at),
                       DuplicateGuardAfter(said, body, at), at)
<1>1. Tally(log, PostsOf(log, boot, c, i), SlidingWindowAfter(spent, limit, at), at)
  BY SlidingWindowTally DEF KeyTallied
<1>2. ASSUME NEW b \in STRING
      PROVE  Tally(log, TextsOf(log, boot, c, i, b),
                   SameTexts(DuplicateGuardAfter(said, body, at), b), at)
  BY DuplicateGuardTally DEF KeyTallied
<1>. QED
  BY <1>1, <1>2 DEF KeyTallied

\* The rows of a key and what is known of them are as before the insert.
LEMMA OldRowsKept ==
  ASSUME NEW more, \A q \in DOMAIN log : more[q] = log[q], NEW c, NEW i
  PROVE  /\ KeyBounded(log, c, i) =>
              \A life \in Nat :
                /\ Bounded(more, PostsOf(log, life, c, i), RateLimit[c])
                /\ \A b \in STRING : Bounded(more, TextsOf(log, life, c, i, b),
                                             DuplicateThreshold - 1)
         /\ \A spent, said, at :
              KeyTallied(log, boot, c, i, spent, said, at) =>
                /\ Tally(more, PostsOf(log, boot, c, i), spent, at)
                /\ \A b \in STRING : Tally(more, TextsOf(log, boot, c, i, b),
                                           SameTexts(said, b), at)
<1>1. /\ \A life : PostsOf(log, life, c, i) \subseteq DOMAIN log
      /\ \A life, b : TextsOf(log, life, c, i, b) \subseteq DOMAIN log
  BY DEF PostsOf, TextsOf
<1>2. \A P : P \subseteq DOMAIN log =>
        /\ \A history, at : Tally(log, P, history, at) => Tally(more, P, history, at)
        /\ \A limit : Bounded(log, P, limit) => Bounded(more, P, limit)
  <2>1. ASSUME NEW P, P \subseteq DOMAIN log PROVE \A q \in P : more[q] = log[q]
    BY <2>1
  <2>. QED
    BY <2>1, SameRows
<1>. QED
  BY <1>1, <1>2 DEF KeyBounded, KeyTallied

\* A message of a key is inserted at n.
Inserted(more, n, c, i, body, at) ==
  /\ n \notin DOMAIN log /\ more[n].receivedAt = at
  /\ \A q \in DOMAIN log : more[q] = log[q]
  /\ PostsJoined(more, body, n, boot, c, i)
  /\ \A life : life # boot => PostsKept(more, life, c, i)

\* The same for the key of a row of this life of the process: the row joins the
\* posts of this life, and the posts of earlier lives stay as they were.
LEMMA AppendInserts ==
  ASSUME NEW row, NEW more, NEW n, AppendedAt(more, row, n), row.boot = boot
  PROVE  Inserted(more, n, row.event.channel, row.event.author,
                  row.event.body, row.receivedAt)
<1>. DEFINE c == row.event.channel
            i == row.event.author
<1>1. OwnKey(row, boot, c, i) /\ \A life : life # boot => ~OwnKey(row, life, c, i)
  BY DEF OwnKey
<1>. HIDE DEF c, i
<1>2. PostsJoined(more, row.event.body, n, boot, c, i)
  BY <1>1 DEF AppendedAt
<1>3. \A life : life # boot => PostsKept(more, life, c, i)
  BY <1>1 DEF AppendedAt
<1>4. /\ n \notin DOMAIN log /\ more[n].receivedAt = row.receivedAt
      /\ \A q \in DOMAIN log : more[q] = log[q]
  BY DEF AppendedAt
<1>5. Inserted(more, n, c, i, row.event.body, row.receivedAt)
  BY <1>2, <1>3, <1>4 DEF Inserted
<1>. QED
  BY <1>5 DEF c, i

OthersKept(more, row) ==
  /\ \A q \in DOMAIN log : more[q] = log[q]
  /\ \A c, i : row.event.channel # c \/ row.event.author # i =>
       /\ \A life : PostsOf(more, life, c, i) = PostsOf(log, life, c, i)
       /\ \A life, b : TextsOf(more, life, c, i, b) = TextsOf(log, life, c, i, b)

\* For every other key the posts of every life stay as they were.
LEMMA AppendOthers ==
  ASSUME NEW row, NEW more, NEW n, AppendedAt(more, row, n)
  PROVE  OthersKept(more, row)
<1>1. \A q \in DOMAIN log : more[q] = log[q]
  BY DEF AppendedAt
<1>2. ASSUME NEW c, NEW i, row.event.channel # c \/ row.event.author # i, NEW life
      PROVE  PostsKept(more, life, c, i)
  <2>1. ~OwnKey(row, life, c, i)
    BY <1>2 DEF OwnKey
  <2>. QED
    BY <2>1 DEF AppendedAt
<1>. QED
  BY <1>1, <1>2 DEF OthersKept, PostsKept

\* A post that is inserted: its own key and text have one row and one hit more.
LEMMA InsertedKey ==
  ASSUME NEW more, NEW n, NEW at \in Int, NEW c \in Channels, NEW i, NEW body \in STRING,
         Inserted(more, n, c, i, body, at),
         NEW spent, NEW said, KeyTallied(log, boot, c, i, spent, said, at),
         KeyBounded(log, c, i),
         SlidingWindowAllows(spent, RateLimit[c], at),
         DuplicateGuardAllows(said, body, at)
  PROVE  /\ KeyTallied(more, boot, c, i,
                       SlidingWindowAfter(spent, RateLimit[c], at),
                       DuplicateGuardAfter(said, body, at), at)
         /\ KeyBounded(more, c, i)
<1>. DEFINE P == PostsOf(log, boot, c, i)
            T(b) == TextsOf(log, boot, c, i, b)
<1>1. P \subseteq DOMAIN log /\ \A b : T(b) \subseteq DOMAIN log
  BY DEF PostsOf, TextsOf
<1>2. \A life \in Nat :
        /\ Bounded(more, PostsOf(log, life, c, i), RateLimit[c])
        /\ \A b \in STRING : Bounded(more, TextsOf(log, life, c, i, b),
                                     DuplicateThreshold - 1)
  BY OldRowsKept DEF Inserted
<1>3. /\ Tally(more, P, spent, at)
      /\ \A b \in STRING : Tally(more, T(b), SameTexts(said, b), at)
  BY OldRowsKept DEF Inserted
<1>4. boot \in Nat =>
        /\ Bounded(more, P, RateLimit[c])
        /\ \A b \in STRING : Bounded(more, T(b), DuplicateThreshold - 1)
  BY <1>2
<1>5. /\ PostsOf(more, boot, c, i) = P \cup {n}
      /\ TextsOf(more, boot, c, i, body) = T(body) \cup {n}
      /\ \A b : b # body => TextsOf(more, boot, c, i, b) = T(b)
  BY DEF Inserted, PostsJoined
<1>. HIDE DEF P, T
<1>6. /\ n \notin P /\ \A b : n \notin T(b)
      /\ more[n].receivedAt = at /\ RateLimit[c] \in Nat
  BY <1>1, GatewayAssumption DEF Inserted
<1>7. /\ Tally(more, P \cup {n}, SlidingWindowAfter(spent, RateLimit[c], at), at)
      /\ Bounded(more, P, RateLimit[c]) => Bounded(more, P \cup {n}, RateLimit[c])
  BY <1>3, <1>6, SlidingWindowTally
<1>8. /\ Tally(more, T(body) \cup {n},
               SameTexts(DuplicateGuardAfter(said, body, at), body), at)
      /\ Bounded(more, T(body), DuplicateThreshold - 1)
           => Bounded(more, T(body) \cup {n}, DuplicateThreshold - 1)
  <2>1. Tally(more, T(body), SameTexts(said, body), at)
    BY <1>3
  <2>. QED
    BY <1>6, <2>1, DuplicateGuardTally
<1>9. ASSUME NEW b \in STRING, b # body
      PROVE  Tally(more, T(b), SameTexts(DuplicateGuardAfter(said, body, at), b), at)
  BY <1>3, DuplicateGuardTally
<1>10. ASSUME NEW b \in STRING
       PROVE  /\ Tally(more, TextsOf(more, boot, c, i, b),
                       SameTexts(DuplicateGuardAfter(said, body, at), b), at)
              /\ boot \in Nat => Bounded(more, TextsOf(more, boot, c, i, b),
                                         DuplicateThreshold - 1)
  <2>1. CASE b = body
    BY <1>4, <1>5, <1>8, <2>1
  <2>2. CASE b # body
    BY <1>4, <1>5, <1>9, <2>2
  <2>. QED
    BY <2>1, <2>2
<1>11. ASSUME NEW life \in Nat
       PROVE  /\ Bounded(more, PostsOf(more, life, c, i), RateLimit[c])
              /\ \A b \in STRING : Bounded(more, TextsOf(more, life, c, i, b),
                                           DuplicateThreshold - 1)
  <2>1. CASE life = boot
    <3>1. Bounded(more, PostsOf(more, boot, c, i), RateLimit[c])
      BY <1>4, <1>5, <1>7, <2>1
    <3>. QED
      BY <1>10, <2>1, <3>1
  <2>2. CASE life # boot
    <3>1. /\ PostsOf(more, life, c, i) = PostsOf(log, life, c, i)
          /\ \A b : TextsOf(more, life, c, i, b) = TextsOf(log, life, c, i, b)
      BY <2>2 DEF Inserted, PostsKept
    <3>2. /\ Bounded(more, PostsOf(log, life, c, i), RateLimit[c])
          /\ \A b \in STRING : Bounded(more, TextsOf(log, life, c, i, b),
                                       DuplicateThreshold - 1)
      BY <1>2
    <3>. QED
      BY <3>1, <3>2
  <2>. QED
    BY <2>1, <2>2
<1>12. KeyTallied(more, boot, c, i, SlidingWindowAfter(spent, RateLimit[c], at),
                  DuplicateGuardAfter(said, body, at), at)
  BY <1>5, <1>7, <1>10 DEF KeyTallied
<1>. QED
  BY <1>11, <1>12 DEF KeyBounded

\* A post of another key changes nothing.
LEMMA OtherKey ==
  ASSUME NEW more, NEW c, NEW i, \A q \in DOMAIN log : more[q] = log[q],
         \A life : PostsOf(more, life, c, i) = PostsOf(log, life, c, i),
         \A life, b : TextsOf(more, life, c, i, b) = TextsOf(log, life, c, i, b),
         NEW spent, NEW said, NEW at, KeyTallied(log, boot, c, i, spent, said, at),
         KeyBounded(log, c, i)
  PROVE  KeyTallied(more, boot, c, i, spent, said, at) /\ KeyBounded(more, c, i)
<1>1. \A life \in Nat :
        /\ Bounded(more, PostsOf(log, life, c, i), RateLimit[c])
        /\ \A b \in STRING : Bounded(more, TextsOf(log, life, c, i, b),
                                     DuplicateThreshold - 1)
  BY OldRowsKept
<1>2. /\ Tally(more, PostsOf(log, boot, c, i), spent, at)
      /\ \A b \in STRING : Tally(more, TextsOf(log, boot, c, i, b),
                                 SameTexts(said, b), at)
  BY OldRowsKept
<1>3. KeyBounded(more, c, i)
  BY <1>1 DEF KeyBounded
<1>. QED
  BY <1>2, <1>3 DEF KeyTallied

\* Only a post and a restart touch the log or the limiters.
LEMMA HistoriesKept ==
  ASSUME LogTyped, [GatewayNext]_vars
  PROVE  \/ UNCHANGED <<log, hits, texts, boot>>
         \/ \E r \in Requests, e \in Events : PostBody(r, e)
         \/ GatewayRestart
<1>1. CASE Broadcast
  BY <1>1 DEF Broadcast, storeVars
<1>2. CASE UNCHANGED logVars
  BY <1>2 DEF logVars, storeVars
<1>3. CASE /\ UNCHANGED <<log, deviceSequences, outbox, boot, sockets>>
           /\ UNCHANGED <<hits, texts>>
  BY <1>3
<1>. QED
  BY <1>1, <1>2, <1>3, LogUntouched, StreamSteps DEF GatewayNext

\* The limiters know no less of a key as time passes.
LEMMA KeyLater ==
  ASSUME NEW c, NEW i, NEW spent, NEW said, NEW at \in Int, NEW later \in Int,
         at <= later, KeyTallied(log, boot, c, i, spent, said, at)
  PROVE  KeyTallied(log, boot, c, i, spent, said, later)
<1>1. Tally(log, PostsOf(log, boot, c, i), spent, later)
  <2>1. Tally(log, PostsOf(log, boot, c, i), spent, at)
    BY DEF KeyTallied
  <2>. QED
    BY <2>1, TallyLater
<1>2. ASSUME NEW b \in STRING
      PROVE  Tally(log, TextsOf(log, boot, c, i, b), SameTexts(said, b), later)
  <2>1. Tally(log, TextsOf(log, boot, c, i, b), SameTexts(said, b), at)
    BY DEF KeyTallied
  <2>. QED
    BY <2>1, TallyLater
<1>. QED
  BY <1>1, <1>2 DEF KeyTallied

\* Steps that touch neither the log nor the limiters.
LEMMA RatesKept ==
  ASSUME RateInv, now \in Nat, now' \in Nat, now <= now',
         UNCHANGED <<log, hits, texts, boot>>
  PROVE  RateInv'
<1>1. now \in Int /\ now' \in Int
  BY SMT, Z3
<1>2. ASSUME NEW c \in Channels, NEW i \in Identities
      PROVE  /\ KeyTallied(log, boot, c, i, hits[c][i], texts[c][i], now')
             /\ KeyBounded(log, c, i)
  <2>1. KeyTallied(log, boot, c, i, hits[c][i], texts[c][i], now)
    BY DEF RateInv
  <2>2. KeyBounded(log, c, i)
    BY DEF RateInv
  <2>. QED
    BY <1>1, <2>1, <2>2, KeyLater
<1>3. /\ Keyed(hits) /\ Keyed(texts)
      /\ \A q \in DOMAIN log : log[q].boot <= boot
  BY DEF RateInv
<1>. QED
  BY <1>2, <1>3 DEF RateInv, Keyed

\* Nothing is limited at the start.
LEMMA InitRateInv == GatewayInit => RateInv
<1>. SUFFICES ASSUME GatewayInit PROVE RateInv
  BY SMT, Z3
<1>1. /\ log = <<>> /\ DOMAIN log = {}
  BY SMT, Z3 DEF GatewayInit
<1>2. /\ hits = [c \in Channels |-> [i \in Identities |-> {}]]
      /\ texts = [c \in Channels |-> [i \in Identities |-> {}]]
  BY DEF GatewayInit
<1>3. \A b, c, i : /\ PostsOf(log, b, c, i) = {}
                   /\ \A body : TextsOf(log, b, c, i, body) = {}
  BY <1>1 DEF PostsOf, TextsOf
<1>4. DuplicateThreshold - 1 \in Nat
  BY SMT, Z3, RateAssumption
<1>5. ASSUME NEW c \in Channels, NEW i \in Identities
      PROVE  /\ KeyTallied(log, boot, c, i, hits[c][i], texts[c][i], now)
             /\ KeyBounded(log, c, i)
  <2>1. hits[c][i] = {} /\ texts[c][i] = {} /\ RateLimit[c] \in Nat
    BY <1>2, GatewayAssumption
  <2>2. \A b : SameTexts({}, b) = {}
    BY DEF SameTexts
  <2>3. Tally(log, {}, {}, now)
    BY TallyEmpty
  <2>4. Bounded(log, {}, RateLimit[c]) /\ Bounded(log, {}, DuplicateThreshold - 1)
    BY <1>4, <2>1, BoundedEmpty
  <2>5. KeyBounded(log, c, i)
    BY <1>3, <2>4 DEF KeyBounded
  <2>. QED
    BY <1>3, <2>1, <2>2, <2>3, <2>5 DEF KeyTallied
<1>6. Keyed(hits) /\ Keyed(texts)
  BY <1>2 DEF Keyed
<1>. QED
  BY <1>1, <1>5, <1>6 DEF RateInv

\* A restart forgets every history; its life has no rows yet.
LEMMA RestartRateInv ==
  ASSUME LogTyped, RateInv, GatewayRestart
  PROVE  RateInv'
<1>1. /\ log' = log /\ boot' = boot + 1
      /\ hits' = [c \in Channels |-> [i \in Identities |-> {}]]
      /\ texts' = [c \in Channels |-> [i \in Identities |-> {}]]
  BY DEF GatewayRestart, storeVars
<1>2. \A q \in DOMAIN log : log[q].boot <= boot' /\ log[q].boot # boot'
  <2>1. ASSUME NEW q \in DOMAIN log PROVE log[q] \in LogRow
    BY SMT, Z3 DEF LogTyped
  <2>2. ASSUME NEW q \in DOMAIN log PROVE log[q].boot \in Nat /\ log[q].boot <= boot
    BY <2>1 DEF LogRow, RateInv
  <2>3. boot \in Nat
    BY DEF LogTyped
  <2>. QED
    BY SMT, Z3, <1>1, <2>2, <2>3
<1>3. \A c, i : /\ PostsOf(log, boot', c, i) = {}
                /\ \A body : TextsOf(log, boot', c, i, body) = {}
  BY <1>2 DEF PostsOf, TextsOf
<1>4. ASSUME NEW c \in Channels, NEW i \in Identities
      PROVE  /\ KeyTallied(log, boot', c, i, hits'[c][i], texts'[c][i], now')
             /\ KeyBounded(log, c, i)
  <2>1. hits'[c][i] = {} /\ texts'[c][i] = {}
    BY <1>1
  <2>2. \A b : SameTexts({}, b) = {}
    BY DEF SameTexts
  <2>3. Tally(log, {}, {}, now')
    BY TallyEmpty
  <2>4. KeyBounded(log, c, i)
    BY DEF RateInv
  <2>. QED
    BY <1>3, <2>1, <2>2, <2>3, <2>4 DEF KeyTallied
<1>5. Keyed(hits') /\ Keyed(texts')
  BY <1>1 DEF Keyed
<1>. QED
  BY <1>1, <1>2, <1>4, <1>5 DEF RateInv, Keyed

\* post spends a hit, remembers the text, and inserts what both let through.
LEMMA PostRateInv ==
  ASSUME LogTyped, RateInv, now \in Nat, NEW r \in Requests, NEW e \in Events,
         PostBody(r, e), now' = now
  PROVE  RateInv'
<1>. DEFINE c == e.channel
            i == e.author
            spent == hits[c][i]
            said == texts[c][i]
            after == SlidingWindowAfter(spent, RateLimit[c], now)
            heard == DuplicateGuardAfter(said, e.body, now)
            row == [event |-> e, receivedAt |-> now, boot |-> boot]
<1>1. c \in Channels /\ i \in Identities /\ e.body \in STRING /\ now \in Int
  BY SMT, Z3, GatewayAssumption DEF EventType
<1>2. /\ boot' = boot
      /\ \/ UNCHANGED <<log, hits, texts>>
         \/ /\ hits' = [hits EXCEPT ![c][i] = after]
            /\ \/ UNCHANGED <<log, texts>>
               \/ /\ texts' = [texts EXCEPT ![c][i] = heard]
                  /\ UNCHANGED log
               \/ /\ texts' = [texts EXCEPT ![c][i] = heard]
                  /\ SlidingWindowAllows(spent, RateLimit[c], now)
                  /\ DuplicateGuardAllows(said, e.body, now)
                  /\ log' = Append(log, row)
  BY DEF PostBody, InsertMessage, storeVars
<1>3. row \in LogRow /\ row.boot = boot /\ row.event = e /\ row.receivedAt = now
  BY DEF LogRow, LogTyped
<1>4. Keyed(hits) /\ Keyed(texts)
  BY DEF RateInv
<1>5. KeyTallied(log, boot, c, i, spent, said, now)
  BY <1>1 DEF RateInv
<1>6. \A d \in Channels, j \in Identities :
        /\ KeyTallied(log, boot, d, j, hits[d][j], texts[d][j], now)
        /\ KeyBounded(log, d, j)
  BY DEF RateInv
<1>7. \A q \in DOMAIN log : log[q].boot <= boot
  BY DEF RateInv
<1>. HIDE DEF c, i, spent, said, after, heard, row
<1>8. /\ KeyTallied(log, boot, c, i, after, said, now)
      /\ KeyTallied(log, boot, c, i, after, heard, now)
  BY <1>1, <1>5, RefusedKey DEF after, heard
<1>9. CASE UNCHANGED <<log, hits, texts>>
  <2>1. now' \in Nat /\ now <= now'
    BY SMT, Z3
  <2>. QED
    BY <1>2, <1>9, <2>1, RatesKept
<1>10. ASSUME hits' = [hits EXCEPT ![c][i] = after]
       PROVE  /\ Keyed(hits') /\ hits'[c][i] = after
              /\ \A d \in Channels, j \in Identities :
                   <<d, j>> # <<c, i>> => hits'[d][j] = hits[d][j]
  <2>1. Replaced(hits', hits, c, i, after)
    BY <1>1, <1>4, <1>10, KeyedUpdate
  <2>. QED
    BY <2>1 DEF Replaced
<1>11. ASSUME texts' = [texts EXCEPT ![c][i] = heard]
       PROVE  /\ Keyed(texts') /\ texts'[c][i] = heard
              /\ \A d \in Channels, j \in Identities :
                   <<d, j>> # <<c, i>> => texts'[d][j] = texts[d][j]
  <2>1. Replaced(texts', texts, c, i, heard)
    BY <1>1, <1>4, <1>11, KeyedUpdate
  <2>. QED
    BY <2>1 DEF Replaced
<1>12. CASE hits' = [hits EXCEPT ![c][i] = after] /\ UNCHANGED <<log, texts>>
  <2>1. texts'[c][i] = said
    BY <1>12 DEF said
  <2>2. ASSUME NEW d \in Channels, NEW j \in Identities
        PROVE  /\ KeyTallied(log, boot, d, j, hits'[d][j], texts'[d][j], now)
               /\ KeyBounded(log, d, j)
    <3>1. CASE d = c /\ j = i
      BY <1>6, <1>8, <1>10, <1>12, <2>1, <3>1
    <3>2. CASE ~(d = c /\ j = i)
      <4>1. <<d, j>> # <<c, i>>
        BY <3>2
      <4>2. hits'[d][j] = hits[d][j] /\ texts'[d][j] = texts[d][j]
        BY <1>10, <1>12, <4>1
      <4>. QED
        BY <1>6, <4>2
    <3>. QED
      BY <3>1, <3>2
  <2>3. Keyed(hits') /\ Keyed(texts')
    BY <1>4, <1>10, <1>12
  <2>4. boot' = boot /\ log' = log
    BY <1>2, <1>12
  <2>. QED
    BY <1>7, <2>2, <2>3, <2>4 DEF RateInv, Keyed
<1>13. CASE /\ hits' = [hits EXCEPT ![c][i] = after]
            /\ texts' = [texts EXCEPT ![c][i] = heard] /\ UNCHANGED log
  <2>1. ASSUME NEW d \in Channels, NEW j \in Identities
        PROVE  /\ KeyTallied(log, boot, d, j, hits'[d][j], texts'[d][j], now)
               /\ KeyBounded(log, d, j)
    <3>1. CASE d = c /\ j = i
      <4>1. hits'[c][i] = after /\ texts'[c][i] = heard
        BY <1>10, <1>11, <1>13
      <4>. QED
        BY <1>6, <1>8, <3>1, <4>1
    <3>2. CASE ~(d = c /\ j = i)
      <4>1. <<d, j>> # <<c, i>>
        BY <3>2
      <4>2. hits'[d][j] = hits[d][j] /\ texts'[d][j] = texts[d][j]
        BY <1>10, <1>11, <1>13, <4>1
      <4>. QED
        BY <1>6, <4>2
    <3>. QED
      BY <3>1, <3>2
  <2>2. Keyed(hits') /\ Keyed(texts')
    BY <1>10, <1>11, <1>13
  <2>3. boot' = boot /\ log' = log
    BY <1>2, <1>13
  <2>. QED
    BY <1>7, <2>1, <2>2, <2>3 DEF RateInv, Keyed
<1>14. CASE /\ hits' = [hits EXCEPT ![c][i] = after]
            /\ texts' = [texts EXCEPT ![c][i] = heard]
            /\ SlidingWindowAllows(spent, RateLimit[c], now)
            /\ DuplicateGuardAllows(said, e.body, now)
            /\ log' = Append(log, row)
  <2>1. PICK n : n = Len(log) + 1
    OBVIOUS
  <2>2. AppendedAt(log', row, n)
    BY <1>3, <1>14, <2>1, AppendedPosts DEF LogTyped
  <2>3. Inserted(log', n, c, i, e.body, now)
    <3>1. Inserted(log', n, row.event.channel, row.event.author, row.event.body,
                   row.receivedAt)
      BY <1>3, <2>2, AppendInserts
    <3>. QED
      BY <1>3, <3>1 DEF c, i
  <2>4. KeyTallied(log', boot, c, i, after, heard, now) /\ KeyBounded(log', c, i)
    <3>1. KeyBounded(log, c, i)
      BY <1>1, <1>6
    <3>. QED
      BY <1>1, <1>5, <1>14, <2>3, <3>1, InsertedKey DEF after, heard
  <2>5. ASSUME NEW d \in Channels, NEW j \in Identities, ~(d = c /\ j = i)
        PROVE  /\ KeyTallied(log', boot, d, j, hits'[d][j], texts'[d][j], now)
               /\ KeyBounded(log', d, j)
    <3>1. <<d, j>> # <<c, i>>
      BY <2>5
    <3>2. hits'[d][j] = hits[d][j] /\ texts'[d][j] = texts[d][j]
      BY <1>10, <1>11, <1>14, <3>1
    <3>3. row.event.channel # d \/ row.event.author # j
      BY <1>3, <2>5 DEF c, i
    <3>4. /\ \A q \in DOMAIN log : log'[q] = log[q]
          /\ \A life : PostsOf(log', life, d, j) = PostsOf(log, life, d, j)
          /\ \A life, b : TextsOf(log', life, d, j, b) = TextsOf(log, life, d, j, b)
      <4>1. OthersKept(log', row)
        BY <2>2, AppendOthers
      <4>. QED
        BY <3>3, <4>1 DEF OthersKept
    <3>5. KeyTallied(log, boot, d, j, hits[d][j], texts[d][j], now)
          /\ KeyBounded(log, d, j)
      BY <1>6
    <3>6. KeyTallied(log', boot, d, j, hits[d][j], texts[d][j], now)
          /\ KeyBounded(log', d, j)
      BY <3>4, <3>5, OtherKey
    <3>. QED
      BY <3>2, <3>6
  <2>6. ASSUME NEW d \in Channels, NEW j \in Identities
        PROVE  /\ KeyTallied(log', boot, d, j, hits'[d][j], texts'[d][j], now)
               /\ KeyBounded(log', d, j)
    <3>1. CASE d = c /\ j = i
      BY <1>10, <1>11, <1>14, <2>4, <3>1
    <3>. QED
      BY <2>5, <3>1
  <2>7. \A q \in DOMAIN log' : log'[q].boot <= boot
    <3>1. boot <= boot
      BY SMT, Z3 DEF LogTyped
    <3>2. DOMAIN log' = DOMAIN log \cup {n}
      BY SMT, Z3, <1>3, <1>14, <2>1 DEF LogTyped
    <3>3. log'[n].boot = boot /\ \A q \in DOMAIN log : log'[q] = log[q]
      BY <1>3, <2>2 DEF AppendedAt
    <3>. QED
      BY <1>7, <3>1, <3>2, <3>3
  <2>8. Keyed(hits') /\ Keyed(texts')
    BY <1>10, <1>11, <1>14
  <2>. QED
    BY <1>2, <2>6, <2>7, <2>8 DEF RateInv, Keyed
<1>. QED
  BY <1>2, <1>9, <1>12, <1>13, <1>14

\* One step keeps the limits.
LEMMA NextRateInv ==
  ASSUME ChainInv, AuthTyped, LogTyped, RateInv, [GatewayNext]_vars
  PROVE  RateInv'
<1>1. now \in Nat /\ now' \in Nat /\ now <= now'
  BY TimePasses
<1>2. CASE UNCHANGED <<log, hits, texts, boot>>
  BY <1>1, <1>2, RatesKept
<1>3. ASSUME NEW r \in Requests, NEW e \in Events, PostBody(r, e) PROVE RateInv'
  <2>1. now' = now
    BY <1>3 DEF PostBody, chainVars
  <2>. QED
    BY <1>1, <1>3, <2>1, PostRateInv
<1>. QED
  BY <1>2, <1>3, HistoriesKept, RestartRateInv

\* Every window of the log is one of a key in one life of the process.
LEMMA LimitsHold ==
  ASSUME LogTyped, RateInv
  PROVE  WithinRate
<1>. SUFFICES ASSUME NEW p \in DOMAIN log
              PROVE  LET window == {q \in DOMAIN log :
                           /\ log[q].event.author = log[p].event.author
                           /\ log[q].event.channel = log[p].event.channel
                           /\ log[q].boot = log[p].boot
                           /\ log[q].receivedAt \in log[p].receivedAt ..
                                             (log[p].receivedAt + RateWindow - 1)}
                         same == {q \in window : log[q].event.body = log[p].event.body}
                     IN  /\ Cardinality(window) <= RateLimit[log[p].event.channel]
                         /\ Cardinality(same) < DuplicateThreshold
  BY DEF WithinRate
<1>. DEFINE c == log[p].event.channel
            i == log[p].event.author
            b == log[p].event.body
            life == log[p].boot
            t == log[p].receivedAt
            window == {q \in DOMAIN log :
                         /\ log[q].event.author = i /\ log[q].event.channel = c
                         /\ log[q].boot = life
                         /\ log[q].receivedAt \in t .. (t + RateWindow - 1)}
            same == {q \in window : log[q].event.body = b}
<1>1. log[p] \in LogRow
  BY SMT, Z3 DEF LogTyped
<1>2. log[p].event \in EventType /\ t \in Nat /\ life \in Nat
  BY <1>1, GatewayAssumption DEF LogRow
<1>3. c \in Channels /\ i \in Identities /\ b \in STRING
  BY <1>2 DEF EventType
<1>4. /\ window = Window(log, PostsOf(log, life, c, i), t)
      /\ same = Window(log, TextsOf(log, life, c, i, b), t)
  BY DEF Window, PostsOf, TextsOf
<1>5. IsFiniteSet(same)
  <2>1. IsFiniteSet(DOMAIN log)
    <3>1. DOMAIN log = 1..Len(log) /\ Len(log) \in Int /\ 1 \in Int
      BY SMT, Z3 DEF LogTyped
    <3>. QED
      BY <3>1, FS_Interval
  <2>2. same \in SUBSET DOMAIN log
    OBVIOUS
  <2>. QED
    BY <2>1, <2>2, FS_Subset
<1>. HIDE DEF c, i, b, life, t, window, same
<1>6. KeyBounded(log, c, i)
  BY <1>3 DEF RateInv
<1>7. t \in Int
  BY SMT, Z3, <1>2
<1>8. /\ Bounded(log, PostsOf(log, life, c, i), RateLimit[c])
      /\ Bounded(log, TextsOf(log, life, c, i, b), DuplicateThreshold - 1)
  BY <1>2, <1>3, <1>6 DEF KeyBounded
<1>9. /\ Cardinality(window) <= RateLimit[c]
      /\ Cardinality(same) <= DuplicateThreshold - 1
  BY <1>4, <1>7, <1>8 DEF Bounded
<1>10. Cardinality(same) \in Nat
  BY <1>5, FS_CardinalityType
<1>11. Cardinality(same) < DuplicateThreshold
  BY SMT, Z3, <1>9, <1>10, RateAssumption
<1>. QED
  BY <1>9, <1>11 DEF c, i, b, life, t, window, same

\* What the log accepts, over sessions, lapsed channels and restarts: no event
\* twice or after a later one of its device, and within one life of the process
\* no more of an author than the SlidingWindow and the DuplicateGuard of a
\* channel allow, however the posts that await their bodies interleave.
THEOREM PostsAreAdmissible == GatewaySpec => []PostsAdmissible
<1>1. ChainInv /\ AuthTyped /\ LogInv /\ RateInv /\ [GatewayNext]_vars => RateInv'
  BY NextRateInv DEF LogInv
<1>2. LogInv /\ RateInv => PostsAdmissible
  BY LimitsHold DEF PostsAdmissible, LogInv, SequenceInv
<1>. QED
  BY <1>1, <1>2, InitRateInv, GatewayChainInvariant, LogInvariant, PTL
     DEF GatewaySpec
=============================================================================
