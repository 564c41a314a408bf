------------------------------ MODULE MCGateway ------------------------------
(* One identity and one device behind the gateway.  The state is too rich   *)
(* to vary everything at once, so a behaviour follows one of three scenes:  *)
(* sign-ins of every kind against revocations and restarts; two sessions    *)
(* with a stream that follow revocations and expiry; and posts with a       *)
(* stream.  What a scene leaves out may not happen in it; every action of   *)
(* the gateway happens in one of them.                                      *)
EXTENDS Gateway, TLC

CONSTANTS i1, d1, k1, s1, p1, ch1, ch2, t1, t2, w1, r1, r2, updates, public

VARIABLE scene

Certificate(from, until) ==
  [account |-> i1, device |-> d1, key |-> k1, issuedAt |-> from,
   expiresAt |-> until, rootSigned |-> TRUE]

\* Certificates that outlive one, two or three ticks, and a later one.
MCCertificates ==
  {Certificate(0, 1), Certificate(0, 2), Certificate(0, 3), Certificate(1, 2)}

SceneCertificates ==
  CASE scene = "sign-in" -> {Certificate(0, 1), Certificate(0, 2)}
    [] scene = "streams" -> {Certificate(0, 1), Certificate(1, 2)}
    [] scene = "posts" -> {Certificate(0, 3)}

Event(id, sequence, channel, body) ==
  [id |-> id, author |-> i1, device |-> d1, key |-> k1,
   sequence |-> sequence, createdAt |-> 1, channel |-> channel, body |-> body]

\* Texts and sequences repeat, so that every refusal of post happens.
MCEvents == {Event(1, 1, public, "a"), Event(2, 2, public, "a"),
             Event(3, 3, public, "b"), Event(4, 4, public, "c"),
             Event(5, 2, updates, "a")}

MCRateLimit == (updates :> 1) @@ (public :> 2)

\* What may happen in the scene at hand.
InScene ==
  /\ \A ch \in ChallengeIds : challenges'[ch] # None =>
       /\ challenges'[ch].cert \in SceneCertificates
       /\ scene # "sign-in" => challenges'[ch].method = "wallet"
  /\ scene = "sign-in" =>
       /\ now' <= 2 /\ revocationSequences'[i1] <= 1
       /\ UNCHANGED <<sockets, log, stored, hits, texts, outbox>>
  /\ scene = "streams" => now' <= 2 /\ boot' = 0
  /\ scene # "posts" =>
       \A r \in Requests : requests'[r] # None => requests'[r].op # "post"
  /\ scene # "sign-in" => UNCHANGED <<sshKeys, passkeys>>
  /\ scene = "posts" =>
       /\ Cardinality({t \in Tokens : minted'[t] # None}) <= 1
       /\ Cardinality(drawn') <= 1
       /\ UNCHANGED revocations
       /\ \E r \in Requests : requests'[r] = None
       /\ \A w \in Sockets :
            /\ sockets'[w].state = "closed" => boot' > 0
            /\ sockets'[w].state # "closing"
            /\ sockets'[w].ready => sockets'[w].channels = {public}
            /\ sockets'[w].token = None
  /\ UNCHANGED scene

MCInit ==
  /\ GatewayInit
  /\ scene \in {"sign-in", "streams", "posts"}

MCNext == GatewayNext /\ InScene

MCSpec == MCInit /\ [][MCNext]_<<vars, scene>>

MCSymmetry ==
  Permutations({ch1, ch2}) \cup Permutations({t1, t2}) \cup Permutations({r1, r2})
=============================================================================
