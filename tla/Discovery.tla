------------------------------- MODULE Discovery -------------------------------
(***************************************************************************)
(* The discovery Durable Object (workers/discovery/src/index.ts): profiles, *)
(* blocks and random matching behind signed requests.                       *)
(*                                                                          *)
(* While the object awaits its storage it gets no other event, so a handler *)
(* that only writes is one step.  A random match asks the relay about every *)
(* profile in turn, and each question is a request to another service:      *)
(* anything may happen to the index before the answer comes.                *)
(*                                                                          *)
(* Interests and languages are left out (every two profiles overlap), and   *)
(* the ranking by age and blocks is a free choice among the candidates.     *)
(***************************************************************************)
EXTENDS IdentityAuth, Sequences

CONSTANTS
  DiscoverySigners,  \* pairs <<identity, op>>: who signs which requests
  Matches,           \* slots for random matches in progress
  RateLimit,         \* MATCH_RATE_LIMIT
  RateWindow         \* MATCH_RATE_WINDOW_MS

ASSUME DiscoveryAssumption ==
  /\ RateLimit \in Nat \ {0} /\ RateWindow \in Nat \ {0}
  /\ DiscoverySigners \subseteq
       Identities \X {"upsert", "delete", "block", "match"}

VARIABLES
  index,      \* the maps in memory: [profiles, blocks, hits, issued]
  stored,     \* the same in storage
  ready,      \* ready
  matching,   \* [Matches -> None or the state of a handleRandomMatch]
  answer,     \* the last match that was returned, or None
  granted     \* the times of all random matches granted to an identity

discoveryVars == <<now, requests, index, stored, ready, matching, answer,
                   granted>>

EmptyIndex ==
  [profiles |-> [i \in Identities |-> None],        \* firstSeenAt, or None
   blocks   |-> [i \in Identities |-> {}],
   hits     |-> [i \in Identities |-> {}],          \* matchRequests
   issued   |-> [i \in Identities |-> 0]]           \* lastIssuedAt

----------------------------------------------------------------------------

\* The maps as a handler finds them, ensureLoaded included.
Index == IF ready THEN index ELSE stored

\* authorize: fresh and newer than anything this identity had accepted.
Authorized(r) ==
  /\ IsFreshIssuedAt(r.issuedAt)
  /\ r.issuedAt > Index.issued[r.identity]

\* The handler's changes to the maps, with the claim of authorize, are stored.
Commit(r, maps) ==
  LET claimed == [maps EXCEPT !.issued[r.identity] = r.issuedAt]
  IN  /\ index' = claimed /\ stored' = claimed
      /\ ready' = TRUE

HandleProfileUpsert(r) ==
  /\ r.op = "upsert" /\ Authorized(r)
  /\ Commit(r, [Index EXCEPT !.profiles[r.identity] = IF @ = None THEN now ELSE @])
  /\ UNCHANGED <<now, requests, matching, answer, granted>>

HandleProfileDelete(r) ==
  /\ r.op = "delete" /\ Authorized(r)
  /\ Commit(r, [Index EXCEPT !.profiles[r.identity] = None])
  /\ UNCHANGED <<now, requests, matching, answer, granted>>

HandleBlock(r) ==
  /\ r.op = "block" /\ r.identity # r.target /\ Authorized(r)
  /\ Commit(r, [Index EXCEPT !.blocks[r.identity] = @ \cup {r.target}])
  /\ UNCHANGED <<now, requests, matching, answer, granted>>

----------------------------------------------------------------------------
(* Random match.                                                            *)

RecentMatches(i) == {hit \in Index.hits[i] : hit.at > now - RateWindow}

\* The requests that count, with one more; nth tells apart those of one moment.
PushMatch(i) ==
  RecentMatches(i) \cup
    {[at |-> now, nth |-> Cardinality({hit \in Index.hits[i] : hit.at = now})]}

\* A request over the limit is authorized, and so used up, but not granted.
RefuseMatch(r) ==
  /\ r.op = "match" /\ Authorized(r)
  /\ Cardinality(RecentMatches(r.identity)) >= RateLimit
  /\ Commit(r, Index)
  /\ UNCHANGED <<now, requests, matching, answer, granted>>

\* Mutant: only the requester's own blocks count.
OwnBlocksOnly(who, p) == p # who /\ p \notin index.blocks[who]

\* The gates: never oneself, and no block in either direction.
IsEligible(who, p) ==
  /\ p # who
  /\ p \notin index.blocks[who]
  /\ who \notin index.blocks[p]

\* The loop goes on to a profile it has not seen and asks the relay about it,
\* or is over: one of the candidates, if there are any, is the match.
Proceed(m, state, profiles) ==
  LET left == {p \in Identities : profiles[p] # None} \ state.visited
  IN  \/ \E p \in left :
           /\ matching' = [matching EXCEPT ![m] =
                [state EXCEPT !.asking = p, !.visited = @ \cup {p}]]
           /\ UNCHANGED answer
      \/ /\ left = {}
         /\ matching' = [matching EXCEPT ![m] = None]
         /\ IF state.candidates = {} THEN answer' = None
            ELSE \E p \in state.candidates :
                   answer' = [who |-> state.who, match |-> p,
                              blocked |-> state.blocked]

\* handleRandomMatch up to its first question to the relay.
HandleRandomMatch(r, m) ==
  /\ r.op = "match" /\ Authorized(r)
  /\ Cardinality(RecentMatches(r.identity)) < RateLimit
  /\ Commit(r, [Index EXCEPT !.hits[r.identity] = PushMatch(r.identity)])
  /\ granted' = [granted EXCEPT ![r.identity] = Append(@, now)]
  /\ matching[m] = None
  /\ Proceed(m, [who |-> r.identity, asking |-> None, visited |-> {},
                 candidates |-> {}, blocked |-> Index.blocks], Index.profiles)
  /\ UNCHANGED <<now, requests>>

\* External: the relay answers, or cannot be asked; only an explicit yes counts.
RelayAnswers(m, online) ==
  /\ matching[m] # None
  /\ LET p == matching[m].asking
         joins == online /\ IsEligible(matching[m].who, p)
     IN  Proceed(m, [matching[m] EXCEPT
                       !.candidates = IF joins THEN @ \cup {p} ELSE @],
                 index.profiles)
  /\ UNCHANGED <<now, requests, index, stored, ready, granted>>

----------------------------------------------------------------------------
(* The platform, clients and time.                                          *)

\* The object is lost after authorize stored its claim and before the handler
\* wrote anything.
LostAfterAuthorize(r) ==
  /\ Authorized(r)
  /\ stored' = [stored EXCEPT !.issued[r.identity] = r.issuedAt]
  /\ index' = EmptyIndex /\ ready' = FALSE
  /\ matching' = [m \in Matches |-> None]
  /\ UNCHANGED <<now, requests, answer, granted>>

\* The object leaves memory, with the matches it was working on.
EvictDiscovery ==
  /\ index' = EmptyIndex /\ ready' = FALSE
  /\ matching' = [m \in Matches |-> None]
  /\ UNCHANGED <<now, requests, stored, answer, granted>>

SignDiscovery(i, op, target) ==
  /\ op = "block" <=> target # i
  /\ MaySign(i)
  /\ requests' = requests \cup
       {[op |-> op, identity |-> i, target |-> target,
         issuedAt |-> NextIssuedAt(i)]}
  /\ UNCHANGED <<now, index, stored, ready, matching, answer, granted>>

DiscoveryTick ==
  /\ now < MaxTime
  /\ now' = now + 1
  /\ UNCHANGED <<requests, index, stored, ready, matching, answer, granted>>

DiscoveryInit ==
  /\ now = 1 /\ requests = {}
  /\ index = EmptyIndex /\ stored = EmptyIndex /\ ready = FALSE
  /\ matching = [m \in Matches |-> None]
  /\ answer = None
  /\ granted = [i \in Identities |-> << >>]

DiscoveryNext ==
  \/ \E r \in requests :
       \/ HandleProfileUpsert(r) \/ HandleProfileDelete(r)
       \/ HandleBlock(r) \/ RefuseMatch(r) \/ LostAfterAuthorize(r)
       \/ \E m \in Matches : HandleRandomMatch(r, m)
  \/ \E m \in Matches, online \in BOOLEAN : RelayAnswers(m, online)
  \/ EvictDiscovery
  \/ \E signer \in DiscoverySigners, target \in Identities :
       SignDiscovery(signer[1], signer[2], target)
  \/ DiscoveryTick

DiscoverySpec == DiscoveryInit /\ [][DiscoveryNext]_discoveryVars

----------------------------------------------------------------------------
(* Properties.                                                              *)

\* Types of the maps, and: what the loaded object works with is what is
\* stored.
DiscoveryTypeOK ==
  /\ now \in 1..MaxTime
  /\ \A r \in requests : r.identity \in Identities /\ r.issuedAt \in IssuedTimes
  /\ \A i \in Identities :
       /\ stored.profiles[i] # None => stored.profiles[i] \in 1..now
       /\ stored.blocks[i] \subseteq Identities
       /\ stored.issued[i] \in IssuedTimes \cup {0}
       /\ Cardinality(stored.hits[i]) <= RateLimit
  /\ ready => index = stored

\* In any window an identity is granted no more than the limit of random
\* matches, across evictions.
MatchRateKept ==
  \A i \in Identities : \A k \in 1..Len(granted[i]) :
    Cardinality({j \in 1..Len(granted[i]) :
                   /\ granted[i][j] >= granted[i][k]
                   /\ granted[i][j] < granted[i][k] + RateWindow}) <= RateLimit

\* A match is never with oneself, nor across a block, in either direction, that
\* was there when the match was asked for, although profiles and blocks change
\* while the candidates' presence is awaited; and the matches granted stay
\* within the rate, which those awaits interleave.
EarlierBlocksRespected ==
  /\ answer # None =>
       /\ answer.match # answer.who
       /\ answer.match \notin answer.blocked[answer.who]
       /\ answer.who \notin answer.blocked[answer.match]
  /\ MatchRateKept
=============================================================================
