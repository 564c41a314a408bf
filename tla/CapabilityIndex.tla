--------------------------- MODULE CapabilityIndex ---------------------------
(***************************************************************************)
(* Capability claims between two agents' devices                            *)
(* (packages/client/src/capability-index.ts and capability-claims.ts): one  *)
(* publishes signed claims as direct messages, the other keeps the newest.  *)
(* publish is split at its awaits of the certificate and of                 *)
(* sendDirectMessage, which commits the message and the revision in one     *)
(* transaction; calls wait for each other through `tail`.  search is        *)
(* synchronous, with a transaction per inbox entry, so a crash may cut it   *)
(* short.                                                                   *)
(*                                                                          *)
(* The messages arrive in any order (DirectMessages).  A claim is its       *)
(* revision and its validity; what it describes, its signature and the      *)
(* pinned root are taken as valid, and the certificate it was signed under  *)
(* bounds its expiry.                                                       *)
(***************************************************************************)
EXTENDS Naturals, FiniteSets, Sequences

CONSTANTS
  Publications,    \* calls of publish
  NoClaim,
  Lifetimes,       \* the ttlMs a caller may ask for
  CertificateLife,
  Skew,            \* how far the publisher's clock is ahead
  LastTick         \* bound: time

ASSUME CapabilityAssumption ==
  /\ Lifetimes \subseteq Nat \ {0} /\ CertificateLife \in Nat \ {0}
  /\ Skew \in Nat /\ LastTick \in Nat

VARIABLES
  clock,
  certificate,  \* expiresAt of the publisher's certificate
  tail,         \* calls in the order they will run, the first one running
  call,         \* [Publications -> its stage]
  draft,        \* the claim the running call has signed
  revision,     \* capabilities:v1:revision, in the publisher's store
  posted,       \* the messages of the publisher's outbox
  received,     \* the searcher's inbox
  seenEntries,  \* inbox entries search has passed
  index, watermark,
  accepted      \* every claim the index has held or passed over as valid

capabilityVars == <<clock, certificate, tail, call, draft, revision, posted,
                    received, seenEntries, index, watermark, accepted>>
publisherVars == <<certificate, tail, call, draft, revision, posted>>
searcherVars == <<received, seenEntries, index, watermark, accepted>>

Earlier(a, b) == IF a < b THEN a ELSE b

----------------------------------------------------------------------------
(* publish.                                                                 *)

Publish(x) ==
  /\ call[x] = "idle"
  /\ call' = [call EXCEPT ![x] = "waiting"]
  /\ tail' = Append(tail, x)
  /\ UNCHANGED <<clock, certificate, draft, revision, posted, searcherVars>>

\* Mutant: the calls do not wait for each other.
AnyTurn(x) == \E i \in 1 .. Len(tail) : tail[i] = x

\* tail.then: the calls before this one have settled.
Turn(x) == tail # <<>> /\ Head(tail) = x

\* ensureDeviceCertificate resolves, with the certificate at hand or a new
\* one; the claim takes the next revision and is signed.
Sign(x, ttl, expires) ==
  LET now == clock + Skew
  IN  /\ Turn(x) /\ call[x] = "waiting"
      /\ expires \in {certificate, now + CertificateLife} /\ expires > now
      /\ certificate' = expires
      /\ draft' = [draft EXCEPT ![x] =
                     [revision |-> revision + 1, issuedAt |-> now,
                      expiresAt |-> Earlier(now + ttl, expires)]]
      /\ call' = [call EXCEPT ![x] = "sending"]
      /\ UNCHANGED <<clock, tail, revision, posted, searcherVars>>

\* The running call settles, well or badly, and the next one may run.
Settle(x) ==
  /\ call' = [call EXCEPT ![x] = "settled"]
  /\ tail' = Tail(tail)
  /\ draft' = [draft EXCEPT ![x] = NoClaim]

\* commitSend with commitMetadata: outbox and revision together.
CommitPublication(x) ==
  /\ call[x] = "sending"
  /\ posted' = posted \cup {[by |-> x, claim |-> draft[x]]}
  /\ revision' = draft[x].revision
  /\ Settle(x)
  /\ UNCHANGED <<clock, certificate, searcherVars>>

\* A renewal, a bundle or a limit fails the call; the next one runs.
PublicationFails(x) ==
  /\ Turn(x) /\ call[x] \in {"waiting", "sending"}
  /\ Settle(x)
  /\ UNCHANGED <<clock, certificate, revision, posted, searcherVars>>

\* The publisher's process dies and is started again.
PublisherCrash ==
  /\ tail # <<>>
  /\ tail' = <<>>
  /\ call' = [x \in Publications |->
                IF call[x] = "idle" THEN "idle" ELSE "settled"]
  /\ draft' = [x \in Publications |-> NoClaim]
  /\ UNCHANGED <<clock, certificate, revision, posted, searcherVars>>

----------------------------------------------------------------------------
(* search.                                                                  *)

\* The message is stored in the searcher's inbox.
ClaimArrives(message) ==
  /\ message \in posted \ received
  /\ received' = received \cup {message}
  /\ UNCHANGED <<clock, publisherVars, seenEntries, index, watermark, accepted>>

\* verify: neither from the future nor expired.
Verifies(claim) == claim.issuedAt <= clock /\ clock < claim.expiresAt

Newest(claims) ==
  CHOOSE claim \in claims : \A other \in claims :
    other.revision <= claim.revision

\* Mutant: a claim that has expired no longer counts.
AboveLiveClaim(claim) ==
  IF index # NoClaim /\ Verifies(index)
  THEN claim.revision > watermark ELSE TRUE

\* Only a revision above the watermark is taken, whatever the state of the
\* claim that set it.
AboveWatermark(claim) == claim.revision > watermark

\* The loop of search over the entries not seen before, or the part of it
\* that a crash leaves behind: a claim is verified now or never.  The order
\* of the entries does not matter, for the highest revision wins.
Search(entries) ==
  LET valid == {message.claim : message \in
                  {m \in entries : Verifies(m.claim)}}
      taken == {claim \in valid : AboveWatermark(claim)}
  IN  /\ entries # {} /\ entries \subseteq received \ seenEntries
      /\ seenEntries' = seenEntries \cup entries
      /\ accepted' = accepted \cup valid
      /\ index' = IF taken = {} THEN index ELSE Newest(taken)
      /\ watermark' = IF taken = {} THEN watermark
                      ELSE Newest(taken).revision
      /\ UNCHANGED <<clock, publisherVars, received>>

ClaimTick ==
  /\ clock < LastTick
  /\ clock' = clock + 1
  /\ UNCHANGED <<publisherVars, searcherVars>>

----------------------------------------------------------------------------

CapabilityInit ==
  /\ clock = 1 /\ certificate = 1 + Skew + CertificateLife
  /\ tail = <<>> /\ call = [x \in Publications |-> "idle"]
  /\ draft = [x \in Publications |-> NoClaim]
  /\ revision = 0 /\ posted = {}
  /\ received = {} /\ seenEntries = {}
  /\ index = NoClaim /\ watermark = 0 /\ accepted = {}

CapabilityNext ==
  \/ \E x \in Publications :
       \/ Publish(x)
       \/ \E ttl \in Lifetimes,
             expires \in 1 .. LastTick + Skew + CertificateLife :
            Sign(x, ttl, expires)
       \/ CommitPublication(x)
       \/ PublicationFails(x)
  \/ PublisherCrash
  \/ \E message \in posted : ClaimArrives(message)
  \/ \E entries \in SUBSET received : Search(entries)
  \/ ClaimTick

CapabilitySpec == CapabilityInit /\ [][CapabilityNext]_capabilityVars

----------------------------------------------------------------------------
(* Properties.                                                              *)

\* A revision names one claim, although calls of publish overlap, fail and
\* are cut off by crashes (tail, and the revision written with the outbox);
\* the searcher could not tell two claims of one revision apart.
RevisionNamesOne ==
  \A m1, m2 \in posted : m1.claim.revision = m2.claim.revision => m1 = m2

\* "Older or equal revisions cannot replace it, including after expiry or
\* restart": what the index holds is the newest claim it ever found valid,
\* however late the older ones arrive and whatever has expired meanwhile.
NewestClaimHeld ==
  index = IF accepted = {} THEN NoClaim ELSE Newest(accepted)
=============================================================================
