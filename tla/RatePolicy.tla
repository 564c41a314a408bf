----------------------------- MODULE RatePolicy -----------------------------
(***************************************************************************)
(* The posting limits of packages/gateway/src/policy.ts as pure operators. *)
(* SlidingWindow keeps, per key, the times of the hits it allowed;         *)
(* DuplicateGuard keeps the times and bodies of the posts it allowed.      *)
(* Both look only at how many entries there are, so a history is a set     *)
(* here, of one key; nth tells apart entries that are equal otherwise.     *)
(***************************************************************************)
EXTENDS Integers, FiniteSets

CONSTANTS
  RateWindow,          \* RATE_WINDOW_MS
  DuplicateThreshold   \* SPAM_DUPLICATE_THRESHOLD

ASSUME RateAssumption ==
  RateWindow \in Nat \ {0} /\ DuplicateThreshold \in Nat \ {0}

\* SlidingWindow.allow
RecentHits(hits, at) == {hit \in hits : at - hit.at < RateWindow}

SlidingWindowAllows(hits, limit, at) ==
  Cardinality(RecentHits(hits, at)) < limit

HitsAt(hits, at) == {hit \in hits : hit.at = at}

SlidingWindowAfter(hits, limit, at) ==
  IF SlidingWindowAllows(hits, limit, at)
  THEN RecentHits(hits, at) \cup
         {[at |-> at, nth |-> Cardinality(HitsAt(hits, at))]}
  ELSE RecentHits(hits, at)

\* DuplicateGuard.allow
RecentTexts(texts, at) == {entry \in texts : at - entry.at < RateWindow}

SameTexts(texts, body) == {entry \in texts : entry.body = body}

DuplicateGuardAllows(texts, body, at) ==
  Cardinality(SameTexts(RecentTexts(texts, at), body)) + 1 < DuplicateThreshold

DuplicateGuardAfter(texts, body, at) ==
  IF DuplicateGuardAllows(texts, body, at)
  THEN RecentTexts(texts, at) \cup
         {[at |-> at, body |-> body,
           nth |-> Cardinality(HitsAt(SameTexts(texts, body), at))]}
  ELSE RecentTexts(texts, at)
=============================================================================
