----------------------------- MODULE IdentityAuth -----------------------------
(***************************************************************************)
(* Signed requests to the presence and discovery workers                    *)
(* (packages/protocol/src/identity-auth.ts).  Requests travel over HTTP: one *)
(* that was signed may arrive late, again, or never, so they are kept in a  *)
(* set and a handler may take any of them at any time.                      *)
(***************************************************************************)
EXTENDS Integers, FiniteSets

CONSTANTS
  Identities,
  None,
  Skew,         \* IDENTITY_AUTH_MAX_SKEW_MS
  MaxTime,      \* bound on the clock
  MaxRequests   \* bound on the requests an identity signs

ASSUME IdentityAuthAssumption ==
  /\ None \notin Identities
  /\ Skew \in Nat /\ MaxTime \in Nat /\ MaxRequests \in Nat

VARIABLES
  now,
  requests      \* signed requests, each with an identity and an issuedAt

IssuedTimes == 1..(MaxTime + MaxRequests + 1)

IsFreshIssuedAt(issuedAt) ==
  now - issuedAt <= Skew /\ issuedAt - now <= Skew

\* nextIssuedAt: strictly increasing, and not behind the clock.
NextIssuedAt(i) ==
  LET times == {r.issuedAt : r \in {q \in requests : q.identity = i}}
      last  == CHOOSE t \in times : \A u \in times : u <= t
  IN  IF times # {} /\ last >= now THEN last + 1 ELSE now

MaySign(i) == Cardinality({r \in requests : r.identity = i}) < MaxRequests
=============================================================================
