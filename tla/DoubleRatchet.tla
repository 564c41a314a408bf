---------------------------- MODULE DoubleRatchet ----------------------------
(***************************************************************************)
(* The Double Ratchet of packages/client/src/double-ratchet.ts, with the    *)
(* cryptography symbolic: a key is the term of the derivation that made it, *)
(* and a ciphertext opens exactly when the reader derives the key it was    *)
(* sealed under.  A DH key pair is a value taken from its owner's supply    *)
(* of fresh keys; its public half stands for the pair, and the shared       *)
(* secret of two pairs is the set of both.                                  *)
(*                                                                          *)
(* A chain key is the chain it belongs to: how often kdfCk has advanced it  *)
(* is the chain's counter (Ns or Nr), which the code moves in step with it, *)
(* so a message key is a chain and a position in it.                        *)
(***************************************************************************)
EXTENDS Naturals, FiniteSets

CONSTANT MaxSkip

ASSUME MaxSkipAssumption == MaxSkip \in Nat \ {0}

\* The null of CKs, CKr and DHr, comparable with every key.
NoKey == << >>

Secret(ephemeral, oneTime) == <<"sk", ephemeral, oneTime>>

KdfRk(rk, dhOut) ==
  [rk |-> <<"rk", rk, dhOut>>, ck |-> <<"ck", rk, dhOut>>]

MessageKey(ck, n) == <<"mk", ck, n>>

Dh(a, b) == {a, b}

----------------------------------------------------------------------------

InitInitiator(sk, pair) ==
  LET bootstrap == KdfRk(sk, {pair})
  IN  [DHs |-> pair, DHr |-> NoKey, RK |-> bootstrap.rk,
       CKs |-> bootstrap.ck, CKr |-> NoKey,
       Ns |-> 0, Nr |-> 0, PN |-> 0, skipped |-> {}]

InitResponder(sk, pair) ==
  [DHs |-> pair, DHr |-> NoKey, RK |-> sk, CKs |-> NoKey, CKr |-> NoKey,
   Ns |-> 0, Nr |-> 0, PN |-> 0, skipped |-> {}]

CanSkip(s, until) == s.CKr # NoKey => until <= s.Nr + MaxSkip

\* Mutant: the keys passed over are dropped instead of kept.
ForgetSkipped(s, until, dh) ==
  IF s.CKr = NoKey \/ until <= s.Nr THEN s ELSE [s EXCEPT !.Nr = until]

SkipMessageKeys(s, until, dh) ==
  IF s.CKr = NoKey \/ until <= s.Nr THEN s
  ELSE [s EXCEPT !.Nr = until,
                 !.skipped = @ \cup {[dh |-> dh, n |-> n,
                                      mk |-> MessageKey(s.CKr, n)] :
                                     n \in s.Nr .. until - 1}]

DhRatchet(s, dh, pair) ==
  LET receiving == KdfRk(s.RK, Dh(s.DHs, dh))
      sending   == KdfRk(receiving.rk, Dh(pair, dh))
  IN  [DHs |-> pair, DHr |-> dh, RK |-> sending.rk,
       CKs |-> sending.ck, CKr |-> receiving.ck,
       Ns |-> 0, Nr |-> 0, PN |-> s.Ns, skipped |-> s.skipped]

BootstrapReceive(s, dh) ==
  LET first == KdfRk(s.RK, {dh})
  IN  [s EXCEPT !.RK = first.rk, !.CKr = first.ck, !.DHr = dh]

\* A responder opens its sending chain with the pair it was created with.
EnsureSendingChain(s) ==
  IF s.CKs # NoKey THEN s
  ELSE LET first == KdfRk(s.RK, Dh(s.DHs, s.DHr))
       IN  [s EXCEPT !.RK = first.rk, !.CKs = first.ck]

\* ensureSendingChain throws when the peer's key is not known yet.
CanSeal(s) == s.CKs # NoKey \/ s.DHr # NoKey

\* The state after sealing, and what travels: the header in the clear and
\* the key the body is under.
Seal(s) ==
  LET ready == EnsureSendingChain(s)
  IN  [state |-> [ready EXCEPT !.Ns = @ + 1],
       blob  |-> [dh |-> ready.DHs, pn |-> ready.PN, n |-> ready.Ns,
                  mk |-> MessageKey(ready.CKs, ready.Ns)]]

----------------------------------------------------------------------------

SkippedFor(s, blob) ==
  {k \in s.skipped : k.dh = blob.dh /\ k.n = blob.n}

IsFirstReceive(s) == s.DHr = NoKey /\ s.CKr = NoKey /\ s.CKs = NoKey

\* The receiving chain open() turns to for a header, before it skips within
\* that chain.
Turned(s, blob, pair) ==
  IF s.DHr = blob.dh THEN s
  ELSE IF IsFirstReceive(s) THEN BootstrapReceive(s, blob.dh)
  ELSE DhRatchet(SkipMessageKeys(s, blob.pn, s.DHr), blob.dh, pair)

\* open() returns without throwing: the skips are within MAX_SKIP and the
\* key it derives is the one the body is under.
CanOpen(s, blob, pair) ==
  LET kept == SkippedFor(s, blob)
      turned == Turned(s, blob, pair)
  IN  IF kept # {} THEN \A k \in kept : k.mk = blob.mk
      ELSE /\ s.DHr # blob.dh /\ ~IsFirstReceive(s) => CanSkip(s, blob.pn)
           /\ CanSkip(turned, blob.n)
           /\ LET reached == SkipMessageKeys(turned, blob.n, blob.dh)
              IN  MessageKey(reached.CKr, reached.Nr) = blob.mk

Opened(s, blob, pair) ==
  LET kept == SkippedFor(s, blob)
  IN  IF kept # {} THEN [s EXCEPT !.skipped = @ \ kept]
      ELSE [SkipMessageKeys(Turned(s, blob, pair), blob.n, blob.dh)
              EXCEPT !.Nr = @ + 1]
=============================================================================
