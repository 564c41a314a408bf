--------------------------- MODULE RegistryProofs ---------------------------
(***************************************************************************)
(* Proofs about the registries, for any identities and bounds: the names    *)
(* and validators of the chain (ChainNames), the leases and prekeys of the  *)
(* presence service (Presence), profiles, blocks and matches of the         *)
(* discovery service (Discovery), and the renewal of the certificate that a *)
(* device publishes (DeviceLifecycle).                                      *)
(***************************************************************************)
EXTENDS ChainNames, Presence, Discovery, DeviceLifecycle, FiniteSetTheorems,
        TLAPS

\* The backend of every leaf that names none, with a second run of more time.
USE Zenon, ZenonT(20)

----------------------------------------------------------------------------
(* Names on the chain.                                                      *)

Records == [owner : Wallets, identity : NameIdentities, registeredAt : Nat]

NamesTypeOK ==
  /\ today \in Nat
  /\ DOMAIN usernames \subseteq Names
  /\ usernames = [n \in DOMAIN usernames |-> usernames[n]]
  /\ \A n \in DOMAIN usernames : usernames[n] \in Records
  /\ walletToUsername \in [Wallets -> Names \cup {Absent}]
  /\ history \in [Names -> Seq(Records)]
  /\ rootWallets \in [NameIdentities -> Wallets \cup {Absent}]
  /\ IsFiniteSet(DOMAIN validators)

\* The index agrees with the names: the first conjunct of NamesAgree.
IndexAgrees ==
  \A w \in Wallets, n \in Names :
    walletToUsername[w] = n <=> n \in DOMAIN usernames /\ usernames[n].owner = w

RootsAgree ==
  \A n \in DOMAIN usernames :
    rootWallets[usernames[n].identity] = usernames[n].owner

HistoryAgrees ==
  \A n \in DOMAIN usernames :
    history[n] # <<>> /\ history[n][Len(history[n])] = usernames[n]

\* The inductive invariant.  A restart restores what the file holds, so the
\* file has to hold the present state; that an identity has one name then
\* follows from its root and the index.
NamesInv ==
  /\ NamesTypeOK
  /\ IndexAgrees
  /\ RootsAgree
  /\ HistoryAgrees
  /\ file = Saved

----------------------------------------------------------------------------
(* Lemmas.                                                                  *)

\* A sequence ends in what was appended last.
LEMMA AppendLast ==
  ASSUME NEW S, NEW s \in Seq(S), NEW e \in S
  PROVE  /\ Append(s, e) \in Seq(S)
         /\ Append(s, e) # <<>>
         /\ Append(s, e)[Len(Append(s, e))] = e
BY SMT, Z3

\* The invariant gives the property: names of one identity have one owner,
\* and the index names one name for it.
LEMMA InvImpliesAgree == NamesInv => NamesAgree
<1>. SUFFICES ASSUME NamesInv PROVE NamesAgree
  BY SMT, Z3
<1>1. ASSUME NEW n \in DOMAIN usernames, NEW m \in DOMAIN usernames,
             usernames[n].identity = usernames[m].identity
      PROVE  n = m
  <2>1. usernames[n].owner = usernames[m].owner
    BY <1>1 DEF NamesInv, RootsAgree
  <2>2. usernames[n].owner \in Wallets /\ n \in Names /\ m \in Names
    BY DEF NamesInv, NamesTypeOK, Records
  <2>. QED
    BY SMT, Z3, <2>1, <2>2 DEF NamesInv, IndexAgrees
<1>. QED
  BY <1>1 DEF NamesInv, IndexAgrees, RootsAgree, HistoryAgrees, NamesAgree

\* The index that restore() rebuilds is the one in memory.
LEMMA RebuiltIndex ==
  ASSUME NamesTypeOK, IndexAgrees
  PROVE  IndexOf(usernames) = walletToUsername
<1>1. ASSUME NEW w \in Wallets
      PROVE  IndexOf(usernames)[w] = walletToUsername[w]
  <2>1. CASE \E n \in DOMAIN usernames : usernames[n].owner = w
    <3>1. PICK n \in DOMAIN usernames : usernames[n].owner = w
      BY <2>1
    <3>2. \A m \in DOMAIN usernames : usernames[m].owner = w => m = n
      BY SMT, Z3, <3>1 DEF NamesTypeOK, IndexAgrees
    <3>3. (CHOOSE m \in DOMAIN usernames : usernames[m].owner = w) = n
      BY <3>1, <3>2
    <3>. QED
      BY SMT, Z3, <2>1, <3>1, <3>3 DEF IndexOf, NamesTypeOK, IndexAgrees
  <2>2. CASE ~ \E n \in DOMAIN usernames : usernames[n].owner = w
    <3>1. walletToUsername[w] \notin Names
      BY <2>2 DEF IndexAgrees
    <3>2. walletToUsername[w] = Absent
      BY <3>1 DEF NamesTypeOK
    <3>. QED
      BY <2>2, <3>2 DEF IndexOf
  <2>. QED
    BY <2>1, <2>2
<1>. QED
  BY <1>1 DEF IndexOf, NamesTypeOK

\* What the file holds, field by field.
LEMMA FileHolds ==
  ASSUME file = Saved
  PROVE  /\ file.accounts = accounts /\ file.usernames = usernames
         /\ file.history = history /\ file.roots = rootWallets
         /\ file.validators = validators
BY DEF Saved

\* A restart changes nothing but the file's reader.
LEMMA RestoreChangesNothing ==
  ASSUME NamesInv, RestoreNames
  PROVE  UNCHANGED nameVars
<1>1. walletToUsername' = walletToUsername
  BY FileHolds, RebuiltIndex DEF NamesInv, RestoreNames
<1>. QED
  BY <1>1, FileHolds DEF NamesInv, RestoreNames, nameVars

----------------------------------------------------------------------------
(* A registered name.  The wallet w is free and the name n is new, or was    *)
(* held by an owner other than w, whose entry of the index is cleared.       *)

\* The index after a registration, wallet by wallet.
LEMMA RegisteredIndex ==
  ASSUME NamesTypeOK, IndexAgrees,
         NEW n \in Names, NEW w \in Wallets, NEW i \in NameIdentities,
         RegisterUsername(n, w, i)
  PROVE  /\ walletToUsername' \in [Wallets -> Names \cup {Absent}]
         /\ walletToUsername'[w] = n
         /\ \A v \in Wallets \ {w} :
              walletToUsername'[v] =
                IF n \in DOMAIN usernames /\ usernames[n].owner = v
                THEN Absent ELSE walletToUsername[v]
<1>1. walletToUsername' = [Released(n) EXCEPT ![w] = n]
  BY DEF RegisterUsername
<1>2. /\ Released(n) \in [Wallets -> Names \cup {Absent}]
      /\ \A v \in Wallets :
           Released(n)[v] = IF n \in DOMAIN usernames /\ usernames[n].owner = v
                            THEN Absent ELSE walletToUsername[v]
  BY DEF NamesTypeOK, Released
<1>. QED
  BY <1>1, <1>2

\* No name but n is held by w after the registration, or was before.
LEMMA RegistrantIsFree ==
  ASSUME NamesTypeOK, IndexAgrees,
         NEW n \in Names, NEW w \in Wallets, NEW i \in NameIdentities,
         RegisterUsername(n, w, i)
  PROVE  \A m \in DOMAIN usernames : usernames[m].owner # w
<1>1. walletToUsername[w] = Absent
  BY DEF RegisterUsername, CanRegisterUsername
<1>. QED
  BY SMT, Z3, <1>1, NameConstantsAssumption DEF NamesTypeOK, IndexAgrees

\* registerUsername preserves the invariant.
LEMMA RegisterPreserves ==
  ASSUME NamesInv,
         NEW n \in Names, NEW w \in Wallets, NEW i \in NameIdentities,
         RegisterUsername(n, w, i)
  PROVE  NamesInv'
<1>. DEFINE record == [owner |-> w, identity |-> i, registeredAt |-> today]
<1>0. NamesTypeOK /\ IndexAgrees /\ RootsAgree /\ HistoryAgrees
  BY DEF NamesInv
<1>1. /\ usernames' = With(usernames, n, record)
      /\ rootWallets' = [rootWallets EXCEPT ![i] = w]
      /\ rootWallets[i] \in {Absent, w}
      /\ history' = [history EXCEPT ![n] = Append(@, record)]
      /\ today' = today /\ validators' = validators
      /\ file' = Saved'
  BY DEF RegisterUsername, CanRegisterUsername, SaveNames
<1>2. record \in Records /\ record.owner = w /\ record.identity = i
  BY <1>0 DEF NamesTypeOK, Records
<1>. HIDE DEF record
<1>3. /\ DOMAIN usernames' = DOMAIN usernames \cup {n}
      /\ usernames'[n] = record
      /\ \A m \in DOMAIN usernames : m # n => usernames'[m] = usernames[m]
      /\ usernames' = [m \in DOMAIN usernames' |-> usernames'[m]]
  BY <1>1 DEF With
<1>4. /\ history'[n] \in Seq(Records)
      /\ history'[n] # <<>>
      /\ history'[n][Len(history'[n])] = record
  <2>1. history'[n] = Append(history[n], record) /\ history[n] \in Seq(Records)
    BY <1>0, <1>1 DEF NamesTypeOK
  <2>. QED
    BY SMT, Z3, <1>2, <2>1, AppendLast
<1>5. NamesTypeOK'
  <2>1. DOMAIN usernames' \subseteq Names
    BY <1>0, <1>3 DEF NamesTypeOK
  <2>2. \A m \in DOMAIN usernames' : usernames'[m] \in Records
    BY <1>0, <1>2, <1>3 DEF NamesTypeOK
  <2>3. history' \in [Names -> Seq(Records)]
    BY <1>0, <1>1, <1>4 DEF NamesTypeOK
  <2>4. rootWallets' \in [NameIdentities -> Wallets \cup {Absent}]
    BY <1>0, <1>1 DEF NamesTypeOK
  <2>5. walletToUsername' \in [Wallets -> Names \cup {Absent}]
    BY <1>0, RegisteredIndex
  <2>. QED
    BY <1>0, <1>1, <1>3, <2>1, <2>2, <2>3, <2>4, <2>5 DEF NamesTypeOK
<1>6. IndexAgrees'
  <2>. SUFFICES ASSUME NEW v \in Wallets, NEW m \in Names
                PROVE  walletToUsername'[v] = m <=>
                         m \in DOMAIN usernames' /\ usernames'[m].owner = v
    BY DEF IndexAgrees
  <2>1. CASE v = w
    BY SMT, Z3, <1>0, <1>2, <1>3, <2>1, RegisteredIndex, RegistrantIsFree
  <2>2. CASE v # w
    <3>1. walletToUsername'[v] =
            IF n \in DOMAIN usernames /\ usernames[n].owner = v
            THEN Absent ELSE walletToUsername[v]
      BY SMT, Z3, <1>0, <2>2, RegisteredIndex
    <3>. QED
      BY SMT, Z3, <1>0, <1>2, <1>3, <2>2, <3>1, NameConstantsAssumption DEF
           IndexAgrees
  <2>. QED
    BY <2>1, <2>2
<1>7. RootsAgree'
  <2>. SUFFICES ASSUME NEW m \in DOMAIN usernames'
                PROVE  rootWallets'[usernames'[m].identity] = usernames'[m].owner
    BY DEF RootsAgree
  <2>1. CASE m = n
    BY <1>0, <1>1, <1>2, <1>3, <2>1 DEF NamesTypeOK
  <2>2. CASE m # n
    <3>1. m \in DOMAIN usernames /\ usernames'[m] = usernames[m]
      BY <1>3, <2>2
    <3>2. /\ usernames[m].owner \in Wallets
          /\ usernames[m].identity \in NameIdentities
      BY <1>0, <3>1 DEF NamesTypeOK, Records
    <3>3. usernames[m].identity # i
      BY SMT, Z3, <1>0, <1>1, <3>1, <3>2, RegistrantIsFree,
           NameConstantsAssumption DEF RootsAgree
    <3>. QED
      BY <1>0, <1>1, <3>1, <3>2, <3>3 DEF RootsAgree, NamesTypeOK
  <2>. QED
    BY <2>1, <2>2
<1>8. HistoryAgrees'
  BY SMT, Z3, <1>0, <1>1, <1>3, <1>4 DEF HistoryAgrees, NamesTypeOK
<1>. QED
  BY <1>1, <1>5, <1>6, <1>7, <1>8 DEF NamesInv

----------------------------------------------------------------------------
(* The other actions.                                                       *)

\* A step that leaves the names and what they rest on alone.
LEMMA NamesUntouched ==
  ASSUME NamesInv, today' \in Nat, IsFiniteSet(DOMAIN validators'),
         UNCHANGED <<usernames, walletToUsername, history, rootWallets>>,
         file' = Saved'
  PROVE  NamesInv'
<1>1. NamesTypeOK'
  BY DEF NamesInv, NamesTypeOK
<1>2. IndexAgrees' /\ RootsAgree' /\ HistoryAgrees'
  BY SMT, Z3 DEF NamesInv, IndexAgrees, RootsAgree, HistoryAgrees
<1>. QED
  BY <1>1, <1>2 DEF NamesInv

\* The set of validators stays finite, and a set at its minimum stays there.
LEMMA ValidatorsKept ==
  ASSUME NamesTypeOK,
         NEW w,
         LeaveValidatorSet(w) \/ \E stake \in Stakes : JoinValidatorSet(w, stake)
  PROVE  /\ IsFiniteSet(DOMAIN validators')
         /\ Cardinality(DOMAIN validators) >= MinValidators
              => Cardinality(DOMAIN validators') >= MinValidators
<1>1. /\ IsFiniteSet(DOMAIN validators)
      /\ Cardinality(DOMAIN validators) \in Nat
      /\ MinValidators \in Nat
  BY FS_CardinalityType, NameConstantsAssumption DEF NamesTypeOK
<1>2. CASE LeaveValidatorSet(w)
  <2>1. DOMAIN validators' = DOMAIN validators \ {w} /\ w \in DOMAIN validators
    BY <1>2 DEF LeaveValidatorSet, Without
  <2>2. /\ IsFiniteSet(DOMAIN validators')
        /\ Cardinality(DOMAIN validators') = Cardinality(DOMAIN validators) - 1
    BY SMT, Z3, <1>1, <2>1, FS_RemoveElement
  <2>. QED
    BY SMT, Z3, <1>1, <1>2, <2>2 DEF LeaveValidatorSet, MayLeave
<1>3. CASE \E stake \in Stakes : JoinValidatorSet(w, stake)
  <2>1. DOMAIN validators' = DOMAIN validators \cup {w} /\ w \notin DOMAIN validators
    BY <1>3 DEF JoinValidatorSet, With
  <2>2. /\ IsFiniteSet(DOMAIN validators')
        /\ Cardinality(DOMAIN validators') = Cardinality(DOMAIN validators) + 1
    BY SMT, Z3, <1>1, <2>1, FS_AddElement
  <2>. QED
    BY SMT, Z3, <1>1, <2>2
<1>. QED
  BY <1>2, <1>3

\* An identity that gains its root had none, so no name depends on it.
LEMMA RootPreserves ==
  ASSUME NamesInv, NEW w \in Wallets, RegisterRoot(w)
  PROVE  NamesInv'
<1>1. /\ rootWallets[IdentityOf[w]] = Absent
      /\ rootWallets' = [rootWallets EXCEPT ![IdentityOf[w]] = w]
      /\ UNCHANGED <<today, usernames, walletToUsername, history, validators>>
      /\ file' = Saved'
  BY DEF RegisterRoot, SaveNames
<1>2. NamesTypeOK'
  BY SMT, Z3, <1>1, NameConstantsAssumption DEF NamesInv, NamesTypeOK
<1>3. RootsAgree'
  <2>1. ASSUME NEW n \in DOMAIN usernames
        PROVE  rootWallets'[usernames[n].identity] = usernames[n].owner
    <3>1. /\ usernames[n].owner \in Wallets
          /\ usernames[n].identity \in NameIdentities
          /\ rootWallets[usernames[n].identity] = usernames[n].owner
      BY DEF NamesInv, NamesTypeOK, Records, RootsAgree
    <3>. QED
      BY <1>1, <3>1, NameConstantsAssumption DEF NamesInv, NamesTypeOK
  <2>. QED
    BY <1>1, <2>1 DEF RootsAgree
<1>4. IndexAgrees' /\ HistoryAgrees'
  BY <1>1 DEF NamesInv, IndexAgrees, HistoryAgrees
<1>. QED
  BY <1>1, <1>2, <1>3, <1>4 DEF NamesInv

\* The empty maps of a new chain agree.
LEMMA InitNamesInv == NamesInit => NamesInv
<1>. SUFFICES ASSUME NamesInit PROVE NamesInv
  BY SMT, Z3
<1>1. DOMAIN usernames = {} /\ DOMAIN validators = {}
  BY SMT, Z3 DEF NamesInit
<1>2. usernames = [n \in DOMAIN usernames |-> usernames[n]]
  BY SMT, Z3 DEF NamesInit
<1>3. NamesTypeOK
  BY SMT, Z3, <1>1, <1>2, FS_EmptySet DEF NamesInit, NamesTypeOK
<1>. QED
  BY <1>1, <1>3, NameConstantsAssumption DEF NamesInit, NamesInv, IndexAgrees,
       RootsAgree, HistoryAgrees

\* Every step preserves the invariant.
LEMMA NextNamesInv == NamesInv /\ [NamesNext]_nameVars => NamesInv'
<1>. SUFFICES ASSUME NamesInv, [NamesNext]_nameVars PROVE NamesInv'
  BY SMT, Z3
<1>0. today \in Nat /\ IsFiniteSet(DOMAIN validators) /\ file = Saved
  BY DEF NamesInv, NamesTypeOK
<1>1. ASSUME NEW w \in Wallets, RegisterAccount(w) PROVE NamesInv'
  BY <1>0, <1>1, NamesUntouched DEF RegisterAccount, SaveNames
<1>2. ASSUME NEW w \in Wallets, RecordActivity(w) PROVE NamesInv'
  BY <1>0, <1>2, NamesUntouched DEF RecordActivity, SaveNames
<1>3. ASSUME NEW n \in Names, NEW w \in Wallets, NEW i \in NameIdentities,
             RegisterUsername(n, w, i)
      PROVE  NamesInv'
  BY <1>3, RegisterPreserves
<1>4. ASSUME NEW w \in Wallets, RegisterRoot(w) PROVE NamesInv'
  BY <1>4, RootPreserves
<1>5. ASSUME NEW w \in Candidates, NEW stake \in Stakes,
             JoinValidatorSet(w, stake)
      PROVE  NamesInv'
  <2>1. IsFiniteSet(DOMAIN validators')
    BY <1>5, ValidatorsKept DEF NamesInv
  <2>. QED
    BY <1>0, <1>5, <2>1, NamesUntouched DEF JoinValidatorSet, SaveNames
<1>6. ASSUME NEW w \in Candidates, LeaveValidatorSet(w) PROVE NamesInv'
  <2>1. IsFiniteSet(DOMAIN validators')
    BY <1>6, ValidatorsKept DEF NamesInv
  <2>. QED
    BY <1>0, <1>6, <2>1, NamesUntouched DEF LeaveValidatorSet, SaveNames
<1>7. ASSUME UNCHANGED nameVars PROVE NamesInv'
  <2>1. file' = Saved'
    BY <1>0, <1>7 DEF nameVars, Saved
  <2>. QED
    BY <1>0, <1>7, <2>1, NamesUntouched DEF nameVars
<1>8. ASSUME RestoreNames PROVE NamesInv'
  BY <1>7, <1>8, RestoreChangesNothing
<1>9. ASSUME NextDay PROVE NamesInv'
  <2>1. file' = Saved'
    BY <1>0, <1>9 DEF NextDay, Saved
  <2>. QED
    BY SMT, Z3, <1>0, <1>9, <2>1, NamesUntouched DEF NextDay
<1>. QED
  BY <1>1, <1>2, <1>3, <1>4, <1>5, <1>6, <1>7, <1>8, <1>9 DEF NamesNext

\* A step takes nothing back: the guards of registerUsername and
\* registerIdentity keep the roots, its release rule the names, and leaving
\* the validator set is refused at the minimum.
LEMMA StepKeepsHoldings ==
  NamesInv /\ [NamesNext]_nameVars => [HoldingsKept]_nameVars
<1>. SUFFICES ASSUME NamesInv, NamesNext PROVE HoldingsKept \/ UNCHANGED nameVars
  BY SMT, Z3
<1>0. NamesTypeOK /\ IndexAgrees
  BY DEF NamesInv
<1>1. ASSUME NEW w \in Wallets, RegisterAccount(w) \/ RecordActivity(w)
      PROVE  HoldingsKept
  BY <1>1 DEF RegisterAccount, RecordActivity, HoldingsKept
<1>2. ASSUME NEW n \in Names, NEW w \in Wallets, NEW i \in NameIdentities,
             RegisterUsername(n, w, i)
      PROVE  HoldingsKept
  <2>1. /\ \A m \in DOMAIN usernames : m # n => usernames'[m] = usernames[m]
        /\ DOMAIN usernames \subseteq DOMAIN usernames'
        /\ n \in DOMAIN usernames => Releasable(n)
    BY <1>2 DEF RegisterUsername, CanRegisterUsername, With
  <2>2. \A j \in NameIdentities :
          rootWallets[j] # Absent => rootWallets'[j] = rootWallets[j]
    BY <1>0, <1>2 DEF RegisterUsername, CanRegisterUsername, NamesTypeOK
  <2>3. validators' = validators
    BY <1>2 DEF RegisterUsername
  <2>. QED
    BY <2>1, <2>2, <2>3 DEF HoldingsKept
<1>3. ASSUME NEW w \in Wallets, RegisterRoot(w) PROVE HoldingsKept
  BY <1>0, <1>3, NameConstantsAssumption DEF RegisterRoot, HoldingsKept,
       NamesTypeOK
<1>4. ASSUME NEW w \in Candidates,
             LeaveValidatorSet(w)
               \/ \E stake \in Stakes : JoinValidatorSet(w, stake)
      PROVE  HoldingsKept
  <2>1. Cardinality(DOMAIN validators) >= MinValidators
          => Cardinality(DOMAIN validators') >= MinValidators
    BY <1>0, <1>4, ValidatorsKept
  <2>2. UNCHANGED <<usernames, rootWallets>>
    BY <1>4 DEF LeaveValidatorSet, JoinValidatorSet
  <2>. QED
    BY <2>1, <2>2 DEF HoldingsKept
<1>5. ASSUME RestoreNames PROVE UNCHANGED nameVars
  BY <1>5, RestoreChangesNothing
<1>6. ASSUME NextDay PROVE HoldingsKept
  BY <1>6 DEF NextDay, HoldingsKept
<1>. QED
  BY <1>1, <1>2, <1>3, <1>4, <1>5, <1>6 DEF NamesNext

----------------------------------------------------------------------------
(* The theorems.                                                            *)

\* The inductive invariant holds in every reachable state.
THEOREM NamesInvariant == NamesSpec => []NamesInv
BY InitNamesInv, NextNamesInv, PTL DEF NamesSpec

\* The names, the index from wallets to names, the roots of the identities
\* and the histories agree, through releases of inactive owners and through
\* restarts that rebuild the index: a wallet and an identity have at most one
\* name each.
THEOREM NamesConsistent == NamesSpec => []NamesAgree
BY NamesInvariant, InvImpliesAgree, PTL

\* No step and no restart takes back a root, a name whose owner is active, or
\* the minimum of the validator set.
THEOREM HoldingsStable == NamesSpec => HoldingsPermanent
BY NamesInvariant, StepKeepsHoldings, PTL DEF NamesSpec, HoldingsPermanent

----------------------------------------------------------------------------
(* Presence.                                                                *)

SignedRequests ==
  [op : {"publish", "remove"}, family : Families, identity : Identities,
   issuedAt : Int]

Stored == [issuedAt : Int, expiresAt : Int]

\* The times at which an identity has signed.
Signed(i) == {r.issuedAt : r \in {q \in requests : q.identity = i}}

Types ==
  /\ now \in Int
  /\ requests \subseteq SignedRequests
  /\ seq \in [Families -> [Identities -> Int]]
  /\ removed \in [Families -> [Identities -> Int]]
  /\ disk \in [Families -> [Identities -> Stored \cup {None}]]
  /\ memory \in [Families -> [Identities -> Stored \cup {None}]]

\* nextIssuedAt always finds the last time it gave out.
LastSigned ==
  \A i \in Identities :
    Signed(i) # {} => \E t \in Signed(i) : \A u \in Signed(i) : u <= t

\* The inductive invariant: a removal claims its issuedAt like a publication.
PresenceInv ==
  /\ Types
  /\ LastSigned
  /\ \A f \in Families, i \in Identities : removed[f][i] <= seq[f][i]
  /\ ReplaysRefused

----------------------------------------------------------------------------

\* The maps a handler finds are what is stored.
LEMMA MapsAreStored == PresenceInv => Maps = disk
BY DEF PresenceInv, ReplaysRefused, Maps

\* An entry of one family and identity is replaced.
LEMMA NestedUpdate ==
  ASSUME NEW A, NEW B, NEW V, NEW F \in [A -> [B -> V]],
         NEW a \in A, NEW b \in B, NEW v \in V
  PROVE  [F EXCEPT ![a][b] = v] \in [A -> [B -> V]]
BY SMT, Z3

\* A request that passes claimIssuedAt and sets or deletes its entry.
LEMMA StoreStep ==
  ASSUME PresenceInv, NEW r \in requests, MayClaim(r), Claim(r),
         NEW entry \in Stored \cup {None}, Store(r, entry),
         entry # None => entry.issuedAt = r.issuedAt,
         \/ removed' = removed
         \/ /\ entry = None
            /\ removed' = [removed EXCEPT ![r.family][r.identity] = r.issuedAt],
         UNCHANGED <<now, requests>>
  PROVE  PresenceInv'
<1>. DEFINE f == r.family
            i == r.identity
<1>0. Types /\ LastSigned /\ ReplaysRefused /\ Maps = disk
  BY MapsAreStored DEF PresenceInv
<1>1. f \in Families /\ i \in Identities /\ r.issuedAt \in Int
  BY <1>0 DEF Types, SignedRequests
<1>2. /\ seq' = [seq EXCEPT ![f][i] = r.issuedAt]
      /\ r.issuedAt > seq[f][i]
      /\ disk' = [disk EXCEPT ![f][i] = entry]
      /\ memory' = disk'
  BY <1>0 DEF Claim, MayClaim, Store
<1>. HIDE DEF f, i
<1>3. Types'
  <2>1. seq' \in [Families -> [Identities -> Int]]
    BY SMT, Z3, <1>0, <1>1, <1>2, NestedUpdate DEF Types
  <2>2. disk' \in [Families -> [Identities -> Stored \cup {None}]]
    BY <1>0, <1>1, <1>2, NestedUpdate DEF Types
  <2>3. removed' \in [Families -> [Identities -> Int]]
    <3>1. \/ removed' = removed
          \/ removed' = [removed EXCEPT ![f][i] = r.issuedAt]
      BY DEF f, i
    <3>2. removed \in [Families -> [Identities -> Int]]
      BY <1>0 DEF Types
    <3>3. [removed EXCEPT ![f][i] = r.issuedAt] \in [Families -> [Identities -> Int]]
      BY <1>1, <3>2, NestedUpdate
    <3>. QED
      BY <3>1, <3>2, <3>3
  <2>. QED
    BY <1>0, <1>2, <2>1, <2>2, <2>3 DEF Types
<1>4. LastSigned'
  BY <1>0 DEF LastSigned, Signed
<1>5. ASSUME NEW g \in Families, NEW j \in Identities, g # f \/ j # i
      PROVE  /\ seq'[g][j] = seq[g][j] /\ disk'[g][j] = disk[g][j]
             /\ removed'[g][j] = removed[g][j]
  BY SMT, Z3, <1>0, <1>1, <1>2, <1>5 DEF Types, f, i
<1>6. /\ seq'[f][i] = r.issuedAt /\ disk'[f][i] = entry
      /\ \/ removed'[f][i] = removed[f][i]
         \/ entry = None /\ removed'[f][i] = r.issuedAt
  BY SMT, Z3, <1>0, <1>1, <1>2 DEF Types, f, i
<1>7. removed[f][i] <= seq[f][i] /\ removed[f][i] \in Int /\ seq[f][i] \in Int
  BY SMT, Z3, <1>0, <1>1 DEF PresenceInv, Types
<1>8. \A g \in Families, j \in Identities : removed'[g][j] <= seq'[g][j]
  BY SMT, Z3, <1>1, <1>2, <1>5, <1>6, <1>7 DEF PresenceInv
<1>9. \A g \in Families, j \in Identities : disk'[g][j] # None =>
        disk'[g][j].issuedAt <= seq'[g][j] /\ disk'[g][j].issuedAt > removed'[g][j]
  BY SMT, Z3, <1>0, <1>1, <1>2, <1>5, <1>6, <1>7 DEF ReplaysRefused
<1>10. ReplaysRefused'
  BY <1>2, <1>9 DEF ReplaysRefused
<1>. QED
  BY <1>3, <1>4, <1>8, <1>10 DEF PresenceInv

\* Steps that only delete entries of leases, from both copies or, while the
\* maps are not loaded, from storage.
LEMMA DeleteStep ==
  ASSUME PresenceInv, UNCHANGED <<now, requests, seq, removed>>,
         disk' \in [Families -> [Identities -> Stored \cup {None}]],
         memory' \in [Families -> [Identities -> Stored \cup {None}]],
         \A f \in Families, i \in Identities : disk'[f][i] \in {disk[f][i], None},
         loaded' => memory' = disk'
  PROVE  PresenceInv'
<1>1. Types' /\ LastSigned'
  BY DEF PresenceInv, Types, LastSigned, Signed
<1>2. ReplaysRefused'
  BY DEF PresenceInv, ReplaysRefused
<1>. QED
  BY <1>1, <1>2 DEF PresenceInv

\* cleanupExpired, on one map.
LEMMA KeptEntries ==
  ASSUME NEW map \in [Families -> [Identities -> Stored \cup {None}]],
         NEW expired
  PROVE  LET kept == [map EXCEPT !["presence"] =
                        [i \in Identities |-> IF i \in expired THEN None ELSE @[i]]]
         IN  /\ kept \in [Families -> [Identities -> Stored \cup {None}]]
             /\ \A f \in Families, i \in Identities : kept[f][i] \in {map[f][i], None}
BY DEF Families

\* A new request is signed later than all of its identity's.
LEMMA SignStep ==
  ASSUME PresenceInv, NEW i \in Identities, NEW op \in {"publish", "remove"},
         NEW family \in Families, SignPresence(i, op, family)
  PROVE  PresenceInv'
<1>. DEFINE times == Signed(i)
            last == CHOOSE t \in times : \A u \in times : u <= t
            new == [op |-> op, family |-> family, identity |-> i,
                    issuedAt |-> NextIssuedAt(i)]
<1>0. Types /\ LastSigned /\ ReplaysRefused
  BY DEF PresenceInv
<1>1. times \subseteq Int
  BY <1>0 DEF Types, SignedRequests, Signed
<1>2. times # {} => last \in times /\ \A u \in times : u <= last
  BY <1>0 DEF LastSigned
<1>3. NextIssuedAt(i) = IF times # {} /\ last >= now THEN last + 1 ELSE now
  BY DEF NextIssuedAt, Signed
<1>. HIDE DEF last, times
<1>4. NextIssuedAt(i) \in Int /\ \A u \in times : u <= NextIssuedAt(i)
  <2>1. now \in Int
    BY <1>0 DEF Types
  <2>2. CASE times # {} /\ last >= now
    <3>1. NextIssuedAt(i) = last + 1 /\ last \in Int
      BY <1>1, <1>2, <1>3, <2>2
    <3>. QED
      BY SMT, Z3, <1>1, <1>2, <2>2, <3>1
  <2>3. CASE ~(times # {} /\ last >= now)
    <3>1. NextIssuedAt(i) = now
      BY <1>3, <2>3
    <3>2. ASSUME NEW u \in times PROVE u <= now
      <4>1. u \in Int /\ last \in Int /\ u <= last /\ ~(last >= now)
        BY <1>1, <1>2, <2>3
      <4>. QED
        BY SMT, Z3, <2>1, <4>1
    <3>. QED
      BY <2>1, <3>1, <3>2
  <2>. QED
    BY <2>2, <2>3
<1>5. /\ requests' = requests \cup {new}
      /\ UNCHANGED <<now, seq, disk, memory, loaded, removed>>
  BY DEF SignPresence
<1>6. new \in SignedRequests /\ new.identity = i /\ new.issuedAt = NextIssuedAt(i)
  BY <1>4 DEF SignedRequests
<1>. HIDE DEF new
<1>7. Types'
  BY <1>0, <1>5, <1>6 DEF Types
<1>8. LastSigned'
  <2>. SUFFICES ASSUME NEW j \in Identities, Signed(j)' # {}
                PROVE  \E t \in Signed(j)' : \A u \in Signed(j)' : u <= t
    BY DEF LastSigned
  <2>1. CASE j = i
    <3>1. Signed(j)' = times \cup {NextIssuedAt(i)}
      BY <1>5, <1>6, <2>1 DEF Signed, times
    <3>. QED
      BY SMT, Z3, <1>4, <3>1
  <2>2. CASE j # i
    <3>1. Signed(j)' = Signed(j)
      BY <1>5, <1>6, <2>2 DEF Signed
    <3>. QED
      BY <1>0, <3>1 DEF LastSigned
  <2>. QED
    BY <2>1, <2>2
<1>9. ReplaysRefused'
  BY <1>0, <1>5 DEF ReplaysRefused
<1>. QED
  BY <1>5, <1>7, <1>8, <1>9 DEF PresenceInv

----------------------------------------------------------------------------

\* An object that starts has nothing stored and no request.
LEMMA InitPresenceInv == PresenceInit => PresenceInv
<1>. SUFFICES ASSUME PresenceInit PROVE PresenceInv
  BY SMT, Z3
<1>1. Types
  BY SMT, Z3 DEF PresenceInit, Types, Nothing
<1>2. LastSigned
  BY DEF PresenceInit, LastSigned, Signed
<1>3. ReplaysRefused
  BY DEF PresenceInit, ReplaysRefused, Nothing
<1>. QED
  BY SMT, Z3, <1>1, <1>2, <1>3 DEF PresenceInit, PresenceInv

\* Every step preserves the invariant.
LEMMA NextPresenceInv ==
  PresenceInv /\ [PresenceNext]_presenceVars => PresenceInv'
<1>. SUFFICES ASSUME PresenceInv, [PresenceNext]_presenceVars PROVE PresenceInv'
  BY SMT, Z3
<1>0. /\ Types /\ LastSigned /\ ReplaysRefused /\ Maps = disk
      /\ requests \subseteq SignedRequests
  BY MapsAreStored DEF PresenceInv, Types
<1>1. ASSUME NEW r \in requests, HandlePublish(r) PROVE PresenceInv'
  <2>1. PICK expiresAt \in Int :
          Store(r, [issuedAt |-> r.issuedAt, expiresAt |-> expiresAt])
    <3>1. r.issuedAt \in Int /\ now \in Int /\ Ttl \in Int
      BY SMT, Z3, <1>0, PresenceAssumption DEF Types, SignedRequests
    <3>2. now + Ttl \in Int /\ r.issuedAt + Ttl \in Int
      BY SMT, Z3, <3>1
    <3>. QED
      BY <1>1, <3>2 DEF HandlePublish
  <2>. DEFINE entry == [issuedAt |-> r.issuedAt, expiresAt |-> expiresAt]
  <2>2. entry \in Stored /\ entry.issuedAt = r.issuedAt
    BY <1>0 DEF Stored, SignedRequests
  <2>3. Store(r, entry)
    BY <2>1
  <2>. HIDE DEF entry
  <2>. QED
    BY <1>1, <2>2, <2>3, StoreStep DEF HandlePublish
<1>2. ASSUME NEW r \in requests, HandleRemove(r) PROVE PresenceInv'
  BY <1>2, StoreStep DEF HandleRemove
<1>3. ASSUME NEW r \in requests, HandlePrekeyPublish(r) PROVE PresenceInv'
  <2>. DEFINE entry == [issuedAt |-> r.issuedAt, expiresAt |-> 0]
  <2>1. entry \in Stored /\ entry.issuedAt = r.issuedAt
    BY SMT, Z3, <1>0 DEF Stored, SignedRequests
  <2>2. Store(r, entry)
    BY <1>3 DEF HandlePrekeyPublish
  <2>. HIDE DEF entry
  <2>. QED
    BY <1>3, <2>1, <2>2, StoreStep DEF HandlePrekeyPublish
<1>4. ASSUME NEW r \in requests, HandlePrekeyRemove(r) PROVE PresenceInv'
  BY <1>4, StoreStep DEF HandlePrekeyRemove
<1>5. ASSUME NEW r \in requests, LostAfterClaim(r) PROVE PresenceInv'
  <2>1. /\ r.family \in Families /\ r.identity \in Identities
        /\ r.issuedAt \in Int
    BY <1>0 DEF SignedRequests
  <2>2. /\ seq' = [seq EXCEPT ![r.family][r.identity] = r.issuedAt]
        /\ r.issuedAt > seq[r.family][r.identity]
        /\ UNCHANGED <<now, requests, disk, removed>>
        /\ memory' = Nothing /\ loaded' = FALSE
    BY <1>5 DEF LostAfterClaim, MayClaim, Claim
  <2>3. seq' \in [Families -> [Identities -> Int]]
    BY <1>0, <2>1, <2>2, NestedUpdate DEF Types
  <2>4. Types' /\ LastSigned'
    BY <1>0, <2>2, <2>3 DEF Types, Nothing, LastSigned, Signed
  <2>5. \A f \in Families, i \in Identities :
          /\ seq[f][i] \in Int /\ seq'[f][i] \in Int /\ removed[f][i] \in Int
          /\ seq[f][i] <= seq'[f][i]
    BY SMT, Z3, <1>0, <2>1, <2>2, <2>3 DEF Types
  <2>6. \A f \in Families, i \in Identities : disk[f][i] # None =>
          disk[f][i].issuedAt \in Int
    BY SMT, Z3, <1>0 DEF Types, Stored
  <2>7. \A f \in Families, i \in Identities : removed'[f][i] <= seq'[f][i]
    BY SMT, Z3, <2>2, <2>5 DEF PresenceInv
  <2>8. ReplaysRefused'
    BY SMT, Z3, <1>0, <2>2, <2>5, <2>6 DEF ReplaysRefused
  <2>. QED
    BY <2>4, <2>7, <2>8 DEF PresenceInv
<1>6. ASSUME NEW i \in Identities, HandleQuery(i) PROVE PresenceInv'
  <2>1. /\ UNCHANGED <<now, requests, seq, removed>>
        /\ \/ memory' = disk /\ disk' = [disk EXCEPT !["presence"][i] = @]
           \/ /\ memory' = [disk EXCEPT !["presence"][i] = None]
              /\ disk' = [disk EXCEPT !["presence"][i] = memory'["presence"][i]]
    BY <1>0, <1>6 DEF HandleQuery
  <2>2. disk' \in {disk, [disk EXCEPT !["presence"][i] = None]} /\ memory' = disk'
    BY SMT, Z3, <1>0, <2>1 DEF Types, Families
  <2>. QED
    BY SMT, Z3, <1>0, <2>1, <2>2, DeleteStep DEF Types, Families
<1>7. ASSUME NEW w \in Sockets, HandleSubscribe(w) \/ WebSocketClose(w)
      PROVE  PresenceInv'
  BY SMT, Z3, <1>0, <1>7, DeleteStep DEF HandleSubscribe, WebSocketClose, Types,
       ReplaysRefused
<1>8. ASSUME CleanupExpired PROVE PresenceInv'
  <2>. DEFINE expired == {i \in Identities : memory["presence"][i] # None
                                              /\ IsExpired(memory["presence"][i])}
              kept(map) == [map EXCEPT !["presence"] =
                 [i \in Identities |-> IF i \in expired THEN None ELSE @[i]]]
  <2>1. /\ UNCHANGED <<now, requests, seq, removed, loaded>>
        /\ memory' = kept(memory) /\ disk' = kept(disk)
    BY <1>8 DEF CleanupExpired
  <2>. HIDE DEF expired
  <2>2. /\ memory' \in [Families -> [Identities -> Stored \cup {None}]]
        /\ disk' \in [Families -> [Identities -> Stored \cup {None}]]
        /\ \A f \in Families, i \in Identities : disk'[f][i] \in {disk[f][i], None}
    BY SMT, Z3, <1>0, <2>1, KeptEntries DEF Types
  <2>3. loaded' => memory' = disk'
    BY <1>0, <2>1 DEF ReplaysRefused
  <2>. QED
    BY <2>1, <2>2, <2>3, DeleteStep
<1>9. ASSUME EvictPresence PROVE PresenceInv'
  BY <1>0, <1>9, DeleteStep DEF EvictPresence, Types, Nothing
<1>10. ASSUME NEW signer \in PresenceSigners,
              SignPresence(signer[1], signer[2], signer[3])
       PROVE  PresenceInv'
  <2>1. /\ signer[1] \in Identities /\ signer[2] \in {"publish", "remove"}
        /\ signer[3] \in Families
    BY PresenceAssumption DEF Families
  <2>. QED
    BY <1>10, <2>1, SignStep
<1>11. ASSUME PresenceTick PROVE PresenceInv'
  <2>1. now' \in Int /\ UNCHANGED <<requests, seq, disk, memory, loaded, removed>>
    BY SMT, Z3, <1>0, <1>11 DEF PresenceTick, Types
  <2>. QED
    BY <1>0, <2>1 DEF PresenceInv, Types, LastSigned, Signed, ReplaysRefused
<1>12. ASSUME UNCHANGED presenceVars PROVE PresenceInv'
  BY <1>0, <1>12 DEF presenceVars, PresenceInv, Types, LastSigned, Signed,
       ReplaysRefused
<1>. QED
  BY <1>1, <1>2, <1>3, <1>4, <1>5, <1>6, <1>7, <1>8, <1>9, <1>10, <1>11, <1>12
       DEF PresenceNext

\* The inductive invariant holds in every reachable state.
THEOREM PresenceInvariant == PresenceSpec => []PresenceInv
BY InitPresenceInv, NextPresenceInv, PTL DEF PresenceSpec

\* A request that is delivered late or again changes nothing, and what the
\* object answers from is what is stored, wherever it is lost: also between
\* claiming a request's issuedAt and writing its entry.
THEOREM ReplaysAreRefused == PresenceSpec => []ReplaysRefused
<1>1. PresenceInv => ReplaysRefused
  BY DEF PresenceInv
<1>. QED
  BY <1>1, PresenceInvariant, PTL

----------------------------------------------------------------------------
(* Discovery: matches across blocks, and their rate.                        *)

Hits == [at : Int, nth : Nat]

IsIndex(x) ==
  /\ x = [profiles |-> x.profiles, blocks |-> x.blocks, hits |-> x.hits,
          issued |-> x.issued]
  /\ x.blocks \in [Identities -> SUBSET Identities]
  /\ x.hits \in [Identities -> SUBSET Hits]

\* The state of a random match while the relay is asked, and before.
MatchAsking ==
  [who : Identities, asking : Identities, visited : SUBSET Identities,
   candidates : SUBSET Identities, blocked : [Identities -> SUBSET Identities]]

MatchStates ==
  [who : Identities, asking : Identities \cup {None},
   visited : SUBSET Identities, candidates : SUBSET Identities,
   blocked : [Identities -> SUBSET Identities]]

DiscoveryTypes ==
  /\ now \in Int
  /\ \A r \in requests : r.identity \in Identities /\ r.target \in Identities
  /\ ready \in BOOLEAN
  /\ IsIndex(stored)
  /\ ready => index = stored
  /\ matching \in [Matches -> MatchAsking \cup {None}]
  /\ granted \in [Identities -> Seq(Int)]

\* No candidate is the requester, or blocked as things were at the request.
Respects(state) ==
  \A p \in state.candidates :
    /\ p # state.who
    /\ p \notin state.blocked[state.who]
    /\ state.who \notin state.blocked[p]

\* A match under way belongs to a loaded object, and blocks only grow.
BlocksInv ==
  \A m \in Matches : matching[m] # None =>
    /\ ready
    /\ \A i \in Identities : matching[m].blocked[i] \subseteq stored.blocks[i]
    /\ Respects(matching[m])

AnswerRespects ==
  answer # None =>
    /\ answer.match # answer.who
    /\ answer.match \notin answer.blocked[answer.who]
    /\ answer.who \notin answer.blocked[answer.match]

Since(hits, t) == {hit \in hits : hit.at >= t}
GrantedSince(times, t) == {j \in 1..Len(times) : times[j] >= t}
GrantedWithin(times, t) ==
  {j \in 1..Len(times) : times[j] >= t /\ times[j] < t + RateWindow}

\* The hits of one moment are numbered, so that a new one is not among them.
Numbered(hits, at) ==
  /\ IsFiniteSet(hits)
  /\ \A hit \in hits :
       /\ hit.at <= at
       /\ hit.at = at =>
            hit.nth < Cardinality({other \in hits : other.at = at})

\* Of what was granted since less than a window ago no hit is forgotten.
Remembered(hits, times, at) ==
  \A t \in Int : t > at - RateWindow =>
    Cardinality(GrantedSince(times, t)) <= Cardinality(Since(hits, t))

\* MatchRateKept for windows that begin at any time.
WithinLimit(times) ==
  \A t \in Int : Cardinality(GrantedWithin(times, t)) <= RateLimit

RateInv ==
  \A i \in Identities :
    /\ \A j \in 1..Len(granted[i]) : granted[i][j] <= now
    /\ Numbered(stored.hits[i], now)
    /\ Remembered(stored.hits[i], granted[i], now)
    /\ WithinLimit(granted[i])

\* The inductive invariant.
DiscoveryInv == DiscoveryTypes /\ BlocksInv /\ AnswerRespects /\ RateInv

\* While the maps are loaded they are what is stored.
LEMMA IndexIsStored == DiscoveryTypes => Index = stored
BY DEF DiscoveryTypes, Index

\* A new element is one more.
LEMMA OneMore ==
  ASSUME NEW S, IsFiniteSet(S), NEW x, x \notin S
  PROVE  IsFiniteSet(S \cup {x}) /\ Cardinality(S \cup {x}) = Cardinality(S) + 1
BY SMT, Z3, FS_AddElement

\* Subsets of what is kept are finite, and have a number of elements.
LEMMA CountsAreNumbers ==
  ASSUME NEW hits, IsFiniteSet(hits), NEW times \in Seq(Int), NEW t
  PROVE  /\ IsFiniteSet(Since(hits, t))
         /\ IsFiniteSet(GrantedSince(times, t))
         /\ IsFiniteSet(GrantedWithin(times, t))
         /\ Cardinality(Since(hits, t)) \in Nat
         /\ Cardinality(GrantedSince(times, t)) \in Nat
         /\ Cardinality(GrantedWithin(times, t)) \in Nat
<1>1. Since(hits, t) \in SUBSET hits
  BY DEF Since
<1>2. /\ GrantedSince(times, t) \in SUBSET (1..Len(times))
      /\ GrantedWithin(times, t) \in SUBSET (1..Len(times))
  BY DEF GrantedSince, GrantedWithin
<1>3. IsFiniteSet(1..Len(times))
  <2>1. Len(times) \in Int
    BY SMT, Z3
  <2>. QED
    BY SMT, Z3, <2>1, FS_Interval
<1>4. /\ IsFiniteSet(Since(hits, t))
      /\ IsFiniteSet(GrantedSince(times, t))
      /\ IsFiniteSet(GrantedWithin(times, t))
  BY <1>1, <1>2, <1>3, FS_Subset
<1>. QED
  BY <1>4, FS_CardinalityType

\* The random match's own steps: the candidates stay clean, and the answer is
\* one of them.
LEMMA ProceedStep ==
  ASSUME NEW m \in Matches, NEW state \in MatchStates, NEW profiles,
         matching \in [Matches -> MatchAsking \cup {None}],
         Proceed(m, state, profiles), Respects(state), AnswerRespects
  PROVE  /\ matching' \in [Matches -> MatchAsking \cup {None}]
         /\ \A n \in Matches \ {m} : matching'[n] = matching[n]
         /\ matching'[m] # None =>
              matching'[m].blocked = state.blocked /\ Respects(matching'[m])
         /\ AnswerRespects'
<1>1. CASE \E p \in Identities :
             /\ matching' = [matching EXCEPT ![m] =
                  [state EXCEPT !.asking = p, !.visited = @ \cup {p}]]
             /\ UNCHANGED answer
  <2>1. PICK p \in Identities :
             /\ matching' = [matching EXCEPT ![m] =
                  [state EXCEPT !.asking = p, !.visited = @ \cup {p}]]
             /\ UNCHANGED answer
    BY <1>1
  <2>2. PICK next : /\ next = [state EXCEPT !.asking = p, !.visited = @ \cup {p}]
                    /\ matching' = [matching EXCEPT ![m] = next]
    BY <2>1
  <2>3. /\ next \in MatchAsking
        /\ next.blocked = state.blocked /\ next.candidates = state.candidates
        /\ next.who = state.who
    BY <2>2 DEF MatchStates, MatchAsking
  <2>4. Respects(next)
    BY <2>3 DEF Respects
  <2>5. /\ matching'[m] = next
        /\ matching' \in [Matches -> MatchAsking \cup {None}]
        /\ \A n \in Matches \ {m} : matching'[n] = matching[n]
    BY <2>2, <2>3
  <2>6. AnswerRespects'
    BY <2>1 DEF AnswerRespects
  <2>. QED
    BY <2>3, <2>4, <2>5, <2>6
<1>2. CASE /\ matching' = [matching EXCEPT ![m] = None]
           /\ IF state.candidates = {} THEN answer' = None
              ELSE \E p \in state.candidates :
                     answer' = [who |-> state.who, match |-> p,
                                blocked |-> state.blocked]
  <2>1. /\ matching'[m] = None
        /\ matching' \in [Matches -> MatchAsking \cup {None}]
        /\ \A n \in Matches \ {m} : matching'[n] = matching[n]
    BY <1>2
  <2>2. AnswerRespects'
    <3>1. CASE answer' = None
      BY <3>1 DEF AnswerRespects
    <3>2. CASE \E p \in state.candidates :
                 answer' = [who |-> state.who, match |-> p,
                            blocked |-> state.blocked]
      <4>1. PICK p \in state.candidates :
                 answer' = [who |-> state.who, match |-> p,
                            blocked |-> state.blocked]
        BY <3>2
      <4>2. /\ answer'.who = state.who /\ answer'.match = p
            /\ answer'.blocked = state.blocked
        BY <4>1
      <4>. QED
        BY <4>2 DEF Respects, AnswerRespects
    <3>. QED
      BY <1>2, <3>1, <3>2
  <2>. QED
    BY <2>1, <2>2
<1>. QED
  BY <1>1, <1>2 DEF Proceed

\* A hit with the next number is a new one.
LEMMA PushIsNew ==
  ASSUME NEW at, NEW hits, Numbered(hits, at),
         NEW push, push = [at |-> at,
                nth |-> Cardinality({other \in hits : other.at = at})]
  PROVE  push \notin hits
<1>1. SUFFICES ASSUME push \in hits PROVE FALSE
  BY SMT, Z3
<1>2. {other \in hits : other.at = at} \in SUBSET hits
  OBVIOUS
<1>3. Cardinality({other \in hits : other.at = at}) \in Nat
  BY <1>2, FS_Subset, FS_CardinalityType DEF Numbered
<1>4. push.at = at /\ push.nth = Cardinality({other \in hits : other.at = at})
  OBVIOUS
<1>5. push.nth < push.nth
  BY <1>1, <1>4 DEF Numbered
<1>. QED
  BY SMT, Z3, <1>3, <1>4, <1>5

\* One more hit: the numbering goes on.
LEMMA PushNumbers ==
  ASSUME NEW at \in Int, NEW hits \in SUBSET Hits, Numbered(hits, at),
         NEW recent, recent = {hit \in hits : hit.at > at - RateWindow},
         NEW push, push = [at |-> at,
                nth |-> Cardinality({other \in hits : other.at = at})]
  PROVE  /\ recent \cup {push} \in SUBSET Hits
         /\ Numbered(recent \cup {push}, at)
<1>. DEFINE c == Cardinality({other \in hits : other.at = at})
            pushed == recent \cup {push}
<1>1. IsFiniteSet(hits)
  BY DEF Numbered
<1>2. /\ IsFiniteSet({other \in hits : other.at = at})
      /\ IsFiniteSet(recent)
  <2>1. /\ {other \in hits : other.at = at} \in SUBSET hits
        /\ recent \in SUBSET hits
    OBVIOUS
  <2>. QED
    BY <1>1, <2>1, FS_Subset
<1>3. c \in Nat
  BY <1>2, FS_CardinalityType
<1>4. push.at = at /\ push.nth = c
  OBVIOUS
<1>5. push \in Hits
  BY SMT, Z3, <1>3, <1>4 DEF Hits
<1>. HIDE DEF c
<1>6. push \notin hits
  BY PushIsNew
<1>7. {other \in pushed : other.at = at} = {other \in hits : other.at = at} \cup {push}
  <2>1. \A hit \in hits : hit.at = at => hit \in recent
    <3>1. at > at - RateWindow
      BY SMT, Z3, DiscoveryAssumption
    <3>. QED
      BY <3>1
  <2>. QED
    BY <1>4, <2>1
<1>8. Cardinality({other \in pushed : other.at = at}) = c + 1
  <2>1. push \notin {other \in hits : other.at = at}
    BY <1>6
  <2>. QED
    BY <1>2, <1>7, <2>1, OneMore DEF c
<1>9. IsFiniteSet(pushed)
  <2>1. push \notin recent
    BY <1>6
  <2>. QED
    BY <1>2, <2>1, OneMore
<1>10. ASSUME NEW hit \in pushed
       PROVE  hit.at <= at /\ (hit.at = at => hit.nth < c + 1)
  <2>1. CASE hit = push
    BY SMT, Z3, <1>3, <1>4, <2>1
  <2>2. CASE hit \in hits
    <3>1. hit.nth \in Int
      BY SMT, Z3, <2>2 DEF Hits
    <3>2. hit.at <= at /\ (hit.at = at => hit.nth < c)
      BY <2>2 DEF Numbered, c
    <3>3. hit.nth < c => hit.nth < c + 1
      BY SMT, Z3, <1>3, <3>1
    <3>. QED
      BY <3>2, <3>3
  <2>. QED
    BY <1>10, <2>1, <2>2
<1>11. Numbered(pushed, at)
  BY <1>8, <1>9, <1>10 DEF Numbered
<1>12. pushed \in SUBSET Hits
  BY <1>5
<1>. QED
  BY <1>11, <1>12

\* A grant is counted once, where it falls.
LEMMA GrantCounts ==
  ASSUME NEW times \in Seq(Int), NEW at \in Int, NEW t \in Int
  PROVE  /\ at >= t =>
              Cardinality(GrantedSince(Append(times, at), t))
                = Cardinality(GrantedSince(times, t)) + 1
         /\ ~(at >= t) => GrantedSince(Append(times, at), t) = GrantedSince(times, t)
         /\ at >= t /\ at < t + RateWindow =>
              Cardinality(GrantedWithin(Append(times, at), t))
                = Cardinality(GrantedWithin(times, t)) + 1
         /\ ~(at >= t /\ at < t + RateWindow) =>
              GrantedWithin(Append(times, at), t) = GrantedWithin(times, t)
<1>. DEFINE n == Len(times) + 1
<1>1. /\ n \in Int /\ n \notin 1..Len(times)
      /\ 1..Len(Append(times, at)) = (1..Len(times)) \cup {n}
      /\ Append(times, at)[n] = at
      /\ \A j \in 1..Len(times) : Append(times, at)[j] = times[j]
  BY SMT, Z3
<1>. HIDE DEF n
<1>2. /\ n \notin GrantedSince(times, t) /\ n \notin GrantedWithin(times, t)
      /\ at >= t =>
           GrantedSince(Append(times, at), t) = GrantedSince(times, t) \cup {n}
      /\ ~(at >= t) => GrantedSince(Append(times, at), t) = GrantedSince(times, t)
  BY <1>1 DEF GrantedSince, GrantedWithin
<1>3. /\ at >= t /\ at < t + RateWindow =>
           GrantedWithin(Append(times, at), t) = GrantedWithin(times, t) \cup {n}
      /\ ~(at >= t /\ at < t + RateWindow) =>
           GrantedWithin(Append(times, at), t) = GrantedWithin(times, t)
  BY <1>1 DEF GrantedWithin
<1>4. /\ IsFiniteSet(GrantedSince(times, t))
      /\ IsFiniteSet(GrantedWithin(times, t))
  BY CountsAreNumbers, FS_EmptySet
<1>. QED
  BY <1>2, <1>3, <1>4, OneMore

\* A granted request: the hits remember it, and no window is exceeded.
LEMMA PushStep ==
  ASSUME NEW at \in Int, NEW hits \in SUBSET Hits, NEW times \in Seq(Int),
         Numbered(hits, at), Remembered(hits, times, at), WithinLimit(times),
         NEW recent, recent = {hit \in hits : hit.at > at - RateWindow},
         Cardinality(recent) < RateLimit,
         NEW push, push = [at |-> at,
                nth |-> Cardinality({other \in hits : other.at = at})]
  PROVE  /\ Remembered(recent \cup {push}, Append(times, at), at)
         /\ WithinLimit(Append(times, at))
<1>1. IsFiniteSet(hits) /\ push \notin hits /\ push.at = at
  BY PushIsNew DEF Numbered
<1>2. recent \in SUBSET hits
  OBVIOUS
<1>3. IsFiniteSet(recent) /\ Cardinality(recent) \in Nat
  BY <1>1, <1>2, FS_Subset, FS_CardinalityType
<1>4. ASSUME NEW t \in Int, t > at - RateWindow
      PROVE  Since(recent, t) = Since(hits, t)
  <2>1. \A hit \in hits : hit.at >= t => hit.at > at - RateWindow
    BY SMT, Z3, <1>4, DiscoveryAssumption DEF Hits
  <2>. QED
    BY <2>1 DEF Since
<1>5. ASSUME NEW t \in Int, t > at - RateWindow
      PROVE  Cardinality(GrantedSince(Append(times, at), t))
               <= Cardinality(Since(recent \cup {push}, t))
  <2>1. Cardinality(GrantedSince(times, t)) <= Cardinality(Since(hits, t))
    BY <1>5 DEF Remembered
  <2>2. /\ IsFiniteSet(Since(hits, t)) /\ Cardinality(Since(hits, t)) \in Nat
        /\ Cardinality(GrantedSince(times, t)) \in Nat
    BY <1>1, CountsAreNumbers
  <2>3. CASE at >= t
    <3>1. Since(recent \cup {push}, t) = Since(hits, t) \cup {push}
      BY <1>1, <1>4, <1>5, <2>3 DEF Since
    <3>2. push \notin Since(hits, t)
      BY <1>1 DEF Since
    <3>3. Cardinality(Since(recent \cup {push}, t)) = Cardinality(Since(hits, t)) + 1
      BY <2>2, <3>1, <3>2, OneMore
    <3>4. Cardinality(GrantedSince(Append(times, at), t))
            = Cardinality(GrantedSince(times, t)) + 1
      BY <2>3, GrantCounts
    <3>. QED
      BY SMT, Z3, <2>1, <2>2, <3>3, <3>4
  <2>4. CASE ~(at >= t)
    <3>1. Since(recent \cup {push}, t) = Since(hits, t)
      BY <1>1, <1>4, <1>5, <2>4 DEF Since
    <3>2. GrantedSince(Append(times, at), t) = GrantedSince(times, t)
      BY <2>4, GrantCounts
    <3>. QED
      BY <2>1, <3>1, <3>2
  <2>. QED
    BY <2>3, <2>4
<1>6. ASSUME NEW t \in Int
      PROVE  Cardinality(GrantedWithin(Append(times, at), t)) <= RateLimit
  <2>1. CASE at >= t /\ at < t + RateWindow
    <3>1. t > at - RateWindow
      BY SMT, Z3, <2>1, DiscoveryAssumption
    <3>2. Cardinality(GrantedSince(times, t)) <= Cardinality(Since(hits, t))
      BY <3>1 DEF Remembered
    <3>3. /\ IsFiniteSet(GrantedSince(times, t))
          /\ Cardinality(Since(hits, t)) \in Nat
          /\ Cardinality(GrantedSince(times, t)) \in Nat
          /\ Cardinality(GrantedWithin(times, t)) \in Nat
      BY <1>1, CountsAreNumbers
    <3>4. Cardinality(Since(hits, t)) <= Cardinality(recent)
      <4>1. Since(hits, t) \in SUBSET recent
        BY <1>4, <3>1 DEF Since
      <4>. QED
        BY <1>3, <4>1, FS_Subset
    <3>5. Cardinality(GrantedWithin(times, t)) <= Cardinality(GrantedSince(times, t))
      <4>1. GrantedWithin(times, t) \in SUBSET GrantedSince(times, t)
        BY DEF GrantedWithin, GrantedSince
      <4>. QED
        BY <3>3, <4>1, FS_Subset
    <3>6. Cardinality(GrantedWithin(Append(times, at), t))
            = Cardinality(GrantedWithin(times, t)) + 1
      BY <2>1, GrantCounts
    <3>. QED
      BY SMT, Z3, <1>3, <3>2, <3>3, <3>4, <3>5, <3>6, DiscoveryAssumption
  <2>2. CASE ~(at >= t /\ at < t + RateWindow)
    BY <2>2, GrantCounts DEF WithinLimit
  <2>. QED
    BY <2>1, <2>2
<1>. QED
  BY <1>5, <1>6 DEF Remembered, WithinLimit

\* What is stored by a handler: its maps, with the claim of authorize.
LEMMA CommitStep ==
  ASSUME NEW r, NEW maps, IsIndex(maps), Commit(r, maps)
  PROVE  /\ ready' = TRUE /\ index' = stored' /\ IsIndex(stored')
         /\ stored'.blocks = maps.blocks /\ stored'.hits = maps.hits
<1>1. PICK a, b, c, d : maps = [profiles |-> a, blocks |-> b, hits |-> c,
                                issued |-> d]
  BY DEF IsIndex
<1>2. /\ ready' = TRUE /\ index' = stored'
      /\ stored' = [maps EXCEPT !.issued[r.identity] = r.issuedAt]
  BY DEF Commit
<1>3. PICK e : stored' = [profiles |-> a, blocks |-> b, hits |-> c, issued |-> e]
  BY <1>1, <1>2
<1>4. /\ stored'.profiles = a /\ stored'.blocks = b /\ stored'.hits = c
      /\ stored'.issued = e /\ maps.blocks = b /\ maps.hits = c
  BY <1>1, <1>3
<1>. QED
  BY <1>2, <1>3, <1>4 DEF IsIndex

\* Matches under way are not disturbed by blocks that are added.
LEMMA BlocksKept ==
  ASSUME BlocksInv, AnswerRespects, UNCHANGED <<matching, answer>>,
         ready => ready',
         \A i \in Identities : stored.blocks[i] \subseteq stored'.blocks[i]
  PROVE  BlocksInv' /\ AnswerRespects'
<1>1. AnswerRespects'
  BY DEF AnswerRespects
<1>2. ASSUME NEW m \in Matches, matching'[m] # None
      PROVE  /\ ready'
             /\ \A i \in Identities :
                  matching'[m].blocked[i] \subseteq stored'.blocks[i]
             /\ Respects(matching'[m])
  <2>1. /\ ready /\ Respects(matching[m]) /\ matching' = matching
        /\ \A i \in Identities : matching[m].blocked[i] \subseteq stored.blocks[i]
    BY <1>2 DEF BlocksInv
  <2>. QED
    BY <2>1
<1>3. BlocksInv'
  BY <1>2 DEF BlocksInv, Respects
<1>. QED
  BY <1>1, <1>3

\* The matches under way are lost with the object.
LEMMA MatchesLost ==
  ASSUME AnswerRespects, matching' = [m \in Matches |-> None], UNCHANGED answer
  PROVE  /\ BlocksInv' /\ AnswerRespects'
         /\ matching' \in [Matches -> MatchAsking \cup {None}]
BY DEF BlocksInv, AnswerRespects

\* Steps that touch no match time keep the limit.
LEMMA RateKept ==
  ASSUME RateInv, UNCHANGED <<now, granted>>, stored'.hits = stored.hits
  PROVE  RateInv'
BY DEF RateInv

\* A handler that only writes: hits and grants stay, blocks do not go.
LEMMA WriteStep ==
  ASSUME DiscoveryInv, NEW r, NEW maps, IsIndex(maps), Commit(r, maps),
         maps.hits = stored.hits,
         \A i \in Identities : stored.blocks[i] \subseteq maps.blocks[i],
         UNCHANGED <<now, requests, matching, answer, granted>>
  PROVE  DiscoveryInv'
<1>1. /\ ready' = TRUE /\ index' = stored' /\ IsIndex(stored')
      /\ stored'.blocks = maps.blocks /\ stored'.hits = maps.hits
  BY CommitStep
<1>2. BlocksInv' /\ AnswerRespects'
  BY <1>1, BlocksKept DEF DiscoveryInv
<1>3. RateInv'
  BY <1>1, RateKept DEF DiscoveryInv
<1>4. DiscoveryTypes'
  BY <1>1 DEF DiscoveryInv, DiscoveryTypes
<1>. QED
  BY <1>2, <1>3, <1>4 DEF DiscoveryInv

\* A profile written or removed, and a match refused, leave blocks and grants.
LEMMA UpsertKeeps ==
  ASSUME DiscoveryInv, NEW r \in requests,
         HandleProfileUpsert(r) \/ HandleProfileDelete(r) \/ RefuseMatch(r)
  PROVE  DiscoveryInv'
<1>1. Index = stored /\ IsIndex(stored)
  BY IndexIsStored DEF DiscoveryInv, DiscoveryTypes
<1>2. PICK maps :
        /\ Commit(r, maps)
        /\ \/ \E v : maps = [stored EXCEPT !.profiles[r.identity] = v]
           \/ maps = stored
        /\ UNCHANGED <<now, requests, matching, answer, granted>>
  <2>1. CASE HandleProfileUpsert(r)
    BY <1>1, <2>1 DEF HandleProfileUpsert
  <2>2. CASE HandleProfileDelete(r)
    BY <1>1, <2>2 DEF HandleProfileDelete
  <2>3. CASE RefuseMatch(r)
    BY <1>1, <2>3 DEF RefuseMatch
  <2>. QED
    BY <2>1, <2>2, <2>3
<1>3. PICK a, b, c, d : stored = [profiles |-> a, blocks |-> b, hits |-> c,
                                  issued |-> d]
  BY <1>1 DEF IsIndex
<1>4. PICK e : maps = [profiles |-> e, blocks |-> b, hits |-> c, issued |-> d]
  BY SMT, Z3, <1>2, <1>3
<1>5. /\ maps.blocks = b /\ maps.hits = c /\ stored.blocks = b /\ stored.hits = c
      /\ maps.profiles = e /\ maps.issued = d
  BY <1>3, <1>4
<1>6. IsIndex(maps)
  BY <1>1, <1>4, <1>5 DEF IsIndex
<1>. QED
  BY <1>2, <1>5, <1>6, WriteStep

\* A block is added to those a match under way began with.
LEMMA BlockKeeps ==
  ASSUME DiscoveryInv, NEW r \in requests, HandleBlock(r)
  PROVE  DiscoveryInv'
<1>1. Index = stored /\ IsIndex(stored) /\ r.target \in Identities
  BY IndexIsStored DEF DiscoveryInv, DiscoveryTypes
<1>2. PICK maps :
        /\ Commit(r, maps)
        /\ maps = [stored EXCEPT !.blocks[r.identity] = @ \cup {r.target}]
        /\ UNCHANGED <<now, requests, matching, answer, granted>>
  BY <1>1 DEF HandleBlock
<1>3. PICK a, b, c, d : stored = [profiles |-> a, blocks |-> b, hits |-> c,
                                  issued |-> d]
  BY <1>1 DEF IsIndex
<1>4. maps = [profiles |-> a,
              blocks |-> [b EXCEPT ![r.identity] = b[r.identity] \cup {r.target}],
              hits |-> c, issued |-> d]
  BY SMT, Z3, <1>2, <1>3
<1>5. PICK e : /\ e = [b EXCEPT ![r.identity] = b[r.identity] \cup {r.target}]
               /\ maps = [profiles |-> a, blocks |-> e, hits |-> c, issued |-> d]
  BY <1>4
<1>6. /\ maps.blocks = e /\ maps.hits = c /\ stored.blocks = b /\ stored.hits = c
      /\ maps.profiles = a /\ maps.issued = d
  BY <1>3, <1>5
<1>7. b \in [Identities -> SUBSET Identities]
  BY <1>1, <1>6 DEF IsIndex
<1>8. /\ e \in [Identities -> SUBSET Identities]
      /\ \A i \in Identities : b[i] \subseteq e[i]
  BY <1>1, <1>5, <1>7
<1>9. IsIndex(maps)
  BY <1>1, <1>5, <1>6, <1>8 DEF IsIndex
<1>. QED
  BY <1>2, <1>6, <1>8, <1>9, WriteStep

\* A match that is granted: its hit is stored with it, and it starts from the
\* blocks of that moment without candidates.
LEMMA RandomMatchKeeps ==
  ASSUME DiscoveryInv, NEW r \in requests, NEW m \in Matches,
         HandleRandomMatch(r, m)
  PROVE  DiscoveryInv'
<1>. DEFINE i == r.identity
            H == stored.hits[i]
            recent == {hit \in H : hit.at > now - RateWindow}
            push == [at |-> now,
                     nth |-> Cardinality({other \in H : other.at = now})]
            state == [who |-> i, asking |-> None, visited |-> {},
                      candidates |-> {}, blocked |-> stored.blocks]
<1>1. /\ Index = stored /\ IsIndex(stored) /\ i \in Identities /\ now \in Int
      /\ granted \in [Identities -> Seq(Int)]
      /\ matching \in [Matches -> MatchAsking \cup {None}]
      /\ AnswerRespects /\ RateInv /\ BlocksInv
  BY IndexIsStored DEF DiscoveryInv, DiscoveryTypes
<1>2. /\ Cardinality(recent) < RateLimit
      /\ Commit(r, [stored EXCEPT !.hits[i] = recent \cup {push}])
      /\ granted' = [granted EXCEPT ![i] = Append(granted[i], now)]
      /\ Proceed(m, state, stored.profiles)
      /\ UNCHANGED <<now, requests>>
  BY <1>1 DEF HandleRandomMatch, RecentMatches, PushMatch
<1>3. /\ H \in SUBSET Hits /\ stored.blocks \in [Identities -> SUBSET Identities]
      /\ stored.hits \in [Identities -> SUBSET Hits]
  BY <1>1 DEF IsIndex
<1>4. /\ Numbered(H, now) /\ Remembered(H, granted[i], now)
      /\ WithinLimit(granted[i]) /\ granted[i] \in Seq(Int)
      /\ \A j \in 1..Len(granted[i]) : granted[i][j] <= now
  BY <1>1 DEF RateInv
<1>5. /\ recent \cup {push} \in SUBSET Hits
      /\ Numbered(recent \cup {push}, now)
  BY <1>1, <1>3, <1>4, PushNumbers
<1>6. /\ Remembered(recent \cup {push}, Append(granted[i], now), now)
      /\ WithinLimit(Append(granted[i], now))
  BY <1>1, <1>2, <1>3, <1>4, PushStep
<1>7. PICK new : new = recent \cup {push}
  OBVIOUS
<1>8. PICK maps : maps = [stored EXCEPT !.hits[i] = new] /\ Commit(r, maps)
  BY <1>2, <1>7
<1>9. /\ state \in MatchStates /\ Respects(state)
      /\ state.blocked = stored.blocks
  BY <1>1, <1>3 DEF MatchStates, Respects
<1>. HIDE DEF state, recent, push, H
<1>10. PICK a, b, c, d : stored = [profiles |-> a, blocks |-> b, hits |-> c,
                                   issued |-> d]
  BY <1>1 DEF IsIndex
<1>11. PICK e : /\ e = [c EXCEPT ![i] = new]
                /\ maps = [profiles |-> a, blocks |-> b, hits |-> e, issued |-> d]
  BY SMT, Z3, <1>8, <1>10
<1>12. /\ maps.blocks = b /\ maps.hits = e /\ stored.blocks = b /\ stored.hits = c
       /\ maps.profiles = a /\ maps.issued = d
  BY <1>10, <1>11
<1>13. /\ e \in [Identities -> SUBSET Hits] /\ e[i] = new
       /\ \A k \in Identities \ {i} : e[k] = c[k]
  BY <1>1, <1>3, <1>5, <1>7, <1>11, <1>12
<1>14. IsIndex(maps)
  BY <1>1, <1>3, <1>11, <1>12, <1>13 DEF IsIndex
<1>15. /\ ready' = TRUE /\ index' = stored' /\ IsIndex(stored')
       /\ stored'.blocks = stored.blocks /\ stored'.hits = e
  BY <1>8, <1>12, <1>14, CommitStep
<1>16. /\ matching' \in [Matches -> MatchAsking \cup {None}]
       /\ \A n \in Matches \ {m} : matching'[n] = matching[n]
       /\ matching'[m] # None =>
            matching'[m].blocked = stored.blocks /\ Respects(matching'[m])
       /\ AnswerRespects'
  BY <1>1, <1>2, <1>9, ProceedStep
<1>17. granted' \in [Identities -> Seq(Int)]
       /\ granted'[i] = Append(granted[i], now)
       /\ \A k \in Identities \ {i} : granted'[k] = granted[k]
  <2>1. Append(granted[i], now) \in Seq(Int)
    BY SMT, Z3, <1>1, <1>4
  <2>. QED
    BY <1>1, <1>2, <2>1
<1>18. DiscoveryTypes'
  BY <1>2, <1>15, <1>16, <1>17 DEF DiscoveryInv, DiscoveryTypes
<1>19. ASSUME NEW n \in Matches, matching'[n] # None
       PROVE  /\ \A k \in Identities :
                   matching'[n].blocked[k] \subseteq stored'.blocks[k]
              /\ Respects(matching'[n])
  <2>1. CASE n = m
    BY <1>15, <1>16, <1>19, <2>1
  <2>2. CASE n # m
    BY <1>1, <1>15, <1>16, <1>19, <2>2 DEF BlocksInv
  <2>. QED
    BY <2>1, <2>2
<1>20. BlocksInv'
  BY <1>15, <1>19 DEF BlocksInv, Respects
<1>21. \A j \in 1..Len(granted'[i]) : granted'[i][j] <= now
  <2>1. PICK times \in Seq(Int) : times = granted[i]
    BY <1>4
  <2>2. PICK at \in Int : at = now
    BY <1>1
  <2>3. \A j \in 1..Len(times) : times[j] <= at
    BY <1>4, <2>1, <2>2
  <2>4. \A j \in 1..Len(Append(times, at)) : Append(times, at)[j] <= at
    <3>. HIDE DEF i
    <3>. QED
      BY SMT, Z3, <2>3
  <2>. QED
    BY <1>17, <2>1, <2>2, <2>4
<1>22. ASSUME NEW k \in Identities
       PROVE  /\ \A j \in 1..Len(granted'[k]) : granted'[k][j] <= now
              /\ Numbered(stored'.hits[k], now)
              /\ Remembered(stored'.hits[k], granted'[k], now)
              /\ WithinLimit(granted'[k])
  <2>1. CASE k = i
    BY <1>5, <1>6, <1>7, <1>13, <1>15, <1>17, <1>21, <2>1
  <2>2. CASE k # i
    BY <1>1, <1>12, <1>13, <1>15, <1>17, <2>2 DEF RateInv
  <2>. QED
    BY <2>1, <2>2
<1>23. RateInv'
  BY <1>2, <1>22 DEF RateInv
<1>. QED
  BY <1>16, <1>18, <1>20, <1>23 DEF DiscoveryInv

\* An answer of the relay: eligibility is asked of the blocks of now, and those
\* of the request are among them.
LEMMA RelayAnswerKeeps ==
  ASSUME DiscoveryInv, NEW m \in Matches, NEW online, RelayAnswers(m, online)
  PROVE  DiscoveryInv'
<1>1. /\ matching \in [Matches -> MatchAsking \cup {None}]
      /\ AnswerRespects /\ RateInv /\ BlocksInv
      /\ ready => index = stored
  BY DEF DiscoveryInv, DiscoveryTypes
<1>2. PICK old \in MatchAsking : old = matching[m] /\ matching[m] # None
  BY <1>1 DEF RelayAnswers
<1>3. /\ Respects(old) /\ index = stored
      /\ \A k \in Identities : old.blocked[k] \subseteq stored.blocks[k]
  BY <1>1, <1>2 DEF BlocksInv
<1>4. PICK more, state :
        /\ more \in SUBSET Identities
        /\ state = [old EXCEPT !.candidates = more]
        /\ \/ more = old.candidates
           \/ /\ more = old.candidates \cup {old.asking}
              /\ IsEligible(old.who, old.asking)
        /\ Proceed(m, state, index.profiles)
  <2>. DEFINE joins == online /\ IsEligible(old.who, old.asking)
  <2>1. old.candidates \in SUBSET Identities /\ old.asking \in Identities
    BY DEF MatchAsking
  <2>2. Proceed(m, [old EXCEPT !.candidates =
                      IF joins THEN old.candidates \cup {old.asking}
                      ELSE old.candidates], index.profiles)
    BY <1>2 DEF RelayAnswers
  <2>3. CASE joins
    BY <2>1, <2>2, <2>3
  <2>4. CASE ~joins
    <3>1. (IF joins THEN old.candidates \cup {old.asking} ELSE old.candidates)
            = old.candidates
      BY <2>4
    <3>. HIDE DEF joins
    <3>. QED
      BY <2>1, <2>2, <3>1
  <2>. QED
    BY <2>3, <2>4
<1>5. /\ state \in MatchStates /\ state.who = old.who
      /\ state.blocked = old.blocked /\ state.candidates = more
  BY SMT, Z3, <1>4 DEF MatchAsking, MatchStates
<1>6. Respects(state)
  <2>1. CASE more = old.candidates
    BY <1>3, <1>5, <2>1 DEF Respects
  <2>2. CASE /\ more = old.candidates \cup {old.asking}
             /\ IsEligible(old.who, old.asking)
    <3>1. old.who \in Identities /\ old.asking \in Identities
      BY DEF MatchAsking
    <3>2. /\ old.asking # old.who
          /\ old.asking \notin old.blocked[old.who]
          /\ old.who \notin old.blocked[old.asking]
      BY <1>3, <2>2, <3>1 DEF IsEligible
    <3>. QED
      BY <1>3, <1>5, <2>2, <3>2 DEF Respects
  <2>. QED
    BY <1>4, <2>1, <2>2
<1>7. /\ matching' \in [Matches -> MatchAsking \cup {None}]
      /\ \A n \in Matches \ {m} : matching'[n] = matching[n]
      /\ matching'[m] # None =>
           matching'[m].blocked = state.blocked /\ Respects(matching'[m])
      /\ AnswerRespects'
  BY <1>1, <1>4, <1>5, <1>6, ProceedStep
<1>8. UNCHANGED <<now, requests, index, stored, ready, granted>>
  BY DEF RelayAnswers
<1>9. ready
  BY <1>1, <1>2 DEF BlocksInv
<1>10. ASSUME NEW n \in Matches, matching'[n] # None
       PROVE  /\ \A k \in Identities :
                   matching'[n].blocked[k] \subseteq stored'.blocks[k]
              /\ Respects(matching'[n])
  <2>1. CASE n = m
    BY <1>3, <1>5, <1>7, <1>8, <1>10, <2>1
  <2>2. CASE n # m
    BY <1>1, <1>7, <1>8, <1>10, <2>2 DEF BlocksInv
  <2>. QED
    BY <2>1, <2>2
<1>11. BlocksInv'
  BY <1>8, <1>9, <1>10 DEF BlocksInv, Respects
<1>12. RateInv'
  BY <1>1, <1>8, RateKept
<1>13. DiscoveryTypes'
  BY <1>7, <1>8 DEF DiscoveryInv, DiscoveryTypes
<1>. QED
  BY <1>7, <1>11, <1>12, <1>13 DEF DiscoveryInv

\* The object is lost: what is stored stays, but for the claim of a request.
LEMMA LossKeeps ==
  ASSUME DiscoveryInv,
         EvictDiscovery \/ \E r \in requests : LostAfterAuthorize(r)
  PROVE  DiscoveryInv'
<1>1. /\ IsIndex(stored) /\ RateInv /\ AnswerRespects
  BY DEF DiscoveryInv, DiscoveryTypes
<1>2. /\ ready' = FALSE /\ matching' = [m \in Matches |-> None]
      /\ UNCHANGED <<now, requests, answer, granted>>
      /\ \/ stored' = stored
         \/ \E k, v : stored' = [stored EXCEPT !.issued[k] = v]
  BY DEF EvictDiscovery, LostAfterAuthorize
<1>3. PICK a, b, c, d : stored = [profiles |-> a, blocks |-> b, hits |-> c,
                                  issued |-> d]
  BY <1>1 DEF IsIndex
<1>4. PICK e : stored' = [profiles |-> a, blocks |-> b, hits |-> c, issued |-> e]
  BY SMT, Z3, <1>2, <1>3
<1>5. /\ stored'.blocks = b /\ stored'.hits = c /\ stored.blocks = b
      /\ stored.hits = c /\ stored'.profiles = a /\ stored'.issued = e
  BY <1>3, <1>4
<1>6. IsIndex(stored')
  BY <1>1, <1>4, <1>5 DEF IsIndex
<1>7. /\ BlocksInv' /\ AnswerRespects'
      /\ matching' \in [Matches -> MatchAsking \cup {None}]
  BY <1>1, <1>2, MatchesLost
<1>8. RateInv'
  BY <1>1, <1>2, <1>5, RateKept
<1>9. DiscoveryTypes'
  BY <1>2, <1>6, <1>7 DEF DiscoveryInv, DiscoveryTypes
<1>. QED
  BY <1>7, <1>8, <1>9 DEF DiscoveryInv

\* Time passes: no hit is of the new moment, and fewer windows are open.
LEMMA TickKeeps ==
  ASSUME DiscoveryInv, DiscoveryTick
  PROVE  DiscoveryInv'
<1>1. /\ now \in Int /\ now' = now + 1 /\ RateInv /\ IsIndex(stored)
      /\ UNCHANGED <<requests, index, stored, ready, matching, answer, granted>>
      /\ granted \in [Identities -> Seq(Int)]
  BY DEF DiscoveryInv, DiscoveryTypes, DiscoveryTick
<1>2. ASSUME NEW k \in Identities
      PROVE  /\ \A j \in 1..Len(granted[k]) : granted[k][j] <= now'
             /\ Numbered(stored.hits[k], now')
             /\ Remembered(stored.hits[k], granted[k], now')
             /\ WithinLimit(granted[k])
  <2>1. /\ stored.hits[k] \in SUBSET Hits /\ granted[k] \in Seq(Int)
        /\ \A j \in 1..Len(granted[k]) : granted[k][j] <= now
        /\ Numbered(stored.hits[k], now)
        /\ Remembered(stored.hits[k], granted[k], now)
        /\ WithinLimit(granted[k])
    BY <1>1 DEF RateInv, IsIndex
  <2>2. \A j \in 1..Len(granted[k]) : granted[k][j] <= now'
    <3>1. PICK times \in Seq(Int) : times = granted[k]
      BY <2>1
    <3>2. \A j \in 1..Len(times) : times[j] <= now + 1
      BY SMT, Z3, <1>1, <2>1, <3>1
    <3>. QED
      BY <1>1, <3>1, <3>2
  <2>3. \A hit \in stored.hits[k] : hit.at <= now' /\ hit.at # now'
    <3>1. \A hit \in stored.hits[k] : hit.at \in Int /\ hit.at <= now
      BY <2>1 DEF Hits, Numbered
    <3>. QED
      BY SMT, Z3, <1>1, <3>1
  <2>4. Numbered(stored.hits[k], now')
    BY <2>1, <2>3 DEF Numbered
  <2>5. \A t \in Int : t > now' - RateWindow => t > now - RateWindow
    BY SMT, Z3, <1>1, DiscoveryAssumption
  <2>6. Remembered(stored.hits[k], granted[k], now')
    BY <2>1, <2>5 DEF Remembered
  <2>. QED
    BY <2>1, <2>2, <2>4, <2>6
<1>3. RateInv'
  BY <1>1, <1>2 DEF RateInv
<1>4. BlocksInv' /\ AnswerRespects'
  BY <1>1, BlocksKept DEF DiscoveryInv
<1>5. now' \in Int
  BY SMT, Z3, <1>1
<1>6. DiscoveryTypes'
  BY <1>1, <1>5 DEF DiscoveryInv, DiscoveryTypes
<1>. QED
  BY <1>3, <1>4, <1>6 DEF DiscoveryInv

\* A signed request is on its way.
LEMMA SignKeeps ==
  ASSUME DiscoveryInv, NEW signer \in DiscoverySigners, NEW target \in Identities,
         SignDiscovery(signer[1], signer[2], target)
  PROVE  DiscoveryInv'
<1>1. /\ UNCHANGED <<now, index, stored, ready, matching, answer, granted>>
      /\ \A x \in requests' :
           x \in requests \/ (x.identity = signer[1] /\ x.target = target)
  <2>1. PICK q : /\ q = [op |-> signer[2], identity |-> signer[1],
                         target |-> target, issuedAt |-> NextIssuedAt(signer[1])]
                 /\ requests' = requests \cup {q}
    BY DEF SignDiscovery
  <2>2. q.identity = signer[1] /\ q.target = target
    BY <2>1
  <2>3. UNCHANGED <<now, index, stored, ready, matching, answer, granted>>
    BY DEF SignDiscovery
  <2>4. \A x \in requests' : x \in requests \/ x = q
    BY <2>1
  <2>. QED
    BY <2>2, <2>3, <2>4
<1>2. signer[1] \in Identities
  <2>1. signer \in Identities \X {"upsert", "delete", "block", "match"}
    BY DiscoveryAssumption
  <2>. QED
    BY SMT, Z3, <2>1
<1>3. DiscoveryTypes'
  BY <1>1, <1>2 DEF DiscoveryInv, DiscoveryTypes
<1>4. BlocksInv' /\ AnswerRespects'
  BY <1>1, BlocksKept DEF DiscoveryInv
<1>5. RateInv'
  BY <1>1, RateKept DEF DiscoveryInv
<1>. QED
  BY <1>3, <1>4, <1>5 DEF DiscoveryInv

\* The index is empty at the start.
LEMMA InitDiscoveryInv == DiscoveryInit => DiscoveryInv
<1>. SUFFICES ASSUME DiscoveryInit PROVE DiscoveryInv
  BY SMT, Z3
<1>1. /\ now = 1 /\ requests = {} /\ stored = EmptyIndex /\ ready = FALSE
      /\ matching = [m \in Matches |-> None] /\ answer = None
      /\ granted = [i \in Identities |-> << >>]
  BY DEF DiscoveryInit
<1>2. /\ stored.profiles = [i \in Identities |-> None]
      /\ stored.blocks = [i \in Identities |-> {}]
      /\ stored.hits = [i \in Identities |-> {}]
      /\ stored.issued = [i \in Identities |-> 0]
  BY <1>1 DEF EmptyIndex
<1>3. IsIndex(stored)
  BY <1>1, <1>2 DEF IsIndex, EmptyIndex
<1>4. << >> \in Seq(Int) /\ 1..Len(<< >>) = {} /\ now \in Int
  BY SMT, Z3, <1>1
<1>5. DiscoveryTypes
  BY <1>1, <1>3, <1>4 DEF DiscoveryTypes
<1>6. BlocksInv /\ AnswerRespects
  BY <1>1 DEF BlocksInv, AnswerRespects
<1>7. ASSUME NEW i \in Identities
      PROVE  /\ \A j \in 1..Len(granted[i]) : granted[i][j] <= now
             /\ Numbered(stored.hits[i], now)
             /\ Remembered(stored.hits[i], granted[i], now)
             /\ WithinLimit(granted[i])
  <2>1. stored.hits[i] = {} /\ granted[i] = << >>
    BY <1>1, <1>2
  <2>2. \A t \in Int : /\ GrantedSince(<< >>, t) = {} /\ Since({}, t) = {}
                       /\ GrantedWithin(<< >>, t) = {}
    BY <1>4 DEF GrantedSince, Since, GrantedWithin
  <2>3. Cardinality({}) = 0 /\ IsFiniteSet({})
    BY FS_EmptySet
  <2>4. Cardinality({}) <= Cardinality({}) /\ Cardinality({}) <= RateLimit
    BY SMT, Z3, <2>3, DiscoveryAssumption
  <2>. QED
    BY <1>4, <2>1, <2>2, <2>3, <2>4 DEF Numbered, Remembered, WithinLimit
<1>8. RateInv
  BY <1>7 DEF RateInv
<1>. QED
  BY <1>5, <1>6, <1>8 DEF DiscoveryInv

\* Every handler, every resumption of a match and every lost instance keeps the
\* invariant.
LEMMA NextDiscoveryInv ==
  DiscoveryInv /\ [DiscoveryNext]_discoveryVars => DiscoveryInv'
<1>. SUFFICES ASSUME DiscoveryInv, [DiscoveryNext]_discoveryVars
              PROVE  DiscoveryInv'
  BY SMT, Z3
<1>1. ASSUME NEW r \in requests,
             \/ HandleProfileUpsert(r) \/ HandleProfileDelete(r)
             \/ RefuseMatch(r)
      PROVE  DiscoveryInv'
  BY <1>1, UpsertKeeps
<1>2. ASSUME NEW r \in requests, HandleBlock(r)
      PROVE  DiscoveryInv'
  BY <1>2, BlockKeeps
<1>3. ASSUME NEW r \in requests, NEW m \in Matches, HandleRandomMatch(r, m)
      PROVE  DiscoveryInv'
  BY <1>3, RandomMatchKeeps
<1>4. ASSUME NEW m \in Matches, NEW online \in BOOLEAN, RelayAnswers(m, online)
      PROVE  DiscoveryInv'
  BY <1>4, RelayAnswerKeeps
<1>5. CASE EvictDiscovery \/ \E r \in requests : LostAfterAuthorize(r)
  BY <1>5, LossKeeps
<1>6. ASSUME NEW signer \in DiscoverySigners, NEW target \in Identities,
             SignDiscovery(signer[1], signer[2], target)
      PROVE  DiscoveryInv'
  BY <1>6, SignKeeps
<1>7. CASE DiscoveryTick
  BY <1>7, TickKeeps
<1>8. CASE UNCHANGED discoveryVars
  <2>1. UNCHANGED <<now, requests, index, stored, ready, matching, answer, granted>>
    BY <1>8 DEF discoveryVars
  <2>2. DiscoveryTypes' /\ BlocksInv' /\ AnswerRespects'
    BY <2>1, BlocksKept DEF DiscoveryInv, DiscoveryTypes
  <2>3. RateInv'
    BY <2>1, RateKept DEF DiscoveryInv
  <2>. QED
    BY <2>2, <2>3 DEF DiscoveryInv
<1>. QED
  BY <1>1, <1>2, <1>3, <1>4, <1>5, <1>6, <1>7, <1>8 DEF DiscoveryNext

\* A window that begins at any time contains those that begin at a grant.
LEMMA InvRespects == DiscoveryInv => EarlierBlocksRespected
<1>. SUFFICES ASSUME DiscoveryInv PROVE EarlierBlocksRespected
  BY SMT, Z3
<1>1. ASSUME NEW i \in Identities, NEW k \in 1..Len(granted[i])
      PROVE  Cardinality({j \in 1..Len(granted[i]) :
                            /\ granted[i][j] >= granted[i][k]
                            /\ granted[i][j] < granted[i][k] + RateWindow})
               <= RateLimit
  <2>1. PICK times \in Seq(Int) : times = granted[i]
    BY DEF DiscoveryInv, DiscoveryTypes
  <2>2. times[k] \in Int
    BY SMT, Z3, <2>1
  <2>. QED
    BY <2>1, <2>2 DEF DiscoveryInv, RateInv, WithinLimit, GrantedWithin
<1>2. MatchRateKept
  BY <1>1 DEF MatchRateKept
<1>. QED
  BY <1>2 DEF DiscoveryInv, AnswerRespects, EarlierBlocksRespected

\* The discovery worker keeps its inductive invariant.
THEOREM DiscoveryInvariant == DiscoverySpec => []DiscoveryInv
<1>. QED
  BY InitDiscoveryInv, NextDiscoveryInv, PTL DEF DiscoverySpec

\* handleRandomMatch never answers with the requester or with someone across a
\* block that was there when it was asked, although it awaits the relay for
\* each candidate; and it grants no more matches in a window than the limit.
THEOREM MatchesRespectBlocks == DiscoverySpec => []EarlierBlocksRespected
<1>. QED
  BY DiscoveryInvariant, InvRespects, PTL

----------------------------------------------------------------------------
(* Certificates: one current update.                                        *)

\* The update belongs to the current generation.
IsCurrent(u) == update[u] # NoUpdate /\ update[u].current

\* The inductive invariant: a current update is the one that ensure() hands to
\* further callers, so there is one at most.
LifecycleInv ==
  /\ certificate \in Nat
  /\ update \in [Updates ->
       [stage : {"renew", "publish", "accepted"}, certificate : Nat,
        current : BOOLEAN] \cup {NoUpdate}]
  /\ \A u \in Updates : IsCurrent(u) => pending = u

\* Every step preserves the invariant.
LEMMA NextLifecycleInv ==
  LifecycleInv /\ [LifecycleNext]_lifecycleVars => LifecycleInv'
<1>. SUFFICES ASSUME LifecycleInv, [LifecycleNext]_lifecycleVars PROVE LifecycleInv'
  BY SMT, Z3
<1>. USE DEF LifecycleInv, IsCurrent
<1>1. ASSUME Stop PROVE LifecycleInv'
  BY <1>1 DEF Stop
<1>2. ASSUME BecomeDue PROVE LifecycleInv'
  BY <1>2 DEF BecomeDue
<1>3. ASSUME NEW u \in Updates, Ensure(u) PROVE LifecycleInv'
  BY <1>3, LifecycleAssumption DEF Ensure
<1>4. ASSUME NEW u \in Updates, FinishUpdate(u), certificate' = certificate
      PROVE  LifecycleInv'
  BY <1>4 DEF FinishUpdate
<1>5. ASSUME NEW u \in Updates, Renewed(u) PROVE LifecycleInv'
  <2>1. CASE update[u].current
    BY SMT, Z3, <1>5, <2>1 DEF Renewed, InStage
  <2>2. CASE ~update[u].current
    BY <1>4, <1>5, <2>2 DEF Renewed
  <2>. QED
    BY <2>1, <2>2
<1>6. ASSUME NEW u \in Updates, UpdateFailed(u) \/ Published(u)
      PROVE  LifecycleInv'
  BY <1>4, <1>6 DEF UpdateFailed, Published
<1>7. ASSUME NEW u \in Updates, PresenceAccepts(u) PROVE LifecycleInv'
  BY <1>7 DEF PresenceAccepts, InStage
<1>8. ASSUME UNCHANGED lifecycleVars PROVE LifecycleInv'
  BY <1>8 DEF lifecycleVars
<1>. QED
  BY <1>1, <1>2, <1>3, <1>5, <1>6, <1>7, <1>8 DEF LifecycleNext

\* The inductive invariant holds in every reachable state.
THEOREM LifecycleInvariant == LifecycleSpec => []LifecycleInv
<1>1. LifecycleInit => LifecycleInv
  BY SMT, Z3 DEF LifecycleInit, LifecycleInv, IsCurrent
<1>. QED
  BY <1>1, NextLifecycleInv, PTL DEF LifecycleSpec

\* A certificate is only installed by the update that is pending: what a
\* signer answers after stop() is discarded.
THEOREM CancelledIsDiscarded == LifecycleSpec => CancelledNeverInstalls
<1>1. ASSUME LifecycleInv, LifecycleNext PROVE InstalledByPending
  <2>1. ASSUME NEW u \in Updates, Renewed(u) PROVE InstalledByPending
    <3>1. certificate' # certificate => IsCurrent(u)
      BY <2>1 DEF Renewed, InStage, IsCurrent
    <3>2. IsCurrent(u) => pending = u
      BY <1>1 DEF LifecycleInv
    <3>. QED
      BY <3>1, <3>2, LifecycleAssumption DEF InstalledByPending, IsCurrent
  <2>2. CASE certificate' = certificate
    BY <2>2 DEF InstalledByPending
  <2>. QED
    BY <1>1, <2>1, <2>2 DEF LifecycleNext, Stop, BecomeDue, Ensure,
         UpdateFailed, PresenceAccepts, Published
<1>2. LifecycleInv /\ [LifecycleNext]_lifecycleVars
        => [InstalledByPending]_lifecycleVars
  BY <1>1
<1>. QED
  BY <1>2, LifecycleInvariant, PTL DEF LifecycleSpec, CancelledNeverInstalls
=============================================================================
