----------------------------- MODULE ChainNames -----------------------------
(***************************************************************************)
(* The other half of the development chain (DevChainClient in              *)
(* packages/client/src/chain-stub.ts): accounts and their activity,        *)
(* usernames with the release of inactive ones, the wallet each identity   *)
(* is rooted in, the validator set, and the state file.  DevChain models   *)
(* the credentials of the same class.                                      *)
(*                                                                         *)
(* Every method is synchronous and saves before it returns; one that       *)
(* throws changes nothing and is a stuttering step.  The index             *)
(* walletToUsername is not saved: restore() computes it from the names.    *)
(***************************************************************************)
EXTENDS Naturals, FiniteSets, Sequences

CONSTANTS
  Wallets,             \* wallets that open accounts
  Candidates,          \* wallets that ask to validate
  Names,               \* normalized usernames
  NameIdentities,      \* identity ids
  IdentityOf,          \* identityIdFromWallet
  Absent,              \* absence from a map
  MinAccountAge,       \* MIN_ACCOUNT_AGE_MS
  InactivityRelease,   \* INACTIVITY_RELEASE_MS
  MinValidators,
  MaxValidators,
  PowerCap,            \* VALIDATOR_POWER_CAP
  Stakes,              \* the stakes offered; MIN_BOND is 1
  LastDay,             \* bound: the last day of the clock
  MaxRegistrations     \* bound: registrations of one name

ASSUME NameConstantsAssumption ==
  /\ IdentityOf \in [Wallets -> NameIdentities]
  /\ Absent \notin Wallets \cup Names
  /\ MinAccountAge \in Nat /\ InactivityRelease \in Nat
  /\ MinValidators \in Nat /\ MaxValidators \in Nat /\ PowerCap \in Nat
  /\ Stakes \subseteq Nat
  /\ LastDay \in Nat /\ MaxRegistrations \in Nat

VARIABLES
  today,              \* Date.now(), in days
  accounts,           \* wallet |-> its AccountMeta, for registered wallets
  usernames,          \* name |-> its UsernameRecord, for owned names
  walletToUsername,   \* wallet |-> name it owns or Absent
  history,            \* name |-> records in the order of registration
  rootWallets,        \* identityRoots: identity |-> wallet or Absent
  validators,         \* wallet |-> effective power, for validators
  file                \* the state file

nameVars == <<today, accounts, usernames, walletToUsername, history,
              rootWallets, validators, file>>

-----------------------------------------------------------------------------
(* Helpers *)

Without(f, x) == [y \in DOMAIN f \ {x} |-> f[y]]
With(f, x, v) == [y \in DOMAIN f \cup {x} |-> IF y = x THEN v ELSE f[y]]

\* What persist() writes of this half.
Saved ==
  [accounts |-> accounts, usernames |-> usernames, history |-> history,
   roots |-> rootWallets, validators |-> validators]

SaveNames == file' = Saved'

\* The owner has shown no activity for INACTIVITY_RELEASE_MS.  Every owner
\* has an account, so the branch for a missing one is not taken.
Releasable(n) ==
  LET owner == usernames[n].owner
  IN  /\ owner \in DOMAIN accounts
      /\ today - accounts[owner].lastActiveAt >= InactivityRelease

\* The index that restore() rebuilds: entries of the same wallet overwrite
\* one another.
IndexOf(names) ==
  [w \in Wallets |->
     IF \E n \in DOMAIN names : names[n].owner = w
     THEN CHOOSE n \in DOMAIN names : names[n].owner = w
     ELSE Absent]

-----------------------------------------------------------------------------
(* Accounts and names *)

RegisterAccount(w) ==
  /\ w \notin DOMAIN accounts
  /\ accounts' = With(accounts, w, [createdAt |-> today, lastActiveAt |-> today])
  /\ UNCHANGED <<today, usernames, walletToUsername, history, rootWallets,
                 validators>>
  /\ SaveNames

RecordActivity(w) ==
  /\ w \in DOMAIN accounts
  /\ accounts' = [accounts EXCEPT ![w].lastActiveAt = today]
  /\ UNCHANGED <<today, usernames, walletToUsername, history, rootWallets,
                 validators>>
  /\ SaveNames

\* Mutant: the root of the identity is not looked up.
AnyRoot(n, w, i) ==
  /\ w \in DOMAIN accounts
  /\ today - accounts[w].createdAt >= MinAccountAge
  /\ walletToUsername[w] = Absent
  /\ n \in DOMAIN usernames => Releasable(n)

CanRegisterUsername(n, w, i) ==
  /\ w \in DOMAIN accounts
  /\ today - accounts[w].createdAt >= MinAccountAge
  /\ walletToUsername[w] = Absent
  /\ rootWallets[i] \in {Absent, w}
  /\ n \in DOMAIN usernames => Releasable(n)

\* Mutant: the released owner keeps its entry in the index.
ReleaseNameOnly(n) == walletToUsername

\* The release of the name's inactive owner, if it has one.
Released(n) ==
  IF n \in DOMAIN usernames
  THEN [walletToUsername EXCEPT ![usernames[n].owner] = Absent]
  ELSE walletToUsername

RegisterUsername(n, w, i) ==
  LET record == [owner |-> w, identity |-> i, registeredAt |-> today]
  IN  /\ CanRegisterUsername(n, w, i)
      /\ Len(history[n]) < MaxRegistrations
      /\ usernames' = With(usernames, n, record)
      /\ walletToUsername' = [Released(n) EXCEPT ![w] = n]
      /\ rootWallets' = [rootWallets EXCEPT ![i] = w]
      /\ history' = [history EXCEPT ![n] = Append(@, record)]
      /\ UNCHANGED <<today, accounts, validators>>
      /\ SaveNames

\* registerIdentity, for the wallet whose hash the identity is; it opens the
\* wallet's account when there is none.
RegisterRoot(w) ==
  /\ rootWallets[IdentityOf[w]] = Absent
  /\ rootWallets' = [rootWallets EXCEPT ![IdentityOf[w]] = w]
  /\ accounts' = IF w \in DOMAIN accounts THEN accounts
                 ELSE With(accounts, w,
                           [createdAt |-> today, lastActiveAt |-> today])
  /\ UNCHANGED <<today, usernames, walletToUsername, history, validators>>
  /\ SaveNames

-----------------------------------------------------------------------------
(* Validators *)

JoinValidatorSet(w, stake) ==
  /\ w \notin DOMAIN validators
  /\ stake >= 1
  /\ Cardinality(DOMAIN validators) + 1 <= MaxValidators
  /\ validators' =
       With(validators, w, IF stake < PowerCap THEN stake ELSE PowerCap)
  /\ UNCHANGED <<today, accounts, usernames, walletToUsername, history,
                 rootWallets>>
  /\ SaveNames

\* Leaving is free while the set is smaller than the minimum.
MayLeave ==
  LET size == Cardinality(DOMAIN validators)
  IN  size < MinValidators \/ size - 1 >= MinValidators

LeaveValidatorSet(w) ==
  /\ w \in DOMAIN validators
  /\ MayLeave
  /\ validators' = Without(validators, w)
  /\ UNCHANGED <<today, accounts, usernames, walletToUsername, history,
                 rootWallets>>
  /\ SaveNames

-----------------------------------------------------------------------------
(* Environment *)

\* A new process restores the file.
RestoreNames ==
  /\ accounts' = file.accounts
  /\ usernames' = file.usernames
  /\ history' = file.history
  /\ rootWallets' = file.roots
  /\ validators' = file.validators
  /\ walletToUsername' = IndexOf(file.usernames)
  /\ UNCHANGED <<today, file>>

NextDay ==
  /\ today < LastDay
  /\ today' = today + 1
  /\ UNCHANGED <<accounts, usernames, walletToUsername, history, rootWallets,
                 validators, file>>

-----------------------------------------------------------------------------
NamesInit ==
  /\ today = 0
  /\ accounts = <<>>
  /\ usernames = <<>>
  /\ walletToUsername = [w \in Wallets |-> Absent]
  /\ history = [n \in Names |-> <<>>]
  /\ rootWallets = [i \in NameIdentities |-> Absent]
  /\ validators = <<>>
  /\ file = Saved

NamesNext ==
  \/ \E w \in Wallets : RegisterAccount(w)
  \/ \E w \in Wallets : RecordActivity(w)
  \/ \E n \in Names, w \in Wallets, i \in NameIdentities :
       RegisterUsername(n, w, i)
  \/ \E w \in Wallets : RegisterRoot(w)
  \/ \E w \in Candidates, stake \in Stakes : JoinValidatorSet(w, stake)
  \/ \E w \in Candidates : LeaveValidatorSet(w)
  \/ RestoreNames
  \/ NextDay

NamesSpec == NamesInit /\ [][NamesNext]_nameVars

-----------------------------------------------------------------------------
(* Properties *)

\* "wallet -> at most one owned username", and one per identity (AD-10): the
\* names and the index the rule is enforced with say the same, through
\* releases of inactive owners and through restarts that rebuild the index;
\* a name's identity is rooted in its owner, so an identity has one name; and
\* the last entry of a name's history is its current record.
NamesAgree ==
  /\ \A w \in Wallets, n \in Names :
       walletToUsername[w] = n <=>
         n \in DOMAIN usernames /\ usernames[n].owner = w
  /\ \A n \in DOMAIN usernames :
       /\ rootWallets[usernames[n].identity] = usernames[n].owner
       /\ history[n] # <<>> /\ history[n][Len(history[n])] = usernames[n]
  /\ \A n, m \in DOMAIN usernames :
       usernames[n].identity = usernames[m].identity => n = m

HoldingsKept ==
  /\ \A i \in NameIdentities :
       rootWallets[i] # Absent => rootWallets'[i] = rootWallets[i]
  /\ \A n \in DOMAIN usernames :
       /\ n \in DOMAIN usernames'
       /\ usernames'[n] # usernames[n] => Releasable(n)
  /\ Cardinality(DOMAIN validators) >= MinValidators
       => Cardinality(DOMAIN validators') >= MinValidators

\* What was granted is not taken back, restarts included: an identity keeps
\* its root wallet, a name stays with an owner who is active, and a validator
\* set that has reached its minimum never falls below it again, so "while
\* size was never required yet" is what the size alone says.
HoldingsPermanent == [][HoldingsKept]_nameVars
=============================================================================
