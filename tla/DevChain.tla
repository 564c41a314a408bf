------------------------------ MODULE DevChain ------------------------------
(***************************************************************************)
(* Identities and credentials of the development chain (DevChainClient in  *)
(* packages/client/src/chain-stub.ts): identity roots, device              *)
(* certificates and what authorised them, SSH keys, passkeys, pending      *)
(* passkey authorisations, revocations, and the state file.                *)
(*                                                                         *)
(* Every method that changes a map calls persist() before it returns, in   *)
(* the same synchronous block.  Two methods are suspended half-way:        *)
(* authorizeDeviceCertificateWithPasskey awaits the assertion's            *)
(* verification and authorizeDeviceCertificateWithSshKey awaits            *)
(* resolveSshKey.  Each is a Start and a Finish action, and what it holds  *)
(* across the await is a record in calls.  A call that throws before it    *)
(* changes anything is a stuttering step.                                  *)
(***************************************************************************)
EXTENDS Naturals, FiniteSets

CONSTANTS
  Identities,       \* identity ids, each the hash of one wallet
  Devices,          \* device ids
  DeviceKeys,       \* device signing keys
  SshKeys,          \* SSH key fingerprints
  Passkeys,         \* passkey credential ids
  Certificates,     \* the device certificates callers may present
  Calls,            \* slots for calls suspended at an await
  None,             \* absence from a map
  PendingTtl,       \* lifetime of a pending passkey authorisation
  SequenceAhead,    \* MAX_REVOCATION_SEQUENCE_AHEAD_MS
  MaxSshKeys,       \* MAX_SSH_KEYS_PER_IDENTITY
  MaxPending,       \* MAX_PENDING_PASSKEYS_PER_IDENTITY
  MaxSequence,      \* bound: largest revocation sequence presented
  MaxCounter,       \* bound: largest authenticator counter presented
  MaxTime           \* bound: last instant of the clock

\* A certificate names its account and device; rootSigned says whether its
\* rootSignature verifies under the account's wallet.
CertificateType ==
  [account: Identities, device: Devices, key: DeviceKeys,
   issuedAt: Nat, expiresAt: Nat, rootSigned: BOOLEAN]

ASSUME CertificatesAssumption == Certificates \subseteq CertificateType

ASSUME BoundsAssumption ==
  /\ PendingTtl \in Nat /\ SequenceAhead \in Nat
  /\ MaxSshKeys \in Nat /\ MaxPending \in Nat
  /\ MaxSequence \in Nat /\ MaxCounter \in Nat /\ MaxTime \in Nat

ASSUME NoneAssumption ==
  /\ None \notin CertificateType
  /\ None \notin [cert: Certificates, expiresAt: Nat]

VARIABLES
  now,                    \* Date.now()
  identityRoots,          \* identities whose root wallet is bound
  deviceCertificates,     \* identity, device |-> certificate or None
  deviceAuthorizations,   \* identity, device |-> what authorised it or None
  passkeys,               \* identity |-> registered credential ids
  passkeyCounter,         \* identity, credential |-> signature counter
  pendingPasskeys,        \* identity, device |-> pending authorisation or None
  sshKeys,                \* identity |-> registered fingerprints
  revocations,            \* revoked <<identity, credential>> pairs
  revocationSequences,    \* identity |-> last revocation sequence
  calls,                  \* suspended authorisations
  disk                    \* the state file

memory == <<identityRoots, deviceCertificates, deviceAuthorizations, passkeys,
            passkeyCounter, pendingPasskeys, sshKeys, revocations,
            revocationSequences>>

chainVars == <<now, memory, calls, disk>>

-----------------------------------------------------------------------------
(* Types *)

Credentials ==
  [kind: {"device"}, id: Devices] \cup [kind: {"ssh"}, id: SshKeys]
    \cup [kind: {"passkey"}, id: Passkeys]

Root == [kind |-> "root", id |-> None]
Ssh(k) == [kind |-> "ssh", id |-> k]
Passkey(p) == [kind |-> "passkey", id |-> p]
Device(d) == [kind |-> "device", id |-> d]

Authorizations ==
  {Root} \cup {Ssh(k) : k \in SshKeys} \cup {Passkey(p) : p \in Passkeys}

ASSUME AuthorizationAssumption == None \notin Authorizations \cup Credentials

PendingType == [cert: Certificates, expiresAt: Nat]

CallType ==
  [op: {"ssh"}, cert: Certificates, credential: SshKeys, counter: {0}]
    \cup
  [op: {"passkey"}, cert: Certificates, credential: Passkeys, counter: Nat]

\* What persist() writes.
Image ==
  [roots |-> identityRoots, certificates |-> deviceCertificates,
   authorizations |-> deviceAuthorizations, passkeys |-> passkeys,
   counters |-> passkeyCounter, pending |-> pendingPasskeys,
   sshKeys |-> sshKeys, revocations |-> revocations,
   sequences |-> revocationSequences]

ImageType ==
  [roots: SUBSET Identities,
   certificates: [Identities -> [Devices -> Certificates \cup {None}]],
   authorizations: [Identities -> [Devices -> Authorizations \cup {None}]],
   passkeys: [Identities -> SUBSET Passkeys],
   counters: [Identities -> [Passkeys -> Nat]],
   pending: [Identities -> [Devices -> PendingType \cup {None}]],
   sshKeys: [Identities -> SUBSET SshKeys],
   revocations: SUBSET (Identities \X Credentials),
   sequences: [Identities -> Nat]]

-----------------------------------------------------------------------------
(* Queries *)

IsRevoked(i, credential) == <<i, credential>> \in revocations

\* isCertificateRevoked: the device, or the credential that authorised it.
IsCertificateRevoked(i, d) ==
  \/ IsRevoked(i, Device(d))
  \/ /\ deviceAuthorizations[i][d] \notin {None, Root}
     /\ IsRevoked(i, deviceAuthorizations[i][d])

\* resolveDeviceCertificate returns the stored certificate, or None.
ResolveDeviceCertificate(i, d) ==
  LET c == deviceCertificates[i][d]
  IN  IF /\ c # None
         /\ c.issuedAt <= now /\ now < c.expiresAt
         /\ ~IsCertificateRevoked(i, d)
      THEN c ELSE None

\* isDeviceCertificateShapeValid, and the checks at the head of
\* registerDeviceCertificate.
IsShapeValid(c) == c.issuedAt < c.expiresAt /\ now < c.expiresAt

LiveSshKeys(i) == {k \in sshKeys[i] : ~IsRevoked(i, Ssh(k))}

HasLivePasskey(i) == \E p \in passkeys[i] : ~IsRevoked(i, Passkey(p))

ResolveSshKey(i, k) == k \in LiveSshKeys(i)

\* Mutant: a revoked device is not held to its authorisation.
RevokedDeviceMayChange(c, authorization) ==
  LET existing == deviceCertificates[c.account][c.device]
  IN  /\ existing # None
      /\ now < existing.expiresAt
      /\ ~IsCertificateRevoked(c.account, c.device)
      => /\ existing.key = c.key
         /\ deviceAuthorizations[c.account][c.device] = authorization

\* assertNoConflictingDevice returns normally: a stored certificate that has
\* not expired keeps its signing key and its authorisation.
NoConflictingDevice(c, authorization) ==
  LET existing == deviceCertificates[c.account][c.device]
  IN  existing # None /\ now < existing.expiresAt
      => /\ existing.key = c.key
         /\ deviceAuthorizations[c.account][c.device] = authorization

\* The signature-counter rule of verifyAuthenticationResponse.
VerifyCounter(stored, presented) ==
  (stored = 0 /\ presented = 0) \/ presented > stored

-----------------------------------------------------------------------------
(* Effects shared by several methods *)

\* Mutant: the save is forgotten.
ForgetPersist == UNCHANGED disk

Persist == disk' = Image'

StoreCertificate(c, authorization) ==
  /\ deviceCertificates' =
       [deviceCertificates EXCEPT ![c.account][c.device] = c]
  /\ deviceAuthorizations' =
       [deviceAuthorizations EXCEPT ![c.account][c.device] = authorization]

Suspend(call, record) ==
  /\ calls[call] = None
  /\ calls' = [calls EXCEPT ![call] = record]

Resume(call) == calls' = [calls EXCEPT ![call] = None]

-----------------------------------------------------------------------------
(* Methods *)

RegisterIdentity(i) ==
  /\ i \notin identityRoots
  /\ identityRoots' = identityRoots \cup {i}
  /\ UNCHANGED <<now, deviceCertificates, deviceAuthorizations, passkeys,
                 passkeyCounter, pendingPasskeys, sshKeys, revocations,
                 revocationSequences, calls>>
  /\ Persist

CanRegisterDeviceCertificate(c) ==
  /\ IsShapeValid(c)
  /\ c.account \in identityRoots
  /\ c.rootSigned
  /\ ~IsRevoked(c.account, Device(c.device))
  /\ NoConflictingDevice(c, Root)

RegisterDeviceCertificate(c) ==
  /\ CanRegisterDeviceCertificate(c)
  /\ StoreCertificate(c, Root)
  /\ UNCHANGED <<now, identityRoots, passkeys, passkeyCounter,
                 pendingPasskeys, sshKeys, revocations, revocationSequences,
                 calls>>
  /\ Persist

\* Unlike registerSshKey, this does not refuse a revoked credential id.
RegisterPasskeyCredential(i, p, counter) ==
  /\ i \in identityRoots
  /\ p \notin passkeys[i]
  /\ passkeys' = [passkeys EXCEPT ![i] = @ \cup {p}]
  /\ passkeyCounter' = [passkeyCounter EXCEPT ![i][p] = counter]
  /\ UNCHANGED <<now, identityRoots, deviceCertificates,
                 deviceAuthorizations, pendingPasskeys, sshKeys, revocations,
                 revocationSequences, calls>>
  /\ Persist

CanRegisterSshKey(i, k) ==
  /\ i \in identityRoots
  /\ k \notin sshKeys[i]
  /\ ~IsRevoked(i, Ssh(k))
  /\ Cardinality(LiveSshKeys(i)) < MaxSshKeys

RegisterSshKey(i, k) ==
  /\ CanRegisterSshKey(i, k)
  /\ sshKeys' = [sshKeys EXCEPT ![i] = @ \cup {k}]
  /\ UNCHANGED <<now, identityRoots, deviceCertificates,
                 deviceAuthorizations, passkeys, passkeyCounter,
                 pendingPasskeys, revocations, revocationSequences, calls>>
  /\ Persist

\* Mutant: a revocation may be repeated with its own sequence.
RepeatedSequence(i, sequence) ==
  /\ i \in identityRoots
  /\ sequence \in 1..(now + SequenceAhead)
  /\ sequence >= revocationSequences[i]

CanRevokeCredential(i, sequence) ==
  /\ i \in identityRoots
  /\ sequence \in 1..(now + SequenceAhead)
  /\ sequence > revocationSequences[i]

RevokeCredential(i, credential, sequence) ==
  /\ CanRevokeCredential(i, sequence)
  /\ revocationSequences' = [revocationSequences EXCEPT ![i] = sequence]
  /\ revocations' = revocations \cup {<<i, credential>>}
  /\ UNCHANGED <<now, identityRoots, deviceCertificates,
                 deviceAuthorizations, passkeys, passkeyCounter,
                 pendingPasskeys, sshKeys, calls>>
  /\ Persist

\* prunePendingPasskeys drops the expired entries of every identity.
Pruned ==
  [i \in Identities |-> [d \in Devices |->
     IF pendingPasskeys[i][d] # None /\ pendingPasskeys[i][d].expiresAt <= now
     THEN None ELSE pendingPasskeys[i][d]]]

TooManyPending(c) ==
  /\ Cardinality({d \in Devices : Pruned[c.account][d] # None}) >= MaxPending
  /\ Pruned[c.account][c.device] = None

\* The prune happens before the count is refused, and a refusal does not
\* reach persist().
BeginPasskeyDeviceCertificateAuthorization(c) ==
  LET i == c.account
  IN  /\ i \in identityRoots
      /\ IsShapeValid(c)
      /\ HasLivePasskey(i)
      /\ ~IsRevoked(i, Device(c.device))
      /\ UNCHANGED <<now, identityRoots, deviceCertificates,
                     deviceAuthorizations, passkeys, passkeyCounter, sshKeys,
                     revocations, revocationSequences, calls>>
      /\ \/ /\ TooManyPending(c)
            /\ pendingPasskeys' = Pruned
            /\ UNCHANGED disk
         \/ /\ ~TooManyPending(c)
            /\ pendingPasskeys' = [Pruned EXCEPT ![i][c.device] =
                 [cert |-> c, expiresAt |-> now + PendingTtl]]
            /\ Persist

\* Up to the await of verifyAuthenticationResponse.  The gateway passes its
\* own challenge (gatewayChallenge); other callers answer a pending one.
CanStartPasskeyAuthorization(c, p, counter, gatewayChallenge) ==
  LET i == c.account
      pending == pendingPasskeys[i][c.device]
  IN  /\ IsShapeValid(c)
      /\ \/ gatewayChallenge
         \/ pending # None /\ now <= pending.expiresAt /\ pending.cert = c
      /\ p \in passkeys[i] /\ ~IsRevoked(i, Passkey(p))
      /\ VerifyCounter(passkeyCounter[i][p], counter)

StartPasskeyAuthorization(call, c, p, counter, gatewayChallenge) ==
  /\ CanStartPasskeyAuthorization(c, p, counter, gatewayChallenge)
  /\ Suspend(call, [op |-> "passkey", cert |-> c, credential |-> p,
                    counter |-> counter])
  /\ UNCHANGED <<now, memory, disk>>

\* After the await: the counter is stored first, so a conflict leaves it
\* changed in memory and not on disk.
FinishPasskeyAuthorization(call) ==
  /\ calls[call] # None /\ calls[call].op = "passkey"
  /\ LET c == calls[call].cert
         i == c.account
         authorization == Passkey(calls[call].credential)
     IN  /\ passkeyCounter' = [passkeyCounter EXCEPT
              ![i][calls[call].credential] = calls[call].counter]
         /\ Resume(call)
         /\ UNCHANGED <<now, identityRoots, passkeys, sshKeys, revocations,
                        revocationSequences>>
         /\ \/ /\ ~NoConflictingDevice(c, authorization)
               /\ UNCHANGED <<deviceCertificates, deviceAuthorizations,
                              pendingPasskeys, disk>>
            \/ /\ NoConflictingDevice(c, authorization)
               /\ StoreCertificate(c, authorization)
               /\ pendingPasskeys' =
                    [pendingPasskeys EXCEPT ![i][c.device] = None]
               /\ Persist

\* Mutant: only the revocation is looked up, not the commitment.
UncommittedSshKey(c, k) ==
  /\ c.account \in identityRoots
  /\ IsShapeValid(c)
  /\ ~IsRevoked(c.account, Ssh(k))

\* Up to the await of resolveSshKey.
CanStartSshAuthorization(c, k) ==
  /\ c.account \in identityRoots
  /\ IsShapeValid(c)
  /\ ResolveSshKey(c.account, k)

StartSshAuthorization(call, c, k) ==
  /\ CanStartSshAuthorization(c, k)
  /\ Suspend(call, [op |-> "ssh", cert |-> c, credential |-> k,
                    counter |-> 0])
  /\ UNCHANGED <<now, memory, disk>>

CanFinishSshAuthorization(call) ==
  LET c == calls[call].cert
  IN  /\ ~IsRevoked(c.account, Device(c.device))
      /\ NoConflictingDevice(c, Ssh(calls[call].credential))

FinishSshAuthorization(call) ==
  /\ calls[call] # None /\ calls[call].op = "ssh"
  /\ Resume(call)
  /\ UNCHANGED <<now, identityRoots, passkeys, passkeyCounter,
                 pendingPasskeys, sshKeys, revocations, revocationSequences>>
  /\ \/ /\ ~CanFinishSshAuthorization(call)
        /\ UNCHANGED <<deviceCertificates, deviceAuthorizations, disk>>
     \/ /\ CanFinishSshAuthorization(call)
        /\ StoreCertificate(calls[call].cert, Ssh(calls[call].credential))
        /\ Persist

-----------------------------------------------------------------------------
(* Environment *)

\* The process ends at any point and restore() reads the file back.
Restart ==
  /\ identityRoots' = disk.roots
  /\ deviceCertificates' = disk.certificates
  /\ deviceAuthorizations' = disk.authorizations
  /\ passkeys' = disk.passkeys
  /\ passkeyCounter' = disk.counters
  /\ pendingPasskeys' = disk.pending
  /\ sshKeys' = disk.sshKeys
  /\ revocations' = disk.revocations
  /\ revocationSequences' = disk.sequences
  /\ calls' = [call \in Calls |-> None]
  /\ UNCHANGED <<now, disk>>

Tick ==
  /\ now < MaxTime
  /\ now' = now + 1
  /\ UNCHANGED <<memory, calls, disk>>

-----------------------------------------------------------------------------
Init ==
  /\ now = 0
  /\ identityRoots = {}
  /\ deviceCertificates = [i \in Identities |-> [d \in Devices |-> None]]
  /\ deviceAuthorizations = [i \in Identities |-> [d \in Devices |-> None]]
  /\ passkeys = [i \in Identities |-> {}]
  /\ passkeyCounter = [i \in Identities |-> [p \in Passkeys |-> 0]]
  /\ pendingPasskeys = [i \in Identities |-> [d \in Devices |-> None]]
  /\ sshKeys = [i \in Identities |-> {}]
  /\ revocations = {}
  /\ revocationSequences = [i \in Identities |-> 0]
  /\ calls = [call \in Calls |-> None]
  /\ disk = Image

Next ==
  \/ \E i \in Identities : RegisterIdentity(i)
  \/ \E c \in Certificates : RegisterDeviceCertificate(c)
  \/ \E i \in Identities, p \in Passkeys, n \in 0..MaxCounter :
       RegisterPasskeyCredential(i, p, n)
  \/ \E i \in Identities, k \in SshKeys : RegisterSshKey(i, k)
  \/ \E i \in Identities, r \in Credentials, n \in 1..MaxSequence :
       RevokeCredential(i, r, n)
  \/ \E c \in Certificates : BeginPasskeyDeviceCertificateAuthorization(c)
  \/ \E call \in Calls, c \in Certificates, p \in Passkeys,
        n \in 0..MaxCounter, g \in BOOLEAN :
       StartPasskeyAuthorization(call, c, p, n, g)
  \/ \E call \in Calls : FinishPasskeyAuthorization(call)
  \/ \E call \in Calls, c \in Certificates, k \in SshKeys :
       StartSshAuthorization(call, c, k)
  \/ \E call \in Calls : FinishSshAuthorization(call)
  \/ Restart
  \/ Tick

Spec == Init /\ [][Next]_chainVars

-----------------------------------------------------------------------------
(* Properties *)

\* Every map holds what its TypeScript type says, on disk as in memory.
TypeOK ==
  /\ now \in Nat
  /\ Image \in ImageType
  /\ disk \in ImageType
  /\ calls \in [Calls -> CallType \cup {None}]

\* The state file never lags behind what callers were told: a restart at any
\* point loses nothing but the counter of an assertion whose certificate was
\* refused, and brings back at most pending authorisations that had expired.
DurableImage ==
  /\ disk.roots = identityRoots
  /\ disk.certificates = deviceCertificates
  /\ disk.authorizations = deviceAuthorizations
  /\ disk.passkeys = passkeys
  /\ disk.sshKeys = sshKeys
  /\ disk.revocations = revocations
  /\ disk.sequences = revocationSequences
  /\ \A i \in Identities, d \in Devices :
       disk.pending[i][d] # pendingPasskeys[i][d] =>
         /\ pendingPasskeys[i][d] = None
         /\ disk.pending[i][d].expiresAt <= now

\* The authority chain: every recorded certificate was authorised by the
\* wallet or by a credential the wallet had committed to, for an identity
\* that has a root, however revocations, awaits and restarts interleave.
AuthorityChain ==
  \A i \in Identities, d \in Devices :
    /\ (deviceCertificates[i][d] = None) = (deviceAuthorizations[i][d] = None)
    /\ deviceAuthorizations[i][d] # None =>
         /\ i \in identityRoots
         /\ deviceCertificates[i][d].account = i
         /\ deviceCertificates[i][d].device = d
         /\ \/ deviceAuthorizations[i][d] = Root
            \/ \E k \in sshKeys[i] : deviceAuthorizations[i][d] = Ssh(k)
            \/ \E p \in passkeys[i] : deviceAuthorizations[i][d] = Passkey(p)

BindingKept ==
  \A i \in Identities, d \in Devices :
    LET c == deviceCertificates[i][d]
    IN  c # None /\ now < c.expiresAt =>
          /\ deviceCertificates'[i][d] # None
          /\ deviceCertificates'[i][d].key = c.key
          /\ deviceAuthorizations'[i][d] = deviceAuthorizations[i][d]

\* Until it expires, a device's certificate keeps the signing key and the
\* authorisation it was recorded with (assertNoConflictingDevice), although
\* other authorisations of the device finish in any order.
LiveBindingStable == [][BindingKept]_chainVars

RevocationsKept ==
  /\ revocations \subseteq revocations'
  /\ \A i \in Identities : revocationSequences[i] <= revocationSequences'[i]
  /\ \A r \in revocations' \ revocations :
       revocationSequences[r[1]] < revocationSequences'[r[1]]

\* Revocations are permanent, restarts included, and each new one is recorded
\* under a larger sequence of its identity.
RevocationPermanent == [][RevocationsKept]_chainVars

KilledKept ==
  \A i \in Identities, d \in Devices :
    /\ deviceCertificates[i][d] # None
    /\ now < deviceCertificates[i][d].expiresAt
    /\ IsCertificateRevoked(i, d)
    => ResolveDeviceCertificate(i, d)' = None

\* "Revoking the key kills every device certificate it authorised": a
\* certificate that does not resolve because of a revocation is not brought
\* back, by an authorisation in flight or by another credential.
KilledStaysKilled == [][KilledKept]_chainVars
=============================================================================
