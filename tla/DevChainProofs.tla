---------------------------- MODULE DevChainProofs ----------------------------
(***************************************************************************)
(* Proofs about DevChain for every set of identities, devices, credentials, *)
(* certificates and concurrent calls, and every bound; and about the posting *)
(* limits of RatePolicy, which the gateway keeps beside the chain.          *)
(***************************************************************************)
EXTENDS DevChain, RatePolicy, FiniteSetTheorems, TLAPS

\* The backend of every leaf that names none, with a second run of more time.
USE Zenon, ZenonT(20)

\* TypeOK with the in-memory image spelt out map by map.
MemoryTypeOK ==
  /\ identityRoots \in SUBSET Identities
  /\ deviceCertificates \in
       [Identities -> [Devices -> Certificates \cup {None}]]
  /\ deviceAuthorizations \in
       [Identities -> [Devices -> Authorizations \cup {None}]]
  /\ passkeys \in [Identities -> SUBSET Passkeys]
  /\ passkeyCounter \in [Identities -> [Passkeys -> Nat]]
  /\ pendingPasskeys \in [Identities -> [Devices -> PendingType \cup {None}]]
  /\ sshKeys \in [Identities -> SUBSET SshKeys]
  /\ revocations \in SUBSET (Identities \X Credentials)
  /\ revocationSequences \in [Identities -> Nat]

\* What persist writes is typed when the maps are.
LEMMA ImageTyped ==
  ASSUME MemoryTypeOK
  PROVE  Image \in ImageType
BY SMT, Z3 DEF MemoryTypeOK, Image, ImageType

\* The same of the maps after a step.
LEMMA ImageTypedPrime ==
  ASSUME MemoryTypeOK'
  PROVE  Image' \in ImageType
BY SMT, Z3 DEF MemoryTypeOK, Image, ImageType

\* A file that is typed restores typed maps.
LEMMA MemoryTyped ==
  ASSUME Image \in ImageType
  PROVE  MemoryTypeOK
BY SMT, Z3 DEF MemoryTypeOK, Image, ImageType

\* The fields callers pass in a certificate.
LEMMA CertificateFields ==
  ASSUME NEW c \in Certificates
  PROVE  /\ c.account \in Identities /\ c.device \in Devices
         /\ c.key \in DeviceKeys
         /\ c.issuedAt \in Nat /\ c.expiresAt \in Nat
         /\ c # None
BY SMT, Z3, CertificatesAssumption, NoneAssumption DEF CertificateType

\* Recording a certificate and its authorisation keeps both maps typed.
LEMMA StoreCertificateTyped ==
  ASSUME MemoryTypeOK, NEW c \in Certificates,
         NEW a \in Authorizations, StoreCertificate(c, a)
  PROVE  /\ deviceCertificates' \in
              [Identities -> [Devices -> Certificates \cup {None}]]
         /\ deviceAuthorizations' \in
              [Identities -> [Devices -> Authorizations \cup {None}]]
BY SMT, Z3, CertificateFields DEF MemoryTypeOK, StoreCertificate

----------------------------------------------------------------------------
(* Type correctness.                                                        *)

CallsTypeOK == calls \in [Calls -> CallType \cup {None}]

\* A method that saves leaves the state file typed when the maps are.
LEMMA PersistTyped ==
  ASSUME MemoryTypeOK', Persist
  PROVE  disk' \in ImageType
BY SMT, Z3, ImageTypedPrime DEF Persist

\* The empty chain is typed.
LEMMA InitTyped == Init => TypeOK
<1> SUFFICES ASSUME Init PROVE TypeOK
  BY SMT, Z3
<1>1. MemoryTypeOK
  BY SMT, Z3 DEF Init, MemoryTypeOK
<1>2. Image \in ImageType /\ disk \in ImageType
  BY SMT, Z3, <1>1, ImageTyped DEF Init
<1>3. now \in Nat /\ CallsTypeOK
  BY SMT, Z3 DEF Init, CallsTypeOK
<1> QED
  BY SMT, Z3, <1>2, <1>3 DEF TypeOK, CallsTypeOK

\* prunePendingPasskeys keeps the pending authorisations typed.
LEMMA PrunedTyped ==
  ASSUME MemoryTypeOK
  PROVE  Pruned \in [Identities -> [Devices -> PendingType \cup {None}]]
BY SMT, Z3 DEF MemoryTypeOK, Pruned

\* One step keeps the maps, the file and the suspended calls typed.
LEMMA NextTyped == TypeOK /\ [Next]_chainVars => TypeOK'
<1> SUFFICES ASSUME TypeOK, [Next]_chainVars
             PROVE  MemoryTypeOK' /\ disk' \in ImageType /\ now' \in Nat
                      /\ CallsTypeOK'
  BY SMT, Z3, ImageTypedPrime DEF TypeOK, CallsTypeOK
<1>0. MemoryTypeOK /\ disk \in ImageType /\ now \in Nat /\ CallsTypeOK
  BY SMT, Z3, MemoryTyped DEF TypeOK, CallsTypeOK
<1>1. ASSUME NEW i \in Identities, RegisterIdentity(i)
      PROVE  MemoryTypeOK' /\ disk' \in ImageType /\ now' \in Nat /\ CallsTypeOK'
  <2>1. MemoryTypeOK'
    BY SMT, Z3, <1>0, <1>1 DEF RegisterIdentity, MemoryTypeOK
  <2> QED
    BY SMT, Z3, <1>0, <1>1, <2>1, PersistTyped DEF RegisterIdentity, CallsTypeOK
<1>2. ASSUME NEW c \in Certificates, RegisterDeviceCertificate(c)
      PROVE  MemoryTypeOK' /\ disk' \in ImageType /\ now' \in Nat /\ CallsTypeOK'
  <2>1. MemoryTypeOK'
    BY <1>0, <1>2, StoreCertificateTyped DEF RegisterDeviceCertificate,
         MemoryTypeOK, Authorizations
  <2> QED
    BY SMT, Z3, <1>0, <1>2, <2>1, PersistTyped DEF RegisterDeviceCertificate,
         CallsTypeOK
<1>3. ASSUME NEW i \in Identities, NEW p \in Passkeys, NEW n \in 0..MaxCounter,
             RegisterPasskeyCredential(i, p, n)
      PROVE  MemoryTypeOK' /\ disk' \in ImageType /\ now' \in Nat /\ CallsTypeOK'
  <2>1. n \in Nat
    BY SMT, Z3, BoundsAssumption
  <2>2. MemoryTypeOK'
    BY SMT, Z3, <1>0, <1>3, <2>1 DEF RegisterPasskeyCredential, MemoryTypeOK
  <2> QED
    BY SMT, Z3, <1>0, <1>3, <2>2, PersistTyped DEF RegisterPasskeyCredential,
         CallsTypeOK
<1>4. ASSUME NEW i \in Identities, NEW k \in SshKeys, RegisterSshKey(i, k)
      PROVE  MemoryTypeOK' /\ disk' \in ImageType /\ now' \in Nat /\ CallsTypeOK'
  <2>1. MemoryTypeOK'
    BY SMT, Z3, <1>0, <1>4 DEF RegisterSshKey, MemoryTypeOK
  <2> QED
    BY SMT, Z3, <1>0, <1>4, <2>1, PersistTyped DEF RegisterSshKey, CallsTypeOK
<1>5. ASSUME NEW i \in Identities, NEW r \in Credentials,
             NEW n \in 1..MaxSequence, RevokeCredential(i, r, n)
      PROVE  MemoryTypeOK' /\ disk' \in ImageType /\ now' \in Nat /\ CallsTypeOK'
  <2>1. n \in Nat
    BY SMT, Z3, BoundsAssumption
  <2>2. MemoryTypeOK'
    BY SMT, Z3, <1>0, <1>5, <2>1 DEF RevokeCredential, MemoryTypeOK
  <2> QED
    BY SMT, Z3, <1>0, <1>5, <2>2, PersistTyped DEF RevokeCredential, CallsTypeOK
<1>6. ASSUME NEW c \in Certificates,
             BeginPasskeyDeviceCertificateAuthorization(c)
      PROVE  MemoryTypeOK' /\ disk' \in ImageType /\ now' \in Nat /\ CallsTypeOK'
  <2>1. [cert |-> c, expiresAt |-> now + PendingTtl] \in PendingType
    BY SMT, Z3, <1>0, BoundsAssumption DEF PendingType
  <2>2. pendingPasskeys' \in [Identities -> [Devices -> PendingType \cup {None}]]
    BY SMT, Z3, <1>0, <1>6, <2>1, PrunedTyped, CertificateFields DEF
         BeginPasskeyDeviceCertificateAuthorization
  <2>3. MemoryTypeOK'
    BY SMT, Z3, <1>0, <1>6, <2>2 DEF BeginPasskeyDeviceCertificateAuthorization,
         MemoryTypeOK
  <2>4. disk' \in ImageType
    BY SMT, Z3, <1>0, <1>6, <2>3, PersistTyped DEF
         BeginPasskeyDeviceCertificateAuthorization
  <2> QED
    BY SMT, Z3, <1>0, <1>6, <2>3, <2>4 DEF
         BeginPasskeyDeviceCertificateAuthorization, CallsTypeOK
<1>7. ASSUME NEW call \in Calls, NEW c \in Certificates, NEW p \in Passkeys,
             NEW n \in 0..MaxCounter, NEW g \in BOOLEAN,
             StartPasskeyAuthorization(call, c, p, n, g)
      PROVE  MemoryTypeOK' /\ disk' \in ImageType /\ now' \in Nat /\ CallsTypeOK'
  <2>1. [op |-> "passkey", cert |-> c, credential |-> p, counter |-> n]
          \in CallType
    BY SMT, Z3, BoundsAssumption DEF CallType
  <2>2. CallsTypeOK'
    BY SMT, Z3, <1>0, <1>7, <2>1 DEF StartPasskeyAuthorization, Suspend,
         CallsTypeOK
  <2> QED
    BY SMT, Z3, <1>0, <1>7, <2>2 DEF StartPasskeyAuthorization, memory,
         MemoryTypeOK
<1>8. ASSUME NEW call \in Calls, FinishPasskeyAuthorization(call)
      PROVE  MemoryTypeOK' /\ disk' \in ImageType /\ now' \in Nat /\ CallsTypeOK'
  <2> DEFINE c == calls[call].cert
             p == calls[call].credential
             n == calls[call].counter
  <2>1. c \in Certificates /\ p \in Passkeys /\ n \in Nat
    BY SMT, Z3, <1>0, <1>8 DEF FinishPasskeyAuthorization, CallsTypeOK, CallType
  <2>2. c.account \in Identities /\ c.device \in Devices
    BY SMT, Z3, <2>1, CertificateFields
  <2>3. Passkey(p) \in Authorizations
    BY SMT, Z3, <2>1 DEF Authorizations
  <2>4. CallsTypeOK'
    BY SMT, Z3, <1>0, <1>8 DEF FinishPasskeyAuthorization, Resume, CallsTypeOK
  <2>5. passkeyCounter' \in [Identities -> [Passkeys -> Nat]]
    BY SMT, Z3, <1>0, <1>8, <2>1, <2>2 DEF FinishPasskeyAuthorization,
         MemoryTypeOK
  <2>6. CASE StoreCertificate(c, Passkey(p)) /\ Persist
             /\ pendingPasskeys' =
                  [pendingPasskeys EXCEPT ![c.account][c.device] = None]
    <3>1. MemoryTypeOK'
      BY SMT, Z3, <1>0, <1>8, <2>1, <2>2, <2>3, <2>5, <2>6,
           StoreCertificateTyped DEF FinishPasskeyAuthorization, MemoryTypeOK
    <3> QED
      BY SMT, Z3, <1>0, <1>8, <2>4, <2>6, <3>1, PersistTyped DEF
           FinishPasskeyAuthorization
  <2>7. CASE UNCHANGED <<deviceCertificates, deviceAuthorizations,
                         pendingPasskeys, disk>>
    BY SMT, Z3, <1>0, <1>8, <2>4, <2>5, <2>7 DEF FinishPasskeyAuthorization,
         MemoryTypeOK
  <2> QED
    BY SMT, Z3, <1>8, <2>6, <2>7 DEF FinishPasskeyAuthorization
<1>9. ASSUME NEW call \in Calls, NEW c \in Certificates, NEW k \in SshKeys,
             StartSshAuthorization(call, c, k)
      PROVE  MemoryTypeOK' /\ disk' \in ImageType /\ now' \in Nat /\ CallsTypeOK'
  <2>1. [op |-> "ssh", cert |-> c, credential |-> k, counter |-> 0]
          \in CallType
    BY SMT, Z3 DEF CallType
  <2>2. CallsTypeOK'
    BY SMT, Z3, <1>0, <1>9, <2>1 DEF StartSshAuthorization, Suspend, CallsTypeOK
  <2> QED
    BY SMT, Z3, <1>0, <1>9, <2>2 DEF StartSshAuthorization, memory, MemoryTypeOK
<1>10. ASSUME NEW call \in Calls, FinishSshAuthorization(call)
       PROVE  MemoryTypeOK' /\ disk' \in ImageType /\ now' \in Nat /\ CallsTypeOK'
  <2> DEFINE c == calls[call].cert
             k == calls[call].credential
  <2>1. c \in Certificates /\ k \in SshKeys
    BY SMT, Z3, <1>0, <1>10 DEF FinishSshAuthorization, CallsTypeOK, CallType
  <2>2. Ssh(k) \in Authorizations
    BY SMT, Z3, <2>1 DEF Authorizations
  <2>3. CallsTypeOK'
    BY SMT, Z3, <1>0, <1>10 DEF FinishSshAuthorization, Resume, CallsTypeOK
  <2>4. CASE StoreCertificate(c, Ssh(k)) /\ Persist
    <3>1. MemoryTypeOK'
      BY SMT, Z3, <1>0, <1>10, <2>1, <2>2, <2>4, StoreCertificateTyped DEF
           FinishSshAuthorization, MemoryTypeOK
    <3> QED
      BY SMT, Z3, <1>0, <1>10, <2>3, <2>4, <3>1, PersistTyped DEF
           FinishSshAuthorization
  <2>5. CASE UNCHANGED <<deviceCertificates, deviceAuthorizations, disk>>
    BY SMT, Z3, <1>0, <1>10, <2>3, <2>5 DEF FinishSshAuthorization, MemoryTypeOK
  <2> QED
    BY SMT, Z3, <1>10, <2>4, <2>5 DEF FinishSshAuthorization
<1>11. CASE Restart
  BY SMT, Z3, <1>0, <1>11 DEF Restart, MemoryTypeOK, CallsTypeOK, ImageType
<1>12. CASE Tick
  BY SMT, Z3, <1>0, <1>12 DEF Tick, memory, MemoryTypeOK, CallsTypeOK
<1>13. CASE UNCHANGED chainVars
  BY SMT, Z3, <1>0, <1>13 DEF chainVars, memory, MemoryTypeOK, CallsTypeOK
<1> QED
  BY SMT, Z3, <1>1, <1>2, <1>3, <1>4, <1>5, <1>6, <1>7, <1>8, <1>9, <1>10,
       <1>11, <1>12, <1>13 DEF Next

\* Every map of the chain, in memory and in the state file, and every call
\* suspended at an await is well typed in every reachable state.
THEOREM TypeCorrect == Spec => []TypeOK
BY InitTyped, NextTyped, PTL DEF Spec

----------------------------------------------------------------------------
(* The authority chain.  AuthorityChain is not inductive by itself: the     *)
(* Finish actions record what a call carried across its await, and Restart  *)
(* reads the file.  The strengthening says that a suspended call carries    *)
(* only committed credentials, that credentials are committed only under a  *)
(* root, and that the file agrees with memory.                              *)

CallsCommitted ==
  \A call \in Calls : calls[call] # None =>
    /\ calls[call].op = "ssh" =>
         calls[call].credential \in sshKeys[calls[call].cert.account]
    /\ calls[call].op = "passkey" =>
         calls[call].credential \in passkeys[calls[call].cert.account]

CredentialsRooted ==
  \A i \in Identities :
    sshKeys[i] # {} \/ passkeys[i] # {} => i \in identityRoots

ChainInv ==
  /\ TypeOK
  /\ DurableImage
  /\ AuthorityChain
  /\ CallsCommitted
  /\ CredentialsRooted

\* Right after a save the file and memory agree in full.
LEMMA PersistDurable ==
  ASSUME Persist
  PROVE  DurableImage'
BY SMT, Z3 DEF Persist, DurableImage, Image

\* The empty chain satisfies the inductive invariant.
LEMMA InitChainInv == Init => ChainInv
<1> SUFFICES ASSUME Init PROVE ChainInv
  BY SMT, Z3
<1>1. TypeOK
  BY SMT, Z3, InitTyped
<1>2. DurableImage
  BY SMT, Z3 DEF Init, DurableImage, Image
<1>3. AuthorityChain /\ CallsCommitted /\ CredentialsRooted
  BY SMT, Z3 DEF Init, AuthorityChain, CallsCommitted, CredentialsRooted
<1> QED
  BY SMT, Z3, <1>1, <1>2, <1>3 DEF ChainInv

\* One step of any method, suspended call or restart keeps the file durable.
LEMMA NextDurable == ChainInv /\ [Next]_chainVars => DurableImage'
<1> SUFFICES ASSUME ChainInv, [Next]_chainVars
             PROVE  DurableImage'
  BY SMT, Z3
<1>0. DurableImage /\ TypeOK /\ MemoryTypeOK
  BY SMT, Z3, MemoryTyped DEF ChainInv, TypeOK
<1>1. ASSUME NEW i \in Identities, RegisterIdentity(i)
      PROVE  DurableImage'
  BY SMT, Z3, <1>1, PersistDurable DEF RegisterIdentity
<1>2. ASSUME NEW c \in Certificates, RegisterDeviceCertificate(c)
      PROVE  DurableImage'
  BY SMT, Z3, <1>2, PersistDurable DEF RegisterDeviceCertificate
<1>3. ASSUME NEW i \in Identities, NEW p \in Passkeys, NEW n \in 0..MaxCounter,
             RegisterPasskeyCredential(i, p, n)
      PROVE  DurableImage'
  BY SMT, Z3, <1>3, PersistDurable DEF RegisterPasskeyCredential
<1>4. ASSUME NEW i \in Identities, NEW k \in SshKeys, RegisterSshKey(i, k)
      PROVE  DurableImage'
  BY SMT, Z3, <1>4, PersistDurable DEF RegisterSshKey
<1>5. ASSUME NEW i \in Identities, NEW r \in Credentials,
             NEW n \in 1..MaxSequence, RevokeCredential(i, r, n)
      PROVE  DurableImage'
  BY SMT, Z3, <1>5, PersistDurable DEF RevokeCredential
<1>6. ASSUME NEW c \in Certificates,
             BeginPasskeyDeviceCertificateAuthorization(c)
      PROVE  DurableImage'
  <2>1. CASE pendingPasskeys' = Pruned /\ UNCHANGED disk
    <3>1. ASSUME NEW i \in Identities, NEW d \in Devices,
                 disk.pending[i][d] # Pruned[i][d]
          PROVE  Pruned[i][d] = None /\ disk.pending[i][d].expiresAt <= now
      BY SMT, Z3, <1>0, <3>1 DEF DurableImage, Pruned
    <3> QED
      BY SMT, Z3, <1>0, <1>6, <2>1, <3>1 DEF
           BeginPasskeyDeviceCertificateAuthorization, DurableImage
  <2> QED
    BY SMT, Z3, <1>6, <2>1, PersistDurable DEF
         BeginPasskeyDeviceCertificateAuthorization
<1>7. ASSUME NEW call \in Calls, NEW c \in Certificates, NEW p \in Passkeys,
             NEW n \in 0..MaxCounter, NEW g \in BOOLEAN,
             StartPasskeyAuthorization(call, c, p, n, g)
      PROVE  DurableImage'
  BY SMT, Z3, <1>0, <1>7 DEF StartPasskeyAuthorization, memory, DurableImage
<1>8. ASSUME NEW call \in Calls, FinishPasskeyAuthorization(call)
      PROVE  DurableImage'
  <2>1. CASE Persist
    BY SMT, Z3, <2>1, PersistDurable
  <2>2. CASE UNCHANGED <<deviceCertificates, deviceAuthorizations,
                         pendingPasskeys, disk>>
    BY SMT, Z3, <1>0, <1>8, <2>2 DEF FinishPasskeyAuthorization, DurableImage
  <2> QED
    BY SMT, Z3, <1>8, <2>1, <2>2 DEF FinishPasskeyAuthorization
<1>9. ASSUME NEW call \in Calls, NEW c \in Certificates, NEW k \in SshKeys,
             StartSshAuthorization(call, c, k)
      PROVE  DurableImage'
  BY SMT, Z3, <1>0, <1>9 DEF StartSshAuthorization, memory, DurableImage
<1>10. ASSUME NEW call \in Calls, FinishSshAuthorization(call)
       PROVE  DurableImage'
  <2>1. CASE Persist
    BY SMT, Z3, <2>1, PersistDurable
  <2>2. CASE UNCHANGED <<deviceCertificates, deviceAuthorizations, disk>>
    BY SMT, Z3, <1>0, <1>10, <2>2 DEF FinishSshAuthorization, DurableImage
  <2> QED
    BY SMT, Z3, <1>10, <2>1, <2>2 DEF FinishSshAuthorization
<1>11. CASE Restart
  BY SMT, Z3, <1>11 DEF Restart, DurableImage
<1>12. CASE Tick
  <2>1. ASSUME NEW i \in Identities, NEW d \in Devices,
               disk.pending[i][d] # pendingPasskeys[i][d]
        PROVE  disk.pending[i][d].expiresAt <= now + 1
    <3>1. disk.pending[i][d] \in PendingType
      BY SMT, Z3, <1>0, <2>1 DEF TypeOK, ImageType, DurableImage
    <3> QED
      BY SMT, Z3, <1>0, <2>1, <3>1 DEF DurableImage, TypeOK, PendingType
  <2> QED
    BY SMT, Z3, <1>0, <1>12, <2>1 DEF Tick, memory, DurableImage
<1>13. CASE UNCHANGED chainVars
  BY SMT, Z3, <1>0, <1>13 DEF chainVars, memory, DurableImage
<1> QED
  BY SMT, Z3, <1>1, <1>2, <1>3, <1>4, <1>5, <1>6, <1>7, <1>8, <1>9, <1>10,
       <1>11, <1>12, <1>13 DEF Next

\* Roots and committed credentials are only added to.
CommitmentsGrow ==
  /\ identityRoots \subseteq identityRoots'
  /\ \A i \in Identities : /\ sshKeys[i] \subseteq sshKeys'[i]
                           /\ passkeys[i] \subseteq passkeys'[i]

\* Certificates stay authorised while the committed credentials only grow.
LEMMA AuthorityKept ==
  ASSUME AuthorityChain, CommitmentsGrow,
         UNCHANGED <<deviceCertificates, deviceAuthorizations>>
  PROVE  AuthorityChain'
BY SMT, Z3 DEF AuthorityChain, CommitmentsGrow

\* Suspended calls stay committed while the committed credentials only grow.
LEMMA CommittedKept ==
  ASSUME TypeOK, CallsCommitted, CommitmentsGrow, UNCHANGED calls
  PROVE  CallsCommitted'
<1> SUFFICES ASSUME NEW call \in Calls, calls[call] # None
             PROVE  /\ calls[call].op = "ssh" =>
                         calls[call].credential
                           \in sshKeys'[calls[call].cert.account]
                    /\ calls[call].op = "passkey" =>
                         calls[call].credential
                           \in passkeys'[calls[call].cert.account]
  BY SMT, Z3 DEF CallsCommitted
<1>1. calls[call].cert \in Certificates
  BY SMT, Z3 DEF TypeOK, CallType
<1>2. calls[call].cert.account \in Identities
  BY SMT, Z3, <1>1, CertificateFields
<1> QED
  BY SMT, Z3, <1>2 DEF CallsCommitted, CommitmentsGrow

\* Ending one suspended call leaves the others committed.
LEMMA CommittedResume ==
  ASSUME TypeOK, CallsCommitted, NEW call \in Calls, Resume(call),
         UNCHANGED <<sshKeys, passkeys>>
  PROVE  CallsCommitted'
BY SMT, Z3 DEF TypeOK, CallsCommitted, Resume

\* Recording a certificate that its authoriser was committed for.
LEMMA AuthorityStored ==
  ASSUME MemoryTypeOK, AuthorityChain, NEW c \in Certificates,
         NEW a \in Authorizations, StoreCertificate(c, a),
         UNCHANGED <<identityRoots, sshKeys, passkeys>>,
         c.account \in identityRoots,
         \/ a = Root
         \/ \E k \in sshKeys[c.account] : a = Ssh(k)
         \/ \E p \in passkeys[c.account] : a = Passkey(p)
  PROVE  AuthorityChain'
<1> DEFINE j == c.account
           e == c.device
<1>1. a # None /\ c # None /\ j \in Identities /\ e \in Devices
  BY SMT, Z3, AuthorizationAssumption, CertificateFields
<1>2. deviceCertificates'[j][e] = c /\ deviceAuthorizations'[j][e] = a
  BY SMT, Z3, <1>1 DEF MemoryTypeOK, StoreCertificate
<1>3. ASSUME NEW i \in Identities, NEW d \in Devices, i # j \/ d # e
      PROVE  /\ deviceCertificates'[i][d] = deviceCertificates[i][d]
             /\ deviceAuthorizations'[i][d] = deviceAuthorizations[i][d]
  BY SMT, Z3, <1>1, <1>3 DEF MemoryTypeOK, StoreCertificate
<1> HIDE DEF j, e
<1> SUFFICES ASSUME NEW i \in Identities, NEW d \in Devices
             PROVE  /\ (deviceCertificates'[i][d] = None)
                         = (deviceAuthorizations'[i][d] = None)
                    /\ deviceAuthorizations'[i][d] # None =>
                         /\ i \in identityRoots
                         /\ deviceCertificates'[i][d].account = i
                         /\ deviceCertificates'[i][d].device = d
                         /\ \/ deviceAuthorizations'[i][d] = Root
                            \/ \E k \in sshKeys[i] :
                                 deviceAuthorizations'[i][d] = Ssh(k)
                            \/ \E p \in passkeys[i] :
                                 deviceAuthorizations'[i][d] = Passkey(p)
  BY SMT, Z3 DEF AuthorityChain, Root, Ssh, Passkey
<1>4. CASE i = j /\ d = e
  BY SMT, Z3, <1>1, <1>2, <1>4 DEF j, e
<1>5. CASE i # j \/ d # e
  <2>1. /\ deviceCertificates'[i][d] = deviceCertificates[i][d]
        /\ deviceAuthorizations'[i][d] = deviceAuthorizations[i][d]
    BY <1>3, <1>5
  <2> QED
    BY SMT, Z3, <2>1 DEF AuthorityChain
<1> QED
  BY SMT, Z3, <1>4, <1>5

\* One step keeps every certificate and every suspended call rooted in the wallet.
LEMMA NextAuthority ==
  ChainInv /\ [Next]_chainVars
    => AuthorityChain' /\ CallsCommitted' /\ CredentialsRooted'
<1> DEFINE Goal == AuthorityChain' /\ CallsCommitted' /\ CredentialsRooted'
<1> SUFFICES ASSUME ChainInv, [Next]_chainVars
             PROVE  Goal
  BY SMT, Z3
<1>0. /\ TypeOK /\ MemoryTypeOK /\ DurableImage /\ AuthorityChain
      /\ CallsCommitted /\ CredentialsRooted
  BY SMT, Z3, MemoryTyped DEF ChainInv, TypeOK
<1>a. ASSUME UNCHANGED <<identityRoots, deviceCertificates,
                         deviceAuthorizations, passkeys, sshKeys, calls>>
      PROVE  Goal
  <2>1. CommitmentsGrow
    BY SMT, Z3, <1>a DEF CommitmentsGrow
  <2>2. CredentialsRooted'
    BY SMT, Z3, <1>0, <1>a DEF CredentialsRooted
  <2> QED
    BY SMT, Z3, <1>0, <1>a, <2>1, <2>2, AuthorityKept, CommittedKept
<1>1. ASSUME NEW i \in Identities, RegisterIdentity(i)
      PROVE  Goal
  <2>1. CommitmentsGrow
    BY SMT, Z3, <1>1 DEF RegisterIdentity, CommitmentsGrow
  <2>2. CredentialsRooted'
    BY SMT, Z3, <1>0, <1>1 DEF RegisterIdentity, CredentialsRooted
  <2> QED
    BY SMT, Z3, <1>0, <1>1, <2>1, <2>2, AuthorityKept, CommittedKept DEF
         RegisterIdentity
<1>2. ASSUME NEW c \in Certificates, RegisterDeviceCertificate(c)
      PROVE  Goal
  <2>1. Root \in Authorizations
    BY SMT, Z3 DEF Authorizations
  <2>2. AuthorityChain'
    BY SMT, Z3, <1>0, <1>2, <2>1, AuthorityStored DEF RegisterDeviceCertificate,
         CanRegisterDeviceCertificate
  <2>3. CommitmentsGrow
    BY SMT, Z3, <1>2 DEF RegisterDeviceCertificate, CommitmentsGrow
  <2>4. CallsCommitted' /\ CredentialsRooted'
    BY SMT, Z3, <1>0, <1>2, <2>3, CommittedKept DEF RegisterDeviceCertificate,
         CredentialsRooted
  <2> QED
    BY SMT, Z3, <2>2, <2>4
<1>3. ASSUME NEW i \in Identities, NEW p \in Passkeys, NEW n \in 0..MaxCounter,
             RegisterPasskeyCredential(i, p, n)
      PROVE  Goal
  <2>1. CommitmentsGrow
    BY SMT, Z3, <1>0, <1>3 DEF RegisterPasskeyCredential, CommitmentsGrow,
         MemoryTypeOK
  <2>2. CredentialsRooted'
    BY SMT, Z3, <1>0, <1>3 DEF RegisterPasskeyCredential, CredentialsRooted,
         MemoryTypeOK
  <2> QED
    BY SMT, Z3, <1>0, <1>3, <2>1, <2>2, AuthorityKept, CommittedKept DEF
         RegisterPasskeyCredential
<1>4. ASSUME NEW i \in Identities, NEW k \in SshKeys, RegisterSshKey(i, k)
      PROVE  Goal
  <2>1. CommitmentsGrow
    BY SMT, Z3, <1>0, <1>4 DEF RegisterSshKey, CommitmentsGrow, MemoryTypeOK
  <2>2. CredentialsRooted'
    BY SMT, Z3, <1>0, <1>4 DEF RegisterSshKey, CanRegisterSshKey,
         CredentialsRooted, MemoryTypeOK
  <2> QED
    BY SMT, Z3, <1>0, <1>4, <2>1, <2>2, AuthorityKept, CommittedKept DEF
         RegisterSshKey
<1>5. ASSUME NEW i \in Identities, NEW r \in Credentials,
             NEW n \in 1..MaxSequence, RevokeCredential(i, r, n)
      PROVE  Goal
  BY SMT, Z3, <1>5, <1>a DEF RevokeCredential
<1>6. ASSUME NEW c \in Certificates,
             BeginPasskeyDeviceCertificateAuthorization(c)
      PROVE  Goal
  BY SMT, Z3, <1>6, <1>a DEF BeginPasskeyDeviceCertificateAuthorization
<1>7. ASSUME NEW call \in Calls, NEW c \in Certificates, NEW p \in Passkeys,
             NEW n \in 0..MaxCounter, NEW g \in BOOLEAN,
             StartPasskeyAuthorization(call, c, p, n, g)
      PROVE  Goal
  <2>1. CommitmentsGrow
    BY SMT, Z3, <1>7 DEF StartPasskeyAuthorization, memory, CommitmentsGrow
  <2>2. p \in passkeys[c.account]
    BY SMT, Z3, <1>7 DEF StartPasskeyAuthorization, CanStartPasskeyAuthorization
  <2>3. CallsCommitted'
    BY SMT, Z3, <1>0, <1>7, <2>2 DEF StartPasskeyAuthorization, Suspend, memory,
         CallsCommitted, TypeOK
  <2> QED
    BY SMT, Z3, <1>0, <1>7, <2>1, <2>3, AuthorityKept DEF
         StartPasskeyAuthorization, memory, CredentialsRooted
<1>8. ASSUME NEW call \in Calls, FinishPasskeyAuthorization(call)
      PROVE  Goal
  <2> DEFINE c == calls[call].cert
             p == calls[call].credential
  <2>1. c \in Certificates /\ p \in Passkeys
    BY SMT, Z3, <1>0, <1>8 DEF FinishPasskeyAuthorization, TypeOK, CallType
  <2>2. c.account \in Identities
    BY SMT, Z3, <2>1, CertificateFields
  <2>3. p \in passkeys[c.account]
    BY SMT, Z3, <1>0, <1>8 DEF FinishPasskeyAuthorization, CallsCommitted
  <2>4. c.account \in identityRoots
    BY SMT, Z3, <1>0, <2>2, <2>3 DEF CredentialsRooted
  <2>5. Passkey(p) \in Authorizations
    BY SMT, Z3, <2>1 DEF Authorizations
  <2>6. CommitmentsGrow
    BY SMT, Z3, <1>8 DEF FinishPasskeyAuthorization, CommitmentsGrow
  <2>7. CallsCommitted' /\ CredentialsRooted'
    BY SMT, Z3, <1>0, <1>8, CommittedResume DEF FinishPasskeyAuthorization,
         CredentialsRooted
  <2>8. CASE StoreCertificate(c, Passkey(p))
    BY SMT, Z3, <1>0, <1>8, <2>1, <2>3, <2>4, <2>5, <2>7, <2>8, AuthorityStored
         DEF FinishPasskeyAuthorization
  <2>9. CASE UNCHANGED <<deviceCertificates, deviceAuthorizations>>
    BY SMT, Z3, <1>0, <2>6, <2>7, <2>9, AuthorityKept
  <2> QED
    BY SMT, Z3, <1>8, <2>8, <2>9 DEF FinishPasskeyAuthorization
<1>9. ASSUME NEW call \in Calls, NEW c \in Certificates, NEW k \in SshKeys,
             StartSshAuthorization(call, c, k)
      PROVE  Goal
  <2>1. CommitmentsGrow
    BY SMT, Z3, <1>9 DEF StartSshAuthorization, memory, CommitmentsGrow
  <2>2. k \in sshKeys[c.account]
    BY SMT, Z3, <1>9 DEF StartSshAuthorization, CanStartSshAuthorization,
         ResolveSshKey, LiveSshKeys
  <2>3. CallsCommitted'
    BY SMT, Z3, <1>0, <1>9, <2>2 DEF StartSshAuthorization, Suspend, memory,
         CallsCommitted, TypeOK
  <2> QED
    BY SMT, Z3, <1>0, <1>9, <2>1, <2>3, AuthorityKept DEF StartSshAuthorization,
         memory, CredentialsRooted
<1>10. ASSUME NEW call \in Calls, FinishSshAuthorization(call)
       PROVE  Goal
  <2> DEFINE c == calls[call].cert
             k == calls[call].credential
  <2>1. c \in Certificates /\ k \in SshKeys
    BY SMT, Z3, <1>0, <1>10 DEF FinishSshAuthorization, TypeOK, CallType
  <2>2. c.account \in Identities
    BY SMT, Z3, <2>1, CertificateFields
  <2>3. k \in sshKeys[c.account]
    BY SMT, Z3, <1>0, <1>10 DEF FinishSshAuthorization, CallsCommitted
  <2>4. c.account \in identityRoots
    BY SMT, Z3, <1>0, <2>2, <2>3 DEF CredentialsRooted
  <2>5. Ssh(k) \in Authorizations
    BY SMT, Z3, <2>1 DEF Authorizations
  <2>6. CommitmentsGrow
    BY SMT, Z3, <1>10 DEF FinishSshAuthorization, CommitmentsGrow
  <2>7. CallsCommitted' /\ CredentialsRooted'
    BY SMT, Z3, <1>0, <1>10, CommittedResume DEF FinishSshAuthorization,
         CredentialsRooted
  <2>8. CASE StoreCertificate(c, Ssh(k))
    BY SMT, Z3, <1>0, <1>10, <2>1, <2>3, <2>4, <2>5, <2>7, <2>8, AuthorityStored
         DEF FinishSshAuthorization
  <2>9. CASE UNCHANGED <<deviceCertificates, deviceAuthorizations>>
    BY SMT, Z3, <1>0, <2>6, <2>7, <2>9, AuthorityKept
  <2> QED
    BY SMT, Z3, <1>10, <2>8, <2>9 DEF FinishSshAuthorization
<1>11. CASE Restart
  <2>1. UNCHANGED <<identityRoots, deviceCertificates, deviceAuthorizations,
                    passkeys, sshKeys>>
    BY SMT, Z3, <1>0, <1>11 DEF Restart, DurableImage
  <2>2. CallsCommitted'
    BY SMT, Z3, <1>11 DEF Restart, CallsCommitted
  <2>3. AuthorityChain' /\ CredentialsRooted'
    BY SMT, Z3, <1>0, <2>1, AuthorityKept DEF CommitmentsGrow, CredentialsRooted
  <2> QED
    BY SMT, Z3, <2>2, <2>3
<1>12. CASE Tick
  BY SMT, Z3, <1>12, <1>a DEF Tick, memory
<1>13. CASE UNCHANGED chainVars
  BY SMT, Z3, <1>13, <1>a DEF chainVars, memory
<1> HIDE DEF Goal
<1> QED
  BY SMT, Z3, <1>1, <1>2, <1>3, <1>4, <1>5, <1>6, <1>7, <1>8, <1>9, <1>10,
       <1>11, <1>12, <1>13 DEF Next

\* The invariant is inductive.
LEMMA NextChainInv == ChainInv /\ [Next]_chainVars => ChainInv'
BY SMT, Z3, NextTyped, NextDurable, NextAuthority DEF ChainInv

\* The inductive invariant behind the theorems below: types, the state file,
\* the authority of what is recorded, and that of the calls suspended at an
\* await, hold throughout.
THEOREM ChainInvariant == Spec => []ChainInv
BY InitChainInv, NextChainInv, PTL DEF Spec

\* A restart at any point loses nothing a caller was told, except the counter
\* of a refused assertion.
THEOREM Durability == Spec => []DurableImage
<1>1. ChainInv => DurableImage
  BY SMT, Z3 DEF ChainInv
<1> QED
  BY <1>1, ChainInvariant, PTL

\* Every certificate on record was authorised by the wallet or by a
\* credential the wallet committed to, whatever interleaves.
THEOREM Authority == Spec => []AuthorityChain
<1>1. ChainInv => AuthorityChain
  BY SMT, Z3 DEF ChainInv
<1> QED
  BY <1>1, ChainInvariant, PTL

----------------------------------------------------------------------------
(* What a step may never do.                                                *)

\* A certificate that passed assertNoConflictingDevice replaces no live binding.
LEMMA BindingStored ==
  ASSUME MemoryTypeOK, NEW c \in Certificates, NEW a,
         NoConflictingDevice(c, a), StoreCertificate(c, a)
  PROVE  BindingKept
<1> DEFINE j == c.account
           e == c.device
<1>1. c # None /\ j \in Identities /\ e \in Devices
  BY SMT, Z3, CertificateFields
<1>2. deviceCertificates'[j][e] = c /\ deviceAuthorizations'[j][e] = a
  BY SMT, Z3, <1>1 DEF MemoryTypeOK, StoreCertificate
<1>3. ASSUME NEW i \in Identities, NEW d \in Devices, i # j \/ d # e
      PROVE  /\ deviceCertificates'[i][d] = deviceCertificates[i][d]
             /\ deviceAuthorizations'[i][d] = deviceAuthorizations[i][d]
  BY SMT, Z3, <1>1, <1>3 DEF MemoryTypeOK, StoreCertificate
<1>4. deviceCertificates[j][e] # None /\ now < deviceCertificates[j][e].expiresAt
        => /\ deviceCertificates[j][e].key = c.key
           /\ deviceAuthorizations[j][e] = a
  BY SMT, Z3 DEF NoConflictingDevice
<1> HIDE DEF j, e
<1> QED
  BY SMT, Z3, <1>1, <1>2, <1>3, <1>4 DEF BindingKept

\* A step that records no certificate keeps every binding.
LEMMA BindingUntouched ==
  ASSUME UNCHANGED <<deviceCertificates, deviceAuthorizations>>
  PROVE  BindingKept
BY SMT, Z3 DEF BindingKept

\* One step keeps the binding of every live certificate.
LEMMA NextBinding == ChainInv /\ [Next]_chainVars => BindingKept
<1> SUFFICES ASSUME ChainInv, [Next]_chainVars
             PROVE  BindingKept
  BY SMT, Z3
<1>0. MemoryTypeOK /\ TypeOK /\ DurableImage
  BY SMT, Z3, MemoryTyped DEF ChainInv, TypeOK
<1>1. ASSUME NEW c \in Certificates, RegisterDeviceCertificate(c)
      PROVE  BindingKept
  BY SMT, Z3, <1>0, <1>1, BindingStored DEF RegisterDeviceCertificate,
       CanRegisterDeviceCertificate
<1>2. ASSUME NEW call \in Calls, FinishPasskeyAuthorization(call)
      PROVE  BindingKept
  <2>1. calls[call].cert \in Certificates
    BY SMT, Z3, <1>0, <1>2 DEF FinishPasskeyAuthorization, TypeOK, CallType
  <2> QED
    BY SMT, Z3, <1>0, <1>2, <2>1, BindingStored, BindingUntouched DEF
         FinishPasskeyAuthorization
<1>3. ASSUME NEW call \in Calls, FinishSshAuthorization(call)
      PROVE  BindingKept
  <2>1. calls[call].cert \in Certificates
    BY SMT, Z3, <1>0, <1>3 DEF FinishSshAuthorization, TypeOK, CallType
  <2> QED
    BY SMT, Z3, <1>0, <1>3, <2>1, BindingStored, BindingUntouched DEF
         FinishSshAuthorization, CanFinishSshAuthorization
<1>4. CASE Restart
  BY SMT, Z3, <1>0, <1>4, BindingUntouched DEF Restart, DurableImage
<1>5. CASE Tick \/ UNCHANGED chainVars
  BY SMT, Z3, <1>5, BindingUntouched DEF Tick, chainVars, memory
<1>6. ASSUME NEW i \in Identities, RegisterIdentity(i)
      PROVE  BindingKept
  BY SMT, Z3, <1>6, BindingUntouched DEF RegisterIdentity
<1>7. ASSUME NEW i \in Identities, NEW p \in Passkeys, NEW n \in 0..MaxCounter,
             RegisterPasskeyCredential(i, p, n)
      PROVE  BindingKept
  BY SMT, Z3, <1>7, BindingUntouched DEF RegisterPasskeyCredential
<1>8. ASSUME NEW i \in Identities, NEW k \in SshKeys, RegisterSshKey(i, k)
      PROVE  BindingKept
  BY SMT, Z3, <1>8, BindingUntouched DEF RegisterSshKey
<1>9. ASSUME NEW i \in Identities, NEW r \in Credentials,
             NEW n \in 1..MaxSequence, RevokeCredential(i, r, n)
      PROVE  BindingKept
  BY SMT, Z3, <1>9, BindingUntouched DEF RevokeCredential
<1>10. ASSUME NEW c \in Certificates,
              BeginPasskeyDeviceCertificateAuthorization(c)
       PROVE  BindingKept
  BY SMT, Z3, <1>10, BindingUntouched DEF
       BeginPasskeyDeviceCertificateAuthorization
<1>11. ASSUME NEW call \in Calls, NEW c \in Certificates, NEW p \in Passkeys,
              NEW n \in 0..MaxCounter, NEW g \in BOOLEAN,
              StartPasskeyAuthorization(call, c, p, n, g)
       PROVE  BindingKept
  BY SMT, Z3, <1>11, BindingUntouched DEF StartPasskeyAuthorization, memory
<1>12. ASSUME NEW call \in Calls, NEW c \in Certificates, NEW k \in SshKeys,
              StartSshAuthorization(call, c, k)
       PROVE  BindingKept
  BY SMT, Z3, <1>12, BindingUntouched DEF StartSshAuthorization, memory
<1> QED
  BY SMT, Z3, <1>1, <1>2, <1>3, <1>4, <1>5, <1>6, <1>7, <1>8, <1>9, <1>10,
       <1>11, <1>12 DEF Next

\* A step that revokes nothing keeps the revocations.
LEMMA RevocationsUntouched ==
  ASSUME MemoryTypeOK, UNCHANGED <<revocations, revocationSequences>>
  PROVE  RevocationsKept
BY SMT, Z3 DEF MemoryTypeOK, RevocationsKept

\* One step only adds revocations, under larger sequences.
LEMMA NextRevocations == ChainInv /\ [Next]_chainVars => RevocationsKept
<1> SUFFICES ASSUME ChainInv, [Next]_chainVars
             PROVE  RevocationsKept
  BY SMT, Z3
<1>0. MemoryTypeOK /\ TypeOK /\ DurableImage
  BY SMT, Z3, MemoryTyped DEF ChainInv, TypeOK
<1>1. ASSUME NEW i \in Identities, NEW r \in Credentials,
             NEW n \in 1..MaxSequence, RevokeCredential(i, r, n)
      PROVE  RevocationsKept
  <2>1. /\ revocations' = revocations \cup {<<i, r>>}
        /\ revocationSequences' = [revocationSequences EXCEPT ![i] = n]
        /\ n > revocationSequences[i]
    BY SMT, Z3, <1>1 DEF RevokeCredential, CanRevokeCredential
  <2>2. n \in Nat /\ revocationSequences \in [Identities -> Nat]
    BY SMT, Z3, <1>0, BoundsAssumption DEF MemoryTypeOK
  <2>3. \A j \in Identities : revocationSequences[j] <= revocationSequences'[j]
    BY SMT, Z3, <2>1, <2>2
  <2>4. \A q \in revocations' \ revocations : q = <<i, r>>
    BY SMT, Z3, <2>1
  <2>5. revocationSequences[i] < revocationSequences'[i]
    BY SMT, Z3, <2>1, <2>2
  <2> QED
    BY SMT, Z3, <2>1, <2>3, <2>4, <2>5 DEF RevocationsKept
<1>2. CASE Restart
  BY SMT, Z3, <1>0, <1>2, RevocationsUntouched DEF Restart, DurableImage
<1>3. CASE Tick \/ UNCHANGED chainVars
  BY SMT, Z3, <1>0, <1>3, RevocationsUntouched DEF Tick, chainVars, memory
<1>4. ASSUME NEW i \in Identities, RegisterIdentity(i)
      PROVE  RevocationsKept
  BY SMT, Z3, <1>0, <1>4, RevocationsUntouched DEF RegisterIdentity
<1>5. ASSUME NEW c \in Certificates, RegisterDeviceCertificate(c)
      PROVE  RevocationsKept
  BY SMT, Z3, <1>0, <1>5, RevocationsUntouched DEF RegisterDeviceCertificate
<1>6. ASSUME NEW i \in Identities, NEW p \in Passkeys, NEW n \in 0..MaxCounter,
             RegisterPasskeyCredential(i, p, n)
      PROVE  RevocationsKept
  BY SMT, Z3, <1>0, <1>6, RevocationsUntouched DEF RegisterPasskeyCredential
<1>7. ASSUME NEW i \in Identities, NEW k \in SshKeys, RegisterSshKey(i, k)
      PROVE  RevocationsKept
  BY SMT, Z3, <1>0, <1>7, RevocationsUntouched DEF RegisterSshKey
<1>8. ASSUME NEW c \in Certificates,
             BeginPasskeyDeviceCertificateAuthorization(c)
      PROVE  RevocationsKept
  BY SMT, Z3, <1>0, <1>8, RevocationsUntouched DEF
       BeginPasskeyDeviceCertificateAuthorization
<1>9. ASSUME NEW call \in Calls, NEW c \in Certificates, NEW p \in Passkeys,
             NEW n \in 0..MaxCounter, NEW g \in BOOLEAN,
             StartPasskeyAuthorization(call, c, p, n, g)
      PROVE  RevocationsKept
  BY SMT, Z3, <1>0, <1>9, RevocationsUntouched DEF StartPasskeyAuthorization,
       memory
<1>10. ASSUME NEW call \in Calls, FinishPasskeyAuthorization(call)
       PROVE  RevocationsKept
  BY SMT, Z3, <1>0, <1>10, RevocationsUntouched DEF FinishPasskeyAuthorization
<1>11. ASSUME NEW call \in Calls, NEW c \in Certificates, NEW k \in SshKeys,
              StartSshAuthorization(call, c, k)
       PROVE  RevocationsKept
  BY SMT, Z3, <1>0, <1>11, RevocationsUntouched DEF StartSshAuthorization,
       memory
<1>12. ASSUME NEW call \in Calls, FinishSshAuthorization(call)
       PROVE  RevocationsKept
  BY SMT, Z3, <1>0, <1>12, RevocationsUntouched DEF FinishSshAuthorization
<1> QED
  BY SMT, Z3, <1>1, <1>2, <1>3, <1>4, <1>5, <1>6, <1>7, <1>8, <1>9, <1>10,
       <1>11, <1>12 DEF Next

\* A binding that is kept and revocations that are kept leave a killed
\* certificate dead.
LEMMA KilledFromKept ==
  ASSUME BindingKept, RevocationsKept
  PROVE  KilledKept
<1> SUFFICES ASSUME NEW i \in Identities, NEW d \in Devices,
                    deviceCertificates[i][d] # None,
                    now < deviceCertificates[i][d].expiresAt,
                    IsCertificateRevoked(i, d)
             PROVE  ResolveDeviceCertificate(i, d)' = None
  BY SMT, Z3 DEF KilledKept
<1>1. deviceAuthorizations'[i][d] = deviceAuthorizations[i][d]
  BY SMT, Z3 DEF BindingKept
<1>2. IsCertificateRevoked(i, d)'
  BY SMT, Z3, <1>1 DEF RevocationsKept, IsCertificateRevoked, IsRevoked, Device,
       Root
<1> QED
  BY SMT, Z3, <1>2 DEF ResolveDeviceCertificate

\* A certificate that has not expired is never given another key or another
\* authoriser.
THEOREM BindingStable == Spec => LiveBindingStable
<1>1. ChainInv /\ [Next]_chainVars => [BindingKept]_chainVars
  BY SMT, Z3, NextBinding
<1> QED
  BY <1>1, ChainInvariant, PTL DEF Spec, LiveBindingStable

\* Revocations are permanent and their sequences strictly increase.
THEOREM RevocationIsPermanent == Spec => RevocationPermanent
<1>1. ChainInv /\ [Next]_chainVars => [RevocationsKept]_chainVars
  BY SMT, Z3, NextRevocations
<1> QED
  BY <1>1, ChainInvariant, PTL DEF Spec, RevocationPermanent

\* A certificate killed by a revocation never resolves again before it
\* expires, whatever authorisations are in flight.
THEOREM KilledIsFinal == Spec => KilledStaysKilled
<1>1. ChainInv /\ [Next]_chainVars => [KilledKept]_chainVars
  BY SMT, Z3, NextBinding, NextRevocations, KilledFromKept
<1> QED
  BY <1>1, ChainInvariant, PTL DEF Spec, KilledStaysKilled

-----------------------------------------------------------------------------
(* Rates.  A history of the limiter against the rows of the log that it is  *)
(* about, whose positions are P: rows[q].receivedAt is when a row came.      *)

After(rows, P, t) == {q \in P : rows[q].receivedAt >= t}
Window(rows, P, t) ==
  {q \in P : rows[q].receivedAt \in t..(t + RateWindow - 1)}
Since(history, t) == {hit \in history : hit.at >= t}

\* The hits of one moment are numbered, so that a new one is not among them.
Numbered(history, at) ==
  /\ IsFiniteSet(history)
  /\ \A hit \in history :
       /\ hit.at \in Int /\ hit.nth \in Int /\ hit.at <= at
       /\ hit.at = at => hit.nth < Cardinality(HitsAt(history, at))

\* Of the rows that came less than a window ago no hit is forgotten.
Tally(rows, P, history, at) ==
  /\ IsFiniteSet(P)
  /\ \A q \in P : rows[q].receivedAt \in Int
  /\ Numbered(history, at)
  /\ \A t \in Int : t > at - RateWindow =>
       Cardinality(After(rows, P, t)) <= Cardinality(Since(history, t))

\* No window, begin when it may, has more rows than the limit.
Bounded(rows, P, limit) ==
  \A t \in Int : Cardinality(Window(rows, P, t)) <= limit

\* A new element is one more.
LEMMA OneMore ==
  ASSUME NEW S, IsFiniteSet(S), NEW x, x \notin S
  PROVE  IsFiniteSet(S \cup {x}) /\ Cardinality(S \cup {x}) = Cardinality(S) + 1
BY SMT, Z3, FS_AddElement

\* What a tally counts is finite.
LEMMA TallyCounts ==
  ASSUME NEW rows, NEW P, IsFiniteSet(P), NEW history, IsFiniteSet(history), NEW t
  PROVE  /\ IsFiniteSet(After(rows, P, t)) /\ IsFiniteSet(Window(rows, P, t))
         /\ IsFiniteSet(Since(history, t)) /\ IsFiniteSet(HitsAt(history, t))
         /\ Cardinality(After(rows, P, t)) \in Nat
         /\ Cardinality(Window(rows, P, t)) \in Nat
         /\ Cardinality(Since(history, t)) \in Nat
         /\ Cardinality(HitsAt(history, t)) \in Nat
<1>1. /\ After(rows, P, t) \in SUBSET P /\ Window(rows, P, t) \in SUBSET P
      /\ Since(history, t) \in SUBSET history
      /\ HitsAt(history, t) \in SUBSET history
  BY DEF After, Window, Since, HitsAt
<1>2. /\ IsFiniteSet(After(rows, P, t)) /\ IsFiniteSet(Window(rows, P, t))
      /\ IsFiniteSet(Since(history, t)) /\ IsFiniteSet(HitsAt(history, t))
  BY <1>1, FS_Subset
<1>. QED
  BY <1>2, FS_CardinalityType

\* Nothing has been posted, or limited, yet.
LEMMA TallyEmpty ==
  ASSUME NEW rows, NEW at
  PROVE  Tally(rows, {}, {}, at)
<1>1. /\ \A t : After(rows, {}, t) = {} /\ Since({}, t) = {}
      /\ IsFiniteSet({}) /\ Cardinality({}) = 0
  BY FS_EmptySet DEF After, Since
<1>2. Cardinality({}) <= Cardinality({})
  BY SMT, Z3, <1>1
<1>. QED
  BY <1>1, <1>2 DEF Tally, Numbered

\* No row, no window over the limit.
LEMMA BoundedEmpty ==
  ASSUME NEW rows, NEW limit \in Nat
  PROVE  Bounded(rows, {}, limit)
<1>1. /\ \A t : Window(rows, {}, t) = {} /\ Cardinality({}) = 0
  BY FS_EmptySet DEF Window
<1>2. Cardinality({}) <= limit
  BY SMT, Z3, <1>1
<1>. QED
  BY <1>1, <1>2 DEF Bounded

\* Rows of other keys may come.
LEMMA SameRows ==
  ASSUME NEW rows, NEW more, NEW P, \A q \in P : more[q] = rows[q]
  PROVE  /\ \A history, at : Tally(rows, P, history, at) => Tally(more, P, history, at)
         /\ \A limit : Bounded(rows, P, limit) => Bounded(more, P, limit)
<1>1. \A t : After(more, P, t) = After(rows, P, t) /\ Window(more, P, t) = Window(rows, P, t)
  BY DEF After, Window
<1>2. \A history, at : Tally(rows, P, history, at) => Tally(more, P, history, at)
  BY <1>1 DEF Tally
<1>. QED
  BY <1>1, <1>2 DEF Bounded

\* Time passes: no hit is of the new moment, and fewer windows are open.
LEMMA TallyLater ==
  ASSUME NEW rows, NEW P, NEW history, NEW at \in Int, Tally(rows, P, history, at),
         NEW later \in Int, at <= later
  PROVE  Tally(rows, P, history, later)
<1>1. \A hit \in history : hit.at \in Int /\ hit.nth \in Int /\ hit.at <= at
  BY DEF Tally, Numbered
<1>2. CASE later # at
  <2>1. \A hit \in history : hit.at <= later /\ hit.at # later
    BY SMT, Z3, <1>1, <1>2
  <2>2. \A t \in Int : t > later - RateWindow => t > at - RateWindow
    BY SMT, Z3, RateAssumption
  <2>. QED
    BY <1>1, <2>1, <2>2 DEF Tally, Numbered
<1>. QED
  BY <1>2

\* A hit of this moment is recent.
LEMMA RecentAt ==
  ASSUME NEW history, NEW at \in Int
  PROVE  HitsAt(RecentHits(history, at), at) = HitsAt(history, at)
<1>1. at - at < RateWindow
  BY SMT, Z3, RateAssumption
<1>. QED
  BY <1>1 DEF HitsAt, RecentHits

\* allow forgets the hits that have left the window.
LEMMA TallyForgets ==
  ASSUME NEW rows, NEW P, NEW history, NEW at \in Int, Tally(rows, P, history, at)
  PROVE  Tally(rows, P, RecentHits(history, at), at)
<1>. DEFINE recent == RecentHits(history, at)
<1>1. /\ \A hit \in history : hit.at \in Int /\ hit.nth \in Int /\ hit.at <= at
      /\ IsFiniteSet(history)
  BY DEF Tally, Numbered
<1>2. recent \in SUBSET history
  BY DEF RecentHits
<1>3. IsFiniteSet(recent)
  BY <1>1, <1>2, FS_Subset
<1>4. HitsAt(recent, at) = HitsAt(history, at)
  BY RecentAt
<1>5. ASSUME NEW t \in Int, t > at - RateWindow
      PROVE  Since(recent, t) = Since(history, t)
  <2>1. \A hit \in history : hit.at >= t => at - hit.at < RateWindow
    BY SMT, Z3, <1>1, <1>5, RateAssumption
  <2>. QED
    BY <2>1 DEF Since, RecentHits
<1>. QED
  BY <1>1, <1>2, <1>3, <1>4, <1>5 DEF Tally, Numbered

\* A hit with the next number is a new one, and the numbering goes on.
LEMMA PushNumbers ==
  ASSUME NEW history, NEW at \in Int, Numbered(history, at),
         NEW push, push.at = at, push.nth = Cardinality(HitsAt(history, at))
  PROVE  push \notin history /\ Numbered(history \cup {push}, at)
<1>1. IsFiniteSet(history)
  BY DEF Numbered
<1>2. PICK c \in Nat : c = Cardinality(HitsAt(history, at))
  BY <1>1, TallyCounts
<1>3. push \notin history
  <2>1. push \in history => c < c
    BY <1>2 DEF Numbered
  <2>2. ~(c < c)
    BY SMT, Z3, <1>2
  <2>. QED
    BY <2>1, <2>2
<1>4. HitsAt(history \cup {push}, at) = HitsAt(history, at) \cup {push}
  BY DEF HitsAt
<1>5. push \notin HitsAt(history, at) /\ IsFiniteSet(HitsAt(history, at))
  <2>1. push \notin HitsAt(history, at)
    BY <1>3 DEF HitsAt
  <2>. QED
    BY <1>1, <2>1, TallyCounts
<1>6. Cardinality(HitsAt(history \cup {push}, at)) = c + 1
  BY <1>2, <1>4, <1>5, OneMore
<1>7. \A n \in Int : n < c => n < c + 1
  BY SMT, Z3, <1>2
<1>8. c < c + 1 /\ c \in Int /\ at <= at
  BY SMT, Z3, <1>2
<1>9. ASSUME NEW hit \in history \cup {push}
      PROVE  /\ hit.at \in Int /\ hit.nth \in Int /\ hit.at <= at
             /\ hit.at = at => hit.nth < c + 1
  <2>1. CASE hit = push
    BY <1>2, <1>8, <2>1
  <2>2. CASE hit \in history
    BY <1>2, <1>7, <2>2 DEF Numbered
  <2>. QED
    BY <2>1, <2>2
<1>. QED
  BY <1>1, <1>3, <1>6, <1>9, OneMore DEF Numbered

\* A hit is spent: by no row, or by a new one.
LEMMA TallyPush ==
  ASSUME NEW rows, NEW P, NEW history, NEW at \in Int, Tally(rows, P, history, at),
         NEW push, push.at = at, push.nth = Cardinality(HitsAt(history, at))
  PROVE  /\ Tally(rows, P, history \cup {push}, at)
         /\ \A n : n \notin P /\ rows[n].receivedAt = at =>
              Tally(rows, P \cup {n}, history \cup {push}, at)
<1>1. /\ push \notin history /\ Numbered(history \cup {push}, at)
      /\ IsFiniteSet(history) /\ IsFiniteSet(P)
  BY PushNumbers DEF Tally, Numbered
<1>2. ASSUME NEW t \in Int
      PROVE  /\ Since(history \cup {push}, t) =
                  IF at >= t THEN Since(history, t) \cup {push} ELSE Since(history, t)
             /\ push \notin Since(history, t)
             /\ Cardinality(Since(history, t)) \in Nat
             /\ IsFiniteSet(Since(history, t))
  <2>1. push \notin Since(history, t)
    BY <1>1 DEF Since
  <2>2. at >= t => Since(history \cup {push}, t) = Since(history, t) \cup {push}
    BY DEF Since
  <2>3. ~(at >= t) => Since(history \cup {push}, t) = Since(history, t)
    BY DEF Since
  <2>. QED
    BY <1>1, <2>1, <2>2, <2>3, TallyCounts
<1>3. ASSUME NEW t \in Int
      PROVE  Cardinality(Since(history \cup {push}, t)) =
               IF at >= t THEN Cardinality(Since(history, t)) + 1
               ELSE Cardinality(Since(history, t))
  <2>1. CASE at >= t
    BY <1>2, <2>1, OneMore
  <2>2. CASE ~(at >= t)
    BY <1>2, <2>2
  <2>. QED
    BY <2>1, <2>2
<1>4. ASSUME NEW t \in Int, t > at - RateWindow
      PROVE  /\ Cardinality(After(rows, P, t)) <= Cardinality(Since(history, t))
             /\ Cardinality(After(rows, P, t)) \in Nat
             /\ IsFiniteSet(After(rows, P, t))
  BY <1>1, <1>4, TallyCounts DEF Tally
<1>5. Tally(rows, P, history \cup {push}, at)
  <2>1. ASSUME NEW t \in Int, t > at - RateWindow
        PROVE  Cardinality(After(rows, P, t))
                 <= Cardinality(Since(history \cup {push}, t))
    <3>1. PICK x \in Nat, y \in Nat :
            x = Cardinality(After(rows, P, t)) /\ y = Cardinality(Since(history, t))
      BY <1>2, <1>4, <2>1
    <3>2. x <= y => x <= y + 1
      BY SMT, Z3, <3>1
    <3>. QED
      BY <1>3, <1>4, <2>1, <3>1, <3>2
  <2>. QED
    BY <1>1, <2>1 DEF Tally
<1>6. ASSUME NEW n, n \notin P, rows[n].receivedAt = at
      PROVE  Tally(rows, P \cup {n}, history \cup {push}, at)
  <2>1. ASSUME NEW t \in Int, t > at - RateWindow
        PROVE  Cardinality(After(rows, P \cup {n}, t))
                 <= Cardinality(Since(history \cup {push}, t))
    <3>1. CASE at >= t
      <4>1. /\ After(rows, P \cup {n}, t) = After(rows, P, t) \cup {n}
            /\ n \notin After(rows, P, t)
        BY <1>6, <3>1 DEF After
      <4>2. Cardinality(After(rows, P \cup {n}, t))
              = Cardinality(After(rows, P, t)) + 1
        BY <1>4, <2>1, <4>1, OneMore
      <4>3. PICK x \in Nat, y \in Nat :
              x = Cardinality(After(rows, P, t)) /\ y = Cardinality(Since(history, t))
        BY <1>2, <1>4, <2>1
      <4>4. x <= y => x + 1 <= y + 1
        BY SMT, Z3, <4>3
      <4>. QED
        BY <1>3, <1>4, <2>1, <3>1, <4>2, <4>3, <4>4
    <3>2. CASE ~(at >= t)
      <4>1. After(rows, P \cup {n}, t) = After(rows, P, t)
        BY <1>6, <3>2 DEF After
      <4>. QED
        BY <1>3, <1>4, <2>1, <3>2, <4>1
    <3>. QED
      BY <3>1, <3>2
  <2>2. \A q \in P \cup {n} : rows[q].receivedAt \in Int
    BY <1>6 DEF Tally
  <2>3. IsFiniteSet(P \cup {n})
    BY <1>1, <1>6, OneMore
  <2>. QED
    BY <1>1, <2>1, <2>2, <2>3 DEF Tally
<1>. QED
  BY <1>5, <1>6

\* One more than what is below the limit is within it.
LEMMA BelowTheLimit ==
  ASSUME NEW w \in Nat, NEW a \in Nat, NEW s \in Nat, NEW h \in Nat, NEW limit \in Nat,
         w <= a, a <= s, s <= h, h < limit
  PROVE  w + 1 <= limit
BY SMT, Z3

\* A row comes while the history is below the limit: no window exceeds it.
LEMMA BoundedPush ==
  ASSUME NEW rows, NEW P, NEW history, NEW at \in Int, Tally(rows, P, history, at),
         NEW limit \in Nat, Bounded(rows, P, limit),
         Cardinality(history) < limit, NEW n, n \notin P, rows[n].receivedAt = at
  PROVE  Bounded(rows, P \cup {n}, limit)
<1>1. ASSUME NEW t \in Int
      PROVE  Cardinality(Window(rows, P \cup {n}, t)) <= limit
  <2>1. IsFiniteSet(P) /\ IsFiniteSet(history)
    BY DEF Tally, Numbered
  <2>2. CASE at \in t..(t + RateWindow - 1)
    <3>1. t > at - RateWindow
      BY SMT, Z3, <2>2, RateAssumption
    <3>2. /\ Cardinality(After(rows, P, t)) <= Cardinality(Since(history, t))
          /\ \A q \in P : rows[q].receivedAt \in Int
      BY <3>1 DEF Tally
    <3>3. /\ IsFiniteSet(After(rows, P, t)) /\ IsFiniteSet(Window(rows, P, t))
          /\ Cardinality(After(rows, P, t)) \in Nat
          /\ Cardinality(Window(rows, P, t)) \in Nat
          /\ Cardinality(Since(history, t)) \in Nat
          /\ Cardinality(history) \in Nat
      BY <2>1, TallyCounts, FS_CardinalityType
    <3>4. Cardinality(Since(history, t)) <= Cardinality(history)
      <4>1. Since(history, t) \in SUBSET history
        BY DEF Since
      <4>. QED
        BY <2>1, <4>1, FS_Subset
    <3>5. Cardinality(Window(rows, P, t)) <= Cardinality(After(rows, P, t))
      <4>1. \A x \in Int : x \in t..(t + RateWindow - 1) => x >= t
        BY SMT, Z3, RateAssumption
      <4>2. Window(rows, P, t) \in SUBSET After(rows, P, t)
        BY <3>2, <4>1 DEF Window, After
      <4>. QED
        BY <3>3, <4>2, FS_Subset
    <3>6. Cardinality(Window(rows, P \cup {n}, t))
            = Cardinality(Window(rows, P, t)) + 1
      <4>1. /\ Window(rows, P \cup {n}, t) = Window(rows, P, t) \cup {n}
            /\ n \notin Window(rows, P, t)
        BY <2>2 DEF Window
      <4>. QED
        BY <3>3, <4>1, OneMore
    <3>7. Cardinality(Window(rows, P, t)) + 1 <= limit
      BY <3>2, <3>3, <3>4, <3>5, BelowTheLimit
    <3>. QED
      BY <3>6, <3>7
  <2>3. CASE at \notin t..(t + RateWindow - 1)
    <3>1. Window(rows, P \cup {n}, t) = Window(rows, P, t)
      BY <2>3 DEF Window
    <3>. QED
      BY <3>1 DEF Bounded
  <2>. QED
    BY <2>2, <2>3
<1>. QED
  BY <1>1 DEF Bounded

\* SlidingWindow.allow keeps the tally, with the row it allows or without one.
LEMMA SlidingWindowTally ==
  ASSUME NEW rows, NEW P, NEW spent, NEW at \in Int, Tally(rows, P, spent, at),
         NEW limit
  PROVE  /\ Tally(rows, P, SlidingWindowAfter(spent, limit, at), at)
         /\ \A n : /\ SlidingWindowAllows(spent, limit, at)
                   /\ n \notin P /\ rows[n].receivedAt = at
              => /\ Tally(rows, P \cup {n},
                          SlidingWindowAfter(spent, limit, at), at)
                 /\ limit \in Nat /\ Bounded(rows, P, limit)
                      => Bounded(rows, P \cup {n}, limit)
<1>. DEFINE recent == RecentHits(spent, at)
            push == [at |-> at, nth |-> Cardinality(HitsAt(spent, at))]
<1>1. Tally(rows, P, recent, at)
  BY TallyForgets
<1>2. HitsAt(recent, at) = HitsAt(spent, at)
  BY RecentAt
<1>3. push.at = at /\ push.nth = Cardinality(HitsAt(recent, at))
  BY <1>2
<1>4. /\ SlidingWindowAllows(spent, limit, at) =>
           /\ SlidingWindowAfter(spent, limit, at) = recent \cup {push}
           /\ Cardinality(recent) < limit
      /\ ~SlidingWindowAllows(spent, limit, at) =>
           SlidingWindowAfter(spent, limit, at) = recent
  BY DEF SlidingWindowAfter, SlidingWindowAllows
<1>. HIDE DEF recent, push
<1>5. /\ Tally(rows, P, recent \cup {push}, at)
      /\ \A n : n \notin P /\ rows[n].receivedAt = at =>
           Tally(rows, P \cup {n}, recent \cup {push}, at)
  BY <1>1, <1>3, TallyPush
<1>6. Tally(rows, P, SlidingWindowAfter(spent, limit, at), at)
  BY <1>1, <1>4, <1>5
<1>7. ASSUME NEW n, SlidingWindowAllows(spent, limit, at),
             n \notin P, rows[n].receivedAt = at
      PROVE  /\ Tally(rows, P \cup {n}, SlidingWindowAfter(spent, limit, at), at)
             /\ limit \in Nat /\ Bounded(rows, P, limit)
                  => Bounded(rows, P \cup {n}, limit)
  <2>1. Tally(rows, P \cup {n}, SlidingWindowAfter(spent, limit, at), at)
    BY <1>4, <1>5, <1>7
  <2>2. ASSUME limit \in Nat, Bounded(rows, P, limit)
        PROVE  Bounded(rows, P \cup {n}, limit)
    BY <1>1, <1>4, <1>7, <2>2, BoundedPush
  <2>. QED
    BY <2>1, <2>2
<1>. QED
  BY <1>6, <1>7

\* Of one text, what is recent.
LEMMA SameRecent ==
  ASSUME NEW said, NEW at, NEW b
  PROVE  SameTexts(RecentTexts(said, at), b) = RecentHits(SameTexts(said, b), at)
BY DEF SameTexts, RecentTexts, RecentHits

\* What DuplicateGuard.allow remembers of one text.
LEMMA DuplicateGuardTexts ==
  ASSUME NEW said, NEW body, NEW at, NEW b
  PROVE  /\ b # body \/ ~DuplicateGuardAllows(said, body, at) =>
              SameTexts(DuplicateGuardAfter(said, body, at), b)
                = RecentHits(SameTexts(said, b), at)
         /\ b = body /\ DuplicateGuardAllows(said, body, at) =>
              \E push :
                /\ SameTexts(DuplicateGuardAfter(said, body, at), b)
                     = RecentHits(SameTexts(said, b), at) \cup {push}
                /\ push.at = at
                /\ push.nth = Cardinality(HitsAt(SameTexts(said, b), at))
<1>. DEFINE push == [at |-> at, body |-> body,
                     nth |-> Cardinality(HitsAt(SameTexts(said, body), at))]
            recent == RecentTexts(said, at)
            after == DuplicateGuardAfter(said, body, at)
<1>1. SameTexts(recent, b) = RecentHits(SameTexts(said, b), at)
  BY SameRecent
<1>2. /\ push.at = at /\ push.body = body
      /\ push.nth = Cardinality(HitsAt(SameTexts(said, body), at))
  OBVIOUS
<1>3. /\ DuplicateGuardAllows(said, body, at) => after = recent \cup {push}
      /\ ~DuplicateGuardAllows(said, body, at) => after = recent
  BY DEF DuplicateGuardAfter
<1>. HIDE DEF push, recent, after
<1>4. b = body => SameTexts(recent \cup {push}, b) = SameTexts(recent, b) \cup {push}
  BY <1>2 DEF SameTexts
<1>5. b # body => SameTexts(recent \cup {push}, b) = SameTexts(recent, b)
  BY <1>2 DEF SameTexts
<1>6. ASSUME b # body \/ ~DuplicateGuardAllows(said, body, at)
      PROVE  SameTexts(after, b) = RecentHits(SameTexts(said, b), at)
  BY <1>1, <1>3, <1>5, <1>6
<1>7. ASSUME b = body, DuplicateGuardAllows(said, body, at)
      PROVE  /\ SameTexts(after, b)
                  = RecentHits(SameTexts(said, b), at) \cup {push}
             /\ push.nth = Cardinality(HitsAt(SameTexts(said, b), at))
  <2>1. SameTexts(after, b) = SameTexts(recent, b) \cup {push}
    BY <1>3, <1>4, <1>7
  <2>. QED
    BY <1>1, <1>2, <1>7, <2>1
<1>. QED
  BY <1>2, <1>6, <1>7 DEF after

\* DuplicateGuard.allow keeps the tallies of every text.
LEMMA DuplicateGuardTally ==
  ASSUME NEW rows, NEW P, NEW said, NEW body, NEW at \in Int, NEW b,
         Tally(rows, P, SameTexts(said, b), at)
  PROVE  /\ Tally(rows, P, SameTexts(DuplicateGuardAfter(said, body, at), b), at)
         /\ \A n : /\ DuplicateGuardAllows(said, body, at) /\ b = body
                   /\ n \notin P /\ rows[n].receivedAt = at
              => /\ Tally(rows, P \cup {n},
                          SameTexts(DuplicateGuardAfter(said, body, at), b), at)
                 /\ Bounded(rows, P, DuplicateThreshold - 1)
                      => Bounded(rows, P \cup {n}, DuplicateThreshold - 1)
<1>. DEFINE recent == RecentHits(SameTexts(said, b), at)
            kept == SameTexts(DuplicateGuardAfter(said, body, at), b)
<1>1. Tally(rows, P, recent, at)
  BY TallyForgets
<1>2. HitsAt(recent, at) = HitsAt(SameTexts(said, b), at)
  BY RecentAt
<1>5. /\ b # body \/ ~DuplicateGuardAllows(said, body, at) => kept = recent
      /\ b = body /\ DuplicateGuardAllows(said, body, at) =>
           \E push :
             /\ kept = recent \cup {push}
             /\ push.at = at
             /\ push.nth = Cardinality(HitsAt(SameTexts(said, b), at))
  BY SMT, Z3, DuplicateGuardTexts
<1>6. SameTexts(RecentTexts(said, at), b) = recent
  BY SameRecent
<1>. HIDE DEF recent, kept
<1>3. CASE b # body \/ ~DuplicateGuardAllows(said, body, at)
  <2>1. kept = recent
    BY <1>3, <1>5
  <2>. QED
    BY <1>1, <1>3, <2>1 DEF kept
<1>4. CASE b = body /\ DuplicateGuardAllows(said, body, at)
  <2>1. PICK push : /\ kept = recent \cup {push} /\ push.at = at
                    /\ push.nth = Cardinality(HitsAt(recent, at))
    <3>1. PICK push : /\ kept = recent \cup {push} /\ push.at = at
                      /\ push.nth = Cardinality(HitsAt(SameTexts(said, b), at))
      BY <1>4, <1>5
    <3>. QED
      BY <1>2, <3>1
  <2>2. /\ Tally(rows, P, recent \cup {push}, at)
        /\ \A n : n \notin P /\ rows[n].receivedAt = at =>
             Tally(rows, P \cup {n}, recent \cup {push}, at)
    BY <1>1, <2>1, TallyPush
  <2>3. DuplicateThreshold - 1 \in Nat
    BY SMT, Z3, RateAssumption
  <2>4. Cardinality(recent) < DuplicateThreshold - 1
    <3>1. recent = SameTexts(RecentTexts(said, at), body)
      BY <1>4, <1>6
    <3>2. Cardinality(recent) + 1 < DuplicateThreshold
      BY <1>4, <3>1 DEF DuplicateGuardAllows
    <3>3. Cardinality(recent) \in Nat
      BY <1>1, FS_CardinalityType DEF Tally, Numbered
    <3>. QED
      BY SMT, Z3, <3>2, <3>3, RateAssumption
  <2>5. ASSUME NEW n, n \notin P, rows[n].receivedAt = at,
               Bounded(rows, P, DuplicateThreshold - 1)
        PROVE  Bounded(rows, P \cup {n}, DuplicateThreshold - 1)
    BY <1>1, <2>3, <2>4, <2>5, BoundedPush
  <2>. QED
    BY <2>1, <2>2, <2>5 DEF kept
<1>. QED
  BY <1>3, <1>4
=============================================================================
