---------------------------- MODULE DeviceLifecycle ----------------------------
(***************************************************************************)
(* The renewal of a device certificate and the publication of the prekeys   *)
(* it signs (packages/client/src/device-lifecycle.ts).  ensure() starts an   *)
(* update unless one is pending; an update awaits the signer and then the   *)
(* presence service; stop(), called by disconnect(), cancels it by counting *)
(* up a generation, so an update records whether its generation is current. *)
(*                                                                          *)
(* Certificates are numbered in the order they are installed.  published is *)
(* the certificate behind the bundle that presence holds.                   *)
(***************************************************************************)
EXTENDS Naturals, FiniteSets

CONSTANTS
  Updates,        \* slots for calls of update() suspended at an await
  NoUpdate,
  SlowPublish,    \* a publication may outlast a certificate's renewal window
  MaxCertificates \* bound: certificates installed

ASSUME LifecycleAssumption ==
  /\ NoUpdate \notin Updates
  /\ SlowPublish \in BOOLEAN
  /\ MaxCertificates \in Nat

VARIABLES
  certificate,   \* client.deviceCertificate
  due,           \* it is within RENEW_BEFORE_EXPIRY_MS of its expiry
  needsPublish,  \* needsPublish
  pending,       \* the update ensure() hands to further callers, or NoUpdate
  update,        \* [Updates -> NoUpdate or [stage, certificate, current]]
  published      \* presence: the certificate behind the stored bundle

lifecycleVars == <<certificate, due, needsPublish, pending, update, published>>

UpdateType ==
  [stage : {"renew", "publish", "accepted"},
   certificate : 0..MaxCertificates, current : BOOLEAN]

----------------------------------------------------------------------------

InStage(u, stages) == update[u] # NoUpdate /\ update[u].stage \in stages

\* The update ends; the finally of ensure() forgets it if it is still pending.
FinishUpdate(u) ==
  /\ update' = [update EXCEPT ![u] = NoUpdate]
  /\ pending' = IF pending = u THEN NoUpdate ELSE pending

\* ensure(), from the interval timer or a connect: an update that has nothing
\* to do is over at once.
Ensure(u) ==
  /\ pending = NoUpdate /\ update[u] = NoUpdate
  /\ due \/ needsPublish
  /\ pending' = u
  /\ update' = [update EXCEPT ![u] =
       [stage |-> IF due THEN "renew" ELSE "publish",
        certificate |-> certificate, current |-> TRUE]]
  /\ UNCHANGED <<certificate, due, needsPublish, published>>

\* stop(): the updates in flight belong to an earlier generation.
Stop ==
  /\ pending' = NoUpdate
  /\ update' = [u \in Updates |->
       IF update[u] = NoUpdate THEN NoUpdate ELSE [update[u] EXCEPT !.current = FALSE]]
  /\ UNCHANGED <<certificate, due, needsPublish, published>>

\* Mutant: the answer to a cancelled request is installed.
RenewedAnyway(u) ==
  /\ InStage(u, {"renew"})
  /\ certificate' = certificate + 1
  /\ due' = FALSE /\ needsPublish' = TRUE
  /\ update' = [update EXCEPT ![u].stage = "publish",
                              ![u].certificate = certificate + 1]
  /\ UNCHANGED <<pending, published>>

\* Mutant: the publication is owed only once it has been tried.
RenewedUnmarked(u) ==
  /\ InStage(u, {"renew"})
  /\ update[u].current
  /\ certificate' = certificate + 1
  /\ due' = FALSE
  /\ update' = [update EXCEPT ![u].stage = "publish",
                              ![u].certificate = certificate + 1]
  /\ UNCHANGED <<needsPublish, pending, published>>

\* The signer answered with a valid certificate.
Renewed(u) ==
  /\ InStage(u, {"renew"})
  /\ IF update[u].current
     THEN /\ certificate' = certificate + 1
          /\ due' = FALSE /\ needsPublish' = TRUE
          /\ update' = [update EXCEPT ![u].stage = "publish",
                                      ![u].certificate = certificate + 1]
          /\ UNCHANGED pending
     ELSE /\ FinishUpdate(u)
          /\ UNCHANGED <<certificate, due, needsPublish>>
  /\ UNCHANGED published

\* The signer failed, timed out, or returned an invalid certificate; or the
\* publication failed, before or after presence stored the bundle.
UpdateFailed(u) ==
  /\ InStage(u, {"renew", "publish", "accepted"})
  /\ FinishUpdate(u)
  /\ UNCHANGED <<certificate, due, needsPublish, published>>

\* External: presence stores a bundle that is not older than the one it has.
PresenceAccepts(u) ==
  /\ InStage(u, {"publish"})
  /\ update[u].certificate >= published
  /\ published' = update[u].certificate
  /\ update' = [update EXCEPT ![u].stage = "accepted"]
  /\ UNCHANGED <<certificate, due, needsPublish, pending>>

\* publishBundleRemote resolved; the generation is not looked at again.
Published(u) ==
  /\ InStage(u, {"accepted"})
  /\ needsPublish' = FALSE
  /\ FinishUpdate(u)
  /\ UNCHANGED <<certificate, due, published>>

\* Time passes: the certificate comes within its renewal window.
BecomeDue ==
  /\ ~due /\ certificate < MaxCertificates
  /\ ~SlowPublish => \A u \in Updates : update[u] = NoUpdate
  /\ due' = TRUE
  /\ UNCHANGED <<certificate, needsPublish, pending, update, published>>

LifecycleInit ==
  /\ certificate = 0 /\ published = 0
  /\ due = FALSE /\ needsPublish = FALSE
  /\ pending = NoUpdate
  /\ update = [u \in Updates |-> NoUpdate]

LifecycleNext ==
  \/ Stop \/ BecomeDue
  \/ \E u \in Updates :
       Ensure(u) \/ Renewed(u) \/ UpdateFailed(u) \/ PresenceAccepts(u) \/ Published(u)

LifecycleSpec == LifecycleInit /\ [][LifecycleNext]_lifecycleVars

\* The interval timer fires, so an update that is owed is tried; every request
\* settles, the signer's within 15 seconds; the signer and presence answer well
\* again and again rather than failing for good.
LifecycleFairness ==
  /\ WF_lifecycleVars(\E u \in Updates : Ensure(u))
  /\ \A u \in Updates :
       /\ WF_lifecycleVars(UpdateFailed(u))
       /\ SF_lifecycleVars(InStage(u, {"renew"}) /\ update[u].current /\ Renewed(u))
       /\ SF_lifecycleVars(PresenceAccepts(u))
       /\ SF_lifecycleVars(Published(u))

----------------------------------------------------------------------------
(* Properties.                                                              *)

\* Types of the lifecycle's fields; presence never holds a bundle signed with
\* a certificate the client has not installed.
LifecycleTypeOK ==
  /\ certificate \in 0..MaxCertificates
  /\ due \in BOOLEAN /\ needsPublish \in BOOLEAN
  /\ pending \in Updates \cup {NoUpdate}
  /\ \A u \in Updates : update[u] # NoUpdate => update[u] \in UpdateType
  /\ published \in 0..certificate

\* A certificate is only ever installed by the update of the current
\* generation: what a signer answers after disconnect() is discarded.
InstalledByPending ==
  certificate' # certificate => pending # NoUpdate /\ update[pending].current

CancelledNeverInstalls == [][InstalledByPending]_lifecycleVars

\* With a signer and a presence service that answer now and then, presence
\* comes to hold a bundle of the certificate that is installed.
PublicationCatchesUp == certificate # published ~> certificate = published
=============================================================================
