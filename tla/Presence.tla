------------------------------- MODULE Presence -------------------------------
(***************************************************************************)
(* The presence Durable Object (workers/presence/src/index.ts): leases and  *)
(* prekey bundles behind signed requests, their storage, the subscribers    *)
(* and the cleanup of expired leases.                                       *)
(*                                                                          *)
(* While an object awaits its storage, the platform delivers it no other    *)
(* event, so a handler is one step; but the object can be lost between two  *)
(* writes.                                                                  *)
(***************************************************************************)
EXTENDS IdentityAuth

CONSTANTS
  Sockets,          \* subscribers' WebSockets
  Ttl,              \* PRESENCE_LEASE_TTL_MS
  PresenceSigners,  \* triples <<identity, op, family>>: who signs what
  Queried           \* identities somebody queries

ASSUME PresenceAssumption ==
  /\ Ttl \in Nat \ {0}
  /\ Queried \subseteq Identities
  /\ PresenceSigners \subseteq
       Identities \X {"publish", "remove"} \X {"presence", "prekey"}

VARIABLES
  seq,            \* storage: last issuedAt accepted, per family and identity
  disk,           \* storage: lease: and prekey: entries
  memory,         \* the maps leases and prekeys
  loaded,         \* loaded
  timer,          \* cleanupInterval is set
  subscriptions,  \* subscriptions
  view,           \* [Sockets -> None or identities it was told are online]
  removed         \* the latest removal that was carried out

presenceVars == <<now, requests, seq, disk, memory, loaded, timer,
                  subscriptions, view, removed>>

Families == {"presence", "prekey"}
EntryType == [issuedAt : IssuedTimes, expiresAt : 0..(MaxTime + Ttl)]
Nothing == [f \in Families |-> [i \in Identities |-> None]]

----------------------------------------------------------------------------

\* The maps as the handler finds them, ensureLoaded included.
Maps == IF loaded THEN memory ELSE disk
Leases == Maps["presence"]

IsExpired(lease) == lease.expiresAt <= now

\* claimIssuedAt: fresh, and strictly newer than the last one accepted.
MayClaim(r) ==
  /\ IsFreshIssuedAt(r.issuedAt)
  /\ r.issuedAt > seq[r.family][r.identity]

\* Mutant: a removal does not count as a request.
ClaimPublications(r) ==
  IF r.op = "remove" THEN UNCHANGED seq
  ELSE seq' = [seq EXCEPT ![r.family][r.identity] = r.issuedAt]

Claim(r) == seq' = [seq EXCEPT ![r.family][r.identity] = r.issuedAt]

\* broadcast of a presence_update to every subscriber.
Broadcast(i, isOnline) ==
  view' = [w \in Sockets |->
    IF w \notin subscriptions THEN view[w]
    ELSE IF isOnline THEN view[w] \cup {i} ELSE view[w] \ {i}]

\* An entry of the map and of storage is set, or deleted with None.
Store(r, entry) ==
  /\ memory' = [Maps EXCEPT ![r.family][r.identity] = entry]
  /\ disk' = [disk EXCEPT ![r.family][r.identity] = entry]
  /\ loaded' = TRUE

\* ensureLoaded starts the timer when it finds leases.
TimerOnLoad == timer \/ (~loaded /\ \E i \in Identities : Leases[i] # None)

----------------------------------------------------------------------------
(* Handlers.                                                                *)

\* The lease is capped to the time to live.
HandlePublish(r) ==
  LET expiresAt == IF r.issuedAt > now THEN now + Ttl ELSE r.issuedAt + Ttl
  IN  /\ r.family = "presence" /\ r.op = "publish"
      /\ MayClaim(r) /\ expiresAt > now
      /\ Claim(r)
      /\ Store(r, [issuedAt |-> r.issuedAt, expiresAt |-> expiresAt])
      /\ timer' = TRUE
      /\ Broadcast(r.identity, TRUE)
      /\ UNCHANGED <<now, requests, subscriptions, removed>>

HandleRemove(r) ==
  /\ r.family = "presence" /\ r.op = "remove"
  /\ MayClaim(r)
  /\ Claim(r)
  /\ Store(r, None)
  /\ timer' = TimerOnLoad
  /\ IF Leases[r.identity] # None THEN Broadcast(r.identity, FALSE)
     ELSE UNCHANGED view
  /\ removed' = [removed EXCEPT !["presence"][r.identity] = r.issuedAt]
  /\ UNCHANGED <<now, requests, subscriptions>>

HandlePrekeyPublish(r) ==
  /\ r.family = "prekey" /\ r.op = "publish"
  /\ MayClaim(r)
  /\ Claim(r)
  /\ Store(r, [issuedAt |-> r.issuedAt, expiresAt |-> 0])
  /\ timer' = TimerOnLoad
  /\ UNCHANGED <<now, requests, subscriptions, view, removed>>

HandlePrekeyRemove(r) ==
  /\ r.family = "prekey" /\ r.op = "remove"
  /\ MayClaim(r)
  /\ Claim(r)
  /\ Store(r, None)
  /\ timer' = TimerOnLoad
  /\ removed' = [removed EXCEPT !["prekey"][r.identity] = r.issuedAt]
  /\ UNCHANGED <<now, requests, subscriptions, view>>

\* The object is lost after claimIssuedAt and before the entry is written.
LostAfterClaim(r) ==
  /\ MayClaim(r)
  /\ Claim(r)
  /\ memory' = Nothing /\ loaded' = FALSE
  /\ timer' = FALSE /\ subscriptions' = {}
  /\ view' = [w \in Sockets |-> None]
  /\ UNCHANGED <<now, requests, disk, removed>>

\* A query deletes the lease it finds expired, without a broadcast.
HandleQuery(i) ==
  LET lease == Leases[i]
      entries == IF lease # None /\ IsExpired(lease)
                 THEN [Maps EXCEPT !["presence"][i] = None] ELSE Maps
  IN  /\ i \in Queried
      /\ memory' = entries
      /\ disk' = [disk EXCEPT !["presence"][i] = entries["presence"][i]]
      /\ loaded' = TRUE
      /\ timer' = TimerOnLoad
      /\ UNCHANGED <<now, requests, seq, subscriptions, view, removed>>

\* The new subscriber gets a snapshot of the leases that have not expired.
HandleSubscribe(w) ==
  /\ view[w] = None
  /\ memory' = Maps /\ loaded' = TRUE
  /\ subscriptions' = subscriptions \cup {w}
  /\ timer' = TRUE
  /\ view' = [view EXCEPT ![w] =
       {i \in Identities : Leases[i] # None /\ ~IsExpired(Leases[i])}]
  /\ UNCHANGED <<now, requests, seq, disk, removed>>

WebSocketClose(w) ==
  /\ view[w] # None
  /\ subscriptions' = subscriptions \ {w}
  /\ view' = [view EXCEPT ![w] = None]
  /\ UNCHANGED <<now, requests, seq, disk, memory, loaded, timer, removed>>

\* Mutant: the timer runs once.
CleanupOnce ==
  LET expired == {i \in Identities :
                    memory["presence"][i] # None /\ IsExpired(memory["presence"][i])}
      kept(map) == [map EXCEPT !["presence"] =
                     [i \in Identities |-> IF i \in expired THEN None ELSE @[i]]]
  IN  /\ timer
      /\ memory' = kept(memory) /\ disk' = kept(disk)
      /\ view' = [w \in Sockets |-> IF w \in subscriptions THEN view[w] \ expired
                                    ELSE view[w]]
      /\ timer' = FALSE
      /\ UNCHANGED <<now, requests, seq, loaded, subscriptions, removed>>

\* cleanupExpired: expired leases go, and subscribers are told.
CleanupExpired ==
  LET expired == {i \in Identities :
                    memory["presence"][i] # None /\ IsExpired(memory["presence"][i])}
      kept(map) == [map EXCEPT !["presence"] =
                     [i \in Identities |-> IF i \in expired THEN None ELSE @[i]]]
  IN  /\ timer
      /\ memory' = kept(memory) /\ disk' = kept(disk)
      /\ view' = [w \in Sockets |-> IF w \in subscriptions THEN view[w] \ expired
                                    ELSE view[w]]
      /\ timer' = (\/ subscriptions # {}
                   \/ \E i \in Identities : memory'["presence"][i] # None)
      /\ UNCHANGED <<now, requests, seq, loaded, subscriptions, removed>>

\* The object leaves memory.  Its interval timer rules hibernation out, so the
\* sockets of its subscribers close with it.
EvictPresence ==
  /\ memory' = Nothing /\ loaded' = FALSE
  /\ timer' = FALSE /\ subscriptions' = {}
  /\ view' = [w \in Sockets |-> None]
  /\ UNCHANGED <<now, requests, seq, disk, removed>>

----------------------------------------------------------------------------
(* Clients and time.                                                        *)

SignPresence(i, op, family) ==
  /\ MaySign(i)
  /\ requests' = requests \cup
       {[op |-> op, family |-> family, identity |-> i,
         issuedAt |-> NextIssuedAt(i)]}
  /\ UNCHANGED <<now, seq, disk, memory, loaded, timer, subscriptions, view,
                 removed>>

PresenceTick ==
  /\ now < MaxTime
  /\ now' = now + 1
  /\ UNCHANGED <<requests, seq, disk, memory, loaded, timer, subscriptions,
                 view, removed>>

PresenceInit ==
  /\ now = 1 /\ requests = {}
  /\ seq = [f \in Families |-> [i \in Identities |-> 0]]
  /\ disk = Nothing /\ memory = Nothing
  /\ loaded = FALSE /\ timer = FALSE
  /\ subscriptions = {}
  /\ view = [w \in Sockets |-> None]
  /\ removed = [f \in Families |-> [i \in Identities |-> 0]]

PresenceNext ==
  \/ \E r \in requests :
       \/ HandlePublish(r) \/ HandleRemove(r)
       \/ HandlePrekeyPublish(r) \/ HandlePrekeyRemove(r)
       \/ LostAfterClaim(r)
  \/ \E i \in Identities : HandleQuery(i)
  \/ \E w \in Sockets : HandleSubscribe(w) \/ WebSocketClose(w)
  \/ CleanupExpired \/ EvictPresence
  \/ \E signer \in PresenceSigners : SignPresence(signer[1], signer[2], signer[3])
  \/ PresenceTick

PresenceSpec == PresenceInit /\ [][PresenceNext]_presenceVars

\* The interval timer fires as long as it is set.
PresenceFairness == WF_presenceVars(CleanupExpired)

----------------------------------------------------------------------------
(* Properties.                                                              *)

\* Types of the object's state and storage.
PresenceTypeOK ==
  /\ now \in 1..MaxTime
  /\ \A r \in requests : r.identity \in Identities /\ r.issuedAt \in IssuedTimes
  /\ \A f \in Families, i \in Identities :
       /\ seq[f][i] \in IssuedTimes \cup {0}
       /\ disk[f][i] # None => disk[f][i] \in EntryType
       /\ memory[f][i] # None => memory[f][i] \in EntryType
  /\ loaded \in BOOLEAN /\ timer \in BOOLEAN
  /\ subscriptions \subseteq {w \in Sockets : view[w] # None}

\* Requests delivered late or again change nothing: the entry of an identity
\* carries an issuedAt that was claimed, and after a removal only a
\* publication signed later than it brings an entry back.  The same holds of
\* what the loaded object answers from, which is what is stored: an eviction
\* at any time neither loses an entry nor brings one back.
ReplaysRefused ==
  /\ \A f \in Families, i \in Identities : disk[f][i] # None =>
       /\ disk[f][i].issuedAt <= seq[f][i]
       /\ disk[f][i].issuedAt > removed[f][i]
  /\ loaded => memory = disk

\* Once a lease has expired and is not renewed, every subscriber is told, unless
\* a query came first and deleted it without a word.
OfflineOnExpiry ==
  \A w \in Sockets, i \in Identities \ Queried :
    (/\ view[w] # None /\ i \in view[w]
     /\ Leases[i] # None /\ IsExpired(Leases[i]))
    ~> \/ view[w] = None \/ i \notin view[w]
       \/ Leases[i] # None /\ ~IsExpired(Leases[i])
=============================================================================
