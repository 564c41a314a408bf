----------------------------- MODULE EpochGroups -----------------------------
(***************************************************************************)
(* Groups with flat epoch secrets (packages/client/src/groups.ts and        *)
(* group-crypto.ts), the scheme beside MLS.  Every member's process keeps   *)
(* its own session and its own list of members; a rotation draws a secret,  *)
(* wraps it for the members whose Diffie-Hellman key it knows, and is       *)
(* broadcast once, if the client is online.                                 *)
(*                                                                          *)
(* What carries the broadcasts is external: it hands every other member     *)
(* what one sender sent, in order.  A secret is named by who drew it and as *)
(* its how manieth.  A process makes its session and the key pair in it     *)
(* once, so a wrap is named by its member: creating a group anew under a    *)
(* name in use is left out.  Receiving a message changes no state.          *)
(***************************************************************************)
EXTENDS Naturals, Sequences, FiniteSets

CONSTANTS
  Members,
  Rotators,       \* the members whose users add and remove others
  NoEpoch,        \* no session yet
  MaxRotations,   \* bound: rotations by one member
  MaxGroupTexts   \* bound: messages sent

Secrets == Members \X Nat
EpochSessions == [epoch : Nat, secret : Secrets, memberDh : SUBSET Members,
                  out : SUBSET Members]

ASSUME MembersAssumption ==
  /\ Rotators \subseteq Members /\ MaxRotations \in Nat /\ MaxGroupTexts \in Nat
  /\ NoEpoch \notin EpochSessions

VARIABLES
  groupSession,   \* the GroupSession, and who is shut out in its view
  membership,
  reachable,      \* client.online
  wraps,          \* rotations on their way [Members -> [Members -> Seq]]
  rotations,      \* [Members -> Nat]
  changed,        \* whom a member last added, and whom it last removed
  held,           \* every secret a member's process has held
  texts           \* messages sent: the secret, and who was shut out

epochVars == <<groupSession, membership, reachable, wraps, rotations,
               changed, held, texts>>

----------------------------------------------------------------------------

\* initGroupSession: epoch 0 under a secret of its own, no keys of others.
InitGroupSession(p) ==
  [epoch |-> 0, secret |-> <<p, 0>>, memberDh |-> {}, out |-> {}]

\* The session, made when there is none.
SessionOf(p) ==
  IF groupSession[p] = NoEpoch THEN InitGroupSession(p) ELSE groupSession[p]

\* createGroup, with the members it names.
CreateGroup(p, named) ==
  /\ groupSession[p] = NoEpoch
  /\ groupSession' = [groupSession EXCEPT ![p] = InitGroupSession(p)]
  /\ membership' = [membership EXCEPT ![p] = @ \cup named \cup {p}]
  /\ held' = [held EXCEPT ![p] = @ \cup {<<p, 0>>}]
  /\ UNCHANGED <<reachable, wraps, rotations, changed, texts>>

\* registerMemberDh: the key of q's session, brought out of band.
RegisterMemberDh(p, q) ==
  /\ p # q /\ groupSession[p] # NoEpoch /\ groupSession[q] # NoEpoch
  /\ groupSession' = [groupSession EXCEPT ![p].memberDh = @ \cup {q}]
  /\ UNCHANGED <<membership, reachable, wraps, rotations, changed, held, texts>>

\* What is known of who is outside, once the changes of a rotator are.
ShutOut(session, changes) ==
  (session.out \cup changes.removed) \ changes.added

Added(p, q) == [added |-> changed[p].added \cup {q},
                removed |-> changed[p].removed \ {q}]
Removed(p, q) == [added |-> changed[p].added \ {q},
                  removed |-> changed[p].removed \cup {q}]

\* broadcastEpoch: once, to whoever is there, or to nobody while offline.
BroadcastEpoch(p, message) ==
  [wraps EXCEPT ![p] = [q \in Members |-> IF reachable[p] /\ q # p
                                          THEN Append(wraps[p][q], message)
                                          ELSE wraps[p][q]]]

\* rotateEpoch, with the keys and the list that the change leaves p with.
Rotate(p, keys, members, changes) ==
  LET session == SessionOf(p)
      secret == <<p, rotations[p] + 1>>
      next == [epoch |-> session.epoch + 1, secret |-> secret,
               memberDh |-> keys, out |-> ShutOut(session, changes)]
      message == [epoch |-> next.epoch, secret |-> secret,
                  wrapped |-> keys \cap members, changes |-> changes]
  IN  /\ rotations[p] < MaxRotations
      /\ rotations' = [rotations EXCEPT ![p] = @ + 1]
      /\ changed' = [changed EXCEPT ![p] = changes]
      /\ groupSession' = [groupSession EXCEPT ![p] = next]
      /\ membership' = [membership EXCEPT ![p] = members]
      /\ held' = [held EXCEPT ![p] = @ \cup {session.secret, secret}]
      /\ wraps' = BroadcastEpoch(p, message)
      /\ UNCHANGED <<reachable, texts>>

\* addMember, which may be given the new member's key.
AddMember(p, q, given) ==
  /\ p # q /\ p \in Rotators
  /\ given => groupSession[q] # NoEpoch
  /\ Rotate(p, SessionOf(p).memberDh \cup {k \in {q} : given},
            membership[p] \cup {q}, Added(p, q))

\* Mutant: the rotation comes before the member is taken off the list.
RotateThenRemove(p, q) ==
  /\ p # q /\ p \in Rotators
  /\ Rotate(p, SessionOf(p).memberDh, membership[p], Removed(p, q))

\* removeMember: off the list and its key forgotten, then a rotation.
RemoveMember(p, q) ==
  /\ p # q /\ p \in Rotators
  /\ Rotate(p, SessionOf(p).memberDh \ {q}, membership[p] \ {q},
            Removed(p, q))

\* sendGroupMessage: under the session's secret of this moment, and lost when
\* the client is offline.
SendGroupMessage(p) ==
  LET session == SessionOf(p)
  IN  /\ Cardinality(texts) < MaxGroupTexts
      /\ groupSession' = [groupSession EXCEPT ![p] = session]
      /\ held' = [held EXCEPT ![p] = @ \cup {session.secret}]
      /\ texts' = texts \cup {[secret |-> session.secret, out |-> session.out]
                              : online \in {TRUE} \cap {reachable[p]}}
      /\ UNCHANGED <<membership, reachable, wraps, rotations, changed>>

\* applyEpochWrap: epoch and secret are replaced, whatever they were.
ApplyEpochWrap(session, message) ==
  [session EXCEPT !.epoch = message.epoch, !.secret = message.secret,
                  !.out = ShutOut(session, message.changes)]

\* applyGroupEpochMessage, with the member's own wrap, if there is one.
ApplyGroupEpochMessage(p, q) ==
  LET message == Head(wraps[p][q])
      session == SessionOf(q)
      kept == IF q \in message.wrapped
              THEN ApplyEpochWrap(session, message)
              ELSE session
  IN  /\ wraps[p][q] # <<>>
      /\ wraps' = [wraps EXCEPT ![p][q] = Tail(@)]
      /\ groupSession' = [groupSession EXCEPT ![q] = kept]
      /\ held' = [held EXCEPT ![q] = @ \cup {session.secret, kept.secret}]
      /\ UNCHANGED <<membership, reachable, rotations, changed, texts>>

\* The client's connection is lost or returns.
Switch(p) ==
  /\ reachable' = [reachable EXCEPT ![p] = ~@]
  /\ UNCHANGED <<groupSession, membership, wraps, rotations, changed, held,
                 texts>>

----------------------------------------------------------------------------

EpochInit ==
  /\ groupSession = [p \in Members |-> NoEpoch]
  /\ membership = [p \in Members |-> {}]
  /\ reachable = [p \in Members |-> TRUE]
  /\ wraps = [p \in Members |-> [q \in Members |-> <<>>]]
  /\ rotations = [p \in Members |-> 0]
  /\ changed = [p \in Members |-> [added |-> {}, removed |-> {}]]
  /\ held = [p \in Members |-> {}]
  /\ texts = {}

\* Only those who rotate use their list, their keys and, but for messages,
\* their connection: the others' are left as they are.
EpochNext ==
  \/ \E p \in Members :
       \/ \E named \in SUBSET (IF p \in Rotators THEN Members \ {p} ELSE {}) :
            CreateGroup(p, named)
       \/ SendGroupMessage(p)
       \/ p \in Rotators /\ Switch(p)
  \/ \E p, q \in Members :
       \/ p \in Rotators /\ RegisterMemberDh(p, q)
       \/ \E given \in BOOLEAN : AddMember(p, q, given)
       \/ RemoveMember(p, q)
       \/ ApplyGroupEpochMessage(p, q)

EpochSpec == EpochInit /\ [][EpochNext]_epochVars

----------------------------------------------------------------------------
(* Properties.                                                              *)

\* "Removed members lack next epoch secret": what a member sends once it has
\* made or applied the rotation that shuts somebody out is under a secret the
\* one shut out has never held, though rotations are missed while offline and
\* members return (removeMember, rotateEpoch, applyEpochWrap).
ShutOutCannotRead ==
  \A text \in texts : \A q \in text.out : text.secret \notin held[q]
=============================================================================
