---------------------------- MODULE GroupProofs ----------------------------
(***************************************************************************)
(* Proofs about the two kinds of group, groups with epoch secrets           *)
(* (EpochGroups) and MLS groups (MlsGroups), for any members, clients,      *)
(* messages and bounds.                                                     *)
(***************************************************************************)
EXTENDS EpochGroups, MlsGroups, TLAPS

\* The backend of every leaf that names none, with a second run of more time.
USE Zenon, ZenonT(20)

----------------------------------------------------------------------------
(* Groups with epoch secrets, with one member r who adds and removes.       *)

Changes == [added : SUBSET Members, removed : SUBSET Members]
EpochMessages == [epoch : Nat, secret : Secrets, wrapped : SUBSET Members,
                  changes : Changes]
GroupTexts == [secret : Secrets, out : SUBSET Members]

EpochTypes ==
  /\ groupSession \in [Members -> EpochSessions \cup {NoEpoch}]
  /\ membership \in [Members -> SUBSET Members]
  /\ reachable \in [Members -> BOOLEAN]
  /\ wraps \in [Members -> [Members -> Seq(EpochMessages)]]
  /\ rotations \in [Members -> Nat]
  /\ changed \in [Members -> Changes]
  /\ held \in [Members -> SUBSET Secrets]
  /\ texts \subseteq GroupTexts

\* The members that a rotator has ever added or removed.
Settled(changes) == changes.added \cup changes.removed

\* q has the secret, or a wrap of it is coming to q.
Reaches(secret, q, has, coming) ==
  \/ secret \in has[q]
  \/ \E i \in DOMAIN coming[q] : /\ coming[q][i].secret = secret
                                 /\ q \in coming[q][i].wrapped

\* The secret was drawn, and does not reach those that are out; the secrets that
\* sessions start with are of a time when nobody is.
Shut(r, secret, out, drawn, has, coming) ==
  /\ secret[1] = r => secret[2] <= drawn
  /\ secret[2] = 0 => out = {}
  /\ \A q \in out : ~Reaches(secret, q, has, coming)

\* What a member works with keeps out whom it knows to be out, ...
SessionShut(r, p) ==
  groupSession[p] # NoEpoch =>
    /\ Shut(r, groupSession[p].secret, groupSession[p].out,
            rotations[r], held, wraps[r])
    /\ groupSession[p].secret \in held[p]
    /\ groupSession[p].out \subseteq Settled(changed[r])

\* ... and so does what it will work with after the next rotations it gets: each
\* of them settles at least what those before it did.
QueueShut(r, queued, own, settled, drawn, has, coming) ==
  \A i \in DOMAIN queued :
    /\ Shut(r, queued[i].secret, queued[i].changes.removed, drawn, has, coming)
    /\ Settled(queued[i].changes) \subseteq settled
    /\ own # NoEpoch => own.out \subseteq Settled(queued[i].changes)
    /\ \A j \in DOMAIN queued :
         i < j => Settled(queued[i].changes) \subseteq Settled(queued[j].changes)
WrapsShut(r, p) ==
  QueueShut(r, wraps[r][p], groupSession[p], Settled(changed[r]),
            rotations[r], held, wraps[r])

\* The rotator's own list and session follow its changes.
RotatorInv(r) ==
  /\ r \notin changed[r].removed
  /\ membership[r] \cap changed[r].removed = {}
  /\ IF groupSession[r] = NoEpoch THEN changed[r].removed = {}
     ELSE groupSession[r].out \subseteq changed[r].removed

EpochInv(r) ==
  /\ EpochTypes
  /\ RotatorInv(r)
  /\ \A p, q \in Members : p # r \/ q = r => wraps[p][q] = <<>>
  /\ \A p \in Members : \A secret \in held[p] :
       secret[1] = r => secret[2] <= rotations[r]
  /\ \A p \in Members : SessionShut(r, p) /\ WrapsShut(r, p)
  /\ \A text \in texts :
       Shut(r, text.secret, text.out, rotations[r], held, wraps[r])


\* The session a member works with, made if there is none, is as the invariant
\* says of sessions.
LEMMA SessionWorks ==
  ASSUME NEW r \in Members, EpochInv(r), NEW p \in Members
  PROVE  /\ SessionOf(p) \in EpochSessions
         /\ Shut(r, SessionOf(p).secret, SessionOf(p).out, rotations[r], held, wraps[r])
         /\ SessionOf(p).secret \in held[p] \/ SessionOf(p).secret[2] = 0
         /\ SessionOf(p).secret[1] = r => SessionOf(p).secret[2] <= rotations[r]
         /\ SessionOf(p).out \subseteq Settled(changed[r])
         /\ \A i \in DOMAIN wraps[r][p] :
              SessionOf(p).out \subseteq Settled(wraps[r][p][i].changes)
<1>1. /\ groupSession[p] \in EpochSessions \cup {NoEpoch}
      /\ rotations[r] \in Nat
  BY DEF EpochInv, EpochTypes
<1>2. SessionShut(r, p) /\ WrapsShut(r, p)
  BY DEF EpochInv
<1>3. CASE groupSession[p] = NoEpoch
  <2>1. /\ SessionOf(p).secret = <<p, 0>> /\ SessionOf(p).out = {}
        /\ SessionOf(p) \in EpochSessions
    BY <1>3 DEF SessionOf, InitGroupSession, EpochSessions, Secrets
  <2>2. Shut(r, <<p, 0>>, {}, rotations[r], held, wraps[r])
    BY SMT, Z3, <1>1 DEF Shut
  <2> QED
    BY SMT, Z3, <1>1, <2>1, <2>2
<1>4. CASE groupSession[p] # NoEpoch
  <2>1. SessionOf(p) = groupSession[p]
    BY <1>4 DEF SessionOf
  <2> QED
    BY <1>1, <1>2, <1>4, <2>1 DEF SessionShut, WrapsShut, QueueShut, Shut
<1> QED
  BY <1>3, <1>4

\* A secret comes to reach somebody only if it is new or one that a session
\* starts with.
OnlyNewReach(r, drawn, has, coming, has2, coming2) ==
  \A s \in Secrets : \A q \in Members :
    Reaches(s, q, has2, coming2) =>
      Reaches(s, q, has, coming) \/ s[2] = 0 \/ s = <<r, drawn + 1>>

\* What was shut stays so then.
LEMMA ShutKept ==
  ASSUME NEW r \in Members, NEW drawn \in Nat, NEW later \in Nat, drawn <= later,
         NEW has, NEW has2, NEW coming, NEW coming2,
         OnlyNewReach(r, drawn, has, coming, has2, coming2),
         NEW secret \in Secrets, NEW out \in SUBSET Members,
         Shut(r, secret, out, drawn, has, coming)
  PROVE  Shut(r, secret, out, later, has2, coming2)
<1>1. secret[1] \in Members /\ secret[2] \in Nat /\ secret = <<secret[1], secret[2]>>
  BY SMT, Z3 DEF Secrets
<1>2. /\ secret[1] = r => secret[2] <= drawn
      /\ secret[2] = 0 => out = {}
      /\ \A q \in out : ~Reaches(secret, q, has, coming)
  BY DEF Shut
<1>3. secret[1] = r => secret[2] <= later
  BY SMT, Z3, <1>1, <1>2
<1>4. secret # <<r, drawn + 1>>
  BY SMT, Z3, <1>1, <1>2
<1>5. ASSUME NEW q \in out, Reaches(secret, q, has2, coming2)
      PROVE  FALSE
  BY <1>2, <1>4, <1>5 DEF OnlyNewReach
<1> QED
  BY <1>2, <1>3, <1>5 DEF Shut

\* Fewer are out: still shut.
LEMMA ShutFewer ==
  ASSUME NEW r, NEW drawn, NEW has, NEW coming, NEW secret, NEW out, NEW fewer,
         fewer \subseteq out, Shut(r, secret, out, drawn, has, coming)
  PROVE  Shut(r, secret, fewer, drawn, has, coming)
BY DEF Shut


\* What is on its way is a rotation.
LEMMA WrapTyped ==
  ASSUME EpochTypes, NEW p \in Members, NEW q \in Members,
         NEW i \in DOMAIN wraps[p][q]
  PROVE  /\ wraps[p][q][i] \in EpochMessages
         /\ wraps[p][q][i].secret \in Secrets
         /\ wraps[p][q][i].wrapped \in SUBSET Members
         /\ wraps[p][q][i].changes \in Changes
         /\ wraps[p][q][i].changes.removed \in SUBSET Members
         /\ wraps[p][q][i].changes.added \in SUBSET Members
<1>1. wraps[p][q] \in Seq(EpochMessages)
  BY DEF EpochTypes
<1>2. wraps[p][q][i] \in EpochMessages
  BY SMT, Z3, <1>1
<1>3. /\ wraps[p][q][i].secret \in Secrets
      /\ wraps[p][q][i].wrapped \in SUBSET Members
      /\ wraps[p][q][i].changes \in Changes
  BY <1>2 DEF EpochMessages
<1> QED
  BY <1>2, <1>3 DEF Changes


\* createGroup, registerMemberDh and sendGroupMessage: a member makes its session
\* if there is none, and goes on under its secret.
LEMMA MemberKeeps ==
  ASSUME NEW r \in Members, EpochInv(r), NEW p \in Members, NEW s \in EpochSessions,
         s.secret = SessionOf(p).secret, s.out = SessionOf(p).out,
         groupSession' = [groupSession EXCEPT ![p] = s],
         held' = [held EXCEPT ![p] = @ \cup {s.secret}],
         membership' \in [Members -> SUBSET Members],
         membership'[r] \cap changed[r].removed = {},
         texts' \subseteq texts \cup {[secret |-> s.secret, out |-> s.out]},
         UNCHANGED <<reachable, wraps, rotations, changed>>
  PROVE  EpochInv(r)'
<1>1. EpochTypes
  BY DEF EpochInv
<1>2. /\ Shut(r, s.secret, s.out, rotations[r], held, wraps[r])
      /\ s.secret \in held[p] \/ s.secret[2] = 0
      /\ s.secret[1] = r => s.secret[2] <= rotations[r]
      /\ s.out \subseteq Settled(changed[r])
      /\ \A i \in DOMAIN wraps[r][p] : s.out \subseteq Settled(wraps[r][p][i].changes)
      /\ s.secret \in Secrets /\ s.out \in SUBSET Members
  BY SessionWorks DEF EpochSessions
<1>3. EpochTypes'
  <2>1. groupSession' \in [Members -> EpochSessions \cup {NoEpoch}]
        /\ held' \in [Members -> SUBSET Secrets]
    BY <1>1, <1>2 DEF EpochTypes
  <2>2. [secret |-> s.secret, out |-> s.out] \in GroupTexts
    BY <1>2 DEF GroupTexts
  <2>3. texts' \subseteq GroupTexts
    BY <1>1, <2>2 DEF EpochTypes
  <2> QED
    BY <1>1, <2>1, <2>3 DEF EpochTypes
<1>4. /\ groupSession'[p] = s /\ s # NoEpoch
      /\ \A q \in Members \ {p} : groupSession'[q] = groupSession[q]
      /\ held'[p] = held[p] \cup {s.secret}
      /\ \A q \in Members \ {p} : held'[q] = held[q]
  BY <1>1, MembersAssumption DEF EpochTypes
<1>5. OnlyNewReach(r, rotations[r], held, wraps[r], held', wraps[r])
  BY SMT, Z3, <1>2, <1>4 DEF Reaches, OnlyNewReach
<1>6. \A x \in Secrets : \A out \in SUBSET Members :
        Shut(r, x, out, rotations[r], held, wraps[r])
          => Shut(r, x, out, rotations[r], held', wraps[r])
  <2>1. rotations[r] \in Nat /\ rotations[r] <= rotations[r]
    BY SMT, Z3, <1>1 DEF EpochTypes
  <2> QED
    BY SMT, Z3, <1>5, <2>1, ShutKept
<1>7. RotatorInv(r)'
  <2>1. CASE p = r
    <3>1. s.out \subseteq changed[r].removed
      BY <2>1 DEF EpochInv, RotatorInv, SessionOf, InitGroupSession
    <3> QED
      BY <1>4, <2>1, <3>1 DEF EpochInv, RotatorInv
  <2>2. CASE p # r
    BY <1>4, <2>2 DEF EpochInv, RotatorInv
  <2> QED
    BY <2>1, <2>2
<1>8. \A q \in Members : \A x \in held'[q] : x[1] = r => x[2] <= rotations[r]
  BY SMT, Z3, <1>2, <1>4 DEF EpochInv
<1>9. ASSUME NEW q \in Members
      PROVE  SessionShut(r, q)'
  <2>1. CASE q = p
    BY <1>2, <1>4, <1>6, <2>1 DEF SessionShut
  <2>2. CASE q # p
    <3>1. SessionShut(r, q) /\ groupSession[q] \in EpochSessions \cup {NoEpoch}
      BY <1>1 DEF EpochInv, EpochTypes
    <3>2. groupSession[q] # NoEpoch =>
            groupSession[q].secret \in Secrets /\ groupSession[q].out \in SUBSET Members
      BY <3>1 DEF EpochSessions
    <3> QED
      BY <1>4, <1>6, <2>2, <3>1, <3>2 DEF SessionShut
  <2> QED
    BY <2>1, <2>2
<1>10. ASSUME NEW q \in Members
       PROVE  WrapsShut(r, q)'
  <2>1. WrapsShut(r, q)
    BY DEF EpochInv
  <2>2. \A i \in DOMAIN wraps[r][q] :
          wraps[r][q][i].secret \in Secrets /\ wraps[r][q][i].changes.removed \in SUBSET Members
    BY <1>1, WrapTyped
  <2>3. \A i \in DOMAIN wraps[r][q] :
          Shut(r, wraps[r][q][i].secret, wraps[r][q][i].changes.removed,
               rotations[r], held', wraps[r])
    BY <1>6, <2>1, <2>2 DEF WrapsShut, QueueShut
  <2>4. groupSession'[q] # NoEpoch =>
          \A i \in DOMAIN wraps[r][q] :
            groupSession'[q].out \subseteq Settled(wraps[r][q][i].changes)
    BY SMT, Z3, <1>2, <1>4, <2>1 DEF WrapsShut, QueueShut
  <2> QED
    BY <2>1, <2>3, <2>4 DEF WrapsShut, QueueShut
<1>11. ASSUME NEW text \in texts'
       PROVE  Shut(r, text.secret, text.out, rotations[r], held', wraps[r])
  <2>1. text \in GroupTexts
    BY <1>3 DEF EpochTypes
  <2>2. text.secret \in Secrets /\ text.out \in SUBSET Members
    BY <2>1 DEF GroupTexts
  <2>3. CASE text \in texts
    BY <1>6, <2>2, <2>3 DEF EpochInv
  <2>4. CASE text = [secret |-> s.secret, out |-> s.out]
    BY <1>2, <1>6, <2>4
  <2> QED
    BY <2>3, <2>4
<1> QED
  BY <1>3, <1>7, <1>8, <1>9, <1>10, <1>11 DEF EpochInv


\* Taking the first off a queue moves the others up.
LEMMA TailShifts ==
  ASSUME NEW S, NEW seq \in Seq(S), seq # <<>>
  PROVE  /\ Tail(seq) \in Seq(S)
         /\ \A i \in DOMAIN Tail(seq) : i + 1 \in DOMAIN seq /\ i \in Nat \ {0}
                                        /\ Tail(seq)[i] = seq[i + 1]
BY SMT, Z3

\* A member has taken a rotation off its queue, and goes on with a session that
\* is as the invariant wants it.
LEMMA AppliedKeeps ==
  ASSUME NEW r \in Members, EpochInv(r), NEW q \in Members, q # r,
         NEW s \in EpochSessions, NEW kept \in EpochSessions,
         wraps[r][q] # <<>>,
         wraps' = [wraps EXCEPT ![r][q] = Tail(@)],
         groupSession' = [groupSession EXCEPT ![q] = kept],
         held' = [held EXCEPT ![q] = @ \cup {s.secret, kept.secret}],
         UNCHANGED <<membership, reachable, rotations, changed, texts>>,
         s.secret \in held[q] \/ s.secret[2] = 0,
         s.secret[1] = r => s.secret[2] <= rotations[r],
         Reaches(kept.secret, q, held, wraps[r]) \/ kept.secret[2] = 0,
         kept.secret[1] = r => kept.secret[2] <= rotations[r],
         Shut(r, kept.secret, kept.out, rotations[r], held, wraps[r]),
         kept.out \subseteq Settled(changed[r]),
         \A j \in DOMAIN wraps[r][q] :
           1 < j => kept.out \subseteq Settled(wraps[r][q][j].changes)
  PROVE  EpochInv(r)'
<1>1. EpochTypes
  BY DEF EpochInv
<1>2. wraps \in [Members -> [Members -> Seq(EpochMessages)]]
  BY <1>1 DEF EpochTypes
<1>3. wraps[r] \in [Members -> Seq(EpochMessages)] /\ wraps[r][q] \in Seq(EpochMessages)
  BY <1>2
<1>4. PICK tail \in Seq(EpochMessages) :
        /\ tail = Tail(wraps[r][q])
        /\ \A i \in DOMAIN tail : i + 1 \in DOMAIN wraps[r][q] /\ i \in Nat \ {0}
                                  /\ tail[i] = wraps[r][q][i + 1]
  BY <1>3, TailShifts
<1>5. wraps' = [wraps EXCEPT ![r] = [wraps[r] EXCEPT ![q] = tail]]
  BY <1>4
<1>6. /\ wraps' \in [Members -> [Members -> Seq(EpochMessages)]]
      /\ wraps'[r][q] = tail
      /\ \A x, y \in Members : x # r \/ y # q => wraps'[x][y] = wraps[x][y]
  BY SMT, Z3, <1>2, <1>3, <1>5
<1>7. /\ groupSession'[q] = kept /\ kept # NoEpoch
      /\ \A x \in Members \ {q} : groupSession'[x] = groupSession[x]
      /\ held'[q] = held[q] \cup {s.secret, kept.secret}
      /\ \A x \in Members \ {q} : held'[x] = held[x]
      /\ kept.secret \in Secrets /\ kept.out \in SUBSET Members /\ s.secret \in Secrets
  BY <1>1, MembersAssumption DEF EpochTypes, EpochSessions
<1>8. EpochTypes'
  <2>1. groupSession' \in [Members -> EpochSessions \cup {NoEpoch}]
        /\ held' \in [Members -> SUBSET Secrets]
    BY SMT, Z3, <1>1, <1>7 DEF EpochTypes
  <2> QED
    BY <1>1, <1>6, <2>1 DEF EpochTypes
<1>9. OnlyNewReach(r, rotations[r], held, wraps[r], held', wraps'[r])
  <2> SUFFICES ASSUME NEW x \in Secrets, NEW y \in Members,
                      Reaches(x, y, held', wraps'[r])
               PROVE  Reaches(x, y, held, wraps[r]) \/ x[2] = 0
    BY DEF OnlyNewReach
  <2>1. CASE y # q
    BY SMT, Z3, <1>6, <1>7, <2>1 DEF Reaches
  <2>2. CASE y = q
    <3>1. CASE x \in held'[q]
      BY SMT, Z3, <1>7, <2>2, <3>1 DEF Reaches
    <3>2. CASE \E i \in DOMAIN tail : tail[i].secret = x /\ q \in tail[i].wrapped
      BY SMT, Z3, <1>4, <2>2, <3>2 DEF Reaches
    <3> QED
      BY SMT, Z3, <1>6, <2>2, <3>1, <3>2 DEF Reaches
  <2> QED
    BY <2>1, <2>2
<1>10. \A x \in Secrets : \A out \in SUBSET Members :
        Shut(r, x, out, rotations[r], held, wraps[r])
          => Shut(r, x, out, rotations[r], held', wraps'[r])
  <2>1. rotations[r] \in Nat /\ rotations[r] <= rotations[r]
    BY SMT, Z3, <1>1 DEF EpochTypes
  <2> QED
    BY SMT, Z3, <1>9, <2>1, ShutKept
<1>11. RotatorInv(r)'
  BY <1>7 DEF EpochInv, RotatorInv
<1>12. \A y \in Members : \A x \in held'[y] : x[1] = r => x[2] <= rotations[r]
  BY <1>7 DEF EpochInv
<1>13. ASSUME NEW y \in Members
       PROVE  SessionShut(r, y)'
  <2>1. CASE y = q
    BY <1>7, <1>10, <2>1 DEF SessionShut
  <2>2. CASE y # q
    <3>1. SessionShut(r, y) /\ groupSession[y] \in EpochSessions \cup {NoEpoch}
      BY <1>1 DEF EpochInv, EpochTypes
    <3>2. groupSession[y] # NoEpoch =>
            groupSession[y].secret \in Secrets /\ groupSession[y].out \in SUBSET Members
      BY <3>1 DEF EpochSessions
    <3> QED
      BY <1>7, <1>10, <2>2, <3>1, <3>2 DEF SessionShut
  <2> QED
    BY <2>1, <2>2
<1>14. ASSUME NEW y \in Members, NEW i \in DOMAIN wraps[r][y]
       PROVE  Shut(r, wraps[r][y][i].secret, wraps[r][y][i].changes.removed,
                   rotations[r], held', wraps'[r])
  <2>1. /\ wraps[r][y][i].secret \in Secrets
        /\ wraps[r][y][i].changes.removed \in SUBSET Members
    BY <1>1, WrapTyped
  <2>2. Shut(r, wraps[r][y][i].secret, wraps[r][y][i].changes.removed,
             rotations[r], held, wraps[r])
    BY DEF EpochInv, WrapsShut, QueueShut
  <2> QED
    BY <1>10, <2>1, <2>2
<1>15. ASSUME NEW y \in Members
       PROVE  WrapsShut(r, y)'
  <2>1. WrapsShut(r, y)
    BY DEF EpochInv
  <2>2. CASE y # q
    <3>1. wraps'[r][y] = wraps[r][y] /\ groupSession'[y] = groupSession[y]
      BY <1>6, <1>7, <2>2
    <3>2. QueueShut(r, wraps[r][y], groupSession[y], Settled(changed[r]),
                    rotations[r], held', wraps'[r])
      BY <1>14, <2>1 DEF WrapsShut, QueueShut
    <3> QED
      BY <3>1, <3>2 DEF WrapsShut
  <2>3. CASE y = q
    <3>1. wraps'[r][y] = tail /\ groupSession'[y] = kept
      BY <1>6, <1>7, <2>3
    <3> SUFFICES ASSUME NEW i \in DOMAIN tail
                 PROVE  /\ Shut(r, tail[i].secret, tail[i].changes.removed,
                                rotations[r], held', wraps'[r])
                        /\ Settled(tail[i].changes) \subseteq Settled(changed[r])
                        /\ kept.out \subseteq Settled(tail[i].changes)
                        /\ \A j \in DOMAIN tail :
                             i < j => Settled(tail[i].changes)
                                        \subseteq Settled(tail[j].changes)
      <4>1. QueueShut(r, tail, kept, Settled(changed[r]), rotations[r], held', wraps'[r])
              => WrapsShut(r, y)'
        BY <3>1 DEF WrapsShut
      <4> QED
        BY <4>1 DEF QueueShut
    <3>2. i + 1 \in DOMAIN wraps[r][q] /\ 1 < i + 1 /\ tail[i] = wraps[r][q][i + 1]
      BY SMT, Z3, <1>4
    <3>3. ASSUME NEW j \in DOMAIN tail, i < j
          PROVE  Settled(tail[i].changes) \subseteq Settled(tail[j].changes)
      <4>1. /\ j + 1 \in DOMAIN wraps[r][q] /\ tail[j] = wraps[r][q][j + 1]
            /\ i + 1 < j + 1
        BY SMT, Z3, <1>4, <3>3
      <4> QED
        BY <2>1, <2>3, <3>2, <4>1 DEF WrapsShut, QueueShut
    <3>4. /\ Settled(tail[i].changes) \subseteq Settled(changed[r])
          /\ kept.out \subseteq Settled(tail[i].changes)
      BY <2>1, <2>3, <3>2 DEF WrapsShut, QueueShut
    <3> QED
      BY <1>14, <3>2, <3>3, <3>4
  <2> QED
    BY <2>2, <2>3
<1>16. ASSUME NEW text \in texts
       PROVE  Shut(r, text.secret, text.out, rotations[r], held', wraps'[r])
  <2>1. text \in GroupTexts
    BY <1>1 DEF EpochTypes
  <2>2. text.secret \in Secrets /\ text.out \in SUBSET Members
    BY <2>1 DEF GroupTexts
  <2> QED
    BY <1>10, <2>2 DEF EpochInv
<1>17. \A x, y \in Members : x # r \/ y = r => wraps'[x][y] = <<>>
  BY SMT, Z3, <1>6 DEF EpochInv
<1> QED
  BY <1>8, <1>11, <1>12, <1>13, <1>15, <1>16, <1>17 DEF EpochInv

\* applyGroupEpochMessage: who applies a rotation goes on under a secret that
\* does not reach the ones it now knows to be out.
LEMMA ApplyKeeps ==
  ASSUME NEW r \in Members, EpochInv(r), NEW p \in Members, NEW q \in Members,
         ApplyGroupEpochMessage(p, q)
  PROVE  EpochInv(r)'
<1>1. EpochTypes
  BY DEF EpochInv
<1>2. wraps[p][q] # <<>>
  BY DEF ApplyGroupEpochMessage
<1>3. p = r /\ q # r
  BY <1>2 DEF EpochInv
<1>4. PICK s : s = SessionOf(q)
  BY SMT, Z3
<1>5. PICK m : m = Head(wraps[r][q])
  BY SMT, Z3
<1>6. PICK kept : kept = IF q \in m.wrapped THEN ApplyEpochWrap(s, m) ELSE s
  BY SMT, Z3
<1>7. /\ wraps' = [wraps EXCEPT ![r][q] = Tail(@)]
      /\ groupSession' = [groupSession EXCEPT ![q] = kept]
      /\ held' = [held EXCEPT ![q] = @ \cup {s.secret, kept.secret}]
      /\ UNCHANGED <<membership, reachable, rotations, changed, texts>>
  BY <1>3, <1>4, <1>5, <1>6 DEF ApplyGroupEpochMessage
<1>8. /\ s \in EpochSessions
      /\ Shut(r, s.secret, s.out, rotations[r], held, wraps[r])
      /\ s.secret \in held[q] \/ s.secret[2] = 0
      /\ s.secret[1] = r => s.secret[2] <= rotations[r]
      /\ s.out \subseteq Settled(changed[r])
      /\ \A i \in DOMAIN wraps[r][q] : s.out \subseteq Settled(wraps[r][q][i].changes)
  BY <1>4, SessionWorks
<1>9. wraps[r][q] \in Seq(EpochMessages) /\ wraps[r][q] # <<>>
  BY <1>1, <1>2, <1>3 DEF EpochTypes
<1>10. 1 \in DOMAIN wraps[r][q] /\ m = wraps[r][q][1]
  BY SMT, Z3, <1>5, <1>9
<1>11. /\ m.secret \in Secrets /\ m \in EpochMessages
       /\ m.changes.removed \in SUBSET Members /\ m.changes.added \in SUBSET Members
  BY <1>1, <1>10, WrapTyped
<1>12. /\ Shut(r, m.secret, m.changes.removed, rotations[r], held, wraps[r])
       /\ Settled(m.changes) \subseteq Settled(changed[r])
       /\ \A j \in DOMAIN wraps[r][q] :
            1 < j => Settled(m.changes) \subseteq Settled(wraps[r][q][j].changes)
  BY <1>10 DEF EpochInv, WrapsShut, QueueShut
<1>13. CASE q \in m.wrapped
  <2>1. kept = [epoch |-> m.epoch, secret |-> m.secret, memberDh |-> s.memberDh,
                out |-> ShutOut(s, m.changes)]
    BY <1>6, <1>8, <1>13 DEF ApplyEpochWrap, EpochSessions
  <2>2. kept.out \subseteq m.changes.removed
    BY <1>8, <1>10, <2>1 DEF ShutOut, Settled
  <2>3. kept \in EpochSessions
    BY <1>8, <1>11, <2>1, <2>2 DEF EpochSessions, EpochMessages
  <2>4. kept.secret = m.secret
    BY <2>1
  <2>5. Shut(r, kept.secret, kept.out, rotations[r], held, wraps[r])
    BY <1>12, <2>2, <2>4, ShutFewer
  <2>6. m.changes.removed \subseteq Settled(m.changes)
    BY DEF Settled
  <2>7. /\ kept.out \subseteq Settled(changed[r])
        /\ \A j \in DOMAIN wraps[r][q] :
             1 < j => kept.out \subseteq Settled(wraps[r][q][j].changes)
    BY <1>12, <2>2, <2>6
  <2>8. Reaches(kept.secret, q, held, wraps[r])
    BY <1>10, <1>13, <2>4 DEF Reaches
  <2>9. kept.secret[1] = r => kept.secret[2] <= rotations[r]
    BY <2>5 DEF Shut
  <2> QED
    BY <1>1, <1>7, <1>8, <1>9, <2>3, <2>5, <2>7, <2>8, <2>9, <1>3, AppliedKeeps
<1>14. CASE q \notin m.wrapped
  <2>1. kept = s
    BY <1>6, <1>14
  <2>2. kept.secret \in held[q] \/ kept.secret[2] = 0
    BY <1>8, <2>1
  <2>3. Reaches(kept.secret, q, held, wraps[r]) \/ kept.secret[2] = 0
    BY <2>2 DEF Reaches
  <2> QED
    BY <1>1, <1>7, <1>8, <1>9, <2>1, <2>3, <1>3, AppliedKeeps
<1> QED
  BY <1>13, <1>14


\* rotateEpoch by the one who rotates, with a change that does not leave anyone
\* removed on its list: the new secret is shut to them, and so are the old ones.
LEMMA RotateKeeps ==
  ASSUME NEW r \in Members, EpochInv(r), NEW keys \in SUBSET Members,
         NEW members \in SUBSET Members, NEW changes \in Changes,
         members \cap changes.removed = {}, r \notin changes.removed,
         Settled(changed[r]) \subseteq Settled(changes),
         Rotate(r, keys, members, changes)
  PROVE  EpochInv(r)'
<1>1. EpochTypes
  BY DEF EpochInv
<1>2. PICK s : s = SessionOf(r)
  BY SMT, Z3
<1>3. PICK drawn \in Nat : drawn = rotations[r]
  BY <1>1 DEF EpochTypes
<1>4. PICK new : new = <<r, drawn + 1>>
  OBVIOUS
<1>5. PICK next : next = [epoch |-> s.epoch + 1, secret |-> new, memberDh |-> keys,
                         out |-> ShutOut(s, changes)]
  OBVIOUS
<1>6. PICK m : m = [epoch |-> next.epoch, secret |-> new, wrapped |-> keys \cap members,
                    changes |-> changes]
  OBVIOUS
<1>7. /\ rotations' = [rotations EXCEPT ![r] = @ + 1]
      /\ changed' = [changed EXCEPT ![r] = changes]
      /\ groupSession' = [groupSession EXCEPT ![r] = next]
      /\ membership' = [membership EXCEPT ![r] = members]
      /\ held' = [held EXCEPT ![r] = @ \cup {s.secret, new}]
      /\ wraps' = BroadcastEpoch(r, m)
      /\ UNCHANGED <<reachable, texts>>
  BY <1>2, <1>3, <1>4, <1>5, <1>6 DEF Rotate
<1>8. /\ s \in EpochSessions
      /\ s.secret \in held[r] \/ s.secret[2] = 0
      /\ s.secret[1] = r => s.secret[2] <= drawn
      /\ s.out \subseteq Settled(changed[r])
  BY <1>2, <1>3, SessionWorks
<1>9. /\ new \in Secrets /\ new[1] = r /\ new[2] = drawn + 1 /\ s.secret \in Secrets
      /\ s.epoch \in Nat
  BY SMT, Z3, <1>4, <1>8 DEF Secrets, EpochSessions
<1>10. next.out \subseteq changes.removed
  BY <1>5, <1>8 DEF ShutOut, Settled
<1>11. changes.removed \in SUBSET Members /\ changes.added \in SUBSET Members
  BY DEF Changes
<1>12. next \in EpochSessions /\ next # NoEpoch /\ next.secret = new
  BY SMT, Z3, <1>5, <1>9, <1>10, <1>11, MembersAssumption DEF EpochSessions
<1>13. m \in EpochMessages /\ m.secret = new /\ m.wrapped = keys \cap members
       /\ m.changes = changes
  BY <1>6, <1>9, <1>12 DEF EpochMessages, EpochSessions
<1>14. /\ rotations' \in [Members -> Nat] /\ rotations'[r] = drawn + 1
       /\ changed' \in [Members -> Changes] /\ changed'[r] = changes
       /\ membership' \in [Members -> SUBSET Members] /\ membership'[r] = members
  BY SMT, Z3, <1>1, <1>3, <1>7 DEF EpochTypes
<1>15. /\ groupSession' \in [Members -> EpochSessions \cup {NoEpoch}]
       /\ groupSession'[r] = next
       /\ \A q \in Members \ {r} : groupSession'[q] = groupSession[q]
  BY <1>1, <1>7, <1>12 DEF EpochTypes
<1>16. /\ held' \in [Members -> SUBSET Secrets]
       /\ held'[r] = held[r] \cup {s.secret, new}
       /\ \A q \in Members \ {r} : held'[q] = held[q]
  BY SMT, Z3, <1>1, <1>7, <1>9 DEF EpochTypes
<1>17. /\ wraps' \in [Members -> [Members -> Seq(EpochMessages)]]
       /\ \A p \in Members \ {r} : wraps'[p] = wraps[p]
       /\ \A q \in Members : \/ wraps'[r][q] = wraps[r][q]
                             \/ q # r /\ wraps'[r][q] = Append(wraps[r][q], m)
  <2>1. wraps \in [Members -> [Members -> Seq(EpochMessages)]]
    BY <1>1 DEF EpochTypes
  <2>2. wraps[r] \in [Members -> Seq(EpochMessages)]
    BY <2>1
  <2>3. PICK line : line = [q \in Members |-> IF reachable[r] /\ q # r
                                              THEN Append(wraps[r][q], m)
                                              ELSE wraps[r][q]]
    OBVIOUS
  <2>4. wraps' = [wraps EXCEPT ![r] = line]
    BY <1>7, <2>3 DEF BroadcastEpoch
  <2>5. \A q \in Members : Append(wraps[r][q], m) \in Seq(EpochMessages)
    BY SMT, Z3, <1>13, <2>2
  <2>6. line \in [Members -> Seq(EpochMessages)]
    BY <2>2, <2>3, <2>5
  <2>7. \A q \in Members : \/ line[q] = wraps[r][q]
                           \/ q # r /\ line[q] = Append(wraps[r][q], m)
    BY <2>3
  <2> QED
    BY <2>1, <2>4, <2>6, <2>7
<1>18. EpochTypes'
  BY <1>1, <1>7, <1>14, <1>15, <1>16, <1>17 DEF EpochTypes
<1>19. ASSUME NEW q \in Members, NEW i \in DOMAIN wraps'[r][q]
       PROVE  \/ i \in DOMAIN wraps[r][q] /\ wraps'[r][q][i] = wraps[r][q][i]
              \/ /\ q # r /\ wraps'[r][q][i] = m
                 /\ \A j \in DOMAIN wraps'[r][q] : ~(i < j)
  <2>1. wraps[r][q] \in Seq(EpochMessages)
    BY SMT, Z3, <1>1 DEF EpochTypes
  <2>2. CASE wraps'[r][q] = wraps[r][q]
    BY <2>2
  <2>3. CASE q # r /\ wraps'[r][q] = Append(wraps[r][q], m)
    BY SMT, Z3, <2>1, <2>3
  <2> QED
    BY <1>17, <2>2, <2>3
<1>20. OnlyNewReach(r, drawn, held, wraps[r], held', wraps'[r])
  <2> SUFFICES ASSUME NEW x \in Secrets, NEW q \in Members,
                      Reaches(x, q, held', wraps'[r])
               PROVE  Reaches(x, q, held, wraps[r]) \/ x[2] = 0 \/ x = new
    BY <1>4 DEF OnlyNewReach
  <2>1. CASE x \in held'[q]
    BY SMT, Z3, <1>8, <1>16, <2>1 DEF Reaches
  <2>2. ASSUME NEW i \in DOMAIN wraps'[r][q], wraps'[r][q][i].secret = x,
               q \in wraps'[r][q][i].wrapped
        PROVE  Reaches(x, q, held, wraps[r]) \/ x = new
    BY <1>13, <1>19, <2>2 DEF Reaches
  <2> QED
    BY <2>1, <2>2 DEF Reaches
<1>21. \A x \in Secrets : \A out \in SUBSET Members :
         Shut(r, x, out, drawn, held, wraps[r])
           => Shut(r, x, out, drawn + 1, held', wraps'[r])
  <2>1. drawn + 1 \in Nat /\ drawn <= drawn + 1
    BY SMT, Z3
  <2> QED
    BY <1>20, <2>1, ShutKept
<1>22. Shut(r, new, changes.removed, drawn + 1, held', wraps'[r])
  <2>1. \A q \in Members : \A x \in held[q] : x[1] = r => x[2] <= drawn
    BY <1>3 DEF EpochInv
  <2>2. \A q \in Members : \A i \in DOMAIN wraps[r][q] :
          wraps[r][q][i].secret[1] = r => wraps[r][q][i].secret[2] <= drawn
    BY <1>3 DEF EpochInv, WrapsShut, QueueShut, Shut
  <2>3. \A q \in Members : \A i \in DOMAIN wraps'[r][q] :
          \/ i \in DOMAIN wraps[r][q] /\ wraps'[r][q][i] = wraps[r][q][i]
          \/ wraps'[r][q][i].wrapped = keys \cap members
    BY <1>13, <1>19
  <2>4. ASSUME NEW q \in changes.removed, Reaches(new, q, held', wraps'[r])
        PROVE  FALSE
    <3>1. q \in Members \ {r} /\ q \notin keys \cap members
      BY <1>11
    <3>2. new \notin held'[q]
      BY SMT, Z3, <1>9, <1>16, <2>1, <3>1
    <3>3. PICK i \in DOMAIN wraps'[r][q] : /\ wraps'[r][q][i].secret = new
                                           /\ q \in wraps'[r][q][i].wrapped
      BY <2>4, <3>2 DEF Reaches
    <3>4. i \in DOMAIN wraps[r][q] /\ wraps[r][q][i].secret = new
      BY <2>3, <3>1, <3>3
    <3>5. drawn + 1 <= drawn
      BY SMT, Z3, <1>9, <2>2, <3>1, <3>4
    <3> QED
      BY SMT, Z3, <3>5
  <2> QED
    BY SMT, Z3, <1>9, <2>4 DEF Shut
<1>23. RotatorInv(r)'
  BY <1>10, <1>12, <1>14, <1>15 DEF RotatorInv
<1>24. \A q \in Members : \A x \in held'[q] : x[1] = r => x[2] <= drawn + 1
  <2>1. \A q \in Members : \A x \in held[q] :
          x \in Secrets /\ (x[1] = r => x[2] <= drawn)
    BY <1>1, <1>3 DEF EpochInv, EpochTypes
  <2>2. \A x \in Secrets : x[2] \in Nat
    BY DEF Secrets
  <2> QED
    BY SMT, Z3, <1>8, <1>9, <1>16, <2>1, <2>2
<1>25. ASSUME NEW q \in Members
       PROVE  SessionShut(r, q)'
  <2>1. CASE q = r
    <3>1. Shut(r, next.secret, next.out, drawn + 1, held', wraps'[r])
      BY <1>10, <1>12, <1>22, ShutFewer
    <3>2. next.out \subseteq Settled(changes) /\ next.secret \in held'[r]
      BY <1>10, <1>12, <1>16 DEF Settled
    <3> QED
      BY <1>14, <1>15, <2>1, <3>1, <3>2 DEF SessionShut
  <2>2. CASE q # r
    <3>1. SessionShut(r, q) /\ groupSession[q] \in EpochSessions \cup {NoEpoch}
      BY <1>1 DEF EpochInv, EpochTypes
    <3>2. groupSession[q] # NoEpoch =>
            groupSession[q].secret \in Secrets /\ groupSession[q].out \in SUBSET Members
      BY <3>1 DEF EpochSessions
    <3>3. groupSession[q] # NoEpoch =>
            /\ Shut(r, groupSession[q].secret, groupSession[q].out, drawn + 1,
                    held', wraps'[r])
            /\ groupSession[q].secret \in held'[q]
            /\ groupSession[q].out \subseteq Settled(changes)
      BY <1>3, <1>16, <1>21, <2>2, <3>1, <3>2 DEF SessionShut
    <3> QED
      BY <1>14, <1>15, <2>2, <3>3 DEF SessionShut
  <2> QED
    BY <2>1, <2>2
<1>26. ASSUME NEW q \in Members, NEW i \in DOMAIN wraps[r][q]
       PROVE  /\ Shut(r, wraps[r][q][i].secret, wraps[r][q][i].changes.removed,
                      drawn + 1, held', wraps'[r])
              /\ Settled(wraps[r][q][i].changes) \subseteq Settled(changes)
  <2>1. /\ wraps[r][q][i].secret \in Secrets
        /\ wraps[r][q][i].changes.removed \in SUBSET Members
    BY <1>1, WrapTyped
  <2>2. /\ Shut(r, wraps[r][q][i].secret, wraps[r][q][i].changes.removed,
                drawn, held, wraps[r])
        /\ Settled(wraps[r][q][i].changes) \subseteq Settled(changed[r])
    BY <1>3 DEF EpochInv, WrapsShut, QueueShut
  <2> QED
    BY <1>21, <2>1, <2>2
<1>27. ASSUME NEW q \in Members
       PROVE  WrapsShut(r, q)'
  <2>1. WrapsShut(r, q) /\ SessionShut(r, q)
    BY DEF EpochInv
  <2>2. q = r => wraps'[r][q] = <<>>
    BY <1>17 DEF EpochInv
  <2>3. PICK queued : queued = wraps'[r][q]
    BY SMT, Z3
  <2>4. PICK own : own = groupSession'[q]
    BY SMT, Z3
  <2>5. ASSUME NEW i \in DOMAIN queued
        PROVE  q # r /\ own = groupSession[q]
    BY SMT, Z3, <1>15, <2>2, <2>3, <2>4, <2>5
  <2>6. ASSUME NEW i \in DOMAIN queued
        PROVE  /\ Shut(r, queued[i].secret, queued[i].changes.removed,
                       drawn + 1, held', wraps'[r])
               /\ Settled(queued[i].changes) \subseteq Settled(changes)
               /\ own # NoEpoch => own.out \subseteq Settled(queued[i].changes)
    <3>1. CASE i \in DOMAIN wraps[r][q] /\ queued[i] = wraps[r][q][i]
      <4>1. own # NoEpoch => own.out \subseteq Settled(queued[i].changes)
        BY <2>1, <2>5, <3>1 DEF WrapsShut, QueueShut
      <4> QED
        BY <1>26, <3>1, <4>1
    <3>2. CASE queued[i] = m
      <4>1. own # NoEpoch => own.out \subseteq Settled(changes)
        BY <2>1, <2>5 DEF SessionShut
      <4> QED
        BY <1>13, <1>22, <3>2, <4>1
    <3> QED
      BY <1>19, <2>3, <3>1, <3>2
  <2>7. ASSUME NEW i \in DOMAIN queued, NEW j \in DOMAIN queued, i < j
        PROVE  Settled(queued[i].changes) \subseteq Settled(queued[j].changes)
    <3>1. i \in DOMAIN wraps[r][q] /\ queued[i] = wraps[r][q][i]
      BY <1>19, <2>3, <2>7
    <3>2. CASE j \in DOMAIN wraps[r][q] /\ queued[j] = wraps[r][q][j]
      BY <2>1, <2>7, <3>1, <3>2 DEF WrapsShut, QueueShut
    <3>3. CASE queued[j] = m
      BY <1>13, <1>26, <3>1, <3>3
    <3> QED
      BY <1>19, <2>3, <3>2, <3>3
  <2>8. QueueShut(r, queued, own, Settled(changes), drawn + 1, held', wraps'[r])
    BY <2>6, <2>7 DEF QueueShut
  <2> QED
    BY <1>14, <2>3, <2>4, <2>8 DEF WrapsShut
<1>28. ASSUME NEW text \in texts
       PROVE  Shut(r, text.secret, text.out, drawn + 1, held', wraps'[r])
  <2>1. text \in GroupTexts
    BY <1>1 DEF EpochTypes
  <2>2. text.secret \in Secrets /\ text.out \in SUBSET Members
    BY <2>1 DEF GroupTexts
  <2> QED
    BY <1>3, <1>21, <2>2 DEF EpochInv
<1>29. \A x, y \in Members : x # r \/ y = r => wraps'[x][y] = <<>>
  <2>1. \A x, y \in Members : x # r \/ y = r => wraps[x][y] = <<>>
    BY DEF EpochInv
  <2> QED
    BY <1>17, <2>1
<1>. QED
  BY <1>7, <1>14, <1>18, <1>23, <1>24, <1>25, <1>27, <1>28, <1>29 DEF EpochInv


\* Every step of the group keeps the invariant, if r alone adds and removes.
LEMMA NextEpochInv ==
  ASSUME NEW r, Rotators = {r}
  PROVE  EpochInv(r) /\ [EpochNext]_epochVars => EpochInv(r)'
<1> SUFFICES ASSUME EpochInv(r), [EpochNext]_epochVars
             PROVE  EpochInv(r)'
  BY SMT, Z3
<1>0. r \in Members /\ EpochTypes /\ RotatorInv(r)
  BY MembersAssumption DEF EpochInv
<1>1. ASSUME NEW p \in Members, NEW named \in SUBSET Members, p \notin named,
             CreateGroup(p, named)
      PROVE  EpochInv(r)'
  <2>1. PICK s : s = InitGroupSession(p)
    BY SMT, Z3
  <2>2. s \in EpochSessions /\ SessionOf(p) = s /\ s.secret = <<p, 0>>
    BY <1>1, <2>1 DEF CreateGroup, SessionOf, InitGroupSession, EpochSessions,
         Secrets
  <2>3. membership' \in [Members -> SUBSET Members]
    BY <1>0, <1>1 DEF CreateGroup, EpochTypes
  <2>4. membership'[r] \cap changed[r].removed = {}
    BY <1>0, <1>1 DEF CreateGroup, EpochTypes, RotatorInv
  <2>5. /\ groupSession' = [groupSession EXCEPT ![p] = s]
        /\ held' = [held EXCEPT ![p] = @ \cup {s.secret}]
        /\ UNCHANGED <<reachable, wraps, rotations, changed>>
        /\ texts' \subseteq texts \cup {[secret |-> s.secret, out |-> s.out]}
    BY <1>1, <2>1, <2>2 DEF CreateGroup
  <2> QED
    BY <1>0, <2>2, <2>3, <2>4, <2>5, MemberKeeps
<1>2. ASSUME NEW p \in Members, NEW q \in Members, RegisterMemberDh(p, q)
      PROVE  EpochInv(r)'
  <2>1. PICK s : s = [groupSession[p] EXCEPT !.memberDh = @ \cup {q}]
    OBVIOUS
  <2>2. groupSession[p] \in EpochSessions /\ SessionOf(p) = groupSession[p]
    BY <1>0, <1>2 DEF RegisterMemberDh, EpochTypes, SessionOf
  <2>3. /\ s \in EpochSessions /\ s.secret = SessionOf(p).secret
        /\ s.out = SessionOf(p).out
    BY <2>1, <2>2 DEF EpochSessions
  <2>4. s.secret \in held[p]
    BY <1>2, <2>2, <2>3 DEF EpochInv, SessionShut, RegisterMemberDh
  <2>5. held' = [held EXCEPT ![p] = @ \cup {s.secret}]
    BY <1>0, <1>2, <2>4 DEF RegisterMemberDh, EpochTypes
  <2>6. /\ groupSession' = [groupSession EXCEPT ![p] = s]
        /\ UNCHANGED <<membership, reachable, wraps, rotations, changed, texts>>
    BY <1>2, <2>1 DEF RegisterMemberDh
  <2>7. /\ membership' \in [Members -> SUBSET Members]
        /\ membership'[r] \cap changed[r].removed = {}
        /\ texts' \subseteq texts \cup {[secret |-> s.secret, out |-> s.out]}
        /\ UNCHANGED <<reachable, wraps, rotations, changed>>
    BY <1>0, <2>6 DEF EpochTypes, RotatorInv
  <2> QED
    BY <1>0, <2>3, <2>5, <2>6, <2>7, MemberKeeps
<1>3. ASSUME NEW p \in Members, SendGroupMessage(p)
      PROVE  EpochInv(r)'
  <2>1. PICK s : s = SessionOf(p)
    BY SMT, Z3
  <2>2. s \in EpochSessions
    BY <1>0, <2>1, SessionWorks
  <2>3. /\ groupSession' = [groupSession EXCEPT ![p] = s]
        /\ held' = [held EXCEPT ![p] = @ \cup {s.secret}]
        /\ texts' \subseteq texts \cup {[secret |-> s.secret, out |-> s.out]}
        /\ UNCHANGED <<membership, reachable, wraps, rotations, changed>>
    BY <1>3, <2>1 DEF SendGroupMessage
  <2>4. /\ membership' \in [Members -> SUBSET Members]
        /\ membership'[r] \cap changed[r].removed = {}
        /\ UNCHANGED <<reachable, wraps, rotations, changed>>
    BY <1>0, <2>3 DEF EpochTypes, RotatorInv
  <2> QED
    BY <1>0, <2>1, <2>2, <2>3, <2>4, MemberKeeps
<1>4. ASSUME NEW p \in Members, Switch(p)
      PROVE  EpochInv(r)'
  <2>1. reachable' \in [Members -> BOOLEAN]
    BY <1>0, <1>4 DEF Switch, EpochTypes
  <2> QED
    BY <1>4, <2>1 DEF Switch, EpochInv, EpochTypes, RotatorInv, SessionShut,
         WrapsShut
<1>5. ASSUME NEW p \in Members, NEW q \in Members, NEW given \in BOOLEAN,
             AddMember(p, q, given)
      PROVE  EpochInv(r)'
  <2>1. p = r /\ q # r
    BY <1>5 DEF AddMember
  <2>2. PICK keys : keys = SessionOf(r).memberDh \cup {k \in {q} : given}
    OBVIOUS
  <2>3. PICK changes : changes = Added(r, q)
    BY SMT, Z3
  <2>4. changed[r] \in Changes /\ membership[r] \in SUBSET Members
    BY <1>0 DEF EpochTypes
  <2>5. changes \in Changes /\ changes.added = changed[r].added \cup {q}
        /\ changes.removed = changed[r].removed \ {q}
    BY <2>3, <2>4 DEF Added, Changes
  <2>6. keys \in SUBSET Members
    BY <1>0, <2>2, SessionWorks DEF EpochSessions
  <2>7. Settled(changed[r]) \subseteq Settled(changes)
    BY <2>5 DEF Settled
  <2>8. (membership[r] \cup {q}) \cap changes.removed = {} /\ r \notin changes.removed
    BY <1>0, <2>5 DEF RotatorInv
  <2>9. Rotate(r, keys, membership[r] \cup {q}, changes)
    BY <1>5, <2>1, <2>2, <2>3 DEF AddMember
  <2>10. PICK members : members = membership[r] \cup {q}
    OBVIOUS
  <2> QED
    BY <1>0, <2>4, <2>5, <2>6, <2>7, <2>8, <2>9, <2>10, RotateKeeps
<1>6. ASSUME NEW p \in Members, NEW q \in Members, RemoveMember(p, q)
      PROVE  EpochInv(r)'
  <2>1. p = r /\ q # r
    BY <1>6 DEF RemoveMember
  <2>2. PICK keys : keys = SessionOf(r).memberDh \ {q}
    OBVIOUS
  <2>3. PICK changes : changes = Removed(r, q)
    BY SMT, Z3
  <2>4. changed[r] \in Changes /\ membership[r] \in SUBSET Members
    BY <1>0 DEF EpochTypes
  <2>5. changes \in Changes /\ changes.added = changed[r].added \ {q}
        /\ changes.removed = changed[r].removed \cup {q}
    BY <2>3, <2>4 DEF Removed, Changes
  <2>6. keys \in SUBSET Members
    BY <1>0, <2>2, SessionWorks DEF EpochSessions
  <2>7. Settled(changed[r]) \subseteq Settled(changes)
    BY <2>5 DEF Settled
  <2>8. (membership[r] \ {q}) \cap changes.removed = {} /\ r \notin changes.removed
    BY <1>0, <2>1, <2>5 DEF RotatorInv
  <2>9. Rotate(r, keys, membership[r] \ {q}, changes)
    BY <1>6, <2>1, <2>2, <2>3 DEF RemoveMember
  <2>10. PICK members : members = membership[r] \ {q}
    OBVIOUS
  <2> QED
    BY <1>0, <2>4, <2>5, <2>6, <2>7, <2>8, <2>9, <2>10, RotateKeeps
<1>7. CASE UNCHANGED epochVars
  BY <1>7 DEF epochVars, EpochInv, EpochTypes, RotatorInv, SessionShut,
       WrapsShut
<1> QED
  BY <1>0, <1>1, <1>2, <1>3, <1>4, <1>5, <1>6, <1>7, ApplyKeeps DEF EpochNext

\* "Removed members lack next epoch secret": in a group of any size in which one
\* member adds and removes, nobody is reached by a secret that a message is sent
\* under by somebody who knows them to be out (removeMember, rotateEpoch,
\* applyEpochWrap), whatever rotations are missed and whoever returns.
THEOREM ShutOutStayOut ==
  ASSUME NEW r, Rotators = {r}
  PROVE  EpochSpec => []ShutOutCannotRead
<1>1. EpochInit => EpochInv(r)
  <2> SUFFICES ASSUME EpochInit
               PROVE  EpochInv(r)
    BY SMT, Z3
  <2>1. r \in Members
    BY MembersAssumption
  <2>2. EpochTypes
    BY SMT, Z3 DEF EpochInit, EpochTypes, Changes
  <2>3. RotatorInv(r)
    BY <2>1 DEF EpochInit, RotatorInv
  <2>4. \A p \in Members : SessionShut(r, p) /\ WrapsShut(r, p)
    BY SMT, Z3, <2>1 DEF EpochInit, SessionShut, WrapsShut, QueueShut
  <2> QED
    BY <2>1, <2>2, <2>3, <2>4 DEF EpochInit, EpochInv
<1>2. EpochInv(r) => ShutOutCannotRead
  <2> SUFFICES ASSUME EpochInv(r), NEW text \in texts, NEW q \in text.out
               PROVE  text.secret \notin held[q]
    BY DEF ShutOutCannotRead
  <2> QED
    BY DEF EpochInv, Shut, Reaches
<1>3. EpochInv(r) /\ [EpochNext]_epochVars => EpochInv(r)'
  BY NextEpochInv
<1> QED
  BY <1>1, <1>2, <1>3, PTL DEF EpochSpec


----------------------------------------------------------------------------
(* An MLS group whose clients do one operation at a time.                   *)

CommitRecords == [parent : Nat, action : {"add", "remove"}, member : Clients,
                  tree : SUBSET Clients]
MessageRecords == [sender : Clients, epoch : Nat, generation : Nat,
                   barred : SUBSET Clients]
Frames == [type : {"membership", "message"}, n : Nat]
StateFields == {"epoch", "active", "next", "kept"}

\* The members of an epoch, with the commits made so far.
TreeIn(made, epoch) == IF epoch = 0 THEN {Creator} ELSE made[epoch].tree

\* A client has the keys only of epochs whose tree it was in.
StateOk(c, state, made) ==
  /\ DOMAIN state = StateFields
  /\ state.epoch \in 0..Len(made) /\ state.next \in Nat
  /\ state.active => c \in TreeIn(made, state.epoch)
  /\ \A e \in state.kept : e \in 0..Len(made) /\ c \in TreeIn(made, e)

\* An operation holds the state that its client's session has.
TaskOk(c, task, own, made, written) ==
  /\ task.op \in {"change", "send", "join", "commit", "decrypt"}
  /\ task.op # "join" =>
       task.base = own.state /\ StateOk(c, task.base, made)
  /\ task.op = "change" =>
       /\ c = Creator /\ task.member \in Clients \ {Creator}
       /\ task.action \in {"add", "remove"}
  /\ task.op = "send" =>
       /\ task.id = own.id /\ task.barred \in SUBSET Clients
       /\ task.barred \cap TreeIn(made, task.base.epoch) = {}
  /\ task.op = "join" =>
       /\ c # Creator /\ task.commit \in DOMAIN made
       /\ c \in made[task.commit].tree
  /\ task.op = "commit" =>
       c # Creator /\ task.id = own.id /\ task.commit \in DOMAIN made
  /\ task.op = "decrypt" => task.n \in DOMAIN written

\* A frame brings what was sent; the creator is sent no commits.
FrameOk(c, frame, made, written) ==
  /\ frame.type = "membership" => c # Creator /\ frame.n \in DOMAIN made
  /\ frame.type = "message" => frame.n \in DOMAIN written

ChainOk(made) ==
  \A k \in DOMAIN made :
    /\ made[k].parent = k - 1 /\ Creator \in made[k].tree
    /\ made[k].action = "add" => made[k].member \in made[k].tree

MessageOk(m, made) ==
  m.epoch \in 0..Len(made) /\ m.barred \cap TreeIn(made, m.epoch) = {}

ClientOk(c, own, work, queued, seen, made, written) ==
  /\ own # NoGroup => StateOk(c, own.state, made)
  /\ \A t, u \in work : t = u
  /\ \A t \in work : TaskOk(c, t, own, made, written)
  /\ \A i \in DOMAIN queued : FrameOk(c, queued[i], made, written)
  /\ \A n \in seen : n \in DOMAIN written /\ c \notin written[n].barred

MlsTypes ==
  /\ commits \in Seq(CommitRecords) /\ messages \in Seq(MessageRecords)
  /\ DOMAIN session = Clients /\ DOMAIN tasks = Clients
  /\ queue \in [Clients -> Seq(Frames)]
  /\ shown \in [Clients -> SUBSET Nat]
  /\ removed \in SUBSET (Clients \ {Creator})

\* The creator is where the commits are.
CreatorOk(own, made) ==
  own.id = 0 /\ own.state.epoch = Len(made) /\ StateOk(Creator, own.state, made)

MlsInv ==
  /\ MlsTypes
  /\ ChainOk(commits)
  /\ CreatorOk(session[Creator], commits)
  /\ removed \cap TreeIn(commits, Len(commits)) = {}
  /\ \A n \in DOMAIN messages : MessageOk(messages[n], commits)
  /\ \A c \in Clients :
       ClientOk(c, session[c], tasks[c], queue[c], shown[c], commits, messages)


\* A commit adds an epoch and changes none.
LEMMA TreeGrows ==
  ASSUME NEW made \in Seq(CommitRecords), NEW k \in CommitRecords,
         NEW e \in 0..Len(made)
  PROVE  TreeIn(Append(made, k), e) = TreeIn(made, e)
BY SMT, Z3 DEF TreeIn

\* A state that stands on the commits stands on them when one is added.
LEMMA StateGrows ==
  ASSUME NEW made \in Seq(CommitRecords), NEW k \in CommitRecords,
         NEW c, NEW state, StateOk(c, state, made)
  PROVE  StateOk(c, state, Append(made, k))
<1>1. Len(Append(made, k)) = Len(made) + 1 /\ Len(made) \in Nat
  BY SMT, Z3
<1>2. \A e \in 0..Len(made) : /\ e \in 0..Len(Append(made, k))
                              /\ TreeIn(Append(made, k), e) = TreeIn(made, e)
  BY SMT, Z3, <1>1, TreeGrows
<1> QED
  BY <1>2 DEF StateOk

\* A list that grows at its end keeps what it has.
LEMMA ListGrows ==
  ASSUME NEW S, NEW seq \in Seq(S), NEW seq2,
         seq2 = seq \/ \E x \in S : seq2 = Append(seq, x)
  PROVE  \A i \in DOMAIN seq : i \in DOMAIN seq2 /\ seq2[i] = seq[i]
<1>1. ASSUME NEW x \in S, seq2 = Append(seq, x)
      PROVE  \A i \in DOMAIN seq : i \in DOMAIN seq2 /\ seq2[i] = seq[i]
  BY SMT, Z3, <1>1
<1> QED
  BY <1>1

\* What a client has stays right when a commit is made or a message is sent, and
\* the frame of it comes.
LEMMA ClientGrows ==
  ASSUME NEW made \in Seq(CommitRecords), NEW made2,
         made2 = made \/ \E k \in CommitRecords : made2 = Append(made, k),
         NEW written \in Seq(MessageRecords), NEW written2,
         written2 = written \/ \E m \in MessageRecords : written2 = Append(written, m),
         NEW c, NEW own, NEW work, NEW queued \in Seq(Frames), NEW seen, NEW queued2,
         \/ queued2 = queued
         \/ \E frame \in Frames : /\ queued2 = Append(queued, frame)
                                  /\ FrameOk(c, frame, made2, written2),
         ClientOk(c, own, work, queued, seen, made, written)
  PROVE  ClientOk(c, own, work, queued2, seen, made2, written2)
<1>1. \A state : StateOk(c, state, made) => StateOk(c, state, made2)
  BY StateGrows
<1>2. /\ \A k \in DOMAIN made : k \in DOMAIN made2 /\ made2[k] = made[k]
      /\ \A n \in DOMAIN written : n \in DOMAIN written2 /\ written2[n] = written[n]
  BY ListGrows
<1>3. \A e \in 0..Len(made) : TreeIn(made2, e) = TreeIn(made, e)
  BY TreeGrows
<1>4. ASSUME NEW t \in work
      PROVE  TaskOk(c, t, own, made2, written2)
  <2>1. TaskOk(c, t, own, made, written)
    BY DEF ClientOk
  <2>2. t.op # "join" => /\ StateOk(c, t.base, made2)
                         /\ TreeIn(made2, t.base.epoch) = TreeIn(made, t.base.epoch)
    BY <1>1, <1>3, <2>1 DEF TaskOk, StateOk
  <2> QED
    BY <1>2, <2>1, <2>2 DEF TaskOk
<1>5. ASSUME NEW i \in DOMAIN queued2
      PROVE  FrameOk(c, queued2[i], made2, written2)
  <2>1. ASSUME i \in DOMAIN queued, queued2[i] = queued[i]
        PROVE  FrameOk(c, queued2[i], made2, written2)
    BY <1>2, <2>1 DEF ClientOk, FrameOk
  <2>2. CASE queued2 = queued
    BY <2>1, <2>2
  <2>3. ASSUME NEW frame \in Frames, queued2 = Append(queued, frame),
               FrameOk(c, frame, made2, written2)
        PROVE  FrameOk(c, queued2[i], made2, written2)
    <3>1. \/ i \in DOMAIN queued /\ queued2[i] = queued[i]
          \/ queued2[i] = frame
      BY SMT, Z3, <2>3
    <3> QED
      BY <2>1, <2>3, <3>1
  <2> QED
    BY <2>2, <2>3
<1>6. \A n \in seen : n \in DOMAIN written2 /\ c \notin written2[n].barred
  BY <1>2 DEF ClientOk
<1> QED
  BY <1>1, <1>4, <1>5, <1>6 DEF ClientOk


\* The step of one client that makes no commit and no message.
ClientBecomes(c, own, work, queued, seen) ==
  /\ DOMAIN session' = Clients /\ DOMAIN tasks' = Clients
  /\ queue' \in [Clients -> Seq(Frames)] /\ shown' \in [Clients -> SUBSET Nat]
  /\ session'[c] = own /\ tasks'[c] = work /\ queue'[c] = queued /\ shown'[c] = seen
  /\ \A d \in Clients \ {c} :
       /\ session'[d] = session[d] /\ tasks'[d] = tasks[d]
       /\ queue'[d] = queue[d] /\ shown'[d] = shown[d]
  /\ UNCHANGED <<commits, messages, removed>>

\* Such a step keeps the invariant if the client is left as it wants.
LEMMA ClientStep ==
  ASSUME MlsInv, NEW c \in Clients, NEW own, NEW work, NEW queued, NEW seen,
         ClientBecomes(c, own, work, queued, seen),
         ClientOk(c, own, work, queued, seen, commits, messages),
         c = Creator => CreatorOk(own, commits)
  PROVE  MlsInv'
<1>1. MlsTypes'
  BY DEF MlsInv, MlsTypes, ClientBecomes
<1>2. CreatorOk(session'[Creator], commits)
  <2>1. CASE c = Creator
    BY <2>1 DEF ClientBecomes
  <2>2. CASE c # Creator
    BY <2>2, MlsAssumption DEF MlsInv, ClientBecomes
  <2> QED
    BY <2>1, <2>2
<1>3. ASSUME NEW d \in Clients
      PROVE  ClientOk(d, session'[d], tasks'[d], queue'[d], shown'[d], commits, messages)
  <2>1. CASE d = c
    BY <2>1 DEF ClientBecomes
  <2>2. CASE d # c
    BY <2>2 DEF MlsInv, ClientBecomes
  <2> QED
    BY <2>1, <2>2
<1>4. UNCHANGED <<commits, messages, removed>>
  BY DEF ClientBecomes
<1> QED
  BY <1>1, <1>2, <1>3, <1>4 DEF MlsInv

\* The pieces of the invariant, for one client.
LEMMA MlsParts ==
  ASSUME MlsInv, NEW c \in Clients
  PROVE  /\ ClientOk(c, session[c], tasks[c], queue[c], shown[c], commits, messages)
         /\ commits \in Seq(CommitRecords) /\ messages \in Seq(MessageRecords)
         /\ DOMAIN session = Clients /\ DOMAIN tasks = Clients
         /\ queue \in [Clients -> Seq(Frames)] /\ queue[c] \in Seq(Frames)
         /\ shown \in [Clients -> SUBSET Nat] /\ shown[c] \in SUBSET Nat
         /\ removed \in SUBSET (Clients \ {Creator})
         /\ ChainOk(commits) /\ CreatorOk(session[Creator], commits)
BY DEF MlsInv, MlsTypes

\* An operation that starts, with the state of its client's session.
LEMMA StartKeeps ==
  ASSUME MlsInv, NEW c \in Clients, NEW task, tasks[c] = {},
         TaskOk(c, task, session[c], commits, messages), Start(c, task),
         NEW queued \in Seq(Frames), queue' = [queue EXCEPT ![c] = queued],
         \A i \in DOMAIN queued : FrameOk(c, queued[i], commits, messages),
         UNCHANGED <<commits, messages, session, shown, removed>>
  PROVE  MlsInv'
<1>1. ClientOk(c, session[c], {task}, queued, shown[c], commits, messages)
  BY MlsParts DEF ClientOk
<1>2. tasks' = [tasks EXCEPT ![c] = {task}]
  BY DEF Start
<1>3. ClientBecomes(c, session[c], {task}, queued, shown[c])
  BY <1>2, MlsParts DEF ClientBecomes
<1> QED
  BY <1>1, <1>3, ClientStep, MlsParts


\* addMember and removeMember, sendGroupMessage, up to their await.
LEMMA RequestKeeps ==
  ASSUME MlsInv, ~Overlaps
  PROVE  /\ \A action \in {"add", "remove"} : \A member \in Clients :
              StartChange(action, member) => MlsInv'
         /\ \A c \in Clients : StartSend(c) => MlsInv'
<1>1. ASSUME NEW c \in Clients, UNCHANGED queue
      PROVE  /\ queue[c] \in Seq(Frames) /\ queue' = [queue EXCEPT ![c] = queue[c]]
             /\ \A i \in DOMAIN queue[c] : FrameOk(c, queue[c][i], commits, messages)
  BY <1>1, MlsParts DEF ClientOk
<1>2. Creator \in Clients
  BY MlsAssumption
<1>3. CreatorOk(session[Creator], commits)
  BY DEF MlsInv
<1>4. ASSUME NEW action \in {"add", "remove"}, NEW member \in Clients,
             StartChange(action, member)
      PROVE  MlsInv'
  <2>1. PICK task : task = [op |-> "change", base |-> session[Creator].state,
                            action |-> action, member |-> member]
    OBVIOUS
  <2>2. /\ tasks[Creator] = {} /\ member \in Clients \ {Creator}
        /\ Start(Creator, task)
        /\ UNCHANGED <<commits, messages, session, queue, shown, removed>>
    BY <1>4, <2>1 DEF StartChange, MayStart, Others
  <2>3. TaskOk(Creator, task, session[Creator], commits, messages)
    BY <1>3, <2>1, <2>2 DEF TaskOk, CreatorOk
  <2> QED
    BY <1>1, <1>2, <2>2, <2>3, StartKeeps
<1>5. ASSUME NEW c \in Clients, StartSend(c)
      PROVE  MlsInv'
  <2>1. PICK barred : barred = IF c = Creator THEN removed ELSE {}
    OBVIOUS
  <2>2. PICK task : task = [op |-> "send", id |-> session[c].id,
                            base |-> session[c].state, barred |-> barred]
    OBVIOUS
  <2>3. /\ tasks[c] = {} /\ session[c] # NoGroup /\ Start(c, task)
        /\ UNCHANGED <<commits, messages, session, queue, shown, removed>>
    BY <1>5, <2>1, <2>2 DEF StartSend, MayStart
  <2>4. StateOk(c, session[c].state, commits)
    BY <2>3, MlsParts DEF ClientOk
  <2>5. barred \in SUBSET Clients
    BY <2>1, MlsParts
  <2>6. barred \cap TreeIn(commits, session[c].state.epoch) = {}
    BY <1>3, <2>1 DEF MlsInv, CreatorOk
  <2>7. TaskOk(c, task, session[c], commits, messages)
    BY <2>2, <2>4, <2>5, <2>6 DEF TaskOk
  <2> QED
    BY <1>1, <2>3, <2>7, StartKeeps
<1> QED
  BY <1>4, <1>5

\* onGroupMessage, up to its await.
LEMMA FrameKeeps ==
  ASSUME MlsInv, ~Overlaps, NEW c \in Clients, OnMembership(c) \/ OnMessage(c)
  PROVE  MlsInv'
<1>1. PICK frame : frame = Head(queue[c])
  BY SMT, Z3
<1>2. /\ tasks[c] = {} /\ queue[c] # <<>> /\ queue' = [queue EXCEPT ![c] = Tail(queue[c])]
      /\ UNCHANGED <<commits, messages, session, shown, removed>>
  BY DEF OnMembership, OnMessage, Frame, MayStart
<1>3. queue[c] \in Seq(Frames)
      /\ \A i \in DOMAIN queue[c] : FrameOk(c, queue[c][i], commits, messages)
  BY MlsParts DEF ClientOk
<1>4. PICK queued : queued = Tail(queue[c])
  OBVIOUS
<1>5. queued \in Seq(Frames)
      /\ \A i \in DOMAIN queued : FrameOk(c, queued[i], commits, messages)
  BY SMT, Z3, <1>2, <1>3, <1>4, TailShifts
<1>6. FrameOk(c, frame, commits, messages)
  <2>1. 1 \in DOMAIN queue[c] /\ frame = queue[c][1]
    BY SMT, Z3, <1>1, <1>2, <1>3
  <2> QED
    BY <1>3, <2>1
<1>7. ASSUME UNCHANGED tasks
      PROVE  MlsInv'
  <2>1. ClientOk(c, session[c], tasks[c], queued, shown[c], commits, messages)
    BY <1>5, MlsParts DEF ClientOk
  <2>2. ClientBecomes(c, session[c], tasks[c], queued, shown[c])
    BY <1>2, <1>4, <1>5, <1>7, MlsParts DEF ClientBecomes
  <2> QED
    BY <2>1, <2>2, ClientStep, MlsParts
<1>8. ASSUME NEW task, Start(c, task),
             TaskOk(c, task, session[c], commits, messages)
      PROVE  MlsInv'
  BY <1>2, <1>4, <1>5, <1>8, StartKeeps
<1>9. session[c] # NoGroup => StateOk(c, session[c].state, commits)
  BY MlsParts DEF ClientOk
<1>10. CASE OnMembership(c)
  <2>1. c # Creator /\ frame.n \in DOMAIN commits
    BY <1>1, <1>6, <1>10 DEF OnMembership, Frame, FrameOk
  <2>2. CASE commits[frame.n].action = "add" /\ commits[frame.n].member = c
    <3>1. PICK task : task = [op |-> "join", commit |-> frame.n]
      OBVIOUS
    <3>2. Start(c, task)
      BY <1>1, <1>10, <2>2, <3>1 DEF OnMembership
    <3>3. c \in commits[frame.n].tree
      BY <2>1, <2>2, MlsParts DEF ChainOk
    <3>4. TaskOk(c, task, session[c], commits, messages)
      BY <2>1, <3>1, <3>3 DEF TaskOk
    <3> QED
      BY <1>8, <3>2, <3>4
  <2>3. CASE ~(commits[frame.n].action = "add" /\ commits[frame.n].member = c)
             /\ session[c] # NoGroup
    <3>1. PICK task : task = [op |-> "commit", commit |-> frame.n, id |-> session[c].id,
                              base |-> session[c].state]
      OBVIOUS
    <3>2. Start(c, task)
      BY <1>1, <1>10, <2>3, <3>1 DEF OnMembership
    <3>3. TaskOk(c, task, session[c], commits, messages)
      BY <1>9, <2>1, <2>3, <3>1 DEF TaskOk
    <3> QED
      BY <1>8, <3>2, <3>3
  <2>4. CASE ~(commits[frame.n].action = "add" /\ commits[frame.n].member = c)
             /\ session[c] = NoGroup
    BY <1>1, <1>7, <1>10, <2>4 DEF OnMembership
  <2> QED
    BY <2>2, <2>3, <2>4
<1>11. CASE OnMessage(c)
  <2>1. frame.n \in DOMAIN messages
    BY <1>1, <1>6, <1>11 DEF OnMessage, Frame, FrameOk
  <2>2. CASE session[c] = NoGroup \/ ~session[c].state.active
    BY <1>7, <1>11, <2>2 DEF OnMessage
  <2>3. CASE ~(session[c] = NoGroup \/ ~session[c].state.active)
    <3>1. PICK task : task = [op |-> "decrypt", n |-> frame.n, base |-> session[c].state]
      OBVIOUS
    <3>2. Start(c, task)
      BY <1>1, <1>11, <2>3, <3>1 DEF OnMessage
    <3>3. TaskOk(c, task, session[c], commits, messages)
      BY <1>9, <2>1, <2>3, <3>1 DEF TaskOk
    <3> QED
      BY <1>8, <3>2, <3>3
  <2> QED
    BY <2>2, <2>3
<1> QED
  BY <1>10, <1>11


\* The operation of a client that is under way is its only one.
LEMMA TaskParts ==
  ASSUME MlsInv, NEW c \in Clients, NEW task \in tasks[c], Done(c, task)
  PROVE  /\ TaskOk(c, task, session[c], commits, messages)
         /\ tasks[c] \ {task} = {} /\ DOMAIN tasks' = Clients /\ tasks'[c] = {}
         /\ \A d \in Clients \ {c} : tasks'[d] = tasks[d]
<1>1. TaskOk(c, task, session[c], commits, messages) /\ tasks[c] \ {task} = {}
  BY SMT, Z3, MlsParts DEF ClientOk
<1>2. tasks' = [tasks EXCEPT ![c] = {}]
  BY <1>1 DEF Done
<1> QED
  BY <1>1, <1>2, MlsParts

\* An operation writes the session it started with.
LEMMA SessionWritten ==
  ASSUME MlsInv, NEW c \in Clients, NEW id, NEW members, NEW state,
         id = session[c].id, SetSession(c, id, members, state)
  PROVE  /\ DOMAIN session' = Clients
         /\ session'[c] = [id |-> id, members |-> members, state |-> state]
         /\ \A d \in Clients \ {c} : session'[d] = session[d]
BY MlsParts DEF SetSession

\* The members after a commit.
LEMMA TreeOfCommit ==
  ASSUME NEW made \in Seq(CommitRecords), NEW k \in DOMAIN made
  PROVE  k \in 1..Len(made) /\ TreeIn(made, k) = made[k].tree
BY SMT, Z3 DEF TreeIn

\* A client that joins at a commit whose tree holds it has that epoch only.
LEMMA JoinedOk ==
  ASSUME NEW made \in Seq(CommitRecords), NEW c, NEW k \in 1..Len(made),
         c \in TreeIn(made, k)
  PROVE  StateOk(c, Joined(k), made)
BY SMT, Z3 DEF StateOk, StateFields, Joined

\* Where a commit leads, a client has the keys of the epochs it was in.
LEMMA NextEpochOk ==
  ASSUME NEW made \in Seq(CommitRecords), NEW c, NEW state, StateOk(c, state, made),
         c \in TreeIn(made, state.epoch), NEW k \in 1..Len(made), NEW active,
         active => c \in TreeIn(made, k)
  PROVE  /\ StateOk(c, NextEpoch(state, k, active), made)
         /\ NextEpoch(state, k, active).epoch = k
<1>1. PICK kept : kept = {e \in state.kept \union {state.epoch} : e + Retained >= k}
  OBVIOUS
<1>2. NextEpoch(state, k, active) = [epoch |-> k, active |-> active, next |-> 1, kept |-> kept]
  BY <1>1 DEF NextEpoch
<1>3. \A e \in kept : e \in 0..Len(made) /\ c \in TreeIn(made, e)
  BY <1>1 DEF StateOk
<1> QED
  BY SMT, Z3, <1>2, <1>3 DEF StateOk, StateFields

\* Joining, applying a commit and decrypting, after their await.
LEMMA ReceiveKeeps ==
  ASSUME MlsInv, NEW c \in Clients, NEW task \in tasks[c],
         FinishJoin(c, task) \/ FinishCommit(c, task) \/ FinishDecrypt(c, task)
  PROVE  MlsInv'
<1>1. Done(c, task) /\ UNCHANGED <<commits, messages, queue, removed>>
  BY DEF FinishJoin, FinishCommit, FinishDecrypt
<1>2. /\ TaskOk(c, task, session[c], commits, messages)
      /\ DOMAIN tasks' = Clients /\ tasks'[c] = {}
      /\ \A d \in Clients \ {c} : tasks'[d] = tasks[d]
  BY <1>1, TaskParts
<1>3. /\ commits \in Seq(CommitRecords) /\ messages \in Seq(MessageRecords)
      /\ ClientOk(c, session[c], tasks[c], queue[c], shown[c], commits, messages)
      /\ queue \in [Clients -> Seq(Frames)] /\ shown \in [Clients -> SUBSET Nat]
      /\ DOMAIN session = Clients
  BY MlsParts
<1>4. ASSUME NEW own, NEW seen \in SUBSET Nat, DOMAIN session' = Clients,
             session'[c] = own, \A d \in Clients \ {c} : session'[d] = session[d],
             shown' = [shown EXCEPT ![c] = seen],
             own # NoGroup => StateOk(c, own.state, commits),
             c = Creator => CreatorOk(own, commits),
             \A n \in seen : n \in DOMAIN messages /\ c \notin messages[n].barred
      PROVE  MlsInv'
  <2>1. ClientOk(c, own, {}, queue[c], seen, commits, messages)
    BY <1>3, <1>4 DEF ClientOk
  <2>2. ClientBecomes(c, own, {}, queue[c], seen)
    BY <1>1, <1>2, <1>3, <1>4 DEF ClientBecomes
  <2> QED
    BY <1>4, <2>1, <2>2, ClientStep
<1>5. /\ shown[c] \in SUBSET Nat
      /\ \A n \in shown[c] : n \in DOMAIN messages /\ c \notin messages[n].barred
      /\ session[c] # NoGroup => StateOk(c, session[c].state, commits)
      /\ c = Creator => CreatorOk(session[c], commits)
  BY <1>3, MlsParts DEF ClientOk
<1>6. ASSUME UNCHANGED session, UNCHANGED shown
      PROVE  MlsInv'
  <2>1. PICK own : own = session[c]
    BY SMT, Z3
  <2>2. /\ DOMAIN session' = Clients /\ session'[c] = own
        /\ \A d \in Clients \ {c} : session'[d] = session[d]
        /\ shown' = [shown EXCEPT ![c] = shown[c]]
    BY <1>3, <1>6, <2>1
  <2> QED
    BY <1>4, <1>5, <2>1, <2>2
<1>7. CASE FinishJoin(c, task)
  <2>1. PICK own : own = [id |-> task.commit, members |-> {c}, state |-> Joined(task.commit)]
    OBVIOUS
  <2>2. /\ DOMAIN session' = Clients /\ session'[c] = own
        /\ \A d \in Clients \ {c} : session'[d] = session[d]
        /\ shown' = [shown EXCEPT ![c] = shown[c]]
    BY <1>3, <1>7, <2>1 DEF FinishJoin
  <2>3. /\ c # Creator /\ task.commit \in 1..Len(commits)
        /\ c \in TreeIn(commits, task.commit)
    <3>1. /\ c # Creator /\ task.commit \in DOMAIN commits
          /\ c \in commits[task.commit].tree
      BY <1>2, <1>7 DEF TaskOk, FinishJoin
    <3> QED
      BY <1>3, <3>1, TreeOfCommit
  <2>4. StateOk(c, own.state, commits)
    <3>1. own.state = Joined(task.commit)
      BY <2>1
    <3> QED
      BY <1>3, <2>3, <3>1, JoinedOk
  <2> QED
    BY <1>4, <1>5, <2>2, <2>3, <2>4
<1>8. CASE FinishCommit(c, task)
  <2>1. CASE ~Follows(task.base, task.commit)
    BY <1>6, <1>8, <2>1 DEF FinishCommit
  <2>2. CASE Follows(task.base, task.commit)
    <3>1. PICK members, active :
            /\ active = (c \in commits[task.commit].tree)
            /\ SetSession(c, task.id, members, NextEpoch(task.base, task.commit, active))
      <4>1. PICK members :
              SetSession(c, task.id, members,
                         NextEpoch(task.base, task.commit, c \in commits[task.commit].tree))
        BY <1>8, <2>2 DEF FinishCommit
      <4>2. PICK active : active = (c \in commits[task.commit].tree)
        BY SMT, Z3
      <4> QED
        BY <4>1, <4>2
    <3>2. /\ c # Creator /\ task.id = session[c].id /\ task.commit \in 1..Len(commits)
          /\ StateOk(c, task.base, commits)
      <4>1. /\ c # Creator /\ task.id = session[c].id /\ task.commit \in DOMAIN commits
            /\ StateOk(c, task.base, commits)
        BY <1>2, <1>8 DEF TaskOk, FinishCommit
      <4> QED
        BY <1>3, <4>1, TreeOfCommit
    <3>3. c \in TreeIn(commits, task.base.epoch)
      BY <2>2, <3>2 DEF Follows, StateOk
    <3>4. active => c \in TreeIn(commits, task.commit)
      <4>1. task.commit \in DOMAIN commits
        BY <1>2, <1>8 DEF TaskOk, FinishCommit
      <4>2. TreeIn(commits, task.commit) = commits[task.commit].tree
        BY <1>3, <4>1, TreeOfCommit
      <4> QED
        BY <3>1, <4>2
    <3>5. StateOk(c, NextEpoch(task.base, task.commit, active), commits)
      BY <1>3, <3>2, <3>3, <3>4, NextEpochOk
    <3>6. PICK own : own = [id |-> task.id, members |-> members,
                            state |-> NextEpoch(task.base, task.commit, active)]
      OBVIOUS
    <3>7. /\ DOMAIN session' = Clients /\ session'[c] = own
          /\ \A d \in Clients \ {c} : session'[d] = session[d]
      <4>1. task.id = session[c].id
        BY <3>2
      <4>2. PICK state : state = NextEpoch(task.base, task.commit, active)
        BY SMT, Z3
      <4>3. SetSession(c, task.id, members, state)
        BY <3>1, <4>2
      <4>4. /\ DOMAIN session' = Clients
            /\ session'[c] = [id |-> task.id, members |-> members, state |-> state]
            /\ \A d \in Clients \ {c} : session'[d] = session[d]
        BY <4>1, <4>3, SessionWritten
      <4> QED
        BY <3>6, <4>2, <4>4
    <3>8. shown' = [shown EXCEPT ![c] = shown[c]]
      BY <1>3, <1>8 DEF FinishCommit
    <3>9. own.state = NextEpoch(task.base, task.commit, active)
      BY <3>6
    <3> QED
      BY <1>4, <1>5, <3>2, <3>5, <3>7, <3>8, <3>9
  <2> QED
    BY <2>1, <2>2
<1>9. CASE FinishDecrypt(c, task)
  <2>1. CASE ~Decrypts(task.base, messages[task.n])
    BY <1>6, <1>9, <2>1 DEF FinishDecrypt
  <2>2. CASE Decrypts(task.base, messages[task.n])
    <3>1. PICK own : own = [id |-> session[c].id, members |-> session[c].members,
                            state |-> task.base]
      OBVIOUS
    <3>2. /\ task.base = session[c].state /\ StateOk(c, task.base, commits)
          /\ task.n \in DOMAIN messages
      BY <1>2, <1>9 DEF TaskOk, FinishDecrypt
    <3>3. SetSession(c, session[c].id, session[c].members, task.base)
      BY <1>9, <2>2 DEF FinishDecrypt
    <3>4. /\ DOMAIN session' = Clients /\ session'[c] = own
          /\ \A d \in Clients \ {c} : session'[d] = session[d]
      BY SMT, Z3, <3>1, <3>3, SessionWritten
    <3>5. own.state = task.base /\ own.id = session[c].id
      BY <3>1
    <3>6. c = Creator => CreatorOk(own, commits)
      BY <1>5, <3>2, <3>5 DEF CreatorOk
    <3>7. PICK seen : seen = shown[c] \union {task.n}
      OBVIOUS
    <3>8. shown' = [shown EXCEPT ![c] = seen]
      BY <1>9, <2>2, <3>7 DEF FinishDecrypt
    <3>9. c \in TreeIn(commits, messages[task.n].epoch)
      BY <2>2, <3>2 DEF Decrypts, StateOk
    <3>10. c \notin messages[task.n].barred
      BY <3>2, <3>9 DEF MlsInv, MessageOk
    <3>11. seen \in SUBSET Nat
      BY SMT, Z3, <1>3, <1>5, <3>2, <3>7
    <3>12. \A n \in seen : n \in DOMAIN messages /\ c \notin messages[n].barred
      BY <1>5, <3>2, <3>7, <3>10
    <3> QED
      BY <1>4, <3>2, <3>4, <3>5, <3>6, <3>8, <3>11, <3>12
  <2> QED
    BY <2>1, <2>2
<1> QED
  BY <1>7, <1>8, <1>9


\* sendGroupMessage, after its await.
LEMMA SendKeeps ==
  ASSUME MlsInv, NEW c \in Clients, NEW task \in tasks[c], FinishSend(c, task)
  PROVE  MlsInv'
<1>1. /\ TaskOk(c, task, session[c], commits, messages)
      /\ DOMAIN tasks' = Clients /\ tasks'[c] = {}
      /\ \A d \in Clients \ {c} : tasks'[d] = tasks[d]
  BY TaskParts DEF FinishSend
<1>2. /\ task.base = session[c].state /\ StateOk(c, task.base, commits)
      /\ task.id = session[c].id /\ task.barred \in SUBSET Clients
      /\ task.barred \cap TreeIn(commits, task.base.epoch) = {}
  BY <1>1 DEF TaskOk, FinishSend
<1>3. /\ commits \in Seq(CommitRecords) /\ messages \in Seq(MessageRecords)
      /\ queue \in [Clients -> Seq(Frames)]
      /\ CreatorOk(session[Creator], commits)
  BY MlsParts
<1>4. UNCHANGED <<commits, shown, removed>>
  BY DEF FinishSend
<1>5. PICK m \in MessageRecords : /\ messages' = Append(messages, m)
                                  /\ MessageOk(m, commits)
  <2>1. PICK m : m = Sent(c, task)
    BY SMT, Z3
  <2>2. m \in MessageRecords
    BY SMT, Z3, <1>2, <2>1 DEF Sent, MessageRecords, StateOk
  <2>3. MessageOk(m, commits)
    BY <1>2, <2>1 DEF Sent, MessageOk, StateOk
  <2> QED
    BY <2>1, <2>2, <2>3 DEF FinishSend
<1>6. PICK own : own = [id |-> task.id, members |-> session[c].members,
                        state |-> Encrypted(task.base)]
  OBVIOUS
<1>7. /\ DOMAIN session' = Clients /\ session'[c] = own
      /\ \A d \in Clients \ {c} : session'[d] = session[d]
  <2>1. SetSession(c, task.id, session[c].members, Encrypted(task.base))
    BY DEF FinishSend
  <2> QED
    BY SMT, Z3, <1>2, <1>6, <2>1, SessionWritten
<1>8. StateOk(c, own.state, commits) /\ own.id = session[c].id
      /\ own.state.epoch = session[c].state.epoch
  <2>1. own.state = [task.base EXCEPT !.next = @ + 1] /\ own.id = session[c].id
    BY <1>2, <1>6 DEF Encrypted
  <2> QED
    BY SMT, Z3, <1>2, <2>1 DEF StateOk, StateFields
<1>9. CreatorOk(session'[Creator], commits)
  <2>1. CASE c = Creator
    BY <1>3, <1>7, <1>8, <2>1 DEF CreatorOk
  <2>2. CASE c # Creator
    BY <1>3, <1>7, <2>2, MlsAssumption
  <2> QED
    BY <2>1, <2>2
<1>10. PICK frame \in Frames : /\ frame.type = "message" /\ frame.n = Len(messages) + 1
                               /\ queue' = Deliver(c, frame, queue)
  <2>1. PICK frame : frame = [type |-> "message", n |-> Len(messages) + 1]
    OBVIOUS
  <2>2. frame \in Frames /\ frame.type = "message" /\ frame.n = Len(messages) + 1
    BY SMT, Z3, <1>3, <2>1 DEF Frames
  <2> QED
    BY <2>1, <2>2 DEF FinishSend
<1>11. messages' \in Seq(MessageRecords) /\ Len(messages) + 1 \in DOMAIN messages'
  BY SMT, Z3, <1>3, <1>5
<1>12. /\ queue' \in [Clients -> Seq(Frames)] /\ queue'[c] = queue[c]
       /\ \A d \in Clients \ {c} : queue'[d] = Append(queue[d], frame)
  BY SMT, Z3, <1>3, <1>10 DEF Deliver
<1>13. ASSUME NEW d \in Clients
       PROVE  ClientOk(d, session'[d], tasks'[d], queue'[d], shown[d], commits, messages')
  <2>1. /\ ClientOk(d, session[d], tasks[d], queue[d], shown[d], commits, messages)
        /\ queue[d] \in Seq(Frames)
    BY MlsParts
  <2>2. FrameOk(d, frame, commits, messages')
    BY <1>10, <1>11 DEF FrameOk
  <2>3. ClientOk(d, session[d], tasks[d], queue'[d], shown[d], commits, messages')
    BY <1>3, <1>5, <1>12, <2>1, <2>2, ClientGrows
  <2>4. CASE d = c
    BY <1>1, <1>7, <1>8, <2>3, <2>4 DEF ClientOk
  <2>5. CASE d # c
    BY <1>1, <1>7, <2>3, <2>5
  <2> QED
    BY <2>4, <2>5
<1>14. \A n \in DOMAIN messages' : MessageOk(messages'[n], commits)
  BY SMT, Z3, <1>3, <1>5 DEF MlsInv
<1>15. MlsTypes'
  BY <1>1, <1>4, <1>7, <1>11, <1>12 DEF MlsInv, MlsTypes
<1> QED
  BY <1>4, <1>9, <1>13, <1>14, <1>15 DEF MlsInv

\* addMember and removeMember, after their await.
LEMMA ChangeKeeps ==
  ASSUME MlsInv, NEW task \in tasks[Creator], FinishChange(task)
  PROVE  MlsInv'
<1>0. Creator \in Clients
  BY MlsAssumption
<1>1. /\ TaskOk(Creator, task, session[Creator], commits, messages)
      /\ DOMAIN tasks' = Clients /\ tasks'[Creator] = {}
      /\ \A d \in Clients \ {Creator} : tasks'[d] = tasks[d]
  BY <1>0, TaskParts DEF FinishChange
<1>2. /\ task.base = session[Creator].state /\ StateOk(Creator, task.base, commits)
      /\ task.member \in Clients \ {Creator} /\ task.action \in {"add", "remove"}
  BY <1>1 DEF TaskOk, FinishChange
<1>3. /\ commits \in Seq(CommitRecords) /\ messages \in Seq(MessageRecords)
      /\ queue \in [Clients -> Seq(Frames)] /\ ChainOk(commits)
      /\ CreatorOk(session[Creator], commits)
      /\ removed \in SUBSET (Clients \ {Creator})
      /\ removed \cap TreeIn(commits, Len(commits)) = {}
  BY <1>0, MlsParts DEF MlsInv
<1>4. UNCHANGED <<messages, shown>>
  BY DEF FinishChange
<1>5. PICK tree : tree = TreeIn(commits, Len(commits))
  BY SMT, Z3
<1>6. task.base.epoch = Len(commits) /\ Len(commits) \in Nat
  BY SMT, Z3, <1>2, <1>3 DEF CreatorOk
<1>7. Tree(task.base.epoch) = tree
  BY <1>5, <1>6 DEF Tree, TreeIn
<1>8. tree \in SUBSET Clients /\ Creator \in tree
  <2>1. CASE Len(commits) = 0
    BY <1>0, <1>5, <2>1 DEF TreeIn
  <2>2. CASE Len(commits) # 0
    <3>1. Len(commits) \in DOMAIN commits /\ tree = commits[Len(commits)].tree
      BY SMT, Z3, <1>3, <1>5, <1>6, <2>2 DEF TreeIn
    <3>2. commits[Len(commits)] \in CommitRecords
      BY SMT, Z3, <1>3, <3>1
    <3> QED
      BY <1>3, <3>1, <3>2 DEF CommitRecords, ChainOk
  <2> QED
    BY <2>1, <2>2
<1>9. PICK k : k = Committed(task.base, task.action, task.member)
  BY SMT, Z3
<1>10. PICK after : after = IF task.action = "add" THEN tree \union {task.member}
                                                   ELSE tree \ {task.member}
  OBVIOUS
<1>11. after \in SUBSET Clients /\ Creator \in after
       /\ (task.action = "add" => task.member \in after)
  BY <1>2, <1>8, <1>10
<1>12. k = [parent |-> Len(commits), action |-> task.action, member |-> task.member,
            tree |-> after]
  BY <1>6, <1>7, <1>9, <1>10 DEF Committed
<1>13. /\ k \in CommitRecords /\ k.parent = Len(commits) /\ k.action = task.action
       /\ k.member = task.member /\ k.tree = after
  BY <1>2, <1>6, <1>11, <1>12 DEF CommitRecords
<1>14. commits' = Append(commits, k)
  BY <1>9 DEF FinishChange
<1>15. /\ commits' \in Seq(CommitRecords) /\ Len(commits') = Len(commits) + 1
       /\ DOMAIN commits' = 1..(Len(commits) + 1)
       /\ commits'[Len(commits) + 1] = k
       /\ \A i \in DOMAIN commits : commits'[i] = commits[i]
  BY SMT, Z3, <1>3, <1>13, <1>14
<1>16. ChainOk(commits')
  <2> SUFFICES ASSUME NEW i \in DOMAIN commits'
               PROVE  /\ commits'[i].parent = i - 1 /\ Creator \in commits'[i].tree
                      /\ commits'[i].action = "add" =>
                           commits'[i].member \in commits'[i].tree
    BY DEF ChainOk
  <2>1. CASE i = Len(commits) + 1
    BY SMT, Z3, <1>6, <1>11, <1>13, <1>15, <2>1
  <2>2. CASE i # Len(commits) + 1
    <3>1. i \in DOMAIN commits
      BY SMT, Z3, <1>3, <1>6, <1>15, <2>2
    <3> QED
      BY <1>3, <1>15, <3>1 DEF ChainOk
  <2> QED
    BY <2>1, <2>2
<1>17. TreeIn(commits', Len(commits')) = after
  BY SMT, Z3, <1>6, <1>13, <1>15 DEF TreeIn
<1>18. removed' \in SUBSET (Clients \ {Creator}) /\ removed' \cap after = {}
  BY <1>2, <1>3, <1>5, <1>10 DEF FinishChange
<1>19. PICK state : state = NextEpoch(task.base, Len(commits) + 1, TRUE)
  OBVIOUS
<1>20. StateOk(Creator, state, commits') /\ state.epoch = Len(commits')
  <2>1. StateOk(Creator, task.base, commits')
    BY <1>2, <1>3, <1>13, <1>14, StateGrows
  <2>2. Creator \in TreeIn(commits', task.base.epoch)
    <3>1. TreeIn(commits', Len(commits)) = tree
      BY SMT, Z3, <1>3, <1>5, <1>6, <1>13, <1>14, TreeGrows
    <3> QED
      BY <1>6, <1>8, <3>1
  <2>3. Len(commits) + 1 \in 1..Len(commits')
        /\ Creator \in TreeIn(commits', Len(commits) + 1)
    BY SMT, Z3, <1>6, <1>11, <1>15, <1>17
  <2>4. PICK active : active = TRUE
    BY SMT, Z3
  <2>5. active => Creator \in TreeIn(commits', Len(commits) + 1)
    BY <2>3
  <2>6. /\ StateOk(Creator, NextEpoch(task.base, Len(commits) + 1, active), commits')
        /\ NextEpoch(task.base, Len(commits) + 1, active).epoch = Len(commits) + 1
    BY SMT, Z3, <1>15, <2>1, <2>2, <2>3, <2>5, NextEpochOk
  <2> QED
    BY <1>15, <1>19, <2>4, <2>6
<1>21. PICK own : /\ own.id = 0 /\ own.state = state /\ session'[Creator] = own
                  /\ DOMAIN session' = Clients
                  /\ \A d \in Clients \ {Creator} : session'[d] = session[d]
  <2>1. PICK members : SetSession(Creator, 0, members, state)
    BY <1>19 DEF FinishChange
  <2>2. session[Creator].id = 0
    BY <1>3 DEF CreatorOk
  <2>3. /\ DOMAIN session' = Clients
        /\ session'[Creator] = [id |-> 0, members |-> members, state |-> state]
        /\ \A d \in Clients \ {Creator} : session'[d] = session[d]
    BY SMT, Z3, <1>0, <2>1, <2>2, SessionWritten
  <2> QED
    BY SMT, Z3, <2>3
<1>22. CreatorOk(session'[Creator], commits')
  BY <1>20, <1>21 DEF CreatorOk
<1>23. PICK frame \in Frames : /\ frame.type = "membership" /\ frame.n = Len(commits) + 1
                               /\ \/ queue' = Deliver(Creator, frame, queue)
                                  \/ UNCHANGED queue
  <2>1. PICK frame : frame = [type |-> "membership", n |-> Len(commits) + 1]
    OBVIOUS
  <2>2. frame \in Frames /\ frame.type = "membership" /\ frame.n = Len(commits) + 1
    BY SMT, Z3, <1>6, <2>1 DEF Frames
  <2> QED
    BY <2>1, <2>2 DEF FinishChange
<1>24. /\ queue' \in [Clients -> Seq(Frames)] /\ queue'[Creator] = queue[Creator]
       /\ \A d \in Clients \ {Creator} : \/ queue'[d] = queue[d]
                                         \/ queue'[d] = Append(queue[d], frame)
  <2>1. CASE queue' = Deliver(Creator, frame, queue)
    BY SMT, Z3, <1>0, <1>3, <2>1 DEF Deliver
  <2>2. CASE UNCHANGED queue
    BY <1>3, <2>2
  <2> QED
    BY <1>23, <2>1, <2>2
<1>25. ASSUME NEW d \in Clients
       PROVE  ClientOk(d, session'[d], tasks'[d], queue'[d], shown[d], commits', messages)
  <2>1. /\ ClientOk(d, session[d], tasks[d], queue[d], shown[d], commits, messages)
        /\ queue[d] \in Seq(Frames)
    BY MlsParts
  <2>2. d # Creator => FrameOk(d, frame, commits', messages)
    BY SMT, Z3, <1>6, <1>15, <1>23 DEF FrameOk
  <2>3. ClientOk(d, session[d], tasks[d], queue'[d], shown[d], commits', messages)
    <3>1. \E x \in CommitRecords : commits' = Append(commits, x)
      BY <1>13, <1>14
    <3>2. \/ queue'[d] = queue[d]
          \/ \E x \in Frames : /\ queue'[d] = Append(queue[d], x)
                               /\ FrameOk(d, x, commits', messages)
      BY <1>24, <2>2
    <3> QED
      BY <1>3, <2>1, <3>1, <3>2, ClientGrows
  <2>4. CASE d = Creator
    BY <1>1, <1>20, <1>21, <2>3, <2>4 DEF ClientOk
  <2>5. CASE d # Creator
    BY <1>1, <1>21, <2>3, <2>5
  <2> QED
    BY <2>4, <2>5
<1>26. \A n \in DOMAIN messages : MessageOk(messages[n], commits')
  <2> SUFFICES ASSUME NEW n \in DOMAIN messages
               PROVE  MessageOk(messages[n], commits')
    BY SMT, Z3
  <2>1. MessageOk(messages[n], commits)
    BY DEF MlsInv
  <2>2. messages[n].epoch \in 0..Len(commits')
    BY SMT, Z3, <1>6, <1>15, <2>1 DEF MessageOk
  <2>3. TreeIn(commits', messages[n].epoch) = TreeIn(commits, messages[n].epoch)
    BY <1>3, <1>13, <1>14, <2>1, TreeGrows DEF MessageOk
  <2> QED
    BY <2>1, <2>2, <2>3 DEF MessageOk
<1>27. MlsTypes'
  BY <1>1, <1>4, <1>15, <1>18, <1>21, <1>24 DEF MlsInv, MlsTypes
<1> QED
  BY <1>4, <1>16, <1>17, <1>18, <1>22, <1>25, <1>26, <1>27 DEF MlsInv

\* In a group of any size whose clients do one operation at a time (the awaits of
\* mls-groups.ts do not overlap), commits form one chain, every client stands on
\* it, and nobody is shown a message that the creator sent after removing them.
THEOREM GroupsAreSafe ==
  ASSUME ~Overlaps
  PROVE  MlsSpec => []GroupHistorySafe
<1>1. MlsInit => MlsInv
  <2> SUFFICES ASSUME MlsInit
               PROVE  MlsInv
    BY SMT, Z3
  <2>1. MlsTypes
    BY SMT, Z3 DEF MlsInit, MlsTypes
  <2>2. StateOk(Creator, Joined(0), commits) /\ Len(commits) = 0
    BY SMT, Z3 DEF MlsInit, StateOk, StateFields, Joined, TreeIn
  <2>3. CreatorOk(session[Creator], commits)
    BY <2>2, MlsAssumption DEF MlsInit, CreatorOk, Joined
  <2>4. \A c \in Clients :
          ClientOk(c, session[c], tasks[c], queue[c], shown[c], commits, messages)
    <3>1. ASSUME NEW c \in Clients
          PROVE  /\ session[c] # NoGroup =>
                      c = Creator /\ session[c].state = Joined(0)
                 /\ tasks[c] = {} /\ queue[c] = <<>> /\ shown[c] = {}
      BY DEF MlsInit
    <3>2. DOMAIN <<>> = {}
      BY SMT, Z3
    <3> QED
      BY <2>2, <3>1, <3>2 DEF ClientOk
  <2> QED
    BY SMT, Z3, <2>1, <2>3, <2>4 DEF MlsInit, MlsInv, ChainOk
<1>2. MlsInv /\ [MlsNext]_mlsVars => MlsInv'
  <2> SUFFICES ASSUME MlsInv, [MlsNext]_mlsVars
               PROVE  MlsInv'
    BY SMT, Z3
  <2>1. CASE UNCHANGED mlsVars
    BY <2>1 DEF mlsVars, MlsInv, MlsTypes
  <2>2. ASSUME NEW c \in Clients, Finish(c)
        PROVE  MlsInv'
    BY <2>2, SendKeeps, ReceiveKeeps, ChangeKeeps DEF Finish
  <2> QED
    BY <2>1, <2>2, RequestKeeps, FrameKeeps DEF MlsNext
<1>3. MlsInv => GroupHistorySafe
  <2> SUFFICES ASSUME MlsInv
               PROVE  GroupHistorySafe
    BY SMT, Z3
  <2>1. RemovedCannotRead
    BY DEF MlsInv, ClientOk, RemovedCannotRead
  <2>2. \A j \in DOMAIN commits, k \in DOMAIN commits :
          commits[j].parent = commits[k].parent => j = k
    <3>1. \A k \in DOMAIN commits : k \in Nat /\ commits[k].parent = k - 1
      <4>1. commits \in Seq(CommitRecords) /\ ChainOk(commits)
        BY DEF MlsInv, MlsTypes
      <4> QED
        BY SMT, Z3, <4>1 DEF ChainOk
    <3> QED
      BY SMT, Z3, <3>1
  <2>3. \A c \in Clients :
          session[c] # NoGroup => session[c].state.epoch <= session[Creator].state.epoch
    <3>1. session[Creator].state.epoch = Len(commits)
      BY DEF MlsInv, CreatorOk
    <3>2. ASSUME NEW c \in Clients, session[c] # NoGroup
          PROVE  session[c].state.epoch \in 0..Len(commits)
      BY <3>2 DEF MlsInv, ClientOk, StateOk
    <3>3. commits \in Seq(CommitRecords)
      BY DEF MlsInv, MlsTypes
    <3> QED
      BY SMT, Z3, <3>1, <3>2, <3>3
  <2> QED
    BY <2>1, <2>2, <2>3 DEF GroupHistorySafe, OneChain
<1> QED
  BY <1>1, <1>2, <1>3, PTL DEF MlsSpec
=============================================================================
