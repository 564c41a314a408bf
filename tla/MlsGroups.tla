------------------------------- MODULE MlsGroups -------------------------------
(***************************************************************************)
(* MLS groups (packages/client/src/mls-groups.ts over mls.ts): one group,   *)
(* its creator and the clients it adds and removes.                         *)
(*                                                                          *)
(* Every operation takes the session's MLS state, awaits the MLS library    *)
(* and writes the state the library returned back into the session.  The    *)
(* event handlers are not awaited by anyone, so operations of one client    *)
(* may overlap (Overlaps).  The library itself and the transport are not    *)
(* part of the repository: the library is an epoch number per commit with a *)
(* set of members, a send generation per epoch and its message keys; the    *)
(* transport hands every frame to all other clients, in one order.          *)
(***************************************************************************)
EXTENDS Naturals, Sequences, FiniteSets

CONSTANTS
  Clients,
  Creator,
  NoGroup,
  Overlaps,     \* an operation may start before the one before it is done
  GoesOffline,  \* the creator's socket may be closed when it sends
  Retained,     \* epochs whose message keys the library keeps
  MaxCommits,   \* bound on the membership changes
  MaxMessages   \* bound on the messages

ASSUME MlsAssumption ==
  /\ IsFiniteSet(Clients) /\ Creator \in Clients /\ NoGroup \notin Clients
  /\ Overlaps \in BOOLEAN /\ GoesOffline \in BOOLEAN
  /\ Retained \in Nat /\ MaxCommits \in Nat /\ MaxMessages \in Nat

VARIABLES
  commits,   \* the commits made so far: [parent, action, member, tree]
  messages,  \* the messages sent so far: [sender, epoch, generation, barred]
  session,   \* NoGroup or [id, members, state]; state is [epoch, active, next, kept]
  tasks,     \* operations of a client that await the library
  queue,     \* frames on their way to a client
  shown,     \* messages a client's callback got
  removed    \* members the creator removed and has not added again

mlsVars == <<commits, messages, session, tasks, queue, shown, removed>>

Epochs == 0..MaxCommits
Others(c) == Clients \ {c}

----------------------------------------------------------------------------
(* The library.                                                             *)

\* The members of an epoch's ratchet tree; epoch 0 is mlsCreateGroup's.
Tree(epoch) == IF epoch = 0 THEN {Creator} ELSE commits[epoch].tree

\* createCommit: the state after the commit and the commit.
Committed(state, action, member) ==
  [parent |-> state.epoch, action |-> action, member |-> member,
   tree |-> IF action = "add" THEN Tree(state.epoch) \union {member}
                              ELSE Tree(state.epoch) \ {member}]
NextEpoch(state, epoch, active) ==
  [epoch |-> epoch, active |-> active, next |-> 1,
   kept |-> {e \in state.kept \union {state.epoch} : e + Retained >= epoch}]

\* joinGroup: the state of a client that enters with the welcome of a commit.
Joined(epoch) == [epoch |-> epoch, active |-> TRUE, next |-> 1, kept |-> {}]

\* createApplicationMessage.
Encrypted(state) == [state EXCEPT !.next = @ + 1]

\* processMessage on a commit: it must follow the state's epoch.
Follows(state, k) == state.active /\ commits[k].parent = state.epoch

\* processPrivateMessage.
Decrypts(state, m) ==
  state.active /\ (m.epoch = state.epoch \/ m.epoch \in state.kept)

----------------------------------------------------------------------------
(* The client.                                                              *)

MayStart(c) == Overlaps \/ tasks[c] = {}

Start(c, task) == tasks' = [tasks EXCEPT ![c] = @ \union {task}]
Done(c, task) == tasks' = [tasks EXCEPT ![c] = @ \ {task}]

Deliver(c, frame, q) ==
  [d \in Clients |-> IF d = c THEN q[d] ELSE Append(q[d], frame)]

\* An operation writes to the session object it started with, which is no
\* longer the client's after a welcome has replaced it.
SetSession(c, id, members, state) ==
  session' = IF session[c].id = id
             THEN [session EXCEPT ![c] = [id |-> id, members |-> members,
                                          state |-> state]]
             ELSE session

\* addMember and removeMember up to the await: only the creator, only a member
\* of the tree is removed.  (Adding one that is in the tree makes the library
\* refuse the proposal.)
StartChange(action, member) ==
  /\ MayStart(Creator)
  /\ Len(commits) + Cardinality({t \in tasks[Creator] : t.op = "change"})
       < MaxCommits
  /\ LET state == session[Creator].state
     IN  /\ member \in Others(Creator)
         /\ (action = "remove") <=> (member \in Tree(state.epoch))
         /\ Start(Creator, [op |-> "change", base |-> state,
                            action |-> action, member |-> member])
  /\ UNCHANGED <<commits, messages, session, queue, shown, removed>>

\* Mutant: the session keeps the state from before the removal.
FinishChangeForgotten(task) ==
  /\ task \in tasks[Creator] /\ task.op = "change"
  /\ Done(Creator, task)
  /\ commits' = Append(commits, Committed(task.base, task.action, task.member))
  /\ session' = [session EXCEPT ![Creator] =
       IF task.action = "add"
       THEN [@ EXCEPT !.members = @ \union {task.member},
                      !.state = NextEpoch(task.base, Len(commits) + 1, TRUE)]
       ELSE [@ EXCEPT !.members = @ \ {task.member}]]
  /\ \/ queue' = Deliver(Creator, [type |-> "membership", n |-> Len(commits) + 1],
                         queue)
     \/ GoesOffline /\ UNCHANGED queue
  /\ removed' = IF task.action = "add" THEN removed \ {task.member}
                                       ELSE removed \union {task.member}
  /\ UNCHANGED <<messages, shown>>

\* ... after it: the state, the member list, the frame (send drops it when the
\* client is not online).
FinishChange(task) ==
  /\ task \in tasks[Creator] /\ task.op = "change"
  /\ Done(Creator, task)
  /\ commits' = Append(commits, Committed(task.base, task.action, task.member))
  /\ LET members == session[Creator].members
     IN  SetSession(Creator, 0,
           IF task.action = "add" THEN members \union {task.member}
                                  ELSE members \ {task.member},
           NextEpoch(task.base, Len(commits) + 1, TRUE))
  /\ \/ queue' = Deliver(Creator, [type |-> "membership", n |-> Len(commits) + 1],
                         queue)
     \/ GoesOffline /\ UNCHANGED queue
  /\ removed' = IF task.action = "add" THEN removed \ {task.member}
                                       ELSE removed \union {task.member}
  /\ UNCHANGED <<messages, shown>>

\* sendGroupMessage up to the await.
StartSend(c) ==
  /\ MayStart(c)
  /\ session[c] # NoGroup /\ session[c].state.active
  /\ Len(messages) + Cardinality({t \in UNION {tasks[d] : d \in Clients} :
                                    t.op = "send"}) < MaxMessages
  /\ Start(c, [op |-> "send", id |-> session[c].id, base |-> session[c].state,
               barred |-> IF c = Creator THEN removed ELSE {}])
  /\ UNCHANGED <<commits, messages, session, queue, shown, removed>>

\* The frame of a send; a message of the creator is barred to those that were
\* removed when it was started.
Sent(c, task) ==
  [sender |-> c, epoch |-> task.base.epoch, generation |-> task.base.next,
   barred |-> task.barred]

FinishSend(c, task) ==
  /\ task \in tasks[c] /\ task.op = "send"
  /\ Done(c, task)
  /\ messages' = Append(messages, Sent(c, task))
  /\ SetSession(c, task.id, session[c].members, Encrypted(task.base))
  /\ queue' = Deliver(c, [type |-> "message", n |-> Len(messages) + 1], queue)
  /\ UNCHANGED <<commits, shown, removed>>

Frame(c, type) ==
  MayStart(c) /\ queue[c] # << >> /\ Head(queue[c]).type = type

\* onGroupMessage for a membership frame, up to the await in
\* applyGroupMembershipMessage; without a session it is ignored.
OnMembership(c) ==
  /\ Frame(c, "membership")
  /\ LET k == Head(queue[c]).n
         welcome == commits[k].action = "add" /\ commits[k].member = c
     IN  IF welcome
         THEN Start(c, [op |-> "join", commit |-> k])
         ELSE IF session[c] = NoGroup THEN UNCHANGED tasks
         ELSE Start(c, [op |-> "commit", commit |-> k, id |-> session[c].id,
                        base |-> session[c].state])
  /\ queue' = [queue EXCEPT ![c] = Tail(@)]
  /\ UNCHANGED <<commits, messages, session, shown, removed>>

\* The joiner's session: its member list starts with itself.
FinishJoin(c, task) ==
  /\ task \in tasks[c] /\ task.op = "join"
  /\ Done(c, task)
  /\ session' = [session EXCEPT ![c] =
       [id |-> task.commit, members |-> {c}, state |-> Joined(task.commit)]]
  /\ UNCHANGED <<commits, messages, queue, shown, removed>>

\* mlsProcessCommit throws when the commit does not follow the state.
FinishCommit(c, task) ==
  /\ task \in tasks[c] /\ task.op = "commit"
  /\ Done(c, task)
  /\ LET k == commits[task.commit]
         members == session[c].members
     IN  IF Follows(task.base, task.commit)
         THEN SetSession(c, task.id,
                IF k.action = "add" THEN members \union {k.member}
                                    ELSE members \ {k.member},
                NextEpoch(task.base, task.commit, c \in k.tree))
         ELSE UNCHANGED session
  /\ UNCHANGED <<commits, messages, queue, shown, removed>>

\* onGroupMessage for a message frame, up to the await in mlsDecrypt; without
\* a session getSession throws.
OnMessage(c) ==
  /\ Frame(c, "message")
  /\ IF session[c] = NoGroup \/ ~session[c].state.active THEN UNCHANGED tasks
     ELSE Start(c, [op |-> "decrypt", n |-> Head(queue[c]).n,
                    base |-> session[c].state])
  /\ queue' = [queue EXCEPT ![c] = Tail(@)]
  /\ UNCHANGED <<commits, messages, session, shown, removed>>

FinishDecrypt(c, task) ==
  /\ task \in tasks[c] /\ task.op = "decrypt"
  /\ Done(c, task)
  /\ IF Decrypts(task.base, messages[task.n])
     THEN /\ SetSession(c, session[c].id, session[c].members, task.base)
          /\ shown' = [shown EXCEPT ![c] = @ \union {task.n}]
     ELSE UNCHANGED <<session, shown>>
  /\ UNCHANGED <<commits, messages, queue, removed>>

----------------------------------------------------------------------------

MlsInit ==
  /\ commits = << >> /\ messages = << >>
  /\ session = [c \in Clients |->
       IF c = Creator THEN [id |-> 0, members |-> {c}, state |-> Joined(0)]
       ELSE NoGroup]
  /\ tasks = [c \in Clients |-> {}]
  /\ queue = [c \in Clients |-> << >>]
  /\ shown = [c \in Clients |-> {}]
  /\ removed = {}

Finish(c) ==
  \E task \in tasks[c] :
    \/ c = Creator /\ FinishChange(task)
    \/ FinishSend(c, task) \/ FinishJoin(c, task)
    \/ FinishCommit(c, task) \/ FinishDecrypt(c, task)

MlsNext ==
  \/ \E action \in {"add", "remove"}, member \in Clients :
       StartChange(action, member)
  \/ \E c \in Clients : StartSend(c) \/ OnMembership(c) \/ OnMessage(c) \/ Finish(c)

MlsSpec == MlsInit /\ [][MlsNext]_mlsVars

----------------------------------------------------------------------------
(* Properties.                                                              *)

\* Types; a session's epoch is one whose tree held the client or, for a client
\* that was removed, whose commit removed it.
MlsTypeOK ==
  \A c \in Clients :
    /\ shown[c] \subseteq DOMAIN messages
    /\ session[c] # NoGroup =>
         LET state == session[c].state
         IN  /\ state.epoch \in 0..Len(commits)
             /\ state.active <=> c \in Tree(state.epoch)
             /\ session[c].members \subseteq Clients
             /\ \A m \in session[c].members : m \in Tree(state.epoch)

\* "A removed member must not decrypt future messages after membership epoch
\* change": nobody is shown a message that the creator sent after removing them.
RemovedCannotRead ==
  \A c \in Clients : \A n \in shown[c] : c \notin messages[n].barred

\* Commits form one chain, and every client in the group stands somewhere on
\* it: no two of them ever disagree on what a later epoch contains.
OneChain ==
  /\ \A j, k \in DOMAIN commits : commits[j].parent = commits[k].parent => j = k
  /\ \A c \in Clients :
       session[c] # NoGroup => session[c].state.epoch <= session[Creator].state.epoch

\* One operation of a client at a time, the group has one history and a removed
\* member is out of its future.
GroupHistorySafe == RemovedCannotRead /\ OneChain
=============================================================================
