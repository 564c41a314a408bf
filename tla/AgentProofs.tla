----------------------------- MODULE AgentProofs -----------------------------
(***************************************************************************)
(* Proofs about the terminal agent (AgentStream), the claims agents         *)
(* exchange (CapabilityIndex) and the mailboxes of two devices              *)
(* (AgentMailbox), for any channels, sessions, publications, requests,      *)
(* crashes and bounds.                                                      *)
(***************************************************************************)
EXTENDS AgentStream, CapabilityIndex, AgentMailbox, SequenceTheorems,
        WellFoundedInduction, TLAPS

\* The backend of every leaf that names none, with a second run of more time.
USE Zenon, ZenonT(20)

----------------------------------------------------------------------------
(* The agent's stream: types, and one socket per generation.                *)

GapType ==
  [gen : Nat, channel : Channels, left : SUBSET Channels,
   answer : 0..MaxLog \union {None}]

PostRow ==
  [cmd : {"post"}, channel : Channels, attempt : 0..1,
   phase : {"sent", "accepted", "refetch"}, token : Tokens,
   sequence : Nat, seq : Nat, accepted : Nat]

CommandType ==
  [cmd : {"signin"}]
    \union [cmd : {"signout"}, token : Tokens \union {None}]
    \union [cmd : {"history"}, channel : Channels,
            answer : 0..MaxLog \union {None}]
    \union PostRow

SessionRow == [token : Tokens, nextSequence : Nat]

SocketMap == [Slots -> SocketType \union {None}]

GatewayTyped ==
  /\ log \in [Channels -> 0..MaxLog]
  /\ DOMAIN lastSequence \subseteq Tokens
  /\ lastSequence \in [DOMAIN lastSequence -> Nat]
  /\ alive \subseteq DOMAIN lastSequence /\ lapsed \subseteq DOMAIN lastSequence

\* The session's token is one the gateway gave out.
CommandTyped ==
  /\ session \in SessionRow \union {None}
  /\ command \in CommandType \union {None}
  /\ session # None => session.token \in DOMAIN lastSequence
  /\ command # None /\ command.cmd = "post" =>
       command.token \in DOMAIN lastSequence
  /\ channels \subseteq Channels

StreamTyped ==
  /\ sockets \in SocketMap
  /\ timer \in BOOLEAN
  /\ generation \in 0..MaxGenerations
  /\ gaps \subseteq GapType

\* An agent keeps at most one socket of the current generation, no socket of
\* a later one, and no timer beside it.
OneSocket ==
  /\ \A s \in Slots : sockets[s] # None =>
       /\ sockets[s].gen <= generation
       /\ sockets[s].gen = generation => s = socket
  /\ timer => socket = None /\ generation > 0

AgentInv == GatewayTyped /\ CommandTyped /\ StreamTyped /\ OneSocket

\* The bounds are natural numbers.
LEMMA StreamBounds ==
  /\ MaxLog \in Nat /\ MaxTokens \in Nat /\ MaxGenerations \in Nat
  /\ MaxSockets \in Nat \ {0} /\ HistoryFetch \in Nat \ {0}
BY AgentAssumption

\* The frames the gateway and the network put on a socket.
LEMMA FrameKinds ==
  /\ <<"ready">> \in Frames /\ <<"revoked">> \in Frames /\ <<"close">> \in Frames
  /\ \A code \in {"unauthenticated", "revoked"} : <<"error", code>> \in Frames
  /\ \A c \in Channels, n \in 1..MaxLog : <<"message", c, n>> \in Frames
  /\ \A f \in Frames : f[1] = "message" =>
       f[2] \in Channels /\ f[3] \in 1..MaxLog
BY SMT, Z3 DEF Frames

\* Sockets of ss that tt keeps, with their generation.
SameSockets(ss, tt) ==
  /\ tt \in SocketMap
  /\ \A s \in Slots : tt[s] # None => ss[s] # None /\ tt[s].gen = ss[s].gen

\* A socket whose phase or frames change keeps its generation.
LEMMA SocketChanged ==
  ASSUME NEW x \in SocketType, NEW f \in Seq(Frames),
         NEW p \in {"connecting", "asked", "ready", "closed"}
  PROVE  /\ [x EXCEPT !.frames = f] \in SocketType
         /\ [x EXCEPT !.frames = f].gen = x.gen
         /\ [x EXCEPT !.phase = p, !.frames = f] \in SocketType
         /\ [x EXCEPT !.phase = p, !.frames = f].gen = x.gen
BY DEF SocketType

\* broadcast adds a frame to some sockets.
LEMMA BroadcastKeeps ==
  ASSUME NEW ss \in SocketMap, NEW c \in Channels, NEW n \in 1..MaxLog
  PROVE  SameSockets(ss, Broadcast(ss, c, n))
<1>1. ASSUME NEW s \in Slots, ss[s] # None
      PROVE  /\ [ss[s] EXCEPT !.frames = Append(@, <<"message", c, n>>)]
                  \in SocketType
             /\ [ss[s] EXCEPT !.frames = Append(@, <<"message", c, n>>)].gen
                  = ss[s].gen
  <2>1. ss[s] \in SocketType /\ ss[s].frames \in Seq(Frames)
    BY <1>1 DEF SocketMap, SocketType
  <2>2. Append(ss[s].frames, <<"message", c, n>>) \in Seq(Frames)
    BY SMT, Z3, <2>1, FrameKinds
  <2> QED
    BY <2>1, <2>2, SocketChanged
<1> QED
  BY <1>1 DEF SameSockets, SocketMap, Broadcast

\* endSession closes some sockets.
LEMMA EndStreamsKeeps ==
  ASSUME NEW ss \in SocketMap, NEW t
  PROVE  SameSockets(ss, EndStreams(ss, t))
<1> DEFINE ended(s) == [ss[s] EXCEPT !.phase = "closed",
                          !.frames = @ \o <<<<"revoked">>, <<"close">>>>]
<1>1. ASSUME NEW s \in Slots, ss[s] # None
      PROVE  ended(s) \in SocketType /\ ended(s).gen = ss[s].gen
  <2>1. ss[s] \in SocketType /\ ss[s].frames \in Seq(Frames)
    BY <1>1 DEF SocketMap, SocketType
  <2>2. ss[s].frames \o <<<<"revoked">>, <<"close">>>> \in Seq(Frames)
    <3>1. <<<<"revoked">>, <<"close">>>> \in Seq(Frames)
      BY SMT, Z3, FrameKinds
    <3> QED
      BY <2>1, <3>1, ConcatProperties
  <2> QED
    BY <2>1, <2>2, SocketChanged
<1>2. \A s \in Slots : EndStreams(ss, t)[s] \in {ss[s], ended(s)}
        /\ (ss[s] = None => EndStreams(ss, t)[s] = ss[s])
  BY DEF EndStreams
<1>3. EndStreams(ss, t) \in SocketMap
  <2> HIDE DEF ended
  <2>1. \A s \in Slots : EndStreams(ss, t)[s] \in SocketType \union {None}
    BY <1>1, <1>2 DEF SocketMap
  <2> QED
    BY <2>1 DEF EndStreams, SocketMap
<1> HIDE DEF ended
<1> QED
  BY <1>1, <1>2, <1>3 DEF SameSockets

\* A nonempty set of slots has a least one.
LEMMA LeastSlot ==
  ASSUME NEW S, S \subseteq Nat, S # {}
  PROVE  \E f \in S : \A e \in S : f <= e
<1> DEFINE R == {ss \in Nat \X Nat : ss[1] < ss[2]}
<1>1. IsWellFoundedOn(R, Nat)
  BY NatLessThanWellFounded DEF OpToRel
<1> HIDE DEF R
<1>2. PICK f \in S : \A e \in S : ~ (<<e, f>> \in R)
  BY <1>1, WFMin
<1>3. ASSUME NEW e \in S
      PROVE  f <= e
  <2>1. e \in Nat /\ f \in Nat
    BY SMT, Z3
  <2>2. e < f => <<e, f>> \in R
    BY <2>1 DEF R
  <2> QED
    BY SMT, Z3, <1>2, <2>1, <2>2
<1> QED
  BY <1>3


\* connectStream: a new socket, the only one of its generation.
LEMMA Connects ==
  ASSUME NEW ss \in SocketMap, NEW g \in 1..MaxGenerations,
         ConnectStream(ss, g),
         \A s \in Slots : ss[s] # None => ss[s].gen < g
  PROVE  /\ sockets' \in SocketMap
         /\ \A s \in Slots : sockets'[s] # None =>
              /\ sockets'[s].gen <= g
              /\ sockets'[s].gen = g => s = socket'
<1>1. FreeSlots(ss) \subseteq Nat /\ FreeSlots(ss) # {}
  BY SMT, Z3, StreamBounds DEF FreeSlots, ConnectStream, Slots
<1>2. PICK s : s = CHOOSE f \in FreeSlots(ss) : \A e \in FreeSlots(ss) : f <= e
  BY SMT, Z3
<1>3. s \in FreeSlots(ss)
  BY <1>1, <1>2, LeastSlot
<1>4. s \in Slots
  BY <1>3 DEF FreeSlots
<1> DEFINE new == [gen |-> g, phase |-> "connecting", token |-> None,
                   chans |-> {}, frames |-> << >>]
<1>5. new \in SocketType /\ new.gen = g
  BY SMT, Z3 DEF SocketType
<1>6. socket' = s /\ sockets' = [ss EXCEPT ![s] = new]
  BY <1>2 DEF ConnectStream
<1> HIDE DEF new
<1>7. sockets' \in SocketMap
  BY <1>5, <1>6 DEF SocketMap
<1>8. ASSUME NEW u \in Slots, sockets'[u] # None
      PROVE  sockets'[u].gen <= g /\ (sockets'[u].gen = g => u = s)
  <2>1. CASE u = s
    BY SMT, Z3, <1>4, <1>5, <1>6, <2>1 DEF SocketMap
  <2>2. CASE u # s
    <3>1. sockets'[u] = ss[u] /\ ss[u] \in SocketType
      BY <1>6, <1>8, <2>2 DEF SocketMap
    <3> QED
      BY SMT, Z3, <1>8, <3>1 DEF SocketType
  <2> QED
    BY <2>1, <2>2
<1> QED
  BY <1>6, <1>7, <1>8

\* restartStream: whatever sockets are left belong to earlier generations.
LEMMA Restarts ==
  ASSUME StreamTyped, OneSocket, NEW ss, SameSockets(sockets, ss),
         NEW subscribed, RestartStream(ss, subscribed), UNCHANGED gaps
  PROVE  StreamTyped' /\ OneSocket'
<1>1. /\ generation \in 0..MaxGenerations /\ generation < MaxGenerations
      /\ generation' = generation + 1 /\ timer' = FALSE
  BY DEF RestartStream, StreamTyped
<1>2. generation + 1 \in 1..MaxGenerations
  BY SMT, Z3, <1>1, StreamBounds
<1>3. ss \in SocketMap
  BY DEF SameSockets
<1>4. \A s \in Slots : ss[s] # None => ss[s].gen < generation + 1
  <2> SUFFICES ASSUME NEW s \in Slots, ss[s] # None
               PROVE  ss[s].gen < generation + 1
    BY SMT, Z3
  <2>1. sockets[s] # None /\ ss[s].gen = sockets[s].gen
    BY DEF SameSockets
  <2>2. sockets[s].gen <= generation /\ sockets[s].gen \in Nat
    BY SMT, Z3, <2>1 DEF OneSocket, StreamTyped, SocketMap, SocketType
  <2> QED
    BY SMT, Z3, <1>1, <2>1, <2>2
<1>5. /\ ~timer' /\ timer' \in BOOLEAN
      /\ generation' \in 0..MaxGenerations /\ gaps' \subseteq GapType
  <2>1. ~timer' /\ timer' \in BOOLEAN
    BY <1>1
  <2>2. generation' \in 0..MaxGenerations
    BY SMT, Z3, <1>1, <1>2, StreamBounds
  <2>3. gaps' \subseteq GapType
    BY DEF StreamTyped
  <2> QED
    BY <2>1, <2>2, <2>3
<1>6. CASE subscribed # {}
  <2>1. ConnectStream(ss, generation + 1)
    BY <1>6 DEF RestartStream
  <2>2. /\ sockets' \in SocketMap
        /\ \A s \in Slots : sockets'[s] # None =>
             /\ sockets'[s].gen <= generation'
             /\ sockets'[s].gen = generation' => s = socket'
    BY <1>1, <1>2, <1>3, <1>4, <2>1, Connects
  <2> QED
    BY <1>1, <1>5, <2>2 DEF StreamTyped, OneSocket
<1>7. CASE subscribed = {}
  <2>1. socket' = None /\ sockets' = ss
    BY <1>7 DEF RestartStream
  <2>2. \A s \in Slots : ss[s] # None => ss[s].gen \in Nat
    BY SMT, Z3, <1>3 DEF SocketMap, SocketType
  <2>3. \A s \in Slots : sockets'[s] # None =>
          /\ sockets'[s].gen <= generation'
          /\ sockets'[s].gen = generation' => s = socket'
    BY SMT, Z3, <1>1, <1>4, <2>1, <2>2
  <2> QED
    BY <1>1, <1>3, <1>5, <2>1, <2>3 DEF StreamTyped, OneSocket
<1> QED
  BY <1>6, <1>7

\* Steps that open no socket.
LEMMA SocketsKeep ==
  ASSUME StreamTyped, OneSocket, SameSockets(sockets, sockets'),
         UNCHANGED <<socket, timer, generation>>, gaps' \subseteq GapType
  PROVE  StreamTyped' /\ OneSocket'
<1>1. StreamTyped'
  BY DEF StreamTyped, SameSockets
<1>2. ASSUME NEW s \in Slots, sockets'[s] # None
      PROVE  /\ sockets'[s].gen <= generation'
             /\ sockets'[s].gen = generation' => s = socket'
  BY <1>2 DEF SameSockets, OneSocket
<1> QED
  BY <1>1, <1>2 DEF OneSocket

\* One socket is replaced by one of its generation.
LEMMA SocketReplaced ==
  ASSUME NEW ss \in SocketMap, NEW s \in Slots, ss[s] # None,
         NEW x \in SocketType, x.gen = ss[s].gen
  PROVE  SameSockets(ss, [ss EXCEPT ![s] = x])
BY DEF SameSockets, SocketMap


----------------------------------------------------------------------------
(* Each step keeps the types and the one socket.                            *)

\* Nothing is connected at the start.
LEMMA InitAgentInv == AgentInit => AgentInv
<1> SUFFICES ASSUME AgentInit PROVE AgentInv
  BY SMT, Z3
<1>1. GatewayTyped /\ CommandTyped
  BY SMT, Z3, StreamBounds DEF AgentInit, GatewayTyped, CommandTyped
<1>2. StreamTyped
  <2>1. sockets \in SocketMap /\ generation \in 0..MaxGenerations /\ gaps = {}
    BY SMT, Z3, StreamBounds DEF AgentInit, SocketMap
  <2>2. timer \in BOOLEAN
    BY DEF AgentInit
  <2> QED
    BY <2>1, <2>2 DEF StreamTyped
<1>3. OneSocket
  BY DEF AgentInit, OneSocket
<1> QED
  BY <1>1, <1>2, <1>3 DEF AgentInv

\* onSocketMessage, in each of its outcomes.
LEMMA HelloInv ==
  ASSUME AgentInv, NEW s \in Slots, Hello(s)
  PROVE  AgentInv'
<1> DEFINE t == sockets[s].token
           refused(code) == [sockets[s] EXCEPT !.phase = "closed",
                               !.frames = <<<<"error", code>>, <<"close">>>>]
           welcome == [sockets[s] EXCEPT !.phase = "ready",
                                         !.frames = <<<<"ready">>>>]
<1>1. sockets \in SocketMap /\ sockets[s] \in SocketType /\ sockets[s] # None
  BY DEF AgentInv, StreamTyped, SocketMap, Hello
<1>2. welcome \in SocketType /\ welcome.gen = sockets[s].gen
  <2>1. <<<<"ready">>>> \in Seq(Frames)
    BY SMT, Z3, FrameKinds
  <2> QED
    BY <1>1, <2>1, SocketChanged
<1>3. \A code \in {"unauthenticated", "revoked"} :
        refused(code) \in SocketType /\ refused(code).gen = sockets[s].gen
  <2> SUFFICES ASSUME NEW code \in {"unauthenticated", "revoked"}
               PROVE  refused(code) \in SocketType
                      /\ refused(code).gen = sockets[s].gen
    OBVIOUS
  <2>1. <<<<"error", code>>, <<"close">>>> \in Seq(Frames)
    BY SMT, Z3, FrameKinds
  <2> QED
    BY <1>1, <2>1, SocketChanged
<1>4. SameSockets(sockets, EndStreams(sockets, t))
  BY <1>1, EndStreamsKeeps
<1>5. alive' \subseteq alive
  BY DEF Hello
<1>6. /\ UNCHANGED <<log, lapsed, lastSequence, session, command, channels>>
      /\ UNCHANGED <<socket, timer, generation, gaps>>
  BY DEF Hello
<1>7. SameSockets(sockets, sockets')
  <2>1. \/ sockets' = [sockets EXCEPT ![s] = welcome]
        \/ \E code \in {"unauthenticated", "revoked"} :
             sockets' = [sockets EXCEPT ![s] = refused(code)]
        \/ \E code \in {"unauthenticated", "revoked"} :
             sockets' = [EndStreams(sockets, t) EXCEPT ![s] = refused(code)]
    BY DEF Hello
  <2> HIDE DEF t, refused, welcome
  <2>2. CASE sockets' = [sockets EXCEPT ![s] = welcome]
    BY <1>1, <1>2, <2>2, SocketReplaced
  <2>3. ASSUME NEW code \in {"unauthenticated", "revoked"},
               sockets' = [sockets EXCEPT ![s] = refused(code)]
        PROVE  SameSockets(sockets, sockets')
    BY <1>1, <1>3, <2>3, SocketReplaced
  <2>4. ASSUME NEW code \in {"unauthenticated", "revoked"},
               sockets' = [EndStreams(sockets, t) EXCEPT ![s] = refused(code)]
        PROVE  SameSockets(sockets, sockets')
    BY <1>1, <1>3, <1>4, <2>4 DEF SameSockets, SocketMap
  <2> QED
    BY <2>1, <2>2, <2>3, <2>4
<1>8. GatewayTyped' /\ CommandTyped'
  BY <1>5, <1>6 DEF AgentInv, GatewayTyped, CommandTyped
<1> QED
  BY <1>6, <1>7, <1>8, SocketsKeep DEF AgentInv, StreamTyped

\* Revocation, expiry, another author's post and a lost connection.
LEMMA OutsideInv ==
  ASSUME AgentInv,
         \/ \E t \in Tokens : Revoked(t) \/ Lapse(t)
         \/ \E s \in Slots : Cut(s)
         \/ \E c \in Channels : OtherPosts(c)
  PROVE  AgentInv'
<1>1. sockets \in SocketMap /\ GatewayTyped /\ CommandTyped
  BY DEF AgentInv, StreamTyped
<1>2. ASSUME NEW t \in Tokens, Revoked(t)
      PROVE  AgentInv'
  <2>1. SameSockets(sockets, sockets')
    BY <1>1, <1>2, EndStreamsKeeps DEF Revoked
  <2>2. GatewayTyped' /\ CommandTyped'
    BY <1>1, <1>2 DEF Revoked, GatewayTyped, CommandTyped
  <2> QED
    BY <1>2, <2>1, <2>2, SocketsKeep DEF AgentInv, StreamTyped, Revoked
<1>3. ASSUME NEW t \in Tokens, Lapse(t)
      PROVE  AgentInv'
  <2>1. GatewayTyped' /\ CommandTyped'
    BY <1>1, <1>3 DEF Lapse, GatewayTyped, CommandTyped
  <2> QED
    BY <1>3, <2>1 DEF AgentInv, StreamTyped, OneSocket, Lapse
<1>4. ASSUME NEW s \in Slots, Cut(s)
      PROVE  AgentInv'
  <2>1. sockets[s] \in SocketType /\ sockets[s] # None
    BY <1>1, <1>4 DEF SocketMap, Cut
  <2>2. PICK kept \in 0..Len(sockets[s].frames) :
          sockets' = [sockets EXCEPT ![s] =
            [@ EXCEPT !.phase = "closed", !.frames =
               Append(SubSeq(sockets[s].frames, 1, kept), <<"close">>)]]
    BY <1>4 DEF Cut
  <2>3. sockets[s].frames \in Seq(Frames)
    BY <2>1 DEF SocketType
  <2>4. SubSeq(sockets[s].frames, 1, kept) \in Seq(Frames)
    BY SMT, Z3, <2>3, SubSeqProperties
  <2>5. Append(SubSeq(sockets[s].frames, 1, kept), <<"close">>) \in Seq(Frames)
    BY SMT, Z3, <2>4, FrameKinds
  <2> DEFINE cut == Append(SubSeq(sockets[s].frames, 1, kept), <<"close">>)
             x == [sockets[s] EXCEPT !.phase = "closed", !.frames = cut]
  <2>6. SameSockets(sockets, sockets')
    <3>1. sockets' = [sockets EXCEPT ![s] = x]
      BY <2>2
    <3>2. cut \in Seq(Frames)
      BY <2>5
    <3> HIDE DEF cut
    <3>3. x \in SocketType /\ x.gen = sockets[s].gen
      BY <2>1, <3>2, SocketChanged
    <3> HIDE DEF x
    <3> QED
      BY <1>1, <2>1, <3>1, <3>3, SocketReplaced
  <2>7. GatewayTyped' /\ CommandTyped'
    BY <1>1, <1>4 DEF Cut, GatewayTyped, CommandTyped
  <2> QED
    BY <1>4, <2>6, <2>7, SocketsKeep DEF AgentInv, StreamTyped, Cut
<1>5. ASSUME NEW c \in Channels, OtherPosts(c)
      PROVE  AgentInv'
  <2>1. log[c] + 1 \in 1..MaxLog /\ log' \in [Channels -> 0..MaxLog]
    BY SMT, Z3, <1>1, <1>5, StreamBounds DEF OtherPosts, GatewayTyped
  <2>2. SameSockets(sockets, sockets')
    BY <1>1, <1>5, <2>1, BroadcastKeeps DEF OtherPosts
  <2>3. GatewayTyped' /\ CommandTyped'
    BY <1>1, <1>5, <2>1 DEF OtherPosts, GatewayTyped, CommandTyped
  <2> QED
    BY <1>5, <2>2, <2>3, SocketsKeep DEF AgentInv, StreamTyped, OtherPosts
<1> QED
  BY <1>2, <1>3, <1>4, <1>5


\* onopen sends the token and the channels of the moment.
LEMMA OnOpenInv ==
  ASSUME AgentInv, NEW s \in Slots, OnOpen(s)
  PROVE  AgentInv'
<1> DEFINE t == IF session = None THEN None ELSE session.token
           x == [sockets[s] EXCEPT !.phase = "asked", !.chans = channels,
                                   !.token = t]
<1>1. sockets \in SocketMap /\ sockets[s] \in SocketType /\ sockets[s] # None
  BY DEF AgentInv, StreamTyped, SocketMap, OnOpen
<1>2. t \in Tokens \union {None} /\ channels \in SUBSET Channels
  BY DEF AgentInv, CommandTyped, SessionRow
<1>3. sockets' = [sockets EXCEPT ![s] = x]
  BY DEF OnOpen
<1> HIDE DEF t
<1>4. x \in SocketType /\ x.gen = sockets[s].gen
  BY <1>1, <1>2 DEF SocketType
<1> HIDE DEF x
<1>5. SameSockets(sockets, sockets')
  BY <1>1, <1>3, <1>4, SocketReplaced
<1>6. GatewayTyped' /\ CommandTyped'
  BY DEF AgentInv, OnOpen, GatewayTyped, CommandTyped, gatewayVars
<1> QED
  BY <1>5, <1>6, SocketsKeep DEF AgentInv, StreamTyped, OnOpen

\* fillGap asks about one channel at a time.
LEMMA FetchTyped ==
  ASSUME NEW g \in Nat, NEW left \in SUBSET Channels,
         NEW next \in NextFetch(g, left)
  PROVE  next \subseteq GapType
BY SMT, Z3 DEF NextFetch, GapType

\* onmessage and onclose.
LEMMA DeliverInv ==
  ASSUME AgentInv, NEW s \in Slots, Deliver(s)
  PROVE  AgentInv'
<1> DEFINE frame == Head(sockets[s].frames)
           x == [sockets[s] EXCEPT !.frames = Tail(@)]
<1>1. /\ sockets \in SocketMap /\ sockets[s] \in SocketType /\ sockets[s] # None
      /\ sockets[s].frames \in Seq(Frames) /\ sockets[s].frames # << >>
  BY DEF AgentInv, StreamTyped, SocketMap, SocketType, Deliver, HandleFrame
<1>2. Tail(sockets[s].frames) \in Seq(Frames)
  BY <1>1, HeadTailProperties
<1>3. x \in SocketType /\ x.gen = sockets[s].gen
  BY <1>1, <1>2, SocketChanged
<1>4. sockets' = [sockets EXCEPT ![s] = IF frame[1] = "close" THEN None ELSE x]
  BY DEF Deliver, HandleFrame
<1> HIDE DEF x
<1>5. SameSockets(sockets, sockets')
  BY <1>1, <1>3, <1>4 DEF SameSockets, SocketMap
<1>6. /\ generation \in Nat /\ generation \in 0..MaxGenerations
      /\ channels \in SUBSET Channels /\ gaps \subseteq GapType
  BY SMT, Z3, StreamBounds DEF AgentInv, StreamTyped, CommandTyped
<1>7. gaps' \subseteq GapType
  <2>1. \/ gaps' = gaps
        \/ \E next \in NextFetch(generation, channels) : gaps' = gaps \union next
    BY DEF Deliver, HandleFrame
  <2> QED
    BY <1>6, <2>1, FetchTyped
<1>8. session' \in {None, session}
      /\ UNCHANGED <<gatewayVars, command, channels, generation>>
  BY DEF Deliver, HandleFrame
<1>9. GatewayTyped' /\ CommandTyped'
  BY <1>8 DEF AgentInv, GatewayTyped, CommandTyped, gatewayVars
<1>10. CASE Current(s) /\ frame[1] = "close"
  <2>1. socket' = None /\ timer' = TRUE /\ sockets'[s] = None
    BY <1>1, <1>4, <1>10 DEF Deliver, HandleFrame, SocketMap
  <2>2. s = socket /\ generation > 0
    BY SMT, Z3, <1>1, <1>6, <1>10 DEF AgentInv, OneSocket, Current, SocketType
  <2>3. ASSUME NEW u \in Slots, sockets'[u] # None
        PROVE  /\ sockets'[u].gen <= generation'
               /\ sockets'[u].gen = generation' => u = socket'
    <3>1. u # s /\ sockets[u] # None /\ sockets'[u].gen = sockets[u].gen
      BY <1>5, <2>1, <2>3 DEF SameSockets
    <3> QED
      BY <1>8, <2>2, <3>1 DEF AgentInv, OneSocket
  <2>4. timer' \in BOOLEAN
    BY <2>1
  <2>5. StreamTyped'
    BY <1>5, <1>6, <1>7, <1>8, <2>4 DEF StreamTyped, SameSockets
  <2>6. OneSocket'
    BY <1>8, <2>1, <2>2, <2>3 DEF OneSocket
  <2> QED
    BY <1>9, <2>5, <2>6 DEF AgentInv
<1>11. CASE ~(Current(s) /\ frame[1] = "close")
  <2>1. UNCHANGED <<socket, timer>>
    BY <1>11 DEF Deliver, HandleFrame
  <2> QED
    BY <1>5, <1>7, <1>8, <1>9, <2>1, SocketsKeep DEF AgentInv
<1> QED
  BY <1>10, <1>11

\* scheduleReconnect's callback: there is no socket of the generation.
LEMMA TimerInv ==
  ASSUME AgentInv, TimerFires
  PROVE  AgentInv'
<1>1. /\ socket = None /\ generation \in 1..MaxGenerations
      /\ sockets \in SocketMap
  BY SMT, Z3, StreamBounds DEF AgentInv, OneSocket, StreamTyped, TimerFires
<1>2. ASSUME NEW s \in Slots, sockets[s] # None
      PROVE  sockets[s].gen < generation
  <2>1. sockets[s].gen <= generation /\ sockets[s].gen \in Nat
    BY SMT, Z3, <1>1, <1>2 DEF AgentInv, OneSocket, SocketMap, SocketType
  <2>2. sockets[s].gen # generation
    <3>1. s # None
      BY SMT, Z3, StreamBounds, AgentAssumption DEF Slots
    <3> QED
      BY <1>1, <1>2, <3>1 DEF AgentInv, OneSocket
  <2> QED
    BY SMT, Z3, <1>1, <2>1, <2>2
<1>3. /\ sockets' \in SocketMap
      /\ \A s \in Slots : sockets'[s] # None =>
           /\ sockets'[s].gen <= generation
           /\ sockets'[s].gen = generation => s = socket'
  BY <1>1, <1>2, Connects DEF TimerFires
<1>4. UNCHANGED <<gatewayVars, session, command, channels, generation, gaps>>
  BY DEF TimerFires
<1>5. ~timer' /\ timer' \in BOOLEAN
  BY DEF TimerFires
<1>6. GatewayTyped' /\ CommandTyped'
  BY <1>4 DEF AgentInv, GatewayTyped, CommandTyped, gatewayVars
<1>7. StreamTyped'
  BY <1>3, <1>4, <1>5 DEF AgentInv, StreamTyped
<1>8. OneSocket'
  BY <1>3, <1>4, <1>5 DEF OneSocket
<1> QED
  BY <1>6, <1>7, <1>8 DEF AgentInv


\* fillGap: the answer, its use and its failure.
LEMMA GapInv ==
  ASSUME AgentInv, NEW g \in gaps,
         GapAnswered(g) \/ GapApplied(g) \/ GapFailed(g)
  PROVE  AgentInv'
<1>1. /\ g \in GapType /\ gaps \subseteq GapType
      /\ log \in [Channels -> 0..MaxLog]
  BY DEF AgentInv, StreamTyped, GatewayTyped
<1>2. UNCHANGED <<gatewayVars, session, command, channels, streamVars>>
  BY DEF GapAnswered, GapApplied, GapFailed
<1>3. gaps' \subseteq GapType
  <2>1. CASE GapAnswered(g)
    <3>1. [g EXCEPT !.answer = log[g.channel]] \in GapType
      BY <1>1 DEF GapType
    <3> QED
      BY <1>1, <2>1, <3>1 DEF GapAnswered
  <2>2. CASE GapApplied(g)
    <3>1. g.gen \in Nat /\ g.left \in SUBSET Channels
      BY <1>1 DEF GapType
    <3>2. \/ gaps' = gaps \ {g}
          \/ \E next \in NextFetch(g.gen, g.left) :
               gaps' = (gaps \ {g}) \union next
      BY <2>2 DEF GapApplied
    <3> QED
      BY <1>1, <3>1, <3>2, FetchTyped
  <2>3. CASE GapFailed(g)
    BY <1>1, <2>3 DEF GapFailed
  <2> QED
    BY <2>1, <2>2, <2>3
<1>4. GatewayTyped' /\ CommandTyped'
  BY <1>2 DEF AgentInv, GatewayTyped, CommandTyped, gatewayVars
<1>5. StreamTyped' /\ OneSocket'
  BY <1>2, <1>3 DEF AgentInv, StreamTyped, OneSocket, streamVars
<1> QED
  BY <1>4, <1>5 DEF AgentInv

\* Commands as the user gives them.
LEMMA CommandsInv ==
  ASSUME AgentInv, Commands
  PROVE  AgentInv'
<1>1. /\ GatewayTyped /\ CommandTyped /\ StreamTyped /\ OneSocket
      /\ SameSockets(sockets, sockets)
  BY DEF AgentInv, StreamTyped, SameSockets
<1>2. ASSUME NEW subscribed \in SUBSET Channels, Subscribe(subscribed)
      PROVE  AgentInv'
  <2>1. GatewayTyped' /\ CommandTyped'
    BY <1>1, <1>2 DEF Subscribe, GatewayTyped, CommandTyped, gatewayVars
  <2> QED
    BY <1>1, <1>2, <2>1, Restarts DEF Subscribe, AgentInv
<1>3. CASE SignIn
  <2>1. PICK t \in Tokens \ DOMAIN lastSequence :
          /\ alive' = alive \union {t}
          /\ lastSequence' = [u \in DOMAIN lastSequence \union {t} |->
                                IF u = t THEN 0 ELSE lastSequence[u]]
          /\ session' = [token |-> t, nextSequence |-> 1]
    BY <1>3 DEF SignIn
  <2>2. /\ command' = [cmd |-> "signin"]
        /\ UNCHANGED <<log, lapsed, channels, streamVars, gaps>>
    BY <1>3 DEF SignIn
  <2>3. DOMAIN lastSequence' = DOMAIN lastSequence \union {t}
    BY <2>1
  <2>4. GatewayTyped'
    BY <1>1, <2>1, <2>2, <2>3 DEF GatewayTyped
  <2>5. session' \in SessionRow /\ session'.token = t
    BY <2>1 DEF SessionRow
  <2>6. command' \in CommandType /\ command'.cmd = "signin"
    BY <2>2 DEF CommandType
  <2>7. CommandTyped'
    BY <1>1, <2>2, <2>3, <2>5, <2>6 DEF CommandTyped
  <2>8. StreamTyped' /\ OneSocket'
    BY <1>1, <2>2 DEF StreamTyped, OneSocket, streamVars
  <2> QED
    BY <2>4, <2>7, <2>8 DEF AgentInv
<1>4. CASE SignOut
  <2>1. command' \in CommandType /\ command'.cmd = "signout"
    BY <1>1, <1>4 DEF SignOut, CommandType, CommandTyped, SessionRow
  <2>2. GatewayTyped' /\ CommandTyped'
    BY <1>1, <1>4, <2>1 DEF SignOut, GatewayTyped, CommandTyped, gatewayVars
  <2> QED
    BY <1>1, <1>4, <2>2, Restarts DEF SignOut, AgentInv
<1>5. CASE ExpireSession
  <2>1. GatewayTyped' /\ CommandTyped'
    BY <1>1, <1>5 DEF ExpireSession, GatewayTyped, CommandTyped, gatewayVars
  <2> QED
    BY <1>1, <1>5, <2>1 DEF ExpireSession, AgentInv, StreamTyped, OneSocket,
         streamVars
<1>6. ASSUME NEW c \in Channels, History(c)
      PROVE  AgentInv'
  <2>1. command' \in CommandType /\ command'.cmd = "history"
    BY <1>6 DEF History, CommandType
  <2>2. GatewayTyped' /\ CommandTyped'
    BY <1>1, <1>6, <2>1 DEF History, GatewayTyped, CommandTyped, gatewayVars
  <2> QED
    BY <1>1, <1>6, <2>2 DEF History, AgentInv, StreamTyped, OneSocket,
         streamVars
<1>7. ASSUME NEW c \in Channels, Post(c)
      PROVE  AgentInv'
  <2>1. session \in SessionRow /\ session.token \in DOMAIN lastSequence
    BY <1>1, <1>7 DEF Post, CommandTyped
  <2>2. command' \in CommandType /\ command'.token = session.token
    BY SMT, Z3, <1>7, <2>1 DEF Post, CommandType, PostRow, SessionRow
  <2>3. GatewayTyped' /\ CommandTyped'
    BY <1>1, <1>7, <2>1, <2>2 DEF Post, GatewayTyped, CommandTyped, gatewayVars
  <2> QED
    BY <1>1, <1>7, <2>3 DEF Post, AgentInv, StreamTyped, OneSocket, streamVars
<1> QED
  BY <1>2, <1>3, <1>4, <1>5, <1>6, <1>7 DEF Commands


\* What a post, and what a history command carries.
LEMMA CommandFields ==
  ASSUME CommandTyped, command # None
  PROVE  /\ command.cmd = "post" =>
              /\ command \in PostRow
              /\ command.channel \in Channels /\ command.token \in Tokens
              /\ command.sequence \in Nat /\ command.seq \in Nat
              /\ command.accepted \in Nat
         /\ command.cmd = "history" =>
              /\ command \in [cmd : {"history"}, channel : Channels,
                              answer : 0..MaxLog \union {None}]
              /\ command.channel \in Channels
              /\ command.answer # None => command.answer \in 0..MaxLog
BY DEF CommandTyped, CommandType, PostRow

\* A post whose fields change keeps the others.
LEMMA PostChanged ==
  ASSUME NEW x \in PostRow, NEW y,
         \/ \E p \in {"sent", "accepted", "refetch"} : y = [x EXCEPT !.phase = p]
         \/ \E n \in Nat : y = [x EXCEPT !.seq = n]
         \/ \E n \in Nat : y = [x EXCEPT !.sequence = n]
         \/ \E n \in Nat : y = [x EXCEPT !.accepted = n]
         \/ y = [x EXCEPT !.attempt = 1]
  PROVE  /\ y \in PostRow /\ y.token = x.token
         /\ (y.phase = x.phase \/ y = [x EXCEPT !.phase = y.phase])
         /\ (y.accepted = x.accepted \/ y = [x EXCEPT !.accepted = y.accepted])
BY SMT, Z3 DEF PostRow

\* A command ends and nothing but the session and the streams changes.
LEMMA CommandEnds ==
  ASSUME AgentInv, command' = None, session' \in {None, session},
         alive' \subseteq alive, UNCHANGED <<log, lapsed, lastSequence, channels>>
  PROVE  GatewayTyped' /\ CommandTyped'
BY DEF AgentInv, GatewayTyped, CommandTyped

\* The answers of the commands other than post.
LEMMA AnswersInv ==
  ASSUME AgentInv,
         \/ SignInDone \/ \E arrives \in BOOLEAN : SignOutDone(arrives)
         \/ HistoryAnswered \/ HistoryDone
  PROVE  AgentInv'
<1>1. /\ GatewayTyped /\ CommandTyped /\ StreamTyped /\ OneSocket
      /\ SameSockets(sockets, sockets) /\ sockets \in SocketMap
  BY DEF AgentInv, StreamTyped, SameSockets
<1>2. CASE SignInDone
  <2>1. GatewayTyped' /\ CommandTyped'
    BY <1>2, CommandEnds DEF SignInDone, gatewayVars
  <2>2. StreamTyped' /\ OneSocket'
    <3>1. CASE session = None
      BY <1>1, <1>2, <3>1 DEF SignInDone, StreamTyped, OneSocket, streamVars
    <3>2. CASE session # None
      BY <1>1, <1>2, <3>2, Restarts DEF SignInDone
    <3> QED
      BY <3>1, <3>2
  <2> QED
    BY <2>1, <2>2 DEF AgentInv
<1>3. ASSUME NEW arrives \in BOOLEAN, SignOutDone(arrives)
      PROVE  AgentInv'
  <2>1. alive' \subseteq alive /\ UNCHANGED <<socket, timer, generation, gaps>>
    BY <1>3 DEF SignOutDone
  <2>2. GatewayTyped' /\ CommandTyped'
    BY <1>3, <2>1, CommandEnds DEF SignOutDone
  <2>3. SameSockets(sockets, sockets')
    BY <1>1, <1>3, EndStreamsKeeps DEF SignOutDone
  <2> QED
    BY <1>1, <2>1, <2>2, <2>3, SocketsKeep DEF AgentInv, StreamTyped
<1>4. CASE HistoryAnswered
  <2>1. command' \in CommandType /\ command'.cmd = "history"
    BY <1>1, <1>4, CommandFields DEF HistoryAnswered, CommandType, GatewayTyped
  <2>2. GatewayTyped' /\ CommandTyped'
    BY <1>1, <1>4, <2>1 DEF HistoryAnswered, GatewayTyped, CommandTyped,
         gatewayVars
  <2> QED
    BY <1>1, <1>4, <2>2 DEF HistoryAnswered, AgentInv, StreamTyped, OneSocket,
         streamVars
<1>5. CASE HistoryDone
  <2>1. GatewayTyped' /\ CommandTyped'
    BY <1>5, CommandEnds DEF HistoryDone, gatewayVars
  <2> QED
    BY <1>1, <1>5, <2>1 DEF HistoryDone, AgentInv, StreamTyped, OneSocket,
         streamVars
<1> QED
  BY <1>2, <1>3, <1>4, <1>5

\* The answers of post.
LEMMA PostAnswersInv ==
  ASSUME AgentInv,
         \/ PostAccepted \/ PostReplied \/ PostUnauthenticated
         \/ PostOutOfSequence \/ PostLost \/ PostRetry \/ PostRetryFailed
  PROVE  AgentInv'
<1>1. /\ GatewayTyped /\ CommandTyped /\ StreamTyped /\ OneSocket
      /\ SameSockets(sockets, sockets) /\ sockets \in SocketMap
  BY DEF AgentInv, StreamTyped, SameSockets
<1>2. command # None /\ command.cmd = "post"
  BY DEF PostAccepted, PostReplied, PostUnauthenticated, PostOutOfSequence,
       PostLost, PostRetry, PostRetryFailed, IsPost
<1>3. command \in PostRow /\ command.token \in DOMAIN lastSequence
  BY <1>1, <1>2, CommandFields DEF CommandTyped
<1>4. CASE PostAccepted
  <2> DEFINE c == command.channel
  <2>1. /\ c \in Channels /\ log[c] + 1 \in 1..MaxLog
        /\ log' \in [Channels -> 0..MaxLog]
    BY SMT, Z3, <1>1, <1>3, <1>4, StreamBounds DEF PostAccepted, PostRow,
         GatewayTyped
  <2>2. SameSockets(sockets, sockets')
    BY <1>1, <1>4, <2>1, BroadcastKeeps DEF PostAccepted
  <2>3. lastSequence' = [lastSequence EXCEPT ![command.token] = command.sequence]
        /\ DOMAIN lastSequence' = DOMAIN lastSequence
    BY <1>4 DEF PostAccepted
  <2>4. lastSequence' \in [DOMAIN lastSequence -> Nat]
    BY <1>1, <1>3, <2>3 DEF GatewayTyped, PostRow
  <2>5. command' \in CommandType /\ command'.token = command.token
    <3>1. PICK n \in Nat : n = log[c] + 1
      BY SMT, Z3, <2>1
    <3>2. PICK x : x = [command EXCEPT !.phase = "accepted"]
      OBVIOUS
    <3>3. PICK y : y = [x EXCEPT !.seq = n]
      OBVIOUS
    <3>4. x \in PostRow /\ x.token = command.token
      BY <1>3, <3>2, PostChanged
    <3>5. y \in PostRow /\ y.token = command.token
      BY <3>1, <3>3, <3>4, PostChanged
    <3>6. command' = [y EXCEPT !.accepted = @ + 1]
      BY <1>4, <3>1, <3>2, <3>3 DEF PostAccepted
    <3>7. y.accepted + 1 \in Nat
      BY SMT, Z3, <3>5 DEF PostRow
    <3>8. command' = [y EXCEPT !.accepted = y.accepted + 1]
      BY <3>6
    <3>9. command' \in PostRow /\ command'.token = command.token
      BY <3>5, <3>7, <3>8, PostChanged
    <3> QED
      BY <3>9 DEF CommandType
  <2>6. GatewayTyped'
    BY <1>1, <1>4, <2>1, <2>3, <2>4 DEF PostAccepted, GatewayTyped
  <2>7. CommandTyped'
    BY <1>1, <1>3, <1>4, <2>3, <2>5 DEF PostAccepted, CommandTyped
  <2>8. StreamTyped' /\ OneSocket'
    BY <1>1, <1>4, <2>2, SocketsKeep DEF PostAccepted, StreamTyped
  <2> QED
    BY <2>6, <2>7, <2>8 DEF AgentInv
<1>5. CASE PostReplied
  <2>1. /\ session' \in SessionRow \union {None} /\ command' = None
        /\ session' # None => session # None /\ session'.token = session.token
    BY SMT, Z3, <1>1, <1>3, <1>5 DEF PostReplied, PostRow, CommandTyped,
         SessionRow
  <2>2. GatewayTyped' /\ CommandTyped'
    BY <1>1, <1>5, <2>1 DEF PostReplied, GatewayTyped, CommandTyped, gatewayVars
  <2> QED
    BY <1>1, <1>5, <2>2 DEF PostReplied, AgentInv, StreamTyped, OneSocket,
         streamVars
<1>6. CASE PostUnauthenticated
  <2>1. GatewayTyped' /\ CommandTyped'
    BY <1>6, CommandEnds DEF PostUnauthenticated
  <2>2. SameSockets(sockets, EndStreams(sockets, command.token))
    BY <1>1, EndStreamsKeeps
  <2> QED
    BY <1>1, <1>6, <2>1, <2>2, Restarts DEF PostUnauthenticated, AgentInv
<1>7. CASE PostOutOfSequence \/ PostLost
  <2>1. command' \in {None, [command EXCEPT !.phase = "refetch"]}
        /\ UNCHANGED <<gatewayVars, session, channels, streamVars, gaps>>
    BY <1>7 DEF PostOutOfSequence, PostLost
  <2>2. /\ [command EXCEPT !.phase = "refetch"] \in CommandType
        /\ [command EXCEPT !.phase = "refetch"].token = command.token
    BY <1>3 DEF CommandType, PostRow
  <2>3. GatewayTyped' /\ CommandTyped'
    BY <1>1, <1>3, <2>1, <2>2 DEF GatewayTyped, CommandTyped, gatewayVars
  <2> QED
    BY <1>1, <2>1, <2>3 DEF AgentInv, StreamTyped, OneSocket, streamVars
<1>8. CASE PostRetry
  <2> DEFINE next == lastSequence[command.token] + 1
             again == [command EXCEPT !.phase = "sent", !.attempt = 1,
                                      !.sequence = next]
  <2>1. next \in Nat
    BY SMT, Z3, <1>1, <1>3 DEF GatewayTyped
  <2>2. \/ command' = None /\ UNCHANGED session
        \/ /\ session # None /\ command' = again
           /\ session' = [session EXCEPT !.nextSequence = next]
    BY <1>8 DEF PostRetry
  <2>3. UNCHANGED <<gatewayVars, channels, streamVars, gaps>>
    BY <1>8 DEF PostRetry
  <2> HIDE DEF next
  <2>4. again \in CommandType /\ again.token = command.token
    <3>1. PICK x : x = [command EXCEPT !.phase = "sent"]
      OBVIOUS
    <3>2. PICK y : y = [x EXCEPT !.attempt = 1]
      OBVIOUS
    <3>3. x \in PostRow /\ x.token = command.token
      BY <1>3, <3>1, PostChanged
    <3>4. y \in PostRow /\ y.token = command.token
      BY <3>2, <3>3, PostChanged
    <3>5. again = [y EXCEPT !.sequence = next]
      BY <3>1, <3>2
    <3> HIDE DEF again
    <3>6. again \in PostRow /\ again.token = command.token
      BY <2>1, <3>4, <3>5, PostChanged
    <3> QED
      BY <3>6 DEF CommandType
  <2>5. session # None =>
          /\ [session EXCEPT !.nextSequence = next] \in SessionRow
          /\ [session EXCEPT !.nextSequence = next].token = session.token
    BY <1>1, <2>1 DEF CommandTyped, SessionRow
  <2> HIDE DEF again
  <2>6. GatewayTyped' /\ CommandTyped'
    BY <1>1, <1>3, <2>2, <2>3, <2>4, <2>5 DEF GatewayTyped, CommandTyped,
         gatewayVars
  <2> QED
    BY <1>1, <2>3, <2>6 DEF AgentInv, StreamTyped, OneSocket, streamVars
<1>9. CASE PostRetryFailed
  <2>1. alive' \subseteq alive /\ UNCHANGED <<socket, timer, generation, gaps>>
    BY <1>9 DEF PostRetryFailed
  <2>2. GatewayTyped' /\ CommandTyped'
    BY <1>9, <2>1, CommandEnds DEF PostRetryFailed
  <2>3. SameSockets(sockets, sockets')
    BY <1>1, <1>9, EndStreamsKeeps DEF PostRetryFailed
  <2> QED
    BY <1>1, <2>1, <2>2, <2>3, SocketsKeep DEF AgentInv, StreamTyped
<1> QED
  BY <1>4, <1>5, <1>6, <1>7, <1>8, <1>9

\* One step of the agent or of its gateway.
LEMMA NextAgentInv == AgentInv /\ [AgentNext]_agentVars => AgentInv'
<1> SUFFICES ASSUME AgentInv, [AgentNext]_agentVars
             PROVE  AgentInv'
  BY SMT, Z3
<1>1. CASE Commands
  BY <1>1, CommandsInv
<1>2. CASE Answers
  BY <1>2, AnswersInv, PostAnswersInv DEF Answers
<1>3. CASE Stream
  BY <1>3, HelloInv, OnOpenInv, DeliverInv, TimerInv, GapInv DEF Stream
<1>4. CASE Environment \/ OthersPost
  BY <1>4, OutsideInv, GapInv DEF Environment, OthersPost
<1>5. CASE UNCHANGED agentVars
  BY <1>5 DEF agentVars, AgentInv, GatewayTyped, CommandTyped, StreamTyped,
       OneSocket
<1> QED
  BY <1>1, <1>2, <1>3, <1>4, <1>5 DEF AgentNext

\* The invariant behind what follows, for any number of channels, sessions,
\* sockets, lost connections and commands.
LEMMA AgentInvariant == AgentSpec => []AgentInv
BY InitAgentInv, NextAgentInv, PTL DEF AgentSpec

\* Types, and at most one socket of the current generation, whose timer never
\* runs beside it (connectStream, stopStream, scheduleReconnect).
THEOREM OneStream == AgentSpec => []AgentTypeOK
<1>1. AgentInv => AgentTypeOK
  BY DEF AgentInv, AgentTypeOK, GatewayTyped, CommandTyped, StreamTyped,
       OneSocket, SessionRow, SocketMap
<1> QED
  BY <1>1, AgentInvariant, PTL


----------------------------------------------------------------------------
(* The message events, and the posts.                                       *)

\* A post that may still be sent has not been accepted.
PostInv ==
  command # None /\ command.cmd = "post" =>
    command.accepted = IF command.phase = "accepted" THEN 1 ELSE 0

Increasing(s) == \A i, j \in DOMAIN s : i < j => s[i] < s[j]

UpTo(s, n) == \A i \in DOMAIN s : s[i] <= n

\* What the agent has seen: a sequence number bounds all that was emitted.
EmitInv ==
  /\ lastSeq \in [Channels -> Nat]
  /\ emitted \in [Channels -> Seq(Nat)]
  /\ \A c \in Channels :
       UpTo(emitted[c], lastSeq[c]) /\ Increasing(emitted[c])

\* A run of numbers above a bound keeps an increasing sequence increasing.
LEMMA RunAppended ==
  ASSUME NEW s \in Seq(Nat), NEW l \in Nat, NEW first \in Nat, NEW n \in Nat,
         l < first, UpTo(s, l), Increasing(s),
         NEW run, run = [k \in 1..(IF n >= first THEN n + 1 - first ELSE 0)
                           |-> first + k - 1]
  PROVE  /\ s \o run \in Seq(Nat)
         /\ Increasing(s \o run)
         /\ UpTo(s \o run, Upper(l, n))
<1> DEFINE m == IF n >= first THEN n + 1 - first ELSE 0
           t == s \o run
<1>1. m \in Nat /\ (m > 0 => first + m - 1 = n)
  BY SMT, Z3
<1>2. DOMAIN run = 1..m /\ \A k \in 1..m : run[k] = first + k - 1
  BY SMT, Z3
<1> HIDE DEF m
<1>3. run \in Seq(Nat) /\ Len(run) = m
  <2>1. \A k \in 1..m : run[k] \in Nat
    BY SMT, Z3, <1>1, <1>2
  <2>2. run \in [1..m -> Nat]
    BY <1>2, <2>1
  <2> QED
    BY SMT, Z3, <1>1, <2>2
<1>4. /\ t \in Seq(Nat) /\ Len(t) = Len(s) + m
      /\ \A i \in 1..Len(t) :
           t[i] = IF i <= Len(s) THEN s[i] ELSE run[i - Len(s)]
  <2>1. /\ t \in Seq(Nat) /\ Len(t) = Len(s) + Len(run)
        /\ \A i \in 1..Len(s) + Len(run) :
             t[i] = IF i <= Len(s) THEN s[i] ELSE run[i - Len(s)]
    BY SMT, Z3, <1>3, ConcatProperties
  <2> QED
    BY <1>3, <2>1
<1> HIDE DEF t
<1>5. DOMAIN t = 1..(Len(s) + m) /\ DOMAIN s = 1..Len(s) /\ Len(s) \in Nat
  BY SMT, Z3, <1>4
<1>6. \A i \in 1..Len(s) : t[i] = s[i] /\ t[i] <= l /\ t[i] \in Nat
  <2> TAKE i \in 1..Len(s)
  <2>1. i \in DOMAIN s /\ s[i] \in Nat
    BY SMT, Z3, <1>5
  <2>2. i \in 1..Len(t) /\ i <= Len(s)
    <3>1. Len(t) = Len(s) + m /\ Len(s) \in Nat
      BY <1>4, <1>5
    <3> QED
      BY SMT, Z3, <1>1, <3>1
  <2> QED
    BY <1>4, <2>1, <2>2 DEF UpTo
<1>7. \A i \in 1..(Len(s) + m) : i > Len(s) =>
        t[i] = first + (i - Len(s)) - 1
  <2> TAKE i \in 1..(Len(s) + m)
  <2> HAVE i > Len(s)
  <2>1. i \in 1..Len(t) /\ ~(i <= Len(s)) /\ i - Len(s) \in 1..m
    BY SMT, Z3, <1>1, <1>4, <1>5
  <2> QED
    BY <1>2, <1>4, <2>1
<1>8. Increasing(t)
  <2> SUFFICES ASSUME NEW i \in 1..(Len(s) + m), NEW j \in 1..(Len(s) + m),
                      i < j
               PROVE  t[i] < t[j]
    BY <1>5 DEF Increasing
  <2>1. CASE j <= Len(s)
    <3>1. i \in DOMAIN s /\ j \in DOMAIN s
      BY SMT, Z3, <1>1, <1>5, <2>1
    <3>2. s[i] < s[j] /\ t[i] = s[i] /\ t[j] = s[j]
      BY <1>5, <1>6, <3>1 DEF Increasing
    <3> QED
      BY <3>2
  <2>2. CASE i <= Len(s) /\ j > Len(s)
    BY SMT, Z3, <1>1, <1>5, <1>6, <1>7, <2>2
  <2>3. CASE i > Len(s)
    BY SMT, Z3, <1>1, <1>5, <1>7, <2>3
  <2> QED
    BY SMT, Z3, <1>1, <1>5, <2>1, <2>2, <2>3
<1>9. UpTo(t, Upper(l, n))
  <2> SUFFICES ASSUME NEW i \in 1..(Len(s) + m)
               PROVE  t[i] <= Upper(l, n)
    BY <1>5 DEF UpTo
  <2>1. CASE i <= Len(s)
    BY SMT, Z3, <1>5, <1>6, <2>1 DEF Upper
  <2>2. CASE i > Len(s)
    BY SMT, Z3, <1>1, <1>5, <1>7, <2>2 DEF Upper
  <2> QED
    BY SMT, Z3, <1>1, <1>5, <2>1, <2>2
<1> QED
  BY <1>4, <1>8, <1>9 DEF t

\* Messages newer than the last one seen are emitted, in order.
LEMMA EmitKeeps ==
  ASSUME EmitInv, NEW c \in Channels, NEW first \in Nat, NEW n \in Nat,
         lastSeq[c] < first, Emit(c, first, n)
  PROVE  EmitInv'
<1>1. PICK run : run = [k \in 1..(IF n >= first THEN n + 1 - first ELSE 0)
                          |-> first + k - 1]
  OBVIOUS
<1>2. /\ emitted' = [emitted EXCEPT ![c] = emitted[c] \o run]
      /\ lastSeq' = [lastSeq EXCEPT ![c] = Upper(lastSeq[c], n)]
  BY <1>1 DEF Emit
<1>3. /\ emitted[c] \in Seq(Nat) /\ lastSeq[c] \in Nat
      /\ UpTo(emitted[c], lastSeq[c]) /\ Increasing(emitted[c])
  BY DEF EmitInv
<1>4. /\ emitted[c] \o run \in Seq(Nat)
      /\ Increasing(emitted[c] \o run)
      /\ UpTo(emitted[c] \o run, Upper(lastSeq[c], n))
  BY <1>1, <1>3, RunAppended
<1>5. Upper(lastSeq[c], n) \in Nat
  BY <1>3 DEF Upper
<1> QED
  BY <1>2, <1>4, <1>5 DEF EmitInv

\* noteSeq: a reply moves the highest sequence number seen.
LEMMA NotedKeeps ==
  ASSUME EmitInv, NEW c \in Channels, NEW n \in Nat, UNCHANGED emitted,
         lastSeq' = [lastSeq EXCEPT ![c] = Upper(@, n)]
  PROVE  EmitInv'
<1>1. emitted[c] \in Seq(Nat) /\ lastSeq[c] \in Nat /\ UpTo(emitted[c], lastSeq[c])
  BY DEF EmitInv
<1>2. \A i \in DOMAIN emitted[c] : emitted[c][i] \in Nat
  BY SMT, Z3, <1>1
<1>3. Upper(lastSeq[c], n) \in Nat /\ lastSeq[c] <= Upper(lastSeq[c], n)
  BY SMT, Z3, <1>1 DEF Upper
<1>4. UpTo(emitted[c], Upper(lastSeq[c], n))
  BY SMT, Z3, <1>1, <1>2, <1>3 DEF UpTo
<1> QED
  BY <1>3, <1>4 DEF EmitInv

\* Live frames, gap fetches and replies, in any order.
LEMMA NextEmitInv == AgentInv /\ EmitInv /\ [AgentNext]_agentVars => EmitInv'
<1> SUFFICES ASSUME AgentInv, EmitInv, [AgentNext]_agentVars
             PROVE  EmitInv'
  BY SMT, Z3
<1>1. ASSUME UNCHANGED seenVars
      PROVE  EmitInv'
  BY <1>1 DEF EmitInv, seenVars
<1>2. ASSUME NEW s \in Slots, Deliver(s)
      PROVE  EmitInv'
  <2>1. sockets[s] \in SocketType /\ sockets[s].frames # << >>
    BY <1>2 DEF Deliver, HandleFrame, AgentInv, StreamTyped, SocketMap
  <2>2. sockets[s].frames \in Seq(Frames)
    BY <2>1 DEF SocketType
  <2>3. PICK frame \in Frames : frame = Head(sockets[s].frames)
    BY SMT, Z3, <2>1, <2>2
  <2>4. CASE frame[1] = "message" /\ frame[3] > lastSeq[frame[2]]
             /\ Emit(frame[2], frame[3], frame[3])
    <3>1. frame[2] \in Channels /\ frame[3] \in Nat
      BY SMT, Z3, <2>4, FrameKinds, StreamBounds
    <3>2. lastSeq[frame[2]] < frame[3]
      BY <2>4, <3>1 DEF EmitInv
    <3> QED
      BY <2>4, <3>1, <3>2, EmitKeeps
  <2>5. CASE UNCHANGED seenVars
    BY <1>1, <2>5
  <2> QED
    BY <1>2, <2>3, <2>4, <2>5 DEF Deliver, HandleFrame
<1>3. ASSUME NEW g \in gaps, GapApplied(g)
      PROVE  EmitInv'
  <2>1. g.channel \in Channels /\ g.answer \in Nat
    BY SMT, Z3, <1>3, StreamBounds DEF GapApplied, AgentInv, StreamTyped,
         GapType
  <2> DEFINE oldest == IF g.answer > HistoryFetch
                       THEN g.answer + 1 - HistoryFetch ELSE 1
             first == Upper(oldest, lastSeq[g.channel] + 1)
  <2>2. CASE Emit(g.channel, first, g.answer)
    <3>1. lastSeq[g.channel] \in Nat
      BY <2>1 DEF EmitInv
    <3>2. first \in Nat /\ lastSeq[g.channel] < first
      BY SMT, Z3, <2>1, <3>1, StreamBounds DEF Upper
    <3> HIDE DEF first
    <3> QED
      BY <2>1, <2>2, <3>2, EmitKeeps
  <2> QED
    BY <1>1, <1>3, <2>2 DEF GapApplied
<1>4. CASE HistoryDone
  <2>1. command.channel \in Channels /\ command.answer \in Nat
    BY SMT, Z3, <1>4, CommandFields, StreamBounds DEF HistoryDone, AgentInv,
         CommandTyped
  <2> QED
    BY <1>4, <2>1, NotedKeeps DEF HistoryDone
<1>5. CASE PostReplied
  <2>1. command.channel \in Channels /\ command.seq \in Nat
    BY <1>5, CommandFields DEF PostReplied, IsPost, AgentInv, CommandTyped,
         PostRow
  <2> QED
    BY <1>5, <2>1, NotedKeeps DEF PostReplied
<1>6. CASE Commands
  BY <1>1, <1>6 DEF Commands, Subscribe, SignIn, SignOut, ExpireSession,
       History, Post, seenVars
<1>7. CASE Answers
  BY <1>1, <1>4, <1>5, <1>7 DEF Answers, SignInDone, SignOutDone,
       HistoryAnswered, PostAccepted, PostUnauthenticated, PostOutOfSequence,
       PostLost, PostRetry, PostRetryFailed, seenVars
<1>8. CASE Stream
  BY <1>1, <1>2, <1>3, <1>8 DEF Stream, Hello, OnOpen, TimerFires, GapAnswered,
       seenVars
<1>9. CASE Environment \/ OthersPost
  BY <1>1, <1>9 DEF Environment, OthersPost, OtherPosts, Revoked, Lapse, Cut,
       GapFailed, seenVars
<1>10. CASE UNCHANGED agentVars
  BY <1>1, <1>10 DEF agentVars, seenVars
<1> QED
  BY <1>6, <1>7, <1>8, <1>9, <1>10 DEF AgentNext

\* Message events of a channel come in increasing sequence order, none twice,
\* whatever live frames, gap fetches and replies interleave (onStreamEvent,
\* fillGap, noteSeq).
THEOREM EventsInOrder == AgentSpec => []EmittedInOrder
<1>1. AgentInit => EmitInv
  BY SMT, Z3 DEF AgentInit, EmitInv, UpTo, Increasing
<1>2. EmitInv => EmittedInOrder
  BY DEF EmitInv, EmittedInOrder, Increasing
<1> QED
  BY <1>1, <1>2, NextEmitInv, AgentInvariant, PTL DEF AgentSpec


\* A post is accepted at most once: only a post that was refused is sent again.
LEMMA NextPostInv == AgentInv /\ PostInv /\ [AgentNext]_agentVars => PostInv'
<1> SUFFICES ASSUME AgentInv, PostInv, [AgentNext]_agentVars
             PROVE  PostInv'
  BY SMT, Z3
<1>1. ASSUME UNCHANGED command
      PROVE  PostInv'
  BY <1>1 DEF PostInv
<1>2. ASSUME command' = None
      PROVE  PostInv'
  BY <1>2 DEF PostInv
<1>3. ASSUME command # None, command.cmd = "post"
      PROVE  command \in PostRow
  BY <1>3, CommandFields DEF AgentInv, CommandTyped
<1>4. ASSUME NEW c \in Channels, History(c) \/ Post(c)
      PROVE  PostInv'
  BY SMT, Z3, <1>4 DEF History, Post, PostInv
<1>5. CASE SignIn \/ SignOut
  <2>1. \/ command' = [cmd |-> "signin"]
        \/ \E t : command' = [cmd |-> "signout", token |-> t]
    BY <1>5 DEF SignIn, SignOut
  <2>2. command'.cmd # "post"
    BY SMT, Z3, <2>1
  <2>. QED
    BY <2>2 DEF PostInv
<1>6. CASE HistoryAnswered
  <2>1. command \in [cmd : {"history"}, channel : Channels,
                     answer : 0..MaxLog \union {None}]
    BY <1>6, CommandFields DEF HistoryAnswered, AgentInv, CommandTyped
  <2>2. command'.cmd = "history"
    BY <1>6, <2>1 DEF HistoryAnswered
  <2> QED
    BY <2>2 DEF PostInv
<1>7. CASE PostAccepted
  <2>1. command \in PostRow /\ command.accepted = 0
    BY <1>3, <1>7 DEF PostAccepted, IsPost, PostInv
  <2>2. command'.phase = "accepted" /\ command'.accepted = 1
    BY SMT, Z3, <1>7, <2>1 DEF PostAccepted, PostRow
  <2> QED
    BY <2>2 DEF PostInv
<1>8. CASE PostOutOfSequence
  <2>1. command \in PostRow /\ command.accepted = 0
    BY <1>3, <1>8 DEF PostOutOfSequence, IsPost, PostInv
  <2>2. CASE command' = [command EXCEPT !.phase = "refetch"]
    <3>1. command'.phase = "refetch" /\ command'.accepted = 0
      BY <2>1, <2>2 DEF PostRow
    <3> QED
      BY <3>1 DEF PostInv
  <2> QED
    BY <1>2, <1>8, <2>2 DEF PostOutOfSequence
<1>9. CASE PostRetry
  <2>1. command \in PostRow /\ command.accepted = 0
    BY <1>3, <1>9 DEF PostRetry, IsPost, PostInv
  <2>2. CASE command' # None
    <3>1. command'.phase = "sent" /\ command'.accepted = 0
      BY <1>9, <2>1, <2>2 DEF PostRetry, PostRow
    <3> QED
      BY <3>1 DEF PostInv
  <2> QED
    BY <1>2, <2>2
<1>10. CASE Commands
  BY <1>1, <1>4, <1>5, <1>10 DEF Commands, Subscribe, ExpireSession
<1>11. CASE Answers
  BY <1>2, <1>6, <1>7, <1>8, <1>9, <1>11 DEF Answers, SignInDone, SignOutDone,
       HistoryDone, PostReplied, PostUnauthenticated, PostLost, PostRetryFailed
<1>12. CASE Stream
  BY <1>1, <1>12 DEF Stream, Hello, OnOpen, Deliver, HandleFrame, TimerFires,
       GapAnswered, GapApplied
<1>13. CASE Environment \/ OthersPost
  BY <1>1, <1>13 DEF Environment, OthersPost, OtherPosts, Revoked, Lapse, Cut,
       GapFailed
<1>14. CASE UNCHANGED agentVars
  BY <1>1, <1>14 DEF agentVars
<1> QED
  BY <1>10, <1>11, <1>12, <1>13, <1>14 DEF AgentNext

\* One post command puts at most one message on the channel, although it makes
\* two attempts and either answer can be lost (post).
THEOREM PostsOnce == AgentSpec => []OneMessagePerPost
<1>1. AgentInit => PostInv
  BY DEF AgentInit, PostInv
<1>2. PostInv => OneMessagePerPost
  BY SMT, Z3 DEF PostInv, OneMessagePerPost
<1> QED
  BY <1>1, <1>2, NextPostInv, AgentInvariant, PTL DEF AgentSpec


----------------------------------------------------------------------------
(* Capability claims: one claim per revision, and the newest is held.       *)

ClaimsOf(messages) == {m.claim : m \in messages}

\* Only the first call of the queue signs, under the next revision; what was
\* committed is numbered up to the stored revision.
PublishInv ==
  /\ revision \in Nat
  /\ tail \in Seq(Publications)
  /\ DOMAIN call = Publications /\ DOMAIN draft = Publications
  /\ \A x \in Publications : call[x] = "sending" =>
       tail # << >> /\ Head(tail) = x /\ draft[x].revision = revision + 1
  /\ \A m \in posted : m.claim.revision \in 1..revision
  /\ RevisionNamesOne

\* The index holds the highest revision of the claims found valid.
SearchInv ==
  /\ watermark \in Nat
  /\ received \subseteq posted
  /\ accepted \subseteq ClaimsOf(posted)
  /\ accepted = {} => index = NoClaim /\ watermark = 0
  /\ accepted # {} => index \in accepted /\ watermark = index.revision
  /\ \A claim \in accepted : claim.revision <= watermark

\* A call settles: no other call had signed.
LEMMA SettleKeeps ==
  ASSUME PublishInv, NEW x \in Publications, Turn(x), Settle(x)
  PROVE  /\ tail' \in Seq(Publications)
         /\ DOMAIN call' = Publications /\ DOMAIN draft' = Publications
         /\ \A y \in Publications : call'[y] # "sending"
<1>1. tail \in Seq(Publications) /\ tail # << >>
  BY DEF PublishInv, Turn
<1>2. tail' \in Seq(Publications)
  BY SMT, Z3, <1>1 DEF Settle
<1> QED
  BY <1>2 DEF PublishInv, Turn, Settle

\* The steps of publish, its failures and crashes.
LEMMA NextPublishInv ==
  PublishInv /\ [CapabilityNext]_capabilityVars => PublishInv'
<1> SUFFICES ASSUME PublishInv, [CapabilityNext]_capabilityVars
             PROVE  PublishInv'
  BY SMT, Z3
<1>1. ASSUME UNCHANGED publisherVars
      PROVE  PublishInv'
  BY <1>1 DEF PublishInv, publisherVars, RevisionNamesOne
<1>2. ASSUME NEW x \in Publications, Publish(x)
      PROVE  PublishInv'
  <2>1. tail' \in Seq(Publications) /\ tail' # << >>
    BY SMT, Z3, <1>2 DEF PublishInv, Publish
  <2>2. tail # << >> => Head(tail') = Head(tail)
    BY SMT, Z3, <1>2 DEF PublishInv, Publish
  <2> QED
    BY <1>2, <2>1, <2>2 DEF PublishInv, Publish, RevisionNamesOne
<1>3. ASSUME NEW x \in Publications, NEW ttl, NEW expires,
             Sign(x, ttl, expires)
      PROVE  PublishInv'
  BY <1>3 DEF PublishInv, Sign, Turn, RevisionNamesOne
<1>4. ASSUME NEW x \in Publications, CommitPublication(x)
      PROVE  PublishInv'
  <2>1. Turn(x) /\ draft[x].revision = revision + 1
    BY <1>4 DEF PublishInv, CommitPublication, Turn
  <2>2. PICK new : new = [by |-> x, claim |-> draft[x]]
    OBVIOUS
  <2>3. new.claim.revision = revision + 1 /\ posted' = posted \cup {new}
        /\ revision' = revision + 1
    BY <1>4, <2>1, <2>2 DEF CommitPublication
  <2>4. \A m \in posted : m.claim.revision \in 1..revision /\ m.claim.revision # new.claim.revision
    BY SMT, Z3, <2>3 DEF PublishInv
  <2>5. RevisionNamesOne'
    BY <2>3, <2>4 DEF PublishInv, RevisionNamesOne
  <2>6. \A m \in posted' : m.claim.revision \in 1..revision'
    BY SMT, Z3, <2>3, <2>4 DEF PublishInv
  <2>7. revision' \in Nat
    BY SMT, Z3, <2>3 DEF PublishInv
  <2> QED
    BY <1>4, <2>1, <2>5, <2>6, <2>7, SettleKeeps DEF PublishInv,
         CommitPublication
<1>5. ASSUME NEW x \in Publications, PublicationFails(x)
      PROVE  PublishInv'
  BY <1>5, SettleKeeps DEF PublishInv, PublicationFails, RevisionNamesOne
<1>6. CASE PublisherCrash
  <2>1. tail' \in Seq(Publications)
    BY SMT, Z3, <1>6 DEF PublisherCrash
  <2> QED
    BY <1>6, <2>1 DEF PublishInv, PublisherCrash, RevisionNamesOne
<1>7. ASSUME NEW message \in posted, ClaimArrives(message)
      PROVE  PublishInv'
  BY <1>1, <1>7 DEF ClaimArrives
<1>8. ASSUME NEW entries \in SUBSET received, Search(entries)
      PROVE  PublishInv'
  BY <1>1, <1>8 DEF Search
<1>9. CASE ClaimTick \/ UNCHANGED capabilityVars
  BY <1>1, <1>9 DEF ClaimTick, capabilityVars, publisherVars
<1> QED
  BY <1>2, <1>3, <1>4, <1>5, <1>6, <1>7, <1>8, <1>9 DEF CapabilityNext


\* Claims with bounded revisions have a newest one.
LEMMA NewestExists ==
  ASSUME NEW claims, claims # {}, NEW n \in Nat,
         \A claim \in claims : claim.revision \in 1..n
  PROVE  /\ Newest(claims) \in claims
         /\ \A other \in claims : other.revision <= Newest(claims).revision
<1> DEFINE below == {n - claim.revision : claim \in claims}
<1>1. below \subseteq Nat /\ below # {}
  BY SMT, Z3
<1> HIDE DEF below
<1>2. PICK least \in below : \A e \in below : least <= e
  BY <1>1, LeastSlot
<1>3. PICK top \in claims : least = n - top.revision
  BY <1>2 DEF below
<1>4. \A other \in claims : other.revision <= top.revision
  BY SMT, Z3, <1>2, <1>3 DEF below
<1> QED
  BY <1>3, <1>4 DEF Newest

\* A search takes the newest of the valid claims above the watermark.
LEMMA SearchKeeps ==
  ASSUME PublishInv, SearchInv, NEW entries \in SUBSET received, Search(entries)
  PROVE  SearchInv'
<1>1. PICK valid : valid = {message.claim : message \in
                              {m \in entries : Verifies(m.claim)}}
  OBVIOUS
<1>2. PICK taken : taken = {claim \in valid : claim.revision > watermark}
  OBVIOUS
<1>3. /\ accepted' = accepted \cup valid
      /\ index' = IF taken = {} THEN index ELSE Newest(taken)
      /\ watermark' = IF taken = {} THEN watermark ELSE Newest(taken).revision
      /\ received' = received /\ posted' = posted
  BY <1>1, <1>2 DEF Search, AboveWatermark, publisherVars
<1>4. valid \subseteq ClaimsOf(posted)
  BY <1>1 DEF SearchInv, ClaimsOf
<1>5. \A claim \in ClaimsOf(posted) : claim.revision \in 1..revision
  BY DEF PublishInv, ClaimsOf
<1>6. accepted' \subseteq ClaimsOf(posted)' /\ received' \subseteq posted'
  BY <1>3, <1>4 DEF SearchInv, ClaimsOf
<1>7. CASE taken = {}
  <2>1. \A claim \in valid : /\ claim.revision \in Nat /\ claim.revision >= 1
                             /\ claim.revision <= watermark
    BY SMT, Z3, <1>2, <1>4, <1>5, <1>7 DEF SearchInv, PublishInv
  <2>2. accepted = {} => valid = {}
    BY SMT, Z3, <2>1 DEF SearchInv
  <2> QED
    BY <1>3, <1>6, <1>7, <2>1, <2>2 DEF SearchInv
<1>8. CASE taken # {}
  <2>1. \A claim \in taken : claim.revision \in 1..revision
    BY <1>2, <1>4, <1>5
  <2>2. PICK top \in taken : /\ top = Newest(taken)
                             /\ \A other \in taken :
                                  other.revision <= top.revision
    BY <1>8, <2>1, NewestExists DEF PublishInv
  <2>3. top \in valid /\ top.revision > watermark /\ top.revision \in Nat
    <3>1. top \in valid /\ top.revision > watermark
      BY <1>2, <2>2
    <3>2. revision \in Nat /\ top.revision \in 1..revision
      BY <2>1, <2>2 DEF PublishInv
    <3> QED
      BY SMT, Z3, <3>1, <3>2
  <2>4. \A claim \in valid : claim.revision <= top.revision
    BY SMT, Z3, <1>2, <1>4, <1>5, <2>2, <2>3 DEF SearchInv, PublishInv
  <2>5. \A claim \in accepted : claim.revision <= top.revision
    <3> TAKE claim \in accepted
    <3>1. claim.revision \in Nat /\ claim.revision <= watermark
      BY SMT, Z3, <1>5 DEF SearchInv, PublishInv
    <3> QED
      BY SMT, Z3, <2>3, <3>1 DEF SearchInv
  <2>6. index' = top /\ watermark' = top.revision /\ top \in accepted'
    BY <1>3, <1>8, <2>2, <2>3
  <2> QED
    BY <1>3, <1>6, <2>3, <2>4, <2>5, <2>6 DEF SearchInv
<1> QED
  BY <1>7, <1>8

\* The searcher's steps; the publisher only adds messages.
LEMMA NextSearchInv ==
  PublishInv /\ SearchInv /\ [CapabilityNext]_capabilityVars => SearchInv'
<1> SUFFICES ASSUME PublishInv, SearchInv, [CapabilityNext]_capabilityVars
             PROVE  SearchInv'
  BY SMT, Z3
<1>1. ASSUME UNCHANGED <<index, watermark, accepted>>, posted \subseteq posted',
             received' \subseteq posted'
      PROVE  SearchInv'
  BY <1>1 DEF SearchInv, ClaimsOf
<1>2. ASSUME NEW x \in Publications,
             \/ Publish(x) \/ CommitPublication(x) \/ PublicationFails(x)
             \/ \E ttl, expires : Sign(x, ttl, expires)
      PROVE  SearchInv'
  BY <1>1, <1>2 DEF Publish, CommitPublication, PublicationFails, Sign,
       searcherVars, SearchInv
<1>3. CASE PublisherCrash \/ ClaimTick \/ UNCHANGED capabilityVars
  BY <1>1, <1>3 DEF PublisherCrash, ClaimTick, capabilityVars, searcherVars,
       publisherVars, SearchInv
<1>4. ASSUME NEW message \in posted, ClaimArrives(message)
      PROVE  SearchInv'
  BY <1>1, <1>4 DEF ClaimArrives, publisherVars, SearchInv
<1> QED
  BY <1>2, <1>3, <1>4, SearchKeeps DEF CapabilityNext

\* The claims' invariants, for any publications, lifetimes and clock skew.
LEMMA CapabilityInvariant == CapabilitySpec => [](PublishInv /\ SearchInv)
<1>1. CapabilityInit => PublishInv
  <2> SUFFICES ASSUME CapabilityInit
               PROVE  PublishInv
    BY SMT, Z3
  <2>1. tail \in Seq(Publications)
    BY SMT, Z3 DEF CapabilityInit
  <2> QED
    BY <2>1 DEF CapabilityInit, PublishInv, RevisionNamesOne
<1>2. CapabilityInit => SearchInv
  BY SMT, Z3 DEF CapabilityInit, SearchInv
<1> QED
  BY <1>1, <1>2, NextPublishInv, NextSearchInv, PTL DEF CapabilitySpec

\* A revision names one claim, although calls of publish overlap, fail and are
\* cut off by crashes (publish, its tail, commitMetadata).
THEOREM RevisionsAreUnique == CapabilitySpec => []RevisionNamesOne
<1>1. PublishInv => RevisionNamesOne
  BY DEF PublishInv
<1> QED
  BY <1>1, CapabilityInvariant, PTL

\* The index holds the newest claim it ever found valid, however late the
\* older ones arrive and whatever has expired meanwhile (search).
THEOREM NewestIsHeld == CapabilitySpec => []NewestClaimHeld
<1>1. PublishInv /\ SearchInv => NewestClaimHeld
  <2> SUFFICES ASSUME PublishInv, SearchInv, accepted # {}
               PROVE  index = Newest(accepted)
    BY DEF SearchInv, NewestClaimHeld
  <2>1. \A claim \in accepted : claim.revision \in 1..revision
    BY DEF PublishInv, SearchInv, ClaimsOf
  <2>2. PICK top \in accepted : /\ top = Newest(accepted)
                                /\ \A other \in accepted :
                                     other.revision <= top.revision
    BY <2>1, NewestExists DEF PublishInv
  <2>3. index \in accepted /\ \A other \in accepted :
                                other.revision <= index.revision
    BY DEF SearchInv
  <2>4. index.revision = top.revision
    BY SMT, Z3, <2>1, <2>2, <2>3 DEF PublishInv
  <2>5. PICK m1 \in posted : m1.claim = index
    BY <2>3 DEF SearchInv, ClaimsOf
  <2>6. PICK m2 \in posted : m2.claim = top
    BY <2>2 DEF SearchInv, ClaimsOf
  <2>7. m1 = m2
    BY <2>4, <2>5, <2>6 DEF PublishInv, RevisionNamesOne
  <2> QED
    BY <2>2, <2>5, <2>6, <2>7
<1> QED
  BY <1>1, CapabilityInvariant, PTL

----------------------------------------------------------------------------
(* The mailboxes: admission and evidence.                                   *)

Refusal == <<"failed", "admission">>
Reported == Outcomes \ {Refusal}  \* outcomes of work that was admitted

Requests == [kind : {"request"}, correlation : Correlations,
             acceptBefore : Deadlines]
Reports == [kind : {"evidence"}, correlation : Correlations,
            evidence : Evidence]
ApiCalls == [op : {"admit", "respond"}, correlation : Correlations,
             evidence : Evidence \union {NoEntry}, phase : {"waiting", "sending"}]

Types ==
  /\ now \in Nat
  /\ outgoing \in [Correlations -> Entries \union {NoEntry}]
  /\ incoming \in [Correlations -> Entries \union {NoEntry}]
  /\ wire \subseteq Requests \union Reports
  /\ inbox \in [Sides -> SUBSET (Requests \union Reports)]
  /\ seen \in [Sides -> SUBSET (Requests \union Reports)]
  /\ rejected \in [Sides -> SUBSET (Requests \union Reports)]
  /\ calls \in Seq(ApiCalls)
  /\ admissions \in [Correlations -> Nat]
  /\ admittedAt \in [Correlations -> Nat]

\* What the worker has decided, and what evidence of it there may be.
Admitted(c) ==
  incoming[c] # NoEntry /\ incoming[c].execution \in Reported \union {Accepted}

ToldBy(c, evidence) ==
  /\ incoming[c] # NoEntry
  /\ \/ evidence = incoming[c].execution /\ evidence # Awaiting
     \/ evidence = Accepted /\ incoming[c].execution \in Reported

\* Each message goes to the inbox of its kind, and says what is so.
MessagesTrue ==
  /\ inbox["worker"] \subseteq Requests
  /\ inbox["requester"] \subseteq Reports
  /\ \A m \in wire \union inbox["worker"] :
       m \in Requests => outgoing[m.correlation] # NoEntry
  /\ \A m \in wire \union inbox["requester"] :
       m \in Reports => ToldBy(m.correlation, m.evidence)

\* A record of the worker belongs to a request that was submitted, and what
\* the requester believes it was told.
RecordsAgree ==
  /\ rejected["requester"] = {}
  /\ \A c \in Correlations :
       /\ incoming[c] # NoEntry => outgoing[c] # NoEntry
       /\ outgoing[c] # NoEntry /\ outgoing[c].execution # Awaiting =>
            ToldBy(c, outgoing[c].execution)

\* What a call that awaits its send has found: the worker's record does not
\* change under it, since the calls run one at a time.
Ready(job) ==
  /\ incoming[job.correlation] # NoEntry
  /\ job.op = "admit" =>
       /\ incoming[job.correlation].execution = Awaiting
       /\ job.evidence \in {Accepted, Refusal}
  /\ job.op = "respond" =>
       \/ /\ incoming[job.correlation].execution = Awaiting
          /\ job.evidence = Refusal
       \/ /\ incoming[job.correlation].execution = Accepted
          /\ job.evidence \in Reported

\* Only the first call awaits its send.
CallsOrdered ==
  /\ \A k \in 2 .. Len(calls) : calls[k].phase = "waiting"
  /\ \A k \in 1 .. Len(calls) :
       calls[k].op = "respond" => calls[k].evidence \in Outcomes
  /\ Running("sending") => Ready(Head(calls))

\* An admission is counted once, in time, exactly for admitted requests.
AdmissionsCounted ==
  \A c \in Correlations :
    /\ admissions[c] = IF Admitted(c) THEN 1 ELSE 0
    /\ Admitted(c) => admittedAt[c] < incoming[c].acceptBefore

\* The inductive invariant.
MailboxInv ==
  /\ Types /\ MessagesTrue /\ RecordsAgree /\ CallsOrdered /\ AdmissionsCounted

----------------------------------------------------------------------------
(* Facts about evidence and calls.                                          *)

\* The kinds of evidence differ.
LEMMA EvidenceKinds ==
  /\ Refusal \in Outcomes /\ Refusal \in Evidence
  /\ Accepted \notin Outcomes /\ Awaiting \notin Outcomes
  /\ Awaiting \notin Evidence
  /\ Accepted # Awaiting /\ Accepted # Refusal /\ Awaiting # Refusal
  /\ Evidence = Outcomes \union {Accepted}
  /\ Reported \subseteq Outcomes /\ Reported \subseteq Evidence
BY DEF Refusal, Reported, Outcomes, Evidence, Accepted, Awaiting

\* A message is of one kind.
LEMMA MessageKinds ==
  /\ \A m \in Requests : m.kind = "request" /\ m \notin Reports
  /\ \A m \in Reports : m.kind = "evidence" /\ m \notin Requests
BY DEF Requests, Reports

\* A queue of calls loses its first, or its first is replaced.
LEMMA HeadSettled ==
  ASSUME NEW S, NEW s \in Seq(S), s # << >>
  PROVE  /\ Head(s) = s[1] /\ Head(s) \in S
         /\ Tail(s) \in Seq(S) /\ Len(Tail(s)) = Len(s) - 1
         /\ \A k \in 1 .. Len(Tail(s)) : Tail(s)[k] = s[k + 1]
BY SMT, Z3, HeadTailProperties

\* What a sequence is after its head is replaced: the call of the daemon that
\* is running takes its next step.
LEMMA HeadReplaced ==
  ASSUME NEW S, NEW s \in Seq(S), s # << >>, NEW e \in S
  PROVE  /\ <<e>> \o Tail(s) \in Seq(S) /\ Len(<<e>> \o Tail(s)) = Len(s)
         /\ (<<e>> \o Tail(s))[1] = e
         /\ \A k \in 2 .. Len(s) : (<<e>> \o Tail(s))[k] = s[k]
BY SMT, Z3

\* A new call comes last.
LEMMA CallAppended ==
  ASSUME NEW S, NEW s \in Seq(S), NEW e \in S
  PROVE  /\ Append(s, e) \in Seq(S) /\ Len(Append(s, e)) = Len(s) + 1
         /\ \A k \in 1 .. Len(s) : Append(s, e)[k] = s[k]
         /\ Append(s, e)[Len(s) + 1] = e
BY SMT, Z3

----------------------------------------------------------------------------
(* The queue of calls.                                                      *)

\* Steps that touch the calls or the clock only.
LEMMA RecordsUntouched ==
  ASSUME MailboxInv, UNCHANGED <<durableVars, admissions, admittedAt>>,
         now' \in Nat, calls' \in Seq(ApiCalls), CallsOrdered'
  PROVE  MailboxInv'
<1>1. UNCHANGED <<outgoing, incoming, wire, inbox, seen, rejected>>
  BY DEF durableVars
<1>2. Types'
  BY <1>1 DEF MailboxInv, Types
<1>3. MessagesTrue' /\ RecordsAgree'
  BY <1>1 DEF MailboxInv, MessagesTrue, RecordsAgree, ToldBy
<1>4. AdmissionsCounted'
  BY <1>1 DEF MailboxInv, AdmissionsCounted, Admitted
<1>. QED
  BY <1>2, <1>3, <1>4 DEF MailboxInv

\* The first call ends: no other awaits its send.
LEMMA AnsweredKeeps ==
  ASSUME Types, CallsOrdered, calls # << >>, Answered
  PROVE  calls' \in Seq(ApiCalls) /\ CallsOrdered'
<1>1. /\ calls' = Tail(calls) /\ calls' \in Seq(ApiCalls)
      /\ Len(calls') = Len(calls) - 1
      /\ \A k \in 1 .. Len(calls') : calls'[k] = calls[k + 1]
  BY HeadSettled DEF Types, Answered
<1>2. Len(calls) \in Nat
  BY SMT, Z3 DEF Types
<1>3. \A k \in 1 .. Len(calls') :
        /\ k + 1 \in 2 .. Len(calls) /\ k + 1 \in 1 .. Len(calls)
  BY SMT, Z3, <1>1, <1>2
<1>4. \A k \in 1 .. Len(calls') :
        /\ calls'[k].phase = "waiting"
        /\ calls'[k].op = "respond" => calls'[k].evidence \in Outcomes
  BY SMT, Z3, <1>1, <1>3 DEF CallsOrdered
<1>5. ~Running("sending")'
  <2>1. CASE calls' = << >>
    BY <2>1 DEF Running
  <2>2. CASE calls' # << >>
    <3>1. Head(calls') = calls'[1] /\ 1 \in 1 .. Len(calls')
      BY SMT, Z3, <1>1, <2>2, HeadSettled
    <3>. QED
      BY <1>4, <3>1 DEF Running
  <2>. QED
    BY <2>1, <2>2
<1>. QED
  BY SMT, Z3, <1>1, <1>2, <1>4, <1>5 DEF CallsOrdered

\* The first call goes on to its send with what it has found.
LEMMA SendingKeeps ==
  ASSUME Types, CallsOrdered, calls # << >>, incoming' = incoming,
         NEW e \in ApiCalls, Sending(e),
         e.op = "respond" => e.evidence \in Outcomes,
         Ready(e)
  PROVE  calls' \in Seq(ApiCalls) /\ CallsOrdered'
<1>. DEFINE f == [e EXCEPT !.phase = "sending"]
<1>1. /\ f \in ApiCalls /\ f.op = e.op /\ f.evidence = e.evidence
      /\ f.correlation = e.correlation
  BY DEF ApiCalls
<1>2. calls' = <<f>> \o Tail(calls)
  BY DEF Sending
<1>. HIDE DEF f
<1>3. /\ calls' \in Seq(ApiCalls) /\ Len(calls') = Len(calls)
      /\ calls'[1] = f
      /\ \A k \in 2 .. Len(calls) : calls'[k] = calls[k]
  <2>1. calls \in Seq(ApiCalls)
    BY DEF Types
  <2>. QED
    BY SMT, Z3, <1>1, <1>2, <2>1, HeadReplaced
<1>4. Len(calls) \in Nat /\ Len(calls) # 0
  BY SMT, Z3 DEF Types
<1>5. Head(calls') = f
  BY SMT, Z3, <1>3, <1>4, HeadSettled
<1>6. Ready(f)'
  BY <1>1 DEF Ready
<1>7. \A k \in 1 .. Len(calls) : k = 1 \/ k \in 2 .. Len(calls)
  BY SMT, Z3, <1>4
<1>. QED
  BY <1>1, <1>3, <1>4, <1>5, <1>6, <1>7 DEF CallsOrdered

\* fetch queues a call.
LEMMA CallPreserves ==
  ASSUME MailboxInv, NEW op \in {"admit", "respond"}, NEW c \in Correlations,
         NEW e \in Evidence \union {NoEntry},
         op = "respond" => e \in Outcomes,
         Call(op, c, e)
  PROVE  MailboxInv'
<1>. DEFINE new == [op |-> op, correlation |-> c, evidence |-> e, phase |-> "waiting"]
<1>0. Types /\ CallsOrdered
  BY DEF MailboxInv
<1>1. /\ new \in ApiCalls /\ new.phase = "waiting"
      /\ new.op = "respond" => new.evidence \in Outcomes
  BY DEF ApiCalls
<1>2. /\ calls' = Append(calls, new) /\ now' = now
      /\ UNCHANGED <<durableVars, admissions, admittedAt>>
  BY DEF Call
<1>. HIDE DEF new
<1>3. /\ calls' \in Seq(ApiCalls) /\ Len(calls') = Len(calls) + 1
      /\ \A k \in 1 .. Len(calls) : calls'[k] = calls[k]
      /\ calls'[Len(calls) + 1] = new
      /\ Len(calls) \in Nat /\ calls' # << >>
  BY SMT, Z3, <1>0, <1>1, <1>2, CallAppended DEF Types
<1>4. \A k \in 1 .. Len(calls') : k = Len(calls) + 1 \/ k \in 1 .. Len(calls)
  BY SMT, Z3, <1>3
<1>5. Running("sending")' => calls # << >> /\ Head(calls') = Head(calls)
  <2>1. Head(calls') = calls'[1]
    BY <1>3, HeadSettled
  <2>2. CASE calls = << >>
    BY SMT, Z3, <1>1, <1>3, <2>1, <2>2 DEF Running
  <2>3. CASE calls # << >>
    <3>1. Head(calls) = calls[1] /\ 1 \in 1 .. Len(calls)
      BY SMT, Z3, <1>0, <1>3, <2>3, HeadSettled DEF Types
    <3>. QED
      BY <1>3, <2>1, <2>3, <3>1
  <2>. QED
    BY <2>2, <2>3
<1>6. Running("sending")' => Ready(Head(calls))'
  BY <1>0, <1>2, <1>5 DEF Running, CallsOrdered, Ready, durableVars
<1>7. \A k \in 2 .. Len(calls') : calls'[k].phase = "waiting"
  BY SMT, Z3, <1>0, <1>1, <1>3 DEF CallsOrdered
<1>8. \A k \in 1 .. Len(calls') :
        calls'[k].op = "respond" => calls'[k].evidence \in Outcomes
  BY <1>0, <1>1, <1>3, <1>4 DEF CallsOrdered
<1>9. CallsOrdered'
  BY <1>6, <1>7, <1>8 DEF CallsOrdered
<1>. QED
  BY <1>0, <1>2, <1>3, <1>9, RecordsUntouched DEF Types

----------------------------------------------------------------------------
(* Messages.                                                                *)

\* submit: the record comes with the request.
LEMMA SubmitPreserves ==
  ASSUME MailboxInv, NEW c \in Correlations, NEW d \in Deadlines, Submit(c, d)
  PROVE  MailboxInv'
<1>. DEFINE entry == [acceptBefore |-> d, execution |-> Awaiting]
<1>0. Types /\ MessagesTrue /\ RecordsAgree /\ CallsOrdered /\ AdmissionsCounted
  BY DEF MailboxInv
<1>1. /\ outgoing' = [outgoing EXCEPT ![c] = entry]
      /\ wire' = wire \union {Request(c, d)}
      /\ UNCHANGED <<now, incoming, inbox, seen, rejected, calls, admissions,
                     admittedAt>>
  BY DEF Submit, daemonVars
<1>2. /\ entry \in Entries /\ entry # NoEntry /\ entry.execution = Awaiting
      /\ Request(c, d) \in Requests /\ Request(c, d).correlation = c
      /\ Request(c, d) \notin Reports
  BY SMT, Z3, NoEntryAssumption, MessageKinds DEF Entries, Request, Requests
<1>. HIDE DEF entry
<1>3. Types'
  BY <1>0, <1>1, <1>2 DEF Types
<1>4. MessagesTrue'
  <2>1. \A e \in Correlations : outgoing[e] # NoEntry => outgoing'[e] # NoEntry
    BY <1>0, <1>1, <1>2 DEF Types
  <2>2. \A m \in Requests : m.correlation \in Correlations
    BY DEF Requests
  <2>3. outgoing'[c] # NoEntry
    BY <1>0, <1>1, <1>2 DEF Types
  <2>4. \A m \in wire' \union inbox'["worker"] :
          m \in Requests => outgoing'[m.correlation] # NoEntry
    BY <1>0, <1>1, <1>2, <2>1, <2>2, <2>3 DEF MessagesTrue
  <2>5. \A m \in wire' \union inbox'["requester"] :
          m \in Reports => ToldBy(m.correlation, m.evidence)'
    BY <1>0, <1>1, <1>2 DEF MessagesTrue, ToldBy
  <2>. QED
    BY <1>0, <1>1, <2>4, <2>5 DEF MessagesTrue
<1>5. RecordsAgree'
  BY <1>0, <1>1, <1>2 DEF Types, RecordsAgree, ToldBy
<1>6. CallsOrdered' /\ AdmissionsCounted'
  BY <1>0, <1>1 DEF CallsOrdered, Running, Ready, AdmissionsCounted, Admitted
<1>. QED
  BY <1>3, <1>4, <1>5, <1>6 DEF MailboxInv

\* A message moves from the wire to the inbox of its kind.
LEMMA ArrivesPreserves ==
  ASSUME MailboxInv, NEW m \in wire, Arrives(m)
  PROVE  MailboxInv'
<1>0. Types /\ MessagesTrue /\ RecordsAgree /\ CallsOrdered /\ AdmissionsCounted
  BY DEF MailboxInv
<1>1. /\ wire' = wire \ {m}
      /\ inbox' = [inbox EXCEPT ![Recipient(m)] = @ \union {m}]
      /\ UNCHANGED <<now, outgoing, incoming, seen, rejected, calls, admissions,
                     admittedAt>>
  BY DEF Arrives, daemonVars
<1>2. /\ m \in Requests \union Reports /\ Recipient(m) \in Sides
      /\ Recipient(m) = "worker" => m \in Requests
      /\ Recipient(m) = "requester" => m \in Reports
  BY <1>0, MessageKinds DEF Types, Recipient, Sides
<1>3. Types'
  BY <1>0, <1>1, <1>2 DEF Types
<1>4. /\ inbox'["worker"] \subseteq inbox["worker"] \union ({m} \intersect Requests)
      /\ inbox'["requester"] \subseteq
           inbox["requester"] \union ({m} \intersect Reports)
  BY <1>0, <1>1, <1>2 DEF Types, Sides
<1>5. MessagesTrue'
  BY SMT, Z3, <1>0, <1>1, <1>4 DEF MessagesTrue, ToldBy
<1>6. RecordsAgree' /\ CallsOrdered' /\ AdmissionsCounted'
  BY <1>0, <1>1 DEF RecordsAgree, ToldBy, CallsOrdered, Running, Ready,
       AdmissionsCounted, Admitted
<1>. QED
  BY <1>3, <1>5, <1>6 DEF MailboxInv

\* Evidence that is so can be applied to what is believed, and what it makes
\* of it is so: the orders in which reports arrive do not matter.
LEMMA EvidenceApplies ==
  ASSUME NEW c \in Correlations, NEW previous \in Evidence \union {Awaiting},
         NEW evidence \in Evidence,
         previous # Awaiting => ToldBy(c, previous), ToldBy(c, evidence)
  PROVE  /\ Applies(previous, evidence)
         /\ Apply(previous, evidence) \in Evidence
         /\ ToldBy(c, Apply(previous, evidence))
<1>1. Reported = Outcomes \ {Refusal} /\ Refusal = <<"failed", "admission">>
  BY DEF Reported, Refusal
<1>. DEFINE x == incoming[c].execution
<1>2. /\ evidence = x \/ (evidence = Accepted /\ x \in Reported)
      /\ previous = Awaiting \/ previous = x
           \/ (previous = Accepted /\ x \in Reported)
  BY DEF ToldBy
<1>3. CASE evidence = Accepted
  <2>1. previous # Refusal
    BY <1>1, <1>2, <1>3, EvidenceKinds
  <2>2. Applies(previous, evidence)
    BY <1>1, <1>3, <2>1 DEF Applies
  <2>3. Apply(previous, evidence) =
          IF previous = Awaiting THEN Accepted ELSE previous
    BY <1>3 DEF Apply
  <2>. QED
    BY <1>3, <2>2, <2>3, EvidenceKinds
<1>4. CASE evidence # Accepted
  <2>1. evidence \in Outcomes /\ evidence = x
    BY <1>2, <1>4, EvidenceKinds
  <2>2. CASE previous \in Outcomes
    BY <1>1, <1>2, <1>4, <2>1, <2>2, EvidenceKinds DEF Applies, Apply
  <2>3. CASE previous \notin Outcomes
    <3>1. Apply(previous, evidence) = evidence
      BY <1>4, <2>3 DEF Apply
    <3>2. ~(previous = Accepted /\ evidence = Refusal)
      BY <1>1, <1>2, <2>1, EvidenceKinds
    <3>. QED
      BY <1>1, <1>4, <2>3, <3>1, <3>2 DEF Applies
  <2>. QED
    BY <2>2, <2>3
<1>. QED
  BY <1>3, <1>4

\* sync, on the worker: a request that is new opens a record.
LEMMA WorkerSyncPreserves ==
  ASSUME MailboxInv, NEW m \in Unseen("worker"), Sync("worker", m)
  PROVE  MailboxInv'
<1>. DEFINE c == m.correlation
            entry == [acceptBefore |-> m.acceptBefore, execution |-> Awaiting]
<1>0. Types /\ MessagesTrue /\ RecordsAgree /\ CallsOrdered /\ AdmissionsCounted
  BY DEF MailboxInv
<1>1. /\ m \in inbox["worker"] /\ m \in Requests /\ m.kind = "request"
      /\ c \in Correlations /\ m.acceptBefore \in Deadlines
      /\ outgoing[c] # NoEntry
  BY <1>0 DEF Unseen, MessagesTrue, Requests
<1>2. /\ seen' = [seen EXCEPT !["worker"] = @ \union {m}]
      /\ UNCHANGED <<now, outgoing, wire, inbox, calls, admissions, admittedAt>>
      /\ \/ incoming[c] = NoEntry /\ incoming' = [incoming EXCEPT ![c] = entry]
         \/ incoming' = incoming
      /\ rejected' = rejected
           \/ rejected' = [rejected EXCEPT !["worker"] = @ \union {m}]
  BY <1>1 DEF Sync, Reject, daemonVars
<1>3. entry \in Entries /\ entry # NoEntry /\ entry.execution = Awaiting
  BY SMT, Z3, <1>1, NoEntryAssumption DEF Entries
<1>. HIDE DEF entry, c
<1>4. Types'
  <2>1. /\ seen' \in [Sides -> SUBSET (Requests \union Reports)]
        /\ rejected' \in [Sides -> SUBSET (Requests \union Reports)]
    BY SMT, Z3, <1>0, <1>1, <1>2 DEF Types, Sides
  <2>2. incoming' \in [Correlations -> Entries \union {NoEntry}]
    BY <1>0, <1>1, <1>2, <1>3 DEF Types
  <2>. QED
    BY <1>0, <1>2, <2>1, <2>2 DEF Types
<1>5. \A e \in Correlations :
        \/ incoming'[e] = incoming[e]
        \/ /\ e = c /\ incoming[e] = NoEntry
           /\ incoming'[e] = entry
  BY <1>0, <1>1, <1>2 DEF Types
<1>6. \A e \in Correlations, x \in Evidence :
        ToldBy(e, x) => ToldBy(e, x)'
  BY <1>5 DEF ToldBy
<1>7. MessagesTrue'
  <2>1. \A r \in Reports : r.correlation \in Correlations /\ r.evidence \in Evidence
    BY DEF Reports
  <2>. QED
    BY <1>0, <1>2, <1>6, <2>1 DEF MessagesTrue
<1>8. RecordsAgree'
  <2>1. rejected'["requester"] = {}
    BY <1>0, <1>2 DEF Types, RecordsAgree, Sides
  <2>2. \A e \in Correlations : outgoing[e] # NoEntry =>
          outgoing[e].execution \in Evidence \union {Awaiting}
    BY <1>0 DEF Types, Entries
  <2>. QED
    BY <1>0, <1>1, <1>2, <1>5, <1>6, <2>1, <2>2 DEF RecordsAgree
<1>9. CallsOrdered'
  <2>1. Running("sending") => Head(calls).correlation \in Correlations
    <3>1. Running("sending") => Head(calls) \in ApiCalls
      BY <1>0, HeadSettled DEF Types, Running
    <3>. QED
      BY <3>1 DEF ApiCalls
  <2>2. Running("sending") => Ready(Head(calls))'
    BY <1>0, <1>2, <1>5, <2>1 DEF CallsOrdered, Ready
  <2>. QED
    BY <1>0, <1>2, <2>2 DEF CallsOrdered, Running
<1>10. AdmissionsCounted'
  <2>1. \A e \in Correlations : Admitted(e)' <=> Admitted(e)
    BY <1>3, <1>5, EvidenceKinds DEF Admitted
  <2>2. \A e \in Correlations : Admitted(e) => incoming'[e] = incoming[e]
    BY <1>5 DEF Admitted
  <2>. QED
    BY <1>0, <1>2, <2>1, <2>2 DEF AdmissionsCounted
<1>. QED
  BY <1>4, <1>7, <1>8, <1>9, <1>10 DEF MailboxInv

\* sync, on the requester: a report is always applied.
LEMMA RequesterSyncPreserves ==
  ASSUME MailboxInv, NEW m \in Unseen("requester"), Sync("requester", m)
  PROVE  MailboxInv'
<1>. DEFINE c == m.correlation
            applied == Apply(outgoing[c].execution, m.evidence)
<1>0. Types /\ MessagesTrue /\ RecordsAgree /\ CallsOrdered /\ AdmissionsCounted
  BY DEF MailboxInv
<1>1. /\ m \in inbox["requester"] /\ m \in Reports /\ m.kind = "evidence"
      /\ c \in Correlations /\ m.evidence \in Evidence
      /\ ToldBy(c, m.evidence)
  BY <1>0 DEF Unseen, MessagesTrue, Reports
<1>2. outgoing[c] # NoEntry /\ outgoing[c] \in Entries
  BY <1>0, <1>1 DEF Types, RecordsAgree, ToldBy
<1>3. /\ Applies(outgoing[c].execution, m.evidence)
      /\ applied \in Evidence
      /\ ToldBy(c, applied)
  <2>1. outgoing[c].execution \in Evidence \union {Awaiting}
    BY <1>2 DEF Entries
  <2>2. outgoing[c].execution # Awaiting => ToldBy(c, outgoing[c].execution)
    BY <1>0, <1>1, <1>2 DEF RecordsAgree
  <2>. QED
    BY <1>1, <2>1, <2>2, EvidenceApplies
<1>4. /\ seen' = [seen EXCEPT !["requester"] = @ \union {m}]
      /\ outgoing' = [outgoing EXCEPT ![c].execution = applied]
      /\ UNCHANGED <<now, incoming, wire, inbox, rejected, calls, admissions,
                     admittedAt>>
  BY <1>1, <1>2, <1>3 DEF Sync, daemonVars
<1>. HIDE DEF c, applied
<1>5. /\ \A e \in Correlations \ {c} : outgoing'[e] = outgoing[e]
      /\ outgoing'[c] \in Entries /\ outgoing'[c].execution = applied
  BY <1>0, <1>1, <1>2, <1>3, <1>4 DEF Types, Entries
<1>6. outgoing' \in [Correlations -> Entries \union {NoEntry}]
  BY <1>0, <1>4, <1>5 DEF Types
<1>7. Types'
  BY <1>0, <1>1, <1>4, <1>6 DEF Types, Sides
<1>8. \A e \in Correlations : outgoing[e] # NoEntry => outgoing'[e] # NoEntry
  BY <1>5, NoEntryAssumption
<1>9. MessagesTrue'
  <2>1. \A r \in Requests : r.correlation \in Correlations
    BY DEF Requests
  <2>. QED
    BY <1>0, <1>4, <1>8, <2>1 DEF MessagesTrue, ToldBy
<1>10. RecordsAgree'
  <2>1. \A e \in Correlations :
          /\ incoming[e] # NoEntry => outgoing'[e] # NoEntry
          /\ outgoing'[e] # NoEntry /\ outgoing'[e].execution # Awaiting =>
               ToldBy(e, outgoing'[e].execution)
    BY <1>0, <1>3, <1>5, <1>8 DEF RecordsAgree
  <2>. QED
    BY <1>0, <1>4, <2>1 DEF RecordsAgree, ToldBy
<1>11. CallsOrdered' /\ AdmissionsCounted'
  BY <1>0, <1>4 DEF CallsOrdered, Running, Ready, AdmissionsCounted, Admitted
<1>. QED
  BY <1>7, <1>9, <1>10, <1>11 DEF MailboxInv

----------------------------------------------------------------------------
(* The worker's calls.                                                      *)

\* admit, up to its send.
LEMMA BeginAdmitPreserves ==
  ASSUME MailboxInv, BeginAdmit
  PROVE  MailboxInv'
<1>. DEFINE job == Head(calls)
            entry == incoming[job.correlation]
            decision == IF now < entry.acceptBefore THEN Accepted ELSE Refusal
            decided == [job EXCEPT !.evidence = decision]
<1>0. Types /\ CallsOrdered
  BY DEF MailboxInv
<1>1. /\ calls # << >> /\ job.op = "admit" /\ incoming' = incoming
      /\ UNCHANGED <<durableVars, admissions, admittedAt>> /\ now' = now
      /\ Answered \/ (entry # NoEntry /\ entry.execution = Awaiting
                        /\ Sending(decided))
  BY DEF BeginAdmit, Running, durableVars, Refusal
<1>2. job \in ApiCalls
  BY <1>0, <1>1, HeadSettled DEF Types
<1>3. calls' \in Seq(ApiCalls) /\ CallsOrdered'
  <2>1. CASE Answered
    BY <1>0, <1>1, <2>1, AnsweredKeeps
  <2>2. CASE /\ entry # NoEntry /\ entry.execution = Awaiting
             /\ Sending(decided)
    <3>1. /\ decided \in ApiCalls /\ decided.op = "admit"
          /\ decided.correlation = job.correlation
          /\ decided.evidence \in {Accepted, Refusal}
      BY <1>1, <1>2, EvidenceKinds DEF ApiCalls
    <3>2. Ready(decided)
      BY <2>2, <3>1 DEF Ready
    <3>. HIDE DEF decided, entry
    <3>. QED
      BY <1>0, <1>1, <2>2, <3>1, <3>2, SendingKeeps
  <2>. QED
    BY <1>1, <2>1, <2>2
<1>. QED
  BY <1>0, <1>1, <1>3, RecordsUntouched DEF Types

\* respond, up to its send.
LEMMA BeginRespondPreserves ==
  ASSUME MailboxInv, BeginRespond
  PROVE  MailboxInv'
<1>. DEFINE job == Head(calls)
            entry == incoming[job.correlation]
            fits == IF entry.execution = Awaiting THEN job.evidence = Refusal
                    ELSE /\ Applies(entry.execution, job.evidence)
                         /\ Apply(entry.execution, job.evidence) # entry.execution
<1>0. Types /\ CallsOrdered
  BY DEF MailboxInv
<1>1. /\ calls # << >> /\ job.op = "respond" /\ incoming' = incoming
      /\ UNCHANGED <<durableVars, admissions, admittedAt>> /\ now' = now
      /\ Answered \/ (entry # NoEntry /\ fits /\ Sending(job))
  BY DEF BeginRespond, Running, durableVars, Refusal
<1>2. job \in ApiCalls /\ job.correlation \in Correlations
  <2>1. job \in ApiCalls
    BY <1>0, <1>1, HeadSettled DEF Types
  <2>. QED
    BY <2>1 DEF ApiCalls
<1>3. job.evidence \in Outcomes
  <2>1. job = calls[1] /\ 1 \in 1 .. Len(calls)
    <3>1. calls \in Seq(ApiCalls)
      BY <1>0 DEF Types
    <3>2. job = calls[1]
      BY <1>1, <3>1, HeadSettled
    <3>3. calls # << >>
      BY <1>1
    <3>. QED
      BY SMT, Z3, <3>1, <3>2, <3>3
  <2>. QED
    BY <1>0, <1>1, <2>1 DEF CallsOrdered
<1>4. calls' \in Seq(ApiCalls) /\ CallsOrdered'
  <2>1. CASE Answered
    BY <1>0, <1>1, <2>1, AnsweredKeeps
  <2>2. CASE entry # NoEntry /\ fits /\ Sending(job)
    <3>1. entry.execution \in Outcomes \union {Accepted, Awaiting}
      BY <1>0, <1>2, <2>2, EvidenceKinds DEF Types, Entries
    <3>2. entry.execution # Awaiting =>
            entry.execution = Accepted /\ job.evidence \in Reported
      BY <1>3, <2>2, <3>1, EvidenceKinds DEF Applies, Apply, Reported, Refusal
    <3>3. Ready(job)
      BY <1>1, <2>2, <3>2 DEF Ready
    <3>. HIDE DEF job, entry
    <3>. QED
      BY <1>0, <1>1, <1>2, <1>3, <2>2, <3>3, SendingKeeps
  <2>. QED
    BY <1>1, <2>1, <2>2
<1>. QED
  BY <1>0, <1>1, <1>4, RecordsUntouched DEF Types

\* A report is committed with the worker's record: nothing that was said
\* before becomes untrue.
LEMMA CommitKeepsTruth ==
  ASSUME MailboxInv, NEW job \in ApiCalls, Ready(job),
         Commit(job.correlation, job.evidence),
         UNCHANGED <<outgoing, inbox, seen, rejected>>
  PROVE  /\ MessagesTrue' /\ RecordsAgree'
         /\ incoming' \in [Correlations -> Entries \union {NoEntry}]
         /\ wire' \subseteq Requests \union Reports
         /\ \A e \in Correlations \ {job.correlation} : incoming'[e] = incoming[e]
         /\ incoming'[job.correlation] # NoEntry
         /\ incoming'[job.correlation].execution = job.evidence
         /\ incoming'[job.correlation].acceptBefore
              = incoming[job.correlation].acceptBefore
<1>. DEFINE c == job.correlation
            x == job.evidence
<1>0. Types /\ MessagesTrue /\ RecordsAgree
  BY DEF MailboxInv
<1>1. /\ c \in Correlations
      /\ incoming[c] # NoEntry /\ incoming[c] \in Entries
      /\ x \in Evidence /\ x # Awaiting
      /\ \/ incoming[c].execution = Awaiting
         \/ incoming[c].execution = Accepted /\ x \in Reported
  <2>1. c \in Correlations /\ job.op \in {"admit", "respond"}
    BY DEF ApiCalls
  <2>. QED
    BY <1>0, <2>1, EvidenceKinds DEF Types, Ready
<1>2. /\ incoming' = [incoming EXCEPT ![c].execution = x]
      /\ wire' = wire \union {Report(c, x)}
  BY DEF Commit
<1>3. /\ Report(c, x) \in Reports /\ Report(c, x) \notin Requests
      /\ Report(c, x).correlation = c /\ Report(c, x).evidence = x
  BY <1>1, MessageKinds DEF Report, Reports
<1>. HIDE DEF c, x
<1>4. /\ \A e \in Correlations \ {c} : incoming'[e] = incoming[e]
      /\ incoming'[c] \in Entries /\ incoming'[c].execution = x
      /\ incoming'[c].acceptBefore = incoming[c].acceptBefore
      /\ incoming'[c] # NoEntry
  BY <1>0, <1>1, <1>2, NoEntryAssumption DEF Types, Entries
<1>5. incoming' \in [Correlations -> Entries \union {NoEntry}]
  BY <1>0, <1>2, <1>4 DEF Types
<1>6. \A e \in Correlations, y \in Evidence : ToldBy(e, y) => ToldBy(e, y)'
  BY <1>1, <1>4, EvidenceKinds DEF ToldBy
<1>7. ToldBy(c, x)'
  BY <1>1, <1>4 DEF ToldBy
<1>8. MessagesTrue'
  <2>1. \A r \in Reports : r.correlation \in Correlations /\ r.evidence \in Evidence
    BY DEF Reports
  <2>. QED
    BY <1>0, <1>2, <1>3, <1>6, <1>7, <2>1 DEF MessagesTrue
<1>9. RecordsAgree'
  <2>1. \A e \in Correlations : outgoing[e] # NoEntry =>
          outgoing[e].execution \in Evidence \union {Awaiting}
    BY <1>0 DEF Types, Entries
  <2>2. \A e \in Correlations : incoming'[e] # NoEntry => incoming[e] # NoEntry
    BY <1>1, <1>4
  <2>. QED
    BY <1>0, <1>6, <2>1, <2>2 DEF RecordsAgree
<1>10. wire' \subseteq Requests \union Reports
  BY <1>0, <1>2, <1>3 DEF Types
<1>. QED
  BY <1>4, <1>5, <1>8, <1>9, <1>10 DEF c, x

\* The end of the send: an admission is committed before its deadline, once.
LEMMA CommitCallPreserves ==
  ASSUME MailboxInv, CommitCall
  PROVE  MailboxInv'
<1>. DEFINE job == Head(calls)
            late == /\ job.op = "admit" /\ job.evidence = Accepted
                    /\ now >= incoming[job.correlation].acceptBefore
            refused == [job EXCEPT !.evidence = Refusal]
            admitting == job.op = "admit" /\ job.evidence = Accepted
<1>0. Types /\ CallsOrdered /\ AdmissionsCounted
  BY DEF MailboxInv
<1>1. calls # << >> /\ Ready(job)
  BY <1>0 DEF CommitCall, Running, CallsOrdered
<1>2. job \in ApiCalls
  BY <1>0, <1>1, HeadSettled DEF Types
<1>3. PICK c \in Correlations :
        c = job.correlation /\ job.op \in {"admit", "respond"}
  BY <1>2 DEF ApiCalls
<1>4. CASE late
  <2>1. /\ Sending(refused)
        /\ UNCHANGED <<incoming, now, durableVars, admissions, admittedAt>>
    BY <1>4 DEF CommitCall, Refusal, durableVars
  <2>2. /\ refused \in ApiCalls /\ refused.op = "admit"
        /\ refused.correlation = c /\ refused.evidence = Refusal
    BY <1>2, <1>3, <1>4, EvidenceKinds DEF ApiCalls
  <2>3. Ready(refused)
    BY <1>1, <1>3, <1>4, <2>2 DEF Ready
  <2>. HIDE DEF refused
  <2>4. calls' \in Seq(ApiCalls) /\ CallsOrdered'
    BY <1>0, <1>1, <2>1, <2>2, <2>3, SendingKeeps
  <2>. QED
    BY <1>0, <2>1, <2>4, RecordsUntouched DEF Types
<1>5. CASE ~late
  <2>1. /\ Commit(c, job.evidence)
        /\ UNCHANGED <<now, outgoing, inbox, seen, rejected>>
        /\ admissions' = IF admitting
                         THEN [admissions EXCEPT ![c] = @ + 1] ELSE admissions
        /\ admittedAt' = IF admitting
                         THEN [admittedAt EXCEPT ![c] = now] ELSE admittedAt
    BY <1>3, <1>5 DEF CommitCall
  <2>2. calls' \in Seq(ApiCalls) /\ CallsOrdered'
    BY <1>0, <1>1, <2>1, AnsweredKeeps DEF Commit
  <2>3. /\ MessagesTrue' /\ RecordsAgree'
        /\ incoming' \in [Correlations -> Entries \union {NoEntry}]
        /\ wire' \subseteq Requests \union Reports
        /\ \A e \in Correlations \ {c} : incoming'[e] = incoming[e]
        /\ incoming'[c] # NoEntry
        /\ incoming'[c].execution = job.evidence
        /\ incoming'[c].acceptBefore = incoming[c].acceptBefore
    BY <1>1, <1>2, <1>3, <2>1, CommitKeepsTruth
  <2>4. Types'
    <3>1. admissions' \in [Correlations -> Nat]
      <4>1. admissions \in [Correlations -> Nat] /\ admissions[c] + 1 \in Nat
        BY SMT, Z3, <1>0, <1>3 DEF Types
      <4>. QED
        BY <2>1, <4>1
    <3>2. admittedAt' \in [Correlations -> Nat]
      <4>1. admittedAt \in [Correlations -> Nat] /\ now \in Nat
        BY <1>0 DEF Types
      <4>. QED
        BY <2>1, <4>1
    <3>3. UNCHANGED <<now, outgoing, inbox, seen, rejected>>
      BY <2>1
    <3>. QED
      BY <1>0, <2>2, <2>3, <3>1, <3>2, <3>3 DEF Types
  <2>5. AdmissionsCounted'
    <3>1. ASSUME NEW e \in Correlations \ {c}
          PROVE  /\ admissions'[e] = admissions[e] /\ admittedAt'[e] = admittedAt[e]
                 /\ Admitted(e)' <=> Admitted(e)
      BY <1>0, <2>1, <2>3 DEF Types, Admitted
    <3>2. /\ admissions'[c] = IF admitting THEN admissions[c] + 1 ELSE admissions[c]
          /\ admittedAt'[c] = IF admitting THEN now ELSE admittedAt[c]
      BY <1>0, <1>3, <2>1 DEF Types
    <3>3. Admitted(c)' <=> job.evidence \in Reported \union {Accepted}
      BY <2>3 DEF Admitted
    <3>4. Admitted(c) <=> incoming[c].execution \in Reported \union {Accepted}
      BY <1>1, <1>3 DEF Admitted, Ready
    <3>5. CASE admitting
      <4>1. ~Admitted(c) /\ Admitted(c)'
        BY <1>1, <1>3, <3>3, <3>4, <3>5, EvidenceKinds DEF Ready
      <4>2. now < incoming[c].acceptBefore
        <5>1. incoming[c].acceptBefore \in Nat /\ now \in Nat
          BY <1>0, <1>1, <1>3, MailboxAssumption DEF Types, Entries, Ready
        <5>2. ~(now >= incoming[c].acceptBefore)
          BY <1>3, <1>5, <3>5
        <5>. HIDE DEF job, late, admitting
        <5>. QED
          BY SMT, Z3, <5>1, <5>2
      <4>3. admissions'[c] = 1 /\ admittedAt'[c] < incoming'[c].acceptBefore
        <5>1. admissions[c] = 0
          BY <1>0, <1>3, <4>1 DEF AdmissionsCounted
        <5>2. admissions'[c] = admissions[c] + 1 /\ admittedAt'[c] = now
          BY <3>2, <3>5
        <5>3. incoming'[c].acceptBefore = incoming[c].acceptBefore
          BY <2>3
        <5>. QED
          BY SMT, Z3, <4>2, <5>1, <5>2, <5>3
      <4>. QED
        BY <1>0, <2>3, <3>1, <4>1, <4>3 DEF AdmissionsCounted
    <3>6. CASE ~admitting
      <4>1. Admitted(c)' <=> Admitted(c)
        BY <1>1, <1>3, <3>3, <3>4, <3>6, EvidenceKinds DEF Ready, Reported
      <4>. QED
        BY <1>0, <2>3, <3>1, <3>2, <3>6, <4>1 DEF AdmissionsCounted
    <3>. QED
      BY <3>5, <3>6
  <2>. QED
    BY <2>2, <2>3, <2>4, <2>5 DEF MailboxInv
<1>. QED
  BY <1>4, <1>5

----------------------------------------------------------------------------
(* The theorems.                                                            *)

\* An empty mailbox satisfies the invariant.
LEMMA InitMailboxInv == MailboxInit => MailboxInv
<1>. SUFFICES ASSUME MailboxInit PROVE MailboxInv
  BY SMT, Z3
<1>1. Types
  BY SMT, Z3 DEF MailboxInit, Types, Sides
<1>2. MessagesTrue /\ RecordsAgree
  BY DEF MailboxInit, MessagesTrue, RecordsAgree, Sides
<1>3. CallsOrdered
  BY SMT, Z3 DEF MailboxInit, CallsOrdered, Running
<1>4. AdmissionsCounted
  BY DEF MailboxInit, AdmissionsCounted, Admitted
<1>. QED
  BY <1>1, <1>2, <1>3, <1>4 DEF MailboxInv

\* Every step preserves the invariant; a crash forgets calls, and nothing else.
LEMMA NextMailboxInv == MailboxInv /\ [MailboxNext]_mailboxVars => MailboxInv'
<1>. SUFFICES ASSUME MailboxInv, [MailboxNext]_mailboxVars PROVE MailboxInv'
  BY SMT, Z3
<1>0. Types /\ CallsOrdered
  BY DEF MailboxInv
<1>1. ASSUME NEW c \in Correlations, NEW d \in Deadlines, Submit(c, d)
      PROVE  MailboxInv'
  BY <1>1, SubmitPreserves
<1>2. ASSUME NEW m \in wire, Arrives(m) PROVE MailboxInv'
  BY <1>2, ArrivesPreserves
<1>3. ASSUME NEW side \in Sides, NEW m \in Unseen(side), Sync(side, m)
      PROVE  MailboxInv'
  BY <1>3, WorkerSyncPreserves, RequesterSyncPreserves DEF Sides
<1>4. ASSUME NEW c \in Correlations,
             \/ Call("admit", c, NoEntry)
             \/ \E e \in Outcomes : Call("respond", c, e)
      PROVE  MailboxInv'
  BY <1>4, CallPreserves, EvidenceKinds
<1>5. ASSUME BeginAdmit \/ BeginRespond \/ CommitCall PROVE MailboxInv'
  BY <1>5, BeginAdmitPreserves, BeginRespondPreserves, CommitCallPreserves
<1>6. ASSUME SendFails PROVE MailboxInv'
  <2>1. calls' \in Seq(ApiCalls) /\ CallsOrdered'
    BY <1>0, <1>6, AnsweredKeeps DEF SendFails, Running
  <2>. QED
    BY <1>0, <1>6, <2>1, RecordsUntouched DEF SendFails, Types
<1>7. ASSUME Crash PROVE MailboxInv'
  <2>1. calls' \in Seq(ApiCalls) /\ CallsOrdered'
    BY SMT, Z3, <1>7 DEF Crash, CallsOrdered, Running
  <2>. QED
    BY <1>0, <1>7, <2>1, RecordsUntouched DEF Crash, Types
<1>8. ASSUME UNCHANGED <<durableVars, calls, admissions, admittedAt>>, now' \in Nat
      PROVE  MailboxInv'
  <2>1. calls' \in Seq(ApiCalls) /\ CallsOrdered'
    BY <1>0, <1>8 DEF Types, CallsOrdered, Running, Ready, durableVars
  <2>. QED
    BY <1>8, <2>1, RecordsUntouched
<1>9. ASSUME CloseDaemon \/ Released PROVE MailboxInv'
  BY <1>0, <1>8, <1>9 DEF CloseDaemon, Released, Types
<1>10. ASSUME Tick PROVE MailboxInv'
  BY SMT, Z3, <1>0, <1>8, <1>10 DEF Tick, daemonVars, Types
<1>11. ASSUME UNCHANGED mailboxVars PROVE MailboxInv'
  BY <1>0, <1>8, <1>11 DEF mailboxVars, durableVars, Types
<1>. QED
  BY <1>1, <1>2, <1>3, <1>4, <1>5, <1>6, <1>7, <1>9, <1>10, <1>11 DEF
       MailboxNext

\* The inductive invariant holds in every reachable state.
THEOREM MailboxInvariant == MailboxSpec => []MailboxInv
BY InitMailboxInv, NextMailboxInv, PTL DEF MailboxSpec

\* A request is admitted at most once and before its deadline, however calls
\* are repeated, slow sends cross the deadline and the worker is restarted.
THEOREM AdmissionIsFinal == MailboxSpec => []AdmittedOnceInTime
<1>1. MailboxInv => AdmittedOnceInTime
  BY SMT, Z3 DEF MailboxInv, AdmissionsCounted, AdmittedOnceInTime
<1>. QED
  BY <1>1, MailboxInvariant, PTL

\* The requester believes only what the worker durably decided, and rejects
\* none of its reports, in whatever order they arrive.
THEOREM EvidenceIsConsistent == MailboxSpec => []EvidenceAgrees
<1>1. MailboxInv => EvidenceAgrees
  BY DEF MailboxInv, RecordsAgree, ToldBy, EvidenceAgrees, Reported, Refusal
<1>. QED
  BY <1>1, MailboxInvariant, PTL
=============================================================================
