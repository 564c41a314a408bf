------------------------------ MODULE AgentStream ------------------------------
(***************************************************************************)
(* The gateway agent (packages/agent/src/core.ts): commands that run one at *)
(* a time, the session, the event stream with its generations, backoff      *)
(* timer and gap fill, and the highest sequence number seen per channel.    *)
(*                                                                          *)
(* The gateway appears as the agent sees it: a log per channel, the live    *)
(* session tokens, and one frame queue per WebSocket.  HTTP calls and       *)
(* frames travel separately, so an answer may overtake a frame.             *)
(***************************************************************************)
EXTENDS Naturals, Sequences, FiniteSets

CONSTANTS
  Channels,
  None,
  HistoryFetch,    \* HISTORY_FETCH: messages a history request returns
  GapFails,        \* a gap fetch may fail while the stream stays open
  MaxLog,          \* bound on the messages of a channel
  MaxTokens,       \* bound on the sessions the gateway creates
  MaxGenerations,  \* bound on the stream generations
  MaxSockets,      \* bound on the sockets that are open at once
  MaxDrops,        \* bound on the connections the network loses
  MaxCommands      \* bound on the commands the user gives

ASSUME AgentAssumption ==
  /\ IsFiniteSet(Channels) /\ None \notin Channels /\ None \notin Nat
  /\ HistoryFetch \in Nat \ {0} /\ GapFails \in BOOLEAN
  /\ MaxLog \in Nat /\ MaxTokens \in Nat /\ MaxGenerations \in Nat
  /\ MaxSockets \in Nat \ {0} /\ MaxDrops \in Nat /\ MaxCommands \in Nat

VARIABLES
  log,           \* gateway: number of messages per channel
  alive,         \* gateway: tokens with a stored session
  lapsed,        \* tokens past their expiry or without a certificate
  lastSequence,  \* gateway: last event sequence of the token's device
  session,       \* None or [token, nextSequence]
  command,       \* None or the command that runs
  channels,      \* subscribed channels
  sockets,       \* WebSockets, and the frames on their way to the agent
  socket,        \* None or the slot of this.socket
  timer,         \* reconnectTimer is set
  generation,    \* streamGeneration
  lastSeq,       \* highest sequence number seen; 0 is "undefined"
  emitted,       \* message events emitted, per channel
  replied,       \* sequence numbers handed out in replies, per channel
  gaps,          \* gap fetches under way
  drops,
  commands

gatewayVars == <<log, alive, lapsed, lastSequence>>
streamVars == <<sockets, socket, timer, generation>>
seenVars == <<lastSeq, emitted, replied>>
agentVars == <<log, alive, lapsed, lastSequence, session, command, channels,
               sockets, socket, timer, generation, lastSeq, emitted, replied,
               gaps, drops, commands>>

Slots == 1..MaxSockets
Tokens == 1..MaxTokens
Upper(a, b) == IF a > b THEN a ELSE b

----------------------------------------------------------------------------
(* The gateway's side of a stream.                                          *)

\* broadcast: one message frame to every socket that is ready for the channel.
Broadcast(ss, c, n) ==
  [s \in Slots |->
     IF ss[s] # None /\ ss[s].phase = "ready" /\ c \in ss[s].chans
     THEN [ss[s] EXCEPT !.frames = Append(@, <<"message", c, n>>)]
     ELSE ss[s]]

\* endSession: the bound sockets get the frame and are closed.
EndStreams(ss, t) ==
  [s \in Slots |->
     IF ss[s] # None /\ ss[s].phase = "ready" /\ ss[s].token = t
     THEN [ss[s] EXCEPT !.phase = "closed",
                        !.frames = @ \o <<<<"revoked">>, <<"close">>>>]
     ELSE ss[s]]

\* onSocketMessage: the first frame of a socket authenticates it.
Hello(s) ==
  /\ sockets[s] # None /\ sockets[s].phase = "asked"
  /\ LET t == sockets[s].token
         refused(code) == [sockets[s] EXCEPT !.phase = "closed",
                             !.frames = <<<<"error", code>>, <<"close">>>>]
     IN  \/ /\ t = None \/ t \in alive \ lapsed
            /\ sockets' = [sockets EXCEPT ![s] =
                 [@ EXCEPT !.phase = "ready", !.frames = <<<<"ready">>>>]]
            /\ UNCHANGED alive
         \/ /\ t # None /\ t \notin alive
            /\ sockets' = [sockets EXCEPT ![s] = refused("unauthenticated")]
            /\ UNCHANGED alive
         \/ /\ t \in alive \cap lapsed
            /\ alive' = alive \ {t}
            /\ \E code \in {"unauthenticated", "revoked"} :
                 sockets' = [EndStreams(sockets, t) EXCEPT
                               ![s] = refused(code)]
  /\ UNCHANGED <<log, lapsed, lastSequence, session, command, channels,
                 socket, timer, generation, lastSeq, emitted, replied, gaps,
                 drops, commands>>

\* A revocation of the credential behind a session.
Revoked(t) ==
  /\ t \in alive
  /\ alive' = alive \ {t} /\ sockets' = EndStreams(sockets, t)
  /\ UNCHANGED <<log, lapsed, lastSequence, session, command, channels,
                 socket, timer, generation, lastSeq, emitted, replied, gaps,
                 drops, commands>>

Lapse(t) ==
  /\ t \in alive \ lapsed
  /\ lapsed' = lapsed \union {t}
  /\ UNCHANGED <<log, alive, lastSequence, session, command, channels,
                 sockets, socket, timer, generation, lastSeq, emitted,
                 replied, gaps, drops, commands>>

\* Another author's post.
OtherPosts(c) ==
  /\ log[c] < MaxLog
  /\ log' = [log EXCEPT ![c] = @ + 1]
  /\ sockets' = Broadcast(sockets, c, log[c] + 1)
  /\ UNCHANGED <<alive, lapsed, lastSequence, session, command, channels,
                 socket, timer, generation, lastSeq, emitted, replied, gaps,
                 drops, commands>>

\* The network or a gateway restart cuts a socket; frames on their way are
\* lost.  A socket the agent closed itself ends without a loss.
Cut(s) ==
  /\ sockets[s] # None /\ sockets[s].phase # "closed"
  /\ IF s = socket THEN drops < MaxDrops /\ drops' = drops + 1
                   ELSE UNCHANGED drops
  /\ \E kept \in 0..Len(sockets[s].frames) :
       sockets' = [sockets EXCEPT ![s] =
         [@ EXCEPT !.phase = "closed", !.frames =
            Append(SubSeq(sockets[s].frames, 1, kept), <<"close">>)]]
  /\ UNCHANGED <<log, alive, lapsed, lastSequence, session, command, channels,
                 socket, timer, generation, lastSeq, emitted, replied, gaps,
                 commands>>

----------------------------------------------------------------------------
(* The stream.                                                              *)

FreeSlots(ss) == {s \in Slots : ss[s] = None}

\* connectStream.
ConnectStream(ss, g) ==
  /\ FreeSlots(ss) # {}
  /\ LET s == CHOOSE f \in FreeSlots(ss) : \A e \in FreeSlots(ss) : f <= e
     IN  /\ socket' = s
         /\ sockets' = [ss EXCEPT ![s] =
              [gen |-> g, phase |-> "connecting", token |-> None,
               chans |-> {}, frames |-> << >>]]

\* restartStream: stopStream, then connectStream when something is subscribed.
RestartStream(ss, subscribed) ==
  /\ generation < MaxGenerations
  /\ generation' = generation + 1
  /\ timer' = FALSE
  /\ IF subscribed # {} THEN ConnectStream(ss, generation + 1)
                        ELSE socket' = None /\ sockets' = ss

\* onopen: the token and the channels of this moment.
OnOpen(s) ==
  /\ sockets[s] # None /\ sockets[s].phase = "connecting"
  /\ sockets[s].gen = generation
  /\ sockets' = [sockets EXCEPT ![s] =
       [@ EXCEPT !.phase = "asked", !.chans = channels,
                 !.token = IF session = None THEN None ELSE session.token]]
  /\ UNCHANGED <<gatewayVars, session, command, channels, socket, timer,
                 generation, seenVars, gaps, drops, commands>>

\* The loop of fillGap: the fetches it may issue next for the channels left.
NextFetch(g, left) ==
  LET known == {c \in left : lastSeq[c] > 0}
  IN  IF known = {} THEN {{}}
      ELSE {{[gen |-> g, channel |-> c, left |-> left \ {c}, answer |-> None]}
              : c \in known}

\* The messages up to n that are newer than the last one seen are emitted.
Emit(c, first, n) ==
  /\ emitted' = [emitted EXCEPT ![c] =
       @ \o [k \in 1..(IF n >= first THEN n + 1 - first ELSE 0)
               |-> first + k - 1]]
  /\ lastSeq' = [lastSeq EXCEPT ![c] = Upper(@, n)]
  /\ UNCHANGED replied

Current(s) == sockets[s] # None /\ sockets[s].gen = generation

\* The next frame of a socket; the frames in endings end the session.
HandleFrame(s, endings) ==
  /\ sockets[s] # None /\ sockets[s].frames # << >>
  /\ LET frame == Head(sockets[s].frames)
     IN  /\ sockets' = [sockets EXCEPT ![s] =
              IF frame[1] = "close" THEN None
              ELSE [sockets[s] EXCEPT !.frames = Tail(@)]]
         /\ session' = IF Current(s) /\ frame \in endings THEN None
                                                           ELSE session
         /\ IF Current(s) /\ frame[1] = "close"
            THEN socket' = None /\ timer' = TRUE
            ELSE UNCHANGED <<socket, timer>>
         /\ IF Current(s) /\ frame[1] = "ready"
            THEN \E next \in NextFetch(generation, channels) :
                   gaps' = gaps \union next
            ELSE UNCHANGED gaps
         /\ IF Current(s) /\ frame[1] = "message" /\ frame[3] > lastSeq[frame[2]]
            THEN Emit(frame[2], frame[3], frame[3])
            ELSE UNCHANGED seenVars
  /\ UNCHANGED <<gatewayVars, command, channels, generation, drops, commands>>

\* Mutant: an error frame never ends the session.
DeliverNoError(s) == HandleFrame(s, {<<"revoked">>})

\* onmessage and onclose: a superseded socket only loses its frame; an error
\* frame ends the session when it says unauthenticated.
Deliver(s) == HandleFrame(s, {<<"revoked">>, <<"error", "unauthenticated">>})

\* scheduleReconnect's callback.
TimerFires ==
  /\ timer
  /\ timer' = FALSE
  /\ ConnectStream(sockets, generation)
  /\ UNCHANGED <<gatewayVars, session, command, channels, generation, seenVars,
                 gaps, drops, commands>>

\* The gateway answers a history request with the log of that moment.
GapAnswered(g) ==
  /\ g \in gaps /\ g.answer = None
  /\ gaps' = (gaps \ {g}) \union {[g EXCEPT !.answer = log[g.channel]]}
  /\ UNCHANGED <<gatewayVars, session, command, channels, streamVars, seenVars,
                 drops, commands>>

\* Mutant: the fetched messages are emitted from the sequence that was known
\* when the stream became ready.
GapAppliedFromStart(g) ==
  /\ g \in gaps /\ g.answer # None /\ g.gen = generation
  /\ gaps' = gaps \ {g}
  /\ Emit(g.channel, 1, g.answer)
  /\ UNCHANGED <<gatewayVars, session, command, channels, streamVars, drops,
                 commands>>

\* fillGap after its await; the fetched messages are the last HistoryFetch.
GapApplied(g) ==
  /\ g \in gaps /\ g.answer # None
  /\ IF g.gen # generation
     THEN gaps' = gaps \ {g} /\ UNCHANGED seenVars
     ELSE /\ \E next \in NextFetch(g.gen, g.left) :
               gaps' = (gaps \ {g}) \union next
          /\ LET oldest == IF g.answer > HistoryFetch
                           THEN g.answer + 1 - HistoryFetch ELSE 1
             IN  Emit(g.channel, Upper(oldest, lastSeq[g.channel] + 1), g.answer)
  /\ UNCHANGED <<gatewayVars, session, command, channels, streamVars, drops,
                 commands>>

\* The catch of fillGap.
GapFailed(g) ==
  /\ GapFails /\ g \in gaps
  /\ gaps' = gaps \ {g}
  /\ UNCHANGED <<gatewayVars, session, command, channels, streamVars, seenVars,
                 drops, commands>>

----------------------------------------------------------------------------
(* Commands.  handleLine runs them one after the other.                     *)

Begin ==
  /\ command = None /\ commands < MaxCommands
  /\ commands' = commands + 1

Subscribe(subscribed) ==
  /\ Begin /\ UNCHANGED command
  /\ subscribed # {}
  /\ channels' = subscribed
  /\ RestartStream(sockets, subscribed)
  /\ UNCHANGED <<gatewayVars, session, seenVars, gaps, drops>>

\* signIn up to the answer of /v1/auth/verify: a new device, a new session.
SignIn ==
  /\ Begin
  /\ \E t \in Tokens \ DOMAIN lastSequence :
       /\ \A u \in Tokens \ DOMAIN lastSequence : t <= u
       /\ alive' = alive \union {t}
       /\ lastSequence' = [u \in DOMAIN lastSequence \union {t} |->
                             IF u = t THEN 0 ELSE lastSequence[u]]
       /\ session' = [token |-> t, nextSequence |-> 1]
  /\ command' = [cmd |-> "signin"]
  /\ UNCHANGED <<log, lapsed, channels, streamVars, seenVars, gaps, drops>>

\* signIn after the answer of /v1/session, good or bad.  A session that a
\* frame cleared in between makes it throw before it restarts the stream.
SignInDone ==
  /\ command # None /\ command.cmd = "signin"
  /\ command' = None
  /\ IF session = None THEN UNCHANGED streamVars
                       ELSE RestartStream(sockets, channels)
  /\ UNCHANGED <<gatewayVars, session, channels, seenVars, gaps, drops, commands>>

SignOut ==
  /\ Begin
  /\ command' = [cmd |-> "signout",
                 token |-> IF session = None THEN None ELSE session.token]
  /\ session' = None
  /\ RestartStream(sockets, channels)
  /\ UNCHANGED <<gatewayVars, channels, seenVars, gaps, drops>>

\* The logout request: the gateway ends the session, or the call is lost.
SignOutDone(arrives) ==
  /\ command # None /\ command.cmd = "signout"
  /\ command' = None
  /\ IF arrives /\ command.token # None
     THEN /\ alive' = alive \ {command.token}
          /\ sockets' = EndStreams(sockets, command.token)
     ELSE UNCHANGED <<alive, sockets>>
  /\ UNCHANGED <<log, lapsed, lastSequence, session, channels, socket, timer,
                 generation, seenVars, gaps, drops, commands>>

History(c) ==
  /\ Begin
  /\ command' = [cmd |-> "history", channel |-> c, answer |-> None]
  /\ UNCHANGED <<gatewayVars, session, channels, streamVars, seenVars, gaps,
                 drops>>

HistoryAnswered ==
  /\ command # None /\ command.cmd = "history" /\ command.answer = None
  /\ command' = [command EXCEPT !.answer = log[command.channel]]
  /\ UNCHANGED <<gatewayVars, session, channels, streamVars, seenVars, gaps,
                 drops, commands>>

\* noteSeq for every message of the answer, which the reply hands out.
HistoryDone ==
  /\ command # None /\ command.cmd = "history" /\ command.answer # None
  /\ LET c == command.channel
         n == command.answer
     IN  /\ lastSeq' = [lastSeq EXCEPT ![c] = Upper(@, n)]
         /\ replied' = [replied EXCEPT ![c] =
              @ \union {k \in 1..n : k + HistoryFetch > n}]
  /\ command' = None
  /\ UNCHANGED <<gatewayVars, session, channels, streamVars, emitted, gaps,
                 drops, commands>>

----------------------------------------------------------------------------
(* post                                                                     *)

\* An expired session is dropped first; without one nothing is sent.
Post(c) ==
  /\ Begin
  /\ session # None
  /\ session.token \notin lapsed
  /\ command' = [cmd |-> "post", channel |-> c, attempt |-> 0, phase |-> "sent",
                 token |-> session.token, sequence |-> session.nextSequence,
                 seq |-> 0, accepted |-> 0]
  /\ UNCHANGED <<gatewayVars, session, channels, streamVars, seenVars, gaps,
                 drops>>

\* expireSession, in post and state.
ExpireSession ==
  /\ Begin /\ UNCHANGED command
  /\ session # None /\ session.token \in lapsed
  /\ session' = None
  /\ UNCHANGED <<gatewayVars, channels, streamVars, seenVars, gaps, drops>>

IsPost(phase) ==
  command # None /\ command.cmd = "post" /\ command.phase = phase

\* The gateway accepts the event, broadcasts it and answers.
PostAccepted ==
  /\ IsPost("sent")
  /\ LET c == command.channel
         t == command.token
     IN  /\ log[c] < MaxLog
         /\ t \in alive \ lapsed /\ command.sequence > lastSequence[t]
         /\ log' = [log EXCEPT ![c] = @ + 1]
         /\ lastSequence' = [lastSequence EXCEPT ![t] = command.sequence]
         /\ sockets' = Broadcast(sockets, c, log[c] + 1)
         /\ command' = [command EXCEPT !.phase = "accepted", !.seq = log[c] + 1,
                                       !.accepted = @ + 1]
  /\ UNCHANGED <<alive, lapsed, session, channels, socket, timer, generation,
                 seenVars, gaps, drops, commands>>

PostReplied ==
  /\ IsPost("accepted")
  /\ LET c == command.channel
     IN  /\ lastSeq' = [lastSeq EXCEPT ![c] = Upper(@, command.seq)]
         /\ replied' = [replied EXCEPT ![c] = @ \union {command.seq}]
  /\ session' = IF session = None THEN None
                ELSE [session EXCEPT !.nextSequence = command.sequence + 1]
  /\ command' = None
  /\ UNCHANGED <<gatewayVars, channels, streamVars, emitted, gaps, drops,
                 commands>>

\* The gateway refuses the session: dropSession.
PostUnauthenticated ==
  /\ IsPost("sent")
  /\ command.token \notin alive \ lapsed
  /\ alive' = alive \ {command.token}
  /\ command' = None
  /\ session' = None
  /\ RestartStream(EndStreams(sockets, command.token), channels)
  /\ UNCHANGED <<log, lapsed, lastSequence, channels, seenVars, gaps, drops,
                 commands>>

\* The gateway has already seen the sequence.
PostOutOfSequence ==
  /\ IsPost("sent")
  /\ command.token \in alive \ lapsed
  /\ command.sequence <= lastSequence[command.token]
  /\ command' = IF command.attempt = 0 THEN [command EXCEPT !.phase = "refetch"]
                                       ELSE None
  /\ UNCHANGED <<gatewayVars, session, channels, streamVars, seenVars, gaps,
                 drops, commands>>

\* Mutant: a lost answer is retried under a fresh sequence.
PostLostRetried ==
  /\ IsPost("sent") \/ IsPost("accepted")
  /\ command' = IF command.attempt = 0 THEN [command EXCEPT !.phase = "refetch"]
                                       ELSE None
  /\ UNCHANGED <<gatewayVars, session, channels, streamVars, seenVars, gaps,
                 drops, commands>>

\* Any other error: the request or its answer is lost, a rate limit, ...
PostLost ==
  /\ IsPost("sent") \/ IsPost("accepted")
  /\ command' = None
  /\ UNCHANGED <<gatewayVars, session, channels, streamVars, seenVars, gaps,
                 drops, commands>>

\* The second attempt, under the sequence that /v1/session names.
PostRetry ==
  /\ IsPost("refetch")
  /\ command.token \in alive \ lapsed
  /\ LET next == lastSequence[command.token] + 1
     IN  IF session = None
         THEN command' = None /\ UNCHANGED session
         ELSE /\ session' = [session EXCEPT !.nextSequence = next]
              /\ command' = [command EXCEPT !.phase = "sent", !.attempt = 1,
                                            !.sequence = next]
  /\ UNCHANGED <<gatewayVars, channels, streamVars, seenVars, gaps, drops,
                 commands>>

\* The request for the sequence fails: the command ends with its error.
PostRetryFailed ==
  /\ IsPost("refetch")
  /\ command' = None
  /\ IF command.token \in alive \cap lapsed
     THEN /\ alive' = alive \ {command.token}
          /\ sockets' = EndStreams(sockets, command.token)
     ELSE UNCHANGED <<alive, sockets>>
  /\ UNCHANGED <<log, lapsed, lastSequence, session, channels, socket, timer,
                 generation, seenVars, gaps, drops, commands>>

----------------------------------------------------------------------------

AgentInit ==
  /\ log = [c \in Channels |-> 0]
  /\ alive = {} /\ lapsed = {} /\ lastSequence = << >>
  /\ session = None /\ command = None /\ channels = {}
  /\ sockets = [s \in Slots |-> None]
  /\ socket = None /\ timer = FALSE /\ generation = 0
  /\ lastSeq = [c \in Channels |-> 0]
  /\ emitted = [c \in Channels |-> << >>]
  /\ replied = [c \in Channels |-> {}]
  /\ gaps = {} /\ drops = 0 /\ commands = 0

Commands ==
  \/ \E subscribed \in SUBSET Channels : Subscribe(subscribed)
  \/ SignIn \/ SignOut \/ ExpireSession
  \/ \E c \in Channels : History(c) \/ Post(c)

Answers ==
  \/ SignInDone \/ \E arrives \in BOOLEAN : SignOutDone(arrives)
  \/ HistoryAnswered \/ HistoryDone
  \/ PostAccepted \/ PostReplied \/ PostUnauthenticated \/ PostOutOfSequence
  \/ PostLost \/ PostRetry \/ PostRetryFailed

Stream ==
  \/ \E s \in Slots : Hello(s) \/ OnOpen(s) \/ Deliver(s)
  \/ TimerFires
  \/ \E g \in gaps : GapAnswered(g) \/ GapApplied(g)

Environment ==
  \/ \E t \in Tokens : Revoked(t) \/ Lapse(t)
  \/ \E s \in Slots : Cut(s)
  \/ \E g \in gaps : GapFailed(g)

OthersPost == \E c \in Channels : OtherPosts(c)

AgentNext == Commands \/ Answers \/ Stream \/ Environment \/ OthersPost

AgentSpec == AgentInit /\ [][AgentNext]_agentVars

\* Open connections make progress, timers fire, calls return (the API client
\* gives every request a timeout) and a socket the agent closed is closed.
AgentFairness ==
  /\ WF_agentVars(Answers)
  /\ \A s \in Slots :
       /\ WF_agentVars(Hello(s)) /\ WF_agentVars(OnOpen(s))
       /\ WF_agentVars(Deliver(s))
       /\ WF_agentVars(s # socket /\ Cut(s))
  /\ WF_agentVars(TimerFires)
  /\ WF_agentVars(\E g \in gaps : GapAnswered(g) \/ GapApplied(g))

----------------------------------------------------------------------------
(* Properties.                                                              *)

Frames ==
  {<<"ready">>, <<"revoked">>, <<"close">>}
    \union {<<"error", code>> : code \in {"unauthenticated", "revoked"}}
    \union {<<"message", c, n>> : c \in Channels, n \in 1..MaxLog}

SocketType ==
  [gen : 1..MaxGenerations,
   phase : {"connecting", "asked", "ready", "closed"},
   token : Tokens \union {None}, chans : SUBSET Channels,
   frames : Seq(Frames)]

\* Types; an agent keeps at most one socket of the current generation, and
\* its timer never runs beside that socket (connectStream, stopStream).
AgentTypeOK ==
  /\ session \in [token : Tokens, nextSequence : Nat] \union {None}
  /\ alive \subseteq DOMAIN lastSequence /\ lapsed \subseteq DOMAIN lastSequence
  /\ \A s \in Slots : sockets[s] # None => sockets[s] \in SocketType
  /\ \A s \in Slots :
       (sockets[s] # None /\ sockets[s].gen = generation) => s = socket
  /\ ~(timer /\ socket # None)

\* Message events of a channel come in increasing sequence order, none twice,
\* whatever live frames and gap fetches interleave.
EmittedInOrder ==
  \A c \in Channels :
    \A i, j \in DOMAIN emitted[c] : i < j => emitted[c][i] < emitted[c][j]

\* One post command puts at most one message on the channel, although it makes
\* two attempts and either answer can be lost.
OneMessagePerPost ==
  (command # None /\ command.cmd = "post") => command.accepted <= 1

\* A subscribed agent learns of the end of its session, even when the frame
\* that says so is lost with its connection.
EndIsLearned ==
  \A t \in Tokens :
    (session # None /\ session.token = t /\ t \notin alive /\ channels # {})
      ~> ~(session # None /\ session.token = t)
=============================================================================
