--------------------------------- MODULE Rooms ---------------------------------
(***************************************************************************)
(* Public-room moderation (packages/client/src/rooms.ts): the per-user      *)
(* cooldown, the duplicate-message automod, votekicks and bans of one room, *)
(* as one client keeps them.  Rooms do not share state.  Times are in       *)
(* milliseconds; the clock moves by one of the Steps.                       *)
(***************************************************************************)
EXTENDS Naturals, Sequences, FiniteSets

CONSTANTS
  Users,      \* identities in the room
  Targets,    \* those somebody may vote against
  Speakers,   \* those who send messages
  Texts,      \* message texts; the other automod checks depend on the text only
  Abusive,    \* texts that automod blocks for their capitals or their length
  RateLimit,  \* mod.rateLimit
  Steps,      \* what the clock may advance by
  MaxWaits,   \* bound on the steps of the clock
  MaxSent     \* bound on the messages that are sent

ASSUME RoomsAssumption ==
  /\ IsFiniteSet(Users) /\ Targets \subseteq Users
  /\ Speakers \subseteq Users /\ Abusive \subseteq Texts
  /\ RateLimit \in Nat \ {0} /\ Steps \subseteq Nat \ {0}
  /\ MaxWaits \in Nat /\ MaxSent \in Nat

RATE_WINDOW_MS == 60000
VOTEKICK_WINDOW_MS == 5 * 60000
SPAM_BAN_MS == 30 * 601000
SPAM_DUPLICATE_THRESHOLD == 3
RECENT_TEXTS == 10
VOTES_NEEDED == 3

VARIABLES
  now,
  waits,
  timestamps,   \* userStates: send times, per user
  recentTexts,  \* userStates: last texts, per user
  bans,         \* unban times; 0 is no entry
  votekicks,    \* per target: [votes, startedAt]; no votes is no entry
  sent,         \* history: the messages that were sent, in order
  banned,       \* history: the bans that were given
  voted         \* history: when a user last voted against a target, or 0

roomVars == <<now, waits, timestamps, recentTexts, bans, votekicks, sent,
              banned, voted>>

----------------------------------------------------------------------------

IsBanned(u) == bans[u] # 0 /\ now < bans[u]

\* checkCooldown, the pruning of old timestamps.
RecentTimestamps(u) ==
  SelectSeq(timestamps[u], LAMBDA t : t + RATE_WINDOW_MS > now)

Duplicates(u, text) ==
  Len(SelectSeq(recentTexts[u], LAMBDA t : t = text))

\* A ban replaces the one that is there.
Ban(u, why) ==
  /\ bans' = [bans EXCEPT ![u] = now + SPAM_BAN_MS]
  /\ banned' = banned \union {[user |-> u, from |-> now,
                              until |-> now + SPAM_BAN_MS, why |-> why]}

\* sendRoomMessage, which ends in a message: recordMessage and the send.
\* checkCooldown removes a ban that is over.
SendRoomMessage(u, text) ==
  /\ Len(sent) < MaxSent
  /\ ~IsBanned(u)
  /\ Len(RecentTimestamps(u)) < RateLimit
  /\ Duplicates(u, text) < SPAM_DUPLICATE_THRESHOLD
  /\ text \notin Abusive
  /\ bans' = [bans EXCEPT ![u] = 0]
  /\ timestamps' = [timestamps EXCEPT ![u] = Append(RecentTimestamps(u), now)]
  /\ recentTexts' = [recentTexts EXCEPT ![u] =
       LET all == Append(@, text)
       IN  IF Len(all) > RECENT_TEXTS THEN Tail(all) ELSE all]
  /\ sent' = Append(sent, [user |-> u, text |-> text, at |-> now])
  /\ UNCHANGED <<now, waits, votekicks, banned, voted>>

\* sendRoomMessage, refused for the cooldown or for an abusive text: an old ban
\* and old timestamps are removed all the same.
RefuseRoomMessage(u, text) ==
  /\ ~IsBanned(u)
  /\ \/ Len(RecentTimestamps(u)) >= RateLimit
     \/ text \in Abusive /\ Duplicates(u, text) < SPAM_DUPLICATE_THRESHOLD
  /\ bans' = [bans EXCEPT ![u] = 0]
  /\ timestamps' = [timestamps EXCEPT ![u] = RecentTimestamps(u)]
  /\ UNCHANGED <<now, waits, recentTexts, votekicks, sent, banned, voted>>

\* sendRoomMessage, stopped by automodCheck as duplicate spam.
AutomodBan(u, text) ==
  /\ ~IsBanned(u)
  /\ Len(RecentTimestamps(u)) < RateLimit
  /\ Duplicates(u, text) >= SPAM_DUPLICATE_THRESHOLD
  /\ Ban(u, "spam")
  /\ timestamps' = [timestamps EXCEPT ![u] = RecentTimestamps(u)]
  /\ UNCHANGED <<now, waits, recentTexts, votekicks, sent, voted>>

----------------------------------------------------------------------------

\* Mutant: the age of a votekick is not looked at.
VotekickNeverEnds(u) == votekicks[u].votes # {}

Votekick(u) ==
  /\ votekicks[u].votes # {}
  /\ now < votekicks[u].startedAt + VOTEKICK_WINDOW_MS

StartVotekick(target, initiator) ==
  /\ target # initiator
  /\ ~Votekick(target)
  /\ votekicks' = [votekicks EXCEPT ![target] =
       [votes |-> {initiator}, startedAt |-> now]]
  /\ voted' = [voted EXCEPT ![target][initiator] = now]
  /\ UNCHANGED <<now, waits, timestamps, recentTexts, bans, sent, banned>>

VoteKick(target, voter) ==
  /\ Votekick(target)
  /\ voted' = [voted EXCEPT ![target][voter] = now]
  /\ LET all == votekicks[target].votes \union {voter}
     IN  IF Cardinality(all) >= VOTES_NEEDED
         THEN /\ Ban(target, "kick")
              /\ votekicks' = [votekicks EXCEPT
                   ![target] = [votes |-> {}, startedAt |-> 0]]
         ELSE /\ votekicks' = [votekicks EXCEPT ![target].votes = all]
              /\ UNCHANGED <<bans, banned>>
  /\ UNCHANGED <<now, waits, timestamps, recentTexts, sent>>

Wait ==
  /\ waits < MaxWaits /\ waits' = waits + 1
  /\ \E step \in Steps : now' = now + step
  /\ UNCHANGED <<timestamps, recentTexts, bans, votekicks, sent, banned, voted>>

----------------------------------------------------------------------------

RoomInit ==
  /\ now = 1 /\ waits = 0
  /\ timestamps = [u \in Users |-> << >>]
  /\ recentTexts = [u \in Users |-> << >>]
  /\ bans = [u \in Users |-> 0]
  /\ votekicks = [u \in Users |-> [votes |-> {}, startedAt |-> 0]]
  /\ sent = << >> /\ banned = {}
  /\ voted = [u \in Users |-> [v \in Users |-> 0]]

RoomNext ==
  \/ \E u \in Speakers, text \in Texts :
       SendRoomMessage(u, text) \/ RefuseRoomMessage(u, text) \/ AutomodBan(u, text)
  \/ \E target \in Targets, user \in Users :
       StartVotekick(target, user) \/ VoteKick(target, user)
  \/ Wait

RoomSpec == RoomInit /\ [][RoomNext]_roomVars

----------------------------------------------------------------------------
(* Properties.                                                              *)

SentBy(u) == SelectSeq(sent, LAMBDA m : m.user = u)

\* Types; an entry of bans or votekicks comes from a ban or a vote that was
\* given, and the recorded texts are the last ones sent.
RoomTypeOK ==
  /\ now \in Nat \ {0} /\ waits \in 0..MaxWaits
  /\ \A u \in Users :
       /\ bans[u] # 0 =>
            \E b \in banned : b.user = u /\ b.until = bans[u]
       /\ \A v \in votekicks[u].votes : voted[u][v] >= votekicks[u].startedAt
       /\ Len(recentTexts[u]) <= RECENT_TEXTS
       /\ \E k \in 0..Len(SentBy(u)) :
            recentTexts[u] =
              [i \in 1..Len(SentBy(u)) - k |-> SentBy(u)[k + i].text]

\* From the moment a ban is given to the moment it ends the user sends nothing;
\* neither a later ban nor the clean-up in checkCooldown shortens it.
SilentWhileBanned ==
  \A b \in banned :
    \A i \in DOMAIN sent :
      sent[i].user = b.user => ~(b.from < sent[i].at /\ sent[i].at < b.until)

Kicks(t) == \E b \in banned' \ banned : b.user = t /\ b.why = "kick"

KickNeedsThreeStep ==
  \A t \in Users :
    Kicks(t) =>
      Cardinality({v \in Users : /\ voted'[t][v] # 0
                                 /\ now < voted'[t][v] + VOTEKICK_WINDOW_MS})
        >= VOTES_NEEDED

\* Moderation is neither escaped nor forced: a kick takes three different
\* voters, each of them within the five minutes that a votekick may last, and
\* who is banned is silent until the ban ends (voteKick, isBanned).
ModerationHolds == []SilentWhileBanned /\ [][KickNeedsThreeStep]_roomVars
=============================================================================
