----------------------------- MODULE RelayContract -----------------------------
(***************************************************************************)
(* What a relay promises: each identity is at one socket at most, its rooms *)
(* are those it asked for over that socket, and a message goes from an      *)
(* identity that is connected to exactly the identities it is meant for.    *)
(***************************************************************************)
CONSTANTS Identities, Sockets, Rooms, Kinds, None

VARIABLES
  at,      \* [Identities -> socket or None]
  joined,  \* [Identities -> SUBSET Rooms]
  routed   \* what the last step delivered: a set of [to, from, kind]

contractVars == <<at, joined, routed>>

ContractInit ==
  /\ at = [i \in Identities |-> None]
  /\ joined = [i \in Identities |-> {}]
  /\ routed = {}

\* A new connection takes the place of an earlier one, without its rooms.
Attach(i, s) ==
  /\ at' = [at EXCEPT ![i] = s]
  /\ joined' = [joined EXCEPT ![i] = {}]
  /\ routed' = {}

Detach(i) ==
  /\ at[i] # None
  /\ at' = [at EXCEPT ![i] = None]
  /\ joined' = [joined EXCEPT ![i] = {}]
  /\ routed' = {}

ChangeRooms(i, now) ==
  /\ at[i] # None
  /\ joined' = [joined EXCEPT ![i] = now]
  /\ routed' = {}
  /\ UNCHANGED at

SendTo(i, j, kind) ==
  /\ at[i] # None
  /\ routed' = IF at[j] = None THEN {}
               ELSE {[to |-> j, from |-> i, kind |-> kind]}
  /\ UNCHANGED <<at, joined>>

\* Everyone else in the room who is connected.
Gossip(i, room) ==
  /\ at[i] # None
  /\ routed' = {[to |-> j, from |-> i, kind |-> room] :
                  j \in {k \in Identities \ {i} : room \in joined[k]}}
  /\ UNCHANGED <<at, joined>>

\* A relay that loses its memory has nobody connected.
Forget ==
  /\ at' = [i \in Identities |-> None]
  /\ joined' = [i \in Identities |-> {}]
  /\ routed' = {}

Quiet == routed' = {} /\ UNCHANGED <<at, joined>>

ContractNext ==
  \/ \E i \in Identities, s \in Sockets : Attach(i, s)
  \/ \E i \in Identities : Detach(i)
  \/ \E i \in Identities, now \in SUBSET Rooms : ChangeRooms(i, now)
  \/ \E i, j \in Identities, kind \in Kinds : SendTo(i, j, kind)
  \/ \E i \in Identities, room \in Rooms : Gossip(i, room)
  \/ Forget
  \/ Quiet

ContractSpec == ContractInit /\ [][ContractNext]_contractVars
=============================================================================
