------------------------------- MODULE MCWorkers -------------------------------
(* An instance of the presence and discovery workers for TLC.  They are     *)
(* separate objects that share the rules for signed requests and nothing    *)
(* else, so a behaviour follows one of them.  In both, a is the identity    *)
(* under test: it publishes and removes, or asks for matches; b is queried  *)
(* while it has a lease, or is the profile a may be matched with.           *)
EXTENDS Presence, Discovery

CONSTANTS a, b

VARIABLE serving

Everyone == {a, b}

Queries == {b}

LeasesAndBundles ==
  {<<a, op, family>> : op \in {"publish", "remove"}, family \in Families}
    \cup {<<b, "publish", "presence">>}

AsksAndPublishes ==
  {<<a, "match">>, <<a, "upsert">>, <<a, "block">>,
   <<b, "upsert">>, <<b, "delete">>, <<b, "block">>}

WorkersInit ==
  /\ PresenceInit /\ DiscoveryInit
  /\ serving \in {"presence", "discovery"}

WorkersNext ==
  \/ /\ serving = "presence" /\ PresenceNext
     /\ UNCHANGED <<index, stored, ready, matching, answer, granted, serving>>
  \/ /\ serving = "discovery" /\ DiscoveryNext
     /\ UNCHANGED <<seq, disk, memory, loaded, timer, subscriptions, view,
                    removed, serving>>

WorkersSpec ==
  /\ WorkersInit
  /\ [][WorkersNext]_<<presenceVars, discoveryVars, serving>>
  /\ PresenceFairness
=============================================================================
