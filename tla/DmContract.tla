------------------------------ MODULE DmContract ------------------------------
(***************************************************************************)
(* What docs/messaging.md promises of a direct message, whatever the relay  *)
(* loses, repeats or reorders and whichever device crashes: a message is    *)
(* queued once, stored by the recipient at most once, shown at most once    *)
(* and only after it is stored, and the sender drops its retry obligation   *)
(* only after the recipient has stored it.                                  *)
(***************************************************************************)
EXTENDS Naturals

CONSTANT Messages

VARIABLES
  phase,   \* "unsent", "queued", "stored" or "discharged", per message
  shown    \* how often a message was handed to the application

contractVars == <<phase, shown>>

ContractInit ==
  /\ phase = [m \in Messages |-> "unsent"]
  /\ shown = [m \in Messages |-> 0]

Move(m, from, to) ==
  /\ phase[m] = from
  /\ phase' = [phase EXCEPT ![m] = to]

Enqueue(m) == Move(m, "unsent", "queued") /\ UNCHANGED shown

Store(m) == Move(m, "queued", "stored") /\ UNCHANGED shown

StoreAndShow(m) ==
  /\ Move(m, "queued", "stored")
  /\ shown' = [shown EXCEPT ![m] = @ + 1]

Discharge(m) == Move(m, "stored", "discharged") /\ UNCHANGED shown

ContractNext ==
  \E m \in Messages : Enqueue(m) \/ Store(m) \/ StoreAndShow(m) \/ Discharge(m)

ContractSpec == ContractInit /\ [][ContractNext]_contractVars
=============================================================================
