------------------------------ MODULE MCAgents ------------------------------
(* An instance of the agents for TLC: the terminal agent on its stream, the *)
(* mailboxes of two devices, and the claims they exchange.  They share no   *)
(* state, and a behaviour follows one of them while the others rest in      *)
(* their initial states, where nothing with a fairness condition is         *)
(* enabled. The terminal agent has two scenes, which bound what the user    *)
(* and the others do, never what the agent does: "watching" has others post *)
(* while the user gives at most two commands, "posting" leaves the channel  *)
(* to the user's own posts, and gives them all commands.                    *)
EXTENDS AgentStream, AgentMailbox, CapabilityIndex

VARIABLE scene

agentsVars == <<agentVars, mailboxVars, capabilityVars, scene>>

AgentsInit ==
  /\ AgentInit /\ MailboxInit /\ CapabilityInit
  /\ scene \in {"watching", "posting", "mailbox", "claims"}

StreamScene ==
  \/ Commands /\ (scene = "watching" => commands' < MaxCommands)
  \/ scene = "watching" /\ OthersPost
  \/ Answers \/ Stream \/ Environment

AgentsNext ==
  /\ UNCHANGED scene
  /\ \/ /\ scene \in {"watching", "posting"} /\ StreamScene
        /\ UNCHANGED <<mailboxVars, capabilityVars>>
     \/ /\ scene = "mailbox" /\ MailboxNext
        /\ UNCHANGED <<agentVars, capabilityVars>>
     \/ /\ scene = "claims" /\ CapabilityNext
        /\ UNCHANGED <<agentVars, mailboxVars>>

AgentsSpec ==
  /\ AgentsInit /\ [][AgentsNext]_agentsVars
  /\ AgentFairness /\ MailboxFairness
=============================================================================
