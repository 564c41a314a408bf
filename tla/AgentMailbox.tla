----------------------------- MODULE AgentMailbox -----------------------------
(***************************************************************************)
(* Agent requests between two devices (packages/client/src/agent-mailbox.ts *)
(* behind local-daemon.ts): the requester submits, the worker admits and    *)
(* reports, both replay their durable inbox.                                *)
(*                                                                          *)
(* Messages travel as direct messages, committed together with the mailbox  *)
(* record (commitSend): each reaches the other inbox once, in any order.    *)
(* The worker's daemon takes HTTP calls; its mailbox runs them one at a     *)
(* time (exclusive) and awaits the send in between.  The worker may crash   *)
(* at any time and is restarted.                                            *)
(***************************************************************************)
EXTENDS Naturals, Sequences, FiniteSets

CONSTANTS
  Correlations,
  Values,         \* results of completed work
  Deadlines,      \* acceptBefore
  NoEntry,
  MaxConcurrent,  \* maxConcurrentRequests
  MaxTime,        \* bound on the clock
  MaxCalls,       \* bound on the calls of the worker's API
  MaxCrashes      \* bound on crashes and restarts of the worker

ASSUME MailboxAssumption ==
  /\ IsFiniteSet(Correlations) /\ Deadlines \subseteq Nat
  /\ MaxConcurrent \in Nat \ {0} /\ MaxTime \in Nat
  /\ MaxCalls \in Nat /\ MaxCrashes \in Nat

VARIABLES
  now,
  outgoing,    \* requester: NoEntry or [acceptBefore, execution]
  incoming,    \* worker: NoEntry or [acceptBefore, execution]
  wire,        \* messages that are queued and not yet in the other inbox
  inbox,       \* durable inbox of each side
  seen,        \* agent:v1:seen records of each side
  rejected,    \* agent:v1:rejected records of each side
  calls,       \* worker: HTTP calls in the order of the mailbox' tail
  stopping,    \* daemon: close was called
  unlocked,    \* daemon: the device lock is released
  admissions,  \* new_admission decisions, per correlation
  admittedAt,  \* when the admission was committed
  calling,
  crashes

mailboxVars == <<now, outgoing, incoming, wire, inbox, seen, rejected, calls,
                 stopping, unlocked, admissions, admittedAt, calling, crashes>>
durableVars == <<outgoing, incoming, wire, inbox, seen, rejected>>
daemonVars == <<calls, stopping, unlocked, calling, crashes>>

Sides == {"requester", "worker"}
Accepted == <<"accepted">>
Outcomes ==
  {<<"completed", v>> : v \in Values}
    \union {<<"failed", "admission">>, <<"failed", "execution">>}
Evidence == Outcomes \union {Accepted}
Awaiting == <<"awaiting">>  \* awaiting_admission or awaiting_evidence

\* A mailbox record.
Entries == [acceptBefore : Deadlines, execution : Evidence \union {Awaiting}]

ASSUME NoEntryAssumption == NoEntry \notin Entries

----------------------------------------------------------------------------
(* Evidence.                                                                *)

\* apply: whether it throws conflicting_evidence.
Applies(previous, evidence) ==
  IF evidence = Accepted THEN previous # <<"failed", "admission">>
  ELSE IF previous \in Outcomes THEN previous = evidence
  ELSE ~(previous = Accepted /\ evidence = <<"failed", "admission">>)

\* Mutant: the last evidence wins.
ApplyLast(previous, evidence) == evidence

\* ... and what it returns.
Apply(previous, evidence) ==
  IF evidence = Accepted
  THEN IF previous = Awaiting THEN Accepted ELSE previous
  ELSE IF previous \in Outcomes THEN previous ELSE evidence

Request(c, d) == [kind |-> "request", correlation |-> c, acceptBefore |-> d]
Report(c, e) == [kind |-> "evidence", correlation |-> c, evidence |-> e]
Recipient(m) == IF m.kind = "request" THEN "worker" ELSE "requester"

----------------------------------------------------------------------------
(* Both sides.                                                              *)

\* submit: the record and the message are one transaction; a correlation that
\* is in use is answered from the record, or refused.
Submit(c, d) ==
  /\ outgoing[c] = NoEntry
  /\ outgoing' = [outgoing EXCEPT ![c] =
       [acceptBefore |-> d, execution |-> Awaiting]]
  /\ wire' = wire \union {Request(c, d)}
  /\ UNCHANGED <<now, incoming, inbox, seen, rejected, daemonVars, admissions,
                 admittedAt>>

\* The direct-message layer stores a message in the recipient's inbox.
Arrives(m) ==
  /\ m \in wire
  /\ Recipient(m) = "worker" => ~unlocked
  /\ wire' = wire \ {m}
  /\ inbox' = [inbox EXCEPT ![Recipient(m)] = @ \union {m}]
  /\ UNCHANGED <<now, outgoing, incoming, seen, rejected, daemonVars,
                 admissions, admittedAt>>

Unseen(side) == inbox[side] \ seen[side]

Reject(side, m) == rejected' = [rejected EXCEPT ![side] = @ \union {m}]

\* sync, one message of its loop: each is a transaction of its own, and a crash
\* may end the loop after any of them.
Sync(side, m) ==
  /\ m \in Unseen(side)
  /\ side = "worker" => ~unlocked
  /\ seen' = [seen EXCEPT ![side] = @ \union {m}]
  /\ LET c == m.correlation
     IN  IF m.kind = "request"
         THEN /\ UNCHANGED outgoing
              /\ IF incoming[c] = NoEntry
                 THEN /\ incoming' = [incoming EXCEPT ![c] =
                           [acceptBefore |-> m.acceptBefore,
                            execution |-> Awaiting]]
                      /\ UNCHANGED rejected
                 ELSE /\ UNCHANGED incoming
                      /\ IF incoming[c].acceptBefore = m.acceptBefore
                         THEN UNCHANGED rejected ELSE Reject(side, m)
         ELSE /\ UNCHANGED incoming
              /\ IF outgoing[c] # NoEntry
                    /\ Applies(outgoing[c].execution, m.evidence)
                 THEN /\ outgoing' = [outgoing EXCEPT
                           ![c].execution = Apply(@, m.evidence)]
                      /\ UNCHANGED rejected
                 ELSE Reject(side, m) /\ UNCHANGED outgoing
  /\ UNCHANGED <<now, wire, inbox, daemonVars, admissions, admittedAt>>

----------------------------------------------------------------------------
(* The worker's daemon and its mailbox.                                     *)

\* fetch: a call is taken unless the daemon stops or is busy.
Call(op, c, e) ==
  /\ calling < MaxCalls /\ calling' = calling + 1
  /\ ~stopping /\ ~unlocked
  /\ Len(calls) < MaxConcurrent
  /\ calls' = Append(calls, [op |-> op, correlation |-> c, evidence |-> e,
                             phase |-> "waiting"])
  /\ UNCHANGED <<now, durableVars, stopping, unlocked, admissions, admittedAt,
                 crashes>>

Running(phase) == calls # << >> /\ Head(calls).phase = phase

\* The call at the head ends with an answer or an error.
Answered == calls' = Tail(calls)

Sending(call) == calls' = <<[call EXCEPT !.phase = "sending"]>> \o Tail(calls)

\* Mutant: admit does not look at an earlier decision.
BeginAdmitAnew ==
  /\ Running("waiting") /\ Head(calls).op = "admit" /\ Unseen("worker") = {}
  /\ LET call == Head(calls)
         entry == incoming[call.correlation]
     IN  IF entry = NoEntry THEN Answered
         ELSE Sending([call EXCEPT !.evidence =
                IF now < entry.acceptBefore THEN Accepted
                                            ELSE <<"failed", "admission">>])
  /\ UNCHANGED <<now, durableVars, stopping, unlocked, admissions, admittedAt,
                 calling, crashes>>

\* admit up to its send: after a full sync, for a request nobody decided.
BeginAdmit ==
  /\ Running("waiting") /\ Head(calls).op = "admit" /\ Unseen("worker") = {}
  /\ LET call == Head(calls)
         entry == incoming[call.correlation]
     IN  IF entry = NoEntry THEN Answered
         ELSE IF entry.execution # Awaiting THEN Answered
         ELSE Sending([call EXCEPT !.evidence =
                IF now < entry.acceptBefore THEN Accepted
                                            ELSE <<"failed", "admission">>])
  /\ UNCHANGED <<now, durableVars, stopping, unlocked, admissions, admittedAt,
                 calling, crashes>>

\* Mutant: work may be reported before it was admitted.
BeginRespondEarly ==
  /\ Running("waiting") /\ Head(calls).op = "respond" /\ Unseen("worker") = {}
  /\ LET call == Head(calls)
         entry == incoming[call.correlation]
     IN  IF entry = NoEntry THEN Answered
         ELSE IF entry.execution \in Outcomes THEN Answered ELSE Sending(call)
  /\ UNCHANGED <<now, durableVars, stopping, unlocked, admissions, admittedAt,
                 calling, crashes>>

\* respond up to its send: before admission only an admission error, after it
\* what apply lets through and what is news.
BeginRespond ==
  /\ Running("waiting") /\ Head(calls).op = "respond" /\ Unseen("worker") = {}
  /\ LET call == Head(calls)
         entry == incoming[call.correlation]
         fits(execution) ==
           IF execution = Awaiting THEN call.evidence = <<"failed", "admission">>
           ELSE /\ Applies(execution, call.evidence)
                /\ Apply(execution, call.evidence) # execution
     IN  IF entry = NoEntry THEN Answered
         ELSE IF fits(entry.execution) THEN Sending(call) ELSE Answered
  /\ UNCHANGED <<now, durableVars, stopping, unlocked, admissions, admittedAt,
                 calling, crashes>>

\* commitSend with the mailbox' commit callback: record and message.
Commit(c, e) ==
  /\ incoming' = [incoming EXCEPT ![c].execution = e]
  /\ wire' = wire \union {Report(c, e)}
  /\ Answered

\* The send of the running call is prepared.  An admission that crossed the
\* deadline is rolled back and the expiry is sent in its place.
CommitCall ==
  /\ Running("sending")
  /\ LET call == Head(calls)
         c == call.correlation
         late == /\ call.op = "admit" /\ call.evidence = Accepted
                 /\ now >= incoming[c].acceptBefore
     IN  IF late
         THEN /\ Sending([call EXCEPT !.evidence = <<"failed", "admission">>])
              /\ UNCHANGED <<incoming, wire, admissions, admittedAt>>
         ELSE /\ Commit(c, call.evidence)
              /\ IF call.op = "admit" /\ call.evidence = Accepted
                 THEN /\ admissions' = [admissions EXCEPT ![c] = @ + 1]
                      /\ admittedAt' = [admittedAt EXCEPT ![c] = now]
                 ELSE UNCHANGED <<admissions, admittedAt>>
  /\ UNCHANGED <<now, outgoing, inbox, seen, rejected, stopping, unlocked, calling,
                 crashes>>

\* The send fails before its transaction (no prekeys, no capacity).
SendFails ==
  /\ Running("sending")
  /\ Answered
  /\ UNCHANGED <<now, durableVars, stopping, unlocked, admissions, admittedAt,
                 calling, crashes>>

Crash ==
  /\ crashes < MaxCrashes /\ crashes' = crashes + 1
  /\ calls' = << >> /\ stopping' = FALSE /\ unlocked' = FALSE
  /\ UNCHANGED <<now, durableVars, admissions, admittedAt, calling>>

CloseDaemon ==
  /\ ~stopping /\ stopping' = TRUE
  /\ UNCHANGED <<now, durableVars, calls, unlocked, admissions, admittedAt,
                 calling, crashes>>

\* close: the device is released once the calls in flight are answered.
Released ==
  /\ stopping /\ ~unlocked /\ calls = << >>
  /\ unlocked' = TRUE
  /\ UNCHANGED <<now, durableVars, calls, stopping, admissions, admittedAt,
                 calling, crashes>>

Tick ==
  /\ now < MaxTime /\ now' = now + 1
  /\ UNCHANGED <<durableVars, daemonVars, admissions, admittedAt>>

----------------------------------------------------------------------------

MailboxInit ==
  /\ now = 0
  /\ outgoing = [c \in Correlations |-> NoEntry]
  /\ incoming = [c \in Correlations |-> NoEntry]
  /\ wire = {}
  /\ inbox = [s \in Sides |-> {}] /\ seen = [s \in Sides |-> {}]
  /\ rejected = [s \in Sides |-> {}]
  /\ calls = << >> /\ stopping = FALSE /\ unlocked = FALSE
  /\ admissions = [c \in Correlations |-> 0]
  /\ admittedAt = [c \in Correlations |-> 0]
  /\ calling = 0 /\ crashes = 0

MailboxNext ==
  \/ \E c \in Correlations, d \in Deadlines : Submit(c, d)
  \/ \E m \in wire : Arrives(m)
  \/ \E side \in Sides : \E m \in Unseen(side) : Sync(side, m)
  \/ \E c \in Correlations :
       Call("admit", c, NoEntry) \/ \E e \in Outcomes : Call("respond", c, e)
  \/ BeginAdmit \/ BeginRespond \/ CommitCall \/ SendFails
  \/ Crash \/ CloseDaemon \/ Released \/ Tick

MailboxSpec == MailboxInit /\ [][MailboxNext]_mailboxVars

\* Direct messages arrive (their retry), and an application reads its inbox.
MailboxFairness ==
  /\ WF_mailboxVars(\E m \in wire : Arrives(m) /\ Recipient(m) = "requester")
  /\ WF_mailboxVars(\E m \in Unseen("requester") : Sync("requester", m))

----------------------------------------------------------------------------
(* Properties.                                                              *)

Decided(c) == incoming[c] # NoEntry /\ incoming[c].execution # Awaiting

\* Types; a record on either side belongs to a request that was submitted, and
\* every decision was sent (commitSend).
MailboxTypeOK ==
  /\ \A c \in Correlations :
       /\ outgoing[c] # NoEntry => outgoing[c].execution \in Evidence \union {Awaiting}
       /\ incoming[c] # NoEntry =>
            /\ outgoing[c] # NoEntry
            /\ incoming[c].acceptBefore = outgoing[c].acceptBefore
       /\ Decided(c) =>
            Report(c, incoming[c].execution)
              \in wire \union inbox["requester"]
  /\ Len(calls) <= MaxConcurrent
  /\ unlocked => stopping

\* "Concurrent replay and restart cannot re-admit": a request is handed to an
\* executor at most once, whatever calls repeat and wherever the worker stops,
\* and only before its deadline, even when the send that announces it was slow
\* (the second look at the clock in admit's commit).
AdmittedOnceInTime ==
  \A c \in Correlations :
    /\ admissions[c] <= 1
    /\ admissions[c] > 0 => admittedAt[c] < incoming[c].acceptBefore

\* The requester never believes more than the worker durably decided, and the
\* worker's reports are consistent in any order: none is ever rejected.
EvidenceAgrees ==
  /\ rejected["requester"] = {}
  /\ \A c \in Correlations :
       outgoing[c] # NoEntry /\ outgoing[c].execution # Awaiting =>
         /\ incoming[c] # NoEntry
         /\ \/ incoming[c].execution = outgoing[c].execution
            \/ /\ outgoing[c].execution = Accepted
               /\ incoming[c].execution \in Outcomes \ {<<"failed", "admission">>}

\* The requester learns the outcome of its work.
OutcomeLearned ==
  \A c \in Correlations : \A e \in Outcomes :
    (incoming[c] # NoEntry /\ incoming[c].execution = e)
      ~> (outgoing[c] # NoEntry /\ outgoing[c].execution = e)
=============================================================================
