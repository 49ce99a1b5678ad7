----------------------------- MODULE RemoteAgent -----------------------------
(***************************************************************************)
(* The voice integration that talks to a remote agent over HTTP:             *)
(* VoiceDispatcherService hands one queued call at a time to the agent, and  *)
(* VoiceCallbacksService applies what the agent reports.  Both await the     *)
(* database or the network between their steps; the merchant, the clock and  *)
(* an answer that is lost come in between.                                   *)
(***************************************************************************)
EXTENDS Integers, FiniteSets

CONSTANTS
  Queue,        \* the calls, in the order of createdAt
  LastAttempts, \* those that are the last attempt of their order
  Fragments,    \* bound: sequence numbers of a conversation
  MaxPosted     \* bound: callbacks under way at the same time

ASSUME RemoteAgentAssumption ==
  /\ Queue \subseteq Nat \ {0} /\ LastAttempts \subseteq Queue /\ MaxPosted \in Nat
  /\ IsFiniteSet(Fragments) /\ Fragments = 1 .. Cardinality(Fragments)

VARIABLES
  callRow,   \* the calls table
  orderRow,  \* the order of each call: its status
  settled,   \* the status the merchant gave an order, or "none" (history)
  pass,      \* the dispatcher's pass: the step it is at, and its call
  agent,     \* the agent: the call it plays, and how far it is
  posted,    \* callbacks under way
  kept       \* fragments that were answered with a 200 (history)

agentVars == <<callRow, orderRow, settled, pass, agent, posted, kept>>

NoCall == 0
CallRow == [status : {"pending", "confirmed", "failed", "no_answer"}, dispatched : BOOLEAN,
            stale : BOOLEAN, parts : SUBSET Fragments]
OrderStatus == {"pending", "confirmed", "cancelled", "unreachable"}
PassAt == {"idle", "counting", "choosing", "claiming", "sending", "returning"}
NoFragment == 0
NoResult == "none"
Outcomes == {"confirmed", "cancelled", "no_answer", "unresolved"}
\* read: the fragments in the row that the callback found.
Post == [call : Queue, fragment : Fragments \cup {NoFragment}, result : Outcomes \cup {NoResult},
         found : BOOLEAN, read : SUBSET Fragments]

AgentTypeOK ==
  /\ callRow \in [Queue -> CallRow] /\ orderRow \in [Queue -> OrderStatus]
  /\ settled \in [Queue -> OrderStatus \cup {"none"}]
  /\ pass \in [at : PassAt, call : Queue \cup {NoCall}]
  /\ agent \in [call : Queue \cup {NoCall}, said : 0 .. Cardinality(Fragments)]
  /\ posted \subseteq Post /\ kept \subseteq Queue \X Fragments
  /\ \A c \in Queue : callRow[c].stale => callRow[c].dispatched

AgentInit ==
  /\ callRow = [c \in Queue |-> [status |-> "pending", dispatched |-> FALSE, stale |-> FALSE,
                                 parts |-> {}]]
  /\ orderRow = [c \in Queue |-> "pending"] /\ settled = [c \in Queue |-> "none"]
  /\ pass = [at |-> "idle", call |-> NoCall] /\ agent = [call |-> NoCall, said |-> 0]
  /\ posted = {} /\ kept = {}

-----------------------------------------------------------------------------
(* VoiceDispatcherService.tick *)

PassGoes(at, c) == pass' = [at |-> at, call |-> c]
InFlight(c) == callRow[c].status = "pending" /\ callRow[c].dispatched
Claimable(c) == callRow[c].status = "pending" /\ ~callRow[c].dispatched

\* expireStale closes what never reported back; the order stays pending.
ExpireStale ==
  /\ pass.at = "idle" /\ PassGoes("counting", NoCall)
  /\ callRow' = [c \in Queue |-> IF InFlight(c) /\ callRow[c].stale
                                   THEN [callRow[c] EXCEPT !.status = "no_answer"] ELSE callRow[c]]
  /\ UNCHANGED <<orderRow, settled, agent, posted, kept>>

CountInFlight ==
  /\ pass.at = "counting"
  /\ PassGoes(IF \E c \in Queue : InFlight(c) THEN "idle" ELSE "choosing", NoCall)
  /\ UNCHANGED <<callRow, orderRow, settled, agent, posted, kept>>

\* The oldest queued call of a shop whose call hours it is.
ChooseCall ==
  /\ pass.at = "choosing"
  /\ \E open \in SUBSET Queue :
      LET queued == {c \in open : Claimable(c) /\ orderRow[c] = "pending"}
      IN  IF queued = {} THEN PassGoes("idle", NoCall)
          ELSE PassGoes("claiming", CHOOSE c \in queued : \A d \in queued : c <= d)
  /\ UNCHANGED <<callRow, orderRow, settled, agent, posted, kept>>

Claim ==
  /\ pass.at = "claiming"
  /\ IF Claimable(pass.call)
       THEN /\ callRow' = [callRow EXCEPT ![pass.call].dispatched = TRUE]
            /\ PassGoes("sending", pass.call)
       ELSE PassGoes("idle", NoCall) /\ UNCHANGED callRow
  /\ UNCHANGED <<orderRow, settled, agent, posted, kept>>

\* POST /api/task/start: a free agent takes the call, though its answer may be lost;
\* a busy one answers 409; the request may not arrive.
Send ==
  /\ pass.at = "sending"
  /\ \/ /\ agent.call = NoCall /\ agent' = [call |-> pass.call, said |-> 0]
        /\ \/ PassGoes("idle", NoCall)
           \/ PassGoes("returning", pass.call)
     \/ PassGoes("returning", pass.call) /\ UNCHANGED agent
  /\ UNCHANGED <<callRow, orderRow, settled, posted, kept>>

QueuedAgain(row) == [row EXCEPT !.dispatched = FALSE, !.stale = FALSE]

\* Not taken, as far as the dispatcher knows: back in the queue for the next pass.
ReturnToQueue ==
  /\ pass.at = "returning" /\ PassGoes("idle", NoCall)
  /\ callRow' = [callRow EXCEPT ![pass.call] =
                   IF @.status = "pending" THEN QueuedAgain(@) ELSE @]
  /\ UNCHANGED <<orderRow, settled, agent, posted, kept>>

-----------------------------------------------------------------------------
(* The agent (external; scripts/fake-voice-agent.js stands in for it): one call at a time, *)
(* fragments in order of their numbers, then one result.                                  *)

Posts(fragment, result) ==
  /\ Cardinality(posted) < MaxPosted
  /\ posted' = posted \cup {[call |-> agent.call, fragment |-> fragment, result |-> result,
                          found |-> FALSE, read |-> {}]}

Speak ==
  /\ agent.call # NoCall /\ agent.said < Cardinality(Fragments)
  /\ agent' = [agent EXCEPT !.said = @ + 1]
  /\ Posts(agent.said + 1, NoResult)
  /\ UNCHANGED <<callRow, orderRow, settled, pass, kept>>

\* decideOutcome: only a confident yes or no decides.
Answers == [disposition : {"completed", "no_answer", "rejected", "error"},
            intent : {"CONFIRMED", "CANCELLED", "UNCLEAR"}, confident : BOOLEAN]
DecideOutcome(a) ==
  IF a.disposition # "completed" THEN "no_answer"
  ELSE IF a.confident /\ a.intent = "CONFIRMED" THEN "confirmed"
  ELSE IF a.confident /\ a.intent = "CANCELLED" THEN "cancelled" ELSE "unresolved"

HangUp ==
  /\ agent.call # NoCall /\ agent' = [call |-> NoCall, said |-> 0]
  /\ \E outcome \in {DecideOutcome(a) : a \in Answers} : Posts(NoFragment, outcome)
  /\ UNCHANGED <<callRow, orderRow, settled, pass, kept>>

\* The agent dies, or a callback was refused and it gives the call up.
AgentStops ==
  /\ agent.call # NoCall /\ agent' = [call |-> NoCall, said |-> 0]
  /\ UNCHANGED <<callRow, orderRow, settled, pass, posted, kept>>

-----------------------------------------------------------------------------
(* VoiceCallbacksService *)

Done(p) == posted' = posted \ {p}
AsOutcome(outcome) ==
  CASE outcome = "confirmed" -> "confirmed" [] outcome = "cancelled" -> "failed"
    [] OTHER -> "no_answer"

\* A task that was not dispatched is unknown (404); a transcript of a call that is over, 409.
FindCall(p) ==
  /\ ~p.found
  /\ IF callRow[p.call].dispatched
        /\ (p.fragment # NoFragment => callRow[p.call].status = "pending")
       THEN posted' = (posted \ {p}) \cup {[p EXCEPT !.found = TRUE, !.read = callRow[p.call].parts]}
       ELSE Done(p)
  /\ UNCHANGED <<callRow, orderRow, settled, pass, agent, kept>>

\* Mutated form: the parts are those of the row that was found before the lock.
WithFragmentStale(p) == p.read \cup {p.fragment}

\* The row is locked and read again, "so that none is lost".
WithFragment(p) == callRow[p.call].parts \cup {p.fragment}

AppendFragment(p) ==
  /\ p.found /\ p.fragment # NoFragment /\ Done(p)
  /\ callRow' = [callRow EXCEPT ![p.call].parts = WithFragment(p)]
  /\ kept' = kept \cup {<<p.call, p.fragment>>}
  /\ UNCHANGED <<orderRow, settled, pass, agent>>

\* Mutated form: a result is applied whatever the call is by now.
StillOpenAnyway(c) == TRUE

\* updateMany: only a call that is still pending is closed.
StillOpen(c) == callRow[c].status = "pending"

\* Mutated form: the order takes what the agent heard.
OrderAfterAnyway(c, outcome) ==
  IF outcome \in {"confirmed", "cancelled"} THEN outcome ELSE orderRow[c]

\* Never overrides an order the merchant already settled.
OrderAfter(c, outcome) ==
  IF orderRow[c] # "pending" THEN orderRow[c]
  ELSE IF outcome \in {"confirmed", "cancelled"} THEN outcome
  ELSE IF c \in LastAttempts THEN "unreachable" ELSE "pending"

\* One transaction closes the call and moves the order.
ApplyResult(p) ==
  /\ p.found /\ p.result # NoResult /\ Done(p)
  /\ IF StillOpen(p.call)
       THEN /\ callRow' = [callRow EXCEPT ![p.call].status = AsOutcome(p.result)]
            /\ orderRow' = [orderRow EXCEPT ![p.call] = OrderAfter(p.call, p.result)]
       ELSE UNCHANGED <<callRow, orderRow>>
  /\ UNCHANGED <<settled, pass, agent, kept>>

-----------------------------------------------------------------------------
(* The merchant and the clock *)

SettleOrder(c) ==
  /\ \E s \in {"confirmed", "cancelled"} :
      orderRow' = [orderRow EXCEPT ![c] = s] /\ settled' = [settled EXCEPT ![c] = s]
  /\ UNCHANGED <<callRow, pass, agent, posted, kept>>

\* VOICE_CALL_TIMEOUT_MINUTES have passed since the call was dispatched.
GrowsStale(c) ==
  /\ InFlight(c) /\ ~callRow[c].stale
  /\ callRow' = [callRow EXCEPT ![c].stale = TRUE]
  /\ UNCHANGED <<orderRow, settled, pass, agent, posted, kept>>

AgentNext ==
  \/ ExpireStale \/ CountInFlight \/ ChooseCall \/ Claim \/ Send \/ ReturnToQueue
  \/ Speak \/ HangUp \/ AgentStops
  \/ \E p \in posted : FindCall(p) \/ AppendFragment(p) \/ ApplyResult(p)
  \/ \E c \in Queue : SettleOrder(c) \/ GrowsStale(c)

AgentSpec == AgentInit /\ [][AgentNext]_agentVars

-----------------------------------------------------------------------------
(***************************************************************************)
(* No fragment is lost: one that was answered with a 200 is in the call's     *)
(* transcript, however the callbacks of the conversation overlap.            *)
(***************************************************************************)
FragmentsKept == \A cf \in kept : cf[2] \in callRow[cf[1]].parts

(***************************************************************************)
(* A finished call never changes again: no late or repeated result, and no   *)
(* timeout of the dispatcher, gives it another status or queues it once more. *)
(***************************************************************************)
FinishedCallStays ==
  [][\A c \in Queue : callRow[c].status # "pending" =>
       /\ callRow'[c].status = callRow[c].status
       /\ callRow'[c].dispatched = callRow[c].dispatched]_agentVars

(***************************************************************************)
(* The agent decides only what is open: an order the merchant settled keeps  *)
(* that status, and any other is confirmed or cancelled exactly when the     *)
(* result that closed its call said so.                                      *)
(***************************************************************************)
AgentDecidesWhatIsOpen ==
  \A c \in Queue :
    IF settled[c] # "none" THEN orderRow[c] = settled[c]
    ELSE /\ (orderRow[c] = "confirmed") = (callRow[c].status = "confirmed")
         /\ (orderRow[c] = "cancelled") = (callRow[c].status = "failed")

(***************************************************************************)
(* What the agent was told was kept is kept: its fragments, and the decision *)
(* of an order that was open.                                                *)
(***************************************************************************)
AgentWordKept == FragmentsKept /\ AgentDecidesWhatIsOpen
=============================================================================
