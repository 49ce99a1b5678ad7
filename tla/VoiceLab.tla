------------------------------ MODULE VoiceLab ------------------------------
(***************************************************************************)
(* The Voice Lab page: a list of calls and a studio that shows one of them, *)
(* with VoiceLabClient's handlers, its poll, and the server actions they    *)
(* run.  Next.js runs the server actions of a page one at a time, in the    *)
(* order they were asked for; calls move on meanwhile.                      *)
(***************************************************************************)
EXTENDS Naturals, Sequences, FiniteSets

CONSTANTS
  LabCalls,   \* the calls when the page was opened
  TestCall,   \* the call of the test order
  MaxRuns,    \* bound: server actions
  MaxWaiting, \* bound: server actions that wait
  MaxMoves    \* bound: states of a call

ASSUME LabAssumption ==
  /\ LabCalls \cup {TestCall} \subseteq Nat \ {0} /\ TestCall \notin LabCalls
  /\ MaxRuns \in Nat /\ MaxWaiting \in Nat \ {0} /\ MaxMoves \in Nat

VARIABLES
  calls,  \* the calls in the database
  lab,    \* the state of the page
  line,   \* the server actions asked for, the first one running
  runs,   \* server actions so far
  newest  \* history: the latest state of each call that the studio showed

labVars == <<calls, lab, line, runs, newest>>

KnownCalls == LabCalls \cup {TestCall}
Silence == 0  \* no recording
NotThere == [stage |-> "none", version |-> 0]

(* A pending call without a task, or with its phase: "ringing" stands for those of an *)
(* agent at work, "rejected" for a customer who hung up; and every other status.  *)
CallStages == {"queued", "dispatched", "ringing", "rejected", "over"}
LabRow == [stage : CallStages, version : 1 .. MaxMoves] \cup {NotThere}
LabRun(kind, c, held) == [kind |-> kind, call |-> c, held |-> held, answer |-> "none", row |-> NotThere]

LabTypeOK ==
  /\ calls \in [KnownCalls -> LabRow] /\ newest \in [KnownCalls -> LabRow]
  /\ lab \in [selected : KnownCalls, shown : KnownCalls, row : LabRow, list : [KnownCalls -> LabRow],
              audio : KnownCalls \cup {Silence}, heard : BOOLEAN, polling : BOOLEAN, notice : {"none", "success", "error"}]
  /\ runs \in 0 .. MaxRuns /\ Len(line) <= MaxWaiting + 1
  /\ \A i \in DOMAIN line :
       /\ line[i].kind \in {"details", "dispatch", "create"}
       /\ line[i].answer \in {"none", "ok", "failed"} /\ line[i].row \in LabRow

HasAudio(row) == row.stage = "over"

(* The page reads the list first, then the call that is shown. *)
LabInit ==
  /\ calls \in [KnownCalls -> {NotThere} \cup [stage : CallStages, version : {1}]]
  /\ \A c \in KnownCalls : calls[c] = NotThere <=> c = TestCall
  /\ \E c \in LabCalls : lab =
       [selected |-> c, shown |-> c, row |-> calls[c], list |-> calls,
        audio |-> Silence, heard |-> FALSE, polling |-> TRUE, notice |-> "none"]
  /\ line = <<>> /\ runs = 0 /\ newest = [c \in KnownCalls |-> IF c = lab.shown THEN calls[c] ELSE NotThere]

-----------------------------------------------------------------------------
(* What the developer does *)

(* isPending: an action of a transition has not come to its end. *)
Busy == \E i \in DOMAIN line : line[i].held

Asks(run) ==
  /\ runs < MaxRuns /\ Len(line) < MaxWaiting
  /\ runs' = runs + 1 /\ line' = Append(line, run)
  /\ UNCHANGED <<calls, newest>>

SelectCall(c) ==
  /\ lab.list[c] # NotThere
  /\ lab' = [lab EXCEPT !.selected = c, !.audio = Silence]
  /\ Asks(LabRun("details", c, TRUE))

(* Every 2.5 seconds, and the "Refresh" button, which waits for the transitions. *)
PollFires == lab.polling /\ Asks(LabRun("details", lab.selected, FALSE)) /\ UNCHANGED lab
RefreshClicked == ~Busy /\ Asks(LabRun("details", lab.selected, FALSE)) /\ UNCHANGED lab

TogglePolling ==
  /\ lab' = [lab EXCEPT !.polling = ~@]
  /\ UNCHANGED <<calls, line, runs, newest>>

MayDispatchFrom(r) == r.stage \in {"queued", "rejected"}

(* The button in the list and the one in the studio look at their own copy of the call. *)
DispatchClicked(c) ==
  /\ ~Busy
  /\ MayDispatchFrom(lab.list[c]) \/ (lab.shown = c /\ MayDispatchFrom(lab.row))
  /\ lab' = [lab EXCEPT !.notice = "none"]
  /\ Asks(LabRun("dispatch", c, TRUE))

CreateSubmitted ==
  /\ ~Busy /\ calls[TestCall] = NotThere  \* bound: one test order
  /\ lab' = [lab EXCEPT !.notice = "none"]
  /\ Asks(LabRun("create", TestCall, TRUE))

-----------------------------------------------------------------------------
(* The server actions *)

AtHead(kind) == line # <<>> /\ Head(line).kind = kind /\ Head(line).answer = "none"
Says(answer, row) == line' = [line EXCEPT ![1].answer = answer, ![1].row = row]
MovedTo(r, stage) == [stage |-> stage, version |-> r.version + 1]

DetailsRead ==
  /\ AtHead("details")
  /\ LET r == calls[Head(line).call] IN Says(IF r = NotThere THEN "failed" ELSE "ok", r)
  /\ UNCHANGED <<calls, lab, runs, newest>>

(* POST /calls/:id/dispatch answers 200 when the agent took the call, when it was *)
(* put off, and when the agent rejected it and the row was closed.          *)
DispatchedFrom(r) ==
  IF r.stage \in {"over", "dispatched"} THEN {} ELSE {r, MovedTo(r, "dispatched"), MovedTo(r, "over")}

DispatchDone ==
  /\ AtHead("dispatch")
  /\ \E r \in DispatchedFrom(calls[Head(line).call]) :
       r.version <= MaxMoves /\ calls' = [calls EXCEPT ![Head(line).call] = r]
  /\ Says("ok", NotThere)
  /\ UNCHANGED <<lab, runs, newest>>

(* createTestOrderAndQueueAction: order, call and, if asked for, its dispatch. *)
CreateDone ==
  /\ AtHead("create")
  /\ \E r \in {[stage |-> s, version |-> 1] : s \in {"queued", "dispatched", "over"}} :
       calls' = [calls EXCEPT ![TestCall] = r]
  /\ Says("ok", NotThere)
  /\ UNCHANGED <<lab, runs, newest>>

(* The poll that the new order wakes may queue the call first, or dispatch it: *)
(* the action then fails with a 409, after the order was created.           *)
CreateTooLate ==
  /\ AtHead("create")
  /\ \E r \in {[stage |-> s, version |-> 1] : s \in {"queued", "dispatched"}} :
       calls' = [calls EXCEPT ![TestCall] = r]
  /\ Says("failed", NotThere)
  /\ UNCHANGED <<lab, runs, newest>>

(* Refused, or not answered in time. *)
RunFails ==
  /\ line # <<>> /\ Head(line).answer = "none"
  /\ Says("failed", NotThere)
  /\ UNCHANGED <<calls, lab, runs, newest>>

(* refreshSelectedCall: a call that the list does not have is not added to it. *)
ShownFrom(l, c, row) ==
  [l EXCEPT !.shown = c, !.row = row, !.list[c] = IF @ = NotThere THEN @ ELSE row, !.heard = FALSE]

DetailsShown ==
  /\ line # <<>> /\ Head(line).kind = "details" /\ Head(line).answer # "none"
  /\ line' = Tail(line)
  /\ LET run == Head(line) IN
       IF run.answer = "ok"
       THEN /\ lab' = ShownFrom(lab, run.call, run.row)
            /\ newest' = [newest EXCEPT ![run.call] = run.row]
       ELSE UNCHANGED <<lab, newest>>
  /\ UNCHANGED <<calls, runs>>

(* The effect that follows the call that is shown runs after it was rendered. *)
AudioFollows ==
  /\ ~lab.heard
  /\ lab' = [lab EXCEPT !.heard = TRUE, !.audio = IF HasAudio(lab.row) THEN lab.shown ELSE Silence]
  /\ UNCHANGED <<calls, line, runs, newest>>

(* handleDispatch and handleCreateTestOrder: a success is followed by the details, *)
(* and a test call is selected.                                             *)
NoticeShown ==
  /\ line # <<>> /\ Head(line).kind # "details" /\ Head(line).answer # "none"
  /\ LET run == Head(line) IN
       IF run.answer = "ok"
       THEN /\ line' = Append(Tail(line), LabRun("details", run.call, TRUE))
            /\ lab' = [lab EXCEPT !.notice = "success",
                                  !.selected = IF run.kind = "create" THEN run.call ELSE @]
       ELSE /\ line' = Tail(line)
            /\ lab' = [lab EXCEPT !.notice = "error"]
  /\ UNCHANGED <<calls, runs, newest>>

-----------------------------------------------------------------------------
(* The orchestrator and the agent *)

NextStages(stage) ==
  CASE stage = "queued" -> {"dispatched"} [] stage = "dispatched" -> {"ringing", "over"}
    [] stage = "ringing" -> {"rejected", "over"} [] stage = "rejected" -> {"over"} [] OTHER -> {}

CallGoesOn(c) ==
  /\ calls[c].version < MaxMoves
  /\ \E s \in NextStages(calls[c].stage) : calls' = [calls EXCEPT ![c] = MovedTo(@, s)]
  /\ UNCHANGED <<lab, line, runs, newest>>

LabNext ==
  \/ \E c \in KnownCalls : SelectCall(c) \/ DispatchClicked(c) \/ CallGoesOn(c)
  \/ PollFires \/ RefreshClicked \/ TogglePolling \/ CreateSubmitted
  \/ DetailsRead \/ DispatchDone \/ CreateDone \/ CreateTooLate \/ RunFails
  \/ DetailsShown \/ AudioFollows \/ NoticeShown

-----------------------------------------------------------------------------
(***************************************************************************)
(* The studio tells of one call: once the effect of a render has run, the   *)
(* recordings it offers are those of the call it shows, which is never      *)
(* shown in an older state than before, nor in an older one than the list   *)
(* has, though selections, polls and dispatches of several calls are        *)
(* answered in between.                                                     *)
(***************************************************************************)
StudioTellsOneCall ==
  /\ lab.heard /\ lab.audio # Silence => lab.audio = lab.shown /\ HasAudio(lab.row)
  /\ lab.row.version >= newest[lab.shown].version
  /\ lab.row.version >= lab.list[lab.shown].version
=============================================================================
