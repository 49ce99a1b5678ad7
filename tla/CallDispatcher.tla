---------------------------- MODULE CallDispatcher ----------------------------
(***************************************************************************)
(* CallDispatcherService.dispatchCall, run by the poll or by a request of   *)
(* the shop, with the startTask of the Ringio adapter that it awaits.       *)
(*                                                                          *)
(* A dispatch counts itself, reads the call, decides, awaits startTask and  *)
(* then writes the row by its id, whatever the row has become.  In          *)
(* startTask the handle on the running worker is looked at first; the       *)
(* checks of the call server are awaited between that and the fork.         *)
(***************************************************************************)
EXTENDS VoiceRuntime

CONSTANTS
  Requests,     \* the HTTP requests of a shop that may be in progress at once
  Rejections,   \* whether the fork may throw
  MaxTasks      \* bound: tasks of one call that a request of the shop may start

Poller == "poll"
Callers == Requests \cup {Poller}

ASSUME DispatcherAssumption ==
  /\ Poller \notin Requests
  /\ Rejections \in BOOLEAN
  /\ MaxTasks \in Nat

VARIABLES
  activeDispatches,   \* the dispatcher's counter
  disp,               \* disp[c]: where caller c is inside dispatchCall, and for which call
  issued              \* issued[o][n]: task ids issued for the call so far

dispatcherVars == <<activeDispatches, disp, issued>>

maxConcurrency == 1

NotDispatching == [pc |-> "idle", call |-> <<0, 0>>, task |-> 0]

DispatcherTypeOK ==
  /\ activeDispatches \in 0..maxConcurrency
  /\ disp \in [Callers ->
                 {NotDispatching} \cup
                 [pc : {"reading", "starting"}, call : Orders \X Attempts, task : {0}] \cup
                 [pc : {"accepted", "rejected"}, call : Orders \X Attempts, task : Nat \ {0}]]
  /\ issued \in [Orders -> [Attempts -> Nat]]

DispatcherInit ==
  /\ activeDispatches = 0
  /\ disp = [c \in Callers |-> NotDispatching]
  /\ issued = [o \in Orders |-> [n \in Attempts |-> 0]]

(* The call is there, pending, and was not handed to a worker already. *)
Dispatchable(o, n) ==
  /\ call[o][n].status = "pending"
  /\ ~(call[o][n].task # 0 /\ call[o][n].phase = "dispatched")

(* Mutated form: the adapter forks without looking at its handle. *)
MayStartBeside(o, n) ==
  /\ Dispatchable(o, n)
  /\ IsOpen(o)

(* The checks pass, and the adapter has no worker running. *)
MayStart(o, n) ==
  /\ Dispatchable(o, n)
  /\ IsOpen(o)
  /\ child = NoTask

(***************************************************************************)
(* dispatchCall is called for a row, which need not be there: the counter   *)
(* goes up, and the call is read.  (At the limit it throws at once.)        *)
(***************************************************************************)
Enter(c, o, n) ==
  /\ disp[c].pc = "idle"
  /\ activeDispatches < maxConcurrency
  /\ activeDispatches' = activeDispatches + 1
  /\ disp' = [disp EXCEPT ![c] = [pc |-> "reading", call |-> <<o, n>>, task |-> 0]]
  /\ UNCHANGED <<issued, tableVars, voiceVars>>

(* The call was read: startTask gets as far as the checks of the call server. *)
Check(c) ==
  /\ disp[c].pc = "reading"
  /\ MayStart(disp[c].call[1], disp[c].call[2])
  /\ disp' = [disp EXCEPT ![c] = [pc |-> "starting", call |-> @.call, task |-> 0]]
  /\ UNCHANGED <<activeDispatches, issued, tableVars, voiceVars>>

NextTask(c) == issued[disp[c].call[1]][disp[c].call[2]] + 1

TaskOf(c, k) == <<disp[c].call[1], disp[c].call[2], k>>

(* Of the requests of the shop, the call server takes MaxTasks for one call at most. *)
IssueTask(c, outcome) ==
  /\ disp[c].pc = "starting"
  /\ c # Poller => NextTask(c) <= MaxTasks
  /\ disp' = [disp EXCEPT ![c] = [pc |-> outcome, call |-> @.call, task |-> NextTask(c)]]
  /\ issued' = [issued EXCEPT ![disp[c].call[1]][disp[c].call[2]] = @ + 1]
  /\ UNCHANGED activeDispatches

(* The call server is healthy and has a free phone: the worker is forked. *)
Launch(c) ==
  /\ IssueTask(c, "accepted")
  /\ Fork(TaskOf(c, NextTask(c)))
  /\ UNCHANGED tableVars

(* The fork throws: the task is not accepted. *)
Reject(c) ==
  /\ Rejections
  /\ IssueTask(c, "rejected")
  /\ UNCHANGED <<tableVars, voiceVars>>

(* Mutated form: the counter goes down after the write, which may throw. *)
LeaveUnlessThrown(c) ==
  /\ disp' = [disp EXCEPT ![c] = NotDispatching]
  /\ activeDispatches' = IF Exists(call[disp[c].call[1]][disp[c].call[2]])
                           THEN activeDispatches - 1 ELSE activeDispatches
  /\ UNCHANGED issued

(* The `finally` block. *)
Leave(c) ==
  /\ disp' = [disp EXCEPT ![c] = NotDispatching]
  /\ activeDispatches' = activeDispatches - 1
  /\ UNCHANGED issued

(* Not there, closed or dispatched already, outside the window, or a worker is running. *)
Refuse(c) ==
  /\ disp[c].pc = "reading"
  /\ ~MayStart(disp[c].call[1], disp[c].call[2])
  /\ Leave(c)
  /\ UNCHANGED <<tableVars, voiceVars>>

(* No call server, or no free phone: the row is left as it was. *)
Defer(c) ==
  /\ disp[c].pc = "starting"
  /\ Leave(c)
  /\ UNCHANGED <<tableVars, voiceVars>>

(* Mutated form: the row keeps no trace of the task that was accepted. *)
UntracedRow(row, k) == [row EXCEPT !.phase = "dispatched"]

AcceptedRow(row, k) ==
  [row EXCEPT !.task = k, !.dispatched = 0, !.phase = "dispatched"]

RejectedRow(row, k) ==
  [row EXCEPT !.task = k, !.status = "failed", !.disposition = "error",
              !.completed = 0, !.phase = "rejected"]

(* The answer of startTask is written; the update of a deleted row throws. *)
Record(c) ==
  /\ disp[c].pc \in {"accepted", "rejected"}
  /\ LET o == disp[c].call[1]
         n == disp[c].call[2]
         row == IF disp[c].pc = "accepted"
                  THEN AcceptedRow(call[o][n], disp[c].task)
                  ELSE RejectedRow(call[o][n], disp[c].task)
     IN  IF Exists(call[o][n]) THEN SetRow(o, n, row) ELSE UNCHANGED call
  /\ Leave(c)
  /\ UNCHANGED <<order, open, voiceVars>>
=============================================================================
