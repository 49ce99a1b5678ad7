---------------------------- MODULE CallProperties ----------------------------
(***************************************************************************)
(* What must hold of the calling subsystem.                                 *)
(***************************************************************************)
EXTENDS CallSystem

Closed(row) == row.status \notin {"none", "pending"}

(***************************************************************************)
(* An order never has two calls waiting or in progress: whatever the poll,  *)
(* the queue requests and the manual retry read before they insert, only    *)
(* the latest attempt can be pending, and the attempts have no gap.         *)
(***************************************************************************)
OneOpenAttempt ==
  \A o \in Orders, n \in Attempts :
    Exists(call[o][n]) => \A m \in Attempts : m < n => Closed(call[o][m])

(***************************************************************************)
(* The adapter never has two workers on the phone, although startTask       *)
(* awaits the call server between looking at its handle and forking.        *)
(***************************************************************************)
OneWorker == \A t, u \in live : t = u

(***************************************************************************)
(* The dispatcher's counter is exact: no way out of dispatchCall leaves it  *)
(* up, which would refuse every later dispatch until a restart.             *)
(***************************************************************************)
CounterIsExact == activeDispatches = Cardinality({c \in Callers : disp[c].pc # "idle"})

(***************************************************************************)
(* The poll does not phone a customer twice for one attempt.  A restart     *)
(* between the fork and the write of the row is the only way to a second    *)
(* call.                                                                    *)
(***************************************************************************)
PhonedOncePerAttempt == \A o \in Orders, n \in Attempts : issued[o][n] <= 1 + crashes

(***************************************************************************)
(* The order and its calls tell the same story when the staff only queues   *)
(* and retries: a confirmed (cancelled) order is one whose latest call      *)
(* confirmed (declined), there is no such call in another order, and an     *)
(* unreachable order has used all its attempts.                             *)
(***************************************************************************)
Verdict(o) ==
  LET decided == {n \in Attempts : call[o][n].disposition \in {"confirmed", "declined"}}
  IN  IF decided = {} THEN "none"
      ELSE IF \A n \in decided : IsLatest(call[o], n)
        THEN IF call[o][CHOOSE n \in decided : TRUE].disposition = "confirmed"
               THEN "confirmed" ELSE "cancelled"
      ELSE "contradiction"

OrderMatchesCalls ==
  \A o \in Orders :
    /\ Verdict(o) = IF order[o] \in {"confirmed", "cancelled"} THEN order[o] ELSE "none"
    /\ order[o] = "unreachable" =>
         Closed(call[o][MAX_ATTEMPTS]) /\ ~HasPending(call[o])

(***************************************************************************)
(* A call that has ended is never written again: a late, repeated or lost   *)
(* and replaced result, an expiry and the answer of startTask race for it,  *)
(* and the first one wins.                                                  *)
(***************************************************************************)
EndedCallStays ==
  [][\A o \in Orders, n \in Attempts :
       Closed(call[o][n]) /\ order'[o] # "deleted" =>
         /\ call'[o][n].status = call[o][n].status
         /\ call'[o][n].disposition = call[o][n].disposition]_call

(***************************************************************************)
(* A decision of the staff is not overwritten: no poll, callback or queue   *)
(* request moves an order that is not pending; the manual retry alone takes *)
(* it back to pending, and then a new attempt comes with it.                *)
(***************************************************************************)
StaffDecisionStays ==
  [][\A o \in Orders :
       order[o] \in {"confirmed", "cancelled", "unreachable"} /\ order'[o] # order[o] =>
         \/ order'[o] \in OrderEdits \cup {"deleted"}
         \/ order'[o] = "pending" /\ HasPending(call'[o])]_order

(***************************************************************************)
(* Attempt n + 1 is inserted only for a call n that ended for a reason that *)
(* allows a retry, at least the delay of attempt n ago, and only up to the  *)
(* cap; the manual retry of an unreachable order is the one exception.      *)
(***************************************************************************)
RetriesSpaced ==
  [][\A o \in Orders, n \in Attempts \ {1} :
       ~Exists(call[o][n]) /\ Exists(call'[o][n]) =>
         \/ order[o] = "unreachable" /\ order'[o] = "pending"
         \/ /\ n <= MAX_ATTEMPTS
            /\ call[o][n - 1].disposition \in RetryableDisposition
            /\ call[o][n - 1].completed >= RetryDelays[n - 1]]_call

-----------------------------------------------------------------------------
(* The abstract specification, on what the database shows. *)
Promise ==
  INSTANCE OrderConfirmation WITH
    Cap <- MAX_ATTEMPTS,
    status <- order,
    made <- [o \in Orders |-> Cardinality(Made(call[o]))],
    calling <- {o \in Orders : HasPending(call[o])}

(***************************************************************************)
(* The subsystem implements the abstract specification.                     *)
(***************************************************************************)
ImplementsPromise == Promise!Spec

-----------------------------------------------------------------------------
(***************************************************************************)
(* Every order that is placed is decided or given up on: no lost request,   *)
(* dead worker or missing phone leaves it pending for ever.                 *)
(***************************************************************************)
EveryOrderSettled ==
  \A o \in Orders :
    <>[]IsOpen(o) => (order[o] = "pending" ~> order[o] # "pending")

(***************************************************************************)
(* A call that was handed to a worker ends, whatever becomes of the worker, *)
(* of its result and of the backend, if the poll's interval timer keeps     *)
(* firing: only the expiry ends a call whose result was lost.               *)
(***************************************************************************)
EveryCallEnds ==
  WF_vars(Framed(Timer)) =>
    \A o \in Orders, n \in Attempts :
      call[o][n].status = "pending" /\ call[o][n].task # 0 ~> call[o][n].status # "pending"

(***************************************************************************)
(* A wake-up that comes during a poll is not lost: another poll follows     *)
(* even if the timer never fires.                                           *)
(***************************************************************************)
NoLostWake == again ~> poll = "start"

(***************************************************************************)
(* No order is starved by those before it in the batches: its first call is *)
(* made, even when every earlier order stays pending for ever.              *)
(***************************************************************************)
EveryOrderCalled ==
  \A o \in Orders :
    <>[]IsOpen(o) => (order[o] = "pending" ~> Exists(call[o][1]))

-----------------------------------------------------------------------------
(* What documents and comments of the repository claim, and the code does not do. *)

(***************************************************************************)
(* An order whose third attempt has ended does not stay pending.            *)
(***************************************************************************)
ExhaustedOrderGivenUp ==
  \A o \in Orders :
    order[o] = "pending" /\ Closed(call[o][MAX_ATTEMPTS]) ~> order[o] # "pending"

(***************************************************************************)
(* A call is dispatched only while its order is still pending.              *)
(***************************************************************************)
DispatchOnlyPending ==
  [][\A c \in Callers :
       disp[c].pc = "reading" /\ disp'[c].pc = "starting" =>
         order[disp'[c].call[1]] = "pending"]_disp

(***************************************************************************)
(* A call that has been dispatched is not dispatched again.                 *)
(***************************************************************************)
NeverDispatchedTwice == \A o \in Orders, n \in Attempts : issued[o][n] <= 1
=============================================================================
