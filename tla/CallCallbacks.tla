---------------------------- MODULE CallCallbacks ----------------------------
(***************************************************************************)
(* CallCallbackService: the status events and the results of the workers.   *)
(* A result is looked up by its task id and applied in a transaction of its *)
(* own later; between the two the row may have been closed by another.      *)
(***************************************************************************)
EXTENDS CallDispatcher

(* handleEvent, or the 404 when no call carries the task. *)
HandleEvent(m) ==
  LET o == m[1][1]
      n == m[1][2]
      row == [call[o][n] EXCEPT
                !.phase = m[2],
                !.completed = IF m[2] = "ended" /\ @ = NoTime THEN 0 ELSE @]
  IN  /\ m \in events
      /\ events' = events \ {m}
      /\ IF HasTask(m[1]) THEN SetRow(o, n, row) ELSE UNCHANGED call
      /\ UNCHANGED <<order, open, child, live, reported, results, resolved,
                     dispatcherVars>>

(* handleResult finds the call of the task, or answers 404. *)
LookUpResult(m) ==
  /\ m \in results
  /\ results' = results \ {m}
  /\ resolved' = IF HasTask(m[1]) THEN resolved \cup {m} ELSE resolved
  /\ UNCHANGED <<tableVars, child, live, reported, events, dispatcherVars>>

(* The row a decision ends with when the order is no longer pending. *)
Blocked(row) == [row EXCEPT !.status = "failed", !.disposition = "policy_blocked"]

ClosedRow(row, report, n) ==
  [row EXCEPT !.status = ResultStatus(report, n),
              !.disposition = ResultDisposition(report, n),
              !.completed = 0]

(* The transaction: the first write decides, on the row as it is now. *)
ApplyResult(m) ==
  LET o == m[1][1]
      n == m[1][2]
      report == m[2]
      closed == ClosedRow(call[o][n], report, n)
  IN  /\ m \in resolved
      /\ resolved' = resolved \ {m}
      /\ \/ /\ ~StillPending(o, n)
            /\ UNCHANGED <<order, call>>
         \/ /\ StillPending(o, n)
            /\ Decisive(report)
            /\ SetRow(o, n, IF order[o] = "pending" THEN closed ELSE Blocked(closed))
            /\ MovePendingOrder(o, DecideOutcome(report))
         \/ /\ StillPending(o, n)
            /\ ~Decisive(report)
            /\ SetRow(o, n, closed)
            /\ IF n >= MAX_ATTEMPTS THEN MovePendingOrder(o, "unreachable")
                                    ELSE UNCHANGED order
      /\ UNCHANGED <<open, child, live, reported, events, results, dispatcherVars>>
=============================================================================
