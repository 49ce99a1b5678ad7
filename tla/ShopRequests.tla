---------------------------- MODULE ShopRequests ----------------------------
(***************************************************************************)
(* What the staff of a shop does to orders and calls through the API:       *)
(* OrdersService.create, update and remove, and CallsService.queue,         *)
(* queueAllPending, retryAfterReview and update.  The three that queue      *)
(* calls read first and write later.                                        *)
(***************************************************************************)
EXTENDS CallOrchestrator

CONSTANTS
  Operations,    \* the operations the staff of the shops uses
  OrderEdits,    \* the statuses staff may set on an order
  CallEdits      \* the statuses staff may set on a call

ASSUME RequestsAssumption ==
  /\ Operations \subseteq {"queue", "queueAll", "retry", "dispatch", "delete", "window"}
  /\ OrderEdits \subseteq OrderStatus
  /\ CallEdits \subseteq CallStatus

VARIABLE
  request     \* request[r]: where request r is, and the rows it will insert

Resting == [pc |-> "idle", rows |-> {}]

RequestsTypeOK ==
  request \in [Requests -> [pc : {"idle", "insert", "reopen"},
                            rows : SUBSET (Orders \X Attempts)]]

RequestsInit == request = [r \in Requests |-> Resting]

Free(r) == request[r].pc = "idle" /\ disp[r].pc = "idle"

Hold(r, where, rows) == request' = [request EXCEPT ![r] = [pc |-> where, rows |-> rows]]

Release(r) == request' = [request EXCEPT ![r] = Resting]

(* The order may have a call queued now, and it would be attempt n. *)
Queueable(o, n) ==
  /\ order[o] = "pending"
  /\ IsOpen(o)
  /\ ~HasPending(call[o])
  /\ n = NextAttemptNumber(call[o], 0)

(* CallsService.queue: the checks. *)
QueueRead(r, o) ==
  /\ "queue" \in Operations
  /\ Free(r)
  /\ \E n \in Attempts : Queueable(o, n) /\ Hold(r, "insert", {<<o, n>>})
  /\ UNCHANGED <<tableVars, voiceVars, dispatcherVars, pollVars>>

(* CallsService.queueAllPending: the query and the selection. *)
QueueAllRead(r, s) ==
  LET rows == {c \in Orders \X Attempts : ShopOf[c[1]] = s /\ Queueable(c[1], c[2])}
  IN  /\ "queueAll" \in Operations
      /\ Free(r)
      /\ rows # {}
      /\ Hold(r, "insert", rows)
      /\ UNCHANGED <<tableVars, voiceVars, dispatcherVars, pollVars>>

(***************************************************************************)
(* Both insert: rows that exist are skipped or raise a conflict, and a      *)
(* deleted order makes the whole statement fail.                            *)
(***************************************************************************)
QueueInsert(r) ==
  /\ request[r].pc = "insert"
  /\ IF \A c \in request[r].rows : OrderExists(c[1])
       THEN InsertRows(request[r].rows)
       ELSE UNCHANGED call
  /\ Release(r)
  /\ UNCHANGED <<order, open, voiceVars, dispatcherVars, pollVars>>

(* Mutated form: a call that is queued already does not matter. *)
ReviewableAnyway(o, n) ==
  /\ order[o] = "unreachable"
  /\ IsLatest(call[o], n)

(* The order waits for a review, and n is its latest attempt. *)
Reviewable(o, n) ==
  /\ order[o] = "unreachable"
  /\ ~HasPending(call[o])
  /\ IsLatest(call[o], n)

(* retryAfterReview: the reads of the transaction. *)
RetryRead(r, o) ==
  /\ "retry" \in Operations
  /\ Free(r)
  /\ \E n \in Attempts :
       /\ Reviewable(o, n)
       /\ n < MaxRows
       /\ Hold(r, "reopen", {<<o, n + 1>>})
  /\ UNCHANGED <<tableVars, voiceVars, dispatcherVars, pollVars>>

(* Its writes: the order is reopened and the attempt inserted, or neither is. *)
RetryCommit(r) ==
  /\ request[r].pc = "reopen"
  /\ IF \A c \in request[r].rows :
          order[c[1]] = "unreachable" /\ ~Exists(call[c[1]][c[2]])
       THEN /\ InsertRows(request[r].rows)
            /\ order' = [o \in Orders |->
                 IF \E c \in request[r].rows : c[1] = o THEN "pending" ELSE order[o]]
       ELSE UNCHANGED <<order, call>>
  /\ Release(r)
  /\ UNCHANGED <<open, voiceVars, dispatcherVars, pollVars>>

(* POST /calls/:id/dispatch; of the ids that no call has, the next one is asked for. *)
DispatchRequest(r, o, n) ==
  /\ "dispatch" \in Operations
  /\ Free(r)
  /\ \A m \in Attempts : m < n => Exists(call[o][m])
  /\ Enter(r, o, n)
  /\ UNCHANGED <<request, pollVars>>

(* OrdersService.create, in the order of the ids; the orchestrator is woken. *)
PlaceOrder(o) ==
  /\ order[o] = "absent"
  /\ \A p \in Orders : p < o => order[p] # "absent"
  /\ order' = [order EXCEPT ![o] = "pending"]
  /\ Wake
  /\ UNCHANGED <<call, open, request, voiceVars, dispatcherVars>>

(* PATCH /orders/:id: any status may be set at any time. *)
EditOrder(o, s) ==
  /\ s \in OrderEdits
  /\ OrderExists(o)
  /\ order' = [order EXCEPT ![o] = s]
  /\ UNCHANGED <<call, open, request, voiceVars, dispatcherVars, pollVars>>

(* DELETE /orders/:id: the calls go with the order. *)
DeleteOrder(o) ==
  /\ "delete" \in Operations
  /\ OrderExists(o)
  /\ order' = [order EXCEPT ![o] = "deleted"]
  /\ call' = [call EXCEPT ![o] = [n \in Attempts |-> NoRow]]
  /\ UNCHANGED <<open, request, voiceVars, dispatcherVars, pollVars>>

(* PATCH /calls/:id: the status only; disposition and completedAt are left. *)
EditCall(o, n, s) ==
  /\ s \in CallEdits
  /\ Exists(call[o][n])
  /\ call' = [call EXCEPT ![o][n].status = s]
  /\ UNCHANGED <<order, open, request, voiceVars, dispatcherVars, pollVars>>

(* The calling hours of a shop begin or end. *)
HoursPass(s) ==
  /\ "window" \in Operations
  /\ MoveWindow(s)
  /\ UNCHANGED <<request, voiceVars, dispatcherVars, pollVars>>
=============================================================================
