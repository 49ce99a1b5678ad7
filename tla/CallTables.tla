------------------------------ MODULE CallTables ------------------------------
(***************************************************************************)
(* The part of the PostgreSQL schema that the calling subsystem shares: the *)
(* orders and their call attempts, with the writes that every component     *)
(* makes on them.  A write is one committed statement or transaction.       *)
(*                                                                          *)
(* A call is named by its order and its attempt number, which the schema    *)
(* keeps unique; its taskId is a number that is never issued twice for the  *)
(* call, so <<order, attempt, number>> stands for the random UUID.          *)
(***************************************************************************)
EXTENDS CallPolicy

CONSTANTS
  MaxOrders,  \* bound: orders that may be placed
  Shops,      \* the boutiques
  ShopOf,     \* the boutique each order belongs to
  MaxRows,    \* bound: call attempts of one order, manual retries included
  MaxLag      \* bound: ticks that may pass between the start of a poll and its read

(* The ids of the orders, in the order of their creation. *)
Orders == 1..MaxOrders

ASSUME TablesAssumption ==
  /\ MaxOrders \in Nat
  /\ ShopOf \in [Orders -> Shops]
  /\ MaxRows \in Nat /\ MaxRows >= MAX_ATTEMPTS
  /\ MaxLag \in Nat

VARIABLES
  order,      \* order[o]: its status, "absent" before it is placed, "deleted" after
  call,       \* call[o][n]: the row of attempt n
  open        \* the boutiques that are inside their calling window now

tableVars == <<order, call, open>>

Attempts == 1..MaxRows

OrderStatus == {"pending", "confirmed", "cancelled", "unreachable"}

(* Ages are counted as far as a decision can tell them apart. *)
MaxDispatchedAge == StaleTimeout + 1

MaxCompletedAge ==
  MaxLag + (IF RetryDelays[1] > RetryDelays[2] THEN RetryDelays[1] ELSE RetryDelays[2])

Row == [status : CallStatus \cup {"none"},
        disposition : Disposition,
        phase : {"none", "dispatched", "live", "ended", "rejected"},
        task : Nat,
        dispatched : NoTime..MaxDispatchedAge,
        completed : NoTime..MaxCompletedAge]

TablesTypeOK ==
  /\ order \in [Orders -> OrderStatus \cup {"absent", "deleted"}]
  /\ call \in [Orders -> [Attempts -> Row]]
  /\ open \subseteq Shops

TablesInit ==
  /\ order = [o \in Orders |-> "absent"]
  /\ call = [o \in Orders |-> [n \in Attempts |-> NoRow]]
  /\ open \in SUBSET Shops

NewRow == [NoRow EXCEPT !.status = "pending"]

OrderExists(o) == order[o] \notin {"absent", "deleted"}

IsOpen(o) == ShopOf[o] \in open

(* The row that carries task <<o, n, k>>, if any: taskId is unique. *)
HasTask(t) == t[3] # 0 /\ Exists(call[t[1]][t[2]]) /\ call[t[1]][t[2]].task = t[3]

SetRow(o, n, row) == call' = [call EXCEPT ![o][n] = row]

(* INSERT of pending rows; the unique (orderId, attempt) leaves the others alone. *)
InsertRows(rows) ==
  call' = [o \in Orders |-> [n \in Attempts |->
             IF <<o, n>> \in rows /\ ~Exists(call[o][n]) THEN NewRow ELSE call[o][n]]]

(* Mutated form: the status of the call is not part of the WHERE clause. *)
StillThere(o, n) == Exists(call[o][n])

(* The WHERE clause of the updates that close a call. *)
StillPending(o, n) == call[o][n].status = "pending"

(* Mutated form: the status of the order is not part of the WHERE clause. *)
MoveOrder(o, s) == order' = [order EXCEPT ![o] = s]

(* UPDATE orders SET status WHERE id = o AND status = 'pending' *)
MovePendingOrder(o, s) ==
  order' = [order EXCEPT ![o] = IF @ = "pending" THEN s ELSE @]

(***************************************************************************)
(* One tick passes: every timestamp of the database is a tick older.        *)
(***************************************************************************)
Older(age, limit) == IF age = NoTime \/ age = limit THEN age ELSE age + 1

AgeRows ==
  call' = [o \in Orders |-> [n \in Attempts |->
             [call[o][n] EXCEPT !.dispatched = Older(@, MaxDispatchedAge),
                                !.completed = Older(@, MaxCompletedAge)]]]

(* A boutique's calling hours begin or end. *)
MoveWindow(s) ==
  /\ open' = IF s \in open THEN open \ {s} ELSE open \cup {s}
  /\ UNCHANGED <<order, call>>
=============================================================================
