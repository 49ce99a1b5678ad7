--------------------------- MODULE CallOrchestrator ---------------------------
(***************************************************************************)
(* CallOrchestratorService.pollOnce: it closes the calls whose worker never *)
(* answered, reads a batch of pending orders, and hands at most one call to *)
(* the dispatcher.  A call of pollOnce during a poll asks for another one.  *)
(*                                                                          *)
(* The clock is read once, at the start.  The batch is read once, and every *)
(* decision of the loop is taken on that snapshot: `todo` holds the orders  *)
(* the loop will not skip, with the attempt it will dispatch for them.      *)
(***************************************************************************)
EXTENDS CallCallbacks

CONSTANT BatchSize    \* POLL_BATCH_SIZE

ASSUME OrchestratorAssumption == BatchSize \in Nat \ {0}

VARIABLES
  poll,       \* where pollOnce is; "idle" when it is not running
  again,      \* pollRequested
  lag,        \* ticks since the poll read the clock
  openThen,   \* the boutiques inside their window when the poll read the clock
  stale,      \* the stale calls found and not yet closed
  giveUp,     \* the order of the final attempt just closed, or NoOrder
  todo,       \* the orders of the batch still to look at: [order, attempt, queued]
  cursor      \* the last order of the previous batch, or NoOrder

pollVars == <<poll, again, lag, openThen, stale, giveUp, todo, cursor>>

NoOrder == 0

Candidate == [order : Orders, attempt : Attempts, queued : BOOLEAN]

OrchestratorTypeOK ==
  /\ poll \in {"idle", "start", "expire", "loop", "create", "dispatch", "dispatching"}
  /\ again \in BOOLEAN
  /\ lag \in 0..MaxLag
  /\ openThen \subseteq Shops
  /\ stale \subseteq Orders \X Attempts
  /\ giveUp \in Orders \cup {NoOrder}
  /\ todo \subseteq Candidate
  /\ cursor \in Orders \cup {NoOrder}

OrchestratorInit ==
  /\ poll = "start"
  /\ again = FALSE
  /\ lag = 0
  /\ openThen = {} /\ stale = {} /\ todo = {}
  /\ giveUp = NoOrder /\ cursor = NoOrder

(* pollOnce is called: by the timer, after a result, after a new order. *)
Wake ==
  IF poll = "idle"
    THEN poll' = "start" /\ UNCHANGED <<again, lag, openThen, stale, giveUp, todo, cursor>>
    ELSE again' = TRUE /\ UNCHANGED <<poll, lag, openThen, stale, giveUp, todo, cursor>>

(* Mutated form: a wake-up during the poll is forgotten. *)
EndPollForgetting ==
  /\ poll' = "idle"
  /\ again' = FALSE
  /\ todo' = {}
  /\ UNCHANGED <<lag, openThen, stale, giveUp, cursor>>

(* The `finally` block, on every way out of the loop. *)
EndPoll ==
  /\ poll' = IF again THEN "start" ELSE "idle"
  /\ again' = FALSE
  /\ todo' = {}
  /\ UNCHANGED <<lag, openThen, stale, giveUp, cursor>>

(* setInterval *)
Timer ==
  /\ Wake
  /\ UNCHANGED <<tableVars, voiceVars, dispatcherVars>>

(* Mutated form: a call whose worker said that it ended is not stale. *)
IsStaleAndSilent(row) ==
  row.status = "pending" /\ row.dispatched > StaleTimeout /\ row.completed = NoTime

IsStale(row) == row.status = "pending" /\ row.dispatched > StaleTimeout

(* The clock is read, and the stale calls with it. *)
StartPoll ==
  /\ poll = "start"
  /\ poll' = "expire"
  /\ lag' = 0
  /\ openThen' = open
  /\ stale' = {c \in Orders \X Attempts : IsStale(call[c[1]][c[2]])}
  /\ UNCHANGED <<again, giveUp, todo, cursor, tableVars, voiceVars, dispatcherVars>>

ExpiredRow(row) ==
  [row EXCEPT !.status = "no_answer", !.disposition = "no_answer", !.completed = lag]

(* Mutated form: the order is given up on an attempt too early. *)
IsFinalOrNearly(n) == n >= 2

IsFinal(n) == n >= 3

(* One stale call is closed, unless a result came first. *)
ExpireCall(c) ==
  LET row == call[c[1]][c[2]]
  IN  /\ poll = "expire" /\ giveUp = NoOrder
      /\ c \in stale
      /\ stale' = stale \ {c}
      /\ IF StillPending(c[1], c[2])
           THEN /\ SetRow(c[1], c[2], ExpiredRow(row))
                /\ giveUp' = IF IsFinal(c[2]) THEN c[1] ELSE NoOrder
           ELSE UNCHANGED <<call, giveUp>>
      /\ UNCHANGED <<order, open, poll, again, lag, openThen, todo, cursor,
                     voiceVars, dispatcherVars>>

(* The order of a final attempt is given up on, in a write of its own. *)
GiveUpOrder ==
  /\ poll = "expire" /\ giveUp # NoOrder
  /\ MovePendingOrder(giveUp, "unreachable")
  /\ giveUp' = NoOrder
  /\ UNCHANGED <<call, open, poll, again, lag, openThen, stale, todo, cursor,
                 voiceVars, dispatcherVars>>

(***************************************************************************)
(* The batch.  With a cursor, Prisma reads the rows of the query from the   *)
(* position of the cursor row on and skips one row: that is the cursor row  *)
(* itself only while it still matches the query.  Nothing is found when the *)
(* cursor row was deleted.                                                  *)
(***************************************************************************)
PendingFrom ==
  {o \in Orders : /\ order[o] = "pending"
                  /\ cursor # NoOrder => OrderExists(cursor) /\ o >= cursor}

Skipped == IF cursor = NoOrder THEN 0 ELSE 1

Batch ==
  {o \in PendingFrom :
     Cardinality({p \in PendingFrom : p < o}) \in Skipped..(Skipped + BatchSize - 1)}

LastOf(S) == CHOOSE o \in S : \A p \in S : p <= o

QueuedCall(o, n) == /\ call[o][n].status = "pending"
                    /\ call[o][n].task = 0
                    /\ call[o][n].dispatched = NoTime

(* The orders of the batch that the loop does not skip. *)
Candidates ==
  {c \in Candidate :
     /\ c.order \in Batch
     /\ ShopOf[c.order] \in openThen
     /\ IF HasPending(call[c.order])
          THEN /\ c.queued
               /\ QueuedCall(c.order, c.attempt)
               /\ \A m \in Attempts :
                    call[c.order][m].status = "pending" => c.attempt <= m
          ELSE /\ ~c.queued
               /\ c.attempt = NextAttemptNumber(call[c.order], lag)}

(* Mutated form: every poll reads the first batch. *)
FirstBatchAgain == NoOrder

NextCursor == IF Cardinality(Batch) < BatchSize THEN NoOrder ELSE LastOf(Batch)

ReadBatch ==
  /\ poll = "expire" /\ stale = {} /\ giveUp = NoOrder
  /\ poll' = "loop"
  /\ todo' = Candidates
  /\ cursor' = NextCursor
  /\ lag' = 0 /\ openThen' = {}
  /\ UNCHANGED <<again, stale, giveUp, tableVars, voiceVars, dispatcherVars>>

(* The candidate the loop is at. *)
IsCurrent(c) == c \in todo /\ \A d \in todo : c.order <= d.order

(* Every order was looked at, or checkCapacity answered false. *)
StopLooking ==
  /\ poll = "loop"
  /\ EndPoll
  /\ UNCHANGED <<tableVars, voiceVars, dispatcherVars>>

(* checkCapacity answered true. *)
HasCapacity(c) ==
  /\ poll = "loop"
  /\ IsCurrent(c)
  /\ poll' = IF c.queued THEN "dispatch" ELSE "create"
  /\ UNCHANGED <<again, lag, openThen, stale, giveUp, todo, cursor,
                 tableVars, voiceVars, dispatcherVars>>

(* The next attempt is inserted; the order may have got that row meanwhile. *)
CreateCall(c) ==
  /\ poll = "create"
  /\ IsCurrent(c)
  /\ OrderExists(c.order)
  /\ InsertRows({<<c.order, c.attempt>>})
  /\ IF Exists(call[c.order][c.attempt])
       THEN poll' = "loop" /\ todo' = todo \ {c}
       ELSE poll' = "dispatch" /\ UNCHANGED todo
  /\ UNCHANGED <<again, lag, openThen, stale, giveUp, cursor, order, open,
                 voiceVars, dispatcherVars>>

(* The order was deleted: the insert throws and the poll is over. *)
CreateFails(c) ==
  /\ poll = "create"
  /\ IsCurrent(c)
  /\ ~OrderExists(c.order)
  /\ EndPoll
  /\ UNCHANGED <<tableVars, voiceVars, dispatcherVars>>

DispatchCurrent(c) ==
  /\ poll = "dispatch"
  /\ IsCurrent(c)
  /\ Enter(Poller, c.order, c.attempt)
  /\ poll' = "dispatching"
  /\ UNCHANGED <<again, lag, openThen, stale, giveUp, todo, cursor>>

(* dispatchCall throws at once: a request of the shop is inside it. *)
DispatchRefused(c) ==
  /\ poll = "dispatch"
  /\ IsCurrent(c)
  /\ activeDispatches >= maxConcurrency
  /\ EndPoll
  /\ UNCHANGED <<tableVars, voiceVars, dispatcherVars>>
=============================================================================
