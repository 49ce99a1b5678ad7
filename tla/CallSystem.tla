------------------------------ MODULE CallSystem ------------------------------
(***************************************************************************)
(* The calling subsystem: the poll, the dispatcher, the workers and their   *)
(* callbacks, and the staff of the shops, on one database.                  *)
(***************************************************************************)
EXTENDS ShopRequests

CONSTANT MaxCrashes    \* bound: restarts of the backend

ASSUME SystemAssumption == MaxCrashes \in Nat

VARIABLE crashes

vars == <<tableVars, voiceVars, dispatcherVars, pollVars, request, crashes>>

TypeOK ==
  /\ TablesTypeOK
  /\ VoiceTypeOK
  /\ DispatcherTypeOK
  /\ OrchestratorTypeOK
  /\ RequestsTypeOK
  /\ crashes \in 0..MaxCrashes

Init ==
  /\ TablesInit
  /\ VoiceInit
  /\ DispatcherInit
  /\ OrchestratorInit
  /\ RequestsInit
  /\ crashes = 0

-----------------------------------------------------------------------------
(* A dispatch step of the poll that leaves dispatchCall ends the poll too. *)
Returning(c) == IF c = Poller THEN EndPoll ELSE UNCHANGED pollVars

DispatchStep(c) ==
  \/ (Check(c) \/ Launch(c) \/ Reject(c)) /\ UNCHANGED pollVars
  \/ (Refuse(c) \/ Defer(c) \/ Record(c)) /\ Returning(c)

PollStep ==
  \/ Timer
  \/ StartPoll
  \/ \E c \in stale : ExpireCall(c)
  \/ GiveUpOrder
  \/ ReadBatch
  \/ StopLooking
  \/ \E c \in todo : \/ HasCapacity(c)
                     \/ CreateCall(c)
                     \/ CreateFails(c)
                     \/ DispatchCurrent(c)
                     \/ DispatchRefused(c)

WorkerStep ==
  /\ \/ \E t \in live : \/ WorkerStatus(t)
                        \/ \E report \in Reports : WorkerReport(t, report)
                        \/ WorkerExit(t)
                        \/ WorkerDeath(t)
     \/ \E m \in results : LoseResult(m)
     \/ \E m \in events : LoseEvent(m)
  /\ UNCHANGED <<tableVars, dispatcherVars>>

(* The controller wakes the orchestrator once the result was handled. *)
CallbackStep ==
  \/ \E m \in events : HandleEvent(m) /\ UNCHANGED pollVars
  \/ \E m \in results : LookUpResult(m) /\ UNCHANGED pollVars
  \/ \E m \in resolved : ApplyResult(m) /\ Wake

RequestStep ==
  \/ \E r \in Requests : \/ \E o \in Orders : QueueRead(r, o) \/ RetryRead(r, o)
                         \/ \E s \in Shops : QueueAllRead(r, s)
                         \/ QueueInsert(r)
                         \/ RetryCommit(r)
                         \/ \E o \in Orders, n \in Attempts : DispatchRequest(r, o, n)
  \/ \E o \in Orders : \/ PlaceOrder(o)
                       \/ DeleteOrder(o)
                       \/ \E s \in OrderEdits : EditOrder(o, s)
                       \/ \E n \in Attempts, s \in CallEdits : EditCall(o, n, s)
  \/ \E s \in Shops : HoursPass(s)

(* Time passes; a poll does not take more than MaxLag ticks to read its batch. *)
Tick ==
  /\ poll = "expire" => lag < MaxLag
  /\ lag' = IF poll = "expire" THEN lag + 1 ELSE lag
  /\ AgeRows
  /\ UNCHANGED <<order, open, voiceVars, dispatcherVars, poll, again, openThen, stale,
                 giveUp, todo, cursor, request>>

(***************************************************************************)
(* The host of the backend goes down and comes back: the workers are its    *)
(* children and the requests in progress are lost with it.  The database    *)
(* remains, and the orchestrator polls as soon as it is up.                 *)
(***************************************************************************)
Restart ==
  /\ crashes < MaxCrashes
  /\ crashes' = crashes + 1
  /\ child' = NoTask /\ live' = {} /\ reported' = {}
  /\ events' = {} /\ results' = {} /\ resolved' = {}
  /\ activeDispatches' = 0
  /\ disp' = [c \in Callers |-> NotDispatching]
  /\ poll' = "start" /\ again' = FALSE
  /\ lag' = 0 /\ openThen' = {} /\ stale' = {} /\ todo' = {}
  /\ giveUp' = NoOrder /\ cursor' = NoOrder
  /\ request' = [r \in Requests |-> Resting]
  /\ UNCHANGED <<tableVars, issued>>

Framed(A) == A /\ UNCHANGED <<request, crashes>>

Next ==
  \/ \E c \in Callers : Framed(DispatchStep(c))
  \/ Framed(PollStep)
  \/ Framed(WorkerStep /\ UNCHANGED pollVars)
  \/ Framed(CallbackStep)
  \/ RequestStep /\ UNCHANGED crashes
  \/ Tick /\ UNCHANGED crashes
  \/ Restart

Spec == Init /\ [][Next]_vars

-----------------------------------------------------------------------------
(***************************************************************************)
(* Fairness.  The event loop runs every continuation whose await has been   *)
(* answered, and the interval timer fires; the database and the call server *)
(* answer; the call server, asked again and again, has a free phone at some *)
(* time and answers startTask then; a worker ends (the call has a maximum   *)
(* duration and a signalling timeout), and its request is answered or       *)
(* fails; time passes.  Nothing is assumed of the staff, of the calling     *)
(* hours, of crashes, or of what a worker reports.                          *)
(***************************************************************************)
PollContinues ==
  \/ StartPoll
  \/ \E c \in stale : ExpireCall(c)
  \/ GiveUpOrder
  \/ ReadBatch
  \/ StopLooking
  \/ \E c \in todo : CreateCall(c) \/ CreateFails(c) \/ DispatchCurrent(c) \/ DispatchRefused(c)

PhoneIsFree == \E c \in todo : HasCapacity(c)

Accepts(c) == Launch(c) /\ UNCHANGED pollVars

WorkerEnds ==
  /\ \E t \in live : (\E report \in Reports : WorkerReport(t, report)) \/ WorkerExit(t)
  /\ UNCHANGED <<tableVars, dispatcherVars, pollVars>>

ResultArrives ==
  \/ \E m \in results : LookUpResult(m) /\ UNCHANGED pollVars
  \/ \E m \in resolved : ApplyResult(m) /\ Wake

ServiceFairness ==
  /\ WF_vars(Framed(PollContinues))
  /\ SF_vars(Framed(PhoneIsFree))
  /\ \A c \in Callers : WF_vars(Framed(DispatchStep(c))) /\ SF_vars(Framed(Accepts(c)))
  /\ WF_vars(Framed(WorkerEnds))
  /\ WF_vars(Framed(ResultArrives))
  /\ SF_vars(Tick /\ UNCHANGED crashes)

(* Without the interval timer: only new orders and results wake the poll. *)
UntimedSpec == Spec /\ ServiceFairness

FairSpec == UntimedSpec /\ WF_vars(Framed(Timer))
=============================================================================
