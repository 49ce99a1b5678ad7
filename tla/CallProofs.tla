------------------------------ MODULE CallProofs ------------------------------
(***************************************************************************)
(* The calling subsystem never leaves its types, its counter is exact, one   *)
(* worker is in charge and a decision of the staff stays, whatever the       *)
(* number of orders, shops and requests, the delays and the bounds.         *)
(***************************************************************************)
EXTENDS CallProperties, FiniteSetTheorems, WellFoundedInduction, TLAPS

USE DEF MAX_ATTEMPTS, NoTime, NoAttempt, NoConfidence, NoOrder, maxConcurrency

(* The limits of the ages are natural numbers, and the first covers every lag. *)
LEMMA Limits ==
  /\ MaxDispatchedAge \in Nat
  /\ MaxCompletedAge \in Nat
  /\ MaxLag <= MaxCompletedAge
BY PolicyAssumption, TablesAssumption DEF MaxDispatchedAge, MaxCompletedAge

LEMMA NewRowIsRow == NoRow \in Row /\ NewRow \in Row
BY Limits DEF NewRow, NoRow, Row, CallStatus, Disposition

LEMMA DispatchRows ==
  ASSUME NEW row \in Row, NEW k \in Nat
  PROVE  AcceptedRow(row, k) \in Row /\ RejectedRow(row, k) \in Row
<1>1. 0 \in NoTime..MaxDispatchedAge /\ 0 \in NoTime..MaxCompletedAge
  BY Limits
<1>2. QED BY <1>1 DEF AcceptedRow, RejectedRow, Row, CallStatus, Disposition

(* Writing a row, inserting rows and ageing them keep the table's type. *)
LEMMA SetRowType ==
  ASSUME TablesTypeOK, NEW o \in Orders, NEW n \in Attempts, NEW row \in Row,
         SetRow(o, n, row)
  PROVE  call' \in [Orders -> [Attempts -> Row]]
BY DEF TablesTypeOK, SetRow

LEMMA InsertRowsType ==
  ASSUME TablesTypeOK, NEW rows, InsertRows(rows)
  PROVE  call' \in [Orders -> [Attempts -> Row]]
BY NewRowIsRow DEF TablesTypeOK, InsertRows

LEMMA AgeRowsType ==
  ASSUME TablesTypeOK, AgeRows
  PROVE  call' \in [Orders -> [Attempts -> Row]]
<1>1. ASSUME NEW limit \in Nat, NEW age \in NoTime..limit
      PROVE  Older(age, limit) \in NoTime..limit
  BY <1>1 DEF Older
<1>2. ASSUME NEW row \in Row
      PROVE  [row EXCEPT !.dispatched = Older(@, MaxDispatchedAge),
                         !.completed = Older(@, MaxCompletedAge)] \in Row
  BY <1>1, Limits DEF Row
<1>3. QED BY <1>2 DEF TablesTypeOK, AgeRows

LEMMA MovePendingOrderType ==
  ASSUME TablesTypeOK, NEW o \in Orders, NEW s \in OrderStatus, MovePendingOrder(o, s)
  PROVE  order' \in [Orders -> OrderStatus \cup {"absent", "deleted"}]
BY DEF TablesTypeOK, MovePendingOrder

(***************************************************************************)
(* At most one caller is inside dispatchCall, and the counter says so.      *)
(***************************************************************************)
Inside(c) == disp[c].pc # "idle"

OneDispatch ==
  /\ \A c, d \in Callers : Inside(c) /\ Inside(d) => c = d
  /\ activeDispatches = 1 <=> \E c \in Callers : Inside(c)

LEMMA CallOfDispatch ==
  ASSUME DispatcherTypeOK, NEW c \in Callers, disp[c].pc # "idle"
  PROVE  /\ disp[c].call \in Orders \X Attempts
         /\ disp[c].call[1] \in Orders
         /\ disp[c].call[2] \in Attempts
         /\ disp[c].call = <<disp[c].call[1], disp[c].call[2]>>
BY DEF DispatcherTypeOK, NotDispatching

LEMMA EnterType ==
  ASSUME DispatcherTypeOK, OneDispatch, NEW c \in Callers, NEW o \in Orders,
         NEW n \in Attempts, Enter(c, o, n)
  PROVE  DispatcherTypeOK' /\ OneDispatch'
<1>1. activeDispatches = 0 /\ activeDispatches' = 1
  BY DEF Enter, DispatcherTypeOK
<1>2. \A d \in Callers : disp[d].pc = "idle"
  BY <1>1 DEF OneDispatch, Inside
<1>3. disp' = [disp EXCEPT ![c] = [pc |-> "reading", call |-> <<o, n>>, task |-> 0]]
  BY DEF Enter
<1>4. disp'[c].pc = "reading" /\ \A d \in Callers : d # c => disp'[d].pc = "idle"
  BY <1>2, <1>3 DEF DispatcherTypeOK
<1>5. OneDispatch'
  BY <1>1, <1>4 DEF OneDispatch, Inside
<1>6. DispatcherTypeOK'
  BY <1>1, <1>3 DEF DispatcherTypeOK, Enter
<1>7. QED BY <1>5, <1>6

LEMMA CheckType ==
  ASSUME DispatcherTypeOK, OneDispatch, NEW c \in Callers, Check(c)
  PROVE  DispatcherTypeOK' /\ OneDispatch'
<1>1. disp[c].pc = "reading" /\ disp[c].call \in Orders \X Attempts
  BY CallOfDispatch DEF Check
<1>2. disp' = [disp EXCEPT ![c] = [pc |-> "starting", call |-> disp[c].call, task |-> 0]]
  BY DEF Check, DispatcherTypeOK
<1>3. \A d \in Callers : Inside(d)' <=> Inside(d)
  BY <1>1, <1>2 DEF Inside, DispatcherTypeOK
<1>4. OneDispatch'
  BY <1>3 DEF OneDispatch, Check
<1>5. DispatcherTypeOK'
  BY <1>1, <1>2 DEF DispatcherTypeOK, Check
<1>6. QED BY <1>4, <1>5

LEMMA IssueTaskType ==
  ASSUME DispatcherTypeOK, OneDispatch, NEW c \in Callers,
         NEW outcome \in {"accepted", "rejected"}, IssueTask(c, outcome)
  PROVE  DispatcherTypeOK' /\ OneDispatch'
<1>1. disp[c].pc = "starting"
  BY DEF IssueTask
<1>2. /\ disp[c].call[1] \in Orders /\ disp[c].call[2] \in Attempts
      /\ disp[c].call \in Orders \X Attempts
  BY <1>1, CallOfDispatch
<1>3. NextTask(c) \in Nat \ {0}
  BY <1>2 DEF NextTask, DispatcherTypeOK
<1>4. disp' = [disp EXCEPT ![c] = [pc |-> outcome, call |-> disp[c].call,
                                  task |-> NextTask(c)]]
  BY <1>1 DEF IssueTask, DispatcherTypeOK, NotDispatching
<1>5. \A d \in Callers : Inside(d)' <=> Inside(d)
  BY <1>1, <1>4 DEF Inside, DispatcherTypeOK
<1>6. OneDispatch'
  BY <1>5 DEF OneDispatch, IssueTask
<1>7. disp' \in [Callers ->
                 {NotDispatching} \cup
                 [pc : {"reading", "starting"}, call : Orders \X Attempts, task : {0}] \cup
                 [pc : {"accepted", "rejected"}, call : Orders \X Attempts, task : Nat \ {0}]]
  BY <1>2, <1>3, <1>4 DEF DispatcherTypeOK
<1>8. issued' \in [Orders -> [Attempts -> Nat]]
  BY <1>2 DEF IssueTask, DispatcherTypeOK
<1>9. QED BY <1>6, <1>7, <1>8 DEF DispatcherTypeOK, IssueTask

LEMMA LeaveType ==
  ASSUME DispatcherTypeOK, OneDispatch, NEW c \in Callers, disp[c].pc # "idle", Leave(c)
  PROVE  DispatcherTypeOK' /\ OneDispatch'
<1>1. activeDispatches = 1 /\ activeDispatches' = 0
  BY DEF OneDispatch, Inside, Leave
<1>2. disp' = [disp EXCEPT ![c] = NotDispatching]
  BY DEF Leave
<1>3. \A d \in Callers : disp'[d].pc = "idle"
  BY <1>2 DEF OneDispatch, Inside, DispatcherTypeOK, NotDispatching
<1>4. OneDispatch'
  BY <1>1, <1>3 DEF OneDispatch, Inside
<1>5. QED BY <1>1, <1>2, <1>4 DEF DispatcherTypeOK, Leave

(***************************************************************************)
(* The handle follows the only worker there is, and a dispatch that waits   *)
(* for the call server has seen that there is none.                         *)
(***************************************************************************)
OneOnThePhone ==
  /\ live \subseteq {child}
  /\ \A c \in Callers : disp[c].pc = "starting" => child = NoTask

LEMMA NoTaskIsNone == NoTask \notin Tasks
BY DEF NoTask, Tasks, Orders

-----------------------------------------------------------------------------
(* A component that a step leaves alone keeps its part of the invariant. *)
LEMMA TablesUnchanged == TablesTypeOK /\ UNCHANGED tableVars => TablesTypeOK'
BY DEF TablesTypeOK, tableVars

LEMMA VoiceUnchanged == VoiceTypeOK /\ UNCHANGED voiceVars => VoiceTypeOK'
BY DEF VoiceTypeOK, voiceVars

LEMMA DispatcherUnchanged ==
  DispatcherTypeOK /\ OneDispatch /\ UNCHANGED dispatcherVars
    => DispatcherTypeOK' /\ OneDispatch'
BY DEF DispatcherTypeOK, OneDispatch, Inside, dispatcherVars

LEMMA PhoneUnchanged ==
  OneOnThePhone /\ UNCHANGED <<child, live, disp>> => OneOnThePhone'
BY DEF OneOnThePhone

LEMMA PollUnchanged == OrchestratorTypeOK /\ UNCHANGED pollVars => OrchestratorTypeOK'
BY DEF OrchestratorTypeOK, pollVars

LEMMA RequestUnchanged == RequestsTypeOK /\ UNCHANGED request => RequestsTypeOK'
BY DEF RequestsTypeOK

LEMMA WakeType == OrchestratorTypeOK /\ Wake => OrchestratorTypeOK'
BY DEF OrchestratorTypeOK, Wake

LEMMA EndPollType == OrchestratorTypeOK /\ EndPoll => OrchestratorTypeOK'
BY DEF OrchestratorTypeOK, EndPoll

LEMMA ReturningType ==
  ASSUME OrchestratorTypeOK, NEW c, Returning(c)
  PROVE  OrchestratorTypeOK'
BY EndPollType, PollUnchanged DEF Returning

-----------------------------------------------------------------------------
Inv == TypeOK /\ OneDispatch /\ OneOnThePhone

LEMMA InitInv == Init => Inv
<1> SUFFICES ASSUME Init PROVE Inv
  OBVIOUS
<1>1. TablesTypeOK
  BY NewRowIsRow DEF Init, TablesInit, TablesTypeOK
<1>2. VoiceTypeOK
  BY DEF Init, VoiceInit, VoiceTypeOK
<1>3. DispatcherTypeOK /\ OneDispatch
  BY DEF Init, DispatcherInit, DispatcherTypeOK, OneDispatch, Inside, NotDispatching
<1>4. OrchestratorTypeOK
  <2>1. lag = 0 /\ MaxLag \in Nat
    BY TablesAssumption DEF Init, OrchestratorInit
  <2>2. lag \in 0..MaxLag
    BY <2>1
  <2>3. QED
    BY <2>2 DEF Init, OrchestratorInit, OrchestratorTypeOK
<1>5. RequestsTypeOK
  BY DEF Init, RequestsInit, RequestsTypeOK, Resting
<1>6. OneOnThePhone
  BY DEF Init, VoiceInit, DispatcherInit, OneOnThePhone
<1>7. crashes \in 0..MaxCrashes
  BY SystemAssumption DEF Init
<1>8. QED
  BY <1>1, <1>2, <1>3, <1>4, <1>5, <1>6, <1>7 DEF Inv, TypeOK

-----------------------------------------------------------------------------
(* dispatchCall *)
LEMMA LaunchInv ==
  ASSUME VoiceTypeOK, DispatcherTypeOK, OneDispatch, OneOnThePhone, NEW c \in Callers,
         Launch(c)
  PROVE  VoiceTypeOK' /\ DispatcherTypeOK' /\ OneDispatch' /\ OneOnThePhone'
<1> DEFINE t == TaskOf(c, NextTask(c))
<1>1. disp[c].pc = "starting" /\ IssueTask(c, "accepted") /\ Fork(t)
  BY DEF Launch, IssueTask
<1>2. DispatcherTypeOK' /\ OneDispatch'
  BY <1>1, IssueTaskType
<1>3. t \in Tasks
  <2>1. disp[c].call[1] \in Orders /\ disp[c].call[2] \in Attempts
    BY <1>1, CallOfDispatch
  <2>2. NextTask(c) \in Nat
    BY <2>1 DEF NextTask, DispatcherTypeOK
  <2>3. QED BY <2>1, <2>2 DEF TaskOf, Tasks
<1>4. live = {}
  BY <1>1, NoTaskIsNone DEF OneOnThePhone, VoiceTypeOK
<1>5. live' = {t} /\ child' = t
  BY <1>1, <1>4 DEF Fork
<1>6. VoiceTypeOK'
  BY <1>1, <1>3, <1>5 DEF VoiceTypeOK, Fork
<1>7. \A d \in Callers : disp'[d].pc # "starting"
  <2>1. \A d \in Callers : d # c => disp[d].pc = "idle" /\ disp'[d] = disp[d]
    BY <1>1 DEF OneDispatch, Inside, IssueTask, DispatcherTypeOK
  <2>2. disp'[c].pc = "accepted"
    BY <1>1 DEF IssueTask, DispatcherTypeOK
  <2>3. QED BY <2>1, <2>2
<1>8. QED BY <1>2, <1>5, <1>6, <1>7 DEF OneOnThePhone

LEMMA RejectInv ==
  ASSUME DispatcherTypeOK, OneDispatch, OneOnThePhone, NEW c \in Callers, Reject(c)
  PROVE  DispatcherTypeOK' /\ OneDispatch' /\ OneOnThePhone'
<1>1. IssueTask(c, "rejected") /\ UNCHANGED voiceVars
  BY DEF Reject
<1>2. DispatcherTypeOK' /\ OneDispatch'
  BY <1>1, IssueTaskType
<1>3. \A d \in Callers : disp'[d].pc = "starting" => disp[d].pc = "starting"
  BY <1>1 DEF IssueTask, DispatcherTypeOK
<1>4. QED BY <1>1, <1>2, <1>3 DEF OneOnThePhone, voiceVars

LEMMA LeaveInv ==
  ASSUME DispatcherTypeOK, OneDispatch, OneOnThePhone, NEW c \in Callers,
         disp[c].pc # "idle", Leave(c), UNCHANGED voiceVars
  PROVE  DispatcherTypeOK' /\ OneDispatch' /\ OneOnThePhone'
<1>1. DispatcherTypeOK' /\ OneDispatch'
  BY LeaveType
<1>2. \A d \in Callers : disp'[d].pc = "starting" => disp[d].pc = "starting"
  BY DEF Leave, DispatcherTypeOK, NotDispatching
<1>3. QED BY <1>1, <1>2 DEF OneOnThePhone, voiceVars

LEMMA EnterInv ==
  ASSUME DispatcherTypeOK, OneDispatch, OneOnThePhone, NEW c \in Callers,
         NEW o \in Orders, NEW n \in Attempts, Enter(c, o, n)
  PROVE  DispatcherTypeOK' /\ OneDispatch' /\ OneOnThePhone'
<1>1. DispatcherTypeOK' /\ OneDispatch'
  BY EnterType
<1>2. \A d \in Callers : disp'[d].pc = "starting" => disp[d].pc = "starting"
  BY DEF Enter, DispatcherTypeOK
<1>3. QED BY <1>1, <1>2 DEF OneOnThePhone, Enter, voiceVars

(* The look at the handle comes after every other way out. *)
LEMMA CheckInv ==
  ASSUME DispatcherTypeOK, OneDispatch, OneOnThePhone, NEW c \in Callers, Check(c)
  PROVE  DispatcherTypeOK' /\ OneDispatch' /\ OneOnThePhone'
BY CheckType DEF OneOnThePhone, Check, MayStart, voiceVars

LEMMA RecordTables ==
  ASSUME TablesTypeOK, DispatcherTypeOK, NEW c \in Callers, Record(c)
  PROVE  TablesTypeOK'
<1> DEFINE o == disp[c].call[1]
           n == disp[c].call[2]
<1>1. disp[c].pc \in {"accepted", "rejected"}
  BY DEF Record
<1>2. o \in Orders /\ n \in Attempts /\ disp[c].task \in Nat
  BY <1>1, CallOfDispatch DEF DispatcherTypeOK, NotDispatching
<1>3. call[o][n] \in Row
  BY <1>2 DEF TablesTypeOK
<1>4. /\ AcceptedRow(call[o][n], disp[c].task) \in Row
      /\ RejectedRow(call[o][n], disp[c].task) \in Row
  BY <1>2, <1>3, DispatchRows
<1>5. call' \in [Orders -> [Attempts -> Row]]
  BY <1>2, <1>4, SetRowType DEF Record, TablesTypeOK
<1>6. QED BY <1>5 DEF TablesTypeOK, Record

LEMMA DispatchStepInv ==
  ASSUME Inv, NEW c \in Callers, Framed(DispatchStep(c))
  PROVE  Inv'
<1> USE DEF Inv, TypeOK
<1>1. RequestsTypeOK' /\ crashes' = crashes /\ DispatchStep(c)
  BY RequestUnchanged DEF Framed
<1>2. CASE Launch(c) /\ UNCHANGED pollVars
  BY <1>1, <1>2, LaunchInv, TablesUnchanged, PollUnchanged DEF Launch
<1>3. CASE Reject(c) /\ UNCHANGED pollVars
  BY <1>1, <1>3, RejectInv, TablesUnchanged, VoiceUnchanged, PollUnchanged DEF Reject
<1>4. CASE (Refuse(c) \/ Defer(c)) /\ Returning(c)
  BY <1>1, <1>4, LeaveInv, TablesUnchanged, VoiceUnchanged, ReturningType DEF Refuse, Defer
<1>5. CASE Record(c) /\ Returning(c)
  <2>1. TablesTypeOK'
    BY <1>5, RecordTables
  <2>2. QED BY <1>1, <1>5, <2>1, LeaveInv, VoiceUnchanged, ReturningType DEF Record
<1>6. CASE Check(c) /\ UNCHANGED pollVars
  BY <1>1, <1>6, CheckInv, TablesUnchanged, VoiceUnchanged, PollUnchanged DEF Check
<1>7. QED BY <1>1, <1>2, <1>3, <1>4, <1>5, <1>6 DEF DispatchStep

-----------------------------------------------------------------------------
(* pollOnce *)
LEMMA StaleIsCall == OrchestratorTypeOK => \A c \in stale : c[1] \in Orders /\ c[2] \in Attempts
BY DEF OrchestratorTypeOK

LEMMA TodoIsCall == OrchestratorTypeOK => \A c \in todo : c.order \in Orders /\ c.attempt \in Attempts
BY DEF OrchestratorTypeOK, Candidate

LEMMA ExpireCallType ==
  ASSUME TablesTypeOK, OrchestratorTypeOK, NEW c \in stale, ExpireCall(c)
  PROVE  TablesTypeOK' /\ OrchestratorTypeOK'
<1>1. c[1] \in Orders /\ c[2] \in Attempts
  BY StaleIsCall
<1>2. call[c[1]][c[2]] \in Row
  BY <1>1 DEF TablesTypeOK
<1>3. lag \in NoTime..MaxCompletedAge
  BY Limits, TablesAssumption DEF OrchestratorTypeOK
<1>4. ExpiredRow(call[c[1]][c[2]]) \in Row
  BY <1>2, <1>3 DEF ExpiredRow, Row, CallStatus, Disposition
<1>5. call' \in [Orders -> [Attempts -> Row]]
  BY <1>1, <1>4, SetRowType DEF ExpireCall, TablesTypeOK
<1>6. giveUp' \in Orders \cup {NoOrder}
  BY <1>1 DEF ExpireCall, OrchestratorTypeOK
<1>7. QED BY <1>5, <1>6 DEF ExpireCall, TablesTypeOK, OrchestratorTypeOK

LEMMA GiveUpOrderType ==
  ASSUME TablesTypeOK, OrchestratorTypeOK, GiveUpOrder
  PROVE  TablesTypeOK' /\ OrchestratorTypeOK'
<1>1. giveUp \in Orders /\ "unreachable" \in OrderStatus
  BY DEF GiveUpOrder, OrchestratorTypeOK, OrderStatus
<1>2. order' \in [Orders -> OrderStatus \cup {"absent", "deleted"}]
  BY <1>1, MovePendingOrderType DEF GiveUpOrder
<1>3. QED BY <1>2 DEF GiveUpOrder, TablesTypeOK, OrchestratorTypeOK

(* A non-empty set of orders has a last one, since the ids have a bound. *)
LEMMA LastOfIsMember ==
  ASSUME NEW S \in SUBSET Orders, S # {}
  PROVE  LastOf(S) \in S
<1> DEFINE bounds == {b \in Nat : \A o \in S : o <= b}
<1>1. MaxOrders \in bounds
  BY TablesAssumption DEF Orders
<1>2. PICK b \in bounds : \A a \in bounds : <<a, b>> \notin OpToRel(<, Nat)
  BY <1>1, WFMin, NatLessThanWellFounded
<1>3. \A a \in bounds : ~(a < b)
  BY <1>2 DEF OpToRel
<1>4. b \in S
  <2> SUFFICES ASSUME b \notin S PROVE FALSE
    OBVIOUS
  <2>1. b \in Nat /\ \A o \in S : o \in Nat /\ o >= 1 /\ o <= b
    BY DEF Orders
  <2>2. \A o \in S : o # b
    OBVIOUS
  <2>3. \A o \in S : o <= b - 1
    BY <2>1, <2>2
  <2>4. b - 1 \in Nat
    BY <2>1
  <2>5. b - 1 \in bounds
    BY <2>3, <2>4
  <2>6. b - 1 < b
    BY <2>1
  <2>7. QED BY <1>3, <2>5, <2>6
<1>5. QED BY <1>2, <1>4 DEF LastOf

LEMMA ReadBatchType ==
  ASSUME OrchestratorTypeOK, ReadBatch
  PROVE  OrchestratorTypeOK'
<1>1. NextCursor \in Orders \cup {NoOrder}
  <2>1. Batch \subseteq Orders
    BY DEF Batch, PendingFrom
  <2>2. ASSUME ~(Cardinality(Batch) < BatchSize)
        PROVE  Batch # {}
    BY <2>2, FS_EmptySet, OrchestratorAssumption
  <2>3. QED BY <2>1, <2>2, LastOfIsMember DEF NextCursor
<1>2. Candidates \subseteq Candidate
  BY DEF Candidates
<1>3. 0 \in 0..MaxLag
  BY TablesAssumption
<1>4. QED BY <1>1, <1>2, <1>3 DEF ReadBatch, OrchestratorTypeOK

LEMMA CreateCallType ==
  ASSUME TablesTypeOK, OrchestratorTypeOK, NEW c \in todo, CreateCall(c)
  PROVE  TablesTypeOK' /\ OrchestratorTypeOK'
<1>1. call' \in [Orders -> [Attempts -> Row]]
  BY InsertRowsType DEF CreateCall
<1>2. QED BY <1>1 DEF CreateCall, TablesTypeOK, OrchestratorTypeOK

LEMMA PollStepInv ==
  ASSUME Inv, Framed(PollStep)
  PROVE  Inv'
<1> USE DEF Inv, TypeOK
<1>1. RequestsTypeOK' /\ crashes' = crashes /\ PollStep
  BY RequestUnchanged DEF Framed
<1>2. CASE Timer
  BY <1>1, <1>2, TablesUnchanged, VoiceUnchanged, DispatcherUnchanged, PhoneUnchanged,
     WakeType DEF Timer, voiceVars, dispatcherVars
<1>3. CASE StartPoll
  <2>1. OrchestratorTypeOK'
    BY <1>3, TablesAssumption DEF StartPoll, OrchestratorTypeOK, TablesTypeOK
  <2>2. QED
    BY <1>1, <1>3, <2>1, TablesUnchanged, VoiceUnchanged, DispatcherUnchanged,
       PhoneUnchanged DEF StartPoll, voiceVars, dispatcherVars
<1>4. ASSUME NEW c \in stale, ExpireCall(c) PROVE Inv'
  BY <1>1, <1>4, ExpireCallType, VoiceUnchanged, DispatcherUnchanged, PhoneUnchanged
     DEF ExpireCall, voiceVars, dispatcherVars
<1>5. CASE GiveUpOrder
  BY <1>1, <1>5, GiveUpOrderType, VoiceUnchanged, DispatcherUnchanged, PhoneUnchanged
     DEF GiveUpOrder, voiceVars, dispatcherVars
<1>6. CASE ReadBatch
  BY <1>1, <1>6, ReadBatchType, TablesUnchanged, VoiceUnchanged, DispatcherUnchanged,
     PhoneUnchanged DEF ReadBatch, voiceVars, dispatcherVars
<1>7. CASE StopLooking
  BY <1>1, <1>7, EndPollType, TablesUnchanged, VoiceUnchanged, DispatcherUnchanged,
     PhoneUnchanged DEF StopLooking, voiceVars, dispatcherVars
<1>8. ASSUME NEW c \in todo, HasCapacity(c) PROVE Inv'
  <2>1. OrchestratorTypeOK'
    BY <1>8 DEF HasCapacity, OrchestratorTypeOK
  <2>2. QED
    BY <1>1, <1>8, <2>1, TablesUnchanged, VoiceUnchanged, DispatcherUnchanged,
       PhoneUnchanged DEF HasCapacity, voiceVars, dispatcherVars
<1>9. ASSUME NEW c \in todo, CreateCall(c) PROVE Inv'
  BY <1>1, <1>9, CreateCallType, VoiceUnchanged, DispatcherUnchanged, PhoneUnchanged
     DEF CreateCall, voiceVars, dispatcherVars
<1>10. ASSUME NEW c \in todo, CreateFails(c) PROVE Inv'
  BY <1>1, <1>10, EndPollType, TablesUnchanged, VoiceUnchanged, DispatcherUnchanged,
     PhoneUnchanged DEF CreateFails, voiceVars, dispatcherVars
<1>11. ASSUME NEW c \in todo, DispatchCurrent(c) PROVE Inv'
  <2>1. c.order \in Orders /\ c.attempt \in Attempts /\ Poller \in Callers
    BY TodoIsCall DEF Callers
  <2>2. Enter(Poller, c.order, c.attempt)
    BY <1>11 DEF DispatchCurrent
  <2>3. DispatcherTypeOK' /\ OneDispatch' /\ OneOnThePhone'
    BY <2>1, <2>2, EnterInv
  <2>4. OrchestratorTypeOK'
    BY <1>11 DEF DispatchCurrent, OrchestratorTypeOK
  <2>5. QED BY <1>1, <2>2, <2>3, <2>4, TablesUnchanged, VoiceUnchanged DEF Enter
<1>12. ASSUME NEW c \in todo, DispatchRefused(c) PROVE Inv'
  BY <1>1, <1>12, EndPollType, TablesUnchanged, VoiceUnchanged, DispatcherUnchanged,
     PhoneUnchanged DEF DispatchRefused, voiceVars, dispatcherVars
<1>13. QED
  BY <1>1, <1>2, <1>3, <1>4, <1>5, <1>6, <1>7, <1>8, <1>9, <1>10, <1>11, <1>12 DEF PollStep

-----------------------------------------------------------------------------
(* The workers *)
LEMMA GonePhone ==
  ASSUME OneOnThePhone, NEW t \in live, Gone(t), UNCHANGED disp
  PROVE  OneOnThePhone' /\ live' = {}
<1>1. live = {t} /\ child = t
  BY DEF OneOnThePhone
<1>2. live' = {} /\ child' = NoTask
  BY <1>1 DEF Gone
<1>3. QED BY <1>2 DEF OneOnThePhone

LEMMA WorkerStepInv ==
  ASSUME Inv, Framed(WorkerStep /\ UNCHANGED pollVars)
  PROVE  Inv'
<1> USE DEF Inv, TypeOK
<1>1. /\ RequestsTypeOK' /\ crashes' = crashes /\ TablesTypeOK'
      /\ DispatcherTypeOK' /\ OneDispatch' /\ OrchestratorTypeOK'
      /\ disp' = disp /\ WorkerStep
  BY RequestUnchanged, TablesUnchanged, DispatcherUnchanged, PollUnchanged
     DEF Framed, WorkerStep, dispatcherVars
<1> SUFFICES VoiceTypeOK' /\ OneOnThePhone'
  BY <1>1
<1>2. ASSUME NEW t \in live, WorkerStatus(t) PROVE VoiceTypeOK' /\ OneOnThePhone'
  <2>1. t \in Tasks /\ "live" \in EventPhases
    BY <1>2 DEF VoiceTypeOK, WorkerStatus
  <2>2. QED BY <1>1, <1>2, <2>1, PhoneUnchanged DEF WorkerStatus, VoiceTypeOK
<1>3. ASSUME NEW t \in live, NEW report \in Reports, WorkerReport(t, report)
      PROVE  VoiceTypeOK' /\ OneOnThePhone'
  BY <1>1, <1>3, PhoneUnchanged DEF WorkerReport, VoiceTypeOK
<1>4. ASSUME NEW t \in live, WorkerExit(t) PROVE VoiceTypeOK' /\ OneOnThePhone'
  <2>1. t \in Tasks /\ Gone(t)
    BY <1>4 DEF VoiceTypeOK, WorkerExit
  <2>2. OneOnThePhone' /\ live' = {}
    BY <1>1, <2>1, GonePhone
  <2>3. child' \in Tasks \cup {NoTask} /\ reported' \subseteq live'
    BY <2>1 DEF Gone, VoiceTypeOK
  <2>4. QED BY <1>4, <2>1, <2>2, <2>3 DEF WorkerExit, VoiceTypeOK
<1>5. ASSUME NEW t \in live, WorkerDeath(t) PROVE VoiceTypeOK' /\ OneOnThePhone'
  <2>1. t \in Tasks /\ Gone(t)
    BY <1>5 DEF VoiceTypeOK, WorkerDeath
  <2>2. OneOnThePhone' /\ live' = {}
    BY <1>1, <2>1, GonePhone
  <2>3. child' \in Tasks \cup {NoTask} /\ reported' \subseteq live'
    BY <2>1 DEF Gone, VoiceTypeOK
  <2>4. QED BY <1>5, <2>1, <2>2, <2>3 DEF WorkerDeath, VoiceTypeOK
<1>6. ASSUME NEW m \in results, LoseResult(m) PROVE VoiceTypeOK' /\ OneOnThePhone'
  BY <1>1, <1>6, PhoneUnchanged DEF LoseResult, VoiceTypeOK
<1>7. ASSUME NEW m \in events, LoseEvent(m) PROVE VoiceTypeOK' /\ OneOnThePhone'
  BY <1>1, <1>7, PhoneUnchanged DEF LoseEvent, VoiceTypeOK
<1>8. QED BY <1>1, <1>2, <1>3, <1>4, <1>5, <1>6, <1>7 DEF WorkerStep

-----------------------------------------------------------------------------
(* The callbacks *)
LEMMA EventType ==
  ASSUME TablesTypeOK, VoiceTypeOK, NEW m \in events, HandleEvent(m)
  PROVE  TablesTypeOK' /\ VoiceTypeOK'
<1> DEFINE o == m[1][1]
           n == m[1][2]
           row == [call[o][n] EXCEPT
                     !.phase = m[2],
                     !.completed = IF m[2] = "ended" /\ @ = NoTime THEN 0 ELSE @]
<1>1. o \in Orders /\ n \in Attempts /\ m[2] \in {"live", "ended"}
  BY VoiceAssumption DEF VoiceTypeOK, Tasks
<1>2. call[o][n] \in Row
  BY <1>1 DEF TablesTypeOK
<1>3. row \in Row
  <2>1. call[o][n].completed \in NoTime..MaxCompletedAge /\ 0 \in NoTime..MaxCompletedAge
    BY <1>2, Limits DEF Row
  <2>2. QED BY <1>1, <1>2, <2>1 DEF Row
<1>4. call' \in [Orders -> [Attempts -> Row]]
  BY <1>1, <1>3, SetRowType DEF HandleEvent, TablesTypeOK
<1>5. QED BY <1>4 DEF HandleEvent, TablesTypeOK, VoiceTypeOK

LEMMA ClosedRowType ==
  ASSUME NEW row \in Row, NEW report \in Report, NEW n
  PROVE  /\ ClosedRow(row, report, n) \in Row
         /\ Blocked(ClosedRow(row, report, n)) \in Row
<1>1. ResultStatus(report, n) \in CallStatus
  BY DEF ResultStatus, CallStatus
<1>2. ResultDisposition(report, n) \in Disposition
  <2>1. DecideOutcome(report) = "no_answer" =>
          report.disposition \in {"no_answer", "rejected", "error"}
    BY DEF DecideOutcome
  <2>2. QED BY <2>1 DEF ResultDisposition, Disposition
<1>3. 0 \in NoTime..MaxCompletedAge
  BY Limits
<1>4. ClosedRow(row, report, n) \in Row
  BY <1>1, <1>2, <1>3 DEF ClosedRow, Row
<1>5. \A r \in Row : Blocked(r) \in Row
  BY DEF Blocked, Row, CallStatus, Disposition
<1>6. QED BY <1>4, <1>5

LEMMA ApplyType ==
  ASSUME TablesTypeOK, VoiceTypeOK, NEW m \in resolved, ApplyResult(m)
  PROVE  TablesTypeOK' /\ VoiceTypeOK'
<1> DEFINE o == m[1][1]
           n == m[1][2]
           closed == ClosedRow(call[o][n], m[2], n)
<1>1. o \in Orders /\ n \in Attempts
  BY DEF VoiceTypeOK, Tasks
<1>2. m[2] \in Report
  BY VoiceAssumption DEF VoiceTypeOK, WorkerFailure, Report
<1>3. call[o][n] \in Row
  BY <1>1 DEF TablesTypeOK
<1>4. closed \in Row /\ Blocked(closed) \in Row
  BY <1>2, <1>3, ClosedRowType
<1>5. /\ call' \in [Orders -> [Attempts -> Row]]
      /\ order' \in [Orders -> OrderStatus \cup {"absent", "deleted"}]
  <2>1. CASE UNCHANGED <<order, call>>
    BY <2>1 DEF TablesTypeOK
  <2>2. CASE /\ Decisive(m[2])
             /\ SetRow(o, n, IF order[o] = "pending" THEN closed ELSE Blocked(closed))
             /\ MovePendingOrder(o, DecideOutcome(m[2]))
    <3>1. DecideOutcome(m[2]) \in OrderStatus
      BY <2>2 DEF Decisive, OrderStatus
    <3>2. QED BY <1>1, <1>4, <2>2, <3>1, SetRowType, MovePendingOrderType
  <2>3. CASE /\ SetRow(o, n, closed)
             /\ IF n >= MAX_ATTEMPTS THEN MovePendingOrder(o, "unreachable")
                                     ELSE UNCHANGED order
    <3>1. "unreachable" \in OrderStatus
      BY DEF OrderStatus
    <3>2. QED BY <1>1, <1>4, <2>3, <3>1, SetRowType, MovePendingOrderType DEF TablesTypeOK
  <2>4. QED BY <2>1, <2>2, <2>3 DEF ApplyResult
<1>6. QED BY <1>5 DEF ApplyResult, TablesTypeOK, VoiceTypeOK

LEMMA CallbackStepInv ==
  ASSUME Inv, Framed(CallbackStep)
  PROVE  Inv'
<1> USE DEF Inv, TypeOK
<1>1. RequestsTypeOK' /\ crashes' = crashes /\ CallbackStep
  BY RequestUnchanged DEF Framed
<1>2. ASSUME NEW m \in events, HandleEvent(m), UNCHANGED pollVars PROVE Inv'
  BY <1>1, <1>2, EventType, DispatcherUnchanged, PhoneUnchanged, PollUnchanged
     DEF HandleEvent, dispatcherVars
<1>3. ASSUME NEW m \in results, LookUpResult(m), UNCHANGED pollVars PROVE Inv'
  <2>1. VoiceTypeOK'
    BY <1>3 DEF LookUpResult, VoiceTypeOK
  <2>2. QED
    BY <1>1, <1>3, <2>1, TablesUnchanged, DispatcherUnchanged, PhoneUnchanged, PollUnchanged
       DEF LookUpResult, dispatcherVars
<1>4. ASSUME NEW m \in resolved, ApplyResult(m), Wake PROVE Inv'
  BY <1>1, <1>4, ApplyType, DispatcherUnchanged, PhoneUnchanged, WakeType
     DEF ApplyResult, dispatcherVars
<1>5. QED BY <1>1, <1>2, <1>3, <1>4 DEF CallbackStep

-----------------------------------------------------------------------------
(* The staff *)
LEMMA HoldType ==
  ASSUME RequestsTypeOK, NEW r, NEW where \in {"insert", "reopen"},
         NEW rows \in SUBSET (Orders \X Attempts), Hold(r, where, rows)
  PROVE  RequestsTypeOK'
BY DEF RequestsTypeOK, Hold

LEMMA ReleaseType ==
  ASSUME RequestsTypeOK, NEW r, Release(r)
  PROVE  RequestsTypeOK'
BY DEF RequestsTypeOK, Release, Resting

LEMMA OrderWriteType ==
  ASSUME TablesTypeOK, NEW o, NEW s \in OrderStatus \cup {"absent", "deleted"},
         order' = [order EXCEPT ![o] = s]
  PROVE  order' \in [Orders -> OrderStatus \cup {"absent", "deleted"}]
BY DEF TablesTypeOK

LEMMA QueueType ==
  ASSUME TablesTypeOK, RequestsTypeOK, NEW r \in Requests,
         \/ \E o \in Orders : QueueRead(r, o) \/ RetryRead(r, o)
         \/ \E s \in Shops : QueueAllRead(r, s)
         \/ QueueInsert(r)
         \/ RetryCommit(r)
  PROVE  /\ TablesTypeOK' /\ RequestsTypeOK'
         /\ UNCHANGED <<voiceVars, dispatcherVars, pollVars>>
<1>1. ASSUME NEW o \in Orders, QueueRead(r, o)
      PROVE  /\ TablesTypeOK' /\ RequestsTypeOK'
             /\ UNCHANGED <<voiceVars, dispatcherVars, pollVars>>
  <2>1. PICK n \in Attempts : Hold(r, "insert", {<<o, n>>})
    BY <1>1 DEF QueueRead
  <2>2. RequestsTypeOK'
    BY <2>1, HoldType
  <2>3. QED BY <1>1, <2>2, TablesUnchanged DEF QueueRead
<1>2. ASSUME NEW o \in Orders, RetryRead(r, o)
      PROVE  /\ TablesTypeOK' /\ RequestsTypeOK'
             /\ UNCHANGED <<voiceVars, dispatcherVars, pollVars>>
  <2>1. PICK n \in Attempts : n < MaxRows /\ Hold(r, "reopen", {<<o, n + 1>>})
    BY <1>2 DEF RetryRead
  <2>2. n + 1 \in Attempts
    BY <2>1, TablesAssumption DEF Attempts
  <2>3. RequestsTypeOK'
    BY <2>1, <2>2, HoldType
  <2>4. QED BY <1>2, <2>3, TablesUnchanged DEF RetryRead
<1>3. ASSUME NEW s \in Shops, QueueAllRead(r, s)
      PROVE  /\ TablesTypeOK' /\ RequestsTypeOK'
             /\ UNCHANGED <<voiceVars, dispatcherVars, pollVars>>
  BY <1>3, HoldType, TablesUnchanged DEF QueueAllRead
<1>4. CASE QueueInsert(r)
  <2>1. call' \in [Orders -> [Attempts -> Row]]
    BY <1>4, InsertRowsType DEF QueueInsert, TablesTypeOK
  <2>2. QED BY <1>4, <2>1, ReleaseType DEF QueueInsert, TablesTypeOK
<1>5. CASE RetryCommit(r)
  <2>1. call' \in [Orders -> [Attempts -> Row]]
    BY <1>5, InsertRowsType DEF RetryCommit, TablesTypeOK
  <2>2. order' \in [Orders -> OrderStatus \cup {"absent", "deleted"}]
    BY <1>5 DEF RetryCommit, TablesTypeOK, OrderStatus
  <2>3. QED BY <1>5, <2>1, <2>2, ReleaseType DEF RetryCommit, TablesTypeOK
<1>6. QED BY <1>1, <1>2, <1>3, <1>4, <1>5

LEMMA EditType ==
  ASSUME TablesTypeOK, OrchestratorTypeOK, NEW o \in Orders,
         \/ PlaceOrder(o)
         \/ DeleteOrder(o)
         \/ \E s \in OrderEdits : EditOrder(o, s)
         \/ \E n \in Attempts, s \in CallEdits : EditCall(o, n, s)
  PROVE  /\ TablesTypeOK' /\ OrchestratorTypeOK'
         /\ UNCHANGED <<request, voiceVars, dispatcherVars>>
<1>1. CASE PlaceOrder(o)
  <2>1. order' \in [Orders -> OrderStatus \cup {"absent", "deleted"}]
    BY <1>1, OrderWriteType DEF PlaceOrder, OrderStatus
  <2>2. QED BY <1>1, <2>1, WakeType DEF PlaceOrder, TablesTypeOK
<1>2. CASE DeleteOrder(o)
  <2>1. order' \in [Orders -> OrderStatus \cup {"absent", "deleted"}]
    BY <1>2, OrderWriteType DEF DeleteOrder
  <2>2. call' \in [Orders -> [Attempts -> Row]]
    BY <1>2, NewRowIsRow DEF DeleteOrder, TablesTypeOK
  <2>3. QED BY <1>2, <2>1, <2>2, PollUnchanged DEF DeleteOrder, TablesTypeOK
<1>3. ASSUME NEW s \in OrderEdits, EditOrder(o, s)
      PROVE  /\ TablesTypeOK' /\ OrchestratorTypeOK'
             /\ UNCHANGED <<request, voiceVars, dispatcherVars>>
  <2>1. order' \in [Orders -> OrderStatus \cup {"absent", "deleted"}]
    BY <1>3, OrderWriteType, RequestsAssumption DEF EditOrder
  <2>2. QED BY <1>3, <2>1, PollUnchanged DEF EditOrder, TablesTypeOK
<1>4. ASSUME NEW n \in Attempts, NEW s \in CallEdits, EditCall(o, n, s)
      PROVE  /\ TablesTypeOK' /\ OrchestratorTypeOK'
             /\ UNCHANGED <<request, voiceVars, dispatcherVars>>
  <2>1. s \in CallStatus
    BY RequestsAssumption
  <2>2. call[o][n] \in Row
    BY DEF TablesTypeOK
  <2>3. [call[o][n] EXCEPT !.status = s] \in Row
    BY <2>1, <2>2 DEF Row
  <2>4. call' \in [Orders -> [Attempts -> Row]]
    BY <1>4, <2>3 DEF EditCall, TablesTypeOK
  <2>5. QED BY <1>4, <2>4, PollUnchanged DEF EditCall, TablesTypeOK
<1>5. QED BY <1>1, <1>2, <1>3, <1>4

LEMMA RequestStepInv ==
  ASSUME Inv, RequestStep, UNCHANGED crashes
  PROVE  Inv'
<1> USE DEF Inv, TypeOK
<1>1. ASSUME NEW r \in Requests,
             \/ \E o \in Orders : QueueRead(r, o) \/ RetryRead(r, o)
             \/ \E s \in Shops : QueueAllRead(r, s)
             \/ QueueInsert(r)
             \/ RetryCommit(r)
      PROVE  Inv'
  <2>1. /\ TablesTypeOK' /\ RequestsTypeOK'
        /\ UNCHANGED <<voiceVars, dispatcherVars, pollVars>>
    BY <1>1, QueueType
  <2>2. QED
    BY <2>1, VoiceUnchanged, DispatcherUnchanged, PhoneUnchanged, PollUnchanged
       DEF voiceVars, dispatcherVars
<1>2. ASSUME NEW r \in Requests, NEW o \in Orders, NEW n \in Attempts,
             DispatchRequest(r, o, n)
      PROVE  Inv'
  <2>1. r \in Callers /\ Enter(r, o, n) /\ UNCHANGED <<request, pollVars>>
    BY <1>2 DEF DispatchRequest, Callers
  <2>2. QED
    BY <2>1, EnterInv, TablesUnchanged, VoiceUnchanged, RequestUnchanged, PollUnchanged
       DEF Enter
<1>3. ASSUME NEW o \in Orders,
             \/ PlaceOrder(o)
             \/ DeleteOrder(o)
             \/ \E s \in OrderEdits : EditOrder(o, s)
             \/ \E n \in Attempts, s \in CallEdits : EditCall(o, n, s)
      PROVE  Inv'
  <2>1. /\ TablesTypeOK' /\ OrchestratorTypeOK'
        /\ UNCHANGED <<request, voiceVars, dispatcherVars>>
    BY <1>3, EditType
  <2>2. QED
    BY <2>1, RequestUnchanged, VoiceUnchanged, DispatcherUnchanged, PhoneUnchanged
       DEF voiceVars, dispatcherVars
<1>4. ASSUME NEW s \in Shops, HoursPass(s) PROVE Inv'
  <2>1. TablesTypeOK'
    BY <1>4 DEF HoursPass, MoveWindow, TablesTypeOK
  <2>2. QED
    BY <1>4, <2>1, RequestUnchanged, VoiceUnchanged, DispatcherUnchanged, PhoneUnchanged,
       PollUnchanged DEF HoursPass, voiceVars, dispatcherVars
<1>5. QED BY <1>1, <1>2, <1>3, <1>4 DEF RequestStep

-----------------------------------------------------------------------------
(* Time and restarts *)
LEMMA TickInv ==
  ASSUME Inv, Tick, UNCHANGED crashes
  PROVE  Inv'
<1> USE DEF Inv, TypeOK
<1>1. TablesTypeOK'
  BY AgeRowsType DEF Tick, TablesTypeOK
<1>2. lag' \in 0..MaxLag
  BY TablesAssumption DEF Tick, OrchestratorTypeOK
<1>3. OrchestratorTypeOK'
  BY <1>2 DEF Tick, OrchestratorTypeOK
<1>4. QED
  BY <1>1, <1>3, VoiceUnchanged, DispatcherUnchanged, PhoneUnchanged, RequestUnchanged
     DEF Tick, voiceVars, dispatcherVars

LEMMA RestartInv ==
  ASSUME Inv, Restart
  PROVE  Inv'
<1> USE DEF Inv, TypeOK
<1>1. TablesTypeOK'
  BY TablesUnchanged DEF Restart
<1>2. VoiceTypeOK'
  BY DEF Restart, VoiceTypeOK
<1>3. DispatcherTypeOK' /\ OneDispatch' /\ OneOnThePhone'
  BY DEF Restart, DispatcherTypeOK, OneDispatch, Inside, OneOnThePhone, NotDispatching
<1>4. 0 \in 0..MaxLag
  BY TablesAssumption
<1>5. OrchestratorTypeOK'
  BY <1>4 DEF Restart, OrchestratorTypeOK
<1>6. RequestsTypeOK'
  BY DEF Restart, RequestsTypeOK, Resting
<1>7. crashes' \in 0..MaxCrashes
  BY SystemAssumption DEF Restart
<1>8. QED BY <1>1, <1>2, <1>3, <1>5, <1>6, <1>7

-----------------------------------------------------------------------------
LEMMA NextInv ==
  ASSUME Inv, [Next]_vars
  PROVE  Inv'
<1>1. CASE UNCHANGED vars
  BY <1>1, TablesUnchanged, VoiceUnchanged, DispatcherUnchanged, PhoneUnchanged,
     PollUnchanged, RequestUnchanged DEF Inv, TypeOK, vars, voiceVars, dispatcherVars
<1>2. CASE Next
  BY <1>2, DispatchStepInv, PollStepInv, WorkerStepInv, CallbackStepInv, RequestStepInv,
     TickInv, RestartInv DEF Next
<1>3. QED BY <1>1, <1>2

LEMMA InvHolds == Spec => []Inv
BY InitInv, NextInv, PTL DEF Spec

(***************************************************************************)
(* Every variable keeps its type, and the counters and ages their bounds.   *)
(***************************************************************************)
THEOREM TypesHold == Spec => []TypeOK
BY InvHolds, PTL DEF Inv

(***************************************************************************)
(* The dispatcher's counter (activeDispatches++ and the finally block) is   *)
(* the number of callers inside dispatchCall, for any number of requests.   *)
(***************************************************************************)
THEOREM CounterHolds == Spec => []CounterIsExact
<1>1. Inv => CounterIsExact
  <2> SUFFICES ASSUME Inv PROVE CounterIsExact
    OBVIOUS
  <2> DEFINE busy == {c \in Callers : disp[c].pc # "idle"}
  <2>1. CASE activeDispatches = 0
    <3>1. busy = {}
      BY <2>1 DEF Inv, OneDispatch, Inside
    <3>2. QED BY <2>1, <3>1, FS_EmptySet DEF CounterIsExact
  <2>2. CASE activeDispatches = 1
    <3>1. PICK c \in Callers : Inside(c)
      BY <2>2 DEF Inv, OneDispatch
    <3>2. \A d \in Callers : Inside(d) => d = c
      BY <3>1 DEF Inv, OneDispatch
    <3>3. busy = {c}
      BY <3>1, <3>2 DEF Inside
    <3>4. Cardinality(busy) = 1
      BY <3>3, FS_Singleton
    <3>5. QED BY <2>2, <3>4 DEF CounterIsExact
  <2>3. QED BY <2>1, <2>2 DEF Inv, TypeOK, DispatcherTypeOK
<1>2. QED BY <1>1, InvHolds, PTL

(***************************************************************************)
(* The adapter never has two workers on the phone, though startTask awaits  *)
(* between its look at the handle and the fork.                             *)
(***************************************************************************)
THEOREM OneWorkerHolds == Spec => []OneWorker
<1>1. Inv => OneWorker
  BY DEF Inv, OneOnThePhone, OneWorker
<1>2. QED BY <1>1, InvHolds, PTL

---------------------------------------------------------------------------
(***************************************************************************)
(* A decision of the staff is not overwritten by the machinery.  Only the   *)
(* types are needed: each write of an order is conditional on its status in *)
(* the database, or is an edit or a deletion of the staff; the manual retry *)
(* writes the order and its new attempt in one transaction.                 *)
(***************************************************************************)
Decided(o) == order[o] \in {"confirmed", "cancelled", "unreachable"}

DecisionKept ==
  \A o \in Orders :
    Decided(o) /\ order'[o] # order[o] =>
      \/ order'[o] \in OrderEdits \cup {"deleted"}
      \/ order'[o] = "pending" /\ HasPending(call'[o])

LEMMA MoveKeepsDecisions ==
  ASSUME TablesTypeOK, NEW o \in Orders, NEW s, MovePendingOrder(o, s)
  PROVE  DecisionKept
BY DEF MovePendingOrder, TablesTypeOK, DecisionKept, Decided

LEMMA SameOrdersKeepDecisions ==
  ASSUME UNCHANGED order
  PROVE  DecisionKept
BY DEF DecisionKept

LEMMA CallbacksKeepDecisions ==
  ASSUME TypeOK, CallbackStep
  PROVE  DecisionKept
<1>1. ASSUME NEW m \in resolved, ApplyResult(m) PROVE DecisionKept
  <2>1. m[1][1] \in Orders
    BY DEF TypeOK, VoiceTypeOK, Tasks
  <2>2. (\E s : MovePendingOrder(m[1][1], s)) \/ UNCHANGED order
    BY <1>1 DEF ApplyResult
  <2>3. QED BY <2>1, <2>2, MoveKeepsDecisions, SameOrdersKeepDecisions DEF TypeOK
<1>2. QED
  BY <1>1, SameOrdersKeepDecisions DEF CallbackStep, HandleEvent, LookUpResult, tableVars

LEMMA PollKeepsDecisions ==
  ASSUME TypeOK, PollStep
  PROVE  DecisionKept
<1>1. CASE GiveUpOrder
  <2>1. giveUp \in Orders /\ MovePendingOrder(giveUp, "unreachable")
    BY <1>1 DEF GiveUpOrder, TypeOK, OrchestratorTypeOK
  <2>2. QED BY <2>1, MoveKeepsDecisions DEF TypeOK
<1>2. CASE ~GiveUpOrder
  <2>1. UNCHANGED order
    BY <1>2 DEF PollStep, Timer, StartPoll, ExpireCall, ReadBatch, StopLooking, HasCapacity,
                CreateCall, CreateFails, DispatchCurrent, DispatchRefused, Enter, tableVars
  <2>2. QED BY <2>1, SameOrdersKeepDecisions
<1>3. QED BY <1>1, <1>2

(* The order is reopened together with an attempt that did not exist. *)
LEMMA RetryKeepsDecisions ==
  ASSUME TypeOK, NEW r \in Requests, RetryCommit(r)
  PROVE  DecisionKept
<1> DEFINE rows == request[r].rows
           commits == \A c \in rows : order[c[1]] = "unreachable" /\ ~Exists(call[c[1]][c[2]])
<1>1. CASE commits
  <2>1. /\ InsertRows(rows)
        /\ order' = [o \in Orders |->
             IF \E c \in rows : c[1] = o THEN "pending" ELSE order[o]]
    BY <1>1 DEF RetryCommit
  <2>2. rows \subseteq Orders \X Attempts
    BY DEF TypeOK, RequestsTypeOK
  <2>3. ASSUME NEW c \in rows
        PROVE  order'[c[1]] = "pending" /\ HasPending(call'[c[1]])
    <3>1. c = <<c[1], c[2]>> /\ c[1] \in Orders /\ c[2] \in Attempts
      BY <2>2
    <3>2. call'[c[1]][c[2]].status = "pending" /\ DOMAIN call'[c[1]] = Attempts
      BY <1>1, <2>1, <3>1 DEF InsertRows, NewRow, NoRow
    <3>3. HasPending(call'[c[1]])
      BY <3>1, <3>2 DEF HasPending
    <3>4. order'[c[1]] = "pending"
      BY <2>1, <3>1
    <3>5. QED BY <3>3, <3>4
  <2>4. \A o \in Orders : order'[o] # order[o] => \E c \in rows : c[1] = o
    BY <2>1
  <2>5. QED BY <2>3, <2>4 DEF DecisionKept
<1>2. CASE ~commits
  BY <1>2, SameOrdersKeepDecisions DEF RetryCommit
<1>3. QED BY <1>1, <1>2

LEMMA RequestsKeepDecisions ==
  ASSUME TypeOK, RequestStep
  PROVE  DecisionKept
<1>1. ASSUME NEW o \in Orders, PlaceOrder(o) PROVE DecisionKept
  BY <1>1 DEF PlaceOrder, DecisionKept, Decided, TypeOK, TablesTypeOK
<1>2. ASSUME NEW o \in Orders, NEW s \in OrderEdits, EditOrder(o, s) PROVE DecisionKept
  BY <1>2 DEF EditOrder, DecisionKept, TypeOK, TablesTypeOK
<1>3. ASSUME NEW o \in Orders, DeleteOrder(o) PROVE DecisionKept
  BY <1>3 DEF DeleteOrder, DecisionKept, TypeOK, TablesTypeOK
<1>4. QED
  BY <1>1, <1>2, <1>3, RetryKeepsDecisions, SameOrdersKeepDecisions
     DEF RequestStep, QueueRead, QueueAllRead, RetryRead, QueueInsert, DispatchRequest, Enter,
         EditCall, HoursPass, MoveWindow, tableVars

LEMMA NextKeepsDecisions ==
  ASSUME TypeOK, [Next]_vars
  PROVE  DecisionKept
<1>1. CASE UNCHANGED vars
  BY <1>1, SameOrdersKeepDecisions DEF vars, tableVars
<1>2. ASSUME NEW c \in Callers, DispatchStep(c) PROVE DecisionKept
  BY <1>2, SameOrdersKeepDecisions
     DEF DispatchStep, Check, Refuse, Launch, Reject, Defer, Record, tableVars
<1>3. CASE Next
  BY <1>2, <1>3, CallbacksKeepDecisions, PollKeepsDecisions, RequestsKeepDecisions,
     SameOrdersKeepDecisions DEF Next, Framed, WorkerStep, Tick, Restart, tableVars
<1>4. QED BY <1>1, <1>3

(***************************************************************************)
(* No poll, callback or queue request moves an order that is not pending;   *)
(* the manual retry alone takes it back to pending, and then a new attempt  *)
(* comes with it.                                                           *)
(***************************************************************************)
THEOREM StaffDecisionHolds == Spec => StaffDecisionStays
<1>1. TypeOK /\ [Next]_vars => DecisionKept
  BY NextKeepsDecisions
<1>2. DecisionKept =>
        [\A o \in Orders :
           order[o] \in {"confirmed", "cancelled", "unreachable"} /\ order'[o] # order[o] =>
             \/ order'[o] \in OrderEdits \cup {"deleted"}
             \/ order'[o] = "pending" /\ HasPending(call'[o])]_order
  BY DEF DecisionKept, Decided
<1>3. QED BY <1>1, <1>2, TypesHold, PTL DEF Spec, StaffDecisionStays

-----------------------------------------------------------------------------
(***************************************************************************)
(* No order has two open attempts, for any number of orders and requests,   *)
(* provided the staff does not set a finished call back to pending by hand. *)
(*                                                                          *)
(* The invariant is not inductive alone: the poll and the requests insert   *)
(* an attempt that they chose on an earlier read.  What they hold stays     *)
(* sound, because every earlier attempt was closed when they read, a closed *)
(* call stays closed, and a deleted order does not come back.               *)
(***************************************************************************)

(* Attempt n may still be inserted for order o, if o was not deleted meanwhile. *)
Sound(o, n) ==
  /\ order[o] # "absent"
  /\ order[o] # "deleted" => \A m \in Attempts : m < n => Closed(call[o][m])

AttemptInv ==
  /\ OneOpenAttempt
  /\ \A c \in todo : Sound(c.order, c.attempt)
  /\ \A r \in Requests : \A c \in request[r].rows : Sound(c[1], c[2])

(* What every step but the insertions and the deletion does to the calls. *)
RowsKept ==
  \A o \in Orders, n \in Attempts :
    /\ Exists(call'[o][n]) => Exists(call[o][n])
    /\ Closed(call[o][n]) => Closed(call'[o][n])

(* What every step does to the orders, and to the closed calls of those that remain. *)
HistoryKept ==
  \A o \in Orders :
    /\ order[o] # "absent" => order'[o] # "absent"
    /\ order'[o] # "deleted" =>
         /\ order[o] # "deleted"
         /\ \A n \in Attempts : Closed(call[o][n]) => Closed(call'[o][n])

LEMMA SoundStays ==
  ASSUME HistoryKept, NEW o \in Orders, NEW n, Sound(o, n)
  PROVE  Sound(o, n)'
BY DEF HistoryKept, Sound

(* A step that keeps the rows and what the poll and the requests hold. *)
LEMMA InvStays ==
  ASSUME TypeOK, AttemptInv, HistoryKept, OneOpenAttempt',
         todo' \subseteq todo,
         \A r \in Requests : request'[r].rows \subseteq request[r].rows
  PROVE  AttemptInv'
<1>1. \A c \in todo : c.order \in Orders
  BY TodoIsCall DEF TypeOK
<1>2. \A r \in Requests : \A c \in request[r].rows : c[1] \in Orders
  BY DEF TypeOK, RequestsTypeOK
<1>3. \A c \in todo' : Sound(c.order, c.attempt)'
  BY <1>1, SoundStays DEF AttemptInv
<1>4. \A r \in Requests : \A c \in request'[r].rows : Sound(c[1], c[2])'
  BY <1>2, SoundStays DEF AttemptInv
<1>5. QED BY <1>3, <1>4 DEF AttemptInv

LEMMA RowsKeptOpen ==
  ASSUME OneOpenAttempt, RowsKept
  PROVE  OneOpenAttempt'
BY DEF OneOpenAttempt, RowsKept

(* The insertion of sound attempts of orders that exist. *)
LEMMA InsertSound ==
  ASSUME TablesTypeOK, OneOpenAttempt, NEW rows \in SUBSET (Orders \X Attempts),
         \A c \in rows : OrderExists(c[1]) /\ Sound(c[1], c[2]),
         InsertRows(rows)
  PROVE  /\ OneOpenAttempt'
         /\ \A o \in Orders, n \in Attempts : Closed(call[o][n]) => Closed(call'[o][n])
<1>1. \A o \in Orders, n \in Attempts :
        call'[o][n] = IF <<o, n>> \in rows /\ ~Exists(call[o][n]) THEN NewRow ELSE call[o][n]
  BY DEF InsertRows
<1>2. \A o \in Orders, n \in Attempts : Closed(call[o][n]) => Closed(call'[o][n])
  BY <1>1 DEF Closed, Exists
<1>3. ASSUME NEW o \in Orders, NEW n \in Attempts, Exists(call'[o][n]),
             NEW m \in Attempts, m < n
      PROVE  Closed(call'[o][m])
  <2>1. CASE Exists(call[o][n])
    BY <1>2, <1>3, <2>1 DEF OneOpenAttempt
  <2>2. CASE ~Exists(call[o][n])
    <3>1. <<o, n>> \in rows
      BY <1>1, <1>3, <2>2
    <3>2. Closed(call[o][m])
      BY <1>3, <3>1 DEF Sound, OrderExists
    <3>3. QED BY <1>2, <3>2
  <2>3. QED BY <2>1, <2>2
<1>4. QED BY <1>2, <1>3 DEF OneOpenAttempt

(* NextAttemptNumber answers one more than the number of calls, all of them closed. *)
LEMMA NextIsSound ==
  ASSUME TablesTypeOK, OneOpenAttempt, NEW o \in Orders, NEW n \in Attempts, NEW ago,
         order[o] = "pending", ~HasPending(call[o]), n = NextAttemptNumber(call[o], ago)
  PROVE  Sound(o, n)
<1> DEFINE made == Cardinality(Made(call[o]))
<1>1. CASE n = 1
  BY <1>1 DEF Sound, Attempts
<1>2. CASE n # 1
  <2>0. n # NoAttempt
    BY TablesAssumption DEF Attempts, NoAttempt
  <2>1. n = made + 1 /\ RetryDue(call[o], made, ago)
    BY <1>2, <2>0, Zenon DEF NextAttemptNumber
  <2>2. made \in Attempts /\ Exists(call[o][made])
    <3>1. made \in Made(call[o])
      BY <2>1 DEF RetryDue, IsLatest
    <3>2. DOMAIN call[o] = Attempts
      BY DEF TablesTypeOK
    <3>3. QED BY <3>1, <3>2 DEF Made
  <2>3. Closed(call[o][made])
    BY <2>2 DEF HasPending, Closed, Exists, TablesTypeOK
  <2>4. \A m \in Attempts : m < made => Closed(call[o][m])
    BY <2>2 DEF OneOpenAttempt
  <2>5. \A m \in Attempts : m < n => m = made \/ m < made
    BY <2>1, <2>2, TablesAssumption DEF Attempts
  <2>6. QED BY <2>3, <2>4, <2>5 DEF Sound
<1>3. QED BY <1>1, <1>2

-----------------------------------------------------------------------------
(* Steps that write neither an order nor a call. *)
OrdersKept ==
  \A o \in Orders : /\ order[o] # "absent" => order'[o] # "absent"
                    /\ order[o] = "deleted" => order'[o] = "deleted"

PlansKept ==
  /\ todo' \subseteq todo
  /\ \A r \in Requests : request'[r].rows \subseteq request[r].rows

LEMMA RowsStep ==
  ASSUME TypeOK, AttemptInv, RowsKept, OrdersKept, PlansKept
  PROVE  AttemptInv'
<1>1. HistoryKept
  BY DEF RowsKept, OrdersKept, HistoryKept
<1>2. OneOpenAttempt'
  BY RowsKeptOpen DEF AttemptInv
<1>3. QED BY <1>1, <1>2, InvStays DEF PlansKept

LEMMA QuietStep ==
  ASSUME TypeOK, AttemptInv, UNCHANGED <<order, call>>, PlansKept
  PROVE  AttemptInv'
<1>1. RowsKept /\ OrdersKept
  BY DEF RowsKept, OrdersKept
<1>2. QED BY <1>1, RowsStep

(* One row is written; a closed call stays closed and no row appears. *)
LEMMA SetRowKept ==
  ASSUME TablesTypeOK, NEW o \in Orders, NEW n \in Attempts, NEW row, SetRow(o, n, row),
         Exists(row) => Exists(call[o][n]),
         Closed(call[o][n]) => Closed(row)
  PROVE  RowsKept
<1>1. \A p \in Orders, m \in Attempts :
        call'[p][m] = IF p = o /\ m = n THEN row ELSE call[p][m]
  BY DEF SetRow, TablesTypeOK
<1>2. QED BY <1>1 DEF RowsKept

LEMMA SameCallKept ==
  ASSUME UNCHANGED call
  PROVE  RowsKept
BY DEF RowsKept

LEMMA MoveKept ==
  ASSUME TablesTypeOK, NEW o \in Orders, NEW s \in OrderStatus, MovePendingOrder(o, s)
  PROVE  OrdersKept
BY DEF TablesTypeOK, MovePendingOrder, OrdersKept, OrderStatus

LEMMA SameOrderKept ==
  ASSUME UNCHANGED order
  PROVE  OrdersKept
BY DEF OrdersKept

LEMMA SamePlansKept ==
  ASSUME UNCHANGED <<todo, request>>
  PROVE  PlansKept
BY DEF PlansKept

LEMMA EndPollKept ==
  ASSUME EndPoll, UNCHANGED request
  PROVE  PlansKept
BY DEF PlansKept, EndPoll

LEMMA WakeKept ==
  ASSUME Wake, UNCHANGED request
  PROVE  PlansKept
BY DEF PlansKept, Wake

-----------------------------------------------------------------------------
(* The dispatcher writes a row by its id, and never opens a closed one. *)
LEMMA RecordKept ==
  ASSUME TypeOK, NEW c \in Callers, Record(c)
  PROVE  RowsKept /\ OrdersKept
<1> DEFINE o == disp[c].call[1]
           n == disp[c].call[2]
<1>1. disp[c].pc \in {"accepted", "rejected"}
  BY DEF Record
<1>2. o \in Orders /\ n \in Attempts
  BY <1>1, CallOfDispatch DEF TypeOK
<1>3. OrdersKept
  BY SameOrderKept DEF Record
<1>4. CASE ~Exists(call[o][n])
  BY <1>3, <1>4, SameCallKept DEF Record
<1>5. CASE Exists(call[o][n])
  <2> DEFINE row == IF disp[c].pc = "accepted"
                      THEN AcceptedRow(call[o][n], disp[c].task)
                      ELSE RejectedRow(call[o][n], disp[c].task)
  <2>1. SetRow(o, n, row)
    BY <1>5 DEF Record
  <2>2. call[o][n] \in Row
    BY <1>2 DEF TypeOK, TablesTypeOK
  <2>3. Closed(call[o][n]) => Closed(row)
    BY <2>2 DEF AcceptedRow, RejectedRow, Closed, Row
  <2> HIDE DEF row
  <2>4. RowsKept
    BY <1>2, <1>5, <2>1, <2>3, SetRowKept DEF TypeOK
  <2>5. QED BY <1>3, <2>4
<1>6. QED BY <1>4, <1>5

LEMMA DispatchStepAttempts ==
  ASSUME TypeOK, AttemptInv, NEW c \in Callers, Framed(DispatchStep(c))
  PROVE  AttemptInv'
<1>1. UNCHANGED request /\ DispatchStep(c)
  BY DEF Framed
<1>2. PlansKept
  BY <1>1, EndPollKept, SamePlansKept DEF DispatchStep, Returning, pollVars
<1>3. CASE Check(c) \/ Refuse(c) \/ Launch(c) \/ Reject(c) \/ Defer(c)
  BY <1>2, <1>3, QuietStep DEF Check, Refuse, Launch, Reject, Defer, tableVars
<1>4. CASE Record(c)
  BY <1>2, <1>4, RecordKept, RowsStep
<1>5. QED BY <1>1, <1>3, <1>4 DEF DispatchStep

-----------------------------------------------------------------------------
(* The poll *)
LEMMA ExpireCallAttempts ==
  ASSUME TypeOK, AttemptInv, NEW c \in stale, ExpireCall(c), UNCHANGED request
  PROVE  AttemptInv'
<1>1. c[1] \in Orders /\ c[2] \in Attempts
  BY StaleIsCall DEF TypeOK
<1>2. OrdersKept /\ PlansKept
  BY SameOrderKept, SamePlansKept DEF ExpireCall
<1>3. CASE StillPending(c[1], c[2])
  <2>1. SetRow(c[1], c[2], ExpiredRow(call[c[1]][c[2]]))
    BY <1>3 DEF ExpireCall
  <2>2. Exists(call[c[1]][c[2]]) /\ ~Closed(call[c[1]][c[2]])
    BY <1>3 DEF StillPending, Exists, Closed
  <2>3. RowsKept
    BY <1>1, <2>1, <2>2, SetRowKept DEF TypeOK
  <2>4. QED BY <1>2, <2>3, RowsStep
<1>4. CASE ~StillPending(c[1], c[2])
  BY <1>2, <1>4, SameCallKept, RowsStep DEF ExpireCall
<1>5. QED BY <1>3, <1>4

LEMMA GiveUpOrderAttempts ==
  ASSUME TypeOK, AttemptInv, GiveUpOrder, UNCHANGED request
  PROVE  AttemptInv'
<1>1. giveUp \in Orders
  BY DEF GiveUpOrder, TypeOK, OrchestratorTypeOK
<1>2. OrdersKept
  BY <1>1, MoveKept DEF GiveUpOrder, TypeOK, OrderStatus
<1>3. RowsKept /\ PlansKept
  BY SameCallKept, SamePlansKept DEF GiveUpOrder
<1>4. QED BY <1>2, <1>3, RowsStep

(* Every candidate of the batch is sound when it is read. *)
LEMMA ReadBatchAttempts ==
  ASSUME TypeOK, AttemptInv, ReadBatch, UNCHANGED request
  PROVE  AttemptInv'
<1>1. UNCHANGED <<order, call>> /\ todo' = Candidates
  BY DEF ReadBatch, tableVars
<1>2. ASSUME NEW c \in Candidates PROVE Sound(c.order, c.attempt)
  <2> DEFINE o == c.order
             n == c.attempt
  <2>1. o \in Orders /\ n \in Attempts /\ order[o] = "pending"
    BY DEF Candidates, Candidate, Batch, PendingFrom
  <2>2. CASE HasPending(call[o])
    <3>1. Exists(call[o][n])
      BY <2>2 DEF Candidates, QueuedCall, Exists
    <3>2. QED BY <2>1, <3>1 DEF AttemptInv, OneOpenAttempt, Sound
  <2>3. CASE ~HasPending(call[o])
    <3>1. n = NextAttemptNumber(call[o], lag)
      BY <2>3 DEF Candidates
    <3> HIDE DEF o, n
    <3>2. Sound(o, n)
      BY <2>1, <2>3, <3>1, NextIsSound DEF TypeOK, AttemptInv
    <3>3. QED BY <3>2 DEF o, n
  <2>4. QED BY <2>2, <2>3
<1>3. \A c \in todo' : Sound(c.order, c.attempt)'
  BY <1>1, <1>2 DEF Sound
<1>4. OneOpenAttempt'
  BY <1>1 DEF AttemptInv, OneOpenAttempt
<1>5. \A r \in Requests : \A c \in request'[r].rows : Sound(c[1], c[2])'
  BY <1>1 DEF AttemptInv, Sound
<1>6. QED BY <1>3, <1>4, <1>5 DEF AttemptInv

LEMMA CreateCallAttempts ==
  ASSUME TypeOK, AttemptInv, NEW c \in todo, CreateCall(c), UNCHANGED request
  PROVE  AttemptInv'
<1> DEFINE rows == {<<c.order, c.attempt>>}
<1>1. c.order \in Orders /\ c.attempt \in Attempts
  BY TodoIsCall DEF TypeOK
<1>2. rows \in SUBSET (Orders \X Attempts) /\ InsertRows(rows)
  BY <1>1 DEF CreateCall
<1>3. \A d \in rows : OrderExists(d[1]) /\ Sound(d[1], d[2])
  BY DEF CreateCall, AttemptInv
<1> HIDE DEF rows
<1>4. /\ OneOpenAttempt'
      /\ \A o \in Orders, n \in Attempts : Closed(call[o][n]) => Closed(call'[o][n])
  BY <1>2, <1>3, InsertSound DEF TypeOK, AttemptInv
<1>5. HistoryKept
  BY <1>4 DEF HistoryKept, CreateCall
<1>6. PlansKept
  BY DEF CreateCall, PlansKept
<1>7. QED BY <1>4, <1>5, <1>6, InvStays DEF PlansKept

LEMMA PollStepAttempts ==
  ASSUME TypeOK, AttemptInv, Framed(PollStep)
  PROVE  AttemptInv'
<1>1. UNCHANGED request /\ PollStep
  BY DEF Framed
<1>2. CASE Timer \/ StartPoll \/ StopLooking
  <2>1. PlansKept
    BY <1>1, <1>2, WakeKept, EndPollKept, SamePlansKept DEF Timer, StartPoll, StopLooking
  <2>2. QED BY <1>2, <2>1, QuietStep DEF Timer, StartPoll, StopLooking, tableVars
<1>3. CASE GiveUpOrder \/ ReadBatch \/ \E c \in stale : ExpireCall(c)
  BY <1>1, <1>3, GiveUpOrderAttempts, ReadBatchAttempts, ExpireCallAttempts
<1>4. ASSUME NEW c \in todo, CreateCall(c) PROVE AttemptInv'
  BY <1>1, <1>4, CreateCallAttempts
<1>5. ASSUME NEW c \in todo,
             HasCapacity(c) \/ CreateFails(c) \/ DispatchCurrent(c) \/ DispatchRefused(c)
      PROVE  AttemptInv'
  <2>1. PlansKept
    BY <1>1, <1>5, EndPollKept, SamePlansKept
       DEF HasCapacity, CreateFails, DispatchCurrent, DispatchRefused
  <2>2. QED
    BY <1>5, <2>1, QuietStep
       DEF HasCapacity, CreateFails, DispatchCurrent, DispatchRefused, Enter, tableVars
<1>6. QED BY <1>1, <1>2, <1>3, <1>4, <1>5 DEF PollStep

-----------------------------------------------------------------------------
(* The callbacks *)
LEMMA HandleEventAttempts ==
  ASSUME TypeOK, AttemptInv, NEW m \in events, HandleEvent(m), UNCHANGED <<pollVars, request>>
  PROVE  AttemptInv'
<1> DEFINE o == m[1][1]
           n == m[1][2]
<1>1. o \in Orders /\ n \in Attempts
  BY DEF TypeOK, VoiceTypeOK, Tasks
<1>2. OrdersKept /\ PlansKept
  BY SameOrderKept, SamePlansKept DEF HandleEvent, pollVars
<1>3. CASE HasTask(m[1])
  <2> DEFINE row == [call[o][n] EXCEPT
                !.phase = m[2],
                !.completed = IF m[2] = "ended" /\ @ = NoTime THEN 0 ELSE @]
  <2>1. SetRow(o, n, row)
    BY <1>3 DEF HandleEvent
  <2>2. call[o][n] \in Row
    BY <1>1 DEF TypeOK, TablesTypeOK
  <2>3. row.status = call[o][n].status
    BY <2>2 DEF Row
  <2> HIDE DEF row
  <2>4. RowsKept
    BY <1>1, <2>1, <2>3, SetRowKept DEF TypeOK, Exists, Closed
  <2>5. QED BY <1>2, <2>4, RowsStep
<1>4. CASE ~HasTask(m[1])
  BY <1>2, <1>4, SameCallKept, RowsStep DEF HandleEvent
<1>5. QED BY <1>3, <1>4

LEMMA ApplyResultAttempts ==
  ASSUME TypeOK, AttemptInv, NEW m \in resolved, ApplyResult(m), Wake, UNCHANGED request
  PROVE  AttemptInv'
<1> DEFINE o == m[1][1]
           n == m[1][2]
           report == m[2]
           closed == ClosedRow(call[o][n], report, n)
<1>1. o \in Orders /\ n \in Attempts
  BY DEF TypeOK, VoiceTypeOK, Tasks
<1>2. PlansKept
  BY WakeKept
<1>3. CASE ~StillPending(o, n)
  BY <1>2, <1>3, SameCallKept, SameOrderKept, RowsStep DEF ApplyResult
<1>4. CASE StillPending(o, n)
  <2>1. PICK row : SetRow(o, n, row)
    BY <1>4 DEF ApplyResult
  <2>2. Exists(call[o][n]) /\ ~Closed(call[o][n])
    BY <1>4 DEF StillPending, Exists, Closed
  <2>3. RowsKept
    BY <1>1, <2>1, <2>2, SetRowKept DEF TypeOK
  <2>4. \/ MovePendingOrder(o, DecideOutcome(report)) /\ Decisive(report)
        \/ MovePendingOrder(o, "unreachable")
        \/ UNCHANGED order
    BY <1>4 DEF ApplyResult
  <2>5. OrdersKept
    BY <1>1, <2>4, MoveKept, SameOrderKept DEF TypeOK, Decisive, OrderStatus
  <2>6. QED BY <1>2, <2>3, <2>5, RowsStep
<1>5. QED BY <1>3, <1>4

LEMMA CallbackStepAttempts ==
  ASSUME TypeOK, AttemptInv, Framed(CallbackStep)
  PROVE  AttemptInv'
<1>1. UNCHANGED request /\ CallbackStep
  BY DEF Framed
<1>2. ASSUME NEW m \in results, LookUpResult(m), UNCHANGED pollVars PROVE AttemptInv'
  BY <1>1, <1>2, SamePlansKept, QuietStep DEF LookUpResult, tableVars, pollVars
<1>3. QED BY <1>1, <1>2, HandleEventAttempts, ApplyResultAttempts DEF CallbackStep

LEMMA WorkerStepAttempts ==
  ASSUME TypeOK, AttemptInv, Framed(WorkerStep /\ UNCHANGED pollVars)
  PROVE  AttemptInv'
BY SamePlansKept, QuietStep DEF Framed, WorkerStep, tableVars, pollVars

-----------------------------------------------------------------------------
(* The requests of the shop *)
LEMMA HoldAttempts ==
  ASSUME TypeOK, AttemptInv, NEW r \in Requests, NEW where, NEW rows, Hold(r, where, rows),
         \A c \in rows : Sound(c[1], c[2]),
         UNCHANGED <<order, call, todo>>
  PROVE  AttemptInv'
<1>1. \A q \in Requests : request'[q].rows = IF q = r THEN rows ELSE request[q].rows
  BY DEF Hold, TypeOK, RequestsTypeOK
<1>2. \A q \in Requests : \A c \in request'[q].rows : Sound(c[1], c[2])'
  BY <1>1 DEF AttemptInv, Sound
<1>3. OneOpenAttempt' /\ \A c \in todo' : Sound(c.order, c.attempt)'
  BY DEF AttemptInv, OneOpenAttempt, Sound
<1>4. QED BY <1>2, <1>3 DEF AttemptInv

LEMMA QueueableIsSound ==
  ASSUME TypeOK, AttemptInv, NEW o \in Orders, NEW n \in Attempts, Queueable(o, n)
  PROVE  Sound(o, n)
BY NextIsSound DEF Queueable, TypeOK, AttemptInv

LEMMA QueueReadAttempts ==
  ASSUME TypeOK, AttemptInv, NEW r \in Requests, NEW o \in Orders, QueueRead(r, o)
  PROVE  AttemptInv'
<1>1. PICK n \in Attempts : Queueable(o, n) /\ Hold(r, "insert", {<<o, n>>})
  BY DEF QueueRead
<1>2. Sound(o, n)
  BY <1>1, QueueableIsSound
<1>3. QED BY <1>1, <1>2, HoldAttempts DEF QueueRead, tableVars, pollVars

LEMMA QueueAllReadAttempts ==
  ASSUME TypeOK, AttemptInv, NEW r \in Requests, NEW s \in Shops, QueueAllRead(r, s)
  PROVE  AttemptInv'
<1> DEFINE rows == {c \in Orders \X Attempts : ShopOf[c[1]] = s /\ Queueable(c[1], c[2])}
<1>1. Hold(r, "insert", rows) /\ UNCHANGED <<order, call, todo>>
  BY DEF QueueAllRead, tableVars, pollVars
<1>2. \A c \in rows : Sound(c[1], c[2])
  BY QueueableIsSound
<1> HIDE DEF rows
<1>3. QED BY <1>1, <1>2, HoldAttempts

(* A reviewed order has no pending call, so its latest attempt is closed too. *)
LEMMA RetryReadAttempts ==
  ASSUME TypeOK, AttemptInv, NEW r \in Requests, NEW o \in Orders, RetryRead(r, o)
  PROVE  AttemptInv'
<1>1. PICK n \in Attempts : Reviewable(o, n) /\ Hold(r, "reopen", {<<o, n + 1>>})
  BY DEF RetryRead
<1>2. Exists(call[o][n]) /\ ~HasPending(call[o]) /\ order[o] = "unreachable"
  BY <1>1 DEF Reviewable, IsLatest, Made
<1>3. Closed(call[o][n])
  BY <1>2 DEF HasPending, Closed, Exists, TypeOK, TablesTypeOK
<1>4. \A m \in Attempts : m < n + 1 => m = n \/ m < n
  BY TablesAssumption DEF Attempts
<1>5. \A m \in Attempts : m < n + 1 => Closed(call[o][m])
  BY <1>2, <1>3, <1>4 DEF AttemptInv, OneOpenAttempt
<1>6. Sound(o, n + 1)
  BY <1>2, <1>5 DEF Sound
<1>7. QED BY <1>1, <1>6, HoldAttempts DEF RetryRead, tableVars, pollVars

LEMMA ReleaseKept ==
  ASSUME TypeOK, NEW r \in Requests, Release(r), UNCHANGED todo
  PROVE  PlansKept
BY DEF TypeOK, RequestsTypeOK, Release, Resting, PlansKept

LEMMA HeldRows ==
  ASSUME TypeOK, AttemptInv, NEW r \in Requests
  PROVE  /\ request[r].rows \in SUBSET (Orders \X Attempts)
         /\ \A c \in request[r].rows : Sound(c[1], c[2])
BY DEF TypeOK, RequestsTypeOK, AttemptInv

LEMMA QueueInsertAttempts ==
  ASSUME TypeOK, AttemptInv, NEW r \in Requests, QueueInsert(r)
  PROVE  AttemptInv'
<1>1. PlansKept
  BY ReleaseKept DEF QueueInsert, pollVars
<1>2. CASE \A c \in request[r].rows : OrderExists(c[1])
  <2>1. InsertRows(request[r].rows)
    BY <1>2 DEF QueueInsert
  <2>2. /\ OneOpenAttempt'
        /\ \A o \in Orders, n \in Attempts : Closed(call[o][n]) => Closed(call'[o][n])
    BY <1>2, <2>1, HeldRows, InsertSound DEF TypeOK, AttemptInv
  <2>3. HistoryKept
    BY <2>2 DEF HistoryKept, QueueInsert
  <2>4. QED BY <1>1, <2>2, <2>3, InvStays DEF PlansKept
<1>3. CASE ~(\A c \in request[r].rows : OrderExists(c[1]))
  BY <1>1, <1>3, QuietStep DEF QueueInsert
<1>4. QED BY <1>2, <1>3

LEMMA RetryCommitAttempts ==
  ASSUME TypeOK, AttemptInv, NEW r \in Requests, RetryCommit(r)
  PROVE  AttemptInv'
<1> DEFINE rows == request[r].rows
           commits == \A c \in rows : order[c[1]] = "unreachable" /\ ~Exists(call[c[1]][c[2]])
<1>1. PlansKept
  BY ReleaseKept DEF RetryCommit, pollVars
<1>2. CASE commits
  <2>1. /\ InsertRows(rows)
        /\ order' = [o \in Orders |->
             IF \E c \in rows : c[1] = o THEN "pending" ELSE order[o]]
    BY <1>2 DEF RetryCommit
  <2>2. \A c \in rows : OrderExists(c[1])
    BY <1>2 DEF OrderExists
  <2>3. /\ OneOpenAttempt'
        /\ \A o \in Orders, n \in Attempts : Closed(call[o][n]) => Closed(call'[o][n])
    BY <2>1, <2>2, HeldRows, InsertSound DEF TypeOK, AttemptInv
  <2>4. \A o \in Orders : /\ order'[o] \notin {"absent", "deleted"} => order[o] # "deleted"
                          /\ order[o] # "absent" => order'[o] # "absent"
    BY <1>2, <2>1
  <2>5. HistoryKept
    BY <1>2, <2>1, <2>3, <2>4 DEF HistoryKept
  <2>6. QED BY <1>1, <2>3, <2>5, InvStays DEF PlansKept
<1>3. CASE ~commits
  BY <1>1, <1>3, QuietStep DEF RetryCommit
<1>4. QED BY <1>2, <1>3

LEMMA PlaceOrderAttempts ==
  ASSUME TypeOK, AttemptInv, NEW o \in Orders, PlaceOrder(o)
  PROVE  AttemptInv'
<1>1. RowsKept /\ PlansKept
  BY SameCallKept, WakeKept DEF PlaceOrder
<1>2. OrdersKept
  BY DEF PlaceOrder, OrdersKept, TypeOK, TablesTypeOK
<1>3. QED BY <1>1, <1>2, RowsStep

LEMMA EditOrderAttempts ==
  ASSUME TypeOK, AttemptInv, NEW o \in Orders, NEW s \in OrderEdits, EditOrder(o, s)
  PROVE  AttemptInv'
<1>1. RowsKept /\ PlansKept
  BY SameCallKept, SamePlansKept DEF EditOrder, pollVars
<1>2. s \notin {"absent", "deleted"}
  BY RequestsAssumption DEF OrderStatus
<1>3. OrdersKept
  BY <1>2 DEF EditOrder, OrderExists, OrdersKept, TypeOK, TablesTypeOK
<1>4. QED BY <1>1, <1>3, RowsStep

(* The calls of a deleted order are gone, and its attempts can not be inserted. *)
LEMMA DeleteOrderAttempts ==
  ASSUME TypeOK, AttemptInv, NEW o \in Orders, DeleteOrder(o)
  PROVE  AttemptInv'
<1>1. PlansKept
  BY SamePlansKept DEF DeleteOrder, pollVars
<1>2. /\ order' = [order EXCEPT ![o] = "deleted"]
      /\ call' = [call EXCEPT ![o] = [n \in Attempts |-> NoRow]]
      /\ OrderExists(o)
  BY DEF DeleteOrder
<1>3. HistoryKept
  BY <1>2 DEF HistoryKept, OrderExists, TypeOK, TablesTypeOK
<1>4. ASSUME NEW p \in Orders, NEW n \in Attempts, Exists(call'[p][n]),
             NEW m \in Attempts, m < n
      PROVE  Closed(call'[p][m])
  <2>1. p # o
    BY <1>2, <1>4 DEF Exists, NoRow, TypeOK, TablesTypeOK
  <2>2. call'[p] = call[p]
    BY <1>2, <2>1 DEF TypeOK, TablesTypeOK
  <2>3. QED BY <1>4, <2>2 DEF AttemptInv, OneOpenAttempt
<1>5. OneOpenAttempt'
  BY <1>4 DEF OneOpenAttempt
<1>6. QED BY <1>1, <1>3, <1>5, InvStays DEF PlansKept

(* The one use of the assumption: a closed call is not set back to pending. *)
LEMMA EditCallAttempts ==
  ASSUME TypeOK, AttemptInv, "pending" \notin CallEdits,
         NEW o \in Orders, NEW n \in Attempts, NEW s \in CallEdits, EditCall(o, n, s)
  PROVE  AttemptInv'
<1> DEFINE row == [call[o][n] EXCEPT !.status = s]
<1>1. OrdersKept /\ PlansKept
  BY SameOrderKept, SamePlansKept DEF EditCall, pollVars
<1>2. call[o][n] \in Row
  BY DEF TypeOK, TablesTypeOK
<1>3. row.status = s /\ s \notin {"none", "pending"}
  BY <1>2, RequestsAssumption DEF Row, CallStatus
<1>4. SetRow(o, n, row) /\ Exists(call[o][n])
  BY DEF EditCall, SetRow
<1> HIDE DEF row
<1>5. RowsKept
  BY <1>3, <1>4, SetRowKept DEF Closed, TypeOK
<1>6. QED BY <1>1, <1>5, RowsStep

LEMMA RequestStepAttempts ==
  ASSUME TypeOK, AttemptInv, "pending" \notin CallEdits, RequestStep
  PROVE  AttemptInv'
<1>1. ASSUME NEW r \in Requests, NEW o \in Orders, NEW n \in Attempts, DispatchRequest(r, o, n)
      PROVE  AttemptInv'
  BY <1>1, SamePlansKept, QuietStep DEF DispatchRequest, Enter, tableVars, pollVars
<1>2. ASSUME NEW s \in Shops, HoursPass(s) PROVE AttemptInv'
  BY <1>2, SamePlansKept, QuietStep DEF HoursPass, MoveWindow, pollVars
<1>3. QED
  BY <1>1, <1>2, QueueReadAttempts, QueueAllReadAttempts, RetryReadAttempts,
     QueueInsertAttempts, RetryCommitAttempts, PlaceOrderAttempts, DeleteOrderAttempts,
     EditOrderAttempts, EditCallAttempts DEF RequestStep

-----------------------------------------------------------------------------
LEMMA TickAttempts ==
  ASSUME TypeOK, AttemptInv, Tick
  PROVE  AttemptInv'
<1>1. \A o \in Orders, n \in Attempts : call'[o][n].status = call[o][n].status
  <2>1. \A o \in Orders, n \in Attempts : call[o][n] \in Row
    BY DEF TypeOK, TablesTypeOK
  <2>2. QED BY <2>1 DEF Tick, AgeRows, Row
<1>2. RowsKept
  BY <1>1 DEF RowsKept, Exists, Closed
<1>3. QED BY <1>2, SameOrderKept, SamePlansKept, RowsStep DEF Tick

LEMMA RestartAttempts ==
  ASSUME TypeOK, AttemptInv, Restart
  PROVE  AttemptInv'
BY QuietStep DEF Restart, PlansKept, Resting, tableVars

LEMMA InitAttempts == Init => AttemptInv
<1> SUFFICES ASSUME Init PROVE AttemptInv
  OBVIOUS
<1>1. \A o \in Orders, n \in Attempts : ~Exists(call[o][n])
  BY DEF Init, TablesInit, Exists, NoRow
<1>2. todo = {} /\ \A r \in Requests : request[r].rows = {}
  BY DEF Init, OrchestratorInit, RequestsInit, Resting
<1>3. QED BY <1>1, <1>2 DEF AttemptInv, OneOpenAttempt

LEMMA NextAttempts ==
  ASSUME Inv, AttemptInv, "pending" \notin CallEdits, [Next]_vars
  PROVE  AttemptInv'
<1> USE DEF Inv
<1>1. CASE UNCHANGED vars
  BY <1>1, SamePlansKept, QuietStep DEF vars, tableVars, pollVars
<1>2. CASE Next
  BY <1>2, DispatchStepAttempts, PollStepAttempts, WorkerStepAttempts, CallbackStepAttempts,
     RequestStepAttempts, TickAttempts, RestartAttempts DEF Next
<1>3. QED BY <1>1, <1>2

(***************************************************************************)
(* An order never has two open attempts and its attempts have no gap, for   *)
(* any number of orders, shops and concurrent requests: the poll, the two   *)
(* queue requests and the manual retry insert what they chose on an earlier *)
(* read.  Only PATCH /calls/:id with status pending could break it.         *)
(***************************************************************************)
THEOREM OneOpenAttemptHolds ==
  ASSUME "pending" \notin CallEdits
  PROVE  Spec => []OneOpenAttempt
<1>1. Init => AttemptInv
  BY InitAttempts
<1>2. Inv /\ AttemptInv /\ [Next]_vars => AttemptInv'
  BY NextAttempts
<1>3. AttemptInv => OneOpenAttempt
  BY DEF AttemptInv
<1>4. QED BY <1>1, <1>2, <1>3, InvHolds, PTL DEF Spec

-----------------------------------------------------------------------------
(***************************************************************************)
(* What the poll alone does to an order, for any number of orders, shops,   *)
(* attempts and restarts, while no request of a shop dispatches a call.     *)
(*                                                                          *)
(* A call is phoned once: the poll only dispatches a call without a task,   *)
(* and between the fork and the write of the row the poll itself is busy.   *)
(* What may be lost there, the trace of a task in the row, is lost by a     *)
(* restart, and each restart loses at most one.                             *)
(*                                                                          *)
(* A call that has ended is not written again, because what startTask will  *)
(* answer belongs to a call that still waits; and a next attempt is due     *)
(* when it is inserted, because its predecessor ended before it was chosen. *)
(***************************************************************************)
HIDE DEF MAX_ATTEMPTS, NoTime, NoAttempt, NoConfidence, NoOrder, maxConcurrency

(* The task was issued and its trace is not in the row yet. *)
Unrecorded(o, n) == disp[Poller].pc \in {"accepted", "rejected"} /\ disp[Poller].call = <<o, n>>

Alive(o) == order[o] # "deleted"

(* The poll and its dispatch *)
OnlyThePoll ==
  /\ \A r \in Requests : disp[r].pc = "idle"
  /\ disp[Poller].pc # "idle" => poll = "dispatching"
  /\ \A c \in todo : poll # "dispatching" => call[c.order][c.attempt].task = 0
  /\ disp[Poller].pc \notin {"idle", "reading"} /\ Alive(disp[Poller].call[1]) =>
       Exists(call[disp[Poller].call[1]][disp[Poller].call[2]])
  /\ disp[Poller].pc = "reading" => call[disp[Poller].call[1]][disp[Poller].call[2]].task = 0

RowsInv ==
  \A o \in Orders, n \in Attempts :
    /\ ~Exists(call[o][n]) => call[o][n].task = 0
    /\ Exists(call[o][n]) => Alive(o)

IssuedInv ==
  /\ PhonedOncePerAttempt
  /\ \A o \in Orders, n \in Attempts :
       Alive(o) /\ call[o][n].task = 0 /\ ~Unrecorded(o, n) => issued[o][n] <= crashes
  /\ disp[Poller].pc = "starting" =>
       issued[disp[Poller].call[1]][disp[Poller].call[2]] <= crashes

CountInv == OnlyThePoll /\ RowsInv /\ IssuedInv

(* What every step but the write of a task does to a row. *)
TasksKept ==
  \A o \in Orders, n \in Attempts :
    \/ ~Alive(o)' /\ call'[o][n] = NoRow
    \/ /\ Alive(o)' <=> Alive(o)
       /\ call'[o][n].task = call[o][n].task
       /\ Exists(call[o][n]) => Exists(call'[o][n])
       /\ Exists(call'[o][n]) => Exists(call[o][n]) \/ Alive(o)'

LEMMA TasksKeptRows ==
  ASSUME RowsInv, TasksKept
  PROVE  RowsInv'
BY DEF RowsInv, TasksKept, NoRow, Exists

LEMMA TasksKeptIssued ==
  ASSUME IssuedInv, TasksKept, UNCHANGED <<disp, issued, crashes>>
  PROVE  IssuedInv'
<1>1. PhonedOncePerAttempt'
  BY DEF IssuedInv, PhonedOncePerAttempt
<1>2. \A o \in Orders, n \in Attempts : Unrecorded(o, n)' <=> Unrecorded(o, n)
  BY DEF Unrecorded
<1>3. ASSUME NEW o \in Orders, NEW n \in Attempts,
             Alive(o)', call'[o][n].task = 0, ~Unrecorded(o, n)'
      PROVE  issued'[o][n] <= crashes'
  <2>1. Alive(o) /\ call[o][n].task = 0
    BY <1>3 DEF TasksKept
  <2> QED BY <1>2, <1>3, <2>1 DEF IssuedInv
<1> QED BY <1>1, <1>3 DEF IssuedInv

(* A step that leaves the dispatcher alone, and of the poll at most takes orders off its list. *)
LEMMA PollKept ==
  ASSUME OnlyThePoll, TasksKept, DispatcherTypeOK, OrchestratorTypeOK, UNCHANGED disp,
         todo' \subseteq todo,
         poll = "dispatching" => poll' = "dispatching" \/ (todo' = {} /\ disp[Poller].pc = "idle")
  PROVE  OnlyThePoll'
<1>1. \A c \in todo : call[c.order][c.attempt].task = 0 => call'[c.order][c.attempt].task = 0
  BY TodoIsCall DEF TasksKept, NoRow
<1>2. disp[Poller].pc # "idle" =>
        disp[Poller].call[1] \in Orders /\ disp[Poller].call[2] \in Attempts
  BY CallOfDispatch DEF Callers
<1>3. disp[Poller].pc = "reading" => call'[disp[Poller].call[1]][disp[Poller].call[2]].task = 0
  BY <1>2 DEF OnlyThePoll, TasksKept, NoRow
<1> QED BY <1>1, <1>2, <1>3 DEF OnlyThePoll, TasksKept

LEMMA KeptStep ==
  ASSUME TypeOK, CountInv, TasksKept, UNCHANGED <<disp, issued, crashes>>, todo' \subseteq todo,
         poll = "dispatching" => poll' = "dispatching" \/ (todo' = {} /\ disp[Poller].pc = "idle")
  PROVE  CountInv'
BY TasksKeptRows, TasksKeptIssued, PollKept DEF CountInv, TypeOK

-----------------------------------------------------------------------------
(* The writes *)
LEMMA SameRowsTasks ==
  ASSUME UNCHANGED <<order, call>>
  PROVE  TasksKept
BY DEF TasksKept, Alive

LEMMA SetRowTasks ==
  ASSUME TypeOK, NEW o \in Orders, NEW n \in Attempts, NEW row, SetRow(o, n, row),
         row.task = call[o][n].task, Exists(row), Exists(call[o][n]),
         \A p \in Orders : Alive(p)' <=> Alive(p)
  PROVE  TasksKept
<1>1. \A p \in Orders, m \in Attempts :
        call'[p][m] = IF p = o /\ m = n THEN row ELSE call[p][m]
  BY DEF SetRow, TypeOK, TablesTypeOK
<1> QED BY <1>1 DEF TasksKept

LEMMA InsertTasks ==
  ASSUME TypeOK, RowsInv, NEW rows \in SUBSET (Orders \X Attempts), InsertRows(rows),
         \A c \in rows : OrderExists(c[1]),
         \A p \in Orders : Alive(p)' <=> Alive(p)
  PROVE  TasksKept
<1>1. \A o \in Orders, n \in Attempts :
        call'[o][n] = IF <<o, n>> \in rows /\ ~Exists(call[o][n]) THEN NewRow ELSE call[o][n]
  BY DEF InsertRows
<1>2. NewRow.task = 0 /\ Exists(NewRow)
  BY DEF NewRow, NoRow, Exists
<1>3. \A o \in Orders, n \in Attempts : <<o, n>> \in rows => Alive(o)
  BY DEF OrderExists, Alive
<1>4. ASSUME NEW o \in Orders, NEW n \in Attempts
      PROVE  /\ call'[o][n].task = call[o][n].task
             /\ Exists(call[o][n]) => Exists(call'[o][n])
             /\ Exists(call'[o][n]) => Exists(call[o][n]) \/ Alive(o)'
  <2>1. CASE <<o, n>> \in rows /\ ~Exists(call[o][n])
    <3>1. call'[o][n] = NewRow /\ call[o][n].task = 0
      BY <1>1, <2>1 DEF RowsInv
    <3> QED BY <1>2, <1>3, <2>1, <3>1
  <2>2. CASE ~(<<o, n>> \in rows /\ ~Exists(call[o][n]))
    <3>1. call'[o][n] = call[o][n]
      BY <1>1, <2>2
    <3> QED BY <3>1
  <2> QED BY <2>1, <2>2
<1> QED BY <1>4 DEF TasksKept

LEMMA MoveAlive ==
  ASSUME TypeOK, NEW o \in Orders, NEW s \in OrderStatus, MovePendingOrder(o, s)
  PROVE  \A p \in Orders : Alive(p)' <=> Alive(p)
BY DEF TypeOK, TablesTypeOK, MovePendingOrder, Alive, OrderStatus

LEMMA SameAlive ==
  ASSUME UNCHANGED order
  PROVE  \A p \in Orders : Alive(p)' <=> Alive(p)
BY DEF Alive

-----------------------------------------------------------------------------
(* The dispatcher *)
LEMMA OnlyThePollDispatches ==
  ASSUME CountInv, NEW c \in Callers, disp[c].pc # "idle"
  PROVE  c = Poller
BY DEF CountInv, OnlyThePoll, Callers

(* The poll calls dispatchCall for a call without a task. *)
LEMMA EnterCount ==
  ASSUME TypeOK, CountInv, NEW c \in todo, DispatchCurrent(c), UNCHANGED crashes
  PROVE  CountInv'
<1>1. /\ poll = "dispatch" /\ poll' = "dispatching"
      /\ disp' = [disp EXCEPT ![Poller] = [pc |-> "reading", call |-> <<c.order, c.attempt>>, task |-> 0]]
      /\ UNCHANGED <<order, call, issued, todo>>
  BY DEF DispatchCurrent, Enter, tableVars
<1>2. call[c.order][c.attempt].task = 0 /\ disp[Poller].pc = "idle"
  BY <1>1 DEF CountInv, OnlyThePoll
<1>3. /\ disp'[Poller].pc = "reading" /\ disp'[Poller].call = <<c.order, c.attempt>>
      /\ \A r \in Requests : disp'[r] = disp[r]
  BY <1>1, DispatcherAssumption DEF TypeOK, DispatcherTypeOK, Callers
<1>4. OnlyThePoll'
  BY <1>1, <1>2, <1>3 DEF CountInv, OnlyThePoll
<1>5. RowsInv'
  BY <1>1 DEF CountInv, RowsInv, Alive
<1>6. \A p \in Orders, m \in Attempts : ~Unrecorded(p, m)
  BY <1>2 DEF Unrecorded
<1>7. IssuedInv'
  BY <1>1, <1>3, <1>6 DEF CountInv, IssuedInv, PhonedOncePerAttempt, Alive
<1> QED BY <1>4, <1>5, <1>7 DEF CountInv

(* The call that was read is there and pending, and still without a task. *)
LEMMA CheckCount ==
  ASSUME TypeOK, CountInv, Check(Poller), UNCHANGED <<pollVars, crashes>>
  PROVE  CountInv'
<1> DEFINE o == disp[Poller].call[1]
           n == disp[Poller].call[2]
<1>1. /\ disp[Poller].pc = "reading" /\ call[o][n].status = "pending" /\ call[o][n].task = 0
      /\ UNCHANGED <<order, call, issued>>
  BY DEF CountInv, OnlyThePoll, Check, MayStart, Dispatchable, tableVars
<1>2. o \in Orders /\ n \in Attempts /\ disp[Poller].call = <<o, n>>
  BY <1>1, CallOfDispatch DEF TypeOK, Callers
<1>3. /\ disp'[Poller].pc = "starting" /\ disp'[Poller].call = <<o, n>>
      /\ \A r \in Requests : disp'[r] = disp[r]
  BY <1>2, DispatcherAssumption DEF Check, TypeOK, DispatcherTypeOK, Callers
<1> HIDE DEF o, n
<1>4. Exists(call[o][n]) /\ Alive(o)
  BY <1>1, <1>2 DEF CountInv, RowsInv, Exists
<1>5. \A p \in Orders, m \in Attempts : ~Unrecorded(p, m) /\ ~Unrecorded(p, m)'
  BY <1>1, <1>3 DEF Unrecorded
<1>6. issued[o][n] <= crashes
  BY <1>1, <1>2, <1>4, <1>5 DEF CountInv, IssuedInv
<1>7. OnlyThePoll'
  BY <1>1, <1>2, <1>3, <1>4 DEF CountInv, OnlyThePoll, pollVars
<1>8. RowsInv'
  BY <1>1 DEF CountInv, RowsInv, Alive
<1>9. IssuedInv'
  BY <1>1, <1>2, <1>3, <1>5, <1>6 DEF CountInv, IssuedInv, PhonedOncePerAttempt, Alive
<1> QED BY <1>7, <1>8, <1>9 DEF CountInv

(* A task number is issued for a call that has none but those that restarts lost. *)
LEMMA IssueCount ==
  ASSUME TypeOK, CountInv, NEW outcome \in {"accepted", "rejected"}, IssueTask(Poller, outcome),
         UNCHANGED <<order, call, pollVars, crashes>>
  PROVE  CountInv'
<1> DEFINE o == disp[Poller].call[1]
           n == disp[Poller].call[2]
<1>1. disp[Poller].pc = "starting"
  BY DEF IssueTask
<1>2. o \in Orders /\ n \in Attempts /\ disp[Poller].call = <<o, n>>
  BY <1>1, CallOfDispatch DEF TypeOK, Callers
<1>3. /\ disp' = [disp EXCEPT ![Poller] = [pc |-> outcome, call |-> @.call, task |-> NextTask(Poller)]]
      /\ issued' = [issued EXCEPT ![o][n] = @ + 1]
  BY DEF IssueTask
<1>4. issued[o][n] <= crashes
  BY <1>1 DEF CountInv, IssuedInv
<1> HIDE DEF o, n
<1>5. /\ disp'[Poller].pc = outcome /\ disp'[Poller].call = <<o, n>>
      /\ \A r \in Requests : disp'[r] = disp[r]
  BY <1>2, <1>3, DispatcherAssumption DEF TypeOK, DispatcherTypeOK, Callers
<1>6. \A p \in Orders, m \in Attempts :
        /\ issued[p][m] \in Nat
        /\ issued'[p][m] = IF p = o /\ m = n THEN issued[p][m] + 1 ELSE issued[p][m]
  BY <1>2, <1>3 DEF TypeOK, DispatcherTypeOK
<1>7. OnlyThePoll'
  BY <1>1, <1>2, <1>5 DEF CountInv, OnlyThePoll, pollVars, Alive
<1>8. RowsInv'
  BY DEF CountInv, RowsInv, Alive
<1>9. crashes \in Nat
  BY SystemAssumption DEF TypeOK
<1>10. PhonedOncePerAttempt'
  BY <1>4, <1>6, <1>9 DEF CountInv, IssuedInv, PhonedOncePerAttempt
<1>11. ASSUME NEW p \in Orders, NEW m \in Attempts,
              Alive(p)', call'[p][m].task = 0, ~Unrecorded(p, m)'
       PROVE  issued'[p][m] <= crashes'
  <2>1. ~(p = o /\ m = n)
    BY <1>5, <1>11 DEF Unrecorded
  <2>2. ~Unrecorded(p, m)
    BY <1>1 DEF Unrecorded
  <2> QED BY <1>6, <1>11, <2>1, <2>2 DEF CountInv, IssuedInv, Alive
<1>12. disp'[Poller].pc # "starting"
  BY <1>5
<1> QED BY <1>7, <1>8, <1>10, <1>11, <1>12 DEF CountInv, IssuedInv

LEMMA LeaveFacts ==
  ASSUME TypeOK, CountInv, Leave(Poller), EndPoll
  PROVE  /\ disp'[Poller].pc = "idle" /\ todo' = {} /\ issued' = issued
         /\ \A r \in Requests : disp'[r].pc = "idle"
BY DispatcherAssumption
   DEF TypeOK, DispatcherTypeOK, Callers, Leave, EndPoll, NotDispatching, CountInv, OnlyThePoll

(* The call is refused, or no phone is free: nothing was issued. *)
LEMMA DeferCount ==
  ASSUME TypeOK, CountInv, Refuse(Poller) \/ Defer(Poller), EndPoll, UNCHANGED crashes
  PROVE  CountInv'
<1>1. disp[Poller].pc \in {"reading", "starting"} /\ UNCHANGED <<order, call>>
  BY DEF Refuse, Defer, tableVars
<1>2. /\ disp'[Poller].pc = "idle" /\ todo' = {} /\ issued' = issued
      /\ \A r \in Requests : disp'[r].pc = "idle"
  BY LeaveFacts DEF Refuse, Defer
<1>3. OnlyThePoll'
  BY <1>2 DEF OnlyThePoll
<1>4. RowsInv'
  BY <1>1 DEF CountInv, RowsInv, Alive
<1>5. \A p \in Orders, m \in Attempts : ~Unrecorded(p, m)
  BY <1>1 DEF Unrecorded
<1>6. IssuedInv'
  BY <1>1, <1>2, <1>5 DEF CountInv, IssuedInv, PhonedOncePerAttempt, Alive
<1> QED BY <1>3, <1>4, <1>6 DEF CountInv

(* The row of the call gets the task, or the call is gone with its order. *)
LEMMA RecordCount ==
  ASSUME TypeOK, CountInv, Record(Poller), EndPoll, UNCHANGED crashes
  PROVE  CountInv'
<1> DEFINE o == disp[Poller].call[1]
           n == disp[Poller].call[2]
           row == IF disp[Poller].pc = "accepted"
                    THEN AcceptedRow(call[o][n], disp[Poller].task)
                    ELSE RejectedRow(call[o][n], disp[Poller].task)
<1>1. disp[Poller].pc \in {"accepted", "rejected"} /\ UNCHANGED order
  BY DEF Record
<1>2. o \in Orders /\ n \in Attempts /\ disp[Poller].call = <<o, n>>
  BY <1>1, CallOfDispatch DEF TypeOK, Callers
<1>3. /\ disp'[Poller].pc = "idle" /\ todo' = {} /\ issued' = issued
      /\ \A r \in Requests : disp'[r].pc = "idle"
  BY LeaveFacts DEF Record
<1>4. call[o][n] \in Row /\ disp[Poller].task # 0
  BY <1>1, <1>2 DEF TypeOK, TablesTypeOK, DispatcherTypeOK, Callers, NotDispatching
<1>5. row.task # 0 /\ (Exists(call[o][n]) => Exists(row))
  BY <1>4 DEF AcceptedRow, RejectedRow, Row, Exists
<1>6. IF Exists(call[o][n]) THEN SetRow(o, n, row) ELSE UNCHANGED call
  BY DEF Record
<1> HIDE DEF row, o, n
<1>7. \A p \in Orders, m \in Attempts :
        call'[p][m] = IF p = o /\ m = n /\ Exists(call[o][n]) THEN row ELSE call[p][m]
  BY <1>2, <1>6 DEF SetRow, TypeOK, TablesTypeOK
<1>8. OnlyThePoll'
  BY <1>3 DEF OnlyThePoll
<1>9. RowsInv'
  BY <1>1, <1>5, <1>7 DEF CountInv, RowsInv, Alive
<1>10. Alive(o) => Exists(call[o][n])
  BY <1>1, <1>2 DEF CountInv, OnlyThePoll, o, n
<1>11. ASSUME NEW p \in Orders, NEW m \in Attempts, Alive(p)', call'[p][m].task = 0
       PROVE  issued'[p][m] <= crashes'
  <2>1. ~(p = o /\ m = n)
    BY <1>1, <1>5, <1>7, <1>10, <1>11 DEF Alive
  <2>2. ~Unrecorded(p, m)
    BY <1>2, <2>1 DEF Unrecorded
  <2> QED BY <1>1, <1>3, <1>7, <1>11, <2>1, <2>2 DEF CountInv, IssuedInv, Alive
<1>12. PhonedOncePerAttempt'
  BY <1>3 DEF CountInv, IssuedInv, PhonedOncePerAttempt
<1>13. IssuedInv'
  BY <1>3, <1>11, <1>12 DEF IssuedInv
<1> QED BY <1>8, <1>9, <1>13 DEF CountInv

LEMMA DispatchStepCount ==
  ASSUME TypeOK, CountInv, NEW c \in Callers, Framed(DispatchStep(c))
  PROVE  CountInv'
<1>1. DispatchStep(c) /\ UNCHANGED <<request, crashes>>
  BY DEF Framed
<1>2. disp[c].pc # "idle"
  BY <1>1 DEF DispatchStep, Check, Refuse, Launch, Reject, Defer, Record, IssueTask
<1>3. c = Poller
  BY <1>2, OnlyThePollDispatches
<1>4. CASE (Launch(c) \/ Reject(c)) /\ UNCHANGED pollVars
  BY <1>1, <1>3, <1>4, IssueCount DEF Launch, Reject, tableVars
<1>5. CASE (Refuse(c) \/ Defer(c)) /\ Returning(c)
  BY <1>1, <1>3, <1>5, DeferCount DEF Returning
<1>6. CASE Record(c) /\ Returning(c)
  BY <1>1, <1>3, <1>6, RecordCount DEF Returning
<1>7. CASE Check(c) /\ UNCHANGED pollVars
  BY <1>1, <1>3, <1>7, CheckCount
<1> QED BY <1>1, <1>4, <1>5, <1>6, <1>7 DEF DispatchStep

(* A step that changes neither orders nor calls, and adds nothing to the list of the poll. *)
LEMMA QuietCount ==
  ASSUME TypeOK, CountInv, UNCHANGED <<order, call, dispatcherVars, crashes>>, todo' \subseteq todo,
         poll = "dispatching" => poll' = "dispatching"
  PROVE  CountInv'
BY SameRowsTasks, KeptStep DEF dispatcherVars

LEMMA WakeCount ==
  ASSUME Wake
  PROVE  todo' \subseteq todo /\ (poll = "dispatching" => poll' = "dispatching")
BY DEF Wake

-----------------------------------------------------------------------------
(* The poll *)
LEMMA ExpireCallCount ==
  ASSUME TypeOK, CountInv, NEW c \in stale, ExpireCall(c), UNCHANGED crashes
  PROVE  CountInv'
<1>1. c[1] \in Orders /\ c[2] \in Attempts
  BY StaleIsCall DEF TypeOK
<1>2. UNCHANGED <<order, todo, poll, dispatcherVars>>
  BY DEF ExpireCall
<1>3. CASE StillPending(c[1], c[2])
  <2> DEFINE row == ExpiredRow(call[c[1]][c[2]])
  <2>1. SetRow(c[1], c[2], row)
    BY <1>3 DEF ExpireCall
  <2>2. call[c[1]][c[2]] \in Row
    BY <1>1 DEF TypeOK, TablesTypeOK
  <2>3. row.task = call[c[1]][c[2]].task /\ Exists(row) /\ Exists(call[c[1]][c[2]])
    BY <1>3, <2>2 DEF ExpiredRow, Row, Exists, StillPending
  <2> HIDE DEF row
  <2>4. TasksKept
    BY <1>1, <1>2, <2>1, <2>3, SameAlive, SetRowTasks
  <2> QED BY <1>2, <2>4, KeptStep DEF dispatcherVars
<1>4. CASE ~StillPending(c[1], c[2])
  BY <1>2, <1>4, QuietCount DEF ExpireCall
<1> QED BY <1>3, <1>4

LEMMA GiveUpOrderCount ==
  ASSUME TypeOK, CountInv, GiveUpOrder, UNCHANGED crashes
  PROVE  CountInv'
<1>1. giveUp \in Orders /\ MovePendingOrder(giveUp, "unreachable")
  BY DEF GiveUpOrder, TypeOK, OrchestratorTypeOK
<1>2. \A p \in Orders : Alive(p)' <=> Alive(p)
  BY <1>1, MoveAlive DEF OrderStatus
<1>3. TasksKept
  BY <1>2 DEF GiveUpOrder, TasksKept
<1> QED BY <1>3, KeptStep DEF GiveUpOrder, dispatcherVars

(* Every candidate is a queued call without a task, or a call that is not there. *)
LEMMA ReadBatchCount ==
  ASSUME TypeOK, CountInv, ReadBatch, UNCHANGED crashes
  PROVE  CountInv'
<1>1. UNCHANGED <<order, call, dispatcherVars>> /\ todo' = Candidates /\ poll = "expire"
  BY DEF ReadBatch, tableVars
<1>2. ASSUME NEW c \in Candidates PROVE call[c.order][c.attempt].task = 0
  <2> DEFINE o == c.order
             n == c.attempt
  <2>1. o \in Orders /\ n \in Attempts
    BY DEF Candidates, Candidate
  <2>2. CASE HasPending(call[o])
    BY <2>2 DEF Candidates, QueuedCall
  <2>3. CASE ~HasPending(call[o])
    <3> DEFINE made == Cardinality(Made(call[o]))
    <3>1. n = NextAttemptNumber(call[o], lag)
      BY <2>3 DEF Candidates
    <3>2. n # NoAttempt /\ DOMAIN call[o] = Attempts
      BY <2>1, TablesAssumption DEF Attempts, NoAttempt, TypeOK, TablesTypeOK
    <3> HIDE DEF o, n
    <3>3. ~Exists(call[o][n])
      <4>1. CASE Made(call[o]) = {}
        BY <2>1, <3>2, <4>1 DEF Made
      <4>2. CASE Made(call[o]) # {}
        <5>1. n = made + 1 /\ RetryDue(call[o], made, lag)
          BY <3>1, <3>2, <4>2, Zenon DEF NextAttemptNumber
        <5>2. made \in Made(call[o]) /\ \A m \in Made(call[o]) : m <= made
          BY <5>1 DEF RetryDue, IsLatest
        <5>3. made \in Int /\ n > made
          BY <3>2, <5>1, <5>2, TablesAssumption DEF Made, Attempts
        <5> QED BY <2>1, <3>2, <5>2, <5>3, TablesAssumption DEF Made, Attempts
      <4> QED BY <4>1, <4>2
    <3>4. call[o][n].task = 0
      BY <2>1, <3>3 DEF CountInv, RowsInv
    <3> QED BY <3>4 DEF o, n
  <2> QED BY <2>2, <2>3
<1>3. OnlyThePoll'
  BY <1>1, <1>2 DEF CountInv, OnlyThePoll, dispatcherVars, Alive
<1>4. TasksKept
  BY <1>1, SameRowsTasks
<1> QED BY <1>1, <1>3, <1>4, TasksKeptRows, TasksKeptIssued DEF CountInv, dispatcherVars

LEMMA CreateCallCount ==
  ASSUME TypeOK, CountInv, NEW c \in todo, CreateCall(c), UNCHANGED crashes
  PROVE  CountInv'
<1> DEFINE rows == {<<c.order, c.attempt>>}
<1>1. c.order \in Orders /\ c.attempt \in Attempts
  BY TodoIsCall DEF TypeOK
<1>2. rows \in SUBSET (Orders \X Attempts) /\ InsertRows(rows) /\ UNCHANGED <<order, dispatcherVars>>
  BY <1>1 DEF CreateCall
<1>3. \A d \in rows : OrderExists(d[1])
  BY DEF CreateCall
<1>4. todo' \subseteq todo /\ poll = "create"
  BY DEF CreateCall
<1> HIDE DEF rows
<1>5. TasksKept
  BY <1>2, <1>3, InsertTasks, SameAlive DEF CountInv
<1> QED BY <1>2, <1>4, <1>5, KeptStep DEF dispatcherVars

LEMMA PollStepCount ==
  ASSUME TypeOK, CountInv, Framed(PollStep)
  PROVE  CountInv'
<1>1. UNCHANGED crashes /\ PollStep
  BY DEF Framed
<1>2. CASE Timer
  BY <1>1, <1>2, WakeCount, QuietCount DEF Timer, tableVars
<1>3. CASE StartPoll
  BY <1>1, <1>3, QuietCount DEF StartPoll, tableVars
<1>4. CASE StopLooking
  BY <1>1, <1>4, QuietCount DEF StopLooking, EndPoll, tableVars
<1>5. CASE GiveUpOrder \/ ReadBatch \/ \E c \in stale : ExpireCall(c)
  BY <1>1, <1>5, GiveUpOrderCount, ReadBatchCount, ExpireCallCount
<1>6. ASSUME NEW c \in todo, CreateCall(c) \/ DispatchCurrent(c) PROVE CountInv'
  BY <1>1, <1>6, CreateCallCount, EnterCount
<1>7. ASSUME NEW c \in todo, HasCapacity(c) PROVE CountInv'
  BY <1>1, <1>7, QuietCount DEF HasCapacity, tableVars
<1>8. ASSUME NEW c \in todo, CreateFails(c) \/ DispatchRefused(c) PROVE CountInv'
  BY <1>1, <1>8, QuietCount DEF CreateFails, DispatchRefused, EndPoll, tableVars
<1> QED BY <1>1, <1>2, <1>3, <1>4, <1>5, <1>6, <1>7, <1>8 DEF PollStep

-----------------------------------------------------------------------------
(* The workers and their callbacks *)
LEMMA WorkerStepCount ==
  ASSUME TypeOK, CountInv, Framed(WorkerStep /\ UNCHANGED pollVars)
  PROVE  CountInv'
BY QuietCount DEF Framed, WorkerStep, tableVars, pollVars

LEMMA HandleEventCount ==
  ASSUME TypeOK, CountInv, NEW m \in events, HandleEvent(m), UNCHANGED <<pollVars, crashes>>
  PROVE  CountInv'
<1> DEFINE o == m[1][1]
           n == m[1][2]
<1>1. o \in Orders /\ n \in Attempts
  BY DEF TypeOK, VoiceTypeOK, Tasks
<1>2. UNCHANGED <<order, todo, poll, dispatcherVars>>
  BY DEF HandleEvent, pollVars
<1>3. CASE HasTask(m[1])
  <2> DEFINE row == [call[o][n] EXCEPT
                !.phase = m[2],
                !.completed = IF m[2] = "ended" /\ @ = NoTime THEN 0 ELSE @]
  <2>1. SetRow(o, n, row)
    BY <1>3 DEF HandleEvent
  <2>2. call[o][n] \in Row /\ Exists(call[o][n])
    BY <1>1, <1>3 DEF TypeOK, TablesTypeOK, HasTask
  <2>3. row.task = call[o][n].task /\ Exists(row)
    BY <2>2 DEF Row, Exists
  <2> HIDE DEF row
  <2>4. TasksKept
    BY <1>1, <1>2, <2>1, <2>2, <2>3, SameAlive, SetRowTasks
  <2> QED BY <1>2, <2>4, KeptStep DEF dispatcherVars
<1>4. CASE ~HasTask(m[1])
  BY <1>2, <1>4, QuietCount DEF HandleEvent
<1> QED BY <1>3, <1>4

LEMMA ApplyResultCount ==
  ASSUME TypeOK, CountInv, NEW m \in resolved, ApplyResult(m), Wake, UNCHANGED crashes
  PROVE  CountInv'
<1> DEFINE o == m[1][1]
           n == m[1][2]
           report == m[2]
           closed == ClosedRow(call[o][n], report, n)
<1>1. o \in Orders /\ n \in Attempts
  BY DEF TypeOK, VoiceTypeOK, Tasks
<1>2. UNCHANGED dispatcherVars /\ todo' \subseteq todo
        /\ (poll = "dispatching" => poll' = "dispatching")
  BY WakeCount DEF ApplyResult
<1>3. CASE ~StillPending(o, n)
  BY <1>2, <1>3, QuietCount DEF ApplyResult
<1>4. CASE StillPending(o, n)
  <2>1. \E row \in {closed, Blocked(closed)} : SetRow(o, n, row)
    BY <1>4 DEF ApplyResult
  <2>2. PICK row \in {closed, Blocked(closed)} : SetRow(o, n, row)
    BY <2>1
  <2>3. call[o][n] \in Row /\ Exists(call[o][n])
    BY <1>1, <1>4 DEF TypeOK, TablesTypeOK, StillPending, Exists
  <2>4. ResultStatus(report, n) # "none"
    BY DEF ResultStatus
  <2>5. row.task = call[o][n].task /\ Exists(row)
    BY <2>2, <2>3, <2>4 DEF ClosedRow, Blocked, Row, Exists
  <2>6. \/ MovePendingOrder(o, DecideOutcome(report)) /\ Decisive(report)
        \/ MovePendingOrder(o, "unreachable")
        \/ UNCHANGED order
    BY <1>4 DEF ApplyResult
  <2>7. \A p \in Orders : Alive(p)' <=> Alive(p)
    BY <1>1, <2>6, MoveAlive, SameAlive DEF Decisive, OrderStatus
  <2>8. TasksKept
    BY <1>1, <2>2, <2>3, <2>5, <2>7, SetRowTasks
  <2> QED BY <1>2, <2>8, KeptStep DEF dispatcherVars
<1> QED BY <1>3, <1>4

LEMMA CallbackStepCount ==
  ASSUME TypeOK, CountInv, Framed(CallbackStep)
  PROVE  CountInv'
<1>1. UNCHANGED crashes /\ CallbackStep
  BY DEF Framed
<1>2. ASSUME NEW m \in results, LookUpResult(m), UNCHANGED pollVars PROVE CountInv'
  BY <1>1, <1>2, QuietCount DEF LookUpResult, tableVars, pollVars
<1> QED BY <1>1, <1>2, HandleEventCount, ApplyResultCount DEF CallbackStep

-----------------------------------------------------------------------------
(* The requests of the shop, which do not dispatch *)
LEMMA InsertedCount ==
  ASSUME TypeOK, CountInv, NEW rows \in SUBSET (Orders \X Attempts), InsertRows(rows),
         \A c \in rows : OrderExists(c[1]),
         \A p \in Orders : Alive(p)' <=> Alive(p),
         UNCHANGED <<dispatcherVars, pollVars, crashes>>
  PROVE  CountInv'
<1>1. TasksKept
  BY InsertTasks DEF CountInv
<1> QED BY <1>1, KeptStep DEF dispatcherVars, pollVars

LEMMA RetryCommitCount ==
  ASSUME TypeOK, CountInv, NEW r \in Requests, RetryCommit(r), UNCHANGED crashes
  PROVE  CountInv'
<1> DEFINE rows == request[r].rows
           commits == \A c \in rows : order[c[1]] = "unreachable" /\ ~Exists(call[c[1]][c[2]])
<1>1. UNCHANGED <<dispatcherVars, pollVars>> /\ rows \in SUBSET (Orders \X Attempts)
  BY DEF RetryCommit, TypeOK, RequestsTypeOK
<1>2. CASE commits
  <2>1. /\ InsertRows(rows)
        /\ order' = [o \in Orders |->
             IF \E c \in rows : c[1] = o THEN "pending" ELSE order[o]]
    BY <1>2 DEF RetryCommit
  <2>2. \A c \in rows : OrderExists(c[1])
    BY <1>2 DEF OrderExists
  <2>3. \A p \in Orders : Alive(p)' <=> Alive(p)
    BY <1>2, <2>1 DEF Alive
  <2> QED BY <1>1, <2>1, <2>2, <2>3, InsertedCount
<1>3. CASE ~commits
  BY <1>1, <1>3, QuietCount DEF RetryCommit, pollVars
<1> QED BY <1>2, <1>3

LEMMA QueueInsertCount ==
  ASSUME TypeOK, CountInv, NEW r \in Requests, QueueInsert(r), UNCHANGED crashes
  PROVE  CountInv'
<1>1. /\ UNCHANGED <<order, dispatcherVars, pollVars>>
      /\ request[r].rows \in SUBSET (Orders \X Attempts)
  BY DEF QueueInsert, TypeOK, RequestsTypeOK
<1>2. CASE \A c \in request[r].rows : OrderExists(c[1])
  BY <1>1, <1>2, SameAlive, InsertedCount DEF QueueInsert
<1>3. CASE ~(\A c \in request[r].rows : OrderExists(c[1]))
  BY <1>1, <1>3, QuietCount DEF QueueInsert, pollVars
<1> QED BY <1>2, <1>3

LEMMA DeleteOrderCount ==
  ASSUME TypeOK, CountInv, NEW o \in Orders, DeleteOrder(o), UNCHANGED crashes
  PROVE  CountInv'
<1>1. \A p \in Orders, n \in Attempts :
        IF p = o THEN order'[p] = "deleted" /\ call'[p][n] = NoRow
                 ELSE order'[p] = order[p] /\ call'[p][n] = call[p][n]
  BY DEF DeleteOrder, TypeOK, TablesTypeOK
<1>2. TasksKept
  BY <1>1 DEF TasksKept, Alive, CountInv, RowsInv
<1> QED BY <1>2, KeptStep DEF DeleteOrder, dispatcherVars, pollVars

LEMMA EditOrderCount ==
  ASSUME TypeOK, CountInv, NEW o \in Orders, UNCHANGED <<call, dispatcherVars, crashes>>,
         \/ PlaceOrder(o)
         \/ \E s \in OrderEdits : EditOrder(o, s)
  PROVE  CountInv'
<1>1. PICK s \in OrderStatus : order' = [order EXCEPT ![o] = s] /\ order[o] # "deleted"
  BY RequestsAssumption DEF PlaceOrder, EditOrder, OrderStatus, OrderExists
<1>2. \A p \in Orders : Alive(p)' <=> Alive(p)
  BY <1>1 DEF Alive, TypeOK, TablesTypeOK, OrderStatus
<1>3. TasksKept
  <2>1. \A p \in Orders, n \in Attempts : Exists(call[p][n]) => Alive(p)
    BY DEF CountInv, RowsInv
  <2> QED BY <1>2, <2>1 DEF TasksKept
<1>4. todo' \subseteq todo /\ (poll = "dispatching" => poll' = "dispatching")
  BY WakeCount DEF PlaceOrder, EditOrder, pollVars
<1> QED BY <1>3, <1>4, KeptStep DEF dispatcherVars

LEMMA EditCallCount ==
  ASSUME TypeOK, CountInv, NEW o \in Orders, NEW n \in Attempts, NEW s \in CallEdits,
         EditCall(o, n, s), UNCHANGED crashes
  PROVE  CountInv'
<1> DEFINE row == [call[o][n] EXCEPT !.status = s]
<1>1. call[o][n] \in Row /\ Exists(call[o][n]) /\ SetRow(o, n, row)
  BY DEF TypeOK, TablesTypeOK, EditCall, SetRow
<1>2. row.task = call[o][n].task /\ Exists(row)
  BY <1>1, RequestsAssumption DEF Row, CallStatus, Exists
<1>3. UNCHANGED <<order, dispatcherVars, pollVars>>
  BY DEF EditCall
<1> HIDE DEF row
<1>4. TasksKept
  BY <1>1, <1>2, <1>3, SameAlive, SetRowTasks
<1> QED BY <1>3, <1>4, KeptStep DEF dispatcherVars, pollVars

LEMMA RequestStepCount ==
  ASSUME TypeOK, CountInv, "dispatch" \notin Operations, RequestStep, UNCHANGED crashes
  PROVE  CountInv'
<1>1. ASSUME NEW r \in Requests,
             \/ \E o \in Orders : QueueRead(r, o) \/ RetryRead(r, o)
             \/ \E s \in Shops : QueueAllRead(r, s)
      PROVE  CountInv'
  BY <1>1, QuietCount DEF QueueRead, RetryRead, QueueAllRead, tableVars, pollVars
<1>2. ASSUME NEW r \in Requests, QueueInsert(r) \/ RetryCommit(r) PROVE CountInv'
  BY <1>2, QueueInsertCount, RetryCommitCount
<1>3. ASSUME NEW o \in Orders, PlaceOrder(o) PROVE CountInv'
  BY <1>3, EditOrderCount DEF PlaceOrder
<1>4. ASSUME NEW o \in Orders, NEW s \in OrderEdits, EditOrder(o, s) PROVE CountInv'
  BY <1>4, EditOrderCount DEF EditOrder
<1>5. ASSUME NEW s \in Shops, HoursPass(s) PROVE CountInv'
  BY <1>5, QuietCount DEF HoursPass, MoveWindow, pollVars
<1>6. ASSUME NEW r \in Requests, NEW o \in Orders, NEW n \in Attempts, DispatchRequest(r, o, n)
      PROVE  FALSE
  BY <1>6 DEF DispatchRequest
<1> QED
  BY <1>1, <1>2, <1>3, <1>4, <1>5, <1>6, DeleteOrderCount, EditCallCount DEF RequestStep

-----------------------------------------------------------------------------
LEMMA TickCount ==
  ASSUME TypeOK, CountInv, Tick, UNCHANGED crashes
  PROVE  CountInv'
<1>1. \A o \in Orders, n \in Attempts :
        call'[o][n].status = call[o][n].status /\ call'[o][n].task = call[o][n].task
  <2>1. \A o \in Orders, n \in Attempts : call[o][n] \in Row
    BY DEF TypeOK, TablesTypeOK
  <2> QED BY <2>1 DEF Tick, AgeRows, Row
<1>2. TasksKept
  BY <1>1 DEF TasksKept, Exists, Alive, Tick, CountInv, RowsInv
<1> QED BY <1>2, KeptStep DEF Tick, dispatcherVars

(* A restart may lose the trace of one task, and is counted. *)
LEMMA RestartCount ==
  ASSUME TypeOK, CountInv, Restart
  PROVE  CountInv'
<1>1. /\ \A c \in Callers : disp'[c].pc = "idle"
      /\ todo' = {} /\ crashes' = crashes + 1 /\ UNCHANGED <<order, call, issued>>
  BY DEF Restart, NotDispatching, tableVars
<1>2. disp'[Poller].pc = "idle" /\ \A r \in Requests : disp'[r].pc = "idle"
  BY <1>1 DEF Callers
<1>3. \A o \in Orders, n \in Attempts : issued'[o][n] \in Nat /\ issued'[o][n] <= crashes'
  BY <1>1, SystemAssumption DEF TypeOK, DispatcherTypeOK, CountInv, IssuedInv, PhonedOncePerAttempt
<1>4. crashes' \in Nat
  BY <1>1, SystemAssumption DEF TypeOK
<1>5. IssuedInv'
  BY <1>2, <1>3, <1>4 DEF IssuedInv, PhonedOncePerAttempt
<1>6. RowsInv'
  BY <1>1 DEF CountInv, RowsInv, Alive
<1>7. OnlyThePoll'
  BY <1>1, <1>2 DEF OnlyThePoll
<1> QED BY <1>5, <1>6, <1>7 DEF CountInv

LEMMA InitCount == Init => CountInv
<1> SUFFICES ASSUME Init PROVE CountInv
  OBVIOUS
<1>1. \A c \in Callers : disp[c].pc = "idle"
  BY DEF Init, DispatcherInit, NotDispatching
<1>2. disp[Poller].pc = "idle" /\ \A r \in Requests : disp[r].pc = "idle"
  BY <1>1 DEF Callers
<1>3. OnlyThePoll
  BY <1>2 DEF OnlyThePoll, Init, OrchestratorInit
<1>4. RowsInv
  BY DEF RowsInv, Init, TablesInit, NoRow, Exists
<1>5. IssuedInv
  BY <1>2 DEF IssuedInv, PhonedOncePerAttempt, Init, DispatcherInit
<1> QED BY <1>3, <1>4, <1>5 DEF CountInv

LEMMA NextCount ==
  ASSUME TypeOK, CountInv, "dispatch" \notin Operations, [Next]_vars
  PROVE  CountInv'
<1>1. CASE UNCHANGED vars
  BY <1>1, QuietCount DEF vars, tableVars, pollVars
<1>2. CASE Next
  BY <1>2, DispatchStepCount, PollStepCount, WorkerStepCount, CallbackStepCount,
     RequestStepCount, TickCount, RestartCount DEF Next
<1> QED BY <1>1, <1>2

(***************************************************************************)
(* The poll does not phone a customer twice for one attempt, unless the     *)
(* backend restarts between the fork and the write of the row: for any      *)
(* number of orders, requests and restarts, while the staff does not        *)
(* dispatch calls by hand.                                                  *)
(***************************************************************************)
THEOREM PhonedOnceHolds ==
  ASSUME "dispatch" \notin Operations
  PROVE  Spec => []PhonedOncePerAttempt
<1>1. TypeOK /\ CountInv /\ [Next]_vars => CountInv'
  BY NextCount
<1>2. CountInv => PhonedOncePerAttempt
  BY DEF CountInv, IssuedInv
<1> QED BY <1>1, <1>2, InitCount, TypesHold, PTL DEF Spec
-----------------------------------------------------------------------------
(***************************************************************************)
(* What has ended stays as it is, and the next attempt keeps its distance.  *)
(*                                                                          *)
(* Two writers close a row that they did not read in the same statement:    *)
(* the answer of startTask is written by id, and a result is applied after  *)
(* it was looked up.  The call of the first still waits for a worker, since *)
(* the second only ever has calls with a task (WaitInv).  The poll and the  *)
(* queue requests insert what they chose earlier; the ended call on which   *)
(* the choice rests does not change any more and only gets older (DueInv).  *)
(***************************************************************************)

(* The call waits for a worker, or is gone. *)
Waiting(o, n) == call[o][n].status \in {"none", "pending"} /\ call[o][n].task = 0

ResultsKnown == \A m \in resolved : Alive(m[1][1]) => call[m[1][1]][m[1][2]].task # 0

DispatchWaits ==
  disp[Poller].pc \notin {"idle", "reading"} => Waiting(disp[Poller].call[1], disp[Poller].call[2])

WaitInv == ResultsKnown /\ DispatchWaits

(* The call before attempt n ended for a reason that allows n, and its delay is over. *)
Earned(o, n) ==
  /\ n <= MAX_ATTEMPTS
  /\ Closed(call[o][n - 1])
  /\ call[o][n - 1].disposition \in RetryableDisposition
  /\ call[o][n - 1].completed >= RetryDelays[n - 1]

(* Attempt n of order o may still be inserted, or is there, or can not be. *)
Due(o, n) == ~Alive(o) \/ Exists(call[o][n]) \/ n = 1 \/ Earned(o, n)

DueInv ==
  /\ \A c \in todo : Due(c.order, c.attempt)
  /\ \A r \in Requests : request[r].pc = "insert" =>
       \A c \in request[r].rows : Due(c[1], c[2])

EndInv == WaitInv /\ DueInv

(* What a step does to the calls of one order. *)
EndsStay(o) ==
  Alive(o)' =>
    /\ Alive(o)
    /\ \A n \in Attempts :
         /\ Exists(call[o][n]) => Exists(call'[o][n])
         /\ call[o][n].task # 0 => call'[o][n].task # 0
         /\ Closed(call[o][n]) => /\ call'[o][n].status = call[o][n].status
                                  /\ call'[o][n].disposition = call[o][n].disposition
                                  /\ call'[o][n].completed >= call[o][n].completed

(* The attempts that a step inserts. *)
InsertsEarned ==
  \A o \in Orders, n \in Attempts \ {1} :
    ~Exists(call[o][n]) /\ Exists(call'[o][n]) =>
      (order[o] = "unreachable" /\ order'[o] = "pending") \/ Earned(o, n)

EndStep == (\A o \in Orders : EndsStay(o)) /\ InsertsEarned

NothingNew == \A o \in Orders, n \in Attempts : Exists(call'[o][n]) => Exists(call[o][n])

WaitersWait == \A o \in Orders, n \in Attempts : Waiting(o, n) => Waiting(o, n)'

(* The plans of the requests are carried out or dropped. *)
FewerPlans ==
  /\ todo' \subseteq todo
  /\ \A r \in Requests : request'[r].pc = "insert" =>
       request[r].pc = "insert" /\ request'[r].rows \subseteq request[r].rows

LEMMA AgeOfRow ==
  ASSUME NEW row \in Row
  PROVE  row.completed \in Int
<1>1. RetryDelays[1] \in Nat /\ RetryDelays[2] \in Nat /\ MaxLag \in Nat
  BY PolicyAssumption, TablesAssumption
<1>2. MaxCompletedAge \in Int
  BY <1>1 DEF MaxCompletedAge
<1> QED BY <1>2 DEF Row, NoTime

LEMMA Ages ==
  ASSUME TypeOK
  PROVE  \A o \in Orders, n \in Attempts : call[o][n] \in Row /\ call[o][n].completed \in Int
BY AgeOfRow DEF TypeOK, TablesTypeOK

LEMMA DueStays ==
  ASSUME TypeOK, TypeOK', NEW o \in Orders, EndsStay(o), NEW n \in Attempts, Due(o, n)
  PROVE  Due(o, n)'
<1>1. CASE ~Alive(o)' \/ Exists(call[o][n]) \/ n = 1
  BY <1>1 DEF Due, EndsStay
<1>2. CASE Alive(o)' /\ ~Exists(call[o][n]) /\ n # 1
  <2>1. n - 1 \in Attempts
    BY <1>2, TablesAssumption DEF Attempts
  <2>2. Alive(o) /\ Earned(o, n)
    BY <1>2 DEF Due, EndsStay
  <2>3. /\ call'[o][n - 1].status = call[o][n - 1].status
        /\ call'[o][n - 1].disposition = call[o][n - 1].disposition
        /\ call'[o][n - 1].completed >= call[o][n - 1].completed
    BY <1>2, <2>1, <2>2 DEF EndsStay, Earned
  <2>4. call[o][n - 1].completed \in Int /\ call'[o][n - 1].completed \in Int
    <3>1. call[o][n - 1] \in Row /\ call'[o][n - 1] \in Row
      BY <2>1 DEF TypeOK, TablesTypeOK
    <3> QED BY <3>1, AgeOfRow
  <2>5. RetryDelays[n - 1] \in Int
    <3>1. n - 1 \in 1..2
      BY <2>1, <2>2, TablesAssumption DEF Earned, MAX_ATTEMPTS, Attempts
    <3> QED BY <3>1, PolicyAssumption
  <2>6. Earned(o, n)'
    BY <2>2, <2>3, <2>4, <2>5 DEF Earned, Closed
  <2> QED BY <2>6 DEF Due
<1> QED BY <1>1, <1>2

(* The invariant after a step that makes no new plan and finds no new result. *)
LEMMA EndInvStays ==
  ASSUME TypeOK, TypeOK', EndInv, \A o \in Orders : EndsStay(o), DispatchWaits',
         resolved' \subseteq resolved, FewerPlans
  PROVE  EndInv'
<1>1. ResultsKnown'
  <2>1. \A m \in resolved : m[1][1] \in Orders /\ m[1][2] \in Attempts
    BY DEF TypeOK, VoiceTypeOK, Tasks
  <2> QED BY <2>1 DEF EndInv, WaitInv, ResultsKnown, EndsStay
<1>2. \A c \in todo' : Due(c.order, c.attempt)'
  BY TodoIsCall, DueStays DEF TypeOK, EndInv, DueInv, FewerPlans
<1>3. ASSUME NEW r \in Requests, request'[r].pc = "insert", NEW c \in request'[r].rows
      PROVE  Due(c[1], c[2])'
  <2>1. c[1] \in Orders /\ c[2] \in Attempts
    BY <1>3 DEF FewerPlans, TypeOK, RequestsTypeOK
  <2>2. Due(c[1], c[2])
    BY <1>3 DEF FewerPlans, EndInv, DueInv
  <2> QED BY <2>1, <2>2, DueStays
<1> QED BY <1>1, <1>2, <1>3 DEF EndInv, WaitInv, DueInv

LEMMA WaitersStay ==
  ASSUME TypeOK, EndInv, UNCHANGED disp, WaitersWait
  PROVE  DispatchWaits'
<1>1. disp[Poller].pc # "idle" =>
        disp[Poller].call[1] \in Orders /\ disp[Poller].call[2] \in Attempts
  BY CallOfDispatch DEF Callers, TypeOK
<1> QED BY <1>1 DEF EndInv, WaitInv, DispatchWaits, WaitersWait

LEMMA NothingInserted ==
  ASSUME NothingNew
  PROVE  InsertsEarned
BY DEF NothingNew, InsertsEarned

-----------------------------------------------------------------------------
(* The writes *)
LEMMA SameCallsEnd ==
  ASSUME TypeOK, UNCHANGED call, \A o \in Orders : Alive(o)' => Alive(o)
  PROVE  EndStep /\ WaitersWait
<1>1. \A o \in Orders, n \in Attempts : call[o][n].completed \in Int
  BY Ages
<1>2. \A o \in Orders : EndsStay(o)
  BY <1>1 DEF EndsStay
<1>3. InsertsEarned
  BY NothingInserted DEF NothingNew
<1> QED BY <1>2, <1>3 DEF EndStep, WaitersWait, Waiting

(* A step of which the calls see nothing. *)
LEMMA QuietEnd ==
  ASSUME TypeOK, TypeOK', EndInv, UNCHANGED <<call, disp>>,
         \A o \in Orders : Alive(o)' => Alive(o), resolved' \subseteq resolved, FewerPlans
  PROVE  EndStep /\ EndInv'
BY SameCallsEnd, WaitersStay, EndInvStays DEF EndStep

LEMMA SetRowEnd ==
  ASSUME TypeOK, NEW o \in Orders, NEW n \in Attempts, NEW row, SetRow(o, n, row),
         \A p \in Orders : Alive(p)' => Alive(p),
         Exists(call[o][n]), Exists(row), call[o][n].task # 0 => row.task # 0,
         Closed(call[o][n]) => /\ row.status = call[o][n].status
                               /\ row.disposition = call[o][n].disposition
                               /\ row.completed >= call[o][n].completed
  PROVE  EndStep
<1>1. \A p \in Orders, m \in Attempts :
        call'[p][m] = IF p = o /\ m = n THEN row ELSE call[p][m]
  BY DEF SetRow, TypeOK, TablesTypeOK
<1>2. \A p \in Orders, m \in Attempts : call[p][m].completed \in Int
  BY Ages
<1>3. ASSUME NEW p \in Orders PROVE EndsStay(p)
  <2>1. ASSUME NEW m \in Attempts
        PROVE  /\ Exists(call[p][m]) => Exists(call'[p][m])
               /\ call[p][m].task # 0 => call'[p][m].task # 0
               /\ Closed(call[p][m]) => /\ call'[p][m].status = call[p][m].status
                                        /\ call'[p][m].disposition = call[p][m].disposition
                                        /\ call'[p][m].completed >= call[p][m].completed
    <3>1. CASE p = o /\ m = n
      BY <1>1, <3>1
    <3>2. CASE ~(p = o /\ m = n)
      <4>1. call'[p][m] = call[p][m]
        BY <1>1, <3>2
      <4> QED BY <1>2, <4>1
    <3> QED BY <3>1, <3>2
  <2> QED BY <2>1 DEF EndsStay
<1>4. NothingNew
  BY <1>1 DEF NothingNew
<1> QED BY <1>3, <1>4, NothingInserted DEF EndStep

LEMMA InsertEnd ==
  ASSUME TypeOK, CountInv, NEW rows \in SUBSET (Orders \X Attempts), InsertRows(rows),
         \A p \in Orders : Alive(p)' => Alive(p),
         \A c \in rows : \/ order[c[1]] = "unreachable" /\ order'[c[1]] = "pending"
                         \/ Alive(c[1]) /\ Due(c[1], c[2])
  PROVE  EndStep /\ WaitersWait
<1>1. \A o \in Orders, n \in Attempts :
        call'[o][n] = IF <<o, n>> \in rows /\ ~Exists(call[o][n]) THEN NewRow ELSE call[o][n]
  BY DEF InsertRows
<1>2. NewRow.status = "pending" /\ NewRow.task = 0
  BY DEF NewRow, NoRow
<1>3. \A o \in Orders, n \in Attempts : call[o][n].completed \in Int
  BY Ages
<1>4. ASSUME NEW o \in Orders PROVE EndsStay(o)
  <2>1. ASSUME NEW n \in Attempts
        PROVE  /\ Exists(call[o][n]) => Exists(call'[o][n])
               /\ call[o][n].task # 0 => call'[o][n].task # 0
               /\ Closed(call[o][n]) => /\ call'[o][n].status = call[o][n].status
                                        /\ call'[o][n].disposition = call[o][n].disposition
                                        /\ call'[o][n].completed >= call[o][n].completed
    <3>1. CASE Exists(call[o][n])
      <4>1. call'[o][n] = call[o][n]
        BY <1>1, <3>1
      <4> QED BY <1>3, <4>1
    <3>2. CASE ~Exists(call[o][n])
      <4>1. call[o][n].task = 0
        BY <3>2 DEF CountInv, RowsInv
      <4> QED BY <3>2, <4>1 DEF Exists, Closed
    <3> QED BY <3>1, <3>2
  <2> QED BY <2>1 DEF EndsStay
<1>5. ASSUME NEW o \in Orders, NEW n \in Attempts \ {1}, ~Exists(call[o][n]), Exists(call'[o][n])
      PROVE  (order[o] = "unreachable" /\ order'[o] = "pending") \/ Earned(o, n)
  <2>1. <<o, n>> \in rows
    BY <1>1, <1>5
  <2> QED BY <1>5, <2>1 DEF Due
<1>6. WaitersWait
  BY <1>1, <1>2 DEF WaitersWait, Waiting
<1> QED BY <1>4, <1>5, <1>6 DEF EndStep, InsertsEarned

-----------------------------------------------------------------------------
(* The dispatcher: only a call that waits for a worker is written by its id. *)
LEMMA RecordEnd ==
  ASSUME TypeOK, TypeOK', CountInv, EndInv, Record(Poller)
  PROVE  EndStep
<1> DEFINE o == disp[Poller].call[1]
           n == disp[Poller].call[2]
           row == IF disp[Poller].pc = "accepted"
                    THEN AcceptedRow(call[o][n], disp[Poller].task)
                    ELSE RejectedRow(call[o][n], disp[Poller].task)
<1>1. disp[Poller].pc \in {"accepted", "rejected"} /\ UNCHANGED order
  BY DEF Record
<1>2. o \in Orders /\ n \in Attempts
  BY <1>1, CallOfDispatch DEF TypeOK, Callers
<1>3. \A p \in Orders : Alive(p)' => Alive(p)
  BY <1>1 DEF Alive
<1>4. CASE ~Exists(call[o][n])
  BY <1>3, <1>4, SameCallsEnd DEF Record
<1>5. CASE Exists(call[o][n])
  <2>1. SetRow(o, n, row)
    BY <1>5 DEF Record
  <2>2. call[o][n] \in Row /\ disp[Poller].task # 0
    <3>1. disp[Poller].task # 0
      BY <1>1 DEF TypeOK, DispatcherTypeOK, Callers, NotDispatching
    <3>2. call[o][n] \in Row
      BY <1>2 DEF TypeOK, TablesTypeOK
    <3> QED BY <3>1, <3>2
  <2>3. call[o][n].status = "pending"
    BY <1>1, <1>5 DEF EndInv, WaitInv, DispatchWaits, Waiting, Exists
  <2>4. row.task # 0 /\ Exists(row)
    BY <2>2, <2>3 DEF AcceptedRow, RejectedRow, Row, Exists
  <2> HIDE DEF row, o, n
  <2> QED BY <1>2, <1>3, <1>5, <2>1, <2>3, <2>4, SetRowEnd DEF Closed
<1> QED BY <1>4, <1>5

(* What was read and checked still waits for a worker. *)
LEMMA CheckedWaits ==
  ASSUME TypeOK, CountInv, Check(Poller)
  PROVE  DispatchWaits'
<1>1. /\ Waiting(disp[Poller].call[1], disp[Poller].call[2])
      /\ UNCHANGED call
  BY DEF CountInv, OnlyThePoll, Check, MayStart, Dispatchable, Waiting, tableVars
<1>2. disp'[Poller].call = disp[Poller].call
  BY DEF Check, TypeOK, DispatcherTypeOK, Callers
<1> QED BY <1>1, <1>2 DEF DispatchWaits, Waiting

LEMMA DispatchStepEnd ==
  ASSUME TypeOK, TypeOK', CountInv, EndInv, NEW c \in Callers, Framed(DispatchStep(c))
  PROVE  EndStep /\ EndInv'
<1>1. DispatchStep(c) /\ UNCHANGED <<request, crashes>>
  BY DEF Framed
<1>2. disp[c].pc # "idle"
  BY <1>1 DEF DispatchStep, Check, Refuse, Launch, Reject, Defer, Record, IssueTask
<1>3. c = Poller
  BY <1>2, OnlyThePollDispatches
<1>4. UNCHANGED <<order, resolved>>
  BY <1>1 DEF DispatchStep, Check, Refuse, Launch, Fork, Reject, Defer, Record, voiceVars, tableVars
<1>5. FewerPlans /\ \A o \in Orders : Alive(o)' => Alive(o)
  BY <1>1, <1>4 DEF DispatchStep, Returning, EndPoll, pollVars, FewerPlans, Alive
<1>6. CASE Launch(c) \/ Reject(c)
  <2>1. UNCHANGED call
    BY <1>6 DEF Launch, Reject, tableVars
  <2>2. disp'[Poller].call = disp[Poller].call
    <3>1. IssueTask(c, "accepted") \/ IssueTask(c, "rejected")
      BY <1>6 DEF Launch, Reject
    <3> QED BY <1>3, <3>1 DEF IssueTask, TypeOK, DispatcherTypeOK
  <2>3. disp[Poller].pc = "starting"
    BY <1>3, <1>6 DEF Launch, Reject, IssueTask
  <2>4. DispatchWaits'
    BY <2>1, <2>2, <2>3 DEF EndInv, WaitInv, DispatchWaits, Waiting
  <2> QED BY <1>4, <1>5, <2>1, <2>4, SameCallsEnd, EndInvStays DEF EndStep
<1>7. CASE Refuse(c) \/ Defer(c) \/ Record(c)
  <2>1. disp' = [disp EXCEPT ![Poller] = NotDispatching]
    BY <1>3, <1>7 DEF Refuse, Defer, Record, Leave
  <2>2. DispatchWaits'
    BY <2>1 DEF DispatchWaits, NotDispatching, TypeOK, DispatcherTypeOK, Callers
  <2>3. EndStep
    BY <1>3, <1>5, <1>7, RecordEnd, SameCallsEnd DEF Refuse, Defer, tableVars
  <2> QED BY <1>4, <1>5, <2>2, <2>3, EndInvStays DEF EndStep
<1>8. CASE Check(c)
  <2>1. UNCHANGED call
    BY <1>8 DEF Check, tableVars
  <2>2. DispatchWaits'
    BY <1>3, <1>8, CheckedWaits
  <2> QED BY <1>4, <1>5, <2>1, <2>2, SameCallsEnd, EndInvStays DEF EndStep
<1> QED BY <1>1, <1>6, <1>7, <1>8 DEF DispatchStep

-----------------------------------------------------------------------------
(* The poll *)
LEMMA ExpireCallEnd ==
  ASSUME TypeOK, TypeOK', CountInv, EndInv, NEW c \in stale, ExpireCall(c), UNCHANGED request
  PROVE  EndStep /\ EndInv'
<1> DEFINE o == c[1]
           n == c[2]
           row == ExpiredRow(call[o][n])
<1>1. o \in Orders /\ n \in Attempts
  BY StaleIsCall DEF TypeOK
<1>2. UNCHANGED <<order, disp, resolved, todo>> /\ poll = "expire"
  BY DEF ExpireCall, voiceVars, dispatcherVars
<1>3. FewerPlans /\ \A p \in Orders : Alive(p)' => Alive(p)
  BY <1>2 DEF FewerPlans, Alive
<1>4. CASE ~StillPending(o, n)
  BY <1>2, <1>3, <1>4, QuietEnd DEF ExpireCall
<1>5. CASE StillPending(o, n)
  <2>1. SetRow(o, n, row)
    BY <1>5 DEF ExpireCall
  <2>2. call[o][n] \in Row /\ call[o][n].status = "pending"
    BY <1>1, <1>5 DEF TypeOK, TablesTypeOK, StillPending
  <2>3. Exists(row) /\ row.task = call[o][n].task
    BY <2>2 DEF ExpiredRow, Row, Exists
  <2> HIDE DEF row, o, n
  <2>4. EndStep
    BY <1>1, <1>3, <2>1, <2>2, <2>3, SetRowEnd DEF Closed, Exists
  <2>5. DispatchWaits'
    BY <1>2 DEF CountInv, OnlyThePoll, DispatchWaits
  <2> QED BY <1>2, <1>3, <2>4, <2>5, EndInvStays DEF EndStep
<1> QED BY <1>4, <1>5

(* A next attempt that was chosen follows an ended call, whose delay is over. *)
LEMMA NextIsDue ==
  ASSUME TypeOK, NEW o \in Orders, NEW n \in Attempts, NEW ago \in Nat,
         ~HasPending(call[o]), n = NextAttemptNumber(call[o], ago)
  PROVE  Due(o, n)
<1> DEFINE made == Cardinality(Made(call[o]))
<1>1. n # NoAttempt /\ DOMAIN call[o] = Attempts
  BY TablesAssumption DEF Attempts, NoAttempt, TypeOK, TablesTypeOK
<1>2. CASE n = 1
  BY <1>2 DEF Due
<1>3. CASE n # 1
  <2>1. n = made + 1 /\ RetryDue(call[o], made, ago)
    BY <1>1, <1>3, Zenon DEF NextAttemptNumber
  <2>2. made \in Attempts /\ Exists(call[o][made]) /\ made < MAX_ATTEMPTS
    BY <1>1, <2>1 DEF RetryDue, IsLatest, Made
  <2>3. /\ call[o][made].disposition \in RetryableDisposition
        /\ call[o][made].completed - ago >= RetryDelays[made]
    BY <2>1 DEF RetryDue
  <2> HIDE DEF made
  <2>4. made \in 1..2 /\ n <= MAX_ATTEMPTS /\ n - 1 = made
    BY <2>1, <2>2, TablesAssumption DEF Attempts, MAX_ATTEMPTS
  <2>5. call[o][made].completed >= RetryDelays[made]
    <3>1. call[o][made].completed \in Int /\ RetryDelays[made] \in Int
      BY <2>2, <2>4, Ages, PolicyAssumption
    <3> QED BY <2>3, <3>1
  <2>6. Closed(call[o][made])
    BY <1>1, <2>2 DEF HasPending, Closed, Exists
  <2>7. Earned(o, n)
    BY <2>3, <2>4, <2>5, <2>6 DEF Earned
  <2> QED BY <2>7 DEF Due
<1> QED BY <1>2, <1>3

LEMMA ReadBatchEnd ==
  ASSUME TypeOK, EndInv, ReadBatch, UNCHANGED request
  PROVE  EndStep /\ EndInv'
<1>1. UNCHANGED <<order, call, disp, resolved>> /\ todo' = Candidates
  BY DEF ReadBatch, tableVars, voiceVars, dispatcherVars
<1>2. EndStep
  BY <1>1, SameCallsEnd DEF Alive
<1>3. ASSUME NEW c \in Candidates PROVE Due(c.order, c.attempt)
  <2>1. c.order \in Orders /\ c.attempt \in Attempts
    BY DEF Candidates, Candidate
  <2>2. CASE HasPending(call[c.order])
    BY <2>2 DEF Candidates, QueuedCall, Due, Exists
  <2>3. CASE ~HasPending(call[c.order])
    <3>1. c.attempt = NextAttemptNumber(call[c.order], lag)
      BY <2>3 DEF Candidates
    <3>2. lag \in Nat
      BY TablesAssumption DEF TypeOK, OrchestratorTypeOK
    <3> QED BY <2>1, <2>3, <3>1, <3>2, NextIsDue
  <2> QED BY <2>2, <2>3
<1>4. DueInv'
  <2>1. \A c \in todo' : Due(c.order, c.attempt)'
    BY <1>1, <1>3 DEF Due, Earned, Alive
  <2>2. \A r \in Requests : request'[r].pc = "insert" =>
          \A c \in request'[r].rows : Due(c[1], c[2])'
    BY <1>1 DEF EndInv, DueInv, Due, Earned, Alive
  <2> QED BY <2>1, <2>2 DEF DueInv
<1>5. WaitInv'
  BY <1>1 DEF EndInv, WaitInv, ResultsKnown, Alive, DispatchWaits, Waiting
<1> QED BY <1>2, <1>4, <1>5 DEF EndInv

LEMMA CreateCallEnd ==
  ASSUME TypeOK, TypeOK', CountInv, EndInv, NEW c \in todo, CreateCall(c), UNCHANGED request
  PROVE  EndStep /\ EndInv'
<1> DEFINE rows == {<<c.order, c.attempt>>}
<1>1. c.order \in Orders /\ c.attempt \in Attempts
  BY TodoIsCall DEF TypeOK
<1>2. /\ rows \in SUBSET (Orders \X Attempts) /\ InsertRows(rows)
      /\ UNCHANGED <<order, disp, resolved>> /\ todo' \subseteq todo
  BY <1>1 DEF CreateCall, voiceVars, dispatcherVars
<1>3. \A d \in rows : Alive(d[1]) /\ Due(d[1], d[2])
  BY DEF CreateCall, OrderExists, Alive, EndInv, DueInv
<1> HIDE DEF rows
<1>4. FewerPlans /\ \A p \in Orders : Alive(p)' => Alive(p)
  BY <1>2 DEF FewerPlans, Alive
<1>5. EndStep /\ WaitersWait
  BY <1>2, <1>3, <1>4, InsertEnd
<1> QED BY <1>2, <1>4, <1>5, WaitersStay, EndInvStays DEF EndStep

LEMMA DispatchCurrentEnd ==
  ASSUME TypeOK, TypeOK', CountInv, EndInv, NEW c \in todo, DispatchCurrent(c), UNCHANGED request
  PROVE  EndStep /\ EndInv'
<1>1. /\ UNCHANGED <<order, call, todo, resolved>>
      /\ poll = "dispatch" /\ Enter(Poller, c.order, c.attempt)
  BY DEF DispatchCurrent, Enter, tableVars, voiceVars
<1>2. disp'[Poller].pc = "reading"
  BY <1>1 DEF Enter, TypeOK, DispatcherTypeOK, Callers
<1>4. DispatchWaits'
  BY <1>2 DEF DispatchWaits
<1>5. FewerPlans /\ \A p \in Orders : Alive(p)' => Alive(p)
  BY <1>1 DEF FewerPlans, Alive
<1>6. EndStep
  BY <1>1, <1>5, SameCallsEnd
<1> QED BY <1>1, <1>4, <1>5, <1>6, EndInvStays DEF EndStep

LEMMA PollStepEnd ==
  ASSUME TypeOK, TypeOK', CountInv, EndInv, Framed(PollStep)
  PROVE  EndStep /\ EndInv'
<1>1. UNCHANGED request /\ PollStep
  BY DEF Framed
<1>2. CASE Timer \/ StartPoll \/ StopLooking
  <2>1. UNCHANGED <<order, call, disp, resolved>> /\ todo' \subseteq todo
    BY <1>2 DEF Timer, Wake, StartPoll, StopLooking, EndPoll, tableVars, voiceVars, dispatcherVars
  <2> QED BY <1>1, <2>1, QuietEnd DEF FewerPlans, Alive
<1>3. CASE GiveUpOrder
  <2>1. \A p \in Orders : Alive(p)' => Alive(p)
    <3>1. giveUp \in Orders /\ MovePendingOrder(giveUp, "unreachable")
      BY <1>3 DEF GiveUpOrder, TypeOK, OrchestratorTypeOK
    <3> QED BY <3>1, MoveAlive DEF OrderStatus
  <2>2. UNCHANGED <<call, disp, resolved, todo>>
    BY <1>3 DEF GiveUpOrder, voiceVars, dispatcherVars
  <2> QED BY <1>1, <2>1, <2>2, QuietEnd DEF FewerPlans
<1>4. CASE ReadBatch \/ \E c \in stale : ExpireCall(c)
  BY <1>1, <1>4, ReadBatchEnd, ExpireCallEnd
<1>5. ASSUME NEW c \in todo, CreateCall(c) \/ DispatchCurrent(c) PROVE EndStep /\ EndInv'
  BY <1>1, <1>5, CreateCallEnd, DispatchCurrentEnd
<1>6. ASSUME NEW c \in todo, HasCapacity(c) \/ CreateFails(c) \/ DispatchRefused(c)
      PROVE  EndStep /\ EndInv'
  <2>1. UNCHANGED <<order, call, disp, resolved>> /\ todo' \subseteq todo
    BY <1>6 DEF HasCapacity, CreateFails, DispatchRefused, EndPoll, tableVars, voiceVars,
                dispatcherVars
  <2> QED BY <1>1, <2>1, QuietEnd DEF FewerPlans, Alive
<1> QED BY <1>1, <1>2, <1>3, <1>4, <1>5, <1>6 DEF PollStep

-----------------------------------------------------------------------------
(* The workers and their callbacks *)
LEMMA WorkerStepEnd ==
  ASSUME TypeOK, TypeOK', EndInv, Framed(WorkerStep /\ UNCHANGED pollVars)
  PROVE  EndStep /\ EndInv'
<1>1. WorkerStep /\ UNCHANGED <<request, todo>>
  BY DEF Framed, pollVars
<1>2. UNCHANGED <<order, call, disp>>
  BY <1>1 DEF WorkerStep, tableVars, dispatcherVars
<1>3. UNCHANGED resolved
  BY <1>1 DEF WorkerStep, WorkerStatus, WorkerReport, WorkerExit, WorkerDeath, LoseResult, LoseEvent
<1> QED BY <1>1, <1>2, <1>3, QuietEnd DEF FewerPlans, Alive

(* A late status event changes the phase, and completedAt only where it is null. *)
LEMMA HandleEventEnd ==
  ASSUME TypeOK, TypeOK', EndInv, NEW m \in events, HandleEvent(m), UNCHANGED <<pollVars, request>>
  PROVE  EndStep /\ EndInv'
<1> DEFINE o == m[1][1]
           n == m[1][2]
           row == [call[o][n] EXCEPT
                     !.phase = m[2],
                     !.completed = IF m[2] = "ended" /\ @ = NoTime THEN 0 ELSE @]
<1>1. o \in Orders /\ n \in Attempts
  BY DEF TypeOK, VoiceTypeOK, Tasks
<1>2. UNCHANGED <<order, disp, resolved, todo>>
  BY DEF HandleEvent, dispatcherVars, pollVars
<1>3. FewerPlans /\ \A p \in Orders : Alive(p)' => Alive(p)
  BY <1>2 DEF FewerPlans, Alive
<1>4. CASE ~HasTask(m[1])
  BY <1>2, <1>3, <1>4, QuietEnd DEF HandleEvent
<1>5. CASE HasTask(m[1])
  <2>1. SetRow(o, n, row)
    BY <1>5 DEF HandleEvent
  <2>2. call[o][n] \in Row /\ Exists(call[o][n]) /\ call[o][n].completed \in Int
    BY <1>1, <1>5, Ages DEF HasTask
  <2>3. call[o][n].task # 0
    BY <1>5 DEF HasTask
  <2>4. /\ row.status = call[o][n].status /\ row.disposition = call[o][n].disposition
        /\ row.task = call[o][n].task
    BY <2>2 DEF Row
  <2>5. row.completed >= call[o][n].completed
    BY <2>2 DEF Row, NoTime
  <2> HIDE DEF row, o, n
  <2>6. EndStep
    BY <1>1, <1>3, <2>1, <2>2, <2>4, <2>5, SetRowEnd DEF Exists
  <2>7. WaitersWait
    <3>1. \A p \in Orders, k \in Attempts :
            call'[p][k] = IF p = o /\ k = n THEN row ELSE call[p][k]
      BY <2>1 DEF SetRow, TypeOK, TablesTypeOK
    <3> QED BY <2>3, <3>1 DEF WaitersWait, Waiting
  <2> QED BY <1>2, <1>3, <2>6, <2>7, WaitersStay, EndInvStays DEF EndStep
<1> QED BY <1>4, <1>5

(* A result is looked up by the task id in the row. *)
LEMMA LookUpResultEnd ==
  ASSUME TypeOK, EndInv, NEW m \in results, LookUpResult(m), UNCHANGED <<pollVars, request>>
  PROVE  EndStep /\ EndInv'
<1>1. UNCHANGED <<order, call, disp, todo>>
  BY DEF LookUpResult, tableVars, dispatcherVars, pollVars
<1>2. EndStep
  BY <1>1, SameCallsEnd DEF Alive
<1>3. ResultsKnown'
  <2>1. \A k \in resolved' : k \in resolved \/ HasTask(k[1])
    BY DEF LookUpResult
  <2> QED BY <1>1, <2>1 DEF EndInv, WaitInv, ResultsKnown, HasTask, Alive
<1>4. DispatchWaits' /\ DueInv'
  BY <1>1 DEF EndInv, WaitInv, DispatchWaits, Waiting, DueInv, Due, Earned, Alive
<1> QED BY <1>2, <1>3, <1>4 DEF EndInv, WaitInv

(* The first result, expiry or answer wins: a closed row is left as it is. *)
LEMMA ApplyResultEnd ==
  ASSUME TypeOK, TypeOK', CountInv, EndInv, NEW m \in resolved, ApplyResult(m), Wake,
         UNCHANGED request
  PROVE  EndStep /\ EndInv'
<1> DEFINE o == m[1][1]
           n == m[1][2]
           report == m[2]
           closed == ClosedRow(call[o][n], report, n)
<1>1. o \in Orders /\ n \in Attempts
  BY DEF TypeOK, VoiceTypeOK, Tasks
<1>2. UNCHANGED <<disp, todo>> /\ resolved' \subseteq resolved /\ FewerPlans
  BY DEF ApplyResult, Wake, dispatcherVars, FewerPlans
<1>3. CASE ~StillPending(o, n)
  BY <1>2, <1>3, QuietEnd DEF ApplyResult, Alive
<1>4. CASE StillPending(o, n)
  <2>1. \E row \in {closed, Blocked(closed)} : SetRow(o, n, row)
    BY <1>4 DEF ApplyResult
  <2>2. PICK row \in {closed, Blocked(closed)} : SetRow(o, n, row)
    BY <2>1
  <2>3. call[o][n] \in Row /\ call[o][n].status = "pending"
    BY <1>1, <1>4 DEF TypeOK, TablesTypeOK, StillPending
  <2>4. ResultStatus(report, n) # "none"
    BY DEF ResultStatus
  <2>5. row.task = call[o][n].task /\ Exists(row)
    BY <2>2, <2>3, <2>4 DEF ClosedRow, Blocked, Row, Exists
  <2>6. \/ MovePendingOrder(o, DecideOutcome(report)) /\ Decisive(report)
        \/ MovePendingOrder(o, "unreachable")
        \/ UNCHANGED order
    BY <1>4 DEF ApplyResult
  <2>7. \A p \in Orders : Alive(p)' => Alive(p)
    BY <1>1, <2>6, MoveAlive, SameAlive DEF Decisive, OrderStatus
  <2>8. EndStep
    BY <1>1, <2>2, <2>3, <2>5, <2>7, SetRowEnd DEF Exists, Closed
  <2>9. call[o][n].task # 0
    <3>1. Alive(o)
      BY <1>1, <2>3 DEF CountInv, RowsInv, Exists
    <3> QED BY <3>1 DEF EndInv, WaitInv, ResultsKnown
  <2> HIDE DEF o, n
  <2>10. WaitersWait
    <3>1. \A p \in Orders, k \in Attempts :
            call'[p][k] = IF p = o /\ k = n THEN row ELSE call[p][k]
      BY <2>2 DEF SetRow, TypeOK, TablesTypeOK
    <3> QED BY <2>9, <3>1 DEF WaitersWait, Waiting
  <2> QED BY <1>2, <2>8, <2>10, WaitersStay, EndInvStays DEF EndStep
<1> QED BY <1>3, <1>4

LEMMA CallbackStepEnd ==
  ASSUME TypeOK, TypeOK', CountInv, EndInv, Framed(CallbackStep)
  PROVE  EndStep /\ EndInv'
<1>1. UNCHANGED request /\ CallbackStep
  BY DEF Framed
<1> QED BY <1>1, HandleEventEnd, LookUpResultEnd, ApplyResultEnd DEF CallbackStep

-----------------------------------------------------------------------------
(* The requests of the shops *)
LEMMA HoldEnd ==
  ASSUME TypeOK, EndInv, NEW r \in Requests, NEW where, NEW rows, Hold(r, where, rows),
         where = "insert" => \A c \in rows : Due(c[1], c[2]),
         UNCHANGED <<order, call, disp, todo, resolved>>
  PROVE  EndStep /\ EndInv'
<1>1. \A q \in Requests : request'[q] = IF q = r THEN [pc |-> where, rows |-> rows] ELSE request[q]
  BY DEF Hold, TypeOK, RequestsTypeOK
<1>2. EndStep
  BY SameCallsEnd DEF Alive
<1>3. \A q \in Requests : request'[q].pc = "insert" =>
        \A c \in request'[q].rows : Due(c[1], c[2])'
  BY <1>1 DEF EndInv, DueInv, Due, Earned, Alive
<1>4. \A c \in todo' : Due(c.order, c.attempt)'
  BY DEF EndInv, DueInv, Due, Earned, Alive
<1>5. WaitInv'
  BY DEF EndInv, WaitInv, ResultsKnown, Alive, DispatchWaits, Waiting
<1> QED BY <1>2, <1>3, <1>4, <1>5 DEF EndInv, DueInv

LEMMA QueueReadEnd ==
  ASSUME TypeOK, EndInv, NEW r \in Requests,
         \/ \E o \in Orders : QueueRead(r, o) \/ RetryRead(r, o)
         \/ \E s \in Shops : QueueAllRead(r, s)
  PROVE  EndStep /\ EndInv'
<1>1. \A o \in Orders, n \in Attempts : Queueable(o, n) => Due(o, n)
  BY NextIsDue DEF Queueable
<1>2. UNCHANGED <<order, call, disp, todo, resolved>>
  BY DEF QueueRead, RetryRead, QueueAllRead, tableVars, voiceVars, dispatcherVars, pollVars
<1>3. ASSUME NEW o \in Orders, QueueRead(r, o) PROVE EndStep /\ EndInv'
  <2>1. PICK n \in Attempts : Queueable(o, n) /\ Hold(r, "insert", {<<o, n>>})
    BY <1>3 DEF QueueRead
  <2> QED BY <1>1, <1>2, <2>1, HoldEnd
<1>4. ASSUME NEW o \in Orders, RetryRead(r, o) PROVE EndStep /\ EndInv'
  <2>1. PICK n \in Attempts : Hold(r, "reopen", {<<o, n + 1>>})
    BY <1>4 DEF RetryRead
  <2> QED BY <1>2, <2>1, HoldEnd
<1>5. ASSUME NEW s \in Shops, QueueAllRead(r, s) PROVE EndStep /\ EndInv'
  <2> DEFINE queued == {c \in Orders \X Attempts : ShopOf[c[1]] = s /\ Queueable(c[1], c[2])}
  <2>1. Hold(r, "insert", queued)
    BY <1>5 DEF QueueAllRead
  <2>2. \A c \in queued : Due(c[1], c[2])
    BY <1>1
  <2> HIDE DEF queued
  <2> QED BY <1>2, <2>1, <2>2, HoldEnd
<1> QED BY <1>3, <1>4, <1>5

(* A request whose rows are written, and that is over. *)
LEMMA WrittenEnd ==
  ASSUME TypeOK, TypeOK', EndInv, NEW r \in Requests, Release(r), EndStep, WaitersWait,
         UNCHANGED <<disp, todo, resolved>>
  PROVE  EndStep /\ EndInv'
<1>1. \A q \in Requests : request'[q].pc = "insert" => request'[q] = request[q]
  BY DEF Release, Resting, TypeOK, RequestsTypeOK
<1> QED BY <1>1, WaitersStay, EndInvStays DEF EndStep, FewerPlans

LEMMA QueueInsertEnd ==
  ASSUME TypeOK, TypeOK', CountInv, EndInv, NEW r \in Requests, QueueInsert(r)
  PROVE  EndStep /\ EndInv'
<1>1. /\ request[r].pc = "insert" /\ Release(r)
      /\ UNCHANGED <<order, disp, todo, resolved>>
  BY DEF QueueInsert, voiceVars, dispatcherVars, pollVars
<1>2. \A p \in Orders : Alive(p)' => Alive(p)
  BY <1>1 DEF Alive
<1>3. CASE \A c \in request[r].rows : OrderExists(c[1])
  <2>1. InsertRows(request[r].rows) /\ request[r].rows \in SUBSET (Orders \X Attempts)
    BY <1>3 DEF QueueInsert, TypeOK, RequestsTypeOK
  <2>2. \A c \in request[r].rows : Alive(c[1]) /\ Due(c[1], c[2])
    BY <1>1, <1>3 DEF EndInv, DueInv, OrderExists, Alive
  <2> QED BY <1>1, <1>2, <2>1, <2>2, InsertEnd, WrittenEnd
<1>4. CASE ~(\A c \in request[r].rows : OrderExists(c[1]))
  BY <1>1, <1>2, <1>4, SameCallsEnd, WrittenEnd DEF QueueInsert
<1> QED BY <1>3, <1>4

LEMMA RetryCommitEnd ==
  ASSUME TypeOK, TypeOK', CountInv, EndInv, NEW r \in Requests, RetryCommit(r)
  PROVE  EndStep /\ EndInv'
<1> DEFINE rows == request[r].rows
           commits == \A c \in rows : order[c[1]] = "unreachable" /\ ~Exists(call[c[1]][c[2]])
<1>1. /\ Release(r) /\ UNCHANGED <<disp, todo, resolved>>
      /\ rows \in SUBSET (Orders \X Attempts)
  BY DEF RetryCommit, voiceVars, dispatcherVars, pollVars, TypeOK, RequestsTypeOK
<1>2. CASE commits
  <2>1. /\ InsertRows(rows)
        /\ order' = [o \in Orders |->
             IF \E c \in rows : c[1] = o THEN "pending" ELSE order[o]]
    BY <1>2 DEF RetryCommit
  <2>2. \A c \in rows : order[c[1]] = "unreachable" /\ order'[c[1]] = "pending"
    BY <1>1, <1>2, <2>1
  <2>3. \A p \in Orders : Alive(p)' => Alive(p)
    BY <2>1, <2>2 DEF Alive
  <2> HIDE DEF rows
  <2> QED BY <1>1, <2>1, <2>2, <2>3, InsertEnd, WrittenEnd
<1>3. CASE ~commits
  BY <1>1, <1>3, SameCallsEnd, WrittenEnd DEF RetryCommit, Alive
<1> QED BY <1>2, <1>3

LEMMA DeleteOrderEnd ==
  ASSUME TypeOK, TypeOK', EndInv, NEW o \in Orders, DeleteOrder(o)
  PROVE  EndStep /\ EndInv'
<1>1. /\ \A p \in Orders : order'[p] = IF p = o THEN "deleted" ELSE order[p]
      /\ \A p \in Orders, n \in Attempts : call'[p][n] = IF p = o THEN NoRow ELSE call[p][n]
      /\ UNCHANGED <<disp, todo, resolved, request>>
  BY DEF DeleteOrder, TypeOK, TablesTypeOK, voiceVars, dispatcherVars, pollVars
<1>2. \A p \in Orders, n \in Attempts : call[p][n].completed \in Int
  BY Ages
<1>3. \A p \in Orders : EndsStay(p)
  BY <1>1, <1>2 DEF EndsStay, Alive
<1>4. NothingNew /\ WaitersWait
  BY <1>1 DEF NothingNew, WaitersWait, Waiting, Exists, NoRow
<1> QED BY <1>1, <1>3, <1>4, NothingInserted, WaitersStay, EndInvStays DEF EndStep, FewerPlans

LEMMA RequestStepEnd ==
  ASSUME TypeOK, TypeOK', CountInv, EndInv, RequestStep,
         "dispatch" \notin Operations, CallEdits = {}
  PROVE  EndStep /\ EndInv'
<1>1. ASSUME NEW s \in Shops, HoursPass(s) PROVE EndStep /\ EndInv'
  <2>1. UNCHANGED <<order, call, disp, todo, resolved, request>>
    BY <1>1 DEF HoursPass, MoveWindow, voiceVars, dispatcherVars, pollVars
  <2> QED BY <2>1, QuietEnd DEF FewerPlans, Alive
<1>2. ASSUME NEW o \in Orders, PlaceOrder(o) \/ \E s \in OrderEdits : EditOrder(o, s)
      PROVE  EndStep /\ EndInv'
  <2>1. PICK s : order' = [order EXCEPT ![o] = s] /\ order[o] # "deleted"
    BY <1>2 DEF PlaceOrder, EditOrder, OrderExists
  <2>2. \A p \in Orders : Alive(p)' => Alive(p)
    BY <2>1 DEF Alive, TypeOK, TablesTypeOK
  <2>3. UNCHANGED <<call, disp, todo, resolved, request>>
    BY <1>2 DEF PlaceOrder, EditOrder, Wake, voiceVars, dispatcherVars, pollVars
  <2> QED BY <2>2, <2>3, QuietEnd DEF FewerPlans
<1>3. ASSUME NEW r \in Requests, NEW o \in Orders, NEW n \in Attempts, DispatchRequest(r, o, n)
      PROVE  FALSE
  BY <1>3 DEF DispatchRequest
<1> QED
  BY <1>1, <1>2, <1>3, QueueReadEnd, QueueInsertEnd, RetryCommitEnd, DeleteOrderEnd
     DEF RequestStep

-----------------------------------------------------------------------------
(* An age never falls: the delay of an ended call only gets longer. *)
LEMMA TickEnd ==
  ASSUME TypeOK, TypeOK', EndInv, Tick
  PROVE  EndStep /\ EndInv'
<1>1. ASSUME NEW o \in Orders, NEW n \in Attempts
      PROVE  /\ call'[o][n].status = call[o][n].status
             /\ call'[o][n].disposition = call[o][n].disposition
             /\ call'[o][n].task = call[o][n].task
             /\ call'[o][n].completed >= call[o][n].completed
  <2>1. call'[o][n] = [call[o][n] EXCEPT !.dispatched = Older(@, MaxDispatchedAge),
                                         !.completed = Older(@, MaxCompletedAge)]
    BY DEF Tick, AgeRows
  <2>2. call[o][n] \in Row /\ call[o][n].completed \in Int
    BY Ages
  <2>3. /\ call'[o][n].status = call[o][n].status
        /\ call'[o][n].disposition = call[o][n].disposition
        /\ call'[o][n].task = call[o][n].task
        /\ call'[o][n].completed = Older(call[o][n].completed, MaxCompletedAge)
    BY <2>1, <2>2 DEF Row
  <2>4. Older(call[o][n].completed, MaxCompletedAge) >= call[o][n].completed
    BY <2>2 DEF Older
  <2> QED BY <2>3, <2>4
<1>2. \A o \in Orders : EndsStay(o)
  BY <1>1 DEF EndsStay, Exists, Tick, Alive
<1>3. NothingNew /\ WaitersWait
  BY <1>1 DEF NothingNew, WaitersWait, Waiting, Exists
<1>4. UNCHANGED <<disp, todo, resolved, request>>
  BY DEF Tick, voiceVars, dispatcherVars
<1> QED BY <1>2, <1>3, <1>4, NothingInserted, WaitersStay, EndInvStays DEF EndStep, FewerPlans

LEMMA RestartEnd ==
  ASSUME TypeOK, EndInv, Restart
  PROVE  EndStep /\ EndInv'
<1>1. /\ UNCHANGED <<order, call>> /\ resolved' = {} /\ todo' = {}
      /\ disp'[Poller].pc = "idle"
      /\ \A r \in Requests : request'[r].pc = "idle"
  BY DEF Restart, tableVars, NotDispatching, Resting, Callers
<1>2. EndStep
  BY <1>1, SameCallsEnd DEF Alive
<1> QED BY <1>1, <1>2 DEF EndInv, WaitInv, ResultsKnown, DispatchWaits, DueInv

LEMMA InitEnd == Init => EndInv
<1> SUFFICES ASSUME Init PROVE EndInv
  OBVIOUS
<1>1. /\ resolved = {} /\ todo = {}
      /\ disp[Poller].pc = "idle" /\ \A r \in Requests : request[r].pc = "idle"
  BY DEF Init, VoiceInit, OrchestratorInit, DispatcherInit, RequestsInit, NotDispatching,
         Resting, Callers
<1> QED BY <1>1 DEF EndInv, WaitInv, ResultsKnown, DispatchWaits, DueInv

LEMMA NextEnd ==
  ASSUME TypeOK, TypeOK', CountInv, EndInv, [Next]_vars,
         "dispatch" \notin Operations, CallEdits = {}
  PROVE  EndStep /\ EndInv'
<1>1. CASE UNCHANGED vars
  <2>1. UNCHANGED <<order, call, disp, todo, resolved, request>>
    BY <1>1 DEF vars, tableVars, voiceVars, dispatcherVars, pollVars
  <2> QED BY <2>1, QuietEnd DEF FewerPlans, Alive
<1>2. CASE Next
  BY <1>2, DispatchStepEnd, PollStepEnd, WorkerStepEnd, CallbackStepEnd, RequestStepEnd,
     TickEnd, RestartEnd DEF Next
<1> QED BY <1>1, <1>2

(* The steps that are left once the types and the counts are known. *)
LEMMA EndHolds ==
  ASSUME "dispatch" \notin Operations, CallEdits = {}
  PROVE  Spec => [][EndStep]_vars
<1>1. TypeOK /\ CountInv /\ [Next]_vars => CountInv'
  BY NextCount
<1>2. TypeOK /\ TypeOK' /\ CountInv /\ EndInv /\ [Next]_vars => EndInv' /\ EndStep
  BY NextEnd
<1> QED BY <1>1, <1>2, InitCount, InitEnd, TypesHold, PTL DEF Spec

(***************************************************************************)
(* A call that has ended keeps its status and its disposition: the answer   *)
(* of startTask, which is written by id, late and repeated results, and the *)
(* expiry never reach an ended call, for any number of orders, requests and *)
(* restarts, while the staff edits no call and dispatches none by hand.     *)
(***************************************************************************)
THEOREM EndedCallStaysHolds ==
  ASSUME "dispatch" \notin Operations, CallEdits = {}
  PROVE  Spec => EndedCallStays
<1>1. [EndStep]_vars =>
        [\A o \in Orders, n \in Attempts :
           Closed(call[o][n]) /\ order'[o] # "deleted" =>
             /\ call'[o][n].status = call[o][n].status
             /\ call'[o][n].disposition = call[o][n].disposition]_call
  BY DEF EndStep, EndsStay, Alive, vars, tableVars
<1> QED BY <1>1, EndHolds, PTL DEF EndedCallStays

(***************************************************************************)
(* A next attempt is only inserted for a call that ended for a reason that  *)
(* allows it, at least the delay ago and up to the cap, although the poll   *)
(* and the requests choose it earlier than they insert it; the manual retry *)
(* of an unreachable order is the one exception.  Under the same conditions.*)
(***************************************************************************)
THEOREM RetriesSpacedHolds ==
  ASSUME "dispatch" \notin Operations, CallEdits = {}
  PROVE  Spec => RetriesSpaced
<1>1. [EndStep]_vars =>
        [\A o \in Orders, n \in Attempts \ {1} :
           ~Exists(call[o][n]) /\ Exists(call'[o][n]) =>
             \/ order[o] = "unreachable" /\ order'[o] = "pending"
             \/ /\ n <= MAX_ATTEMPTS
                /\ call[o][n - 1].disposition \in RetryableDisposition
                /\ call[o][n - 1].completed >= RetryDelays[n - 1]]_call
  BY DEF EndStep, InsertsEarned, Earned, vars, tableVars
<1> QED BY <1>1, EndHolds, PTL DEF RetriesSpaced

-----------------------------------------------------------------------------
(***************************************************************************)
(* An order and its calls tell the same story, for any number of orders,    *)
(* shops, attempts, requests and restarts, while the staff only places,     *)
(* queues, retries and deletes.                                             *)
(*                                                                          *)
(* The property is not inductive.  Three writers act on what they read      *)
(* earlier: an insertion may come after the order was decided, the rejected *)
(* answer of startTask is written by id, and the poll gives up on an order  *)
(* in a write of its own.  The invariant says why each of them is harmless: *)
(* the row to be inserted is there by then, the call still waits for a      *)
(* worker, and the order is still pending with its last attempt closed.     *)
(*                                                                          *)
(* With it, every step of the subsystem is a step of OrderConfirmation or a *)
(* stutter: the last part of the module, by the writer of the tables.       *)
(***************************************************************************)

(* No attempt comes after n. *)
Last(rows, n) == \A m \in Attempts : Exists(rows[m]) => m <= n

Undecided == Disposition \ {"confirmed", "declined"}

(* The status of an order and its calls. *)
Fits(status, rows) ==
  /\ \A n \in Attempts : rows[n].status \in {"none", "pending"} => rows[n].disposition = "none"
  /\ \A n \in Attempts : Exists(rows[n]) => status \notin {"absent", "deleted"}
  /\ \A n \in Attempts : rows[n].disposition = "confirmed" => status = "confirmed" /\ Last(rows, n)
  /\ \A n \in Attempts : rows[n].disposition = "declined" => status = "cancelled" /\ Last(rows, n)
  /\ status = "confirmed" => \E n \in Attempts : rows[n].disposition = "confirmed"
  /\ status = "cancelled" => \E n \in Attempts : rows[n].disposition = "declined"
  /\ status = "unreachable" =>
       Closed(rows[MAX_ATTEMPTS]) /\ \A n \in Attempts : rows[n].status # "pending"

(* Attempt n of order o may still be inserted, or need not be. *)
Planned(o, n) ==
  \/ ~Alive(o)
  \/ Exists(call[o][n])
  \/ order[o] = "pending" /\ n <= MAX_ATTEMPTS

(* The poll may give up on order o. *)
GivenUp(o) ==
  \/ ~Alive(o)
  \/ /\ order[o] = "pending"
     /\ Closed(call[o][MAX_ATTEMPTS])
     /\ \A n \in Attempts : call[o][n].status # "pending"

OrdersFit == \A o \in Orders : Fits(order[o], call[o])
GiveUpFits == giveUp # NoOrder => GivenUp(giveUp)
PlansFit ==
  /\ \A c \in todo : Planned(c.order, c.attempt)
  /\ \A r \in Requests : request[r].pc = "insert" =>
       \A c \in request[r].rows : Planned(c[1], c[2])

MatchInv == OrdersFit /\ ResultsKnown /\ DispatchWaits /\ GiveUpFits /\ PlansFit

(* What holds already *)
BaseInv == Inv /\ AttemptInv /\ CountInv

(* The types of the tables, as the steps need them. *)
LEMMA Tables ==
  ASSUME TypeOK
  PROVE  /\ \A o \in Orders : order[o] \in OrderStatus \cup {"absent", "deleted"}
         /\ \A o \in Orders, n \in Attempts : call[o][n] \in Row
         /\ MAX_ATTEMPTS \in Attempts
BY TablesAssumption DEF TypeOK, TablesTypeOK, Attempts, MAX_ATTEMPTS

-----------------------------------------------------------------------------
(* What a step does to one order, so far as the invariant looks at it. *)
Moved(o) ==
  /\ Fits(order[o], call[o])'
  /\ Alive(o)' => /\ Alive(o)
                  /\ \A n \in Attempts : call[o][n].task # 0 => call'[o][n].task # 0
  /\ \A n \in Attempts : Planned(o, n) /\ Sound(o, n) => Planned(o, n)'

Kept(o) == Moved(o) /\ (GivenUp(o) => GivenUp(o)')

Alike(o) ==
  /\ order'[o] = order[o]
  /\ \A n \in Attempts : /\ call'[o][n].status = call[o][n].status
                         /\ call'[o][n].disposition = call[o][n].disposition
                         /\ call[o][n].task # 0 => call'[o][n].task # 0

Untouched(o) == Alike(o) /\ \A n \in Attempts : call'[o][n].task = call[o][n].task

LEMMA AlikeKept ==
  ASSUME TypeOK, MatchInv, NEW o \in Orders, Alike(o)
  PROVE  Kept(o)
<1>1. \A n \in Attempts : /\ Exists(call'[o][n]) <=> Exists(call[o][n])
                          /\ Closed(call'[o][n]) <=> Closed(call[o][n])
  BY DEF Alike, Exists, Closed
<1>2. Fits(order[o], call[o])
  BY DEF MatchInv, OrdersFit
<1>3. \A n \in Attempts : Last(call[o], n) => Last(call'[o], n)
  BY <1>1 DEF Last
<1>4. MAX_ATTEMPTS \in Attempts
  BY Tables
<1>5. Fits(order[o], call[o])'
  BY <1>1, <1>2, <1>3, <1>4 DEF Fits, Alike
<1>6. GivenUp(o) => GivenUp(o)'
  BY <1>1, <1>4 DEF GivenUp, Alive, Alike
<1>7. \A n \in Attempts : Planned(o, n) => Planned(o, n)'
  BY <1>1 DEF Planned, Alive, Alike
<1> QED BY <1>5, <1>6, <1>7 DEF Kept, Moved, Alike, Alive

LEMMA UntouchedKept ==
  ASSUME TypeOK, MatchInv, NEW o \in Orders, Untouched(o)
  PROVE  Kept(o) /\ \A n \in Attempts : Waiting(o, n) => Waiting(o, n)'
BY AlikeKept DEF Untouched, Alike, Waiting

LEMMA ResultsStay ==
  ASSUME TypeOK, MatchInv, \A o \in Orders : Moved(o), resolved' \subseteq resolved
  PROVE  ResultsKnown'
<1>1. \A m \in resolved : m[1][1] \in Orders /\ m[1][2] \in Attempts
  BY DEF TypeOK, VoiceTypeOK, Tasks
<1> QED BY <1>1 DEF MatchInv, ResultsKnown, Moved

LEMMA PlansStay ==
  ASSUME TypeOK, AttemptInv, MatchInv, \A o \in Orders : Moved(o), todo' \subseteq todo,
         \A r \in Requests : request'[r].pc = "insert" =>
           request[r].pc = "insert" /\ request'[r].rows \subseteq request[r].rows
  PROVE  PlansFit'
<1>1. \A c \in todo : c.order \in Orders /\ c.attempt \in Attempts
  BY TodoIsCall DEF TypeOK
<1>2. \A r \in Requests : \A c \in request[r].rows : c[1] \in Orders /\ c[2] \in Attempts
  BY DEF TypeOK, RequestsTypeOK
<1>3. \A c \in todo' : Planned(c.order, c.attempt)'
  BY <1>1 DEF MatchInv, PlansFit, AttemptInv, Moved
<1>4. \A r \in Requests : request'[r].pc = "insert" =>
        \A c \in request'[r].rows : Planned(c[1], c[2])'
  BY <1>2 DEF MatchInv, PlansFit, AttemptInv, Moved
<1> QED BY <1>3, <1>4 DEF PlansFit

LEMMA WaitStays ==
  ASSUME TypeOK, MatchInv, UNCHANGED disp,
         disp[Poller].pc # "idle" =>
           \A o \in Orders, n \in Attempts : Waiting(o, n) => Waiting(o, n)'
  PROVE  DispatchWaits'
<1>1. disp[Poller].pc # "idle" =>
        disp[Poller].call[1] \in Orders /\ disp[Poller].call[2] \in Attempts
  BY CallOfDispatch DEF Callers, TypeOK
<1> QED BY <1>1 DEF MatchInv, DispatchWaits

LEMMA GiveUpStays ==
  ASSUME TypeOK, MatchInv, \A o \in Orders : Kept(o), giveUp' \in {giveUp, NoOrder}
  PROVE  GiveUpFits'
<1>1. giveUp # NoOrder => giveUp \in Orders
  BY DEF TypeOK, OrchestratorTypeOK
<1> QED BY <1>1 DEF MatchInv, GiveUpFits, Kept

(* Orders that fit one by one fit all. *)
LEMMA MovedMatch ==
  ASSUME TypeOK, AttemptInv, MatchInv, \A o \in Orders : Moved(o),
         DispatchWaits', GiveUpFits', resolved' \subseteq resolved, todo' \subseteq todo,
         \A r \in Requests : request'[r].pc = "insert" =>
           request[r].pc = "insert" /\ request'[r].rows \subseteq request[r].rows
  PROVE  MatchInv'
<1>1. OrdersFit'
  BY DEF Moved, OrdersFit
<1> QED BY <1>1, ResultsStay, PlansStay DEF MatchInv

(* A step that writes no status, disposition or task. *)
LEMMA QuietMatch ==
  ASSUME TypeOK, AttemptInv, MatchInv, \A o \in Orders : Untouched(o),
         UNCHANGED <<disp, request>>, giveUp' \in {giveUp, NoOrder},
         resolved' \subseteq resolved, todo' \subseteq todo
  PROVE  MatchInv'
<1>1. \A o \in Orders : Kept(o)
  BY UntouchedKept
<1>2. DispatchWaits'
  BY UntouchedKept, WaitStays
<1>3. GiveUpFits'
  BY <1>1, GiveUpStays
<1> QED BY <1>1, <1>2, <1>3, MovedMatch DEF Kept

LEMMA SameUntouched ==
  ASSUME UNCHANGED <<order, call>>
  PROVE  \A o \in Orders : Untouched(o)
BY DEF Untouched, Alike

-----------------------------------------------------------------------------
(* Only the latest call can be pending, and then its order is pending too. *)
LEMMA PendingIsLast ==
  ASSUME OneOpenAttempt, NEW o \in Orders, NEW n \in Attempts, call[o][n].status = "pending"
  PROVE  /\ Last(call[o], n)
         /\ \A m \in Attempts : m # n => call[o][m].status # "pending"
<1>1. Exists(call[o][n]) /\ ~Closed(call[o][n])
  BY DEF Exists, Closed
<1>2. ASSUME NEW m \in Attempts, Exists(call[o][m]) PROVE m <= n
  BY <1>1, <1>2, TablesAssumption DEF OneOpenAttempt, Attempts
<1>3. ASSUME NEW m \in Attempts, call[o][m].status = "pending" PROVE m = n
  <2>1. Exists(call[o][m]) /\ ~Closed(call[o][m])
    BY <1>3 DEF Exists, Closed
  <2> QED BY <1>1, <2>1, TablesAssumption DEF OneOpenAttempt, Attempts
<1> QED BY <1>2, <1>3 DEF Last

LEMMA PendingCallPendingOrder ==
  ASSUME TypeOK, OneOpenAttempt, NEW o \in Orders, Fits(order[o], call[o]),
         NEW n \in Attempts, call[o][n].status = "pending"
  PROVE  order[o] = "pending"
<1>1. order[o] \in OrderStatus \cup {"absent", "deleted"} /\ Exists(call[o][n])
  BY Tables DEF Exists
<1>2. call[o][n].disposition = "none"
  BY DEF Fits
<1>3. ASSUME NEW m \in Attempts, call[o][m].disposition \in {"confirmed", "declined"}
      PROVE  FALSE
  <2>1. n <= m
    BY <1>1, <1>3 DEF Fits, Last
  <2>2. Exists(call[o][m])
    BY <1>3 DEF Fits, Exists
  <2>3. m <= n
    BY <2>2, PendingIsLast DEF Last
  <2>4. m = n
    BY <2>1, <2>3, TablesAssumption DEF Attempts
  <2> QED BY <1>2, <1>3, <2>4
<1>4. order[o] \notin {"confirmed", "cancelled"}
  BY <1>3 DEF Fits
<1>5. order[o] \notin {"absent", "deleted", "unreachable"}
  BY <1>1 DEF Fits
<1> QED BY <1>1, <1>4, <1>5 DEF OrderStatus

(* A pending order has no decided call. *)
LEMMA PendingUndecided ==
  ASSUME NEW status, NEW rows, Fits(status, rows), status \notin {"confirmed", "cancelled"}
  PROVE  \A n \in Attempts : rows[n].disposition \notin {"confirmed", "declined"}
BY DEF Fits

LEMMA PendingFits ==
  ASSUME NEW rows,
         \A n \in Attempts : /\ rows[n].status \in {"none", "pending"} => rows[n].disposition = "none"
                            /\ rows[n].disposition \notin {"confirmed", "declined"}
  PROVE  Fits("pending", rows)
BY DEF Fits

(* What a planned attempt finds when its order leaves the pending status. *)
LEMMA PlannedIsThere ==
  ASSUME OneOpenAttempt, NEW o \in Orders, NEW n \in Attempts, NEW m \in Attempts,
         Exists(call[o][m]), n <= m
  PROVE  Exists(call[o][n])
<1>1. CASE n = m
  BY <1>1
<1>2. CASE n # m
  BY <1>2, TablesAssumption DEF OneOpenAttempt, Closed, Exists, Attempts
<1> QED BY <1>1, <1>2

-----------------------------------------------------------------------------
(* A pending call is closed, and its order moves with it or stays pending. *)
ClosesCall(o, n, row) ==
  /\ SetRow(o, n, row)
  /\ \A p \in Orders : p # o => order'[p] = order[p]
  /\ row.status \notin {"none", "pending"}
  /\ row.task = call[o][n].task \/ row.task # 0
  /\ \/ row.disposition \in Undecided /\ order'[o] = "pending"
     \/ row.disposition = "confirmed" /\ order'[o] = "confirmed"
     \/ row.disposition = "declined" /\ order'[o] = "cancelled"
     \/ row.disposition \in Undecided /\ n >= MAX_ATTEMPTS /\ order'[o] = "unreachable"

LEMMA ClosedRows ==
  ASSUME TypeOK, NEW o \in Orders, NEW n \in Attempts, NEW row, ClosesCall(o, n, row)
  PROVE  \A p \in Orders, m \in Attempts :
           call'[p][m] = IF p = o /\ m = n THEN row ELSE call[p][m]
BY DEF ClosesCall, SetRow, TypeOK, TablesTypeOK

LEMMA ClosesFits ==
  ASSUME TypeOK, OneOpenAttempt, NEW o \in Orders, Fits(order[o], call[o]),
         NEW n \in Attempts, call[o][n].status = "pending",
         NEW row, ClosesCall(o, n, row)
  PROVE  Fits(order[o], call[o])'
<1>1. \A m \in Attempts : call'[o][m] = IF m = n THEN row ELSE call[o][m]
  BY ClosedRows
<1>2. order[o] = "pending"
  BY PendingCallPendingOrder
<1>3. \A m \in Attempts : call[o][m].disposition \notin {"confirmed", "declined"}
  BY <1>2, PendingUndecided
<1>4. /\ Last(call[o], n)
      /\ \A m \in Attempts : m # n => call[o][m].status # "pending"
  BY PendingIsLast
<1>5. Last(call'[o], n)
  BY <1>1, <1>4, TablesAssumption DEF Last, Attempts
<1>6. \A m \in Attempts : call'[o][m].status \in {"none", "pending"} => call'[o][m].disposition = "none"
  BY <1>1 DEF ClosesCall, Fits
<1>7. order'[o] \in {"pending", "confirmed", "cancelled", "unreachable"}
  BY DEF ClosesCall
<1>8. CASE row.disposition \in Undecided /\ order'[o] = "pending"
  <2>1. \A m \in Attempts : call'[o][m].disposition \notin {"confirmed", "declined"}
    BY <1>1, <1>3, <1>8 DEF Undecided
  <2>2. Fits("pending", call'[o])
    BY <1>6, <2>1, PendingFits
  <2> QED BY <1>8, <2>2 DEF Fits
<1>9. CASE row.disposition = "confirmed" /\ order'[o] = "confirmed"
  <2>1. \A m \in Attempts : /\ call'[o][m].disposition = "confirmed" => m = n
                            /\ call'[o][m].disposition # "declined"
    BY <1>1, <1>3, <1>9
  <2>2. call'[o][n].disposition = "confirmed"
    BY <1>1, <1>9
  <2> QED BY <1>5, <1>6, <1>9, <2>1, <2>2 DEF Fits
<1>10. CASE row.disposition = "declined" /\ order'[o] = "cancelled"
  <2>1. \A m \in Attempts : /\ call'[o][m].disposition = "declined" => m = n
                            /\ call'[o][m].disposition # "confirmed"
    BY <1>1, <1>3, <1>10
  <2>2. call'[o][n].disposition = "declined"
    BY <1>1, <1>10
  <2> QED BY <1>5, <1>6, <1>10, <2>1, <2>2 DEF Fits
<1>11. CASE row.disposition \in Undecided /\ n >= MAX_ATTEMPTS /\ order'[o] = "unreachable"
  <2>1. \A m \in Attempts : call'[o][m].disposition \notin {"confirmed", "declined"}
    BY <1>1, <1>3, <1>11 DEF Undecided
  <2>2. \A m \in Attempts : call'[o][m].status # "pending"
    BY <1>1, <1>4 DEF ClosesCall
  <2>3. MAX_ATTEMPTS \in Attempts
    BY Tables
  <2>4. Exists(call[o][MAX_ATTEMPTS])
    BY <1>11, <2>3, PlannedIsThere DEF Exists
  <2>5. Closed(call'[o][MAX_ATTEMPTS])
    BY <1>1, <2>2, <2>3, <2>4 DEF Closed, Exists, ClosesCall
  <2> QED BY <1>6, <1>11, <2>1, <2>2, <2>5 DEF Fits
<1> QED BY <1>8, <1>9, <1>10, <1>11 DEF ClosesCall

LEMMA ClosesKept ==
  ASSUME TypeOK, OneOpenAttempt, MatchInv, NEW o \in Orders,
         NEW n \in Attempts, call[o][n].status = "pending",
         NEW row, ClosesCall(o, n, row)
  PROVE  \A p \in Orders : Kept(p)
<1>1. \A p \in Orders, m \in Attempts :
        call'[p][m] = IF p = o /\ m = n THEN row ELSE call[p][m]
  BY ClosedRows
<1>2. ASSUME NEW p \in Orders, p # o PROVE Kept(p)
  <2>1. Untouched(p)
    BY <1>1, <1>2 DEF Untouched, Alike, ClosesCall
  <2> QED BY <2>1, UntouchedKept
<1>3. Fits(order[o], call[o])
  BY DEF MatchInv, OrdersFit
<1>4. Fits(order[o], call[o])'
  BY <1>3, ClosesFits
<1>5. order[o] = "pending" /\ Exists(call[o][n]) /\ ~Closed(call[o][n])
  BY <1>3, PendingCallPendingOrder DEF Exists, Closed
<1>6. Alive(o) /\ \A m \in Attempts : call[o][m].task # 0 => call'[o][m].task # 0
  BY <1>1, <1>5 DEF Alive, ClosesCall
<1>7. ASSUME NEW m \in Attempts, Planned(o, m), Sound(o, m) PROVE Planned(o, m)'
  <2>1. ~(n < m)
    BY <1>5, <1>7 DEF Sound
  <2>2. m <= n
    BY <2>1, TablesAssumption DEF Attempts
  <2>3. Exists(call[o][m])
    BY <1>5, <2>2, PlannedIsThere
  <2> QED BY <1>1, <2>3 DEF Planned, Exists, ClosesCall
<1>8. ~GivenUp(o)
  BY <1>5 DEF GivenUp, Alive
<1>9. Kept(o)
  BY <1>4, <1>6, <1>7, <1>8 DEF Kept, Moved
<1> QED BY <1>2, <1>9

-----------------------------------------------------------------------------
(* Pending rows are inserted for orders that are pending, or not at all. *)
LEMMA InsertKept ==
  ASSUME TypeOK, OneOpenAttempt, CountInv, MatchInv, NEW rows \in SUBSET (Orders \X Attempts),
         InsertRows(rows), UNCHANGED order,
         \A c \in rows : OrderExists(c[1]) /\ Planned(c[1], c[2])
  PROVE  /\ \A p \in Orders : Kept(p)
         /\ \A p \in Orders, m \in Attempts : Waiting(p, m) => Waiting(p, m)'
<1>1. \A o \in Orders, n \in Attempts :
        call'[o][n] = IF <<o, n>> \in rows /\ ~Exists(call[o][n]) THEN NewRow ELSE call[o][n]
  BY DEF InsertRows
<1>2. NewRow.status = "pending" /\ NewRow.disposition = "none" /\ NewRow.task = 0
  BY DEF NewRow, NoRow
<1>3. ASSUME NEW o \in Orders PROVE Kept(o)
  <2>1. CASE \A n \in Attempts : <<o, n>> \in rows => Exists(call[o][n])
    <3>1. Untouched(o)
      BY <1>1, <2>1 DEF Untouched, Alike
    <3> QED BY <3>1, UntouchedKept
  <2>2. CASE \E n \in Attempts : <<o, n>> \in rows /\ ~Exists(call[o][n])
    <3>1. PICK n \in Attempts : <<o, n>> \in rows /\ ~Exists(call[o][n])
      BY <2>2
    <3>2. order[o] = "pending" /\ n <= MAX_ATTEMPTS /\ Alive(o)
      BY <3>1 DEF Planned, OrderExists, Alive
    <3>3. \A m \in Attempts : /\ Exists(call[o][m]) => Exists(call'[o][m])
                              /\ call'[o][m] \in {call[o][m], NewRow}
                              /\ call[o][m].task # 0 => call'[o][m].task # 0
      <4>1. \A m \in Attempts : ~Exists(call[o][m]) => call[o][m].task = 0
        BY DEF CountInv, RowsInv
      <4> QED BY <1>1, <1>2, <4>1 DEF Exists
    <3>4. Fits(order[o], call[o])
      BY DEF MatchInv, OrdersFit
    <3>5. \A m \in Attempts : call[o][m].disposition \notin {"confirmed", "declined"}
      BY <3>2, <3>4, PendingUndecided
    <3>6. Fits("pending", call'[o])
      <4>1. \A m \in Attempts :
              /\ call'[o][m].status \in {"none", "pending"} => call'[o][m].disposition = "none"
              /\ call'[o][m].disposition \notin {"confirmed", "declined"}
        BY <1>2, <3>3, <3>4, <3>5 DEF Fits
      <4> QED BY <4>1, PendingFits
    <3>7. Fits(order[o], call[o])'
      BY <3>2, <3>6 DEF Fits
    <3>8. ~GivenUp(o)
      BY <3>1, <3>2, PlannedIsThere, Tables DEF GivenUp, Closed, Exists
    <3>9. \A m \in Attempts : Planned(o, m) => Planned(o, m)'
      BY <3>3 DEF Planned, Alive
    <3> QED BY <3>2, <3>3, <3>7, <3>8, <3>9 DEF Kept, Moved
  <2> QED BY <2>1, <2>2
<1>4. ASSUME NEW p \in Orders, NEW m \in Attempts, Waiting(p, m) PROVE Waiting(p, m)'
  BY <1>1, <1>2, <1>4 DEF Waiting
<1> QED BY <1>3, <1>4

(* The manual retry: reopened orders get a pending call. *)
LEMMA ReopenKept ==
  ASSUME TypeOK, CountInv, MatchInv, NEW rows \in SUBSET (Orders \X Attempts), InsertRows(rows),
         order' = [o \in Orders |-> IF \E c \in rows : c[1] = o THEN "pending" ELSE order[o]],
         \A c \in rows : order[c[1]] = "unreachable"
  PROVE  /\ \A p \in Orders : Kept(p)
         /\ \A p \in Orders, m \in Attempts : Waiting(p, m) => Waiting(p, m)'
<1>1. \A o \in Orders, n \in Attempts :
        call'[o][n] = IF <<o, n>> \in rows /\ ~Exists(call[o][n]) THEN NewRow ELSE call[o][n]
  BY DEF InsertRows
<1>2. NewRow.status = "pending" /\ NewRow.disposition = "none" /\ NewRow.task = 0
  BY DEF NewRow, NoRow
<1>3. ASSUME NEW o \in Orders PROVE Kept(o)
  <2>1. CASE ~(\E c \in rows : c[1] = o)
    <3>1. \A n \in Attempts : <<o, n>> \notin rows
      BY <2>1
    <3>2. Untouched(o)
      BY <1>1, <2>1, <3>1 DEF Untouched, Alike
    <3> QED BY <3>2, UntouchedKept
  <2>2. CASE \E c \in rows : c[1] = o
    <3>1. order[o] = "unreachable" /\ order'[o] = "pending"
      BY <2>2
    <3>2. \A m \in Attempts : /\ Exists(call[o][m]) => Exists(call'[o][m])
                              /\ call'[o][m] \in {call[o][m], NewRow}
                              /\ call[o][m].task # 0 => call'[o][m].task # 0
      <4>1. \A m \in Attempts : ~Exists(call[o][m]) => call[o][m].task = 0
        BY DEF CountInv, RowsInv
      <4> QED BY <1>1, <1>2, <4>1 DEF Exists
    <3>3. Fits(order[o], call[o])
      BY DEF MatchInv, OrdersFit
    <3>4. \A m \in Attempts : call[o][m].disposition \notin {"confirmed", "declined"}
      BY <3>1, <3>3, PendingUndecided
    <3>5. Fits("pending", call'[o])
      <4>1. \A m \in Attempts :
              /\ call'[o][m].status \in {"none", "pending"} => call'[o][m].disposition = "none"
              /\ call'[o][m].disposition \notin {"confirmed", "declined"}
        BY <1>2, <3>2, <3>3, <3>4 DEF Fits
      <4> QED BY <4>1, PendingFits
    <3>6. Fits(order[o], call[o])'
      BY <3>1, <3>5 DEF Fits
    <3> QED BY <3>1, <3>2, <3>6 DEF Kept, Moved, Planned, GivenUp, Alive
  <2> QED BY <2>1, <2>2
<1>4. ASSUME NEW p \in Orders, NEW m \in Attempts, Waiting(p, m) PROVE Waiting(p, m)'
  BY <1>1, <1>2, <1>4 DEF Waiting
<1> QED BY <1>3, <1>4

-----------------------------------------------------------------------------
(* The dispatcher *)
(* The answer of startTask: a task for the call that waits, or its end. *)
LEMMA RecordCloses ==
  ASSUME TypeOK, AttemptInv, MatchInv, Record(Poller),
         Exists(call[disp[Poller].call[1]][disp[Poller].call[2]])
  PROVE  \/ \A p \in Orders : Alike(p)
         \/ \E p \in Orders, m \in Attempts : \E row :
              call[p][m].status = "pending" /\ ClosesCall(p, m, row)
<1> DEFINE o == disp[Poller].call[1]
           n == disp[Poller].call[2]
<1>1. disp[Poller].pc \in {"accepted", "rejected"} /\ UNCHANGED order
  BY DEF Record
<1>2. disp[Poller].task # 0
  BY <1>1 DEF TypeOK, DispatcherTypeOK, NotDispatching, Callers
<1>3. o \in Orders /\ n \in Attempts
  BY <1>1, CallOfDispatch DEF TypeOK, Callers
<1>4. call[o][n].status = "pending" /\ call[o][n] \in Row
  BY <1>1, <1>3, Tables DEF MatchInv, DispatchWaits, Waiting, Exists
<1>5. order[o] = "pending"
  BY <1>3, <1>4, PendingCallPendingOrder DEF AttemptInv, MatchInv, OrdersFit
<1>6. CASE disp[Poller].pc = "accepted"
  <2> DEFINE row == AcceptedRow(call[o][n], disp[Poller].task)
  <2>1. SetRow(o, n, row)
    BY <1>6 DEF Record
  <2>2. /\ row.status = call[o][n].status /\ row.disposition = call[o][n].disposition
        /\ row.task # 0
    BY <1>2, <1>4 DEF AcceptedRow, Row
  <2> HIDE DEF row, o, n
  <2>3. \A p \in Orders, m \in Attempts :
          call'[p][m] = IF p = o /\ m = n THEN row ELSE call[p][m]
    BY <2>1 DEF SetRow, TypeOK, TablesTypeOK
  <2> QED BY <1>1, <2>2, <2>3 DEF Alike
<1>7. CASE disp[Poller].pc = "rejected"
  <2>1. PICK p \in Orders, m \in Attempts : p = o /\ m = n
    BY <1>3
  <2> DEFINE row == RejectedRow(call[p][m], disp[Poller].task)
  <2>2. SetRow(p, m, row)
    BY <1>7, <2>1 DEF Record
  <2>3. row.status = "failed" /\ row.disposition = "error" /\ row.task # 0
    BY <1>2, <1>4, <2>1 DEF RejectedRow, Row
  <2>4. PICK end : end = row
    OBVIOUS
  <2> HIDE DEF row, o, n
  <2>5. ClosesCall(p, m, end)
    BY <1>1, <1>5, <2>1, <2>2, <2>3, <2>4 DEF ClosesCall, Undecided, Disposition, SetRow
  <2> QED BY <1>4, <2>1, <2>5
<1> QED BY <1>1, <1>6, <1>7

LEMMA DispatchStepMatch ==
  ASSUME TypeOK, AttemptInv, CountInv, MatchInv, NEW c \in Callers, Framed(DispatchStep(c))
  PROVE  MatchInv'
<1> DEFINE o == disp[Poller].call[1]
           n == disp[Poller].call[2]
<1>1. DispatchStep(c) /\ UNCHANGED <<request, crashes>>
  BY DEF Framed
<1>2. disp[c].pc # "idle"
  BY <1>1 DEF DispatchStep, Check, Refuse, Launch, Reject, Defer, Record, IssueTask
<1>3. c = Poller
  BY <1>2, OnlyThePollDispatches
<1>4. o \in Orders /\ n \in Attempts
  BY <1>2, <1>3, CallOfDispatch DEF TypeOK
<1>5. todo' \subseteq todo /\ giveUp' = giveUp /\ UNCHANGED resolved
  BY <1>1 DEF DispatchStep, Returning, EndPoll, pollVars, Check, Refuse, Launch, Fork, Reject, Defer,
              Record, voiceVars
<1>6. CASE Launch(c) \/ Reject(c)
  <2>1. UNCHANGED <<order, call>>
    BY <1>6 DEF Launch, Reject, tableVars
  <2>2. \A p \in Orders : Kept(p)
    BY <2>1, SameUntouched, UntouchedKept
  <2>3. disp'[Poller].call = disp[Poller].call
    <3>1. IssueTask(c, "accepted") \/ IssueTask(c, "rejected")
      BY <1>6 DEF Launch, Reject
    <3> QED BY <1>3, <3>1 DEF IssueTask, TypeOK, DispatcherTypeOK
  <2>5. disp[Poller].pc = "starting"
    BY <1>3, <1>6 DEF Launch, Reject, IssueTask
  <2>4. DispatchWaits'
    BY <2>1, <2>3, <2>5 DEF MatchInv, DispatchWaits, Waiting
  <2> QED BY <1>1, <1>5, <2>2, <2>4, GiveUpStays, MovedMatch DEF Kept
<1>7. CASE Refuse(c) \/ Defer(c) \/ Record(c)
  <2>1. DispatchWaits'
    <3>1. disp' = [disp EXCEPT ![Poller] = NotDispatching]
      BY <1>3, <1>7 DEF Refuse, Defer, Record, Leave
    <3>2. disp'[Poller].pc = "idle"
      BY <3>1 DEF NotDispatching, TypeOK, DispatcherTypeOK, Callers
    <3> QED BY <3>2 DEF DispatchWaits
  <2>2. \A p \in Orders : Kept(p)
    <3>1. CASE UNCHANGED <<order, call>>
      BY <3>1, SameUntouched, UntouchedKept
    <3>2. CASE Record(c) /\ Exists(call[o][n])
      BY <1>3, <3>2, RecordCloses, AlikeKept, ClosesKept DEF AttemptInv
    <3> QED BY <1>3, <1>7, <3>1, <3>2 DEF Refuse, Defer, Record, tableVars
  <2> QED BY <1>1, <1>5, <2>1, <2>2, GiveUpStays, MovedMatch DEF Kept
<1>8. CASE Check(c)
  <2>1. UNCHANGED <<order, call>>
    BY <1>8 DEF Check, tableVars
  <2>2. \A p \in Orders : Kept(p)
    BY <2>1, SameUntouched, UntouchedKept
  <2>3. DispatchWaits'
    BY <1>3, <1>8, CheckedWaits
  <2> QED BY <1>1, <1>5, <2>2, <2>3, GiveUpStays, MovedMatch DEF Kept
<1> QED BY <1>1, <1>6, <1>7, <1>8 DEF DispatchStep

-----------------------------------------------------------------------------
(* The poll *)
LEMMA ExpireCallMatch ==
  ASSUME TypeOK, AttemptInv, CountInv, MatchInv, NEW c \in stale, ExpireCall(c), UNCHANGED request
  PROVE  MatchInv'
<1> DEFINE o == c[1]
           n == c[2]
           row == ExpiredRow(call[o][n])
<1>1. o \in Orders /\ n \in Attempts
  BY StaleIsCall DEF TypeOK
<1>2. /\ UNCHANGED <<order, todo, disp, resolved>>
      /\ poll = "expire" /\ giveUp = NoOrder
  BY DEF ExpireCall, voiceVars, dispatcherVars
<1>3. CASE ~StillPending(o, n)
  BY <1>2, <1>3, SameUntouched, QuietMatch DEF ExpireCall
<1>4. CASE StillPending(o, n)
  <2>1. SetRow(o, n, row) /\ giveUp' = IF IsFinal(n) THEN o ELSE NoOrder
    BY <1>4 DEF ExpireCall
  <2>2. call[o][n].status = "pending" /\ call[o][n] \in Row
    BY <1>1, <1>4, Tables DEF StillPending
  <2>3. row.status = "no_answer" /\ row.disposition = "no_answer" /\ row.task = call[o][n].task
    BY <2>2 DEF ExpiredRow, Row
  <2> HIDE DEF row, o, n
  <2>4. Fits(order[o], call[o])
    BY <1>1 DEF MatchInv, OrdersFit
  <2>5. order[o] = "pending"
    BY <1>1, <2>2, <2>4, PendingCallPendingOrder DEF AttemptInv
  <2>6. ClosesCall(o, n, row)
    BY <1>2, <2>1, <2>3, <2>5 DEF ClosesCall, Undecided, Disposition
  <2>7. \A p \in Orders : Kept(p)
    BY <1>1, <2>2, <2>6, ClosesKept DEF AttemptInv
  <2>8. DispatchWaits'
    BY <1>2 DEF CountInv, OnlyThePoll, DispatchWaits
  <2>9. GiveUpFits'
    <3>1. CASE ~IsFinal(n)
      BY <2>1, <3>1 DEF GiveUpFits
    <3>2. CASE IsFinal(n)
      <4>1. \A m \in Attempts : call'[o][m] = IF m = n THEN row ELSE call[o][m]
        BY <1>1, <2>6, ClosedRows
      <4>2. \A m \in Attempts : call'[o][m].status # "pending"
        BY <1>1, <2>2, <2>3, <4>1, PendingIsLast DEF AttemptInv
      <4>3. MAX_ATTEMPTS \in Attempts /\ MAX_ATTEMPTS <= n
        BY <1>1, <3>2, Tables, TablesAssumption DEF IsFinal, MAX_ATTEMPTS, Attempts
      <4>4. Exists(call[o][MAX_ATTEMPTS])
        BY <1>1, <2>2, <4>3, PlannedIsThere DEF AttemptInv, Exists
      <4>5. Closed(call'[o][MAX_ATTEMPTS])
        BY <2>3, <4>1, <4>2, <4>3, <4>4 DEF Closed, Exists
      <4>6. giveUp' = o /\ order'[o] = "pending"
        BY <1>2, <2>1, <2>5, <3>2
      <4> QED BY <4>2, <4>5, <4>6 DEF GiveUpFits, GivenUp
    <3> QED BY <3>1, <3>2
  <2> QED BY <1>2, <2>7, <2>8, <2>9, MovedMatch DEF Kept
<1> QED BY <1>3, <1>4

(* The order is still pending and its last attempt closed: every planned call is there. *)
LEMMA GiveUpOrderMatch ==
  ASSUME TypeOK, AttemptInv, CountInv, MatchInv, GiveUpOrder, UNCHANGED request
  PROVE  MatchInv'
<1>0. giveUp \in Orders
  BY DEF GiveUpOrder, TypeOK, OrchestratorTypeOK
<1>. PICK o \in Orders : o = giveUp
  BY <1>0
<1>1. /\ giveUp' = NoOrder
      /\ UNCHANGED <<call, todo, disp, resolved>>
      /\ order' = [order EXCEPT ![o] = IF @ = "pending" THEN "unreachable" ELSE @]
  BY DEF GiveUpOrder, voiceVars, dispatcherVars, MovePendingOrder
<1>2. GivenUp(o)
  BY DEF MatchInv, GiveUpFits, GiveUpOrder
<1>3. \A p \in Orders : order'[p] = IF p = o /\ order[p] = "pending" THEN "unreachable" ELSE order[p]
  BY <1>1 DEF TypeOK, TablesTypeOK
<1>4. ASSUME NEW p \in Orders, ~(p = o /\ order[p] = "pending") PROVE Moved(p)
  <2>1. Untouched(p)
    BY <1>1, <1>3, <1>4 DEF Untouched, Alike
  <2> QED BY <2>1, UntouchedKept DEF Kept
<1>5. ASSUME order[o] = "pending" PROVE Moved(o)
  <2>1. order'[o] = "unreachable" /\ Alive(o)
    BY <1>1, <1>3, <1>5 DEF Alive
  <2>2. Closed(call[o][MAX_ATTEMPTS]) /\ \A n \in Attempts : call[o][n].status # "pending"
    BY <1>2, <2>1 DEF GivenUp
  <2>3. Fits(order[o], call[o])
    BY <1>1 DEF MatchInv, OrdersFit
  <2>4. Fits(order[o], call[o])'
    <3>1. \A n \in Attempts : call[o][n].disposition \notin {"confirmed", "declined"}
      BY <1>5, <2>3, PendingUndecided
    <3>2. Fits("unreachable", call[o])
      BY <2>2, <2>3, <3>1 DEF Fits
    <3> QED BY <1>1, <2>1, <3>2
  <2>5. ASSUME NEW n \in Attempts, Planned(o, n) PROVE Planned(o, n)'
    <3>1. Exists(call[o][n])
      <4>1. CASE Exists(call[o][n])
        BY <4>1
      <4>2. CASE n <= MAX_ATTEMPTS
        BY <1>1, <2>2, <4>2, PlannedIsThere, Tables DEF AttemptInv, Closed, Exists
      <4> QED BY <2>1, <2>5, <4>1, <4>2 DEF Planned
    <3> QED BY <1>1, <3>1 DEF Planned
  <2>6. Moved(o)
    <3>1. UNCHANGED call
      BY <1>1
    <3> QED BY <2>1, <2>4, <2>5, <3>1 DEF Moved, Alive
  <2> QED BY <2>6
<1>6. \A p \in Orders : Moved(p)
  BY <1>4, <1>5
<1>7. GiveUpFits'
  BY <1>1 DEF GiveUpFits
<1>8. DispatchWaits'
  BY <1>1 DEF MatchInv, DispatchWaits, Waiting
<1> QED BY <1>1, <1>6, <1>7, <1>8, MovedMatch

(* The next attempt of a pending order is below the cap. *)
LEMMA NextIsPlanned ==
  ASSUME TypeOK, NEW o \in Orders, NEW n \in Attempts, NEW ago,
         order[o] = "pending", n = NextAttemptNumber(call[o], ago)
  PROVE  Planned(o, n)
<1> DEFINE made == Cardinality(Made(call[o]))
<1>1. n # NoAttempt /\ DOMAIN call[o] = Attempts
  BY TablesAssumption DEF Attempts, NoAttempt, TypeOK, TablesTypeOK
<1>2. n = 1 \/ (n = made + 1 /\ RetryDue(call[o], made, ago))
  BY <1>1, Zenon DEF NextAttemptNumber
<1>3. ASSUME RetryDue(call[o], made, ago) PROVE made \in Int /\ made < MAX_ATTEMPTS
  <2>1. made \in Made(call[o])
    BY <1>3 DEF RetryDue, IsLatest
  <2> QED BY <1>1, <1>3, <2>1 DEF RetryDue, Made, Attempts
<1> HIDE DEF made
<1>4. n <= MAX_ATTEMPTS
  BY <1>2, <1>3 DEF MAX_ATTEMPTS
<1> QED BY <1>4 DEF Planned

LEMMA ReadBatchMatch ==
  ASSUME TypeOK, AttemptInv, CountInv, MatchInv, ReadBatch, UNCHANGED request
  PROVE  MatchInv'
<1>1. /\ UNCHANGED <<order, call, disp, resolved, giveUp>> /\ todo' = Candidates
      /\ giveUp = NoOrder
  BY DEF ReadBatch, tableVars, voiceVars, dispatcherVars
<1>2. ASSUME NEW c \in Candidates PROVE Planned(c.order, c.attempt)
  <2>1. c.order \in Orders /\ c.attempt \in Attempts /\ order[c.order] = "pending"
    BY DEF Candidates, Candidate, Batch, PendingFrom
  <2>2. CASE HasPending(call[c.order])
    BY <2>2 DEF Candidates, QueuedCall, Planned, Exists
  <2>3. CASE ~HasPending(call[c.order])
    <3>1. c.attempt = NextAttemptNumber(call[c.order], lag)
      BY <2>3 DEF Candidates
    <3> QED BY <2>1, <3>1, NextIsPlanned
  <2> QED BY <2>2, <2>3
<1>3. PlansFit'
  <2>1. \A c \in todo' : Planned(c.order, c.attempt)'
    BY <1>1, <1>2 DEF Planned, Alive
  <2>2. \A r \in Requests : request'[r].pc = "insert" =>
          \A c \in request'[r].rows : Planned(c[1], c[2])'
    BY <1>1 DEF MatchInv, PlansFit, Planned, Alive
  <2> QED BY <2>1, <2>2 DEF PlansFit
<1>4. OrdersFit' /\ ResultsKnown' /\ DispatchWaits' /\ GiveUpFits'
  BY <1>1 DEF MatchInv, OrdersFit, ResultsKnown, Alive, DispatchWaits, Waiting, GiveUpFits
<1> QED BY <1>3, <1>4 DEF MatchInv

LEMMA CreateCallMatch ==
  ASSUME TypeOK, AttemptInv, CountInv, MatchInv, NEW c \in todo, CreateCall(c), UNCHANGED request
  PROVE  MatchInv'
<1> DEFINE rows == {<<c.order, c.attempt>>}
<1>1. c.order \in Orders /\ c.attempt \in Attempts
  BY TodoIsCall DEF TypeOK
<1>2. /\ rows \in SUBSET (Orders \X Attempts) /\ InsertRows(rows)
      /\ UNCHANGED <<order, disp, resolved, giveUp>> /\ todo' \subseteq todo
  BY <1>1 DEF CreateCall, voiceVars, dispatcherVars
<1>3. \A d \in rows : OrderExists(d[1]) /\ Planned(d[1], d[2])
  BY DEF CreateCall, MatchInv, PlansFit
<1> HIDE DEF rows
<1>4. /\ \A p \in Orders : Kept(p)
      /\ \A p \in Orders, m \in Attempts : Waiting(p, m) => Waiting(p, m)'
  BY <1>2, <1>3, InsertKept DEF AttemptInv
<1>5. DispatchWaits' /\ GiveUpFits'
  BY <1>2, <1>4, WaitStays, GiveUpStays
<1> QED BY <1>2, <1>4, <1>5, MovedMatch DEF Kept

(* The poll dispatches a call that waits for a worker. *)
LEMMA DispatchCurrentMatch ==
  ASSUME TypeOK, AttemptInv, CountInv, MatchInv, NEW c \in todo, DispatchCurrent(c),
         UNCHANGED request
  PROVE  MatchInv'
<1>1. /\ UNCHANGED <<order, call, todo, giveUp, resolved>>
      /\ poll = "dispatch" /\ Enter(Poller, c.order, c.attempt)
  BY DEF DispatchCurrent, Enter, tableVars, voiceVars
<1>2. disp'[Poller].pc = "reading"
  BY <1>1 DEF Enter, TypeOK, DispatcherTypeOK, Callers
<1>4. DispatchWaits'
  BY <1>2 DEF DispatchWaits
<1>5. \A p \in Orders : Kept(p)
  BY <1>1, SameUntouched, UntouchedKept
<1> QED BY <1>1, <1>4, <1>5, GiveUpStays, MovedMatch DEF Kept

LEMMA PollStepMatch ==
  ASSUME TypeOK, AttemptInv, CountInv, MatchInv, Framed(PollStep)
  PROVE  MatchInv'
<1>1. UNCHANGED request /\ PollStep
  BY DEF Framed
<1>2. CASE Timer \/ StartPoll \/ StopLooking
  <2>1. /\ UNCHANGED <<order, call, disp, resolved>>
        /\ giveUp' = giveUp /\ todo' \subseteq todo
    BY <1>2 DEF Timer, Wake, StartPoll, StopLooking, EndPoll, tableVars, voiceVars, dispatcherVars
  <2> QED BY <1>1, <2>1, SameUntouched, QuietMatch
<1>3. CASE GiveUpOrder \/ ReadBatch \/ \E c \in stale : ExpireCall(c)
  BY <1>1, <1>3, GiveUpOrderMatch, ReadBatchMatch, ExpireCallMatch
<1>4. ASSUME NEW c \in todo, CreateCall(c) \/ DispatchCurrent(c) PROVE MatchInv'
  BY <1>1, <1>4, CreateCallMatch, DispatchCurrentMatch
<1>5. ASSUME NEW c \in todo, HasCapacity(c) \/ CreateFails(c) \/ DispatchRefused(c)
      PROVE  MatchInv'
  <2>1. /\ UNCHANGED <<order, call, disp, resolved>>
        /\ giveUp' = giveUp /\ todo' \subseteq todo
    BY <1>5 DEF HasCapacity, CreateFails, DispatchRefused, EndPoll, tableVars, voiceVars,
                dispatcherVars
  <2> QED BY <1>1, <2>1, SameUntouched, QuietMatch
<1> QED BY <1>1, <1>2, <1>3, <1>4, <1>5 DEF PollStep

-----------------------------------------------------------------------------
(* The workers and their callbacks *)
LEMMA WorkerStepMatch ==
  ASSUME TypeOK, AttemptInv, MatchInv, Framed(WorkerStep /\ UNCHANGED pollVars)
  PROVE  MatchInv'
<1>1. WorkerStep /\ UNCHANGED <<request, todo, giveUp>>
  BY DEF Framed, pollVars
<1>2. UNCHANGED <<order, call, disp>>
  BY <1>1 DEF WorkerStep, tableVars, dispatcherVars
<1>3. UNCHANGED resolved
  BY <1>1 DEF WorkerStep, WorkerStatus, WorkerReport, WorkerExit, WorkerDeath, LoseResult, LoseEvent
<1> QED BY <1>1, <1>2, <1>3, SameUntouched, QuietMatch

LEMMA HandleEventMatch ==
  ASSUME TypeOK, AttemptInv, MatchInv, NEW m \in events, HandleEvent(m),
         UNCHANGED <<pollVars, request>>
  PROVE  MatchInv'
<1>1. m[1][1] \in Orders /\ m[1][2] \in Attempts
  BY DEF TypeOK, VoiceTypeOK, Tasks
<1>2. UNCHANGED <<order, disp, resolved, todo, giveUp>>
  BY DEF HandleEvent, dispatcherVars, pollVars
<1>3. \A o \in Orders : Untouched(o)
  <2>1. CASE UNCHANGED call
    BY <1>2, <2>1, SameUntouched
  <2>2. CASE HasTask(m[1])
    <3>1. PICK o \in Orders, n \in Attempts : o = m[1][1] /\ n = m[1][2]
      BY <1>1
    <3>2. call[o][n] \in Row
      BY Tables
    <3>3. PICK row : /\ SetRow(o, n, row)
                     /\ row.status = call[o][n].status /\ row.task = call[o][n].task
                     /\ row.disposition = call[o][n].disposition
      <4> DEFINE ended(age) == IF m[2] = "ended" /\ age = NoTime THEN 0 ELSE age
                 moved == [call[o][n] EXCEPT !.phase = m[2], !.completed = ended(@)]
      <4>1. SetRow(o, n, moved)
        BY <2>2, <3>1 DEF HandleEvent
      <4>2. /\ moved.status = call[o][n].status /\ moved.task = call[o][n].task
            /\ moved.disposition = call[o][n].disposition
        BY <3>2 DEF Row
      <4> HIDE DEF moved
      <4> QED BY <4>1, <4>2
    <3>4. \A p \in Orders, k \in Attempts :
            call'[p][k] = IF p = o /\ k = n THEN row ELSE call[p][k]
      BY <3>3 DEF SetRow, TypeOK, TablesTypeOK
    <3> QED BY <1>2, <3>3, <3>4 DEF Untouched, Alike
  <2> QED BY <2>1, <2>2 DEF HandleEvent
<1> QED BY <1>2, <1>3, QuietMatch

(* A result is resolved by the task id in the row. *)
LEMMA LookUpResultMatch ==
  ASSUME TypeOK, AttemptInv, MatchInv, NEW m \in results, LookUpResult(m),
         UNCHANGED <<pollVars, request>>
  PROVE  MatchInv'
<1>1. UNCHANGED <<order, call, disp, todo, giveUp>>
  BY DEF LookUpResult, tableVars, dispatcherVars, pollVars
<1>2. ResultsKnown'
  <2>1. \A k \in resolved' : k \in resolved \/ HasTask(k[1])
    BY DEF LookUpResult
  <2> QED BY <1>1, <2>1 DEF MatchInv, ResultsKnown, HasTask, Alive
<1>3. OrdersFit' /\ DispatchWaits' /\ GiveUpFits' /\ PlansFit'
  BY <1>1 DEF MatchInv, OrdersFit, DispatchWaits, Waiting, GiveUpFits, GivenUp, Alive, PlansFit, Planned
<1> QED BY <1>2, <1>3 DEF MatchInv

(* A result closes the pending call that it was looked up for, and moves its order with it. *)
LEMMA ApplyCloses ==
  ASSUME TypeOK, AttemptInv, MatchInv, NEW m \in resolved, ApplyResult(m),
         StillPending(m[1][1], m[1][2])
  PROVE  \E o \in Orders, n \in Attempts : \E row :
           /\ o = m[1][1] /\ n = m[1][2]
           /\ call[o][n].status = "pending" /\ call[o][n].task # 0
           /\ row.task = call[o][n].task /\ ClosesCall(o, n, row)
<1>0. m[1][1] \in Orders /\ m[1][2] \in Attempts /\ m[2] \in Report
  BY VoiceAssumption DEF TypeOK, VoiceTypeOK, Tasks, WorkerFailure, Report, NoConfidence
<1>. PICK o \in Orders, n \in Attempts, report \in Report :
       o = m[1][1] /\ n = m[1][2] /\ report = m[2]
  BY <1>0
<1>1. call[o][n].status = "pending" /\ call[o][n] \in Row
  BY Tables DEF StillPending
<1>2. order[o] = "pending" /\ Exists(call[o][n])
  BY <1>1, PendingCallPendingOrder DEF MatchInv, OrdersFit, AttemptInv, Exists
<1>3. call[o][n].task # 0
  BY <1>2 DEF MatchInv, ResultsKnown, Alive
<1>. PICK row : row = ClosedRow(call[o][n], report, n)
  OBVIOUS
<1>4. /\ SetRow(o, n, row)
      /\ \/ Decisive(report) /\ MovePendingOrder(o, DecideOutcome(report))
         \/ ~Decisive(report) /\ n >= MAX_ATTEMPTS /\ MovePendingOrder(o, "unreachable")
         \/ ~Decisive(report) /\ UNCHANGED order
  BY <1>2 DEF ApplyResult
<1>5. /\ row.status = ResultStatus(report, n) /\ row.disposition = ResultDisposition(report, n)
      /\ row.task = call[o][n].task
  BY <1>1 DEF ClosedRow, Row
<1>6. /\ ResultStatus(report, n) \notin {"none", "pending"}
      /\ DecideOutcome(report) = "confirmed" => ResultDisposition(report, n) = "confirmed"
      /\ DecideOutcome(report) = "cancelled" => ResultDisposition(report, n) = "declined"
      /\ ~Decisive(report) => ResultDisposition(report, n) \in Undecided
  <2>1. ResultStatus(report, n) \notin {"none", "pending"}
    BY DEF ResultStatus
  <2>2. DecideOutcome(report) = "confirmed" => ResultDisposition(report, n) = "confirmed"
    BY DEF ResultDisposition, Decisive
  <2>3. DecideOutcome(report) = "cancelled" => ResultDisposition(report, n) = "declined"
    BY DEF ResultDisposition, Decisive
  <2>4. ASSUME ~Decisive(report) PROVE ResultDisposition(report, n) \in Undecided
    <3>1. DecideOutcome(report) \notin {"confirmed", "cancelled"}
      BY <2>4 DEF Decisive
    <3>2. DecideOutcome(report) = "no_answer" => report.disposition \in {"no_answer", "rejected", "error"}
      BY DEF DecideOutcome
    <3>3. ResultDisposition(report, n) \in {"needs_human", "ambiguous", "no_answer", "rejected", "error"}
      BY <3>1, <3>2 DEF ResultDisposition, Decisive
    <3> QED BY <3>3 DEF Undecided, Disposition
  <2> QED BY <2>1, <2>2, <2>3, <2>4
<1>7. ClosesCall(o, n, row)
  <2>1. \A p \in Orders : p # o => order'[p] = order[p]
    BY <1>4 DEF MovePendingOrder, TypeOK, TablesTypeOK
  <2>2. \A s : MovePendingOrder(o, s) => order'[o] = s
    BY <1>2 DEF MovePendingOrder, TypeOK, TablesTypeOK
  <2>3. \/ row.disposition \in Undecided /\ order'[o] = "pending"
        \/ row.disposition = "confirmed" /\ order'[o] = "confirmed"
        \/ row.disposition = "declined" /\ order'[o] = "cancelled"
        \/ row.disposition \in Undecided /\ n >= MAX_ATTEMPTS /\ order'[o] = "unreachable"
    <3>1. CASE Decisive(report)
      <4>1. order'[o] = DecideOutcome(report) /\ DecideOutcome(report) \in {"confirmed", "cancelled"}
        BY <1>4, <2>2, <3>1 DEF Decisive
      <4> QED BY <1>5, <1>6, <4>1
    <3>2. CASE ~Decisive(report)
      <4>1. row.disposition \in Undecided
        BY <1>5, <1>6, <3>2
      <4>2. \/ n >= MAX_ATTEMPTS /\ order'[o] = "unreachable"
            \/ order'[o] = "pending"
        BY <1>2, <1>4, <2>2, <3>2
      <4> QED BY <4>1, <4>2
    <3> QED BY <3>1, <3>2
  <2> QED BY <1>4, <1>5, <1>6, <2>1, <2>3 DEF ClosesCall
<1> QED BY <1>1, <1>3, <1>5, <1>7

(* The call of a result waits for no worker; no other order is moved by it. *)
LEMMA ApplyResultMatch ==
  ASSUME TypeOK, AttemptInv, CountInv, MatchInv, NEW m \in resolved, ApplyResult(m), Wake,
         UNCHANGED request
  PROVE  MatchInv'
<1>1. /\ UNCHANGED <<disp, todo, giveUp>> /\ resolved' \subseteq resolved
  BY DEF ApplyResult, Wake, dispatcherVars
<1>2. CASE ~StillPending(m[1][1], m[1][2])
  BY <1>1, <1>2, SameUntouched, QuietMatch DEF ApplyResult
<1>3. CASE StillPending(m[1][1], m[1][2])
  <2>1. PICK o \in Orders, n \in Attempts : \E row :
          /\ call[o][n].status = "pending" /\ call[o][n].task # 0
          /\ ClosesCall(o, n, row)
    BY <1>3, ApplyCloses
  <2>2. PICK row : /\ call[o][n].status = "pending" /\ call[o][n].task # 0
                   /\ ClosesCall(o, n, row)
    BY <2>1
  <2>3. \A p \in Orders : Kept(p)
    BY <2>2, ClosesKept DEF AttemptInv
  <2>4. DispatchWaits'
    <3>1. \A p \in Orders, k \in Attempts :
            call'[p][k] = IF p = o /\ k = n THEN row ELSE call[p][k]
      BY <2>2, ClosedRows
    <3>2. ASSUME NEW p \in Orders, NEW k \in Attempts, Waiting(p, k) PROVE Waiting(p, k)'
      BY <2>2, <3>1, <3>2 DEF Waiting
    <3> QED BY <1>1, <3>2, WaitStays
  <2>5. GiveUpFits'
    BY <1>1, <2>3, GiveUpStays
  <2> QED BY <1>1, <2>3, <2>4, <2>5, MovedMatch DEF Kept
<1> QED BY <1>2, <1>3

LEMMA CallbackStepMatch ==
  ASSUME TypeOK, AttemptInv, CountInv, MatchInv, Framed(CallbackStep)
  PROVE  MatchInv'
BY HandleEventMatch, LookUpResultMatch, ApplyResultMatch DEF Framed, CallbackStep

-----------------------------------------------------------------------------
(* The requests of the shops *)
LEMMA HoldMatch ==
  ASSUME TypeOK, AttemptInv, MatchInv, NEW r \in Requests, NEW where, NEW rows,
         Hold(r, where, rows),
         where = "insert" => \A c \in rows : Planned(c[1], c[2]),
         UNCHANGED <<order, call, disp, todo, giveUp, resolved>>
  PROVE  MatchInv'
<1>1. \A q \in Requests : request'[q] = IF q = r THEN [pc |-> where, rows |-> rows] ELSE request[q]
  BY DEF Hold, TypeOK, RequestsTypeOK
<1>2. \A q \in Requests : request'[q].pc = "insert" =>
        \A c \in request'[q].rows : Planned(c[1], c[2])'
  BY <1>1 DEF MatchInv, PlansFit, Planned, Alive
<1>3. \A c \in todo' : Planned(c.order, c.attempt)'
  BY DEF MatchInv, PlansFit, Planned, Alive
<1>4. OrdersFit' /\ ResultsKnown' /\ DispatchWaits' /\ GiveUpFits'
  BY DEF MatchInv, OrdersFit, ResultsKnown, Alive, DispatchWaits, Waiting, GiveUpFits, GivenUp
<1> QED BY <1>2, <1>3, <1>4 DEF MatchInv, PlansFit

LEMMA QueueableIsPlanned ==
  ASSUME TypeOK, NEW o \in Orders, NEW n \in Attempts, Queueable(o, n)
  PROVE  Planned(o, n)
BY NextIsPlanned DEF Queueable

LEMMA QueueReadMatch ==
  ASSUME TypeOK, AttemptInv, MatchInv, NEW r \in Requests, NEW o \in Orders, QueueRead(r, o)
  PROVE  MatchInv'
<1>1. PICK n \in Attempts : Queueable(o, n) /\ Hold(r, "insert", {<<o, n>>})
  BY DEF QueueRead
<1>2. Planned(o, n)
  BY <1>1, QueueableIsPlanned
<1> QED BY <1>1, <1>2, HoldMatch DEF QueueRead, tableVars, voiceVars, dispatcherVars, pollVars

LEMMA QueueAllReadMatch ==
  ASSUME TypeOK, AttemptInv, MatchInv, NEW r \in Requests, NEW s \in Shops, QueueAllRead(r, s)
  PROVE  MatchInv'
<1> DEFINE rows == {c \in Orders \X Attempts : ShopOf[c[1]] = s /\ Queueable(c[1], c[2])}
<1>1. Hold(r, "insert", rows) /\ UNCHANGED <<order, call, disp, todo, giveUp, resolved>>
  BY DEF QueueAllRead, tableVars, voiceVars, dispatcherVars, pollVars
<1>2. \A c \in rows : Planned(c[1], c[2])
  BY QueueableIsPlanned
<1> HIDE DEF rows
<1> QED BY <1>1, <1>2, HoldMatch

LEMMA RetryReadMatch ==
  ASSUME TypeOK, AttemptInv, MatchInv, NEW r \in Requests, NEW o \in Orders, RetryRead(r, o)
  PROVE  MatchInv'
<1>1. PICK n \in Attempts : Hold(r, "reopen", {<<o, n + 1>>})
  BY DEF RetryRead
<1> QED BY <1>1, HoldMatch DEF RetryRead, tableVars, voiceVars, dispatcherVars, pollVars

(* A request whose rows are written, and that is over. *)
LEMMA WrittenMatch ==
  ASSUME TypeOK, AttemptInv, MatchInv, NEW r \in Requests, Release(r),
         \A p \in Orders : Kept(p),
         \A p \in Orders, m \in Attempts : Waiting(p, m) => Waiting(p, m)',
         UNCHANGED <<disp, todo, giveUp, resolved>>
  PROVE  MatchInv'
<1>1. \A q \in Requests : request'[q].pc = "insert" => request'[q] = request[q]
  BY DEF Release, Resting, TypeOK, RequestsTypeOK
<1>2. DispatchWaits' /\ GiveUpFits'
  BY WaitStays, GiveUpStays
<1> QED BY <1>1, <1>2, MovedMatch DEF Kept

LEMMA QueueInsertMatch ==
  ASSUME TypeOK, AttemptInv, CountInv, MatchInv, NEW r \in Requests, QueueInsert(r)
  PROVE  MatchInv'
<1>1. /\ request[r].pc = "insert" /\ Release(r)
      /\ UNCHANGED <<order, disp, todo, giveUp, resolved>>
  BY DEF QueueInsert, voiceVars, dispatcherVars, pollVars
<1>2. CASE \A c \in request[r].rows : OrderExists(c[1])
  <2>1. InsertRows(request[r].rows) /\ request[r].rows \in SUBSET (Orders \X Attempts)
    BY <1>2, HeldRows DEF QueueInsert
  <2>2. \A c \in request[r].rows : OrderExists(c[1]) /\ Planned(c[1], c[2])
    BY <1>1, <1>2 DEF MatchInv, PlansFit
  <2>3. /\ \A p \in Orders : Kept(p)
        /\ \A p \in Orders, m \in Attempts : Waiting(p, m) => Waiting(p, m)'
    BY <1>1, <2>1, <2>2, InsertKept DEF AttemptInv
  <2> QED BY <1>1, <2>3, WrittenMatch
<1>3. CASE ~(\A c \in request[r].rows : OrderExists(c[1]))
  <2>1. UNCHANGED <<order, call>>
    BY <1>1, <1>3 DEF QueueInsert
  <2> QED BY <1>1, <2>1, SameUntouched, UntouchedKept, WrittenMatch
<1> QED BY <1>2, <1>3

LEMMA RetryCommitMatch ==
  ASSUME TypeOK, AttemptInv, CountInv, MatchInv, NEW r \in Requests, RetryCommit(r)
  PROVE  MatchInv'
<1> DEFINE rows == request[r].rows
           commits == \A c \in rows : order[c[1]] = "unreachable" /\ ~Exists(call[c[1]][c[2]])
<1>1. Release(r) /\ UNCHANGED <<disp, todo, giveUp, resolved>>
  BY DEF RetryCommit, voiceVars, dispatcherVars, pollVars
<1>2. CASE commits
  <2>1. /\ InsertRows(rows) /\ rows \in SUBSET (Orders \X Attempts)
        /\ order' = [o \in Orders |->
             IF \E c \in rows : c[1] = o THEN "pending" ELSE order[o]]
    BY <1>2, HeldRows DEF RetryCommit
  <2>2. \A c \in rows : order[c[1]] = "unreachable"
    BY <1>2
  <2>3. /\ \A p \in Orders : Kept(p)
        /\ \A p \in Orders, m \in Attempts : Waiting(p, m) => Waiting(p, m)'
    BY <2>1, <2>2, ReopenKept
  <2> QED BY <1>1, <2>3, WrittenMatch
<1>3. CASE ~commits
  <2>1. UNCHANGED <<order, call>>
    BY <1>3 DEF RetryCommit
  <2> QED BY <1>1, <2>1, SameUntouched, UntouchedKept, WrittenMatch
<1> QED BY <1>2, <1>3

(* The order that is placed has no call yet; the calls go with one that is deleted. *)
LEMMA PlaceOrderMatch ==
  ASSUME TypeOK, AttemptInv, CountInv, MatchInv, NEW o \in Orders, PlaceOrder(o)
  PROVE  MatchInv'
<1>1. /\ \A p \in Orders : order'[p] = IF p = o THEN "pending" ELSE order[p]
      /\ order[o] = "absent"
      /\ UNCHANGED <<call, disp, todo, giveUp, resolved, request>>
  BY DEF PlaceOrder, Wake, TypeOK, TablesTypeOK, voiceVars, dispatcherVars
<1>2. Fits(order[o], call[o])
  BY DEF MatchInv, OrdersFit
<1>3. \A n \in Attempts : ~Exists(call[o][n])
  BY <1>1, <1>2 DEF Fits
<1>4. \A n \in Attempts : call[o][n].disposition = "none"
  BY <1>2, <1>3 DEF Fits, Exists
<1>5. Fits("pending", call[o])
  BY <1>4, PendingFits
<1>6. Kept(o)
  <2>1. Fits(order[o], call[o])'
    BY <1>1, <1>5
  <2>2. Alive(o) /\ Alive(o)'
    BY <1>1 DEF Alive
  <2>3. \A n \in Attempts : ~Planned(o, n)
    BY <1>1, <1>3 DEF Planned, Alive
  <2>4. ~GivenUp(o)
    BY <1>1 DEF GivenUp, Alive
  <2> QED BY <1>1, <2>1, <2>2, <2>3, <2>4 DEF Kept, Moved
<1>7. ASSUME NEW p \in Orders, p # o PROVE Kept(p)
  <2>1. Untouched(p)
    BY <1>1, <1>7 DEF Untouched, Alike
  <2> QED BY <2>1, UntouchedKept
<1>8. DispatchWaits' /\ GiveUpFits'
  <2>1. \A p \in Orders, n \in Attempts : Waiting(p, n) => Waiting(p, n)'
    BY <1>1 DEF Waiting
  <2> QED BY <1>1, <1>6, <1>7, <2>1, WaitStays, GiveUpStays
<1> QED BY <1>1, <1>6, <1>7, <1>8, MovedMatch DEF Kept

LEMMA DeleteOrderMatch ==
  ASSUME TypeOK, AttemptInv, CountInv, MatchInv, NEW o \in Orders, DeleteOrder(o)
  PROVE  MatchInv'
<1>1. /\ \A p \in Orders : order'[p] = IF p = o THEN "deleted" ELSE order[p]
      /\ \A p \in Orders, n \in Attempts : call'[p][n] = IF p = o THEN NoRow ELSE call[p][n]
      /\ UNCHANGED <<disp, todo, giveUp, resolved, request>>
  BY DEF DeleteOrder, TypeOK, TablesTypeOK, voiceVars, dispatcherVars, pollVars
<1>2. Kept(o)
  <2>1. Fits("deleted", call'[o])
    BY <1>1 DEF Fits, Exists, NoRow
  <2>2. Fits(order[o], call[o])'
    BY <1>1, <2>1
  <2>3. ~Alive(o)'
    BY <1>1 DEF Alive
  <2> QED BY <2>2, <2>3 DEF Kept, Moved, Planned, GivenUp, Alive
<1>3. ASSUME NEW p \in Orders, p # o PROVE Kept(p)
  <2>1. Untouched(p)
    BY <1>1, <1>3 DEF Untouched, Alike
  <2> QED BY <2>1, UntouchedKept
<1>4. DispatchWaits' /\ GiveUpFits'
  <2>1. \A p \in Orders, n \in Attempts : Waiting(p, n) => Waiting(p, n)'
    BY <1>1 DEF Waiting, NoRow
  <2> QED BY <1>1, <1>2, <1>3, <2>1, WaitStays, GiveUpStays
<1> QED BY <1>1, <1>2, <1>3, <1>4, MovedMatch DEF Kept

LEMMA RequestStepMatch ==
  ASSUME TypeOK, AttemptInv, CountInv, MatchInv, RequestStep,
         "dispatch" \notin Operations, OrderEdits = {}, CallEdits = {}
  PROVE  MatchInv'
<1>1. ASSUME NEW s \in Shops, HoursPass(s) PROVE MatchInv'
  <2>1. UNCHANGED <<order, call, disp, todo, giveUp, resolved, request>>
    BY <1>1 DEF HoursPass, MoveWindow, voiceVars, dispatcherVars, pollVars
  <2> QED BY <2>1, SameUntouched, QuietMatch
<1>2. ASSUME NEW r \in Requests, NEW o \in Orders, NEW n \in Attempts, DispatchRequest(r, o, n)
      PROVE  FALSE
  BY <1>2 DEF DispatchRequest
<1> QED
  BY <1>1, <1>2, QueueReadMatch, QueueAllReadMatch, RetryReadMatch, QueueInsertMatch,
     RetryCommitMatch, PlaceOrderMatch, DeleteOrderMatch DEF RequestStep

-----------------------------------------------------------------------------
LEMMA TickMatch ==
  ASSUME TypeOK, AttemptInv, MatchInv, Tick
  PROVE  MatchInv'
<1>1. \A o \in Orders, n \in Attempts :
        /\ call'[o][n].status = call[o][n].status
        /\ call'[o][n].disposition = call[o][n].disposition
        /\ call'[o][n].task = call[o][n].task
  <2> SUFFICES ASSUME NEW o \in Orders, NEW n \in Attempts
               PROVE  /\ call'[o][n].status = call[o][n].status
                      /\ call'[o][n].disposition = call[o][n].disposition
                      /\ call'[o][n].task = call[o][n].task
    OBVIOUS
  <2>1. call'[o][n] = [call[o][n] EXCEPT !.dispatched = Older(@, MaxDispatchedAge),
                                         !.completed = Older(@, MaxCompletedAge)]
    BY DEF Tick, AgeRows
  <2>2. call[o][n] \in Row
    BY Tables
  <2> QED BY <2>1, <2>2 DEF Row
<1>2. \A o \in Orders : Untouched(o)
  BY <1>1 DEF Untouched, Alike, Tick
<1> QED BY <1>2, QuietMatch DEF Tick, voiceVars, dispatcherVars

LEMMA RestartMatch ==
  ASSUME TypeOK, MatchInv, Restart
  PROVE  MatchInv'
<1>1. /\ UNCHANGED <<order, call>> /\ resolved' = {} /\ todo' = {} /\ giveUp' = NoOrder
      /\ disp'[Poller].pc = "idle"
      /\ \A r \in Requests : request'[r].pc = "idle"
  BY DEF Restart, tableVars, NotDispatching, Resting, Callers
<1> QED BY <1>1 DEF MatchInv, OrdersFit, ResultsKnown, DispatchWaits, GiveUpFits, PlansFit

LEMMA InitMatch == Init => MatchInv
<1> SUFFICES ASSUME Init PROVE MatchInv
  OBVIOUS
<1>1. \A o \in Orders : order[o] = "absent" /\ \A n \in Attempts : call[o][n] = NoRow
  BY DEF Init, TablesInit
<1>2. OrdersFit
  BY <1>1 DEF OrdersFit, Fits, Exists, NoRow
<1>3. /\ resolved = {} /\ todo = {} /\ giveUp = NoOrder
      /\ disp[Poller].pc = "idle" /\ \A r \in Requests : request[r].pc = "idle"
  BY DEF Init, VoiceInit, OrchestratorInit, DispatcherInit, RequestsInit, NotDispatching,
         Resting, Callers
<1> QED BY <1>2, <1>3 DEF MatchInv, ResultsKnown, DispatchWaits, GiveUpFits, PlansFit

LEMMA NextMatch ==
  ASSUME TypeOK, AttemptInv, CountInv, MatchInv, [Next]_vars,
         "dispatch" \notin Operations, OrderEdits = {}, CallEdits = {}
  PROVE  MatchInv'
<1>1. CASE UNCHANGED vars
  <2>1. UNCHANGED <<order, call, disp, todo, giveUp, resolved, request>>
    BY <1>1 DEF vars, tableVars, voiceVars, dispatcherVars, pollVars
  <2> QED BY <2>1, SameUntouched, QuietMatch
<1>2. CASE Next
  BY <1>2, DispatchStepMatch, PollStepMatch, WorkerStepMatch, CallbackStepMatch,
     RequestStepMatch, TickMatch, RestartMatch DEF Next
<1> QED BY <1>1, <1>2

-----------------------------------------------------------------------------
LEMMA FitsIsMatch ==
  ASSUME TypeOK, MatchInv
  PROVE  OrderMatchesCalls
<1> SUFFICES ASSUME NEW o \in Orders
             PROVE  /\ Verdict(o) = IF order[o] \in {"confirmed", "cancelled"} THEN order[o] ELSE "none"
                    /\ order[o] = "unreachable" =>
                         Closed(call[o][MAX_ATTEMPTS]) /\ ~HasPending(call[o])
  BY DEF OrderMatchesCalls
<1> DEFINE decided == {n \in Attempts : call[o][n].disposition \in {"confirmed", "declined"}}
<1>1. Fits(order[o], call[o]) /\ DOMAIN call[o] = Attempts
  BY DEF MatchInv, OrdersFit, TypeOK, TablesTypeOK
<1>2. order[o] = "unreachable" => Closed(call[o][MAX_ATTEMPTS]) /\ ~HasPending(call[o])
  BY <1>1 DEF Fits, HasPending
<1>3. CASE decided = {}
  <2>1. order[o] \notin {"confirmed", "cancelled"}
    BY <1>1, <1>3 DEF Fits
  <2>2. Verdict(o) = "none"
    BY <1>3 DEF Verdict
  <2> QED BY <1>2, <2>1, <2>2
<1>4. CASE decided # {}
  <2>1. PICK n \in Attempts : n = CHOOSE m \in decided : TRUE
    BY <1>4
  <2>2. call[o][n].disposition \in {"confirmed", "declined"}
    BY <1>4, <2>1
  <2>3. \A m \in decided : IsLatest(call[o], m)
    BY <1>1 DEF Fits, Last, IsLatest, Made, Exists
  <2>4. Verdict(o) = IF call[o][n].disposition = "confirmed" THEN "confirmed" ELSE "cancelled"
    BY <1>4, <2>1, <2>3 DEF Verdict
  <2>5. order[o] = IF call[o][n].disposition = "confirmed" THEN "confirmed" ELSE "cancelled"
    BY <1>1, <2>2 DEF Fits
  <2> QED BY <1>2, <2>4, <2>5
<1> QED BY <1>3, <1>4

(***************************************************************************)
(* A confirmed (cancelled) order is one whose latest call confirmed         *)
(* (declined), no other order has such a call, and an unreachable order has *)
(* used its attempts: for any number of orders, attempts, requests and      *)
(* restarts, while the staff edits no status and dispatches no call by      *)
(* hand.                                                                    *)
(***************************************************************************)
THEOREM OrdersMatchHolds ==
  ASSUME "dispatch" \notin Operations, OrderEdits = {}, CallEdits = {}
  PROVE  Spec => []OrderMatchesCalls
<1>1. Inv /\ AttemptInv /\ [Next]_vars => AttemptInv'
  BY NextAttempts
<1>2. TypeOK /\ CountInv /\ [Next]_vars => CountInv'
  BY NextCount
<1>3. TypeOK /\ AttemptInv /\ CountInv /\ MatchInv /\ [Next]_vars => MatchInv'
  BY NextMatch
<1>4. TypeOK /\ MatchInv => OrderMatchesCalls
  BY FitsIsMatch
<1>5. Inv => TypeOK
  BY DEF Inv
<1> QED
  BY <1>1, <1>2, <1>3, <1>4, <1>5, InvHolds, InitAttempts, InitCount, InitMatch, PTL DEF Spec
-----------------------------------------------------------------------------
(***************************************************************************)
(* Every step of the subsystem is a step of OrderConfirmation, or one that  *)
(* the abstract specification does not see.  The attempts that were made    *)
(* are those up to the latest one, so that their number says which one is   *)
(* inserted next and whether the last one was used.                         *)
(***************************************************************************)

(* The abstract specification sees of an order's calls which there are and whether one is open. *)
Same(o) ==
  /\ Made(call'[o]) = Made(call[o])
  /\ HasPending(call'[o]) <=> HasPending(call[o])

PromiseStep == [Promise!Next]_(Promise!vars)

LEMMA CallDomains ==
  ASSUME TypeOK
  PROVE  /\ \A o \in Orders : DOMAIN call[o] = Attempts
         /\ order = [o \in Orders |-> order[o]]
BY DEF TypeOK, TablesTypeOK

LEMMA SameStutters ==
  ASSUME UNCHANGED order, \A o \in Orders : Same(o)
  PROVE  PromiseStep
BY DEF PromiseStep, Promise!vars, Same

LEMMA AlikeIsSame ==
  ASSUME TypeOK, TypeOK', NEW o \in Orders,
         \A n \in Attempts : call'[o][n].status = call[o][n].status
  PROVE  Same(o)
<1>1. DOMAIN call[o] = Attempts /\ DOMAIN call'[o] = Attempts
  BY DEF TypeOK, TablesTypeOK
<1> QED BY <1>1 DEF Same, Made, HasPending, Exists

LEMMA SameCallsStutter ==
  ASSUME UNCHANGED <<order, call>>
  PROVE  PromiseStep
BY SameStutters DEF Same

(* The attempts made, by the latest of them. *)
LEMMA MadeUpTo ==
  ASSUME TypeOK, OneOpenAttempt, NEW o \in Orders, NEW n \in Attempts
  PROVE  /\ IsFiniteSet(Made(call[o])) /\ Cardinality(Made(call[o])) \in Nat
         /\ Exists(call[o][n]) => Cardinality(Made(call[o])) >= n
         /\ ~Exists(call[o][n]) /\ (\A m \in Attempts : m < n => Exists(call[o][m])) =>
              Cardinality(Made(call[o])) = n - 1 /\ Made(call[o]) = 1..(n - 1)
<1>1. Made(call[o]) = {m \in Attempts : Exists(call[o][m])} /\ Attempts = 1..MaxRows /\ n \in Nat
  BY TablesAssumption DEF TypeOK, TablesTypeOK, Made, Attempts
<1>2. IsFiniteSet(Attempts)
  <2>1. 1 \in Int /\ MaxRows \in Int
    BY TablesAssumption
  <2>2. IsFiniteSet(1..MaxRows)
    BY <2>1, FS_Interval
  <2> QED BY <1>1, <2>2
<1>3. IsFiniteSet(Made(call[o])) /\ Cardinality(Made(call[o])) \in Nat
  BY <1>1, <1>2, FS_Subset, FS_CardinalityType
<1>4. ASSUME Exists(call[o][n]) PROVE Cardinality(Made(call[o])) >= n
  <2>1. ASSUME NEW m \in 1..n PROVE m \in Attempts /\ Exists(call[o][m])
    <3>1. m \in Attempts /\ m <= n
      BY <1>1, TablesAssumption
    <3> QED BY <1>4, <3>1, PlannedIsThere
  <2>2. 1..n \in SUBSET Made(call[o])
    BY <1>1, <2>1
  <2>3. Cardinality(1..n) = n
    BY <1>1, FS_Interval
  <2>4. Cardinality(1..n) <= Cardinality(Made(call[o]))
    BY <1>3, <2>2, FS_Subset
  <2> QED BY <1>1, <1>3, <2>3, <2>4
<1>5. ASSUME ~Exists(call[o][n]), \A m \in Attempts : m < n => Exists(call[o][m])
      PROVE  Cardinality(Made(call[o])) = n - 1 /\ Made(call[o]) = 1..(n - 1)
  <2>1. \A m \in Attempts : Exists(call[o][m]) => ~(n < m)
    BY <1>5 DEF OneOpenAttempt, Closed, Exists
  <2>2. \A m \in Attempts : Exists(call[o][m]) <=> m \in 1..(n - 1)
    BY <1>1, <1>5, <2>1
  <2>3. 1..(n - 1) \subseteq Attempts
    BY <1>1, TablesAssumption
  <2>4. Made(call[o]) = 1..(n - 1)
    BY <1>1, <2>2, <2>3, Zenon
  <2>5. Cardinality(1..(n - 1)) = n - 1
    BY <1>1, FS_Interval
  <2> QED BY <2>4, <2>5
<1> QED BY <1>3, <1>4, <1>5

(* A pending call ends, and its order moves with it or not. *)
LEMMA ClosesPromise ==
  ASSUME TypeOK, TypeOK', AttemptInv, MatchInv, NEW o \in Orders, NEW n \in Attempts, NEW row,
         call[o][n].status = "pending", ClosesCall(o, n, row)
  PROVE  PromiseStep
<1>1. \A p \in Orders, m \in Attempts :
        call'[p][m] = IF p = o /\ m = n THEN row ELSE call[p][m]
  BY ClosedRows
<1>2. \A p \in Orders : DOMAIN call[p] = Attempts /\ DOMAIN call'[p] = Attempts
  BY DEF TypeOK, TablesTypeOK
<1>3. \A p \in Orders : Made(call'[p]) = Made(call[p])
  BY <1>1, <1>2 DEF Made, Exists, ClosesCall
<1>4. HasPending(call[o]) /\ ~HasPending(call'[o])
  BY <1>1, <1>2, PendingIsLast DEF HasPending, ClosesCall, AttemptInv
<1>5. \A p \in Orders : p # o => (HasPending(call'[p]) <=> HasPending(call[p]))
  BY <1>1, <1>2 DEF HasPending
<1>6. {p \in Orders : HasPending(call'[p])} = {p \in Orders : HasPending(call[p])} \ {o}
  BY <1>4, <1>5
<1>7. [p \in Orders |-> Cardinality(Made(call'[p]))] = [p \in Orders |-> Cardinality(Made(call[p]))]
  BY <1>3
<1>8. order[o] = "pending"
  BY PendingCallPendingOrder DEF AttemptInv, MatchInv, OrdersFit
<1>9. order' = [order EXCEPT ![o] = order'[o]]
  BY DEF ClosesCall, TypeOK, TablesTypeOK
<1>10. CASE order'[o] = "pending"
  <2>1. order' = order
    BY <1>8, <1>9, <1>10 DEF TypeOK, TablesTypeOK
  <2>2. Promise!EndWithout(o)
    BY <1>4, <1>6, <1>7, <2>1 DEF Promise!EndWithout
  <2> QED BY <2>2 DEF PromiseStep, Promise!Next
<1>11. ASSUME NEW decision \in {"confirmed", "cancelled"}, order'[o] = decision
       PROVE  PromiseStep
  <2>1. Promise!EndWith(o, decision)
    BY <1>4, <1>6, <1>7, <1>8, <1>9, <1>11 DEF Promise!EndWith, Promise!Set
  <2> QED BY <2>1 DEF PromiseStep, Promise!Next
<1>12. CASE order'[o] = "unreachable" /\ n >= MAX_ATTEMPTS
  <2>1. Cardinality(Made(call[o])) >= MAX_ATTEMPTS
    <3>1. Cardinality(Made(call[o])) >= n /\ Cardinality(Made(call[o])) \in Nat
      BY MadeUpTo DEF AttemptInv, Exists
    <3> QED BY <1>12, <3>1, TablesAssumption DEF Attempts, MAX_ATTEMPTS
  <2>2. Promise!GiveUp(o)
    BY <1>6, <1>7, <1>8, <1>9, <1>12, <2>1 DEF Promise!GiveUp, Promise!Set
  <2> QED BY <2>2 DEF PromiseStep, Promise!Next
<1> QED BY <1>10, <1>11, <1>12 DEF ClosesCall

(* Planned attempts are inserted: their orders are pending, below the cap and not called now. *)
LEMMA InsertPromise ==
  ASSUME TypeOK, TypeOK', AttemptInv, NEW rows \in SUBSET (Orders \X Attempts),
         InsertRows(rows), UNCHANGED order,
         \A c \in rows : OrderExists(c[1]) /\ Planned(c[1], c[2]) /\ Sound(c[1], c[2])
  PROVE  PromiseStep
<1>1. \A o \in Orders, n \in Attempts :
        call'[o][n] = IF <<o, n>> \in rows /\ ~Exists(call[o][n]) THEN NewRow ELSE call[o][n]
  BY DEF InsertRows
<1>2. NewRow.status = "pending" /\ Exists(NewRow)
  BY DEF NewRow, NoRow, Exists
<1>3. \A o \in Orders : DOMAIN call[o] = Attempts /\ DOMAIN call'[o] = Attempts
  BY DEF TypeOK, TablesTypeOK
<1>4. PICK S : S = {o \in Orders : \E n \in Attempts : <<o, n>> \in rows /\ ~Exists(call[o][n])}
  OBVIOUS
<1>5. ASSUME NEW o \in Orders, o \notin S PROVE Same(o)
  <2>1. \A n \in Attempts : call'[o][n].status = call[o][n].status
    BY <1>1, <1>4, <1>5
  <2> QED BY <2>1, AlikeIsSame
<1>6. ASSUME NEW o \in S
      PROVE  /\ order[o] = "pending" /\ Cardinality(Made(call[o])) < MAX_ATTEMPTS
             /\ Cardinality(Made(call'[o])) = Cardinality(Made(call[o])) + 1
             /\ ~HasPending(call[o]) /\ HasPending(call'[o])
  <2>1. o \in Orders
    BY <1>4
  <2>2. PICK n \in Attempts : <<o, n>> \in rows /\ ~Exists(call[o][n])
    BY <1>4
  <2>3. OrderExists(o) /\ Planned(o, n) /\ Sound(o, n)
    BY <2>2
  <2>4. order[o] = "pending" /\ n <= MAX_ATTEMPTS
    BY <2>2, <2>3 DEF Planned, OrderExists, Alive
  <2>5. \A m \in Attempts : m < n => Closed(call[o][m])
    BY <2>4, <2>3 DEF Sound
  <2>6. /\ IsFiniteSet(Made(call[o])) /\ Cardinality(Made(call[o])) = n - 1
        /\ Made(call[o]) = 1..(n - 1)
    BY <2>1, <2>2, <2>5, MadeUpTo DEF AttemptInv, Closed, Exists
  <2>7. n \in Nat
    BY TablesAssumption DEF Attempts
  <2>8. ~HasPending(call[o])
    <3>1. ASSUME NEW m \in Attempts, call[o][m].status = "pending" PROVE FALSE
      <4>1. m \in Made(call[o])
        BY <1>3, <2>1, <3>1 DEF Made, Exists
      <4>2. m < n
        BY <2>6, <2>7, <4>1
      <4> QED BY <2>5, <3>1, <4>2 DEF Closed
    <3> QED BY <1>3, <2>1, <3>1 DEF HasPending
  <2>9. \A m \in Attempts : <<o, m>> \in rows /\ ~Exists(call[o][m]) => m = n
    <3>1. ASSUME NEW m \in Attempts, <<o, m>> \in rows, ~Exists(call[o][m]) PROVE m = n
      <4>1. ~(m < n)
        BY <2>5, <3>1 DEF Closed, Exists
      <4>2. ~(n < m)
        <5>1. Sound(o, m)
          BY <3>1
        <5> QED BY <2>2, <2>4, <5>1 DEF Sound, Closed, Exists
      <4> QED BY <4>1, <4>2, TablesAssumption DEF Attempts
    <3> QED BY <3>1
  <2>10. \A m \in Attempts : Exists(call'[o][m]) <=> Exists(call[o][m]) \/ m = n
    BY <1>1, <1>2, <2>1, <2>2, <2>9
  <2>11. Made(call'[o]) = Made(call[o]) \cup {n}
    BY <1>3, <2>1, <2>10 DEF Made
  <2>12. n \notin Made(call[o])
    BY <2>2 DEF Made
  <2>13. Cardinality(Made(call'[o])) = Cardinality(Made(call[o])) + 1
    BY <2>6, <2>11, <2>12, FS_AddElement
  <2>14. HasPending(call'[o])
    BY <1>1, <1>2, <1>3, <2>1, <2>2 DEF HasPending
  <2>15. Cardinality(Made(call[o])) < MAX_ATTEMPTS
    BY <2>4, <2>6, <2>7 DEF MAX_ATTEMPTS
  <2> QED BY <2>4, <2>8, <2>13, <2>14, <2>15
<1>7. S \in SUBSET Orders
  BY <1>4
<1>8. {o \in Orders : HasPending(call'[o])} = {o \in Orders : HasPending(call[o])} \cup S
  BY <1>5, <1>6, <1>7 DEF Same
<1>9. \A o \in Orders : Cardinality(Made(call'[o])) =
        IF o \in S THEN Cardinality(Made(call[o])) + 1 ELSE Cardinality(Made(call[o]))
  BY <1>5, <1>6 DEF Same
<1>10. Promise!Call(S)
  BY <1>6, <1>7, <1>8, <1>9 DEF Promise!Call
<1> QED BY <1>7, <1>10 DEF PromiseStep, Promise!Next

(* A transaction of the manual retry reopens one order. *)
Reopening ==
  \A r \in Requests : request[r].pc = "reopen" =>
    \E o \in Orders, n \in Attempts : request[r].rows = {<<o, n>>}

LEMMA ReopenPromise ==
  ASSUME TypeOK, TypeOK', MatchInv, NEW o \in Orders, NEW n \in Attempts,
         InsertRows({<<o, n>>}), order[o] = "unreachable", ~Exists(call[o][n]),
         order' = [order EXCEPT ![o] = "pending"]
  PROVE  PromiseStep
<1>1. \A p \in Orders, m \in Attempts :
        call'[p][m] = IF p = o /\ m = n THEN NewRow ELSE call[p][m]
  BY DEF InsertRows
<1>2. NewRow.status = "pending" /\ Exists(NewRow)
  BY DEF NewRow, NoRow, Exists
<1>3. \A p \in Orders : DOMAIN call[p] = Attempts /\ DOMAIN call'[p] = Attempts
  BY DEF TypeOK, TablesTypeOK
<1>4. \A p \in Orders : p # o => Same(p)
  BY <1>1, AlikeIsSame
<1>5. Made(call'[o]) = Made(call[o]) \cup {n} /\ n \notin Made(call[o])
  BY <1>1, <1>2, <1>3 DEF Made
<1>6. IsFiniteSet(Made(call[o]))
  <2>1. Made(call[o]) \in SUBSET (1..MaxRows) /\ MaxRows \in Int /\ 1 \in Int
    BY <1>3, TablesAssumption DEF Made, Attempts
  <2> QED BY <2>1, FS_Interval, FS_Subset
<1>7. Cardinality(Made(call'[o])) = Cardinality(Made(call[o])) + 1
  BY <1>5, <1>6, FS_AddElement
<1>8. ~HasPending(call[o]) /\ HasPending(call'[o])
  <2>1. Fits(order[o], call[o])
    BY DEF MatchInv, OrdersFit
  <2> QED BY <1>1, <1>2, <1>3, <2>1 DEF Fits, HasPending
<1>9. {p \in Orders : HasPending(call'[p])} = {p \in Orders : HasPending(call[p])} \cup {o}
  BY <1>4, <1>8 DEF Same
<1>10. [p \in Orders |-> Cardinality(Made(call'[p]))] =
         [[p \in Orders |-> Cardinality(Made(call[p]))] EXCEPT ![o] = @ + 1]
  <2>1. \A p \in Orders : Cardinality(Made(call'[p])) =
          IF p = o THEN Cardinality(Made(call[p])) + 1 ELSE Cardinality(Made(call[p]))
    BY <1>4, <1>7 DEF Same
  <2> QED BY <2>1
<1>11. Promise!Reopen(o)
  BY <1>8, <1>9, <1>10 DEF Promise!Reopen, Promise!Set
<1> QED BY <1>11 DEF PromiseStep, Promise!Next

-----------------------------------------------------------------------------
(* The steps *)
LEMMA DispatchStepPromise ==
  ASSUME TypeOK, TypeOK', AttemptInv, CountInv, MatchInv, NEW c \in Callers, Framed(DispatchStep(c))
  PROVE  PromiseStep
<1>1. DispatchStep(c)
  BY DEF Framed
<1>2. disp[c].pc # "idle"
  BY <1>1 DEF DispatchStep, Check, Refuse, Launch, Reject, Defer, Record, IssueTask
<1>3. c = Poller
  BY <1>2, OnlyThePollDispatches
<1>4. CASE Record(c) /\ Exists(call[disp[Poller].call[1]][disp[Poller].call[2]])
  <2>1. CASE \A p \in Orders : Alike(p)
    <3>1. \A p \in Orders : Same(p)
      BY <2>1, AlikeIsSame DEF Alike
    <3> QED BY <1>4, <3>1, SameStutters DEF Record
  <2>2. CASE \E p \in Orders, m \in Attempts : \E row :
               call[p][m].status = "pending" /\ ClosesCall(p, m, row)
    BY <2>2, ClosesPromise
  <2> QED BY <1>3, <1>4, <2>1, <2>2, RecordCloses
<1>5. CASE ~(Record(c) /\ Exists(call[disp[Poller].call[1]][disp[Poller].call[2]]))
  BY <1>1, <1>3, <1>5, SameCallsStutter
     DEF DispatchStep, Check, Refuse, Launch, Reject, Defer, Record, tableVars
<1> QED BY <1>4, <1>5

LEMMA ExpireCallPromise ==
  ASSUME TypeOK, TypeOK', AttemptInv, MatchInv, NEW c \in stale, ExpireCall(c)
  PROVE  PromiseStep
<1>1. PICK o \in Orders, n \in Attempts : c[1] = o /\ c[2] = n
  BY StaleIsCall DEF TypeOK
<1>2. UNCHANGED order
  BY DEF ExpireCall
<1>3. CASE ~StillPending(o, n)
  BY <1>1, <1>2, <1>3, SameCallsStutter DEF ExpireCall
<1>4. CASE StillPending(o, n)
  <2>1. PICK row : row = ExpiredRow(call[o][n])
    OBVIOUS
  <2>2. SetRow(o, n, row)
    BY <1>1, <1>4, <2>1 DEF ExpireCall
  <2>3. call[o][n].status = "pending" /\ call[o][n] \in Row
    BY <1>4, Tables DEF StillPending
  <2>4. row.status = "no_answer" /\ row.disposition = "no_answer" /\ row.task = call[o][n].task
    BY <2>1, <2>3 DEF ExpiredRow, Row
  <2>5. order[o] = "pending"
    BY <2>3, PendingCallPendingOrder DEF AttemptInv, MatchInv, OrdersFit
  <2>6. ClosesCall(o, n, row)
    BY <1>2, <2>2, <2>4, <2>5 DEF ClosesCall, Undecided, Disposition
  <2> QED BY <2>3, <2>6, ClosesPromise
<1> QED BY <1>3, <1>4

LEMMA GiveUpOrderPromise ==
  ASSUME TypeOK, TypeOK', AttemptInv, MatchInv, GiveUpOrder
  PROVE  PromiseStep
<1>1. PICK o \in Orders : o = giveUp
  BY DEF GiveUpOrder, TypeOK, OrchestratorTypeOK
<1>2. /\ UNCHANGED call /\ GivenUp(o)
      /\ order' = [order EXCEPT ![o] = IF @ = "pending" THEN "unreachable" ELSE @]
  BY <1>1 DEF GiveUpOrder, MovePendingOrder, MatchInv, GiveUpFits
<1>3. CASE order[o] # "pending"
  <2>1. UNCHANGED order
    BY <1>2, <1>3 DEF TypeOK, TablesTypeOK
  <2> QED BY <1>2, <2>1, SameCallsStutter
<1>4. CASE order[o] = "pending"
  <2>1. Closed(call[o][MAX_ATTEMPTS]) /\ \A n \in Attempts : call[o][n].status # "pending"
    BY <1>2, <1>4 DEF GivenUp, Alive
  <2>2. order' = [order EXCEPT ![o] = "unreachable"]
    BY <1>2, <1>4
  <2>3. ~HasPending(call[o])
    BY <2>1 DEF HasPending, TypeOK, TablesTypeOK
  <2>4. Cardinality(Made(call[o])) >= MAX_ATTEMPTS
    BY <2>1, MadeUpTo, Tables DEF AttemptInv, Closed, Exists
  <2>5. Promise!GiveUp(o)
    BY <1>2, <1>4, <2>2, <2>3, <2>4 DEF Promise!GiveUp, Promise!Set
  <2> QED BY <2>5 DEF PromiseStep, Promise!Next
<1> QED BY <1>3, <1>4

LEMMA PollStepPromise ==
  ASSUME TypeOK, TypeOK', AttemptInv, CountInv, MatchInv, Framed(PollStep)
  PROVE  PromiseStep
<1>1. PollStep
  BY DEF Framed
<1>2. CASE Timer \/ StartPoll \/ ReadBatch \/ StopLooking
  BY <1>2, SameCallsStutter DEF Timer, StartPoll, ReadBatch, StopLooking, tableVars
<1>3. CASE GiveUpOrder \/ \E c \in stale : ExpireCall(c)
  BY <1>3, GiveUpOrderPromise, ExpireCallPromise
<1>4. ASSUME NEW c \in todo, CreateCall(c) PROVE PromiseStep
  <2>1. c.order \in Orders /\ c.attempt \in Attempts
    BY TodoIsCall DEF TypeOK
  <2>2. PICK rows \in SUBSET (Orders \X Attempts) : rows = {<<c.order, c.attempt>>}
    <3>1. {<<c.order, c.attempt>>} \in SUBSET (Orders \X Attempts)
      BY <2>1
    <3> QED BY <3>1
  <2>3. InsertRows({<<c.order, c.attempt>>}) /\ UNCHANGED order
    BY <1>4 DEF CreateCall
  <2>4. InsertRows(rows) /\ UNCHANGED order
    BY <2>2, <2>3, Zenon DEF InsertRows
  <2>5. \A d \in rows : OrderExists(d[1]) /\ Planned(d[1], d[2]) /\ Sound(d[1], d[2])
    BY <1>4, <2>2 DEF CreateCall, MatchInv, PlansFit, AttemptInv
  <2> QED BY <2>3, <2>4, <2>5, InsertPromise
<1>5. ASSUME NEW c \in todo,
             HasCapacity(c) \/ CreateFails(c) \/ DispatchCurrent(c) \/ DispatchRefused(c)
      PROVE  PromiseStep
  BY <1>5, SameCallsStutter
     DEF HasCapacity, CreateFails, DispatchCurrent, Enter, DispatchRefused, tableVars
<1> QED BY <1>1, <1>2, <1>3, <1>4, <1>5 DEF PollStep

LEMMA CallbackStepPromise ==
  ASSUME TypeOK, TypeOK', AttemptInv, MatchInv, Framed(CallbackStep)
  PROVE  PromiseStep
<1>1. CallbackStep
  BY DEF Framed
<1>2. ASSUME NEW m \in events, HandleEvent(m) PROVE PromiseStep
  <2>1. m[1][1] \in Orders /\ m[1][2] \in Attempts
    BY DEF TypeOK, VoiceTypeOK, Tasks
  <2>2. ASSUME NEW o \in Orders, NEW n \in Attempts PROVE call'[o][n].status = call[o][n].status
    <3>1. CASE UNCHANGED call
      BY <3>1
    <3>2. CASE HasTask(m[1])
      <4>1. PICK p \in Orders, k \in Attempts : p = m[1][1] /\ k = m[1][2]
        BY <2>1
      <4>2. PICK row : SetRow(p, k, row) /\ row.status = call[p][k].status
        <5>1. call[p][k] \in Row
          BY Tables
        <5> DEFINE ended(age) == IF m[2] = "ended" /\ age = NoTime THEN 0 ELSE age
                   moved == [call[p][k] EXCEPT !.phase = m[2], !.completed = ended(@)]
        <5>2. SetRow(p, k, moved)
          BY <1>2, <3>2, <4>1 DEF HandleEvent
        <5>3. moved.status = call[p][k].status
          BY <5>1 DEF Row
        <5> HIDE DEF moved
        <5> QED BY <5>2, <5>3
      <4>3. call'[o][n] = IF o = p /\ n = k THEN row ELSE call[o][n]
        BY <4>2 DEF SetRow, TypeOK, TablesTypeOK
      <4> QED BY <4>2, <4>3
    <3> QED BY <1>2, <3>1, <3>2 DEF HandleEvent
  <2>3. \A o \in Orders : Same(o)
    BY <2>2, AlikeIsSame
  <2> QED BY <1>2, <2>3, SameStutters DEF HandleEvent
<1>3. ASSUME NEW m \in results, LookUpResult(m) PROVE PromiseStep
  BY <1>3, SameCallsStutter DEF LookUpResult, tableVars
<1>4. ASSUME NEW m \in resolved, ApplyResult(m) PROVE PromiseStep
  <2>1. CASE ~StillPending(m[1][1], m[1][2])
    BY <1>4, <2>1, SameCallsStutter DEF ApplyResult
  <2>2. CASE StillPending(m[1][1], m[1][2])
    <3>1. PICK o \in Orders, n \in Attempts : \E row :
            call[o][n].status = "pending" /\ ClosesCall(o, n, row)
      BY <1>4, <2>2, ApplyCloses
    <3> QED BY <3>1, ClosesPromise
  <2> QED BY <2>1, <2>2
<1> QED BY <1>1, <1>2, <1>3, <1>4 DEF CallbackStep

LEMMA DeleteOrderPromise ==
  ASSUME TypeOK, TypeOK', NEW o \in Orders, DeleteOrder(o)
  PROVE  PromiseStep
<1>1. /\ order' = [order EXCEPT ![o] = "deleted"]
      /\ order[o] \notin {"absent", "deleted"}
      /\ \A p \in Orders, n \in Attempts : call'[p][n] = IF p = o THEN NoRow ELSE call[p][n]
  BY DEF DeleteOrder, OrderExists, TypeOK, TablesTypeOK
<1>2. \A p \in Orders : p # o => Same(p)
  BY <1>1, AlikeIsSame
<1>3. Made(call'[o]) = {} /\ ~HasPending(call'[o])
  BY <1>1 DEF Made, HasPending, Exists, NoRow, TypeOK, TablesTypeOK
<1>4. Cardinality(Made(call'[o])) = 0
  BY <1>3, FS_EmptySet
<1>5. {p \in Orders : HasPending(call'[p])} = {p \in Orders : HasPending(call[p])} \ {o}
  BY <1>2, <1>3 DEF Same
<1>6. [p \in Orders |-> Cardinality(Made(call'[p]))] =
        [[p \in Orders |-> Cardinality(Made(call[p]))] EXCEPT ![o] = 0]
  <2>1. \A p \in Orders : Cardinality(Made(call'[p])) =
          IF p = o THEN 0 ELSE Cardinality(Made(call[p]))
    BY <1>2, <1>4 DEF Same
  <2> QED BY <2>1
<1>7. Promise!Remove(o)
  BY <1>1, <1>5, <1>6 DEF Promise!Remove, Promise!Set
<1> QED BY <1>7 DEF PromiseStep, Promise!Next

LEMMA RequestStepPromise ==
  ASSUME TypeOK, TypeOK', AttemptInv, MatchInv, Reopening, RequestStep,
         "dispatch" \notin Operations, OrderEdits = {}, CallEdits = {}
  PROVE  PromiseStep
<1>1. ASSUME NEW r \in Requests,
             \/ \E o \in Orders : QueueRead(r, o) \/ RetryRead(r, o)
             \/ \E s \in Shops : QueueAllRead(r, s)
      PROVE  PromiseStep
  BY <1>1, SameCallsStutter DEF QueueRead, RetryRead, QueueAllRead, tableVars
<1>2. ASSUME NEW r \in Requests, QueueInsert(r) PROVE PromiseStep
  <2>1. CASE \A c \in request[r].rows : OrderExists(c[1])
    <3>1. PICK rows \in SUBSET (Orders \X Attempts) : rows = request[r].rows
      BY HeldRows
    <3>2. InsertRows(rows) /\ UNCHANGED order
      BY <1>2, <2>1, <3>1 DEF QueueInsert
    <3>3. \A c \in rows : OrderExists(c[1]) /\ Planned(c[1], c[2]) /\ Sound(c[1], c[2])
      BY <1>2, <2>1, <3>1 DEF QueueInsert, MatchInv, PlansFit, AttemptInv
    <3> QED BY <3>2, <3>3, InsertPromise
  <2>2. CASE ~(\A c \in request[r].rows : OrderExists(c[1]))
    BY <1>2, <2>2, SameCallsStutter DEF QueueInsert
  <2> QED BY <2>1, <2>2
<1>3. ASSUME NEW r \in Requests, RetryCommit(r) PROVE PromiseStep
  <2>1. PICK o \in Orders, n \in Attempts : request[r].rows = {<<o, n>>}
    BY <1>3 DEF RetryCommit, Reopening
  <2>2. CASE order[o] = "unreachable" /\ ~Exists(call[o][n])
    <3>1. InsertRows({<<o, n>>})
      BY <1>3, <2>1, <2>2 DEF RetryCommit
    <3>2. order' = [p \in Orders |-> IF \E c \in {<<o, n>>} : c[1] = p THEN "pending" ELSE order[p]]
      BY <1>3, <2>1, <2>2 DEF RetryCommit
    <3>3. order' = [order EXCEPT ![o] = "pending"]
      BY <3>2 DEF TypeOK, TablesTypeOK
    <3> QED BY <2>2, <3>1, <3>3, ReopenPromise
  <2>3. CASE ~(order[o] = "unreachable" /\ ~Exists(call[o][n]))
    BY <1>3, <2>1, <2>3, SameCallsStutter DEF RetryCommit
  <2> QED BY <2>2, <2>3
<1>4. ASSUME NEW o \in Orders, PlaceOrder(o) PROVE PromiseStep
  <2>1. Promise!Place(o)
    BY <1>4 DEF PlaceOrder, Promise!Place, Promise!Set
  <2> QED BY <2>1 DEF PromiseStep, Promise!Next
<1>5. ASSUME NEW s \in Shops, HoursPass(s) PROVE PromiseStep
  BY <1>5, SameCallsStutter DEF HoursPass, MoveWindow
<1>6. ASSUME NEW r \in Requests, NEW o \in Orders, NEW n \in Attempts, DispatchRequest(r, o, n)
      PROVE  FALSE
  BY <1>6 DEF DispatchRequest
<1> QED
  BY <1>1, <1>2, <1>3, <1>4, <1>5, <1>6, DeleteOrderPromise DEF RequestStep

LEMMA TickPromise ==
  ASSUME TypeOK, TypeOK', Tick
  PROVE  PromiseStep
<1>1. ASSUME NEW o \in Orders, NEW n \in Attempts PROVE call'[o][n].status = call[o][n].status
  <2>1. call'[o][n] = [call[o][n] EXCEPT !.dispatched = Older(@, MaxDispatchedAge),
                                         !.completed = Older(@, MaxCompletedAge)]
    BY DEF Tick, AgeRows
  <2>2. call[o][n] \in Row
    BY Tables
  <2> QED BY <2>1, <2>2 DEF Row
<1>2. \A o \in Orders : Same(o)
  BY <1>1, AlikeIsSame
<1> QED BY <1>2, SameStutters DEF Tick

LEMMA NextPromise ==
  ASSUME TypeOK, TypeOK', AttemptInv, CountInv, MatchInv, Reopening, [Next]_vars,
         "dispatch" \notin Operations, OrderEdits = {}, CallEdits = {}
  PROVE  PromiseStep
<1>1. CASE UNCHANGED vars
  BY <1>1, SameCallsStutter DEF vars, tableVars
<1>2. CASE Framed(WorkerStep /\ UNCHANGED pollVars) \/ Restart
  BY <1>2, SameCallsStutter DEF Framed, WorkerStep, Restart, tableVars
<1>3. CASE Next
  BY <1>2, <1>3, DispatchStepPromise, PollStepPromise, CallbackStepPromise,
     RequestStepPromise, TickPromise DEF Next
<1> QED BY <1>1, <1>3

(* Only the read of the manual retry plans to reopen, and it plans one order. *)
LEMMA NextReopening ==
  ASSUME TypeOK, Reopening, [Next]_vars
  PROVE  Reopening'
<1>1. CASE UNCHANGED request
  BY <1>1 DEF Reopening
<1>2. ASSUME NEW r \in Requests, NEW where, NEW rows, Hold(r, where, rows),
             where = "reopen" => \E o \in Orders, n \in Attempts : rows = {<<o, n>>}
      PROVE  Reopening'
  <2>1. \A q \in Requests : request'[q] = IF q = r THEN [pc |-> where, rows |-> rows] ELSE request[q]
    BY <1>2 DEF Hold, TypeOK, RequestsTypeOK
  <2> QED BY <1>2, <2>1 DEF Reopening
<1>3. ASSUME NEW r \in Requests, Release(r) PROVE Reopening'
  <2>1. \A q \in Requests : request'[q] = request[q] \/ request'[q].pc = "idle"
    BY <1>3 DEF Release, Resting, TypeOK, RequestsTypeOK
  <2> QED BY <2>1 DEF Reopening
<1>4. ASSUME NEW r \in Requests, NEW o \in Orders, QueueRead(r, o) PROVE Reopening'
  <2>1. PICK n \in Attempts : Hold(r, "insert", {<<o, n>>})
    BY <1>4 DEF QueueRead
  <2> QED BY <1>2, <2>1
<1>5. ASSUME NEW r \in Requests, NEW o \in Orders, RetryRead(r, o) PROVE Reopening'
  <2>1. PICK n \in Attempts : n < MaxRows /\ Hold(r, "reopen", {<<o, n + 1>>})
    BY <1>5 DEF RetryRead
  <2>2. n + 1 \in Attempts
    BY <2>1, TablesAssumption DEF Attempts
  <2> QED BY <1>2, <2>1, <2>2
<1>6. ASSUME NEW r \in Requests, NEW s \in Shops, QueueAllRead(r, s) PROVE Reopening'
  <2> DEFINE queued == {c \in Orders \X Attempts : ShopOf[c[1]] = s /\ Queueable(c[1], c[2])}
  <2>1. Hold(r, "insert", queued)
    BY <1>6 DEF QueueAllRead
  <2> HIDE DEF queued
  <2> QED BY <1>2, <2>1
<1>7. CASE Restart
  BY <1>7 DEF Restart, Reopening, Resting
<1>8. CASE Next /\ ~Restart /\ ~RequestStep
  BY <1>1, <1>8 DEF Next, Framed, Tick
<1>9. CASE RequestStep
  BY <1>1, <1>3, <1>4, <1>5, <1>6, <1>9
     DEF RequestStep, QueueInsert, RetryCommit, DispatchRequest, PlaceOrder, DeleteOrder,
         EditOrder, EditCall, HoursPass
<1> QED BY <1>1, <1>7, <1>8, <1>9 DEF vars

LEMMA InitPromise == Init => Promise!Init /\ Reopening
<1> SUFFICES ASSUME Init PROVE Promise!Init /\ Reopening
  OBVIOUS
<1>1. order = [o \in Orders |-> "absent"] /\ call = [o \in Orders |-> [n \in Attempts |-> NoRow]]
  BY DEF Init, TablesInit
<1>2. \A o \in Orders : Made(call[o]) = {} /\ ~HasPending(call[o])
  BY <1>1 DEF Made, HasPending, Exists, NoRow
<1>3. \A o \in Orders : Cardinality(Made(call[o])) = 0
  BY <1>2, FS_EmptySet
<1>4. Promise!Init
  BY <1>1, <1>2, <1>3 DEF Promise!Init
<1>5. Reopening
  BY DEF Init, RequestsInit, Resting, Reopening
<1> QED BY <1>4, <1>5

(***************************************************************************)
(* The subsystem implements OrderConfirmation: whatever the poll, the       *)
(* dispatcher, the workers, late results and restarts do, an order is       *)
(* called at most MAX_ATTEMPTS times, one call at a time and only while it  *)
(* is pending, and is given up on only after its last attempt: any number   *)
(* of orders, attempts, requests and restarts, while the staff edits no     *)
(* status and dispatches no call by hand.                                   *)
(***************************************************************************)
THEOREM PromiseImplemented ==
  ASSUME "dispatch" \notin Operations, OrderEdits = {}, CallEdits = {}
  PROVE  Spec => ImplementsPromise
<1>1. Inv /\ AttemptInv /\ [Next]_vars => AttemptInv'
  BY NextAttempts
<1>2. TypeOK /\ CountInv /\ [Next]_vars => CountInv'
  BY NextCount
<1>3. TypeOK /\ AttemptInv /\ CountInv /\ MatchInv /\ [Next]_vars => MatchInv'
  BY NextMatch
<1>4. TypeOK /\ Reopening /\ [Next]_vars => Reopening'
  BY NextReopening
<1>5. TypeOK /\ TypeOK' /\ AttemptInv /\ CountInv /\ MatchInv /\ Reopening /\ [Next]_vars =>
        [Promise!Next]_(Promise!vars)
  BY NextPromise DEF PromiseStep
<1>6. Init => Promise!Init /\ Reopening
  BY InitPromise
<1>7. Inv => TypeOK
  BY DEF Inv
<1> QED
  BY <1>1, <1>2, <1>3, <1>4, <1>5, <1>6, <1>7, InvHolds, InitAttempts, InitCount, InitMatch, PTL
     DEF Spec, ImplementsPromise, Promise!Spec
=============================================================================
