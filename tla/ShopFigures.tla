----------------------------- MODULE ShopFigures -----------------------------
(***************************************************************************)
(* What one shop sees of itself: AnalyticsService, DashboardService and the *)
(* call list of CallsService, over a small history of its orders and calls. *)
(* Amounts, durations and languages are left out; time is as in AdminFigures.*)
(***************************************************************************)
EXTENDS AdminFigures

CONSTANTS
  ShopOrders,   \* bound: orders of the shop
  FinalDial,    \* MAX_ATTEMPTS
  MaxDials,     \* bound: calls of the shop, those after a review included
  ShopMoments   \* bound: the moments at which something happens to them

ASSUME ShopFiguresAssumption ==
  /\ ShopOrders \subseteq Nat /\ IsFiniteSet(ShopOrders)
  /\ FinalDial \in Nat \ {0} /\ MaxDials \in Nat
  /\ ShopMoments \subseteq Moments

VARIABLES
  sales,   \* the orders of the shop
  dials    \* per order: its calls, by attempt

shopFigureVars == <<clock, sales, dials>>

SaleStatus == {"pending", "confirmed", "cancelled", "unreachable"}
Dial == [at : Moments, status : {"pending"} \cup CallEndings, review : BOOLEAN]

ShopFiguresTypeOK ==
  /\ sales \in [ShopOrders -> [at : Moments, status : SaleStatus] \cup {NoOrder}]
  /\ dials \in [ShopOrders -> BoundedSeq(Dial, MaxDials)]

ShopFiguresInit ==
  /\ sales = [o \in ShopOrders |-> NoOrder]
  /\ dials = [o \in ShopOrders |-> <<>>]

-----------------------------------------------------------------------------
(* What happens to the orders *)

Known(o) == sales[o] # NoOrder
InCall(o) == dials[o] # <<>> /\ Last(dials[o]).status = "pending"
\* Calls by order and attempt.
AllCalls == UNION {{o} \X DOMAIN dials[o] : o \in ShopOrders}
SetStatus(o, status) == [sales EXCEPT ![o].status = status]

\* Ids grow: orders are placed in their order.
Places(o) ==
  /\ ~Known(o) /\ \A p \in ShopOrders : p < o => Known(p)
  /\ sales' = [sales EXCEPT ![o] = [at |-> clock, status |-> "pending"]]
  /\ UNCHANGED dials

\* The poll or a request opens the next attempt; a retry after review makes the order pending.
Dials(o) ==
  /\ Known(o) /\ ~InCall(o) /\ Cardinality(AllCalls) < MaxDials
  /\ \/ sales[o].status = "pending" /\ Len(dials[o]) < FinalDial
     \/ sales[o].status = "unreachable" /\ dials[o] # <<>>
  /\ sales' = SetStatus(o, "pending")
  /\ dials' = [dials EXCEPT ![o] = Append(@, [at |-> clock, status |-> "pending", review |-> FALSE])]

EndDial(o, status, review) ==
  dials' = [dials EXCEPT ![o][Len(dials[o])] = [@ EXCEPT !.status = status, !.review = review]]

\* A decision counts while the order is pending; else the call ends as policy_blocked.
Decided(o, status, call) ==
  /\ InCall(o)
  /\ IF sales[o].status = "pending"
       THEN sales' = SetStatus(o, status) /\ EndDial(o, call, FALSE)
       ELSE UNCHANGED sales /\ EndDial(o, "failed", FALSE)

GivenUp(o) ==
  IF Len(dials[o]) >= FinalDial /\ sales[o].status = "pending" THEN SetStatus(o, "unreachable") ELSE sales

\* The last attempt asks for a human; an earlier one is tried again.
Undecided(o) ==
  /\ InCall(o) /\ sales' = GivenUp(o)
  /\ IF Len(dials[o]) >= FinalDial THEN EndDial(o, "failed", TRUE)
     ELSE \E s \in {"failed", "no_answer"} : EndDial(o, s, FALSE)

Expires(o) == InCall(o) /\ sales' = GivenUp(o) /\ EndDial(o, "no_answer", FALSE)

StaffSets(o, status) == Known(o) /\ sales' = SetStatus(o, status) /\ UNCHANGED dials

\* PATCH /calls/:id writes the status and nothing else.
StaffRecords(o) ==
  /\ dials[o] # <<>> /\ UNCHANGED sales
  /\ \E s \in {"pending"} \cup CallEndings :
       dials' = [dials EXCEPT ![o][Len(dials[o])] = [@ EXCEPT !.status = s]]

Removed(o) ==
  /\ Known(o)
  /\ sales' = [sales EXCEPT ![o] = NoOrder] /\ dials' = [dials EXCEPT ![o] = <<>>]

SaleMoves(o) ==
  \/ Places(o) \/ Dials(o) \/ Undecided(o) \/ Expires(o) \/ Removed(o) \/ StaffRecords(o)
  \/ Decided(o, "confirmed", "confirmed") \/ Decided(o, "cancelled", "failed")
  \/ \E s \in SaleStatus : StaffSets(o, s)

ShopFiguresNext ==
  \/ (\E o \in ShopOrders : SaleMoves(o)) /\ UNCHANGED clock
  \/ (\E t \in ShopMoments : t > clock /\ clock' = t) /\ UNCHANGED <<sales, dials>>

ShopFiguresSpec == clock \in Moments /\ ShopFiguresInit /\ [][ShopFiguresNext]_shopFigureVars

-----------------------------------------------------------------------------
(* AnalyticsService.report *)

SalesIn(from, to) == {o \in ShopOrders : Known(o) /\ In(sales[o].at, from, to)}
WithStatus(S, status) == {o \in S : sales[o].status = status}

TheCall(c) == dials[c[1]][c[2]]
DialsIn(from, to) == {c \in AllCalls : In(TheCall(c).at, from, to)}
EndedWith(calls, statuses) == {c \in calls : TheCall(c).status \in statuses}
Finished(from, to) == EndedWith(DialsIn(from, to), CallEndings)
AnsweredEndings == {"confirmed", "failed"}

\* A rolling window: the same number of hours, whatever the time of day.
Since(days) == Now - days * Day

WindowTotals(from, to) ==
  LET orders == SalesIn(from, to)
  IN  [orders |-> Count(orders), confirmed |-> Count(WithStatus(orders, "confirmed")),
       cancelled |-> Count(WithStatus(orders, "cancelled")),
       finished |-> Count(Finished(from, to)), answered |-> Count(EndedWith(DialsIn(from, to), AnsweredEndings)),
       confirming |-> Count({c \in EndedWith(AllCalls, {"confirmed"}) : c[1] \in orders})]

Report(days) ==
  [value |-> WindowTotals(Since(days), Now),
   previous |-> WindowTotals(Since(days) - days * Day, Since(days))]

\* What is neither confirmed nor cancelled is shown as pending, unreachable orders included.
PendingShown(t) == t.orders - t.confirmed - t.cancelled

\* Mutated form: one day too many.
LocalDaysMore(n) == DayOf(clock) - n .. DayOf(clock)

\* Local days up to today: the first of them begins inside the rolling window.
LocalDays(n) == DayOf(clock) - (n - 1) .. DayOf(clock)

DailyOutcomes(n) ==
  [d \in LocalDays(n) |->
     LET orders == {o \in ShopOrders : Known(o) /\ DayOf(sales[o].at) = d}
     IN  [s \in SaleStatus \ {"unreachable"} |-> Count(WithStatus(orders, s))]]

CallOutcomes(from) ==
  [s \in CallEndings \cup {"pending"} |-> Count(EndedWith(DialsIn(from, Never), {s}))]

\* Grouped by hour (here two a day), and by attempt.
ByHour(from) ==
  [h \in 0 .. Day - 1 |->
     LET here == {c \in Finished(from, Never) : TheCall(c).at % Day = h}
     IN  [calls |-> Count(here), answered |-> Count(EndedWith(here, AnsweredEndings)),
          confirmed |-> Count(EndedWith(here, {"confirmed"}))]]
ByAttempt(from) ==
  [n \in 1 .. MaxDials |->
     LET here == {c \in Finished(from, Never) : c[2] = n}
     IN  [calls |-> Count(here), confirmed |-> Count(EndedWith(here, {"confirmed"}))]]
ByWeekday(from) ==
  [w \in 0 .. 6 |->
     LET orders == {o \in SalesIn(from, Never) : Weekday(sales[o].at) = w}
     IN  [orders |-> Count(orders), confirmed |-> Count(WithStatus(orders, "confirmed"))]]

-----------------------------------------------------------------------------
(* DashboardService.summary and the list of calls *)

Stats(from, to) ==
  [total |-> Count(SalesIn(from, to)), confirmed |-> Count(WithStatus(SalesIn(from, to), "confirmed")),
   cancelled |-> Count(WithStatus(SalesIn(from, to), "cancelled")),
   failed |-> Count(EndedWith(DialsIn(from, to), {"failed", "no_answer"}))]
Summary ==
  [value |-> Stats(Since(30), Never), previous |-> Stats(Since(60), Since(30)),
   pending |-> Count(WithStatus(SalesIn(0, Never), "pending")),
   retryable |-> Count({c \in EndedWith(AllCalls, {"failed", "no_answer"}) :
                          sales[c[1]].status \in {"pending", "unreachable"}}),
   review |-> Count({c \in AllCalls : TheCall(c).review /\ sales[c[1]].status = "unreachable"})]
Week7 ==
  [d \in LocalDays(7) |-> Count({c \in EndedWith(AllCalls, {"confirmed"}) : DayOf(TheCall(c).at) = d})]

RangeStart(range) ==
  CASE range = "today" -> Day * DayOf(clock) [] range = "7d" -> Since(7)
    [] range = "30d" -> Since(30) [] range = "all" -> 0
Listing(range, status) ==
  LET base == DialsIn(RangeStart(range), Never)
      where == IF status = "" THEN base ELSE EndedWith(base, {status})
      counts == CallOutcomes(RangeStart(range))
  IN  [total |-> Count(where), counts |-> counts, all |-> SumFunction(counts)]

\* usage(): every call of the month counts, finished or not.
UsedThisMonth == Count(DialsIn(clock - (clock % (30 * Day)), Never))

-----------------------------------------------------------------------------
\* What is to agree, once there is an order.
FiguresTell ==
  LET midnight(n) == Day * (DayOf(clock) - (n - 1))
      sum(f, k) == SumFunction([d \in DOMAIN f |-> f[d][k]])
  IN  /\ \A days \in {7, 30} :
           LET r == Report(days)
               out == CallOutcomes(Since(days))
               both == WindowTotals(Since(2 * days), Now)
           IN  /\ \A f \in {ByHour(Since(days)), ByAttempt(Since(days))} :
                    sum(f, "calls") = r.value.finished /\ sum(f, "confirmed") = out["confirmed"]
               /\ sum(ByHour(Since(days)), "answered") = r.value.answered
               /\ r.value.answered = out["confirmed"] + out["failed"]
               /\ sum(ByWeekday(Since(days)), "orders") = r.value.orders
               /\ sum(ByWeekday(Since(days)), "confirmed") = r.value.confirmed
               /\ \A k \in DOMAIN both : both[k] = r.value[k] + r.previous[k]
               /\ \A s \in {"confirmed", "cancelled"} :
                    sum(DailyOutcomes(days), s)
                      = Count(WithStatus(SalesIn(midnight(days), Now), s))
               /\ sum(DailyOutcomes(days), "pending") <= PendingShown(r.value)
      /\ LET r == Report(30)
         IN  /\ Summary.value.total = r.value.orders /\ Summary.previous.total = r.previous.orders
             /\ Summary.value.cancelled = r.value.cancelled
             /\ Summary.value.failed + CallOutcomes(Since(30))["confirmed"] = r.value.finished
      /\ SumFunction(Week7) = Count(EndedWith(DialsIn(midnight(7), Now), {"confirmed"}))
      /\ \A range \in {"today", "7d", "30d", "all"} :
           LET listed == Listing(range, "")
           IN  /\ listed.total = listed.all
               /\ \A s \in CallEndings \cup {"pending"} : Listing(range, s).total = listed.counts[s]
      /\ Listing("today", "").total <= UsedThisMonth

(***************************************************************************)
(* The shop's figures agree: within a report the hours, the attempts and the *)
(* outcomes count the same calls and the weekdays the same orders; the two    *)
(* windows adjoin; the daily chart is the rolling window from its first       *)
(* midnight on; and the dashboard, the report of 30 days, the week's chart    *)
(* and the chips of the list tell the same, whoever ended or deleted what.    *)
(***************************************************************************)
ShopFiguresAgree == (\E o \in ShopOrders : Known(o)) => FiguresTell
=============================================================================
