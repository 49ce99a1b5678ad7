----------------------------- MODULE AdminFigures -----------------------------
(***************************************************************************)
(* The back office (src/backend/src/admin): the figures AdminService draws  *)
(* from the tables, and the little history of shops they are drawn from.    *)
(* Time is counted in half days, so that a moment lies inside a day; ratios *)
(* are kept as a part and a whole, money in the plan's price per half day.  *)
(***************************************************************************)
EXTENDS Integers, FiniteSets, FiniteSetsExt, SequencesExt, Plans

CONSTANTS
  Merchants,   \* the ids of shops
  Moments,     \* bound: the moments at which something happens, in half days
  OrderRows,   \* bound: the ids of orders
  CallRows,    \* bound: the ids of calls
  Sold,        \* bound: the paid plans that are sold
  MaxFacts     \* bound: what is known of the shops at once

Never == 1000000  \* a timestamp that is null, later than all

ASSUME FiguresAssumption ==
  /\ Merchants \subseteq Nat /\ Moments \subseteq 0 .. Never - 1 /\ Sold \subseteq PaidPlans
  /\ OrderRows \subseteq Nat /\ CallRows \subseteq Nat /\ MaxFacts \in Nat
  /\ IsFiniteSet(Merchants) /\ IsFiniteSet(OrderRows) /\ IsFiniteSet(CallRows)

VARIABLES
  clock,    \* now
  owners,   \* the boutiques with the role of their users
  placed,   \* the orders table
  called    \* the calls table

figureVars == <<clock, owners, placed, called>>

Day == 2
Instants == Moments \cup {Never}
NoShop == [signup |-> Never, plan |-> "none", started |-> Never, churned |-> Never,
           onboarded |-> FALSE, team |-> FALSE]
ShopRow == [signup : Moments, plan : PlanOrNone, started : Instants, churned : Instants,
            onboarded : BOOLEAN, team : BOOLEAN]
CallEndings == {"confirmed", "failed", "no_answer"}
CallStatus == {"pending"} \cup CallEndings
OrderEntry == [shop : Merchants, at : Moments]
CallEntry == [order : OrderRows, at : Moments, status : CallStatus]
NoOrder == <<>>
NoEntry == <<>>

\* The shop of an order and the order of a call are there: foreign keys.
FiguresTypeOK ==
  /\ clock \in Moments
  /\ owners \in [Merchants -> ShopRow \cup {NoShop}]
  /\ placed \in [OrderRows -> OrderEntry \cup {NoOrder}]
  /\ called \in [CallRows -> CallEntry \cup {NoEntry}]
  /\ \A o \in OrderRows : placed[o] # NoOrder => owners[placed[o].shop] # NoShop
  /\ \A c \in CallRows : called[c] # NoEntry => placed[called[c].order] # NoOrder

FiguresInit ==
  /\ clock \in Moments
  /\ owners = [m \in Merchants |-> NoShop]
  /\ placed = [o \in OrderRows |-> NoOrder]
  /\ called = [c \in CallRows |-> NoEntry]

-----------------------------------------------------------------------------
(* What happens to the shops *)

SetShop(m, row) == owners' = [owners EXCEPT ![m] = row] /\ UNCHANGED <<clock, placed, called>>
There(m) == owners[m] # NoShop

\* Ids grow: shops sign up in their order.
SignsUp(m) ==
  /\ ~There(m) /\ \A k \in Merchants : k < m => There(k)
  /\ SetShop(m, [NoShop EXCEPT !.signup = clock])

\* A plan from now on: what was paid before is overwritten (BillingService).
Subscribes(m, plan) ==
  /\ There(m)
  /\ SetShop(m, [owners[m] EXCEPT !.plan = plan, !.started = clock, !.churned = Never])

Cancels(m) ==
  /\ owners[m].plan # "none" /\ owners[m].churned = Never
  /\ SetShop(m, [owners[m] EXCEPT !.churned = clock])

\* The onboarding is completed, on any plan.
Completes(m) ==
  /\ There(m) /\ ~owners[m].onboarded
  /\ SetShop(m, [owners[m] EXCEPT !.onboarded = TRUE])

\* AdminBootstrapService turns the shop's user into one of the team.
JoinsTheTeam(m) == There(m) /\ ~owners[m].team /\ SetShop(m, [owners[m] EXCEPT !.team = TRUE])

OrderPlaced(m, o) ==
  /\ There(m) /\ placed[o] = NoOrder /\ \A k \in OrderRows : k < o => placed[k] # NoOrder
  /\ placed' = [placed EXCEPT ![o] = [shop |-> m, at |-> clock]]
  /\ UNCHANGED <<clock, owners, called>>

\* The poll, a queue request or a retry inserts a call; CallSystem says when it may.
CallInserted(o, c) ==
  /\ placed[o] # NoOrder /\ called[c] = NoEntry /\ \A k \in CallRows : k < c => called[k] # NoEntry
  /\ called' = [called EXCEPT ![c] = [order |-> o, at |-> clock, status |-> "pending"]]
  /\ UNCHANGED <<clock, owners, placed>>

\* It ends; or the staff corrects its status (PATCH /calls/:id), back to pending too.
StatusWritten(c, status) ==
  /\ called[c] # NoEntry /\ called[c].status # status
  /\ called' = [called EXCEPT ![c].status = status]
  /\ UNCHANGED <<clock, owners, placed>>

\* The calls go with their order (onDelete: Cascade).
OrderDeleted(o) ==
  /\ placed[o] # NoOrder
  /\ placed' = [placed EXCEPT ![o] = NoOrder]
  /\ called' = [c \in CallRows |-> IF called[c] # NoEntry /\ called[c].order = o THEN NoEntry ELSE called[c]]
  /\ UNCHANGED <<clock, owners>>

TimePasses ==
  /\ \E t \in Moments : t > clock /\ clock' = t
  /\ UNCHANGED <<owners, placed, called>>

ShopMoves(m) ==
  SignsUp(m) \/ Completes(m) \/ Cancels(m) \/ JoinsTheTeam(m) \/ \E plan \in Sold : Subscribes(m, plan)

\* How much the tables tell: orders, calls, the columns of shops that are set, and the moments in them.
Facts ==
  LET set(fact(_)) == Cardinality({m \in Merchants : fact(owners[m])})
      shops == {m \in Merchants : There(m)}
      orders == {o \in OrderRows : placed[o] # NoOrder}
      calls == {c \in CallRows : called[c] # NoEntry}
      moments == UNION {{owners[m].signup, owners[m].started, owners[m].churned} : m \in shops}
                 \cup {placed[o].at : o \in orders} \cup {called[c].at : c \in calls}
  IN  set(LAMBDA r : r.plan # "none") + set(LAMBDA r : r.churned # Never)
      + set(LAMBDA r : r.onboarded) + set(LAMBDA r : r.team)
      + Cardinality(orders) + Cardinality(calls) + Cardinality(moments \ {Never})

Writes ==
  \/ \E m \in Merchants : ShopMoves(m)
  \/ \E o \in OrderRows : \/ \E m \in Merchants : OrderPlaced(m, o)
                          \/ \E c \in CallRows : CallInserted(o, c)

FiguresNext ==
  \/ Writes /\ Facts' <= MaxFacts
  \/ \E c \in CallRows : \E status \in CallStatus : StatusWritten(c, status)
  \/ \E o \in OrderRows : OrderDeleted(o)
  \/ TimePasses

FiguresSpec == FiguresInit /\ [][FiguresNext]_figureVars

-----------------------------------------------------------------------------
(* Periods: [from, to) and the one before it *)

Least(a, b) == IF a <= b THEN a ELSE b
Greatest(a, b) == IF a <= b THEN b ELSE a
DayOf(t) == t \div Day
In(t, from, to) == from <= t /\ t < to

\* "now" is rounded up: what already happened is before it.
Now == clock + 1

\* The last n days, today included, and the same n days one period earlier.
Preset(n) ==
  LET from == Day * (DayOf(clock) - (n - 1))
  IN  [from |-> from, to |-> Now, prevFrom |-> from - Day * n, prevTo |-> Now - Day * n]

\* From the start of day a to the end of day b, never past now; a 400 when that is empty.
Custom(a, b) ==
  LET from == Day * a
      to == Least(Day * (b + 1), Now)
  IN  [from |-> from, to |-> to, prevFrom |-> from - (to - from), prevTo |-> from]

ValidCustom(a, b) == Custom(a, b).from < Custom(a, b).to /\ b - a < 366

Query ==
  LET days == {DayOf(x) : x \in {y \in Moments : y <= clock}}
  IN  {Preset(7), Preset(30)}
      \cup {Custom(ab[1], ab[2]) : ab \in {cd \in days \X days : ValidCustom(cd[1], cd[2])}}

-----------------------------------------------------------------------------
(* The blocks of the queries *)

\* Shops with a user who is not an admin.
Customers == {m \in Merchants : There(m) /\ ~owners[m].team}

PlanAt(m, t) ==
  IF owners[m].plan # "none" /\ owners[m].started <= t /\ owners[m].churned > t
    THEN owners[m].plan ELSE "free"

\* Mutated form: a plan outside the period earns a negative time.
RunningBelowZero(started, churned, a, b) == Least(b, churned) - Greatest(a, started)

\* The price of the time a plan that ran from started to churned spent inside [a, b).
RunningIn(started, churned, a, b) == Greatest(0, Least(b, churned) - Greatest(a, started))
PriceOf(plan) == IF plan \in PlanCodes THEN Price[plan] ELSE 0
RevenueIn(m, a, b) ==
  PriceOf(owners[m].plan) * RunningIn(owners[m].started, owners[m].churned, a, b)

OrdersOf(m) == {o \in OrderRows : placed[o] # NoOrder /\ placed[o].shop = m}
OrdersIn(m, a, b) == {o \in OrdersOf(m) : In(placed[o].at, a, b)}

\* calls JOIN orders
Called == {c \in CallRows : called[c] # NoEntry}
ShopOf(c) == placed[called[c].order].shop
CallsOf(m) == {c \in Called : ShopOf(c) = m}
Over(c) == called[c].status # "pending"
EndedAs(calls, status) == {c \in calls : called[c].status = status}

\* Mutated form: the time of the order.
CallsInByOrder(m, a, b) == {c \in CallsOf(m) : Over(c) /\ In(placed[called[c].order].at, a, b)}

\* What a merchant's row counts: the calls created in the period that are over.
CallsIn(m, a, b) == {c \in CallsOf(m) : Over(c) /\ In(called[c].at, a, b)}

\* ACTIVITY: the moments of every order and call.
Activity(m) == {placed[o].at : o \in OrdersOf(m)} \cup {called[c].at : c \in CallsOf(m)}

Count(S) == Cardinality(S)
\* The members of S, those that come before the others first.
Ranked(S, before) ==
  CHOOSE list \in [1 .. Count(S) -> S] :
    \A i, j \in 1 .. Count(S) : i < j => <<list[i], list[j]>> \in before

-----------------------------------------------------------------------------
(* overview: the key figures, the plan mix and the funnel *)

SignedUpBefore(t) == {m \in Customers : owners[m].signup < t}
PaidAt(t) == {m \in SignedUpBefore(t) : PlanAt(m, t) # "free"}
ActiveBefore(t) == {m \in Customers : \E x \in Activity(m) : In(x, t - 30 * Day, t)}
ActivatedBefore(t) == {m \in Customers : \E c \in CallsOf(m) : Over(c) /\ called[c].at < t}

Overview(p) ==
  LET figures(t, since) ==
        [total |-> Count(SignedUpBefore(t)),
         signups |-> Count({m \in Customers : In(owners[m].signup, since, t)}),
         activated |-> Count(ActivatedBefore(t)),
         active |-> Count(ActiveBefore(t)),
         paid |-> Count(PaidAt(t)),
         free |-> Count(SignedUpBefore(t)) - Count(PaidAt(t)),
         churned |-> Count({m \in Customers : In(owners[m].churned, since, t)})]
  IN  [value |-> figures(p.to, p.from), previous |-> figures(p.from, p.prevFrom)]

\* Per plan: the merchants on it at t.
PlanMix(t) == [c \in PlanCodes |-> Count({m \in SignedUpBefore(t) : PlanAt(m, t) = c})]
Mrr(t) == SumFunction([c \in PlanCodes |-> PlanMix(t)[c] * Price[c]])

\* Of those who signed up in the period; "hundred" calls are two here.
Funnel(p) ==
  LET joined == {m \in Customers : In(owners[m].signup, p.from, p.to)}
      ended(m) == {c \in CallsOf(m) : Over(c)}
  IN  <<Count(joined),
        Count({m \in joined : owners[m].onboarded}),
        Count({m \in joined : OrdersOf(m) # {}}),
        Count({m \in joined : ended(m) # {}}),
        Count({m \in joined : Count(ended(m)) >= 2}),
        Count({m \in joined : owners[m].started # Never})>>

-----------------------------------------------------------------------------
(* merchantRows: health and status *)

Latest(S) == IF S = {} THEN -Never ELSE Max(S)
LastActivity(m) ==
  Greatest(Latest({placed[o].at : o \in OrdersOf(m)}), Latest({called[c].at : c \in CallsOf(m)}))

\* Math.round(part / whole * 30), 0 without calls.
Results(part, whole) == IF whole = 0 THEN 0 ELSE (60 * part + whole) \div (2 * whole)

Recency(idle) ==
  IF idle <= 7 * Day THEN 40 ELSE IF idle <= 14 * Day THEN 25 ELSE IF idle <= 30 * Day THEN 10 ELSE 0

Momentum(recent, before) ==
  IF before = 0 THEN (IF recent > 0 THEN 20 ELSE 0)
  ELSE IF recent >= before THEN 20 ELSE IF 10 * recent >= 7 * before THEN 10 ELSE 0

HealthScore(m, p) ==
  Recency(clock - LastActivity(m))
  + Results(Count(EndedAs(CallsIn(m, p.from, p.to), "confirmed")), Count(CallsIn(m, p.from, p.to)))
  + Momentum(Count(CallsIn(m, clock - 14 * Day, Never)),
             Count(CallsIn(m, clock - 28 * Day, clock - 14 * Day)))
  + (IF owners[m].onboarded THEN 10 ELSE 0)

\* churned, new, dormant, active: the first that holds.
MerchantStatus(m) ==
  IF owners[m].churned <= clock THEN "churned"
  ELSE IF clock - owners[m].signup < 14 * Day THEN "new"
  ELSE IF clock - LastActivity(m) >= 14 * Day THEN "dormant" ELSE "active"

-----------------------------------------------------------------------------
(* usage, quality, revenue *)

\* daysSeries: the last day is the one of the last second before "to".
Days(p) == DayOf(p.from) .. DayOf(p.to - 1)

\* Calls and orders are grouped by their own days.
UsageDaily(p) ==
  LET calls == {c \in Called : ShopOf(c) \in Customers /\ Over(c) /\ In(called[c].at, p.from, p.to)}
      orders == {o \in OrderRows : /\ placed[o] # NoOrder /\ placed[o].shop \in Customers
                                   /\ In(placed[o].at, p.from, p.to)}
      callsOn(d) == {c \in calls : DayOf(called[c].at) = d}
  IN  [d \in Days(p) |->
         [orders |-> Count({o \in orders : DayOf(placed[o].at) = d}),
          calls |-> Count(callsOn(d)), active |-> Count({ShopOf(c) : c \in callsOn(d)})]]

\* The rows of the merchants, added up.
UsageTotals(p) ==
  [calls |-> SumFunction([m \in Customers |-> Count(CallsIn(m, p.from, p.to))]),
   callsPrev |-> SumFunction([m \in Customers |-> Count(CallsIn(m, p.prevFrom, p.prevTo))]),
   orders |-> SumFunction([m \in Customers |-> Count(OrdersIn(m, p.from, p.to))])]

Dormant == {m \in Customers : MerchantStatus(m) = "dormant" /\ OrdersOf(m) # {}}

\* The shops that did call, most calls first; the quality report lists 25 of them, usage 10.
Callers(p) == {m \in Customers : CallsIn(m, p.from, p.to) # {}}
Busiest(p, n) ==
  LET calls(m) == Count(CallsIn(m, p.from, p.to))
      ranked == Ranked(Callers(p), {mk \in Callers(p) \X Callers(p) :
                  \/ calls(mk[1]) > calls(mk[2])
                  \/ calls(mk[1]) = calls(mk[2]) /\ mk[1] < mk[2]})
  IN  SubSeq(ranked, 1, Least(n, Len(ranked)))

\* By outcome, over [a, b).
Quality(a, b) ==
  LET calls == {c \in Called : Over(c) /\ a <= called[c].at /\ called[c].at < b /\ ShopOf(c) \in Customers}
  IN  [calls |-> Count(calls), confirmed |-> Count(EndedAs(calls, "confirmed")),
       refused |-> Count(EndedAs(calls, "failed")),
       noAnswer |-> Count(EndedAs(calls, "no_answer"))]

\* By weekday and hour (here two a day), where there are calls; the day of the epoch is a Thursday.
Weekday(t) == (DayOf(t) + 3) % 7
Heatmap(p) ==
  LET finished == {c \in Called : ShopOf(c) \in Customers /\ Over(c) /\ In(called[c].at, p.from, p.to)}
      hour(c) == <<Weekday(called[c].at), called[c].at % Day>>
  IN  [w \in {hour(c) : c \in finished} |->
         LET here == {c \in finished : hour(c) = w}
         IN  [calls |-> Count(here), confirmed |-> Count(EndedAs(here, "confirmed"))]]

\* A minute for each call that was answered, and a fee for each.
CallCost == 5
MinuteCost == 90
CostOf(m, p) ==
  LET calls == CallsIn(m, p.from, p.to)
  IN  CallCost * Count(calls) + MinuteCost * Count(calls \ EndedAs(calls, "no_answer"))

\* What a shop paid is the revenue of the plan it paid for, even if churned since.
EarnsFor(m, plan) == owners[m].plan = plan

Revenue(S, p) == SumFunction([m \in S |-> RevenueIn(m, p.from, p.to)])
RevenueByPlan(p) == [c \in PlanCodes |-> Revenue({m \in Customers : EarnsFor(m, c)}, p)]
Cost(S, p) == SumFunction([m \in S |-> CostOf(m, p)])
\* Calls are paid for by the plan of today.
OnPlan(plan) == {m \in Customers : PlanAt(m, clock) = plan}
MarginByPlan(p) == [c \in PlanCodes |-> RevenueByPlan(p)[c] - Cost(OnPlan(c), p)]
Margin(m, p) == RevenueIn(m, p.from, p.to) - CostOf(m, p)

\* Worst margin first, without the shops that neither paid nor cost anything.
MarginByMerchant(p) ==
  Ranked({m \in Customers : RevenueIn(m, p.from, p.to) > 0 \/ CostOf(m, p) > 0},
         {mk \in Customers \X Customers :
            \/ Margin(mk[1], p) < Margin(mk[2], p)
            \/ Margin(mk[1], p) = Margin(mk[2], p) /\ mk[1] < mk[2]})

-----------------------------------------------------------------------------
(* The list of merchants, the page of one, and the exports *)

PlanRank(plan) == CASE plan = "free" -> 0 [] plan = "starter" -> 1 [] plan = "growth" -> 2 [] plan = "pro" -> 3

SortKey(m, sort, p) ==
  CASE sort = "health" -> HealthScore(m, p)
    [] sort = "plan" -> PlanRank(PlanAt(m, clock))
    [] sort = "signupAt" -> owners[m].signup
    [] sort = "lastActivityAt" -> Greatest(0, LastActivity(m))
    [] sort = "margin" -> Margin(m, p)

\* Ties go by id, in the same direction.
Listed(p, sort, dir, plan, status) ==
  LET before(m, k) == \/ SortKey(m, sort, p) < SortKey(k, sort, p)
                      \/ SortKey(m, sort, p) = SortKey(k, sort, p) /\ m < k
      rows == {m \in Customers : /\ plan # "" => PlanAt(m, clock) = plan
                                 /\ status # "" => MerchantStatus(m) = status}
  IN  Ranked(rows, {mk \in rows \X rows :
                      IF dir = "asc" THEN before(mk[1], mk[2]) ELSE before(mk[2], mk[1])})

\* The days of one shop: its orders and calls are joined to the days, not to merchants.
MerchantDaily(m, p) ==
  [d \in Days(p) |->
     LET here == {c \in CallsOf(m) : In(called[c].at, p.from, p.to) /\ DayOf(called[c].at) = d}
     IN  [orders |-> Count({o \in OrdersIn(m, p.from, p.to) : DayOf(placed[o].at) = d}),
          calls |-> Count({c \in here : Over(c)}), confirmed |-> Count(EndedAs(here, "confirmed"))]]

\* Rows of the exports that have one per merchant or plan: its key and the figures with it.
Export(dataset, p) ==
  CASE dataset = "merchants" ->
         LET rows == Listed(p, "health", "desc", "", "")
         IN  [i \in 1 .. Len(rows) |->
                [key |-> rows[i], calls |-> Count(CallsIn(rows[i], p.from, p.to)), margin |-> Margin(rows[i], p)]]
    [] dataset = "quality" ->
         LET rows == Busiest(p, 25)
         IN  [i \in 1 .. Len(rows) |->
                [key |-> rows[i], calls |-> Count(CallsIn(rows[i], p.from, p.to)), margin |-> 0]]
    [] dataset = "usage" ->
         LET daily == UsageDaily(p)
             day(i) == DayOf(p.from) + i - 1
         IN  [i \in 1 .. Count(Days(p)) |-> [key |-> day(i), calls |-> daily[day(i)].calls, margin |-> 0]]
    [] dataset = "revenue" ->
         LET plans == <<"free", "starter", "growth", "pro">>
         IN  [i \in 1 .. 4 |-> [key |-> plans[i], calls |-> 0, margin |-> MarginByPlan(p)[plans[i]]]]

-----------------------------------------------------------------------------
(* cohorts *)

Week == 7 * Day
Cohort(t) == t \div Week
\* Rebuilt from the date of the week as UTC+1, the time zone of the default.
CohortStart(w) == w * Week

\* Active in the k-th week after its own sign-up.
ActiveInWeek(m, k) ==
  \E x \in Activity(m) : In(x, owners[m].signup + k * Week, owners[m].signup + (k + 1) * Week)

\* Mutated form: the week of the cohort's first member.
ReadyEarly(w, k) == CohortStart(w) + (k + 1) * Week <= Now

\* A week-k figure is shown once every member of the cohort has lived through it.
Ready(w, k) == CohortStart(w) + Week + (k + 1) * Week <= Now

Members(w) == {m \in Customers : Cohort(owners[m].signup) = w}
Retained(w, k) == {m \in Members(w) : ActiveInWeek(m, k)}
Cohorts == {Cohort(owners[m].signup) : m \in Customers}
Share(w, k) ==
  IF Ready(w, k) THEN [part |-> Count(Retained(w, k)), whole |-> Count(Members(w))]
  ELSE [part |-> 0, whole |-> 0]

-----------------------------------------------------------------------------
(* With no customer every figure is zero: those periods are not looked at. *)
Asked == IF Customers = {} THEN {} ELSE Query

(***************************************************************************)
(* The overview agrees with itself: who signed up in the period is the growth *)
(* of the total; the plan mix counts every merchant once and its paid plans   *)
(* are the paid merchants, at both ends of the period, though planAt stands   *)
(* in three queries; and calls follow orders in the funnel.                   *)
(***************************************************************************)
OverviewAgrees ==
  \A p \in Asked :
    LET k == Overview(p)
        f == Funnel(p)
        mix(t) == PlanMix(t)
    IN  /\ k.value.total = k.previous.total + k.value.signups
        /\ \A e \in {<<k.value, mix(p.to)>>, <<k.previous, mix(p.from)>>} :
             /\ e[2]["starter"] + e[2]["growth"] + e[2]["pro"] = e[1].paid
             /\ e[1].paid + e[2]["free"] = e[1].total
        /\ f[1] = k.value.signups /\ f[3] >= f[4] /\ f[4] >= f[5]

(***************************************************************************)
(* The daily series of a period adds up to the merchants' rows, the quality  *)
(* report and its heatmap count the same calls, each of them at the time it  *)
(* was created and not at that of its order, in the period before too; and a  *)
(* day's bar is the bars of the merchants: no day at the edge of a period is  *)
(* lost or counted though it lies outside.                                   *)
(***************************************************************************)
DailyAddsUp ==
  \A p \in Asked :
    LET daily == UsageDaily(p)
        totals == UsageTotals(p)
        heat == Heatmap(p)
        quality == Quality(p.from, p.to)
        days == {DayOf(t) : t \in UNION {Activity(m) : m \in Customers}}
    IN  /\ SumFunction([d \in Days(p) |-> daily[d].calls]) = totals.calls
        /\ SumFunction([d \in Days(p) |-> daily[d].orders]) = totals.orders
        /\ quality.calls = totals.calls
        /\ quality.confirmed + quality.refused + quality.noAnswer = quality.calls
        /\ Quality(p.prevFrom, p.prevTo).calls = totals.callsPrev
        /\ SumFunction([w \in DOMAIN heat |-> heat[w].calls]) = totals.calls
        /\ SumFunction([w \in DOMAIN heat |-> heat[w].confirmed]) = quality.confirmed
        /\ \A d \in days \cap Days(p) :
             /\ daily[d].orders = SumFunction([m \in Customers |-> MerchantDaily(m, p)[d].orders])
             /\ daily[d].calls = SumFunction([m \in Customers |-> MerchantDaily(m, p)[d].calls])

(***************************************************************************)
(* The revenue of a period is shared out over the paid plans: a shop that    *)
(* cancelled inside it counts for the plan it paid, and "free" earns nothing.*)
(***************************************************************************)
RevenueByPlanAddsUp ==
  \A p \in Asked :
    LET byPlan == RevenueByPlan(p)
    IN  byPlan["starter"] + byPlan["growth"] + byPlan["pro"] = Revenue(Customers, p)

(***************************************************************************)
(* The score and the status of a merchant agree: a dormant one has no full   *)
(* recency, an active one is not scored as idle and is one of the active     *)
(* merchants of the overview, and no score leaves 0 to 100, whatever happened *)
(* when.                                                                     *)
(***************************************************************************)
HealthTellsStatus ==
  \A m \in Customers :
    LET score == HealthScore(m, Preset(30))
    IN  /\ score \in 0 .. 100
        /\ m \in Dormant => score <= 85
        /\ MerchantStatus(m) = "active" => score >= 25 /\ m \in ActiveBefore(Now)

(***************************************************************************)
(* The exports tell what the pages tell: summed up, the merchants, the days  *)
(* and the callers of a period have the same calls (the callers as long as   *)
(* the 25 that are listed are all), the merchants and the plans the same     *)
(* margin, though the plan's costs are booked on the plan of today and its   *)
(* revenue on the plan that was paid; and the list turned around is the list *)
(* in the other direction, merchants that tie included.                      *)
(* (Asked of the last 30 days.)                                              *)
(***************************************************************************)
ExportsAgree ==
  \A p \in Asked \cap {Preset(30)} :
    LET calls(dataset) ==
          LET rows == Export(dataset, p) IN SumFunction([i \in DOMAIN rows |-> rows[i].calls])
        margin(dataset) ==
          LET rows == Export(dataset, p) IN SumFunction([i \in DOMAIN rows |-> rows[i].margin])
    IN  /\ calls("merchants") = calls("usage")
        /\ Count(Callers(p)) <= 25 => calls("quality") = calls("usage")
        /\ margin("merchants") = margin("revenue")
        /\ SumFunction([m \in ToSet(MarginByMerchant(p)) |-> Margin(m, p)]) = margin("revenue")
        /\ \A sort \in {"health", "plan", "signupAt", "lastActivityAt", "margin"} :
             Listed(p, sort, "asc", "", "") = Reverse(Listed(p, sort, "desc", "", ""))

(***************************************************************************)
(* The reports agree: what one query of the back office counts, the others   *)
(* count too, for every period that can be asked for.                        *)
(***************************************************************************)
FiguresAgree ==
  OverviewAgrees /\ DailyAddsUp /\ RevenueByPlanAddsUp /\ HealthTellsStatus /\ ExportsAgree

(***************************************************************************)
(* Revenue splits: what a shop earned in a period is what it earned up to    *)
(* any moment inside it and from there on, wherever its plan started and     *)
(* ended.                                                                    *)
(***************************************************************************)
RevenueSplits ==
  \A m \in Customers : \A a, b, c \in Moments :
    a <= b /\ b <= c => RevenueIn(m, a, c) = RevenueIn(m, a, b) + RevenueIn(m, b, c)

(***************************************************************************)
(* A retention figure is final once it is shown: unless an order is deleted  *)
(* or a merchant joins the team, no later sign-up, order or call changes it. *)
(***************************************************************************)
CohortFiguresFinal ==
  [][\A w \in Cohorts, k \in {1, 2} :
       /\ Ready(w, k)
       /\ \A o \in OrderRows : placed[o] # NoOrder => placed'[o] # NoOrder
       /\ Customers \subseteq Customers'
       => Share(w, k)' = Share(w, k)]_figureVars
=============================================================================
