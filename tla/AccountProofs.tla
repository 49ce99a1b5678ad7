---------------------------- MODULE AccountProofs ----------------------------
(***************************************************************************)
(* The merchants' accounts, and the shop with its pages: for every number    *)
(* of addresses, requests, tabs, random values and payments.                *)
(***************************************************************************)
EXTENDS Accounts, Pages, FiniteSetTheorems, TLAPS

---------------------------------------------------------------------------
(* The shop *)

(***************************************************************************)
(* What a required section holds is replaced, never taken away, so a         *)
(* completion that passed its check stays right while it waits; a charge     *)
(* comes before each payment that succeeded.                                *)
(***************************************************************************)
SectionsFilled ==
  /\ shop.window # NoWindow => LongEnough(shop.window)
  /\ shop.completed => NextStep = 3
  /\ \A t \in Tabs : work[t].at = "completing" => NextStep = 3

PlansPaid ==
  /\ shop.plan # "none" =>
       \E i \in DOMAIN payments :
         /\ payments[i] = [plan |-> shop.plan, ok |-> TRUE]
         /\ \A j \in i + 1 .. Len(payments) : ~payments[j].ok
         /\ charged >= 1
  /\ shop.plan \in PaidPlans \cup {"none"}
  /\ \A t \in Tabs :
      /\ work[t].at \in {"charging", "refused", "paid"} => work[t].plan \in PaidPlans
      /\ work[t].at = "paid" => charged >= 1

PagesInv == PagesTypeOK /\ SectionsFilled /\ PlansPaid /\ ShownPageFits

LEMMA InitialPages == PagesInit => PagesInv
<1> SUFFICES ASSUME PagesInit PROVE PagesInv
  OBVIOUS
<1>1. BoutiquesTypeOK
  BY BoutiquesAssumption DEF PagesInit, BoutiquesInit, BoutiquesTypeOK, Shop, Volumes, PlanOrNone, Work, Resting, AnyToken
<1>2. PagesTypeOK
  BY <1>1 DEF PagesInit, PagesTypeOK, Page
<1>3. SectionsFilled /\ PlansPaid
  BY DEF PagesInit, BoutiquesInit, SectionsFilled, PlansPaid, Resting
<1>4. ShownPageFits
  BY DEF PagesInit, ShownPageFits
<1> QED BY <1>2, <1>3, <1>4 DEF PagesInv

(* Sections that are filled stay filled: what a step may do to the row, seen from a page. *)
Grows ==
  /\ shop.completed => shop'.completed
  /\ shop.identity => shop'.identity
  /\ shop.window # NoWindow => shop'.window # NoWindow

LEMMA ShopShape ==
  ASSUME BoutiquesTypeOK
  PROVE  /\ shop.identity \in BOOLEAN /\ shop.completed \in BOOLEAN /\ shop.churned \in BOOLEAN
         /\ shop.window \in Windows \cup {NoWindow} /\ shop.volume \in Volumes /\ shop.plan \in PlanOrNone
         /\ NextStep = 3 <=> shop.identity /\ shop.window # NoWindow
BY DEF BoutiquesTypeOK, Shop, NextStep

(* The three sections and the end of the onboarding: the requests that wait stay. *)
EditsShop ==
  /\ \/ UpdateIdentity \/ \E window \in Windows : UpdateAgent(window)
     \/ \E volume \in Volumes : UpdateDetails(volume)
     \/ MayComplete /\ shop' = [shop EXCEPT !.completed = TRUE] /\ UNCHANGED <<payments, charged>>
  /\ UNCHANGED work

BoutiqueInv == BoutiquesTypeOK /\ SectionsFilled /\ PlansPaid

LEMMA EditKeepsShop ==
  ASSUME BoutiqueInv, EditsShop
  PROVE  BoutiqueInv' /\ Grows
<1>1. BoutiquesTypeOK /\ work' = work /\ payments' = payments /\ charged' = charged
      /\ shop'.plan = shop.plan /\ shop' \in Shop
  <2>1. shop \in Shop
    BY DEF BoutiqueInv, BoutiquesTypeOK
  <2>2. shop' \in Shop /\ shop'.plan = shop.plan
    BY <2>1 DEF EditsShop, UpdateIdentity, UpdateAgent, UpdateDetails, Shop
  <2> QED BY <2>2 DEF BoutiqueInv, EditsShop, UpdateIdentity, UpdateAgent, UpdateDetails
<1>2. Grows
  BY <1>1, ShopShape
     DEF Grows, EditsShop, UpdateIdentity, UpdateAgent, UpdateDetails, BoutiquesTypeOK, Shop, Windows, NoWindow
<1>3. BoutiquesTypeOK'
  BY <1>1 DEF BoutiquesTypeOK
<1>4. NextStep = 3 => NextStep' = 3
  BY <1>2 DEF Grows, NextStep
<1>5. shop'.window # NoWindow => LongEnough(shop'.window)
  BY <1>1 DEF EditsShop, UpdateIdentity, UpdateAgent, UpdateDetails, BoutiquesTypeOK, Shop, BoutiqueInv, SectionsFilled
<1>6. shop'.completed => NextStep' = 3
  <2>1. shop'.completed = shop.completed \/ NextStep = 3
    BY <1>1 DEF EditsShop, UpdateIdentity, UpdateAgent, UpdateDetails, MayComplete, BoutiquesTypeOK, Shop
  <2> QED BY <1>4, <2>1 DEF BoutiqueInv, SectionsFilled
<1>7. SectionsFilled'
  BY <1>1, <1>4, <1>5, <1>6 DEF BoutiqueInv, SectionsFilled
<1>8. PlansPaid'
  BY <1>1 DEF BoutiqueInv, PlansPaid
<1> QED BY <1>2, <1>3, <1>7, <1>8 DEF BoutiqueInv

LEMMA AppendedPayment ==
  ASSUME NEW s \in Seq(Payment), NEW p \in Payment
  PROVE  /\ Append(s, p) \in Seq(Payment) /\ Len(Append(s, p)) = Len(s) + 1
         /\ \A i \in 1 .. Len(s) : Append(s, p)[i] = s[i]
         /\ Append(s, p)[Len(s) + 1] = p
OBVIOUS

(* The requests of the tabs that write neither the shop nor the payments. *)
LEMMA TabKeepsShop ==
  ASSUME BoutiqueInv, NEW t \in Tabs, NEW w \in Work,
         work' = [work EXCEPT ![t] = w], shop' = shop, payments' = payments,
         charged' \in 0 .. MaxPayments, charged <= charged',
         w.at = "completing" => NextStep = 3,
         w.at \in {"charging", "refused", "paid"} => w.plan \in PaidPlans,
         w.at = "paid" => charged' >= 1
  PROVE  BoutiqueInv' /\ Grows
<1>1. BoutiquesTypeOK'
  BY DEF BoutiqueInv, BoutiquesTypeOK
<1>2. \A u \in Tabs : work'[u] = IF u = t THEN w ELSE work[u]
  BY DEF BoutiqueInv, BoutiquesTypeOK
<1>3. NextStep' = NextStep
  BY DEF NextStep
<1>4. SectionsFilled'
  BY <1>2, <1>3 DEF BoutiqueInv, SectionsFilled
<1>5. charged \in Int /\ charged' \in Int
  BY BoutiquesAssumption DEF BoutiqueInv, BoutiquesTypeOK
<1>6. PlansPaid'
  BY <1>2, <1>5 DEF BoutiqueInv, PlansPaid
<1> QED BY <1>1, <1>4, <1>6 DEF BoutiqueInv, Grows

LEMMA QuietStagesKeepShop ==
  ASSUME BoutiqueInv, NEW t \in Tabs,
         \/ SubscribeFree(t) \/ ReadForCompletion(t) \/ RequestFails(t) \/ Acknowledge(t)
         \/ \E plan \in PaidPlans, token \in AnyToken : SubscribePaid(t, plan, token)
         \/ Charge(t)
  PROVE  BoutiqueInv' /\ Grows
<1>0. charged \in 0 .. MaxPayments /\ charged <= charged /\ work[t] \in Work /\ charged \in Int /\ MaxPayments \in Int
  BY BoutiquesAssumption DEF BoutiqueInv, BoutiquesTypeOK
<1>1. ASSUME NEW at \in {"idle", "cancelling", "subscribed", "completing", "failed", "ready"},
             Goes(t, at), at = "completing" => NextStep = 3, UNCHANGED <<shop, payments, charged>>
      PROVE  BoutiqueInv' /\ Grows
  <2> DEFINE w == [Resting EXCEPT !.at = at]
  <2>1. w \in Work /\ w.at = at
    BY DEF Resting, Work, PlanOrNone, AnyToken
  <2>2. work' = [work EXCEPT ![t] = w] /\ shop' = shop /\ payments' = payments /\ charged' = charged
    BY <1>1 DEF Goes
  <2> HIDE DEF w
  <2> QED BY <1>0, <1>1, <2>1, <2>2, TabKeepsShop
<1>2. CASE SubscribeFree(t)
  BY <1>1, <1>2 DEF SubscribeFree
<1>3. CASE ReadForCompletion(t)
  BY <1>1, <1>3 DEF ReadForCompletion, MayComplete
<1>4. CASE RequestFails(t) \/ Acknowledge(t)
  BY <1>1, <1>4 DEF RequestFails, Acknowledge
<1>5. CASE \E plan \in PaidPlans, token \in AnyToken : SubscribePaid(t, plan, token)
  <2>1. PICK plan \in PaidPlans, token \in AnyToken : SubscribePaid(t, plan, token)
    BY <1>5
  <2>2. CASE Payments /\ token # "none"
    <3> DEFINE w == [at |-> "charging", plan |-> plan, token |-> token]
    <3>1. w \in Work /\ w.at = "charging" /\ w.plan \in PaidPlans
      BY DEF Work, PaidPlans, PlanOrNone
    <3>2. work' = [work EXCEPT ![t] = w] /\ shop' = shop /\ payments' = payments /\ charged' = charged
      BY <2>1, <2>2 DEF SubscribePaid
    <3> HIDE DEF w
    <3> QED BY <1>0, <3>1, <3>2, TabKeepsShop
  <2>3. CASE ~(Payments /\ token # "none")
    BY <1>1, <2>1, <2>3 DEF SubscribePaid
  <2> QED BY <2>2, <2>3
<1>6. CASE Charge(t)
  <2>1. work[t].plan \in PaidPlans /\ work[t].plan \in PlanOrNone /\ charged < MaxPayments
        /\ shop' = shop /\ payments' = payments
    BY <1>0, <1>6 DEF Charge, At, BoutiqueInv, PlansPaid, Work
  <2>2. CASE work[t].token \in AcceptedTokens
    <3> DEFINE w == [Resting EXCEPT !.at = "paid", !.plan = work[t].plan]
    <3>1. w \in Work /\ w.at = "paid" /\ w.plan = work[t].plan
      BY <2>1 DEF Resting, Work, PlanOrNone, AnyToken
    <3>2. work' = [work EXCEPT ![t] = w] /\ charged' = charged + 1
      BY <1>6, <2>2 DEF Charge, Keeps
    <3>3. charged' \in 0 .. MaxPayments /\ charged <= charged' /\ charged' >= 1
      BY <1>0, <2>1, <3>2
    <3> HIDE DEF w
    <3> QED BY <2>1, <3>1, <3>2, <3>3, TabKeepsShop
  <2>3. CASE work[t].token \notin AcceptedTokens /\ work[t].token \in KnownTokens
    <3> DEFINE w == [Resting EXCEPT !.at = "refused", !.plan = work[t].plan]
    <3>1. w \in Work /\ w.at = "refused" /\ w.plan = work[t].plan
      BY <2>1 DEF Resting, Work, PlanOrNone, AnyToken
    <3>2. work' = [work EXCEPT ![t] = w] /\ charged' = charged
      BY <1>6, <2>3 DEF Charge, Keeps
    <3> HIDE DEF w
    <3> QED BY <1>0, <2>1, <3>1, <3>2, TabKeepsShop
  <2>4. CASE work[t].token \notin AcceptedTokens /\ work[t].token \notin KnownTokens
    BY <1>1, <1>6, <2>1, <2>4 DEF Charge
  <2> QED BY <2>2, <2>3, <2>4
<1> QED BY <1>2, <1>3, <1>4, <1>5, <1>6

(* The other two write the shop: a cancellation and the end of the onboarding. *)
LEMMA RowStagesKeepShop ==
  ASSUME BoutiqueInv, NEW t \in Tabs, Cancel(t) \/ Complete(t)
  PROVE  BoutiqueInv' /\ Grows
<1> DEFINE at == IF At(t, "cancelling") THEN "subscribed" ELSE "ready"
           w == [Resting EXCEPT !.at = at]
<1>1. w \in Work /\ w.at = at
  BY DEF Resting, Work, PlanOrNone, AnyToken
<1>2. shop \in Shop /\ work \in [Tabs -> Work]
  BY DEF BoutiqueInv, BoutiquesTypeOK
<1>3. work' = [work EXCEPT ![t] = w] /\ payments' = payments /\ charged' = charged
  BY DEF Cancel, Complete, Goes, At
<1>4. shop' \in Shop /\ shop'.plan = shop.plan /\ shop'.window = shop.window /\ shop'.identity = shop.identity
      /\ (shop.completed => shop'.completed)
  BY <1>2 DEF Cancel, Complete, Shop
<1>5. shop'.completed => shop.completed \/ At(t, "completing")
  BY <1>2 DEF Cancel, Complete, Shop
<1>6. at \in {"subscribed", "ready"}
  OBVIOUS
<1> HIDE DEF w, at
<1>7. \A u \in Tabs : work'[u] = IF u = t THEN w ELSE work[u]
  BY <1>2, <1>3
<1>8. NextStep' = NextStep
  BY <1>4 DEF NextStep
<1>9. BoutiquesTypeOK'
  BY <1>1, <1>2, <1>3, <1>4 DEF BoutiqueInv, BoutiquesTypeOK
<1>10. SectionsFilled'
  BY <1>1, <1>4, <1>5, <1>6, <1>7, <1>8 DEF BoutiqueInv, SectionsFilled, At
<1>11. PlansPaid'
  BY <1>1, <1>3, <1>4, <1>6, <1>7 DEF BoutiqueInv, PlansPaid
<1> QED BY <1>4, <1>9, <1>10, <1>11 DEF BoutiqueInv, Grows

(* A payment is recorded after the older ones: a refused one leaves the last that succeeded. *)
LEMMA PaymentsKeepShop ==
  ASSUME BoutiqueInv, NEW t \in Tabs, RecordRefusal(t) \/ RecordPayment(t)
  PROVE  BoutiqueInv' /\ Grows
<1> DEFINE ok == At(t, "paid")
           plan == work[t].plan
           row == [plan |-> plan, ok |-> ok]
           at == IF ok THEN "subscribed" ELSE "failed"
           w == [Resting EXCEPT !.at = at]
<1>1. shop \in Shop /\ work \in [Tabs -> Work] /\ payments \in Seq(Payment) /\ charged \in 0 .. MaxPayments
      /\ Len(payments) \in Nat
  BY DEF BoutiqueInv, BoutiquesTypeOK
<1>2. plan \in PaidPlans /\ plan \in PlanOrNone /\ ok \in BOOLEAN /\ (ok => charged >= 1)
      /\ at \in {"subscribed", "failed"}
  BY DEF RecordRefusal, RecordPayment, At, BoutiqueInv, PlansPaid, PaidPlans, PlanOrNone
<1>3. w \in Work /\ w.at = at
  BY DEF Resting, Work, PlanOrNone, AnyToken
<1>4. row \in Payment /\ row.plan = plan /\ row.ok = ok
  BY <1>2 DEF Payment
<1>5. payments' = Append(payments, row) /\ work' = [work EXCEPT ![t] = w] /\ charged' = charged
      /\ Len(payments) < MaxPayments
  BY DEF RecordRefusal, RecordPayment, Recorded, Goes, At
<1>6. shop' = IF ok THEN [shop EXCEPT !.plan = plan, !.churned = FALSE] ELSE shop
  BY DEF RecordRefusal, RecordPayment, AfterRefusal, At
<1>7. shop' \in Shop /\ shop'.window = shop.window /\ shop'.identity = shop.identity
      /\ shop'.completed = shop.completed /\ shop'.plan = IF ok THEN plan ELSE shop.plan
  BY <1>1, <1>2, <1>6 DEF Shop
<1>8. plan # "none"
  BY <1>2 DEF PaidPlans, PlanCodes
<1> HIDE DEF w, at, row, ok, plan
<1>9. /\ payments' \in Seq(Payment) /\ Len(payments') = Len(payments) + 1
      /\ \A i \in 1 .. Len(payments) : payments'[i] = payments[i]
      /\ payments'[Len(payments) + 1] = row
  BY <1>1, <1>4, <1>5, AppendedPayment
<1>10. \A u \in Tabs : work'[u] = IF u = t THEN w ELSE work[u]
  BY <1>1, <1>5
<1>11. NextStep' = NextStep
  BY <1>7 DEF NextStep
<1>12. BoutiquesTypeOK'
  <2>1. Len(payments') <= MaxPayments
    BY <1>1, <1>5, <1>9, BoutiquesAssumption
  <2> QED BY <1>1, <1>3, <1>5, <1>7, <1>9, <2>1 DEF BoutiquesTypeOK
<1>13. SectionsFilled'
  BY <1>2, <1>3, <1>7, <1>10, <1>11 DEF BoutiqueInv, SectionsFilled
<1>14. DOMAIN payments' = 1 .. Len(payments) + 1 /\ DOMAIN payments = 1 .. Len(payments)
  BY <1>1, <1>9
<1>15. CASE ok
  <2> DEFINE last == Len(payments) + 1
  <2>1. last \in DOMAIN payments' /\ payments'[last] = [plan |-> shop'.plan, ok |-> TRUE]
        /\ (\A j \in last + 1 .. Len(payments') : ~payments'[j].ok) /\ charged' >= 1
    BY <1>1, <1>2, <1>5, <1>7, <1>9, <1>14, <1>15 DEF row
  <2> HIDE DEF last
  <2> QED BY <1>2, <1>3, <1>5, <1>7, <1>10, <1>12, <1>13, <2>1 DEF BoutiqueInv, PlansPaid, Grows
<1>16. CASE ~ok
  <2>1. shop'.plan # "none" =>
          \E i \in DOMAIN payments' :
            /\ payments'[i] = [plan |-> shop'.plan, ok |-> TRUE]
            /\ \A j \in i + 1 .. Len(payments') : ~payments'[j].ok
            /\ charged' >= 1
    <3> SUFFICES ASSUME shop'.plan # "none"
                 PROVE  \E i \in DOMAIN payments' :
                          /\ payments'[i] = [plan |-> shop'.plan, ok |-> TRUE]
                          /\ \A j \in i + 1 .. Len(payments') : ~payments'[j].ok
                          /\ charged' >= 1
      OBVIOUS
    <3>1. shop'.plan = shop.plan
      BY <1>7, <1>16
    <3>2. PICK i \in DOMAIN payments :
            /\ payments[i] = [plan |-> shop.plan, ok |-> TRUE]
            /\ \A j \in i + 1 .. Len(payments) : ~payments[j].ok
            /\ charged >= 1
      BY <3>1 DEF BoutiqueInv, PlansPaid
    <3>3. i \in DOMAIN payments' /\ payments'[i] = payments[i] /\ i \in 1 .. Len(payments)
      BY <1>1, <1>9, <1>14
    <3>4. ~payments'[Len(payments) + 1].ok
      BY <1>4, <1>9, <1>16
    <3>5. ASSUME NEW j \in i + 1 .. Len(payments') PROVE ~payments'[j].ok
      <4>1. CASE j = Len(payments) + 1
        BY <3>4, <4>1
      <4>2. CASE j # Len(payments) + 1
        <5>1. j \in i + 1 .. Len(payments) /\ j \in 1 .. Len(payments)
          BY <1>1, <1>9, <3>3, <4>2
        <5> QED BY <1>9, <3>2, <5>1
      <4> QED BY <4>1, <4>2
    <3> QED BY <1>5, <3>1, <3>2, <3>3, <3>5
  <2> QED BY <1>2, <1>3, <1>5, <1>7, <1>10, <1>12, <1>13, <1>16, <2>1 DEF BoutiqueInv, PlansPaid, Grows
<1> QED BY <1>15, <1>16

(* Every step of the API keeps the shop right. *)
LEMMA ApiKeepsShop ==
  ASSUME BoutiqueInv, NEW t \in Tabs,
         \/ SubscribeFree(t) \/ BillingStep(t) \/ OnboardingStep(t) \/ RequestFails(t) \/ Acknowledge(t)
         \/ \E plan \in PaidPlans, token \in AnyToken : SubscribePaid(t, plan, token)
  PROVE  BoutiqueInv' /\ Grows
BY QuietStagesKeepShop, RowStagesKeepShop, PaymentsKeepShop DEF BillingStep, OnboardingStep

---------------------------------------------------------------------------
(* The pages *)

LEMMA StepPages ==
  /\ \A i \in 1 .. 4 : StepPage[i] \in Page
  /\ StepPage[1] = "boutique" /\ StepPage[2] = "agent" /\ StepPage[3] = "details" /\ StepPage[4] = "plan"
  /\ NextStep \in 1 .. 3 /\ LastOpenStep \in 1 .. 4 /\ NextStep <= LastOpenStep
BY DEF StepPage, Page, NextStep, LastOpenStep, PlanStep

LEMMA TargetOfStep ==
  ASSUME NEW i \in 1 .. 4
  PROVE  Target(StepPage[i]) = IF ~cookie THEN "login" ELSE StepTarget(i)
<1>1. StepPage[i] \in Protected
      /\ StepPage[i] \notin {"login", "verify-email", "onboarding", "dashboard", "admin"}
  BY StepPages DEF Protected
<1>2. \A j \in 1 .. 4 : StepPage[j] = StepPage[i] => j = i
  BY StepPages
<1>3. (CHOOSE j \in 1 .. 4 : StepPage[j] = StepPage[i]) = i
  BY <1>2
<1> QED BY <1>1, <1>3 DEF Target

LEMMA TargetOfOthers ==
  /\ Target("login") = "login"
  /\ Target("verify-email") = VerifyEmailTarget
  /\ Target("onboarding") = IF ~cookie THEN "login" ELSE OnboardingTarget
  /\ Target("dashboard") = IF ~cookie THEN "login" ELSE DashboardTarget
  /\ Target("admin") = IF ~cookie THEN "login" ELSE AdminTarget
BY DEF Target, Protected, Page

LEMMA PageIsOne ==
  ASSUME NEW page \in Page
  PROVE  page \in {"login", "verify-email", "onboarding", "dashboard", "admin"}
           \/ \E i \in 1 .. 4 : page = StepPage[i]
BY DEF Page

LEMMA TargetIsPage ==
  ASSUME NEW page \in Page
  PROVE  Target(page) \in Page
<1>1. {"login", "verify-email", "onboarding", "dashboard", "admin"} \subseteq Page
  BY DEF Page
<1>2. CASE \E i \in 1 .. 4 : page = StepPage[i]
  <2>1. PICK i \in 1 .. 4 : page = StepPage[i]
    BY <1>2
  <2>2. Target(page) = IF ~cookie THEN "login" ELSE StepTarget(i)
    BY <2>1, TargetOfStep
  <2> QED BY <1>1, <2>2, StepPages DEF StepTarget, RefusedCall
<1>3. CASE page \in {"login", "verify-email", "onboarding", "dashboard", "admin"}
  BY <1>1, <1>3, TargetOfOthers, StepPages
     DEF VerifyEmailTarget, OnboardingTarget, DashboardTarget, AdminTarget, RefusedCall
<1> QED BY <1>2, <1>3, PageIsOne

(* A page that the server renders is one that the shop is ready for. *)
LEMMA RenderedPageFits ==
  ASSUME BoutiquesTypeOK, NEW page \in Page, Target(page) = page
  PROVE  /\ page = "dashboard" => shop.completed
         /\ page \in {"agent", "details", "plan"} => shop.identity
         /\ page \in {"details", "plan"} => shop.window # NoWindow
<1>1. CASE page = "dashboard"
  BY <1>1, TargetOfOthers, StepPages, ShopShape DEF DashboardTarget, RefusedCall, AppClosed
<1>2. ASSUME NEW i \in 2 .. 4, page = StepPage[i]
      PROVE  i <= LastOpenStep
  <2>1. i \in 1 .. 4 /\ \A j \in 1 .. 4 : StepPage[j] = StepPage[i] => j = i
    BY StepPages
  <2>2. StepPage[i] \notin {"login", "verify-email", "dashboard"}
    BY <2>1, StepPages
  <2>3. StepTarget(i) = StepPage[i]
    BY <1>2, <2>1, <2>2, TargetOfStep
  <2>4. RefusedCall(FALSE) = "none" /\ ~shop.completed
    BY <2>2, <2>3, ShopShape DEF StepTarget, RefusedCall
  <2>5. i > LastOpenStep => StepPage[NextStep] = StepPage[i]
    BY <2>3, <2>4 DEF StepTarget
  <2>6. i > LastOpenStep => NextStep = i
    BY <2>1, <2>5, StepPages
  <2> QED BY <2>1, <2>6, StepPages
<1>3. page = "agent" => 2 <= LastOpenStep
  BY <1>2, StepPages
<1>4. page = "details" => 3 <= LastOpenStep
  BY <1>2, StepPages
<1>5. page = "plan" => 4 <= LastOpenStep
  BY <1>2, StepPages
<1>6. LastOpenStep >= 2 => shop.identity
  BY DEF LastOpenStep, NextStep, PlanStep
<1>7. LastOpenStep >= 3 => shop.window # NoWindow
  BY DEF LastOpenStep, NextStep, PlanStep
<1>8. LastOpenStep \in Int
  BY StepPages
<1> QED BY <1>1, <1>3, <1>4, <1>5, <1>6, <1>7, <1>8

Rests(page) == Target(page) = page

(* A missing session, an unconfirmed address: every page ends on one of two. *)
LEMMA ClosedPagesRest ==
  ASSUME NEW page \in Page, cookie \in BOOLEAN, accepted \in BOOLEAN, verified \in BOOLEAN,
         ~(cookie /\ accepted /\ verified)
  PROVE  Rests(Target(page)) \/ Rests(Target(Target(page)))
<1> DEFINE first == Target(page)
<1>1. CASE \E i \in 1 .. 4 : page = StepPage[i]
  <2>1. PICK i \in 1 .. 4 : page = StepPage[i]
    BY <1>1
  <2>2. Target(page) = IF ~cookie THEN "login" ELSE StepTarget(i)
    BY <2>1, TargetOfStep
  <2>3. Target(page) = "login" \/ (Target(page) = "verify-email" /\ cookie /\ accepted /\ ~verified)
    BY <2>2 DEF StepTarget, RefusedCall
  <2> QED BY <2>3, TargetOfOthers DEF Rests, VerifyEmailTarget, RefusedCall, InboxSends
<1>2. CASE page \in {"login", "verify-email", "onboarding", "dashboard", "admin"}
  <2>1. \/ Target(page) = "login"
        \/ Target(page) = "verify-email" /\ cookie /\ accepted /\ ~verified
        \/ Target(page) = "dashboard" /\ cookie /\ accepted /\ ~verified
    BY <1>2, TargetOfOthers
       DEF VerifyEmailTarget, OnboardingTarget, DashboardTarget, AdminTarget, RefusedCall, InboxSends
  <2>2. Rests("login") /\ (cookie /\ accepted /\ ~verified =>
                             Rests("verify-email") /\ Target("dashboard") = "verify-email")
    BY TargetOfOthers DEF Rests, VerifyEmailTarget, DashboardTarget, RefusedCall, InboxSends
  <2> QED BY <2>1, <2>2 DEF Rests
<1> QED BY <1>1, <1>2, PageIsOne

(* The screen that is missing, and the app once none is. *)
LEMMA OpenPages ==
  ASSUME cookie, accepted, verified, shop.completed \in BOOLEAN
  PROVE  /\ Rests("login")
         /\ shop.completed => Rests("dashboard") /\ \A i \in 1 .. 4 : Target(StepPage[i]) = "dashboard"
         /\ ~shop.completed =>
              /\ Target("dashboard") = StepPage[NextStep]
              /\ \A i \in 1 .. 4 : i <= LastOpenStep => Rests(StepPage[i])
              /\ \A i \in 1 .. 4 : i > LastOpenStep => Target(StepPage[i]) = StepPage[NextStep]
<1>1. RefusedCall(FALSE) = "none"
  BY DEF RefusedCall
<1>2. \A i \in 1 .. 4 : Target(StepPage[i]) = StepTarget(i)
  BY TargetOfStep
<1>3. \A i \in 1 .. 4 : StepTarget(i) = IF shop.completed THEN "dashboard"
                                        ELSE IF i > LastOpenStep THEN StepPage[NextStep] ELSE StepPage[i]
  BY <1>1 DEF StepTarget
<1>4. Target("login") = "login"
      /\ Target("dashboard") = IF shop.completed THEN "dashboard" ELSE StepPage[NextStep]
  BY <1>1, TargetOfOthers DEF DashboardTarget, AppClosed
<1>5. LastOpenStep \in Int
  BY StepPages
<1> QED BY <1>2, <1>3, <1>4, <1>5 DEF Rests

LEMMA OpenPagesRest ==
  ASSUME NEW page \in Page, cookie, accepted, verified, shop.completed \in BOOLEAN, admin \in BOOLEAN
  PROVE  \/ Rests(page) \/ Rests(Target(page)) \/ Rests(Target(Target(page)))
         \/ Rests(Target(Target(Target(page))))
<1> DEFINE home == IF shop.completed THEN "dashboard" ELSE StepPage[NextStep]
<1>1. Rests(home)
  BY OpenPages, StepPages
<1>2. CASE \E i \in 1 .. 4 : page = StepPage[i]
  <2>1. Rests(page) \/ Target(page) = home
    BY <1>2, OpenPages, StepPages
  <2> QED BY <1>1, <2>1
<1>3. CASE page \in {"login", "verify-email", "onboarding", "dashboard", "admin"}
  <2>1. Target("onboarding") = home /\ Target("dashboard") = home /\ Target("verify-email") = "onboarding"
    BY OpenPages, TargetOfOthers
       DEF OnboardingTarget, DashboardTarget, VerifyEmailTarget, RefusedCall, InboxSends, AppClosed
  <2>2. Rests("login") /\ (Rests("admin") \/ Target("admin") = "dashboard")
    BY TargetOfOthers DEF Rests, AdminTarget, RefusedCall
  <2> QED BY <1>1, <1>3, <2>1, <2>2
<1> QED BY <1>2, <1>3, PageIsOne

LEMMA RestsStays ==
  ASSUME NEW page, Rests(page)
  PROVE  Rests(Target(page)) /\ Target(page) = page
BY DEF Rests

LEMMA PagesRest ==
  ASSUME PagesTypeOK
  PROVE  NoRedirectLoop /\ NothingBlocksOnboarding
<1>0. cookie \in BOOLEAN /\ accepted \in BOOLEAN /\ verified \in BOOLEAN /\ admin \in BOOLEAN
      /\ shop.completed \in BOOLEAN
  BY ShopShape DEF PagesTypeOK
<1>1. ASSUME NEW page \in Page PROVE Rests(Target(Target(Target(Target(page)))))
  <2>1. \/ Rests(page) \/ Rests(Target(page)) \/ Rests(Target(Target(page)))
        \/ Rests(Target(Target(Target(page))))
    BY <1>0, ClosedPagesRest, OpenPagesRest
  <2> QED BY <2>1, RestsStays
<1>2. NoRedirectLoop
  BY <1>1 DEF NoRedirectLoop, Rests
<1>3. NothingBlocksOnboarding
  <2> SUFFICES ASSUME cookie, accepted, verified, ~shop.completed
               PROVE  /\ Target(StepPage[NextStep]) = StepPage[NextStep]
                      /\ NextStep = 3 => Target("plan") = "plan"
    BY DEF NothingBlocksOnboarding
  <2>1. Rests(StepPage[NextStep])
    BY <1>0, OpenPages, StepPages
  <2>2. NextStep = 3 => Rests("plan")
    BY <1>0, OpenPages, StepPages DEF LastOpenStep, PlanStep
  <2> QED BY <2>1, <2>2 DEF Rests
<1> QED BY <1>2, <1>3

(* What a tab shows still fits when the shop has grown, and a tab on its way shows nothing. *)
LEMMA ShownStays ==
  ASSUME PagesTypeOK, ShownPageFits, Grows,
         \/ tab' = tab
         \/ \E t \in Tabs, page \in Page : Open(t, page)
  PROVE  ShownPageFits' /\ tab' \in [Tabs -> [page : Page, shown : BOOLEAN]]
<1>1. CASE tab' = tab
  BY <1>1 DEF PagesTypeOK, ShownPageFits, Grows
<1>2. CASE \E t \in Tabs, page \in Page : Open(t, page)
  <2>1. PICK t \in Tabs, page \in Page : tab' = [tab EXCEPT ![t] = [page |-> page, shown |-> FALSE]]
    BY <1>2 DEF Open
  <2>2. tab' \in [Tabs -> [page : Page, shown : BOOLEAN]]
    BY <2>1 DEF PagesTypeOK
  <2>3. \A u \in Tabs : tab'[u] = IF u = t THEN [page |-> page, shown |-> FALSE] ELSE tab[u]
    BY <2>1 DEF PagesTypeOK
  <2>4. ShownPageFits'
    BY <2>3 DEF ShownPageFits, Grows
  <2> QED BY <2>2, <2>4
<1> QED BY <1>1, <1>2

LEMMA PagesInvParts ==
  /\ PagesInv <=> /\ BoutiqueInv /\ ShownPageFits /\ tab \in [Tabs -> [page : Page, shown : BOOLEAN]]
                  /\ cookie \in BOOLEAN /\ accepted \in BOOLEAN /\ verified \in BOOLEAN /\ admin \in BOOLEAN
  /\ PagesInv' <=> /\ BoutiqueInv' /\ ShownPageFits' /\ tab' \in [Tabs -> [page : Page, shown : BOOLEAN]]
                   /\ cookie' \in BOOLEAN /\ accepted' \in BOOLEAN /\ verified' \in BOOLEAN /\ admin' \in BOOLEAN
BY DEF PagesInv, BoutiqueInv, PagesTypeOK

LEMMA SameShop ==
  ASSUME BoutiqueInv, UNCHANGED boutiqueVars
  PROVE  BoutiqueInv' /\ Grows
<1>1. shop' = shop /\ payments' = payments /\ charged' = charged /\ work' = work
  BY DEF boutiqueVars
<1> QED BY <1>1 DEF BoutiqueInv, BoutiquesTypeOK, SectionsFilled, PlansPaid, NextStep, LongEnough, Grows

(* What a step of a page or of the API does to the shop, and where it leaves the tabs. *)
LEMMA StepKeepsPages ==
  ASSUME PagesInv, BoutiqueInv' /\ Grows,
         tab' = tab \/ \E t \in Tabs, page \in Page : Open(t, page),
         cookie' \in BOOLEAN, accepted' \in BOOLEAN, verified' \in BOOLEAN, admin' \in BOOLEAN
  PROVE  PagesInv'
<1>1. PagesTypeOK /\ ShownPageFits
  BY DEF PagesInv
<1> QED BY <1>1, ShownStays, PagesInvParts

LEMMA FollowKeepsPages ==
  ASSUME PagesInv, NEW t \in Tabs, Follow(t)
  PROVE  PagesInv'
<1> DEFINE next == Target(tab[t].page)
           there == [page |-> next, shown |-> next = tab[t].page]
<1>1. BoutiqueInv /\ tab \in [Tabs -> [page : Page, shown : BOOLEAN]] /\ ShownPageFits /\ BoutiquesTypeOK
  BY PagesInvParts DEF BoutiqueInv
<1>2. BoutiqueInv' /\ Grows /\ UNCHANGED accountState /\ shop' = shop
  BY <1>1, SameShop DEF Follow, boutiqueVars
<1>3. tab[t].page \in Page /\ next \in Page
  BY <1>1, TargetIsPage
<1>4. tab' = [tab EXCEPT ![t] = there]
  BY DEF Follow
<1>5. there \in [page : Page, shown : BOOLEAN] /\ there.page = next
      /\ (there.shown => next = tab[t].page)
  BY <1>3
<1>6. there.shown => /\ next = "dashboard" => shop.completed
                     /\ next \in {"agent", "details", "plan"} => shop.identity
                     /\ next \in {"details", "plan"} => shop.window # NoWindow
  BY <1>1, <1>3, <1>5, RenderedPageFits
<1> HIDE DEF there, next
<1>7. tab' \in [Tabs -> [page : Page, shown : BOOLEAN]]
      /\ \A u \in Tabs : tab'[u] = IF u = t THEN there ELSE tab[u]
  BY <1>1, <1>4, <1>5
<1>8. ShownPageFits'
  BY <1>1, <1>2, <1>5, <1>6, <1>7 DEF ShownPageFits
<1>9. cookie' \in BOOLEAN /\ accepted' \in BOOLEAN /\ verified' \in BOOLEAN /\ admin' \in BOOLEAN
  BY <1>2, PagesInvParts DEF accountState
<1> QED BY <1>2, <1>7, <1>8, <1>9, PagesInvParts

LEMMA TabsKeepPages ==
  ASSUME PagesInv, NEW t \in Tabs, PagesStep(t)
  PROVE  PagesInv'
<1>0. BoutiqueInv /\ cookie \in BOOLEAN /\ accepted \in BOOLEAN /\ verified \in BOOLEAN /\ admin \in BOOLEAN
  BY PagesInvParts
<1>p. {"login", "verify-email", "onboarding", "dashboard", "admin", "boutique", "agent", "details", "plan"} = Page
  BY StepPages, PageIsOne DEF Page
<1>1. CASE \E page \in Page : Visit(t, page)
  BY <1>0, <1>1, SameShop, StepKeepsPages DEF Visit, accountState
<1>2. CASE Follow(t)
  BY <1>2, FollowKeepsPages
<1>3. CASE SaveIdentity(t)
  <2>1. EditsShop
    BY <1>3 DEF SaveIdentity, EditsShop
  <2> QED BY <1>0, <1>p, <1>3, <2>1, EditKeepsShop, StepKeepsPages DEF SaveIdentity, accountState
<1>4. CASE SaveAgent(t)
  <2>1. EditsShop
    BY <1>4 DEF SaveAgent, EditsShop
  <2> QED BY <1>0, <1>p, <1>4, <2>1, EditKeepsShop, StepKeepsPages DEF SaveAgent, accountState
<1>5. CASE FinishDetails(t)
  <2>1. EditsShop \/ UNCHANGED boutiqueVars
    BY <1>5, BoutiquesAssumption DEF FinishDetails, EditsShop, boutiqueVars
  <2>2. BoutiqueInv' /\ Grows
    BY <1>0, <2>1, EditKeepsShop, SameShop
  <2> QED BY <1>0, <1>p, <1>5, <2>2, StepKeepsPages DEF FinishDetails, accountState
<1>6. CASE SubmitRefused(t)
  <2>1. RefusedCall(FALSE) \in Page
    BY <1>6, <1>p DEF SubmitRefused, RefusedCall
  <2> QED BY <1>0, <1>6, <2>1, SameShop, StepKeepsPages DEF SubmitRefused, accountState
<1>7. CASE ChoosePlan(t)
  <2>1. SubscribeFree(t) \/ \E plan \in PaidPlans, token \in AnyToken : SubscribePaid(t, plan, token)
    <3>1. \A card : Token(card) \in AnyToken
      <4>1. \A n \in DOMAIN TestCards : TestCards[n] \in KnownTokens
        BY DEF TestCards, KnownTokens
      <4> QED BY <4>1 DEF Token, AnyToken
    <3> QED BY <1>7, <3>1, BoutiquesAssumption DEF ChoosePlan
  <2>2. BoutiqueInv' /\ Grows
    BY <1>0, <2>1, ApiKeepsShop
  <2> QED BY <1>0, <1>7, <2>2, StepKeepsPages DEF ChoosePlan, accountState
<1>8. CASE PlanChosen(t)
  <2>1. BoutiqueInv' /\ Grows
    BY <1>0, <1>8, ApiKeepsShop DEF PlanChosen
  <2> QED BY <1>0, <1>p, <1>8, <2>1, StepKeepsPages DEF PlanChosen, accountState
<1>9. CASE EditShop(t)
  <2>1. EditsShop
    BY <1>9, BoutiquesAssumption DEF EditShop, EditsShop
  <2> QED BY <1>0, <1>9, <2>1, EditKeepsShop, StepKeepsPages DEF EditShop, accountState
<1>10. CASE LogsIn(t)
  BY <1>0, <1>p, <1>10, SameShop, StepKeepsPages DEF LogsIn
<1>11. CASE LogsOut(t)
  BY <1>0, <1>p, <1>11, SameShop, StepKeepsPages DEF LogsOut
<1>12. CASE (BillingStep(t) \/ OnboardingStep(t) \/ RequestFails(t)) /\ UNCHANGED <<tab, accountState>>
  BY <1>0, <1>12, ApiKeepsShop, StepKeepsPages DEF accountState
<1> QED BY <1>1, <1>2, <1>3, <1>4, <1>5, <1>6, <1>7, <1>8, <1>9, <1>10, <1>11, <1>12 DEF PagesStep

LEMMA NextKeepsPages == PagesInv /\ [PagesNext]_pagesVars => PagesInv'
<1> SUFFICES ASSUME PagesInv, [PagesNext]_pagesVars PROVE PagesInv'
  OBVIOUS
<1>0. BoutiqueInv /\ cookie \in BOOLEAN /\ accepted \in BOOLEAN /\ verified \in BOOLEAN /\ admin \in BOOLEAN
  BY PagesInvParts
<1>1. CASE \E t \in Tabs : PagesStep(t)
  BY <1>1, TabsKeepPages
<1>2. CASE Confirmed \/ SessionEnds \/ MadeAdmin
  BY <1>0, <1>2, SameShop, StepKeepsPages DEF Confirmed, SessionEnds, MadeAdmin
<1>3. CASE OtherDevice
  <2>1. EditsShop
    BY <1>3 DEF OtherDevice, EditsShop
  <2> QED BY <1>0, <1>3, <2>1, EditKeepsShop, StepKeepsPages DEF OtherDevice, accountState
<1>4. CASE BoutiquesNext /\ UNCHANGED <<accountState, tab>>
  <2>1. BoutiqueInv' /\ Grows
    <3>1. CASE (UpdateIdentity \/ \E window \in Windows : UpdateAgent(window)) /\ UNCHANGED work
      BY <1>0, <3>1, EditKeepsShop DEF EditsShop
    <3>2. CASE \E t \in Tabs :
                 \/ SubscribeFree(t)
                 \/ \E plan \in Tried, token \in Tokens : SubscribePaid(t, plan, token)
                 \/ BillingStep(t) \/ OnboardingStep(t) \/ RequestFails(t) \/ Acknowledge(t)
      BY <1>0, <3>2, ApiKeepsShop, BoutiquesAssumption
    <3> QED BY <1>4, <3>1, <3>2 DEF BoutiquesNext
  <2> QED BY <1>0, <1>4, <2>1, StepKeepsPages DEF accountState
<1>5. CASE UNCHANGED pagesVars
  BY <1>0, <1>5, SameShop, StepKeepsPages DEF pagesVars, accountState
<1> QED BY <1>1, <1>2, <1>3, <1>4, <1>5 DEF PagesNext, Elsewhere

LEMMA PagesInvHolds == PagesSpec => []PagesInv
BY InitialPages, NextKeepsPages, PTL DEF PagesSpec

(***************************************************************************)
(* A shop that finished its onboarding has its name and a window in which it *)
(* can be called, whatever the requests of any number of tabs and devices     *)
(* edit while one of them waits to complete it.                             *)
(***************************************************************************)
THEOREM CompletedShopHolds == PagesSpec => []CompletedShopIsCallable
<1>1. PagesInv => CompletedShopIsCallable
  <2> SUFFICES ASSUME PagesInv, shop.completed
               PROVE  shop.identity /\ \E minute \in Times : WithinWindow(shop.window, minute)
    BY DEF CompletedShopIsCallable
  <2>1. shop.identity /\ shop.window # NoWindow /\ LongEnough(shop.window) /\ shop.window \in Windows
    BY ShopShape DEF PagesInv, PagesTypeOK, SectionsFilled
  <2>2. PICK a \in Times, b \in Times : shop.window = <<a, b>>
    BY <2>1 DEF Windows
  <2>3. a \in Int /\ b \in Int /\ b - a >= 60
    BY <2>1, <2>2, BoutiquesAssumption DEF LongEnough, MinWindow
  <2>4. WithinWindow(shop.window, a)
    BY <2>1, <2>2, <2>3 DEF WithinWindow
  <2> QED BY <2>1, <2>4
<1> QED BY <1>1, PagesInvHolds, PTL

(***************************************************************************)
(* A running paid plan is the one of the last payment that succeeded, after   *)
(* a charge: for any number of tabs, payments, refused cards and requests     *)
(* that fail between the charge and its record.                             *)
(***************************************************************************)
THEOREM PaidPlanHolds == PagesSpec => []PaidPlanWasPaid
<1>1. PagesInv => PaidPlanWasPaid
  <2> SUFFICES ASSUME PagesInv, Running \in PaidPlans
               PROVE  \E i \in DOMAIN payments :
                        /\ payments[i] = [plan |-> Running, ok |-> TRUE]
                        /\ \A j \in i + 1 .. Len(payments) : ~payments[j].ok
                        /\ charged >= 1
    BY DEF PaidPlanWasPaid
  <2>1. shop.plan # "none" /\ Running = shop.plan
    BY DEF Running, CurrentPlan, PlanOf, PaidPlans, PlanCodes, Price, PagesInv, PlansPaid
  <2> QED BY <2>1 DEF PagesInv, PlansPaid
<1> QED BY <1>1, PagesInvHolds, PTL

(***************************************************************************)
(* The redirects always end, never bar a merchant from the screen that is     *)
(* missing, and show no page that the shop is not ready for, in any number   *)
(* of tabs and on other devices.                                            *)
(***************************************************************************)
THEOREM RedirectsHold == PagesSpec => []RedirectsLead
<1>1. PagesInv => RedirectsLead
  BY PagesRest DEF PagesInv, RedirectsLead
<1> QED BY <1>1, PagesInvHolds, PTL

---------------------------------------------------------------------------
(* The accounts *)

Avatars == [e \in Emails |-> IF accounts[e] # NoAccount THEN accounts[e].avatar ELSE None]
Links == [e \in Emails |-> IF accounts[e] # NoAccount THEN accounts[e].resetLink ELSE None]

(* What a request holds, by the stage it is at; its account exists. *)
HoldsPassword == {"hash", "reset", "change"}
HoldsKey == {"welcome", "mailVerify", "mailReset", "put", "store"}

Sound(row) ==
  /\ row \in AccountRow
  /\ row.verifyLink = None => ~row.verifyOld
  /\ row.resetLink = None => ~row.resetOld

RowsInv ==
  /\ accounts \in [Emails -> AccountRow \cup {NoAccount}]
  /\ shops \subseteq Keys /\ pictures \subseteq Keys
  /\ used \in [Keys -> Nat] /\ fresh \in Keys /\ now \in Ticks
  /\ mails \subseteq [to : Emails, kind : {"verify", "reset"}, token : Keys]
  /\ sessions \subseteq [who : Emails, iat : Nat]
  /\ \A e \in Emails : Exists(e) => Sound(accounts[e])
  /\ \A s \in sessions : Exists(s.who)

RequestsInv ==
  /\ req \in [Requests -> ServedRequest \cup {Idle}]
  /\ \A r \in Requests : req[r] # Idle =>
       /\ Exists(req[r].who)
       /\ req[r].at \in HoldsPassword => req[r].arg \in Passwords
       /\ req[r].at \in HoldsKey => req[r].arg \in Keys

(* A shop and its account are created together, under a new id. *)
ShopsInv ==
  /\ \A e \in Emails : Exists(e) => accounts[e].shop \in shops
  /\ \A e, f \in Emails : Exists(e) /\ Exists(f) /\ e # f => accounts[e].shop # accounts[f].shop
  /\ \A b \in shops : b < fresh /\ \E e \in Emails : Exists(e) /\ accounts[e].shop = b

(* A link that is stored is new, is one account's, and was not used. *)
LinksInv ==
  /\ \A t \in Keys : used[t] <= 1 /\ (t >= fresh => used[t] = 0)
  /\ \A e \in Emails : Links[e] # None => Links[e] < fresh /\ used[Links[e]] = 0
  /\ \A e, f \in Emails : e # f /\ Links[e] # None => Links[e] # Links[f]
  /\ \A r \in Requests : req[r].at \in {"hash", "reset"} =>
       req[r].read \in Keys /\ req[r].read < fresh

(* The time of a change is not ahead of the clock, nor of a reset that can still succeed. *)
TimesInv ==
  /\ \A e \in Emails : Exists(e) => accounts[e].changedAt <= ChangedAt(now)
  /\ \A r \in Requests : req[r].at = "reset" =>
       /\ req[r].time <= ChangedAt(now)
       /\ req[r].read = Links[req[r].who] => accounts[req[r].who].changedAt <= req[r].time

Uploading == {"put", "store"}
Replacing == {"put", "store", "unset", "drop"}

(***************************************************************************)
(* A key is drawn once: it belongs to one upload, then to one account.  The  *)
(* picture that a request will delete is the one of its own account, or of    *)
(* none once the row was written.                                           *)
(***************************************************************************)
PicturesInv ==
  /\ \A e \in Emails : Avatars[e] # None => Avatars[e] \in pictures /\ Avatars[e] < fresh
  /\ \A e, f \in Emails : e # f /\ Avatars[e] # None => Avatars[e] # Avatars[f]
  /\ \A r \in Requests : req[r].at \in Uploading => req[r].arg < fresh /\ \A e \in Emails : Avatars[e] # req[r].arg
  /\ \A r, q \in Requests : req[r].at \in Uploading /\ req[q].at \in Uploading /\ r # q => req[r].arg # req[q].arg
  /\ \A r \in Requests : req[r].at = "store" => req[r].arg \in pictures
  /\ \A r \in Requests : req[r].at \in Replacing /\ req[r].read # None =>
       /\ req[r].read < fresh
       /\ \A q \in Requests : req[q].at \in Uploading => req[q].arg # req[r].read
       /\ \A e \in Emails : Avatars[e] = req[r].read => e = req[r].who /\ req[r].at # "drop"

AccountsInv == RowsInv /\ RequestsInv /\ ShopsInv /\ LinksInv /\ TimesInv /\ PicturesInv

LEMMA InitialAccounts == AccountsInit => AccountsInv
<1> SUFFICES ASSUME AccountsInit PROVE AccountsInv
  OBVIOUS
<1>1. \A e \in Emails : ~Exists(e)
  BY DEF AccountsInit, Exists
<1>2. \A r \in Requests : req[r] = Idle /\ req[r].at = "idle"
  BY DEF AccountsInit, Idle
<1>3. RowsInv
  BY <1>1, AccountsAssumption DEF AccountsInit, RowsInv, Keys, Ticks
<1>4. RequestsInv
  BY <1>2 DEF AccountsInit, RequestsInv
<1>5. ShopsInv
  BY <1>1 DEF AccountsInit, ShopsInv
<1>6. LinksInv /\ TimesInv /\ PicturesInv
  BY <1>1, <1>2 DEF AccountsInit, LinksInv, TimesInv, PicturesInv, Links, Avatars, Uploading, Replacing
<1> QED BY <1>3, <1>4, <1>5, <1>6 DEF AccountsInv

LEMMA KeysAreNat == Keys \subseteq Nat /\ Ticks \subseteq Nat /\ None \notin Keys
BY AccountsAssumption DEF Keys, Ticks

LEMMA RowIsThere ==
  ASSUME NEW row \in AccountRow
  PROVE  row # NoAccount
BY KeysAreNat DEF AccountRow, NoAccount

(* The rows after a write of one. *)
LEMMA WrittenRow ==
  ASSUME RowsInv, NEW e \in Emails, NEW row \in AccountRow, accounts' = [accounts EXCEPT ![e] = row]
  PROVE  /\ accounts' \in [Emails -> AccountRow \cup {NoAccount}]
         /\ \A f \in Emails : accounts'[f] = IF f = e THEN row ELSE accounts[f]
         /\ row # NoAccount
BY RowIsThere DEF RowsInv

(* The requests after one of them went on. *)
LEMMA WrittenRequest ==
  ASSUME RequestsInv, NEW r \in Requests, NEW x \in ServedRequest \cup {Idle}, req' = [req EXCEPT ![r] = x]
  PROVE  /\ req' \in [Requests -> ServedRequest \cup {Idle}]
         /\ \A q \in Requests : req'[q] = IF q = r THEN x ELSE req[q]
BY DEF RequestsInv

(* What the other parts of the invariant read of a row stays. *)
QuietRows ==
  \A f \in Emails :
    /\ accounts'[f] # NoAccount <=> accounts[f] # NoAccount
    /\ accounts[f] # NoAccount =>
         /\ accounts'[f].shop = accounts[f].shop /\ accounts'[f].avatar = accounts[f].avatar
         /\ accounts'[f].resetLink = accounts[f].resetLink
         /\ accounts'[f].changedAt = accounts[f].changedAt

LEMMA ChangedAtGrows ==
  ASSUME NEW t \in Nat, NEW u \in Nat, t <= u
  PROVE  ChangedAt(t) \in Nat /\ ChangedAt(t) <= ChangedAt(u) /\ ChangedAt(t) <= t
BY DEF ChangedAt, Second

---------------------------------------------------------------------------
(* Each part stays if what it reads does *)

LEMMA ShopsFrame ==
  ASSUME RowsInv, RowsInv', ShopsInv, shops' = shops, fresh <= fresh',
         \A f \in Emails :
           /\ accounts'[f] # NoAccount <=> accounts[f] # NoAccount
           /\ accounts[f] # NoAccount => accounts'[f].shop = accounts[f].shop
  PROVE  ShopsInv'
<1>1. \A b \in shops : b \in Int /\ fresh \in Int /\ fresh' \in Int
  BY KeysAreNat DEF RowsInv
<1> QED BY <1>1 DEF ShopsInv, Exists

LEMMA LinksFrame ==
  ASSUME RowsInv, RowsInv', LinksInv, used' = used, fresh <= fresh', Links' = Links,
         \A q \in Requests : req'[q] = req[q] \/ req'[q].at \notin {"hash", "reset"}
  PROVE  LinksInv'
<1>1. fresh \in Int /\ fresh' \in Int /\ Keys \subseteq Int
  BY KeysAreNat DEF RowsInv
<1>2. \A f \in Emails : Links[f] \in Keys \cup {None}
  BY DEF RowsInv, Links, Exists, Sound, AccountRow
<1>3. ASSUME NEW t \in Keys PROVE used'[t] <= 1 /\ (t >= fresh' => used'[t] = 0)
  <2>1. used[t] <= 1 /\ (t >= fresh => used[t] = 0)
    BY DEF LinksInv
  <2>2. t \in Int /\ (t >= fresh' => t >= fresh)
    BY <1>1
  <2> QED BY <2>1, <2>2
<1>4. ASSUME NEW e \in Emails, Links[e] # None PROVE Links[e] < fresh' /\ used'[Links[e]] = 0
  <2>1. Links[e] < fresh /\ used[Links[e]] = 0
    BY <1>4 DEF LinksInv
  <2>2. Links[e] \in Int
    BY <1>1, <1>2, <1>4
  <2>3. Links[e] < fresh'
    BY <1>1, <2>1, <2>2
  <2> QED BY <2>1, <2>3
<1>5. ASSUME NEW r \in Requests, req'[r].at \in {"hash", "reset"}
      PROVE  req'[r].read \in Keys /\ req'[r].read < fresh'
  <2>1. req'[r] = req[r] /\ req[r].at \in {"hash", "reset"}
    BY <1>5
  <2>2. req[r].read \in Keys /\ req[r].read < fresh
    BY <2>1 DEF LinksInv
  <2>3. req[r].read \in Int
    BY <1>1, <2>2
  <2>4. req[r].read < fresh'
    BY <1>1, <2>2, <2>3
  <2> QED BY <2>1, <2>2, <2>4
<1>6. \A e, f \in Emails : e # f /\ Links[e] # None => Links[e] # Links[f]
  BY DEF LinksInv
<1> QED BY <1>3, <1>4, <1>5, <1>6 DEF LinksInv

LEMMA TimesFrame ==
  ASSUME RowsInv, RowsInv', RequestsInv, TimesInv, now <= now', Links' = Links,
         \A f \in Emails :
           /\ accounts[f] # NoAccount => accounts'[f].changedAt = accounts[f].changedAt
           /\ accounts[f] = NoAccount /\ accounts'[f] # NoAccount => accounts'[f].changedAt = 0,
         \A q \in Requests : req'[q] = req[q] \/ req'[q].at # "reset"
  PROVE  TimesInv'
<1>1. ChangedAt(now) \in Nat /\ ChangedAt(now) <= ChangedAt(now') /\ ChangedAt(now') \in Nat
  <2>1. now \in Nat /\ now' \in Nat
    BY KeysAreNat DEF RowsInv
  <2> QED BY <2>1, ChangedAtGrows
<1>2. \A e \in Emails : accounts[e] # NoAccount => accounts[e].changedAt \in Nat
  BY KeysAreNat DEF RowsInv, Exists, Sound, AccountRow
<1>3. \A r \in Requests : req[r].at = "reset" =>
        req[r].who \in Emails /\ accounts[req[r].who] # NoAccount /\ req[r].time \in Nat
  <2>1. \A r \in Requests : req[r].at = "reset" => req[r] # Idle
    BY DEF Idle
  <2>2. \A r \in Requests : req[r] # Idle => req[r] \in ServedRequest /\ accounts[req[r].who] # NoAccount
    BY DEF RequestsInv, Exists
  <2>3. \A x \in ServedRequest : x.who \in Emails /\ x.time \in Nat
    BY KeysAreNat DEF ServedRequest
  <2> QED BY <2>1, <2>2, <2>3
<1>4. \A e \in Emails : accounts'[e] # NoAccount => accounts'[e].changedAt <= ChangedAt(now')
  <2>1. \A e \in Emails : accounts[e] # NoAccount => accounts[e].changedAt <= ChangedAt(now)
    BY DEF TimesInv, Exists
  <2> SUFFICES ASSUME NEW e \in Emails, accounts'[e] # NoAccount PROVE accounts'[e].changedAt <= ChangedAt(now')
    OBVIOUS
  <2>2. CASE accounts[e] # NoAccount
    <3>1. accounts'[e].changedAt \in Nat /\ accounts'[e].changedAt <= ChangedAt(now)
      BY <1>2, <2>1, <2>2
    <3> HIDE DEF ChangedAt
    <3> QED BY <1>1, <3>1
  <2>3. CASE accounts[e] = NoAccount
    BY <1>1, <2>3
  <2> QED BY <2>2, <2>3
<1>5. ASSUME NEW r \in Requests, req'[r].at = "reset"
      PROVE  /\ req'[r].time <= ChangedAt(now')
             /\ req'[r].read = Links[req'[r].who] => accounts'[req'[r].who].changedAt <= req'[r].time
  <2>1. req'[r] = req[r] /\ req[r].at = "reset"
    BY <1>5
  <2>2. req[r].who \in Emails /\ accounts[req[r].who] # NoAccount /\ req[r].time \in Nat
    BY <1>3, <2>1
  <2>3. accounts'[req[r].who].changedAt = accounts[req[r].who].changedAt
    BY <2>2
  <2>4. req[r].time <= ChangedAt(now)
        /\ (req[r].read = Links[req[r].who] => accounts[req[r].who].changedAt <= req[r].time)
    BY <2>1 DEF TimesInv
  <2>5. req'[r].time <= ChangedAt(now')
    BY <1>1, <2>1, <2>2, <2>4
  <2> QED BY <2>1, <2>3, <2>4, <2>5
<1> QED BY <1>4, <1>5 DEF TimesInv, Exists

LEMMA PicturesFrame ==
  ASSUME RowsInv, RowsInv', RequestsInv, PicturesInv, fresh <= fresh', pictures' = pictures,
         Avatars' = Avatars,
         \A q \in Requests : req'[q] = req[q] \/ req'[q].at \notin Replacing
  PROVE  PicturesInv'
<1>1. fresh \in Int /\ fresh' \in Int /\ Keys \subseteq Int
  BY KeysAreNat DEF RowsInv
<1>2. \A f \in Emails : Avatars[f] \in Keys \cup {None}
  BY DEF RowsInv, Avatars, Exists, Sound, AccountRow
<1>3. \A q \in Requests : req[q].at \in Uploading => req[q].arg \in Keys
  BY DEF RequestsInv, HoldsKey, Idle, Uploading
<1>4. \A q \in Requests : req[q].at \in Replacing /\ req[q].read # None => req[q].read \in Keys
  BY DEF RequestsInv, Replacing, Idle, ServedRequest
<1>5. Uploading \subseteq Replacing /\ "store" \in Uploading
  BY DEF Uploading, Replacing
<1>6. \A q \in Requests : req'[q].at \in Replacing => req'[q] = req[q]
  OBVIOUS
<1>7. ASSUME NEW e \in Emails, Avatars[e] # None PROVE Avatars[e] \in pictures' /\ Avatars[e] < fresh'
  <2>1. Avatars[e] \in pictures /\ Avatars[e] < fresh
    BY <1>7 DEF PicturesInv
  <2>2. Avatars[e] \in Int
    BY <1>1, <1>2, <1>7
  <2>3. Avatars[e] < fresh'
    BY <1>1, <2>1, <2>2
  <2> QED BY <2>1, <2>3
<1>8. ASSUME NEW r \in Requests, req'[r].at \in Uploading
      PROVE  req'[r].arg < fresh' /\ \A e \in Emails : Avatars[e] # req'[r].arg
  <2>1. req'[r] = req[r] /\ req[r].at \in Uploading
    BY <1>5, <1>6, <1>8
  <2>2. req[r].arg < fresh /\ \A e \in Emails : Avatars[e] # req[r].arg
    BY <2>1 DEF PicturesInv
  <2>3. req[r].arg \in Int
    BY <1>1, <1>3, <2>1
  <2>4. req[r].arg < fresh'
    BY <1>1, <2>2, <2>3
  <2> QED BY <2>1, <2>2, <2>4
<1>9. ASSUME NEW r \in Requests, req'[r].at \in Replacing, req'[r].read # None
      PROVE  /\ req'[r].read < fresh'
             /\ \A q \in Requests : req'[q].at \in Uploading => req'[q].arg # req'[r].read
             /\ \A e \in Emails : Avatars[e] = req'[r].read => e = req'[r].who /\ req'[r].at # "drop"
  <2>1. req'[r] = req[r]
    BY <1>6, <1>9
  <2>2. /\ req[r].read < fresh
        /\ \A q \in Requests : req[q].at \in Uploading => req[q].arg # req[r].read
        /\ \A e \in Emails : Avatars[e] = req[r].read => e = req[r].who /\ req[r].at # "drop"
    BY <1>9, <2>1 DEF PicturesInv
  <2>3. req[r].read \in Int
    BY <1>1, <1>4, <1>9, <2>1
  <2>4. req[r].read < fresh'
    BY <1>1, <2>2, <2>3
  <2> QED BY <1>5, <1>6, <2>1, <2>2, <2>4
<1>12. \A r, q \in Requests : req'[r].at \in Uploading /\ req'[q].at \in Uploading /\ r # q => req'[r].arg # req'[q].arg
  BY <1>5, <1>6 DEF PicturesInv
<1>13. \A r \in Requests : req'[r].at = "store" => req'[r].arg \in pictures'
  BY <1>5, <1>6 DEF PicturesInv
<1> QED BY <1>7, <1>8, <1>9, <1>12, <1>13 DEF PicturesInv

---------------------------------------------------------------------------
(* How a step changes the rows and the requests *)

MailRows == [to : Emails, kind : {"verify", "reset"}, token : Keys]
SessionRows == [who : Emails, iat : Nat]

LEMMA RowsKept ==
  ASSUME RowsInv,
         \/ accounts' = accounts
         \/ \E e \in Emails, row \in AccountRow : Sound(row) /\ accounts' = [accounts EXCEPT ![e] = row],
         shops' \subseteq Keys, pictures' \subseteq Keys, used' \in [Keys -> Nat],
         fresh' \in Keys, now' \in Ticks, mails' \subseteq MailRows,
         \A s \in sessions' : s \in sessions \/ (s \in SessionRows /\ accounts[s.who] # NoAccount)
  PROVE  /\ RowsInv'
         /\ \A f \in Emails : accounts[f] # NoAccount => accounts'[f] # NoAccount
<1>1. /\ accounts' \in [Emails -> AccountRow \cup {NoAccount}]
      /\ \A f \in Emails : accounts'[f] = accounts[f] \/ (Sound(accounts'[f]) /\ accounts'[f] # NoAccount)
  <2>1. CASE accounts' = accounts
    BY <2>1 DEF RowsInv
  <2>2. ASSUME NEW e \in Emails, NEW row \in AccountRow, Sound(row), accounts' = [accounts EXCEPT ![e] = row]
        PROVE  <1>1
    <3>1. /\ accounts' \in [Emails -> AccountRow \cup {NoAccount}]
          /\ \A f \in Emails : accounts'[f] = IF f = e THEN row ELSE accounts[f]
          /\ row # NoAccount
      BY <2>2, WrittenRow
    <3> QED BY <2>2, <3>1
  <2> QED BY <2>1, <2>2
<1>2. \A f \in Emails : accounts[f] # NoAccount => accounts'[f] # NoAccount
  BY <1>1
<1>3. \A f \in Emails : accounts'[f] # NoAccount => Sound(accounts'[f])
  BY <1>1 DEF RowsInv, Exists
<1>4. sessions' \subseteq SessionRows /\ \A s \in sessions' : accounts[s.who] # NoAccount
  BY DEF RowsInv, Exists, SessionRows
<1>5. \A s \in sessions' : accounts'[s.who] # NoAccount
  BY <1>2, <1>4 DEF SessionRows
<1> QED BY <1>1, <1>2, <1>3, <1>4, <1>5 DEF RowsInv, Exists, MailRows, SessionRows

(* What a step that leaves them alone finds in the tables. *)
LEMMA RowsStay ==
  ASSUME RowsInv
  PROVE  /\ shops \subseteq Keys /\ pictures \subseteq Keys /\ used \in [Keys -> Nat]
         /\ fresh \in Keys /\ now \in Ticks /\ mails \subseteq MailRows
         /\ sessions \subseteq SessionRows /\ fresh <= fresh /\ now <= now
         /\ \A s \in sessions : s.who \in Emails /\ accounts[s.who] # NoAccount
         /\ \A e \in Emails : accounts[e] # NoAccount => Sound(accounts[e]) /\ accounts[e] \in AccountRow
<1>1. fresh \in Nat /\ now \in Nat
  BY KeysAreNat DEF RowsInv
<1> QED BY <1>1 DEF RowsInv, MailRows, SessionRows, Exists, Sound

HoldsWhatItNeeds(x) ==
  /\ x \in ServedRequest
  /\ x.at \in HoldsPassword => x.arg \in Passwords
  /\ x.at \in HoldsKey => x.arg \in Keys

LEMMA RequestsKept ==
  ASSUME RequestsInv, \A f \in Emails : accounts[f] # NoAccount => accounts'[f] # NoAccount,
         NEW r \in Requests, NEW x, x = Idle \/ (HoldsWhatItNeeds(x) /\ accounts'[x.who] # NoAccount),
         req' = [req EXCEPT ![r] = x]
  PROVE  /\ RequestsInv'
         /\ \A q \in Requests : req'[q] = IF q = r THEN x ELSE req[q]
<1>1. x \in ServedRequest \cup {Idle}
  BY DEF HoldsWhatItNeeds
<1>2. /\ req' \in [Requests -> ServedRequest \cup {Idle}]
      /\ \A q \in Requests : req'[q] = IF q = r THEN x ELSE req[q]
  BY <1>1, WrittenRequest
<1>3. ASSUME NEW q \in Requests, req'[q] # Idle
      PROVE  /\ accounts'[req'[q].who] # NoAccount
             /\ req'[q].at \in HoldsPassword => req'[q].arg \in Passwords
             /\ req'[q].at \in HoldsKey => req'[q].arg \in Keys
  <2>1. CASE q = r
    BY <1>2, <1>3, <2>1 DEF HoldsWhatItNeeds
  <2>2. CASE q # r
    <3>1. req'[q] = req[q]
      BY <1>2, <2>2
    <3>2. req[q].who \in Emails
      BY <1>3, <3>1 DEF RequestsInv, ServedRequest
    <3> QED BY <1>3, <3>1, <3>2 DEF RequestsInv, Exists
  <2> QED BY <2>1, <2>2
<1> QED BY <1>2, <1>3 DEF RequestsInv, Exists

(* The same for a step that is described by what the request becomes. *)
LEMMA RequestMoved ==
  ASSUME RequestsInv, \A f \in Emails : accounts[f] # NoAccount => accounts'[f] # NoAccount,
         NEW r \in Requests, req' \in [Requests -> ServedRequest \cup {Idle}],
         \A q \in Requests : q # r => req'[q] = req[q],
         HoldsWhatItNeeds(req'[r]), accounts'[req'[r].who] # NoAccount
  PROVE  RequestsInv'
<1>1. ASSUME NEW q \in Requests, req'[q] # Idle
      PROVE  /\ accounts'[req'[q].who] # NoAccount
             /\ req'[q].at \in HoldsPassword => req'[q].arg \in Passwords
             /\ req'[q].at \in HoldsKey => req'[q].arg \in Keys
  <2>1. CASE q = r
    BY <2>1 DEF HoldsWhatItNeeds
  <2>2. CASE q # r
    <3>1. req'[q] = req[q]
      BY <2>2
    <3>2. req[q].who \in Emails
      BY <1>1, <3>1 DEF RequestsInv, ServedRequest
    <3> QED BY <1>1, <3>1, <3>2 DEF RequestsInv, Exists
  <2> QED BY <2>1, <2>2
<1> QED BY <1>1 DEF RequestsInv, Exists

(* The requests when none of them moves. *)
LEMMA RequestsRest ==
  ASSUME RequestsInv, req' = req, \A f \in Emails : accounts[f] # NoAccount => accounts'[f] # NoAccount
  PROVE  RequestsInv'
<1>1. \A q \in Requests : req[q] # Idle => req[q].who \in Emails /\ accounts[req[q].who] # NoAccount
  BY DEF RequestsInv, ServedRequest, Exists
<1> QED BY <1>1 DEF RequestsInv, Exists

(* A request that is at a stage, and what it holds. *)
LEMMA RequestAt ==
  ASSUME RowsInv, RequestsInv, NEW r \in Requests, req[r].at # "idle"
  PROVE  /\ HoldsWhatItNeeds(req[r]) /\ req[r] \in ServedRequest
         /\ req[r].who \in Emails /\ accounts[req[r].who] # NoAccount
         /\ accounts[req[r].who] \in AccountRow /\ Sound(accounts[req[r].who])
<1>1. req[r] # Idle
  BY DEF Idle
<1>2. HoldsWhatItNeeds(req[r]) /\ req[r] \in ServedRequest /\ accounts[req[r].who] # NoAccount
  BY <1>1 DEF RequestsInv, HoldsWhatItNeeds, Exists
<1>3. req[r].who \in Emails
  BY <1>2 DEF ServedRequest
<1> QED BY <1>2, <1>3, RowsStay

Quiet == {"idle"} \cup (Stages \ (Replacing \cup {"hash", "reset"}))

(* A step that changes nothing that the other parts of the invariant read. *)
LEMMA QuietStep ==
  ASSUME AccountsInv, RowsInv', RequestsInv', QuietRows, shops' = shops, used' = used,
         pictures' = pictures, fresh <= fresh', now <= now',
         \A q \in Requests : req'[q] = req[q] \/ req'[q].at \in Quiet
  PROVE  AccountsInv'
<1>1. Links' = Links
  BY DEF QuietRows, Links
<1>2. Avatars' = Avatars
  BY DEF QuietRows, Avatars
<1>3. \A q \in Requests : req'[q] = req[q] \/ req'[q].at \notin Replacing \cup {"hash", "reset"}
  BY DEF Quiet, Replacing
<1>4. ShopsInv'
  BY ShopsFrame DEF AccountsInv, QuietRows
<1>5. LinksInv'
  BY <1>1, <1>3, LinksFrame DEF AccountsInv
<1>6. TimesInv'
  BY <1>1, <1>3, TimesFrame DEF AccountsInv, QuietRows
<1>7. PicturesInv'
  BY <1>2, <1>3, PicturesFrame DEF AccountsInv
<1> QED BY <1>4, <1>5, <1>6, <1>7 DEF AccountsInv

LEMMA ServedKept ==
  ASSUME RequestsInv, \A f \in Emails : accounts[f] # NoAccount => accounts'[f] # NoAccount,
         NEW r \in Requests, NEW e \in Emails, accounts'[e] # NoAccount, NEW stage \in Stages,
         NEW read \in Keys \cup {None}, NEW arg \in Keys \cup Passwords \cup {None},
         stage \in HoldsPassword => arg \in Passwords, stage \in HoldsKey => arg \in Keys,
         Serve(r, stage, e, read, arg)
  PROVE  /\ RequestsInv'
         /\ \A q \in Requests : req'[q] = IF q = r THEN [at |-> stage, who |-> e, read |-> read, arg |-> arg, time |-> 0]
                                                  ELSE req[q]
<1> DEFINE x == [at |-> stage, who |-> e, read |-> read, arg |-> arg, time |-> 0]
<1>1. 0 \in Ticks
  BY AccountsAssumption DEF Ticks
<1>2. x \in ServedRequest
  BY <1>1 DEF ServedRequest
<1>3. HoldsWhatItNeeds(x) /\ accounts'[x.who] # NoAccount
  BY <1>2 DEF HoldsWhatItNeeds
<1>4. req' = [req EXCEPT ![r] = x]
  BY DEF Serve
<1> HIDE DEF x
<1>5. /\ RequestsInv'
      /\ \A q \in Requests : req'[q] = IF q = r THEN x ELSE req[q]
  BY <1>3, <1>4, RequestsKept
<1> QED BY <1>5 DEF x

LEMMA AnsweredKept ==
  ASSUME RequestsInv, \A f \in Emails : accounts[f] # NoAccount => accounts'[f] # NoAccount,
         NEW r \in Requests, Answer(r)
  PROVE  /\ RequestsInv'
         /\ \A q \in Requests : req'[q] = IF q = r THEN Idle ELSE req[q]
BY RequestsKept DEF Answer

---------------------------------------------------------------------------
(* Steps that write no row *)

LEMMA ServedQuietly ==
  ASSUME AccountsInv, NEW r \in Requests, NEW e \in Emails, accounts[e] # NoAccount, NEW stage \in Quiet \cap Stages,
         NEW arg \in Keys \cup Passwords \cup {None},
         stage \in HoldsPassword => arg \in Passwords, stage \in HoldsKey => arg \in Keys,
         Serve(r, stage, e, None, arg), mails' \subseteq MailRows,
         UNCHANGED <<accounts, shops, sessions, pictures, used, fresh, now>>
  PROVE  AccountsInv'
<1>1. RowsInv /\ RequestsInv
  BY DEF AccountsInv
<1>2. RowsInv'
  BY <1>1, RowsStay, RowsKept
<1>3. /\ RequestsInv'
      /\ \A q \in Requests : req'[q] = IF q = r THEN [at |-> stage, who |-> e, read |-> None, arg |-> arg, time |-> 0]
                                               ELSE req[q]
  BY <1>1, ServedKept
<1>4. \A q \in Requests : req'[q] = req[q] \/ req'[q].at \in Quiet
  BY <1>3
<1>5. QuietRows
  BY DEF QuietRows
<1>6. fresh <= fresh' /\ now <= now'
  BY <1>1, RowsStay
<1> QED BY <1>2, <1>3, <1>4, <1>5, <1>6, QuietStep

LEMMA AnsweredQuietly ==
  ASSUME AccountsInv, NEW r \in Requests, Answer(r), mails' \subseteq MailRows,
         \A s \in sessions' : s \in sessions \/ (s \in SessionRows /\ accounts[s.who] # NoAccount),
         UNCHANGED <<accounts, shops, pictures, used, fresh, now>>
  PROVE  AccountsInv'
<1>1. RowsInv /\ RequestsInv
  BY DEF AccountsInv
<1>2. RowsInv'
  BY <1>1, RowsStay, RowsKept
<1>3. RequestsInv' /\ \A q \in Requests : req'[q] = IF q = r THEN Idle ELSE req[q]
  BY <1>1, AnsweredKept
<1>4. \A q \in Requests : req'[q] = req[q] \/ req'[q].at \in Quiet
  BY <1>3 DEF Idle, Quiet
<1>5. QuietRows
  BY DEF QuietRows
<1>6. fresh <= fresh' /\ now <= now'
  BY <1>1, RowsStay
<1> QED BY <1>2, <1>3, <1>4, <1>5, <1>6, QuietStep

LEMMA QuietStages ==
  /\ {"welcome", "signIn", "verify", "resend", "forgot", "mailVerify", "mailReset", "change"} \subseteq Quiet \cap Stages
  /\ {"signIn", "verify", "resend", "forgot"} \cap (HoldsPassword \cup HoldsKey) = {}
  /\ "change" \notin HoldsKey /\ "welcome" \notin HoldsPassword
BY DEF Quiet, Stages, Replacing, HoldsPassword, HoldsKey

LEMMA DeliveredMail ==
  ASSUME RowsInv, RequestsInv, NEW r \in Requests, req[r].at \in {"welcome", "mailVerify", "mailReset"},
         NEW kind \in {"verify", "reset"}
  PROVE  Delivered(r, kind) \subseteq MailRows
<1>1. HoldsWhatItNeeds(req[r]) /\ req[r].who \in Emails
  BY RequestAt
<1>2. req[r].arg \in Keys
  BY <1>1 DEF HoldsWhatItNeeds, HoldsKey
<1> QED BY <1>1, <1>2, RowsStay DEF Delivered, MailRows

LEMMA WelcomeKeeps ==
  ASSUME AccountsInv, NEW r \in Requests, Welcome(r)
  PROVE  AccountsInv'
<1>1. req[r].at = "welcome" /\ RowsInv /\ RequestsInv
  BY DEF Welcome, InStage, AccountsInv
<1>2. mails' \subseteq MailRows
  BY <1>1, DeliveredMail, RowsStay DEF Welcome
<1>3. req[r].who \in Emails /\ accounts[req[r].who] # NoAccount
  BY <1>1, RequestAt
<1> QED BY <1>2, <1>3, QuietStages, ServedQuietly DEF Welcome

LEMMA LoginKeeps ==
  ASSUME AccountsInv, NEW r \in Requests, NEW e \in Emails, NEW p, Login(r, e, p)
  PROVE  AccountsInv'
<1>1. mails \subseteq MailRows
  BY RowsStay DEF AccountsInv
<1> QED BY <1>1, QuietStages, ServedQuietly DEF Login, Exists

LEMMA SignInKeeps ==
  ASSUME AccountsInv, NEW r \in Requests, SignIn(r)
  PROVE  AccountsInv'
<1>1. req[r].at = "signIn" /\ RowsInv /\ RequestsInv
  BY DEF SignIn, InStage, AccountsInv
<1>2. req[r].who \in Emails /\ accounts[req[r].who] # NoAccount
  BY <1>1, RequestAt
<1>3. Second(now) \in Nat
  <2>1. now \in Nat
    BY <1>1, KeysAreNat DEF RowsInv
  <2> QED BY <2>1 DEF Second
<1>4. mails \subseteq MailRows
  BY <1>1, RowsStay
<1>5. \A s \in sessions' : s \in sessions \/ (s \in SessionRows /\ accounts[s.who] # NoAccount)
  BY <1>2, <1>3 DEF SignIn, SessionRows
<1> QED BY <1>4, <1>5, AnsweredQuietly DEF SignIn

LEMMA OpenVerifyLinkKeeps ==
  ASSUME AccountsInv, NEW r \in Requests, NEW m \in mails, OpenVerifyLink(r, m)
  PROVE  AccountsInv'
<1>1. mails \subseteq MailRows
  BY RowsStay DEF AccountsInv
<1>2. PICK e \in Emails : accounts[e] # NoAccount /\ Serve(r, "verify", e, None, None)
  BY DEF OpenVerifyLink, Exists
<1> QED BY <1>1, <1>2, QuietStages, ServedQuietly DEF OpenVerifyLink

LEMMA ReadForResendKeeps ==
  ASSUME AccountsInv, NEW r \in Requests, NEW s \in sessions, ReadForResend(r, s)
  PROVE  AccountsInv'
<1>1. mails \subseteq MailRows /\ s.who \in Emails /\ accounts[s.who] # NoAccount
  BY RowsStay DEF AccountsInv
<1> QED BY <1>1, QuietStages, ServedQuietly DEF ReadForResend

LEMMA ReadForResetKeeps ==
  ASSUME AccountsInv, NEW r \in Requests, NEW e \in Emails, ReadForReset(r, e)
  PROVE  AccountsInv'
<1>1. mails \subseteq MailRows
  BY RowsStay DEF AccountsInv
<1> QED BY <1>1, QuietStages, ServedQuietly DEF ReadForReset, Exists

LEMMA SendMailKeeps ==
  ASSUME AccountsInv, NEW r \in Requests, SendMail(r)
  PROVE  AccountsInv'
<1>1. RowsInv /\ RequestsInv /\ req[r].at \in {"mailVerify", "mailReset"}
  BY DEF SendMail, InStage, AccountsInv
<1>2. mails \subseteq MailRows /\ Delivered(r, "verify") \subseteq MailRows /\ Delivered(r, "reset") \subseteq MailRows
  BY <1>1, DeliveredMail, RowsStay
<1>3. mails' \subseteq MailRows
  BY <1>2 DEF SendMail
<1> QED BY <1>3, AnsweredQuietly DEF SendMail

LEMMA ResetRefusedKeeps ==
  ASSUME AccountsInv, NEW r \in Requests, ResetRefused(r)
  PROVE  AccountsInv'
<1>1. mails \subseteq MailRows
  BY RowsStay DEF AccountsInv
<1> QED BY <1>1, AnsweredQuietly DEF ResetRefused

LEMMA ReadForChangeKeeps ==
  ASSUME AccountsInv, NEW r \in Requests, NEW s \in sessions, NEW p \in Passwords, NEW q \in Passwords,
         ReadForChange(r, s, p, q)
  PROVE  AccountsInv'
<1>1. mails \subseteq MailRows /\ s.who \in Emails /\ accounts[s.who] # NoAccount
  BY RowsStay DEF AccountsInv
<1> QED BY <1>1, QuietStages, ServedQuietly DEF ReadForChange

---------------------------------------------------------------------------
(* Steps that write a row without what the other parts read of it *)

(* The write, and the part of a row that has to stay. *)
SameHoldings(row, old) ==
  row.shop = old.shop /\ row.avatar = old.avatar /\ row.resetLink = old.resetLink /\ row.changedAt = old.changedAt

LEMMA WrittenQuietly ==
  ASSUME RowsInv, NEW e \in Emails, accounts[e] # NoAccount, NEW row \in AccountRow, Sound(row),
         SameHoldings(row, accounts[e]), WriteAccount(e, row)
  PROVE  /\ QuietRows
         /\ \E f \in Emails, w \in AccountRow : Sound(w) /\ accounts' = [accounts EXCEPT ![f] = w]
<1>1. accounts' = [accounts EXCEPT ![e] = row]
  BY DEF WriteAccount
<1>2. /\ \A f \in Emails : accounts'[f] = IF f = e THEN row ELSE accounts[f]
      /\ row # NoAccount
  BY <1>1, WrittenRow
<1>3. QuietRows
  BY <1>2 DEF QuietRows, SameHoldings
<1> QED BY <1>1, <1>3

(* The rows that these steps write. *)
LEMMA QuietlyWrittenRows ==
  ASSUME NEW row \in AccountRow, Sound(row)
  PROVE  /\ LET new == Verified(row) IN new \in AccountRow /\ Sound(new) /\ SameHoldings(new, row)
         /\ \A k \in Keys : LET new == [row EXCEPT !.verifyLink = k, !.verifyOld = FALSE, !.verifyCooling = TRUE]
                            IN  new \in AccountRow /\ Sound(new) /\ SameHoldings(new, row)
         /\ \A p \in Passwords : LET new == [row EXCEPT !.pwd = p]
                                 IN  new \in AccountRow /\ Sound(new) /\ SameHoldings(new, row)
         /\ LET new == [row EXCEPT !.admin = TRUE] IN new \in AccountRow /\ Sound(new) /\ SameHoldings(new, row)
         /\ LET new == [row EXCEPT !.verifyCooling = FALSE] IN new \in AccountRow /\ Sound(new) /\ SameHoldings(new, row)
         /\ LET new == [row EXCEPT !.resetCooling = FALSE] IN new \in AccountRow /\ Sound(new) /\ SameHoldings(new, row)
         /\ row.verifyLink # None =>
              LET new == [row EXCEPT !.verifyOld = TRUE] IN new \in AccountRow /\ Sound(new) /\ SameHoldings(new, row)
         /\ row.resetLink # None =>
              LET new == [row EXCEPT !.resetOld = TRUE] IN new \in AccountRow /\ Sound(new) /\ SameHoldings(new, row)
<1>1. LET new == Verified(row) IN new \in AccountRow /\ Sound(new) /\ SameHoldings(new, row)
  BY KeysAreNat DEF Verified, AccountRow, Sound, SameHoldings
<1>2. \A k \in Keys : LET new == [row EXCEPT !.verifyLink = k, !.verifyOld = FALSE, !.verifyCooling = TRUE]
                      IN  new \in AccountRow /\ Sound(new) /\ SameHoldings(new, row)
  BY KeysAreNat DEF AccountRow, Sound, SameHoldings
<1>3. \A p \in Passwords : LET new == [row EXCEPT !.pwd = p]
                           IN  new \in AccountRow /\ Sound(new) /\ SameHoldings(new, row)
  BY KeysAreNat DEF AccountRow, Sound, SameHoldings
<1>4. LET new == [row EXCEPT !.admin = TRUE] IN new \in AccountRow /\ Sound(new) /\ SameHoldings(new, row)
  BY KeysAreNat DEF AccountRow, Sound, SameHoldings
<1>5. LET new == [row EXCEPT !.verifyCooling = FALSE] IN new \in AccountRow /\ Sound(new) /\ SameHoldings(new, row)
  BY KeysAreNat DEF AccountRow, Sound, SameHoldings
<1>6. LET new == [row EXCEPT !.resetCooling = FALSE] IN new \in AccountRow /\ Sound(new) /\ SameHoldings(new, row)
  BY KeysAreNat DEF AccountRow, Sound, SameHoldings
<1>7. row.verifyLink # None =>
        LET new == [row EXCEPT !.verifyOld = TRUE] IN new \in AccountRow /\ Sound(new) /\ SameHoldings(new, row)
  BY KeysAreNat DEF AccountRow, Sound, SameHoldings
<1>8. row.resetLink # None =>
        LET new == [row EXCEPT !.resetOld = TRUE] IN new \in AccountRow /\ Sound(new) /\ SameHoldings(new, row)
  BY KeysAreNat DEF AccountRow, Sound, SameHoldings
<1> QED BY <1>1, <1>2, <1>3, <1>4, <1>5, <1>6, <1>7, <1>8

LEMMA VerifyKeeps ==
  ASSUME AccountsInv, NEW r \in Requests, Verify(r)
  PROVE  AccountsInv'
<1> DEFINE row == Verified(AccountOf(r))
<1>1. req[r].at = "verify" /\ RowsInv /\ RequestsInv
  BY DEF Verify, InStage, AccountsInv
<1>2. req[r].who \in Emails /\ accounts[req[r].who] # NoAccount
      /\ accounts[req[r].who] \in AccountRow /\ Sound(accounts[req[r].who])
  BY <1>1, RequestAt
<1>3. row \in AccountRow /\ Sound(row) /\ SameHoldings(row, accounts[req[r].who])
  BY <1>2, QuietlyWrittenRows DEF AccountOf
<1> HIDE DEF row
<1>4. QuietRows /\ \E f \in Emails, w \in AccountRow : Sound(w) /\ accounts' = [accounts EXCEPT ![f] = w]
  BY <1>1, <1>2, <1>3, WrittenQuietly DEF Verify, row
<1>5. RowsInv' /\ \A f \in Emails : accounts[f] # NoAccount => accounts'[f] # NoAccount
  BY <1>1, <1>4, RowsKept, RowsStay DEF Verify
<1>6. RequestsInv' /\ \A q \in Requests : req'[q] = IF q = r THEN Idle ELSE req[q]
  BY <1>1, <1>5, AnsweredKept DEF Verify
<1>7. \A q \in Requests : req'[q] = req[q] \/ req'[q].at \in Quiet
  BY <1>6 DEF Idle, Quiet
<1> QED BY <1>1, <1>4, <1>5, <1>6, <1>7, RowsStay, QuietStep DEF Verify

LEMMA ChangePasswordKeeps ==
  ASSUME AccountsInv, NEW r \in Requests, ChangePassword(r)
  PROVE  AccountsInv'
<1> DEFINE row == [AccountOf(r) EXCEPT !.pwd = req[r].arg]
<1>1. req[r].at = "change" /\ RowsInv /\ RequestsInv
  BY DEF ChangePassword, InStage, AccountsInv
<1>2. req[r].who \in Emails /\ accounts[req[r].who] # NoAccount
      /\ accounts[req[r].who] \in AccountRow /\ Sound(accounts[req[r].who])
  BY <1>1, RequestAt
<1>p. req[r].arg \in Passwords
  BY <1>1, RequestAt DEF HoldsWhatItNeeds, HoldsPassword
<1>3. row \in AccountRow /\ Sound(row) /\ SameHoldings(row, accounts[req[r].who])
  BY <1>2, <1>p, QuietlyWrittenRows DEF AccountOf
<1> HIDE DEF row
<1>4. QuietRows /\ \E f \in Emails, w \in AccountRow : Sound(w) /\ accounts' = [accounts EXCEPT ![f] = w]
  BY <1>1, <1>2, <1>3, WrittenQuietly DEF ChangePassword, row
<1>5. RowsInv' /\ \A f \in Emails : accounts[f] # NoAccount => accounts'[f] # NoAccount
  BY <1>1, <1>4, RowsKept, RowsStay DEF ChangePassword
<1>6. RequestsInv' /\ \A q \in Requests : req'[q] = IF q = r THEN Idle ELSE req[q]
  BY <1>1, <1>5, AnsweredKept DEF ChangePassword
<1>7. \A q \in Requests : req'[q] = req[q] \/ req'[q].at \in Quiet
  BY <1>6 DEF Idle, Quiet
<1> QED BY <1>1, <1>4, <1>5, <1>6, <1>7, RowsStay, QuietStep DEF ChangePassword

LEMMA DrawnKey ==
  ASSUME RowsInv, Draw
  PROVE  fresh \in Keys /\ fresh' \in Keys /\ fresh' = fresh + 1 /\ fresh \in Nat /\ fresh <= fresh' /\ fresh < fresh'
<1>1. fresh \in Nat /\ MaxFresh \in Nat
  BY KeysAreNat, AccountsAssumption DEF RowsInv
<1> QED BY <1>1 DEF RowsInv, Draw, Keys

(* A request that mails the link it has drawn. *)
LEMMA MailingRequest ==
  ASSUME RowsInv, RequestsInv, \A f \in Emails : accounts[f] # NoAccount => accounts'[f] # NoAccount,
         NEW r \in Requests, req[r].at # "idle", NEW stage \in {"mailVerify", "mailReset"}, NEW key \in Keys,
         req' = [req EXCEPT ![r].at = stage, ![r].arg = key]
  PROVE  /\ RequestsInv'
         /\ \A q \in Requests : IF q = r THEN req'[q].at = stage ELSE req'[q] = req[q]
<1>1. HoldsWhatItNeeds(req[r]) /\ req[r] \in ServedRequest /\ req[r].who \in Emails /\ accounts[req[r].who] # NoAccount
  BY RequestAt
<1>2. DOMAIN req = Requests /\ req \in [Requests -> ServedRequest \cup {Idle}]
  BY DEF RequestsInv
<1>3. stage \in Stages
  BY DEF Stages
<1>4. req'[r] = [req[r] EXCEPT !.at = stage, !.arg = key]
  BY <1>1, <1>2
<1>5. req'[r] \in ServedRequest /\ req'[r].at = stage /\ req'[r].arg = key /\ req'[r].who = req[r].who
  <2>1. \A x \in ServedRequest : LET y == [x EXCEPT !.at = stage, !.arg = key]
                               IN  y \in ServedRequest /\ y.at = stage /\ y.arg = key /\ y.who = x.who
    BY <1>3 DEF ServedRequest
  <2>2. LET y == [req[r] EXCEPT !.at = stage, !.arg = key]
        IN  y \in ServedRequest /\ y.at = stage /\ y.arg = key /\ y.who = req[r].who
    BY <1>1, <2>1
  <2> QED BY <1>4, <2>2
<1>6. \A q \in Requests : q # r => req'[q] = req[q]
  BY <1>2
<1>7. req' \in [Requests -> ServedRequest \cup {Idle}]
  <2>1. req' = [q \in Requests |-> req'[q]]
    BY <1>2
  <2>2. \A q \in Requests : req'[q] \in ServedRequest \cup {Idle}
    BY <1>2, <1>5, <1>6
  <2> QED BY <2>1, <2>2
<1>8. HoldsWhatItNeeds(req'[r]) /\ accounts'[req'[r].who] # NoAccount
  BY <1>1, <1>5 DEF HoldsWhatItNeeds, HoldsPassword, HoldsKey
<1>9. RequestsInv'
  BY <1>6, <1>7, <1>8, RequestMoved
<1> QED BY <1>5, <1>6, <1>9

LEMMA ResendKeeps ==
  ASSUME AccountsInv, NEW r \in Requests, Resend(r)
  PROVE  AccountsInv'
<1> DEFINE row == [AccountOf(r) EXCEPT !.verifyLink = fresh, !.verifyOld = FALSE, !.verifyCooling = TRUE]
<1>1. req[r].at = "resend" /\ RowsInv /\ RequestsInv /\ Draw
  BY DEF Resend, InStage, AccountsInv
<1>2. req[r].who \in Emails /\ accounts[req[r].who] # NoAccount
      /\ accounts[req[r].who] \in AccountRow /\ Sound(accounts[req[r].who])
  BY <1>1, RequestAt
<1>p. fresh \in Keys /\ fresh' \in Keys /\ fresh <= fresh'
  BY <1>1, DrawnKey
<1>3. row \in AccountRow /\ Sound(row) /\ SameHoldings(row, accounts[req[r].who])
  BY <1>2, <1>p, QuietlyWrittenRows DEF AccountOf
<1> HIDE DEF row
<1>4. QuietRows /\ \E f \in Emails, w \in AccountRow : Sound(w) /\ accounts' = [accounts EXCEPT ![f] = w]
  BY <1>1, <1>2, <1>3, WrittenQuietly DEF Resend, row
<1>5. RowsInv' /\ \A f \in Emails : accounts[f] # NoAccount => accounts'[f] # NoAccount
  BY <1>1, <1>4, <1>p, RowsKept, RowsStay DEF Resend
<1>6. RequestsInv' /\ \A q \in Requests : IF q = r THEN req'[q].at = "mailVerify" ELSE req'[q] = req[q]
  <2>1. req[r].at # "idle" /\ "mailVerify" \in {"mailVerify", "mailReset"}
    BY <1>1
  <2>2. req' = [req EXCEPT ![r].at = "mailVerify", ![r].arg = fresh]
    BY DEF Resend
  <2> QED BY <1>1, <1>5, <1>p, <2>1, <2>2, MailingRequest
<1>7. \A q \in Requests : req'[q] = req[q] \/ req'[q].at \in Quiet
  BY <1>6, QuietStages
<1> QED BY <1>1, <1>p, <1>4, <1>5, <1>6, <1>7, RowsStay, QuietStep DEF Resend

LEMMA CooldownEndsKeeps ==
  ASSUME AccountsInv, NEW e \in Emails, CooldownEnds(e)
  PROVE  AccountsInv'
<1>1. RowsInv /\ RequestsInv /\ accounts[e] # NoAccount
  BY DEF CooldownEnds, AccountsInv, Exists
<1>2. accounts[e] \in AccountRow /\ Sound(accounts[e])
  BY <1>1, RowsStay
<1>3. PICK row \in AccountRow : Sound(row) /\ SameHoldings(row, accounts[e]) /\ WriteAccount(e, row)
  BY <1>2, QuietlyWrittenRows DEF CooldownEnds
<1>4. QuietRows /\ \E f \in Emails, w \in AccountRow : Sound(w) /\ accounts' = [accounts EXCEPT ![f] = w]
  BY <1>1, <1>3, WrittenQuietly
<1>5. RowsInv' /\ \A f \in Emails : accounts[f] # NoAccount => accounts'[f] # NoAccount
  BY <1>1, <1>4, RowsKept, RowsStay DEF CooldownEnds
<1>6. RequestsInv'
  BY <1>1, <1>5, RequestsRest DEF CooldownEnds
<1> QED BY <1>1, <1>4, <1>5, <1>6, RowsStay, QuietStep DEF CooldownEnds

LEMMA LinkExpiresKeeps ==
  ASSUME AccountsInv, NEW e \in Emails, LinkExpires(e)
  PROVE  AccountsInv'
<1>1. RowsInv /\ RequestsInv /\ accounts[e] # NoAccount
  BY DEF LinkExpires, AccountsInv, Exists
<1>2. accounts[e] \in AccountRow /\ Sound(accounts[e])
  BY <1>1, RowsStay
<1>3. PICK row \in AccountRow : Sound(row) /\ SameHoldings(row, accounts[e]) /\ WriteAccount(e, row)
  BY <1>2, QuietlyWrittenRows DEF LinkExpires
<1>4. QuietRows /\ \E f \in Emails, w \in AccountRow : Sound(w) /\ accounts' = [accounts EXCEPT ![f] = w]
  BY <1>1, <1>3, WrittenQuietly
<1>5. RowsInv' /\ \A f \in Emails : accounts[f] # NoAccount => accounts'[f] # NoAccount
  BY <1>1, <1>4, RowsKept, RowsStay DEF LinkExpires
<1>6. RequestsInv'
  BY <1>1, <1>5, RequestsRest DEF LinkExpires
<1> QED BY <1>1, <1>4, <1>5, <1>6, RowsStay, QuietStep DEF LinkExpires

(* The clock, a logout, and nothing at all. *)
LEMMA NoRowKeeps ==
  ASSUME AccountsInv, Tick \/ (\E s \in sessions : Logout(s)) \/ UNCHANGED accountVars
  PROVE  AccountsInv'
<1>1. RowsInv /\ RequestsInv
  BY DEF AccountsInv
<1>2. UNCHANGED <<accounts, shops, mails, pictures, used, fresh, req>> /\ sessions' \subseteq sessions
  BY DEF Tick, Logout, accountVars
<1>3. now' \in Ticks /\ now <= now'
  <2>1. now \in Nat /\ now \in Ticks /\ LastTick \in Nat
    BY <1>1, KeysAreNat, AccountsAssumption DEF RowsInv
  <2> QED BY <2>1 DEF Tick, Logout, accountVars, Ticks
<1>4. RowsInv'
  BY <1>1, <1>2, <1>3, RowsKept, RowsStay
<1>5. RequestsInv'
  BY <1>1, <1>2, RequestsRest
<1>6. QuietRows
  BY <1>2 DEF QuietRows
<1> QED BY <1>1, <1>2, <1>3, <1>4, <1>5, <1>6, RowsStay, QuietStep

---------------------------------------------------------------------------
(* A new account, and the restart *)

NewRow(row, key) ==
  /\ row \in AccountRow /\ Sound(row) /\ row.shop = key
  /\ row.resetLink = None /\ row.avatar = None /\ row.changedAt = 0

LEMMA NewAccountIsNew ==
  ASSUME NEW p \in Passwords, NEW key \in Keys, NEW link \in Keys \cup {None}
  PROVE  /\ NewRow(NewAccount(p, key, link), key)
         /\ NewRow([NewAccount(p, key, link) EXCEPT !.admin = TRUE, !.verified = TRUE, !.verifyCooling = FALSE], key)
<1>1. 0 \in Ticks
  BY AccountsAssumption DEF Ticks
<1> QED BY <1>1, KeysAreNat DEF NewRow, NewAccount, AccountRow, Sound

(* The rows of a step that creates an account. *)
LEMMA CreatedRows ==
  ASSUME RowsInv, NEW e \in Emails, NEW row, NewRow(row, fresh), Draw,
         WriteAccount(e, row), shops' = shops \cup {fresh}, UNCHANGED <<mails, sessions, pictures, used, now>>
  PROVE  /\ RowsInv' /\ \A f \in Emails : accounts[f] # NoAccount => accounts'[f] # NoAccount
         /\ \A f \in Emails : accounts'[f] = IF f = e THEN row ELSE accounts[f]
         /\ row # NoAccount
<1>1. row \in AccountRow /\ Sound(row) /\ accounts' = [accounts EXCEPT ![e] = row]
  BY DEF NewRow, WriteAccount
<1>2. fresh \in Keys /\ fresh' \in Keys
  BY DrawnKey
<1>3. RowsInv' /\ \A f \in Emails : accounts[f] # NoAccount => accounts'[f] # NoAccount
  BY <1>1, <1>2, RowsKept, RowsStay
<1> QED BY <1>1, <1>3, WrittenRow

LEMMA CreationKeeps ==
  ASSUME AccountsInv, NEW e \in Emails, accounts[e] = NoAccount, NEW row, NewRow(row, fresh), Draw,
         WriteAccount(e, row), shops' = shops \cup {fresh}, UNCHANGED <<mails, sessions, pictures, used, now>>,
         RequestsInv', \A q \in Requests : req'[q] = req[q] \/ req'[q].at \in Quiet
  PROVE  AccountsInv'
<1>1. RowsInv /\ RequestsInv /\ ShopsInv
  BY DEF AccountsInv
<1>2. /\ RowsInv' /\ \A f \in Emails : accounts[f] # NoAccount => accounts'[f] # NoAccount
      /\ \A f \in Emails : accounts'[f] = IF f = e THEN row ELSE accounts[f]
      /\ row # NoAccount
  BY <1>1, CreatedRows
<1>3. fresh \in Nat /\ fresh' = fresh + 1 /\ fresh <= fresh' /\ now <= now'
  BY <1>1, DrawnKey, RowsStay
<1>4. row.shop = fresh /\ row.resetLink = None /\ row.avatar = None /\ row.changedAt = 0
  BY DEF NewRow
<1>5. Links' = Links
  BY <1>2, <1>4 DEF Links
<1>6. Avatars' = Avatars
  BY <1>2, <1>4 DEF Avatars
<1>7. \A q \in Requests : req'[q] = req[q] \/ req'[q].at \notin Replacing \cup {"hash", "reset"}
  BY DEF Quiet, Replacing
<1>8. ShopsInv'
  <2>1. \A b \in shops : b \in Nat /\ b < fresh /\ \E f \in Emails : accounts[f] # NoAccount /\ accounts[f].shop = b
    BY <1>1, KeysAreNat DEF RowsInv, ShopsInv, Exists
  <2>2. \A f \in Emails : accounts[f] # NoAccount => accounts[f].shop \in shops
    BY <1>1 DEF ShopsInv, Exists
  <2>3. fresh \notin shops
    BY <1>3, <2>1
  <2>4. \A f \in Emails : accounts'[f] # NoAccount => accounts'[f].shop \in shops'
    BY <1>2, <1>4, <2>2
  <2>5. \A f, g \in Emails : accounts'[f] # NoAccount /\ accounts'[g] # NoAccount /\ f # g
          => accounts'[f].shop # accounts'[g].shop
    BY <1>1, <1>2, <1>4, <2>2, <2>3 DEF ShopsInv, Exists
  <2>6. ASSUME NEW b \in shops' PROVE b < fresh' /\ \E f \in Emails : accounts'[f] # NoAccount /\ accounts'[f].shop = b
    <3>1. CASE b = fresh
      BY <1>2, <1>3, <1>4, <3>1
    <3>2. CASE b \in shops
      <4>1. PICK f \in Emails : accounts[f] # NoAccount /\ accounts[f].shop = b
        BY <2>1, <3>2
      <4>2. f # e
        BY <4>1
      <4>3. accounts'[f] = accounts[f]
        BY <1>2, <4>2
      <4>4. b < fresh'
        BY <1>3, <2>1, <3>2
      <4> QED BY <4>1, <4>3, <4>4
    <3> QED BY <3>1, <3>2
  <2> QED BY <2>4, <2>5, <2>6 DEF ShopsInv, Exists
<1>9. LinksInv'
  BY <1>1, <1>2, <1>3, <1>5, <1>7, LinksFrame DEF AccountsInv
<1>10. TimesInv'
  <2>1. \A f \in Emails :
          /\ accounts[f] # NoAccount => accounts'[f].changedAt = accounts[f].changedAt
          /\ accounts[f] = NoAccount /\ accounts'[f] # NoAccount => accounts'[f].changedAt = 0
    BY <1>2, <1>4
  <2>2. \A q \in Requests : req'[q] = req[q] \/ req'[q].at # "reset"
    BY <1>7
  <2>3. TimesInv
    BY DEF AccountsInv
  <2> QED BY <1>1, <1>2, <1>3, <1>5, <2>1, <2>2, <2>3, TimesFrame
<1>11. PicturesInv'
  BY <1>1, <1>2, <1>3, <1>6, <1>7, PicturesFrame DEF AccountsInv
<1> QED BY <1>2, <1>8, <1>9, <1>10, <1>11 DEF AccountsInv

LEMMA RegisterKeeps ==
  ASSUME AccountsInv, NEW r \in Requests, NEW e \in Emails, NEW p \in Passwords, Register(r, e, p)
  PROVE  AccountsInv'
<1>1. RowsInv /\ RequestsInv /\ accounts[e] = NoAccount /\ Draw
  BY DEF Register, AccountsInv, Free, Exists
<1>2. fresh \in Keys
  BY <1>1, DrawnKey
<1>3. NewRow(NewAccount(p, fresh, fresh), fresh)
  BY <1>2, NewAccountIsNew
<1>4. WriteAccount(e, NewAccount(p, fresh, fresh)) /\ shops' = shops \cup {fresh}
      /\ UNCHANGED <<mails, sessions, pictures, used, now>> /\ Serve(r, "welcome", e, None, fresh)
  BY DEF Register
<1>5. PICK row : row = NewAccount(p, fresh, fresh)
  OBVIOUS
<1>6. NewRow(row, fresh) /\ WriteAccount(e, row)
  BY <1>3, <1>4, <1>5
<1>7. /\ \A f \in Emails : accounts[f] # NoAccount => accounts'[f] # NoAccount
      /\ accounts'[e] # NoAccount
  BY <1>1, <1>4, <1>6, CreatedRows
<1>8. /\ RequestsInv'
      /\ \A q \in Requests : req'[q] = IF q = r THEN [at |-> "welcome", who |-> e, read |-> None, arg |-> fresh, time |-> 0]
                                               ELSE req[q]
  BY <1>1, <1>2, <1>4, <1>7, ServedKept, QuietStages
<1>9. \A q \in Requests : req'[q] = req[q] \/ req'[q].at \in Quiet
  BY <1>8, QuietStages
<1> QED BY <1>1, <1>4, <1>6, <1>8, <1>9, CreationKeeps

(* Every request dies with the process. *)
LEMMA AllIdle ==
  ASSUME req' = [r \in Requests |-> Idle]
  PROVE  RequestsInv' /\ \A q \in Requests : req'[q].at \in Quiet
<1>1. \A q \in Requests : req'[q] = Idle
  OBVIOUS
<1> QED BY <1>1 DEF RequestsInv, Idle, Quiet

LEMMA ApiRestartKeeps ==
  ASSUME AccountsInv, RestartApi
  PROVE  AccountsInv'
<1>1. RowsInv /\ RequestsInv
  BY DEF AccountsInv
<1>2. RequestsInv' /\ (\A q \in Requests : req'[q].at \in Quiet)
      /\ UNCHANGED <<mails, sessions, pictures, used, now>>
  BY AllIdle DEF RestartApi
<1>3. ASSUME AdminEmail # None, accounts[AdminEmail] # NoAccount,
             WriteAccount(AdminEmail, [accounts[AdminEmail] EXCEPT !.admin = TRUE]), UNCHANGED <<shops, fresh>>
      PROVE  AccountsInv'
  <2>1. AdminEmail \in Emails
    BY <1>3, AccountsAssumption
  <2>2. accounts[AdminEmail] \in AccountRow /\ Sound(accounts[AdminEmail])
    BY <1>1, <1>3, <2>1, RowsStay
  <2>3. PICK row \in AccountRow : Sound(row) /\ SameHoldings(row, accounts[AdminEmail]) /\ WriteAccount(AdminEmail, row)
    BY <1>3, <2>2, QuietlyWrittenRows
  <2>4. QuietRows /\ \E f \in Emails, w \in AccountRow : Sound(w) /\ accounts' = [accounts EXCEPT ![f] = w]
    BY <1>1, <1>3, <2>1, <2>3, WrittenQuietly
  <2>5. RowsInv'
    BY <1>1, <1>2, <1>3, <2>4, RowsKept, RowsStay
  <2> QED BY <1>1, <1>2, <1>3, <2>4, <2>5, RowsStay, QuietStep
<1>4. ASSUME AdminEmail # None, accounts[AdminEmail] = NoAccount, AdminPassword # None, Draw,
             shops' = shops \cup {fresh},
             WriteAccount(AdminEmail, [NewAccount(AdminPassword, fresh, None) EXCEPT
                                         !.admin = TRUE, !.verified = TRUE, !.verifyCooling = FALSE])
      PROVE  AccountsInv'
  <2>1. AdminEmail \in Emails /\ AdminPassword \in Passwords /\ fresh \in Keys
    BY <1>1, <1>4, AccountsAssumption, DrawnKey
  <2>2. PICK row : row = [NewAccount(AdminPassword, fresh, None) EXCEPT
                            !.admin = TRUE, !.verified = TRUE, !.verifyCooling = FALSE]
    OBVIOUS
  <2>3. NewRow(row, fresh) /\ WriteAccount(AdminEmail, row)
    BY <1>4, <2>1, <2>2, NewAccountIsNew
  <2> QED BY <1>2, <1>4, <2>1, <2>3, CreationKeeps
<1>5. ASSUME UNCHANGED <<accounts, shops, fresh>>
      PROVE  AccountsInv'
  <2>1. RowsInv'
    BY <1>1, <1>2, <1>5, RowsKept, RowsStay
  <2>2. QuietRows
    BY <1>5 DEF QuietRows
  <2> QED BY <1>1, <1>2, <1>5, <2>1, <2>2, RowsStay, QuietStep
<1> QED BY <1>3, <1>4, <1>5 DEF RestartApi, EnsureAdmin, Exists

---------------------------------------------------------------------------
(* The reset of a password *)

LEMMA LinksOfRows ==
  ASSUME RowsInv
  PROVE  /\ \A f \in Emails : Links[f] \in Keys \cup {None}
         /\ \A f \in Emails : accounts[f] # NoAccount => Links[f] = accounts[f].resetLink
         /\ \A f \in Emails : Avatars[f] \in Keys \cup {None}
         /\ \A f \in Emails : accounts[f] # NoAccount => Avatars[f] = accounts[f].avatar
BY DEF RowsInv, Links, Avatars, Exists, Sound, AccountRow

LEMMA RequestResetKeeps ==
  ASSUME AccountsInv, NEW r \in Requests, RequestReset(r)
  PROVE  AccountsInv'
<1>1. req[r].at = "forgot" /\ RowsInv /\ RequestsInv /\ Draw
  BY DEF RequestReset, InStage, AccountsInv
<1>2. PICK e \in Emails : e = req[r].who /\ accounts[e] # NoAccount /\ accounts[e] \in AccountRow /\ Sound(accounts[e])
  BY <1>1, RequestAt
<1>3. fresh \in Keys /\ fresh' \in Keys /\ fresh \in Nat /\ fresh' = fresh + 1 /\ fresh <= fresh' /\ now <= now
  BY <1>1, DrawnKey, RowsStay
<1>4. PICK row : row = [accounts[e] EXCEPT !.resetLink = fresh, !.resetOld = FALSE, !.resetCooling = TRUE]
  OBVIOUS
<1>5. row \in AccountRow /\ Sound(row) /\ row.shop = accounts[e].shop /\ row.avatar = accounts[e].avatar
      /\ row.resetLink = fresh /\ row.changedAt = accounts[e].changedAt
  BY <1>2, <1>3, <1>4, KeysAreNat DEF AccountRow, Sound
<1>6. accounts' = [accounts EXCEPT ![e] = row] /\ UNCHANGED <<shops, mails, sessions, pictures, used, now>>
      /\ req' = [req EXCEPT ![r].at = "mailReset", ![r].arg = fresh]
  BY <1>2, <1>4 DEF RequestReset, WriteAccount, AccountOf
<1>7. (\A f \in Emails : accounts'[f] = IF f = e THEN row ELSE accounts[f]) /\ row # NoAccount
  BY <1>1, <1>5, <1>6, WrittenRow
<1>8. RowsInv' /\ \A f \in Emails : accounts[f] # NoAccount => accounts'[f] # NoAccount
  BY <1>1, <1>3, <1>5, <1>6, RowsKept, RowsStay
<1>9. RequestsInv' /\ \A q \in Requests : IF q = r THEN req'[q].at = "mailReset" ELSE req'[q] = req[q]
  <2>1. req[r].at # "idle" /\ "mailReset" \in {"mailVerify", "mailReset"}
    BY <1>1
  <2> QED BY <1>1, <1>3, <1>6, <1>8, <2>1, MailingRequest
<1>10. ShopsInv'
  <2>1. \A f \in Emails : /\ accounts'[f] # NoAccount <=> accounts[f] # NoAccount
                          /\ accounts[f] # NoAccount => accounts'[f].shop = accounts[f].shop
    BY <1>2, <1>5, <1>7
  <2> QED BY <1>1, <1>3, <1>6, <1>8, <2>1, ShopsFrame DEF AccountsInv
<1>11. \A f \in Emails : Links'[f] = IF f = e THEN fresh ELSE Links[f]
  BY <1>5, <1>7 DEF Links
<1>12. LinksInv'
  <2>0. LinksInv /\ (\A f \in Emails : Links[f] \in Keys \cup {None}) /\ Keys \subseteq Int
    BY <1>1, LinksOfRows, KeysAreNat DEF AccountsInv
  <2>a. \A f \in Emails : Links[f] # None => Links[f] \in Int /\ Links[f] < fresh /\ used[Links[f]] = 0
    BY <2>0 DEF LinksInv
  <2>1. \A t \in Keys : used'[t] <= 1 /\ (t >= fresh' => used'[t] = 0)
    <3>1. ASSUME NEW t \in Keys PROVE used[t] <= 1 /\ (t >= fresh => used[t] = 0)
      BY <2>0 DEF LinksInv
    <3>2. ASSUME NEW t \in Keys, t >= fresh' PROVE t >= fresh
      BY <1>3, <2>0, <3>2
    <3> QED BY <1>6, <3>1, <3>2
  <2>2. \A f \in Emails : Links'[f] # None => Links'[f] < fresh' /\ used'[Links'[f]] = 0
    <3>1. used[fresh] = 0 /\ fresh < fresh'
      BY <1>3, <2>0 DEF LinksInv
    <3>2. \A f \in Emails : Links[f] # None => Links[f] < fresh'
      BY <1>3, <2>a
    <3> QED BY <1>6, <1>11, <2>a, <3>1, <3>2
  <2>3. \A f, g \in Emails : f # g /\ Links'[f] # None => Links'[f] # Links'[g]
    <3>1. \A f, g \in Emails : f # g /\ Links[f] # None => Links[f] # Links[g]
      BY <2>0 DEF LinksInv
    <3>2. \A f \in Emails : Links[f] # fresh
      BY <1>3, <2>0, <2>a, KeysAreNat
    <3> QED BY <1>11, <3>1, <3>2
  <2>4. \A q \in Requests : req'[q].at \in {"hash", "reset"} => req'[q].read \in Keys /\ req'[q].read < fresh'
    <3>1. \A q \in Requests : req'[q].at \in {"hash", "reset"} => req'[q] = req[q]
      BY <1>9
    <3>2. \A q \in Requests : req[q].at \in {"hash", "reset"} => req[q].read \in Keys /\ req[q].read < fresh
      BY <2>0 DEF LinksInv
    <3>3. \A q \in Requests : req[q].at \in {"hash", "reset"} => req[q].read \in Int
      BY <2>0, <3>2
    <3>4. \A q \in Requests : req[q].at \in {"hash", "reset"} => req[q].read < fresh'
      BY <1>3, <3>2, <3>3
    <3> QED BY <3>1, <3>2, <3>4
  <2> QED BY <2>1, <2>2, <2>3, <2>4 DEF LinksInv
<1>13. TimesInv'
  <2>0. TimesInv /\ LinksInv
    BY DEF AccountsInv
  <2>1. \A f \in Emails : accounts'[f] # NoAccount => accounts'[f].changedAt <= ChangedAt(now')
    BY <1>2, <1>5, <1>6, <1>7, <2>0 DEF TimesInv, Exists
  <2>2. ASSUME NEW q \in Requests, req'[q].at = "reset"
        PROVE  /\ req'[q].time <= ChangedAt(now')
               /\ req'[q].read = Links'[req'[q].who] => accounts'[req'[q].who].changedAt <= req'[q].time
    <3>1. req'[q] = req[q] /\ req[q].at = "reset"
      BY <1>9, <2>2
    <3>2. req[q].who \in Emails /\ accounts[req[q].who] # NoAccount
      BY <1>1, <3>1, RequestAt
    <3>3. req[q].read \in Keys /\ req[q].read < fresh
      BY <2>0, <3>1 DEF LinksInv
    <3>4. req[q].read # fresh
      BY <1>3, <3>3, KeysAreNat
    <3>5. req[q].read = Links'[req[q].who] => req[q].read = Links[req[q].who]
      BY <1>11, <3>2, <3>4
    <3>6. accounts'[req[q].who].changedAt = accounts[req[q].who].changedAt
      BY <1>5, <1>7, <3>2
    <3> QED BY <1>6, <2>0, <3>1, <3>5, <3>6 DEF TimesInv
  <2> QED BY <2>1, <2>2 DEF TimesInv, Exists
<1>14. PicturesInv'
  <2>1. Avatars' = Avatars
    BY <1>2, <1>5, <1>7 DEF Avatars
  <2>2. \A q \in Requests : req'[q] = req[q] \/ req'[q].at \notin Replacing
    BY <1>9 DEF Replacing
  <2> QED BY <1>1, <1>3, <1>6, <1>8, <2>1, <2>2, PicturesFrame DEF AccountsInv
<1> QED BY <1>8, <1>9, <1>10, <1>12, <1>13, <1>14 DEF AccountsInv

LEMMA OpenResetLinkKeeps ==
  ASSUME AccountsInv, NEW r \in Requests, NEW m \in mails, NEW p \in Passwords, OpenResetLink(r, m, p)
  PROVE  AccountsInv'
<1>1. RowsInv /\ RequestsInv /\ mails \subseteq MailRows /\ fresh <= fresh /\ now <= now
  BY RowsStay DEF AccountsInv
<1>2. PICK e \in Emails : /\ accounts[e] # NoAccount /\ accounts[e].resetLink = m.token
                          /\ Serve(r, "hash", e, m.token, p)
  BY DEF OpenResetLink, Exists
<1>3. m.token \in Keys /\ m.token # None /\ Links[e] = m.token
  BY <1>1, <1>2, LinksOfRows, KeysAreNat DEF MailRows
<1>4. m.token < fresh
  BY <1>3 DEF AccountsInv, LinksInv
<1>5. UNCHANGED <<accounts, shops, mails, sessions, pictures, used, fresh, now>>
  BY DEF OpenResetLink
<1>6. RowsInv'
  BY <1>1, <1>5, RowsStay, RowsKept
<1>7. "hash" \in Stages /\ "hash" \notin HoldsKey
  BY DEF Stages, HoldsKey
<1>8. /\ RequestsInv'
      /\ \A q \in Requests : req'[q] = IF q = r THEN [at |-> "hash", who |-> e, read |-> m.token, arg |-> p, time |-> 0]
                                               ELSE req[q]
  BY <1>1, <1>2, <1>3, <1>5, <1>7, ServedKept
<1>9. ShopsInv'
  BY <1>1, <1>5, <1>6, ShopsFrame DEF AccountsInv
<1>10. Links' = Links /\ Avatars' = Avatars
  BY <1>5 DEF Links, Avatars
<1>11. LinksInv'
  <2>1. LinksInv
    BY DEF AccountsInv
  <2>2. \A q \in Requests : req'[q].at \in {"hash", "reset"} => req'[q].read \in Keys /\ req'[q].read < fresh
    BY <1>3, <1>4, <1>8, <2>1 DEF LinksInv
  <2> QED BY <1>5, <1>10, <2>1, <2>2 DEF LinksInv
<1>12. TimesInv'
  <2>1. \A q \in Requests : req'[q] = req[q] \/ req'[q].at # "reset"
    BY <1>8
  <2> QED BY <1>1, <1>5, <1>6, <1>10, <2>1, TimesFrame DEF AccountsInv
<1>13. PicturesInv'
  <2>1. \A q \in Requests : req'[q] = req[q] \/ req'[q].at \notin Replacing
    BY <1>8 DEF Replacing
  <2> QED BY <1>1, <1>5, <1>6, <1>10, <2>1, PicturesFrame DEF AccountsInv
<1> QED BY <1>6, <1>8, <1>9, <1>11, <1>12, <1>13 DEF AccountsInv

LEMMA HashResetKeeps ==
  ASSUME AccountsInv, NEW r \in Requests, HashReset(r)
  PROVE  AccountsInv'
<1>1. RowsInv /\ RequestsInv /\ fresh <= fresh /\ now <= now /\ req[r].at = "hash"
  BY RowsStay DEF AccountsInv, HashReset, InStage
<1>2. /\ HoldsWhatItNeeds(req[r]) /\ req[r] \in ServedRequest
      /\ req[r].who \in Emails /\ accounts[req[r].who] # NoAccount
  BY <1>1, RequestAt
<1>3. req' = [req EXCEPT ![r].at = "reset", ![r].time = ChangedAt(now)]
      /\ UNCHANGED <<accounts, shops, mails, sessions, pictures, used, fresh, now>>
  BY DEF HashReset
<1>4. ChangedAt(now) \in Ticks
  <2>1. now \in Nat /\ LastTick \in Nat /\ now <= LastTick
    BY <1>1, AccountsAssumption DEF RowsInv, Ticks
  <2>2. ChangedAt(now) \in Nat /\ ChangedAt(now) <= now
    BY <2>1, ChangedAtGrows
  <2> HIDE DEF ChangedAt
  <2> QED BY <2>1, <2>2 DEF Ticks
<1>5. DOMAIN req = Requests /\ req \in [Requests -> ServedRequest \cup {Idle}]
  BY <1>1 DEF RequestsInv
<1>6. /\ req'[r] = [req[r] EXCEPT !.at = "reset", !.time = ChangedAt(now)]
      /\ \A q \in Requests : q # r => req'[q] = req[q]
      /\ req' = [q \in Requests |-> req'[q]]
  BY <1>3, <1>5
<1>7. /\ req'[r] \in ServedRequest /\ req'[r].at = "reset" /\ req'[r].time = ChangedAt(now)
      /\ req'[r].who = req[r].who /\ req'[r].read = req[r].read /\ req'[r].arg = req[r].arg
  <2>1. \A x \in ServedRequest : LET y == [x EXCEPT !.at = "reset", !.time = ChangedAt(now)]
                               IN  y \in ServedRequest /\ y.at = "reset" /\ y.time = ChangedAt(now)
                                   /\ y.who = x.who /\ y.read = x.read /\ y.arg = x.arg
    BY <1>4 DEF ServedRequest, Stages
  <2>2. LET y == [req[r] EXCEPT !.at = "reset", !.time = ChangedAt(now)]
        IN  y \in ServedRequest /\ y.at = "reset" /\ y.time = ChangedAt(now)
            /\ y.who = req[r].who /\ y.read = req[r].read /\ y.arg = req[r].arg
    BY <1>2, <2>1
  <2> QED BY <1>6, <2>2
<1>8. req' \in [Requests -> ServedRequest \cup {Idle}]
  <2>1. \A q \in Requests : req'[q] \in ServedRequest \cup {Idle}
    BY <1>5, <1>6, <1>7
  <2> QED BY <1>6, <2>1
<1>9. RowsInv'
  BY <1>1, <1>3, RowsStay, RowsKept
<1>10. RequestsInv'
  <2>1. HoldsWhatItNeeds(req'[r]) /\ accounts'[req'[r].who] # NoAccount
    BY <1>1, <1>2, <1>3, <1>7 DEF HoldsWhatItNeeds, HoldsPassword, HoldsKey
  <2> QED BY <1>1, <1>3, <1>6, <1>8, <2>1, RequestMoved
<1>11. ShopsInv'
  BY <1>1, <1>3, <1>9, ShopsFrame DEF AccountsInv
<1>12. Links' = Links /\ Avatars' = Avatars
  BY <1>3 DEF Links, Avatars
<1>13. LinksInv'
  <2>1. LinksInv
    BY DEF AccountsInv
  <2>2. \A q \in Requests : req'[q].at \in {"hash", "reset"} => req'[q].read \in Keys /\ req'[q].read < fresh
    BY <1>1, <1>6, <1>7, <2>1 DEF LinksInv
  <2> QED BY <1>3, <1>12, <2>1, <2>2 DEF LinksInv
<1>14. TimesInv'
  <2>1. TimesInv
    BY DEF AccountsInv
  <2>2. \A f \in Emails : accounts[f] # NoAccount => accounts[f].changedAt <= ChangedAt(now)
    BY <2>1 DEF TimesInv, Exists
  <2>3. ChangedAt(now) <= ChangedAt(now)
    <3>1. ChangedAt(now) \in Nat
      BY <1>4, KeysAreNat
    <3> QED BY <3>1
  <2>4. ASSUME NEW q \in Requests, req'[q].at = "reset"
        PROVE  /\ req'[q].time <= ChangedAt(now)
               /\ req'[q].read = Links[req'[q].who] => accounts[req'[q].who].changedAt <= req'[q].time
    <3>1. CASE q = r
      BY <1>2, <1>7, <2>2, <2>3, <3>1
    <3>2. CASE q # r
      BY <1>6, <2>1, <2>4, <3>2 DEF TimesInv
    <3> QED BY <3>1, <3>2
  <2> QED BY <1>3, <1>12, <2>2, <2>4 DEF TimesInv, Exists
<1>15. PicturesInv'
  <2>1. \A q \in Requests : req'[q] = req[q] \/ req'[q].at \notin Replacing
    BY <1>6, <1>7 DEF Replacing
  <2> QED BY <1>1, <1>3, <1>9, <1>12, <2>1, PicturesFrame DEF AccountsInv
<1> QED BY <1>9, <1>10, <1>11, <1>13, <1>14, <1>15 DEF AccountsInv

LEMMA ResetKeeps ==
  ASSUME AccountsInv, NEW r \in Requests, Reset(r)
  PROVE  AccountsInv'
<1>1. RowsInv /\ RequestsInv /\ fresh <= fresh /\ now <= now /\ req[r].at = "reset"
  BY RowsStay DEF AccountsInv, Reset, InStage
<1>2. PICK e \in Emails : e = req[r].who /\ accounts[e] # NoAccount /\ accounts[e] \in AccountRow /\ Sound(accounts[e])
  BY <1>1, RequestAt
<1>3. req[r].arg \in Passwords /\ req[r].time \in Ticks
  BY <1>1, RequestAt DEF HoldsWhatItNeeds, HoldsPassword, ServedRequest
<1>4. PICK key \in Keys : key = req[r].read /\ key < fresh
  BY <1>1 DEF AccountsInv, LinksInv
<1>5. PICK row : row = [accounts[e] EXCEPT !.pwd = req[r].arg, !.changedAt = req[r].time,
                            !.resetLink = None, !.resetOld = FALSE,
                            !.verified = TRUE, !.verifyLink = None, !.verifyOld = FALSE]
  OBVIOUS
<1>6. row \in AccountRow /\ Sound(row) /\ row.shop = accounts[e].shop /\ row.avatar = accounts[e].avatar
      /\ row.resetLink = None /\ row.changedAt = req[r].time
  BY <1>2, <1>3, <1>5, KeysAreNat DEF AccountRow, Sound
<1>7. /\ accounts' = [accounts EXCEPT ![e] = row] /\ UNCHANGED <<shops, mails, sessions, pictures, fresh, now>>
      /\ used' = [used EXCEPT ![key] = @ + 1] /\ Serve(r, "signIn", e, None, None)
  BY <1>2, <1>4, <1>5 DEF Reset, WriteAccount, AccountOf
<1>8. (\A f \in Emails : accounts'[f] = IF f = e THEN row ELSE accounts[f]) /\ row # NoAccount
  BY <1>1, <1>6, <1>7, WrittenRow
<1>9. /\ used \in [Keys -> Nat] /\ used' \in [Keys -> Nat]
      /\ \A t \in Keys : used'[t] = IF t = key THEN used[t] + 1 ELSE used[t]
  BY <1>1, <1>7 DEF RowsInv
<1>10. RowsInv' /\ \A f \in Emails : accounts[f] # NoAccount => accounts'[f] # NoAccount
  BY <1>1, <1>6, <1>7, <1>9, RowsKept, RowsStay
<1>11. /\ RequestsInv'
       /\ \A q \in Requests : req'[q] = IF q = r THEN [at |-> "signIn", who |-> e, read |-> None, arg |-> None, time |-> 0]
                                                ELSE req[q]
  <2>1. "signIn" \in Stages /\ "signIn" \notin HoldsPassword /\ "signIn" \notin HoldsKey
    BY DEF Stages, HoldsPassword, HoldsKey
  <2> QED BY <1>1, <1>2, <1>7, <1>10, <2>1, ServedKept
<1>12. ShopsInv'
  <2>1. \A f \in Emails : /\ accounts'[f] # NoAccount <=> accounts[f] # NoAccount
                          /\ accounts[f] # NoAccount => accounts'[f].shop = accounts[f].shop
    BY <1>2, <1>6, <1>8
  <2> QED BY <1>1, <1>7, <1>10, <2>1, ShopsFrame DEF AccountsInv
<1>13. \A f \in Emails : Links'[f] = IF f = e THEN None ELSE Links[f]
  BY <1>6, <1>8 DEF Links
<1>14. Links[e] = key
  BY <1>1, <1>2, <1>4, LinksOfRows DEF Reset, StillLinked, AccountOf
<1>15. LinksInv /\ TimesInv /\ Keys \subseteq Nat /\ None \notin Keys
  BY KeysAreNat DEF AccountsInv
<1>16. LinksInv'
  <2>1. used[key] = 0
    BY <1>14, <1>15 DEF LinksInv
  <2>2. ASSUME NEW t \in Keys PROVE used'[t] <= 1 /\ (t >= fresh => used'[t] = 0)
    <3>1. used[t] <= 1 /\ (t >= fresh => used[t] = 0)
      BY <1>15 DEF LinksInv
    <3>2. CASE t = key
      <4>1. key \in Int /\ fresh \in Int
        BY <1>1, <1>15 DEF RowsInv
      <4> QED BY <1>4, <1>9, <2>1, <3>2, <4>1
    <3>3. CASE t # key
      BY <1>9, <3>1, <3>3
    <3> QED BY <3>2, <3>3
  <2>3. ASSUME NEW f \in Emails, Links'[f] # None PROVE Links'[f] < fresh /\ used'[Links'[f]] = 0
    <3>1. f # e /\ Links'[f] = Links[f]
      BY <1>13, <2>3
    <3>2. Links[f] < fresh /\ used[Links[f]] = 0 /\ Links[f] # key
      BY <1>14, <1>15, <2>3, <3>1 DEF LinksInv
    <3>3. Links[f] \in Keys
      BY <1>1, <2>3, <3>1, LinksOfRows
    <3> QED BY <1>9, <3>1, <3>2, <3>3
  <2>4. \A f, g \in Emails : f # g /\ Links'[f] # None => Links'[f] # Links'[g]
    BY <1>13, <1>15 DEF LinksInv
  <2>5. \A q \in Requests : req'[q].at \in {"hash", "reset"} => req'[q].read \in Keys /\ req'[q].read < fresh
    BY <1>11, <1>15 DEF LinksInv
  <2> QED BY <1>7, <2>2, <2>3, <2>4, <2>5 DEF LinksInv
<1>17. TimesInv'
  <2>1. \A f \in Emails : accounts'[f] # NoAccount => accounts'[f].changedAt <= ChangedAt(now)
    BY <1>1, <1>6, <1>8, <1>15 DEF TimesInv, Exists
  <2>2. ASSUME NEW q \in Requests, req'[q].at = "reset"
        PROVE  /\ req'[q].time <= ChangedAt(now)
               /\ req'[q].read = Links'[req'[q].who] => accounts'[req'[q].who].changedAt <= req'[q].time
    <3>1. req'[q] = req[q] /\ req[q].at = "reset"
      BY <1>11, <2>2
    <3>2. req[q].who \in Emails
      BY <1>1, <3>1, RequestAt
    <3>3. req[q].read \in Keys
      BY <1>15, <3>1 DEF LinksInv
    <3>4. CASE req[q].who = e
      BY <1>13, <1>15, <3>1, <3>3, <3>4 DEF TimesInv
    <3>5. CASE req[q].who # e
      BY <1>8, <1>13, <1>15, <3>1, <3>2, <3>5 DEF TimesInv
    <3> QED BY <3>4, <3>5
  <2> QED BY <1>7, <2>1, <2>2 DEF TimesInv, Exists
<1>18. PicturesInv'
  <2>1. Avatars' = Avatars
    BY <1>2, <1>6, <1>8 DEF Avatars
  <2>2. \A q \in Requests : req'[q] = req[q] \/ req'[q].at \notin Replacing
    BY <1>11 DEF Replacing
  <2> QED BY <1>1, <1>7, <1>10, <2>1, <2>2, PicturesFrame DEF AccountsInv
<1> QED BY <1>10, <1>11, <1>12, <1>16, <1>17, <1>18 DEF AccountsInv

---------------------------------------------------------------------------
(* The picture of an account *)

LEMMA ProceededKept ==
  ASSUME RowsInv, RequestsInv, \A f \in Emails : accounts[f] # NoAccount => accounts'[f] # NoAccount,
         NEW r \in Requests, req[r].at # "idle", NEW stage \in {"store", "drop"},
         stage = "store" => req[r].arg \in Keys, Proceed(r, stage)
  PROVE  /\ RequestsInv'
         /\ \A q \in Requests : q # r => req'[q] = req[q]
         /\ req'[r].at = stage /\ req'[r].who = req[r].who /\ req'[r].read = req[r].read /\ req'[r].arg = req[r].arg
<1>1. HoldsWhatItNeeds(req[r]) /\ req[r] \in ServedRequest /\ req[r].who \in Emails /\ accounts[req[r].who] # NoAccount
  BY RequestAt
<1>2. DOMAIN req = Requests /\ req \in [Requests -> ServedRequest \cup {Idle}]
  BY DEF RequestsInv
<1>3. stage \in Stages
  BY DEF Stages
<1>4. /\ req'[r] = [req[r] EXCEPT !.at = stage]
      /\ \A q \in Requests : q # r => req'[q] = req[q]
      /\ req' = [q \in Requests |-> req'[q]]
  BY <1>2 DEF Proceed
<1>5. /\ req'[r] \in ServedRequest /\ req'[r].at = stage /\ req'[r].arg = req[r].arg
      /\ req'[r].who = req[r].who /\ req'[r].read = req[r].read
  <2>1. \A x \in ServedRequest : LET y == [x EXCEPT !.at = stage]
                               IN  y \in ServedRequest /\ y.at = stage /\ y.arg = x.arg /\ y.who = x.who /\ y.read = x.read
    BY <1>3 DEF ServedRequest
  <2>2. LET y == [req[r] EXCEPT !.at = stage]
        IN  y \in ServedRequest /\ y.at = stage /\ y.arg = req[r].arg /\ y.who = req[r].who /\ y.read = req[r].read
    BY <1>1, <2>1
  <2> QED BY <1>4, <2>2
<1>6. req' \in [Requests -> ServedRequest \cup {Idle}]
  <2>1. \A q \in Requests : req'[q] \in ServedRequest \cup {Idle}
    BY <1>2, <1>4, <1>5
  <2> QED BY <1>4, <2>1
<1>7. HoldsWhatItNeeds(req'[r]) /\ accounts'[req'[r].who] # NoAccount
  BY <1>1, <1>5 DEF HoldsWhatItNeeds, HoldsPassword, HoldsKey
<1>8. RequestsInv'
  BY <1>4, <1>6, <1>7, RequestMoved
<1> QED BY <1>4, <1>5, <1>8

(* The parts of the invariant that no step on a picture disturbs. *)
LEMMA PictureFrame ==
  ASSUME AccountsInv, RowsInv', fresh <= fresh', UNCHANGED <<shops, used, now>>,
         \A f \in Emails :
           /\ accounts'[f] # NoAccount <=> accounts[f] # NoAccount
           /\ accounts[f] # NoAccount =>
                /\ accounts'[f].shop = accounts[f].shop
                /\ accounts'[f].resetLink = accounts[f].resetLink
                /\ accounts'[f].changedAt = accounts[f].changedAt,
         \A q \in Requests : req'[q] = req[q] \/ req'[q].at \notin {"hash", "reset"}
  PROVE  ShopsInv' /\ LinksInv' /\ TimesInv'
<1>1. RowsInv /\ RequestsInv /\ ShopsInv /\ LinksInv /\ TimesInv /\ now <= now
  BY RowsStay DEF AccountsInv
<1>2. Links' = Links
  BY DEF Links
<1>3. ShopsInv'
  BY <1>1, ShopsFrame
<1>4. LinksInv'
  BY <1>1, <1>2, LinksFrame
<1>5. TimesInv'
  BY <1>1, <1>2, TimesFrame
<1> QED BY <1>3, <1>4, <1>5

(* What the invariant says of the pictures, with the bounds as integers. *)
LEMMA PictureFacts ==
  ASSUME RowsInv, RequestsInv, PicturesInv
  PROVE  /\ \A e \in Emails : Avatars[e] \in Keys \cup {None}
         /\ \A e \in Emails : Avatars[e] # None => Avatars[e] \in pictures /\ Avatars[e] \in Nat /\ Avatars[e] < fresh
         /\ \A e, f \in Emails : e # f /\ Avatars[e] # None => Avatars[e] # Avatars[f]
         /\ \A r \in Requests : req[r].at \in Uploading =>
              /\ req[r].arg \in Nat /\ req[r].arg \in Keys /\ req[r].arg # None /\ req[r].arg < fresh
              /\ \A e \in Emails : Avatars[e] # req[r].arg
         /\ \A r, q \in Requests : req[r].at \in Uploading /\ req[q].at \in Uploading /\ r # q => req[r].arg # req[q].arg
         /\ \A r \in Requests : req[r].at = "store" => req[r].arg \in pictures
         /\ \A r \in Requests : req[r].at \in Replacing /\ req[r].read # None =>
              /\ req[r].read \in Nat /\ req[r].read < fresh
              /\ \A q \in Requests : req[q].at \in Uploading => req[q].arg # req[r].read
              /\ \A e \in Emails : Avatars[e] = req[r].read => e = req[r].who /\ req[r].at # "drop"
<1>1. \A e \in Emails : Avatars[e] \in Keys \cup {None}
  BY LinksOfRows
<1>2. \A e \in Emails : Avatars[e] # None => Avatars[e] \in Nat
  BY <1>1, KeysAreNat
<1>3. \A r \in Requests : req[r].at \in Uploading => req[r].arg \in Keys
  BY RequestAt DEF HoldsWhatItNeeds, HoldsKey, Uploading
<1>4. \A r \in Requests : req[r].at \in Uploading => req[r].arg \in Nat /\ req[r].arg # None
  BY <1>3, KeysAreNat
<1>5. \A r \in Requests : req[r].at \in Replacing /\ req[r].read # None => req[r].read \in Keys
  BY RequestAt DEF ServedRequest, Replacing
<1>6. \A r \in Requests : req[r].at \in Replacing /\ req[r].read # None => req[r].read \in Nat
  BY <1>5, KeysAreNat
<1> QED BY <1>1, <1>2, <1>3, <1>4, <1>6 DEF PicturesInv

LEMMA ReadForUploadKeeps ==
  ASSUME AccountsInv, NEW r \in Requests, NEW s \in sessions, ReadForUpload(r, s)
  PROVE  AccountsInv'
<1>1. RowsInv /\ RequestsInv /\ PicturesInv /\ Draw
  BY DEF AccountsInv, ReadForUpload
<1>2. PICK e \in Emails : e = s.who /\ accounts[e] # NoAccount
  BY <1>1, RowsStay
<1>3. fresh \in Keys /\ fresh' \in Keys /\ fresh \in Nat /\ fresh' = fresh + 1 /\ fresh <= fresh' /\ fresh < fresh'
  BY <1>1, DrawnKey
<1>4. PICK old \in Keys \cup {None} : old = accounts[e].avatar /\ old = Avatars[e]
  BY <1>1, <1>2, LinksOfRows
<1>5. Serve(r, "put", e, old, fresh) /\ UNCHANGED <<accounts, shops, mails, sessions, pictures, used, now>>
  BY <1>2, <1>4 DEF ReadForUpload, PictureKey
<1>6. RowsInv'
  BY <1>1, <1>3, <1>5, RowsStay, RowsKept
<1>7. /\ RequestsInv'
      /\ \A q \in Requests : req'[q] = IF q = r THEN [at |-> "put", who |-> e, read |-> old, arg |-> fresh, time |-> 0]
                                               ELSE req[q]
  <2>1. "put" \in Stages /\ "put" \notin HoldsPassword
    BY DEF Stages, HoldsPassword
  <2> QED BY <1>1, <1>2, <1>3, <1>5, <2>1, ServedKept
<1>8. /\ \A q \in Requests : q # r => req'[q] = req[q]
      /\ req'[r].at = "put" /\ req'[r].who = e /\ req'[r].read = old /\ req'[r].arg = fresh
  BY <1>7
<1>9. ShopsInv' /\ LinksInv' /\ TimesInv'
  <2>1. \A q \in Requests : req'[q] = req[q] \/ req'[q].at \notin {"hash", "reset"}
    BY <1>8
  <2> QED BY <1>3, <1>5, <1>6, <2>1, PictureFrame
<1>10. PicturesInv'
  <2>1. Avatars' = Avatars
    BY <1>5 DEF Avatars
  <2>2. "put" \in Uploading /\ Uploading \subseteq Replacing
    BY DEF Uploading, Replacing
  <2>3. \A f \in Emails : Avatars[f] # fresh
    BY <1>1, <1>3, PictureFacts, KeysAreNat
  <2>4. \A f \in Emails : Avatars[f] # None => Avatars[f] \in pictures /\ Avatars[f] < fresh'
    BY <1>1, <1>3, PictureFacts
  <2>5. \A q \in Requests : q # r /\ req[q].at \in Uploading => req[q].arg < fresh' /\ req[q].arg # fresh
    BY <1>1, <1>3, PictureFacts
  <2>6. ASSUME NEW q \in Requests, req'[q].at \in Uploading
        PROVE  req'[q].arg < fresh' /\ \A f \in Emails : Avatars[f] # req'[q].arg
    <3>1. CASE q = r
      BY <1>3, <1>8, <2>3, <3>1
    <3>2. CASE q # r
      BY <1>1, <1>8, <2>5, <2>6, <3>2, PictureFacts
    <3> QED BY <3>1, <3>2
  <2>7. ASSUME NEW p \in Requests, NEW q \in Requests, req'[p].at \in Uploading, req'[q].at \in Uploading, p # q
        PROVE  req'[p].arg # req'[q].arg
    <3>1. CASE p = r
      BY <1>8, <2>5, <2>7, <3>1
    <3>2. CASE q = r
      BY <1>8, <2>5, <2>7, <3>2
    <3>3. CASE p # r /\ q # r
      BY <1>1, <1>8, <2>7, <3>3, PictureFacts
    <3> QED BY <3>1, <3>2, <3>3
  <2>8. \A q \in Requests : req'[q].at = "store" => req'[q].arg \in pictures
    BY <1>1, <1>8, PictureFacts
  <2>9. ASSUME NEW q \in Requests, req'[q].at \in Replacing, req'[q].read # None
        PROVE  /\ req'[q].read < fresh'
               /\ \A p \in Requests : req'[p].at \in Uploading => req'[p].arg # req'[q].read
               /\ \A f \in Emails : Avatars[f] = req'[q].read => f = req'[q].who /\ req'[q].at # "drop"
    <3>1. CASE q = r
      <4>1. old # None /\ old \in Nat /\ old < fresh /\ old < fresh' /\ old # fresh
        BY <1>1, <1>3, <1>4, <1>8, <2>9, <3>1, PictureFacts
      <4>2. \A p \in Requests : p # r /\ req[p].at \in Uploading => req[p].arg # old
        BY <1>1, <1>4, PictureFacts
      <4>3. \A f \in Emails : Avatars[f] = old => f = e
        BY <1>1, <1>4, <4>1, PictureFacts
      <4> QED BY <1>8, <3>1, <4>1, <4>2, <4>3
    <3>2. CASE q # r
      <4>1. req'[q] = req[q]
        BY <1>8, <3>2
      <4>2. /\ req[q].read \in Nat /\ req[q].read < fresh
            /\ \A p \in Requests : req[p].at \in Uploading => req[p].arg # req[q].read
            /\ \A f \in Emails : Avatars[f] = req[q].read => f = req[q].who /\ req[q].at # "drop"
        BY <1>1, <2>9, <4>1, PictureFacts
      <4>3. req[q].read < fresh' /\ req[q].read # fresh
        BY <1>3, <4>2
      <4> QED BY <1>8, <4>1, <4>2, <4>3
    <3> QED BY <3>1, <3>2
  <2>10. \A f, g \in Emails : f # g /\ Avatars[f] # None => Avatars[f] # Avatars[g]
    BY <1>1, PictureFacts
  <2> QED BY <1>5, <2>1, <2>4, <2>6, <2>7, <2>8, <2>9, <2>10 DEF PicturesInv
<1> QED BY <1>6, <1>7, <1>9, <1>10 DEF AccountsInv

LEMMA PutPictureKeeps ==
  ASSUME AccountsInv, NEW r \in Requests, PutPicture(r)
  PROVE  AccountsInv'
<1>1. RowsInv /\ RequestsInv /\ PicturesInv /\ fresh <= fresh /\ req[r].at = "put"
  BY RowsStay DEF AccountsInv, PutPicture, InStage
<1>2. UNCHANGED <<accounts, shops, mails, sessions, used, fresh, now>> /\ pictures' = pictures \cup {req[r].arg}
  BY DEF PutPicture
<1>3. "put" \in Uploading /\ "store" \in Uploading /\ Uploading \subseteq Replacing
  BY DEF Uploading, Replacing
<1>4. req[r].arg \in Keys
  BY <1>1, <1>3, PictureFacts
<1>5. RowsInv'
  BY <1>1, <1>2, <1>4, RowsStay, RowsKept
<1>6. /\ RequestsInv' /\ \A q \in Requests : q # r => req'[q] = req[q]
      /\ req'[r].at = "store" /\ req'[r].who = req[r].who /\ req'[r].read = req[r].read /\ req'[r].arg = req[r].arg
  <2>1. req[r].at # "idle" /\ "store" \in {"store", "drop"}
    BY <1>1
  <2>2. Proceed(r, "store") /\ \A f \in Emails : accounts[f] # NoAccount => accounts'[f] # NoAccount
    BY <1>2 DEF PutPicture
  <2> QED BY <1>1, <1>4, <2>1, <2>2, ProceededKept
<1>7. ShopsInv' /\ LinksInv' /\ TimesInv'
  <2>1. \A q \in Requests : req'[q] = req[q] \/ req'[q].at \notin {"hash", "reset"}
    BY <1>6
  <2> QED BY <1>1, <1>2, <1>5, <2>1, PictureFrame
<1>8. \A q \in Requests : /\ req'[q].arg = req[q].arg /\ req'[q].read = req[q].read /\ req'[q].who = req[q].who
                          /\ req'[q].at \in Uploading <=> req[q].at \in Uploading
                          /\ req'[q].at \in Replacing <=> req[q].at \in Replacing
                          /\ req'[q].at = "drop" <=> req[q].at = "drop"
  <2>1. ASSUME NEW q \in Requests, q = r
        PROVE  /\ req'[q].arg = req[q].arg /\ req'[q].read = req[q].read /\ req'[q].who = req[q].who
               /\ req'[q].at \in Uploading <=> req[q].at \in Uploading
               /\ req'[q].at \in Replacing <=> req[q].at \in Replacing
               /\ req'[q].at = "drop" <=> req[q].at = "drop"
    BY <1>1, <1>3, <1>6, <2>1
  <2> QED BY <1>6, <2>1
<1>9. PicturesInv'
  <2>1. Avatars' = Avatars
    BY <1>2 DEF Avatars
  <2>2. \A q \in Requests : req'[q].at = "store" => req'[q].arg \in pictures'
    <3>1. \A q \in Requests : q # r /\ req[q].at = "store" => req[q].arg \in pictures
      BY <1>1, PictureFacts
    <3> QED BY <1>2, <1>6, <3>1
  <2>3. \A f \in Emails : Avatars[f] # None => Avatars[f] \in pictures' /\ Avatars[f] < fresh
    BY <1>1, <1>2, PictureFacts
  <2>4. \A q \in Requests : req'[q].at \in Uploading => req'[q].arg < fresh /\ \A f \in Emails : Avatars[f] # req'[q].arg
    BY <1>1, <1>8, PictureFacts
  <2>5. \A p, q \in Requests : req'[p].at \in Uploading /\ req'[q].at \in Uploading /\ p # q => req'[p].arg # req'[q].arg
    BY <1>1, <1>8, PictureFacts
  <2>6. ASSUME NEW q \in Requests, req'[q].at \in Replacing, req'[q].read # None
        PROVE  /\ req'[q].read < fresh
               /\ \A p \in Requests : req'[p].at \in Uploading => req'[p].arg # req'[q].read
               /\ \A f \in Emails : Avatars[f] = req'[q].read => f = req'[q].who /\ req'[q].at # "drop"
    <3>1. /\ req[q].read \in Nat /\ req[q].read < fresh
          /\ \A p \in Requests : req[p].at \in Uploading => req[p].arg # req[q].read
          /\ \A f \in Emails : Avatars[f] = req[q].read => f = req[q].who /\ req[q].at # "drop"
      BY <1>1, <1>8, <2>6, PictureFacts
    <3> QED BY <1>8, <3>1
  <2>7. \A f, g \in Emails : f # g /\ Avatars[f] # None => Avatars[f] # Avatars[g]
    BY <1>1, PictureFacts
  <2> QED BY <1>2, <2>1, <2>2, <2>3, <2>4, <2>5, <2>6, <2>7 DEF PicturesInv
<1> QED BY <1>5, <1>6, <1>7, <1>9 DEF AccountsInv

(* The row that an upload or a removal writes. *)
LEMMA PictureRow ==
  ASSUME NEW row \in AccountRow, Sound(row), NEW key \in Keys \cup {None}
  PROVE  LET new == [row EXCEPT !.avatar = key]
         IN  /\ new \in AccountRow /\ Sound(new) /\ new.avatar = key
             /\ new.shop = row.shop /\ new.resetLink = row.resetLink /\ new.changedAt = row.changedAt
BY KeysAreNat DEF AccountRow, Sound

LEMMA WrittenPicture ==
  ASSUME AccountsInv, NEW r \in Requests, req[r].at \in {"store", "unset"}, NEW key \in Keys \cup {None},
         key # None => req[r].at = "store" /\ key = req[r].arg,
         WriteAccount(req[r].who, [AccountOf(r) EXCEPT !.avatar = key]), Proceed(r, "drop"),
         UNCHANGED <<shops, mails, sessions, pictures, used, fresh, now>>
  PROVE  AccountsInv'
<1>1. RowsInv /\ RequestsInv /\ PicturesInv /\ fresh <= fresh
  BY RowsStay DEF AccountsInv
<1>2. PICK e \in Emails : e = req[r].who /\ accounts[e] # NoAccount /\ accounts[e] \in AccountRow /\ Sound(accounts[e])
  BY <1>1, RequestAt
<1>3. PICK row : row = [accounts[e] EXCEPT !.avatar = key]
  OBVIOUS
<1>4. /\ row \in AccountRow /\ Sound(row) /\ row.avatar = key
      /\ row.shop = accounts[e].shop /\ row.resetLink = accounts[e].resetLink /\ row.changedAt = accounts[e].changedAt
  BY <1>2, <1>3, PictureRow
<1>5. accounts' = [accounts EXCEPT ![e] = row]
  BY <1>2, <1>3 DEF WriteAccount, AccountOf
<1>6. (\A f \in Emails : accounts'[f] = IF f = e THEN row ELSE accounts[f]) /\ row # NoAccount
  BY <1>1, <1>4, <1>5, WrittenRow
<1>7. RowsInv' /\ \A f \in Emails : accounts[f] # NoAccount => accounts'[f] # NoAccount
  BY <1>1, <1>4, <1>5, RowsKept, RowsStay
<1>8. /\ RequestsInv' /\ \A q \in Requests : q # r => req'[q] = req[q]
      /\ req'[r].at = "drop" /\ req'[r].who = e /\ req'[r].read = req[r].read
  <2>1. req[r].at # "idle" /\ "drop" \in {"store", "drop"} /\ "drop" # "store"
    OBVIOUS
  <2> QED BY <1>1, <1>2, <1>7, <2>1, ProceededKept
<1>9. ShopsInv' /\ LinksInv' /\ TimesInv'
  <2>1. \A q \in Requests : req'[q] = req[q] \/ req'[q].at \notin {"hash", "reset"}
    BY <1>8
  <2>2. \A f \in Emails :
          /\ accounts'[f] # NoAccount <=> accounts[f] # NoAccount
          /\ accounts[f] # NoAccount =>
               /\ accounts'[f].shop = accounts[f].shop
               /\ accounts'[f].resetLink = accounts[f].resetLink
               /\ accounts'[f].changedAt = accounts[f].changedAt
    BY <1>2, <1>4, <1>6
  <2> QED BY <1>1, <1>7, <2>1, <2>2, PictureFrame
<1>10. PicturesInv'
  <2>1. \A f \in Emails : Avatars'[f] = IF f = e THEN key ELSE Avatars[f]
    BY <1>4, <1>6 DEF Avatars
  <2>2. /\ "drop" \notin Uploading /\ Uploading \subseteq Replacing
        /\ req[r].at \in Replacing /\ (req[r].at = "store" => req[r].at \in Uploading)
    BY DEF Uploading, Replacing
  <2>3. \A q \in Requests : req'[q].at \in Uploading => q # r /\ req'[q] = req[q]
    BY <1>8, <2>2
  <2>4. key # None => /\ key \in pictures /\ key < fresh
                      /\ \A f \in Emails : Avatars[f] # key
                      /\ \A q \in Requests : q # r /\ req[q].at \in Uploading => req[q].arg # key
                      /\ \A q \in Requests : req[q].at \in Replacing /\ req[q].read # None => req[q].read # key
    BY <1>1, <2>2, PictureFacts
  <2>5. \A f \in Emails : Avatars'[f] # None => Avatars'[f] \in pictures /\ Avatars'[f] < fresh
    BY <1>1, <2>1, <2>4, PictureFacts
  <2>6. ASSUME NEW f \in Emails, NEW g \in Emails, f # g, Avatars'[f] # None
        PROVE  Avatars'[f] # Avatars'[g]
    <3>1. CASE f = e
      BY <2>1, <2>4, <2>6, <3>1
    <3>2. CASE g = e
      BY <2>1, <2>4, <2>6, <3>2
    <3>3. CASE f # e /\ g # e
      BY <1>1, <2>1, <2>6, <3>3, PictureFacts
    <3> QED BY <3>1, <3>2, <3>3
  <2>7. ASSUME NEW q \in Requests, req'[q].at \in Uploading
        PROVE  req'[q].arg < fresh /\ \A f \in Emails : Avatars'[f] # req'[q].arg
    <3>1. req'[q] = req[q] /\ q # r
      BY <2>3, <2>7
    <3>2. req[q].arg < fresh /\ req[q].arg # None /\ \A f \in Emails : Avatars[f] # req[q].arg
      BY <1>1, <2>7, <3>1, PictureFacts
    <3>3. key # req[q].arg
      BY <2>4, <2>7, <3>1, <3>2
    <3> QED BY <2>1, <3>1, <3>2, <3>3
  <2>8. \A p, q \in Requests : req'[p].at \in Uploading /\ req'[q].at \in Uploading /\ p # q => req'[p].arg # req'[q].arg
    BY <1>1, <2>3, PictureFacts
  <2>9. \A q \in Requests : req'[q].at = "store" => req'[q].arg \in pictures
    BY <1>1, <1>8, PictureFacts
  <2>10. ASSUME NEW q \in Requests, req'[q].at \in Replacing, req'[q].read # None
        PROVE  /\ req'[q].read < fresh
               /\ \A p \in Requests : req'[p].at \in Uploading => req'[p].arg # req'[q].read
               /\ \A f \in Emails : Avatars'[f] = req'[q].read => f = req'[q].who /\ req'[q].at # "drop"
    <3>1. req'[q].read = req[q].read /\ req'[q].who = req[q].who /\ req[q].at \in Replacing
      BY <1>2, <1>8, <2>2, <2>10
    <3>2. /\ req[q].read < fresh
          /\ \A p \in Requests : req[p].at \in Uploading => req[p].arg # req[q].read
          /\ \A f \in Emails : Avatars[f] = req[q].read => f = req[q].who /\ req[q].at # "drop"
      BY <1>1, <2>10, <3>1, PictureFacts
    <3>3. \A p \in Requests : req'[p].at \in Uploading => req'[p].arg # req'[q].read
      BY <2>3, <3>1, <3>2
    <3>4. ASSUME NEW f \in Emails, Avatars'[f] = req'[q].read PROVE f = req'[q].who /\ req'[q].at # "drop"
      <4>1. key # req[q].read
        BY <2>4, <2>10, <3>1
      <4>2. f # e /\ Avatars[f] = req[q].read
        BY <2>1, <3>1, <3>4, <4>1
      <4>3. q # r
        BY <1>2, <3>2, <4>2
      <4> QED BY <1>8, <3>1, <3>2, <4>2, <4>3
    <3> QED BY <3>1, <3>2, <3>3, <3>4
  <2> QED BY <2>5, <2>6, <2>7, <2>8, <2>9, <2>10 DEF PicturesInv
<1> QED BY <1>7, <1>8, <1>9, <1>10 DEF AccountsInv

LEMMA StorePictureKeeps ==
  ASSUME AccountsInv, NEW r \in Requests, StorePicture(r) \/ UnsetPicture(r)
  PROVE  AccountsInv'
<1>1. RowsInv /\ RequestsInv /\ PicturesInv
  BY DEF AccountsInv
<1>2. CASE StorePicture(r)
  <2>1. req[r].at = "store" /\ req[r].at \in Uploading
    BY <1>2 DEF StorePicture, InStage, Uploading
  <2>2. req[r].arg \in Keys
    BY <1>1, <2>1, PictureFacts
  <2> QED BY <1>2, <2>1, <2>2, WrittenPicture DEF StorePicture
<1>3. CASE UnsetPicture(r)
  <2>1. req[r].at = "unset"
    BY <1>3 DEF UnsetPicture, InStage
  <2> QED BY <1>3, <2>1, WrittenPicture DEF UnsetPicture
<1> QED BY <1>2, <1>3

LEMMA ReadForRemovalKeeps ==
  ASSUME AccountsInv, NEW r \in Requests, NEW s \in sessions, ReadForRemoval(r, s)
  PROVE  AccountsInv'
<1>1. RowsInv /\ RequestsInv /\ PicturesInv /\ fresh <= fresh
  BY RowsStay DEF AccountsInv
<1>2. PICK e \in Emails : e = s.who /\ accounts[e] # NoAccount
  BY <1>1, RowsStay
<1>3. PICK old \in Keys \cup {None} : old = accounts[e].avatar /\ old = Avatars[e] /\ old # None
  BY <1>1, <1>2, LinksOfRows DEF ReadForRemoval
<1>4. Serve(r, "unset", e, old, None) /\ UNCHANGED <<accounts, shops, mails, sessions, pictures, used, fresh, now>>
  BY <1>2, <1>3 DEF ReadForRemoval
<1>5. RowsInv'
  BY <1>1, <1>4, RowsStay, RowsKept
<1>6. /\ RequestsInv'
      /\ \A q \in Requests : req'[q] = IF q = r THEN [at |-> "unset", who |-> e, read |-> old, arg |-> None, time |-> 0]
                                               ELSE req[q]
  <2>1. "unset" \in Stages /\ "unset" \notin HoldsPassword /\ "unset" \notin HoldsKey
    BY DEF Stages, HoldsPassword, HoldsKey
  <2> QED BY <1>1, <1>2, <1>4, <2>1, ServedKept
<1>7. /\ \A q \in Requests : q # r => req'[q] = req[q]
      /\ req'[r].at = "unset" /\ req'[r].who = e /\ req'[r].read = old
  BY <1>6
<1>8. ShopsInv' /\ LinksInv' /\ TimesInv'
  <2>1. \A q \in Requests : req'[q] = req[q] \/ req'[q].at \notin {"hash", "reset"}
    BY <1>7
  <2> QED BY <1>1, <1>4, <1>5, <2>1, PictureFrame
<1>9. PicturesInv'
  <2>1. Avatars' = Avatars
    BY <1>4 DEF Avatars
  <2>2. "unset" \notin Uploading /\ Uploading \subseteq Replacing
    BY DEF Uploading, Replacing
  <2>3. \A q \in Requests : req'[q].at \in Uploading => q # r /\ req'[q] = req[q]
    BY <1>7, <2>2
  <2>4. ASSUME NEW q \in Requests, req'[q].at \in Replacing, req'[q].read # None
        PROVE  /\ req'[q].read < fresh
               /\ \A p \in Requests : req'[p].at \in Uploading => req'[p].arg # req'[q].read
               /\ \A f \in Emails : Avatars[f] = req'[q].read => f = req'[q].who /\ req'[q].at # "drop"
    <3>1. CASE q = r
      <4>1. old < fresh /\ (\A f \in Emails : Avatars[f] = old => f = e)
        BY <1>1, <1>3, PictureFacts
      <4>2. \A p \in Requests : req[p].at \in Uploading => req[p].arg # old
        BY <1>1, <1>3, PictureFacts
      <4> QED BY <1>7, <2>3, <3>1, <4>1, <4>2
    <3>2. CASE q # r
      <4>1. req'[q] = req[q]
        BY <1>7, <3>2
      <4>2. /\ req[q].read < fresh
            /\ \A p \in Requests : req[p].at \in Uploading => req[p].arg # req[q].read
            /\ \A f \in Emails : Avatars[f] = req[q].read => f = req[q].who /\ req[q].at # "drop"
        BY <1>1, <2>4, <4>1, PictureFacts
      <4> QED BY <2>3, <4>1, <4>2
    <3> QED BY <3>1, <3>2
  <2>5. \A f \in Emails : Avatars[f] # None => Avatars[f] \in pictures /\ Avatars[f] < fresh
    BY <1>1, PictureFacts
  <2>6. \A q \in Requests : req'[q].at \in Uploading => req'[q].arg < fresh /\ \A f \in Emails : Avatars[f] # req'[q].arg
    BY <1>1, <2>3, PictureFacts
  <2>7. \A p, q \in Requests : req'[p].at \in Uploading /\ req'[q].at \in Uploading /\ p # q => req'[p].arg # req'[q].arg
    BY <1>1, <2>3, PictureFacts
  <2>8. \A q \in Requests : req'[q].at = "store" => req'[q].arg \in pictures
    BY <1>1, <1>7, PictureFacts
  <2>9. \A f, g \in Emails : f # g /\ Avatars[f] # None => Avatars[f] # Avatars[g]
    BY <1>1, PictureFacts
  <2> QED BY <1>4, <2>1, <2>4, <2>5, <2>6, <2>7, <2>8, <2>9 DEF PicturesInv
<1> QED BY <1>5, <1>6, <1>8, <1>9 DEF AccountsInv

LEMMA DropPictureKeeps ==
  ASSUME AccountsInv, NEW r \in Requests, DropPicture(r)
  PROVE  AccountsInv'
<1>1. RowsInv /\ RequestsInv /\ PicturesInv /\ fresh <= fresh /\ req[r].at = "drop"
  BY RowsStay DEF AccountsInv, DropPicture, InStage
<1>2. /\ UNCHANGED <<accounts, shops, mails, sessions, used, fresh, now>> /\ Answer(r)
      /\ pictures' \subseteq pictures /\ \A key \in pictures : key # req[r].read => key \in pictures'
  BY DEF DropPicture
<1>3. pictures' \subseteq Keys
  BY <1>1, <1>2, RowsStay
<1>4. RowsInv'
  BY <1>1, <1>2, <1>3, RowsStay, RowsKept
<1>5. RequestsInv' /\ \A q \in Requests : req'[q] = IF q = r THEN Idle ELSE req[q]
  BY <1>1, <1>2, AnsweredKept
<1>6. \A q \in Requests : req'[q].at \in Replacing \cup {"hash", "reset"} => q # r /\ req'[q] = req[q]
  BY <1>5 DEF Idle, Replacing
<1>7. ShopsInv' /\ LinksInv' /\ TimesInv'
  <2>1. \A q \in Requests : req'[q] = req[q] \/ req'[q].at \notin {"hash", "reset"}
    BY <1>6
  <2> QED BY <1>1, <1>2, <1>4, <2>1, PictureFrame
<1>8. PicturesInv'
  <2>1. Avatars' = Avatars
    BY <1>2 DEF Avatars
  <2>2. Uploading \subseteq Replacing /\ "store" \in Uploading /\ "drop" \in Replacing
    BY DEF Uploading, Replacing
  <2>3. \A q \in Requests : req'[q].at \in Uploading => q # r /\ req'[q] = req[q]
    BY <1>6, <2>2
  <2>4. \A q \in Requests : req'[q].at \in Replacing => q # r /\ req'[q] = req[q]
    BY <1>6
  <2>5. \A f \in Emails : Avatars[f] # None => Avatars[f] \in pictures' /\ Avatars[f] < fresh
    BY <1>1, <1>2, <2>2, PictureFacts
  <2>6. ASSUME NEW q \in Requests, req'[q].at = "store" PROVE req'[q].arg \in pictures'
    <3>1. req'[q] = req[q] /\ req[q].at = "store"
      BY <2>2, <2>3, <2>6
    <3>2. req[q].arg \in pictures /\ req[q].arg # None
      BY <1>1, <2>2, <3>1, PictureFacts
    <3>3. req[q].arg # req[r].read
      BY <1>1, <2>2, <3>1, <3>2, PictureFacts
    <3> QED BY <1>2, <3>1, <3>2, <3>3
  <2>7. \A q \in Requests : req'[q].at \in Uploading => req'[q].arg < fresh /\ \A f \in Emails : Avatars[f] # req'[q].arg
    BY <1>1, <2>3, PictureFacts
  <2>8. \A p, q \in Requests : req'[p].at \in Uploading /\ req'[q].at \in Uploading /\ p # q => req'[p].arg # req'[q].arg
    BY <1>1, <2>3, PictureFacts
  <2>9. \A f, g \in Emails : f # g /\ Avatars[f] # None => Avatars[f] # Avatars[g]
    BY <1>1, PictureFacts
  <2>10. ASSUME NEW q \in Requests, req'[q].at \in Replacing, req'[q].read # None
         PROVE  /\ req'[q].read < fresh
                /\ \A p \in Requests : req'[p].at \in Uploading => req'[p].arg # req'[q].read
                /\ \A f \in Emails : Avatars[f] = req'[q].read => f = req'[q].who /\ req'[q].at # "drop"
    <3>1. req'[q] = req[q]
      BY <2>4, <2>10
    <3>2. /\ req[q].read < fresh
          /\ \A p \in Requests : req[p].at \in Uploading => req[p].arg # req[q].read
          /\ \A f \in Emails : Avatars[f] = req[q].read => f = req[q].who /\ req[q].at # "drop"
      BY <1>1, <2>10, <3>1, PictureFacts
    <3> QED BY <2>3, <3>1, <3>2
  <2> QED BY <1>2, <2>1, <2>5, <2>6, <2>7, <2>8, <2>9, <2>10 DEF PicturesInv
<1> QED BY <1>4, <1>5, <1>7, <1>8 DEF AccountsInv

---------------------------------------------------------------------------
(* Every step keeps the invariant *)

LEMMA SignUpKeeps ==
  ASSUME AccountsInv, NEW r \in Requests, SignUpStep(r, Passwords)
  PROVE  AccountsInv'
BY RegisterKeeps, LoginKeeps, WelcomeKeeps, SignInKeeps, OpenVerifyLinkKeeps, VerifyKeeps, ReadForResendKeeps,
   ResendKeeps, SendMailKeeps DEF SignUpStep

LEMMA PasswordKeeps ==
  ASSUME AccountsInv, NEW r \in Requests, PasswordStep(r)
  PROVE  AccountsInv'
<1>1. CASE \E e \in Emails, p \in Passwords : Login(r, e, p)
  BY <1>1, LoginKeeps
<1>2. CASE \E m \in mails, p \in Passwords : OpenResetLink(r, m, p)
  BY <1>2, OpenResetLinkKeeps
<1>3. CASE \E s \in sessions, p, q \in Passwords : ReadForChange(r, s, p, q)
  BY <1>3, ReadForChangeKeeps
<1>4. CASE \E e \in Emails : ReadForReset(r, e)
  BY <1>4, ReadForResetKeeps
<1>5. CASE SignIn(r) \/ SendMail(r)
  BY <1>5, SignInKeeps, SendMailKeeps
<1>6. CASE RequestReset(r) \/ HashReset(r) \/ Reset(r) \/ ResetRefused(r)
  BY <1>6, RequestResetKeeps, HashResetKeeps, ResetKeeps, ResetRefusedKeeps
<1>7. CASE ChangePassword(r)
  BY <1>7, ChangePasswordKeeps
<1> QED BY <1>1, <1>2, <1>3, <1>4, <1>5, <1>6, <1>7 DEF PasswordStep

LEMMA PictureKeeps ==
  ASSUME AccountsInv, NEW r \in Requests, PictureStep(r)
  PROVE  AccountsInv'
BY ReadForUploadKeeps, ReadForRemovalKeeps, PutPictureKeeps, StorePictureKeeps, DropPictureKeeps DEF PictureStep

LEMMA AccountsStep ==
  ASSUME AccountsInv, [AccountsNext]_accountVars
  PROVE  AccountsInv'
<1>1. CASE \E r \in Requests : SignUpStep(r, Passwords) \/ PasswordStep(r) \/ PictureStep(r)
  BY <1>1, SignUpKeeps, PasswordKeeps, PictureKeeps
<1>2. CASE \E e \in Emails : CooldownEnds(e) \/ LinkExpires(e)
  BY <1>2, CooldownEndsKeeps, LinkExpiresKeeps
<1>3. CASE RestartApi
  BY <1>3, ApiRestartKeeps
<1>4. CASE Tick \/ (\E s \in sessions : Logout(s)) \/ UNCHANGED accountVars
  BY <1>4, NoRowKeeps
<1> QED BY <1>1, <1>2, <1>3, <1>4 DEF AccountsNext

LEMMA AccountsInvHolds == AccountsSpec => []AccountsInv
BY InitialAccounts, AccountsStep, PTL DEF AccountsSpec

LEMMA AccountsHaveTypes == AccountsInv => AccountsTypeOK
<1> SUFFICES ASSUME AccountsInv PROVE AccountsTypeOK
  OBVIOUS
<1>1. \A e \in Emails : accounts[e] # NoAccount => Sound(accounts[e])
  BY RowsStay DEF AccountsInv
<1>2. \A r \in Requests : req[r] # Idle => req[r] \in ServedRequest
  BY DEF AccountsInv, RequestsInv
<1> QED BY <1>1, <1>2 DEF AccountsTypeOK, AccountsInv, RowsInv, Sound, Exists

LEMMA ShopsHaveOwners == AccountsInv => EveryShopOwned
<1> SUFFICES ASSUME AccountsInv, NEW b \in shops
             PROVE  Cardinality({e \in Emails : Exists(e) /\ accounts[e].shop = b}) = 1
  BY DEF EveryShopOwned
<1>1. PICK e \in Emails : Exists(e) /\ accounts[e].shop = b
  BY DEF AccountsInv, ShopsInv
<1>2. \A f \in Emails : Exists(f) /\ accounts[f].shop = b => f = e
  BY <1>1 DEF AccountsInv, ShopsInv
<1>3. {f \in Emails : Exists(f) /\ accounts[f].shop = b} = {e}
  BY <1>1, <1>2
<1> QED BY <1>3, FS_Singleton

---------------------------------------------------------------------------
(***************************************************************************)
(* The tables keep their types, a request holds what its method read, and a  *)
(* link that was opened or used has no expiry left, for any number of        *)
(* accounts and of requests that overlap, and over restarts.                 *)
(***************************************************************************)
THEOREM AccountTypesHold == AccountsSpec => []AccountsTypeOK
BY AccountsHaveTypes, AccountsInvHolds, PTL

(***************************************************************************)
(* Every shop has exactly one account: a registration, and the account that  *)
(* a restart of the backend creates, take a shop of their own.              *)
(***************************************************************************)
THEOREM ShopsAreOwned == AccountsSpec => []EveryShopOwned
BY ShopsHaveOwners, AccountsInvHolds, PTL

(***************************************************************************)
(* A reset link sets a password once, for any number of requests that have    *)
(* found it before one of them used it.                                     *)
(***************************************************************************)
THEOREM ResetLinkUsedOnce == AccountsSpec => []ResetLinkOnce
<1>1. AccountsInv => ResetLinkOnce
  BY DEF AccountsInv, LinksInv, ResetLinkOnce
<1> QED BY <1>1, AccountsInvHolds, PTL

LEMMA PicturesAreStored == AccountsInv => AvatarStored
<1> SUFFICES ASSUME AccountsInv, NEW e \in Emails, accounts[e] # NoAccount
             PROVE  accounts[e].avatar \in pictures \cup {None}
  BY DEF AvatarStored, Exists
<1>1. Avatars[e] = accounts[e].avatar
  BY LinksOfRows DEF AccountsInv
<1> QED BY <1>1 DEF AccountsInv, PicturesInv

(***************************************************************************)
(* The picture that a row names is in the object store, whatever uploads and  *)
(* removals overlap: a key is drawn once, and a request deletes no picture    *)
(* but the one its own write has taken out of the row.                      *)
(***************************************************************************)
THEOREM AvatarIsStored == AccountsSpec => []AvatarStored
BY PicturesAreStored, AccountsInvHolds, PTL

(* A step creates a session only as SignIn does, and sets a time of change only as Reset does. *)
LEMMA SessionsFrom ==
  ASSUME [AccountsNext]_accountVars, NEW s \in sessions', s \notin sessions
  PROVE  \E r \in Requests : SignIn(r)
<1>1. sessions' # sessions
  OBVIOUS
<1>2. ASSUME NEW r \in Requests, SignUpStep(r, Passwords) PROVE SignIn(r)
  BY <1>1, <1>2 DEF SignUpStep, Register, Login, Welcome, OpenVerifyLink, Verify, ReadForResend, Resend, SendMail
<1>3. ASSUME NEW r \in Requests, PasswordStep(r) PROVE SignIn(r)
  BY <1>1, <1>3 DEF PasswordStep, Login, ReadForReset, RequestReset, SendMail, OpenResetLink, HashReset, Reset,
                    ResetRefused, ReadForChange, ChangePassword
<1>4. ASSUME NEW r \in Requests, PictureStep(r) PROVE FALSE
  BY <1>1, <1>4 DEF PictureStep, ReadForUpload, ReadForRemoval, PutPicture, StorePicture, UnsetPicture, DropPicture
<1>5. ~\E e \in Emails : CooldownEnds(e) \/ LinkExpires(e)
  BY <1>1 DEF CooldownEnds, LinkExpires
<1>6. ~RestartApi /\ ~Tick /\ ~UNCHANGED accountVars /\ ~\E t \in sessions : Logout(t)
  BY <1>1 DEF RestartApi, Tick, accountVars, Logout
<1> QED BY <1>2, <1>3, <1>4, <1>5, <1>6 DEF AccountsNext

(* A session that a step hands out is accepted. *)
LEMMA IssuedStep ==
  AccountsInv /\ [AccountsNext]_accountVars => [\A s \in sessions' \ sessions : Accepted(s)']_accountVars
<1>1. ASSUME AccountsInv, [AccountsNext]_accountVars, NEW s \in sessions', s \notin sessions
      PROVE  Accepted(s)'
  <2>1. PICK r \in Requests : SignIn(r)
    BY <1>1, SessionsFrom
  <2>2. s = [who |-> req[r].who, iat |-> Second(now)] /\ UNCHANGED <<accounts, now>>
    BY <1>1, <2>1 DEF SignIn
  <2>3. req[r].who \in Emails /\ accounts[req[r].who] # NoAccount
    BY <1>1, <2>1, RequestAt DEF SignIn, InStage, AccountsInv
  <2>4. accounts[req[r].who].changedAt <= ChangedAt(now) /\ accounts[req[r].who].changedAt \in Nat
    BY <1>1, <2>3, RowsStay, KeysAreNat DEF AccountsInv, TimesInv, Exists, AccountRow
  <2>5. Second(now) \in Nat
    <3>1. now \in Nat
      BY <1>1, KeysAreNat DEF AccountsInv, RowsInv
    <3> QED BY <3>1 DEF Second
  <2>6. 2 * Second(now) >= accounts[req[r].who].changedAt
    BY <2>4, <2>5 DEF ChangedAt
  <2> QED BY <2>2, <2>3, <2>6 DEF Accepted, Exists
<1> QED BY <1>1

(***************************************************************************)
(* A session that is handed out is accepted: no time of a change is ahead of  *)
(* the second that its "iat" counts, in which the reset rounds as well.      *)
(***************************************************************************)
THEOREM NewSessionsWork == AccountsSpec => NewSessionWorks
BY IssuedStep, AccountsInvHolds, PTL DEF AccountsSpec, NewSessionWorks

(* No step sets the time of a change back. *)
TimesGrow == \A f \in Emails : accounts[f] # NoAccount => accounts'[f].changedAt >= accounts[f].changedAt

LEMMA SameRowsGrow ==
  ASSUME RowsInv, accounts' = accounts
  PROVE  TimesGrow
<1>1. \A f \in Emails : accounts[f] # NoAccount => accounts[f].changedAt \in Nat
  BY RowsStay, KeysAreNat DEF AccountRow
<1> QED BY <1>1 DEF TimesGrow

LEMMA WriteGrows ==
  ASSUME RowsInv, NEW e \in Emails, NEW row, WriteAccount(e, row),
         accounts[e] # NoAccount => row.changedAt >= accounts[e].changedAt
  PROVE  TimesGrow
<1>1. \A f \in Emails : accounts[f] # NoAccount => accounts[f].changedAt \in Nat
  BY RowsStay, KeysAreNat DEF AccountRow
<1>2. \A f \in Emails : accounts'[f] = IF f = e THEN row ELSE accounts[f]
  BY DEF WriteAccount, RowsInv
<1> QED BY <1>1, <1>2 DEF TimesGrow

(* The rows that are written with the time they had. *)
LEMMA TimeOfWrittenRows ==
  ASSUME NEW row \in AccountRow, NEW key, NEW p
  PROVE  /\ row.changedAt >= row.changedAt
         /\ Verified(row).changedAt = row.changedAt
         /\ [row EXCEPT !.verifyLink = key, !.verifyOld = FALSE, !.verifyCooling = TRUE].changedAt = row.changedAt
         /\ [row EXCEPT !.resetLink = key, !.resetOld = FALSE, !.resetCooling = TRUE].changedAt = row.changedAt
         /\ [row EXCEPT !.pwd = p].changedAt = row.changedAt
         /\ [row EXCEPT !.avatar = key].changedAt = row.changedAt
         /\ [row EXCEPT !.admin = TRUE].changedAt = row.changedAt
         /\ [row EXCEPT !.verifyCooling = FALSE].changedAt = row.changedAt
         /\ [row EXCEPT !.resetCooling = FALSE].changedAt = row.changedAt
         /\ [row EXCEPT !.verifyOld = TRUE].changedAt = row.changedAt
         /\ [row EXCEPT !.resetOld = TRUE].changedAt = row.changedAt
<1>1. row.changedAt \in Nat
  BY KeysAreNat DEF AccountRow
<1>2. row.changedAt >= row.changedAt
  BY <1>1
<1>3. Verified(row).changedAt = row.changedAt
  BY DEF AccountRow, Verified
<1> QED BY <1>2, <1>3 DEF AccountRow

(* The row of a request's account, and what a write of the request does to its time. *)
LEMMA RequestWriteGrows ==
  ASSUME RowsInv, RequestsInv, NEW r \in Requests, req[r].at # "idle", NEW row, WriteAccount(req[r].who, row),
         row.changedAt = AccountOf(r).changedAt
  PROVE  TimesGrow
<1>1. req[r].who \in Emails /\ accounts[req[r].who] \in AccountRow
  BY RequestAt
<1>2. row.changedAt >= accounts[req[r].who].changedAt
  BY <1>1, TimeOfWrittenRows DEF AccountOf
<1> QED BY <1>1, <1>2, WriteGrows

LEMMA ResetGrows ==
  ASSUME AccountsInv, NEW r \in Requests, Reset(r)
  PROVE  TimesGrow
<1>1. RowsInv /\ RequestsInv /\ TimesInv /\ req[r].at = "reset"
  BY DEF AccountsInv, Reset, InStage
<1>2. req[r].who \in Emails /\ accounts[req[r].who] \in AccountRow /\ accounts[req[r].who] # NoAccount
      /\ req[r].time \in Nat
  BY <1>1, RequestAt, KeysAreNat DEF ServedRequest
<1>3. Links[req[r].who] = req[r].read
  BY <1>1, <1>2, LinksOfRows DEF Reset, StillLinked, AccountOf
<1>4. accounts[req[r].who].changedAt <= req[r].time /\ accounts[req[r].who].changedAt \in Nat
  BY <1>1, <1>2, <1>3, KeysAreNat DEF TimesInv, AccountRow
<1>5. PICK row : row = [AccountOf(r) EXCEPT !.pwd = req[r].arg, !.changedAt = req[r].time,
                            !.resetLink = None, !.resetOld = FALSE,
                            !.verified = TRUE, !.verifyLink = None, !.verifyOld = FALSE]
  OBVIOUS
<1>6. row.changedAt = req[r].time
  BY <1>2, <1>5 DEF AccountRow, AccountOf
<1>7. WriteAccount(req[r].who, row)
  BY <1>5 DEF Reset
<1>8. row.changedAt >= accounts[req[r].who].changedAt
  BY <1>2, <1>4, <1>6
<1> QED BY <1>1, <1>2, <1>7, <1>8, WriteGrows

LEMMA RestartGrows ==
  ASSUME AccountsInv, RestartApi
  PROVE  TimesGrow
<1>1. RowsInv
  BY DEF AccountsInv
<1>2. CASE AdminEmail # None /\ accounts[AdminEmail] # NoAccount
           /\ WriteAccount(AdminEmail, [accounts[AdminEmail] EXCEPT !.admin = TRUE])
  <2>1. AdminEmail \in Emails /\ accounts[AdminEmail] \in AccountRow
    BY <1>1, <1>2, AccountsAssumption, RowsStay
  <2>2. PICK row : row = [accounts[AdminEmail] EXCEPT !.admin = TRUE]
    OBVIOUS
  <2>3. row.changedAt >= accounts[AdminEmail].changedAt
    BY <2>1, <2>2, TimeOfWrittenRows
  <2> QED BY <1>1, <1>2, <2>1, <2>2, <2>3, WriteGrows
<1>3. ASSUME AdminEmail # None, accounts[AdminEmail] = NoAccount, NEW row, WriteAccount(AdminEmail, row)
      PROVE  TimesGrow
  BY <1>1, <1>3, AccountsAssumption, WriteGrows
<1>4. CASE accounts' = accounts
  BY <1>1, <1>4, SameRowsGrow
<1> QED BY <1>2, <1>3, <1>4 DEF RestartApi, EnsureAdmin, Exists

LEMMA StepsGrow ==
  ASSUME AccountsInv, [AccountsNext]_accountVars
  PROVE  TimesGrow
<1>0. RowsInv /\ RequestsInv
  BY DEF AccountsInv
<1>1. ASSUME NEW r \in Requests, NEW e \in Emails, NEW p \in Passwords, Register(r, e, p) PROVE TimesGrow
  <2>1. accounts[e] = NoAccount /\ WriteAccount(e, NewAccount(p, fresh, fresh))
    BY <1>1 DEF Register, Free, Exists
  <2> QED BY <1>0, <2>1, WriteGrows
<1>2. ASSUME NEW r \in Requests, Verify(r) \/ Resend(r) \/ RequestReset(r) \/ ChangePassword(r)
                                 \/ StorePicture(r) \/ UnsetPicture(r)
      PROVE  TimesGrow
  <2>1. req[r].at # "idle"
    BY <1>2 DEF Verify, Resend, RequestReset, ChangePassword, StorePicture, UnsetPicture, InStage
  <2>2. AccountOf(r) \in AccountRow
    BY <1>0, <2>1, RequestAt DEF AccountOf
  <2>3. \E row : WriteAccount(req[r].who, row) /\ row.changedAt = AccountOf(r).changedAt
    <3>1. CASE Verify(r)
      <4>1. PICK row : row = Verified(AccountOf(r))
        OBVIOUS
      <4>2. row.changedAt = AccountOf(r).changedAt
        BY <2>2, <4>1, TimeOfWrittenRows
      <4>3. WriteAccount(req[r].who, row)
        BY <3>1, <4>1 DEF Verify
      <4> QED BY <4>2, <4>3
    <3>2. CASE Resend(r)
      <4>1. PICK row : row = [AccountOf(r) EXCEPT !.verifyLink = fresh, !.verifyOld = FALSE, !.verifyCooling = TRUE]
        OBVIOUS
      <4>2. row.changedAt = AccountOf(r).changedAt
        BY <2>2, <4>1, TimeOfWrittenRows
      <4>3. WriteAccount(req[r].who, row)
        BY <3>2, <4>1 DEF Resend
      <4> QED BY <4>2, <4>3
    <3>3. CASE RequestReset(r)
      <4>1. PICK row : row = [AccountOf(r) EXCEPT !.resetLink = fresh, !.resetOld = FALSE, !.resetCooling = TRUE]
        OBVIOUS
      <4>2. row.changedAt = AccountOf(r).changedAt
        BY <2>2, <4>1, TimeOfWrittenRows
      <4>3. WriteAccount(req[r].who, row)
        BY <3>3, <4>1 DEF RequestReset
      <4> QED BY <4>2, <4>3
    <3>4. CASE ChangePassword(r)
      <4>1. PICK row : row = [AccountOf(r) EXCEPT !.pwd = req[r].arg]
        OBVIOUS
      <4>2. row.changedAt = AccountOf(r).changedAt
        BY <2>2, <4>1, TimeOfWrittenRows
      <4>3. WriteAccount(req[r].who, row)
        BY <3>4, <4>1 DEF ChangePassword
      <4> QED BY <4>2, <4>3
    <3>5. CASE StorePicture(r)
      <4>1. PICK row : row = [AccountOf(r) EXCEPT !.avatar = req[r].arg]
        OBVIOUS
      <4>2. row.changedAt = AccountOf(r).changedAt
        BY <2>2, <4>1, TimeOfWrittenRows
      <4>3. WriteAccount(req[r].who, row)
        BY <3>5, <4>1 DEF StorePicture
      <4> QED BY <4>2, <4>3
    <3>6. CASE UnsetPicture(r)
      <4>1. PICK row : row = [AccountOf(r) EXCEPT !.avatar = None]
        OBVIOUS
      <4>2. row.changedAt = AccountOf(r).changedAt
        BY <2>2, <4>1, TimeOfWrittenRows
      <4>3. WriteAccount(req[r].who, row)
        BY <3>6, <4>1 DEF UnsetPicture
      <4> QED BY <4>2, <4>3
    <3> QED BY <1>2, <3>1, <3>2, <3>3, <3>4, <3>5, <3>6
  <2> QED BY <1>0, <2>1, <2>3, RequestWriteGrows
<1>3. ASSUME NEW e \in Emails, CooldownEnds(e) \/ LinkExpires(e) PROVE TimesGrow
  <2>1. accounts[e] \in AccountRow
    BY <1>0, <1>3, RowsStay DEF CooldownEnds, LinkExpires, Exists
  <2>2. PICK row : WriteAccount(e, row) /\ row.changedAt = accounts[e].changedAt
    BY <1>3, <2>1, TimeOfWrittenRows DEF CooldownEnds, LinkExpires
  <2>3. row.changedAt >= accounts[e].changedAt
    BY <2>1, <2>2, TimeOfWrittenRows
  <2> QED BY <1>0, <2>2, <2>3, WriteGrows
<1>4. ASSUME NEW r \in Requests, SignUpStep(r, Passwords) PROVE TimesGrow
  <2>1. (\E e \in Emails, p \in Passwords : Register(r, e, p)) \/ Verify(r) \/ Resend(r) \/ accounts' = accounts
    BY <1>4 DEF SignUpStep, Login, Welcome, SignIn, OpenVerifyLink, ReadForResend, SendMail
  <2> QED BY <1>0, <1>1, <1>2, <2>1, SameRowsGrow
<1>5. ASSUME NEW r \in Requests, PasswordStep(r) PROVE TimesGrow
  <2>1. RequestReset(r) \/ Reset(r) \/ ChangePassword(r) \/ accounts' = accounts
    BY <1>5 DEF PasswordStep, Login, SignIn, ReadForReset, SendMail, OpenResetLink, HashReset, ResetRefused, ReadForChange
  <2> QED BY <1>0, <1>2, <2>1, ResetGrows, SameRowsGrow
<1>6. ASSUME NEW r \in Requests, PictureStep(r) PROVE TimesGrow
  <2>1. StorePicture(r) \/ UnsetPicture(r) \/ accounts' = accounts
    BY <1>6 DEF PictureStep, ReadForUpload, ReadForRemoval, PutPicture, DropPicture
  <2> QED BY <1>0, <1>2, <2>1, SameRowsGrow
<1>7. CASE Tick \/ (\E s \in sessions : Logout(s)) \/ UNCHANGED accountVars
  BY <1>0, <1>7, SameRowsGrow DEF Tick, Logout, accountVars
<1> QED BY <1>3, <1>4, <1>5, <1>6, <1>7, RestartGrows DEF AccountsNext

(* No step takes a refused session back. *)
LEMMA RefusedStep ==
  AccountsInv /\ [AccountsNext]_accountVars => [\A s \in sessions : ~Accepted(s) => ~Accepted(s)']_accountVars
<1>1. ASSUME AccountsInv, [AccountsNext]_accountVars, NEW s \in sessions, ~Accepted(s)
      PROVE  ~Accepted(s)'
  <2>1. s.who \in Emails /\ accounts[s.who] # NoAccount /\ s.iat \in Nat
    BY <1>1, RowsStay DEF AccountsInv, SessionRows
  <2>2. accounts[s.who].changedAt \in Nat /\ accounts'[s.who].changedAt >= accounts[s.who].changedAt
    BY <1>1, <2>1, StepsGrow, RowsStay, KeysAreNat DEF TimesGrow, AccountsInv, AccountRow
  <2>3. AccountsInv'
    BY <1>1, AccountsStep
  <2>4. accounts'[s.who] # NoAccount => accounts'[s.who].changedAt \in Nat
    <3>1. \A e \in Emails : accounts'[e] # NoAccount => accounts'[e] \in AccountRow
      BY <2>3 DEF AccountsInv, RowsInv
    <3> QED BY <2>1, <3>1, KeysAreNat DEF AccountRow
  <2>5. ~(2 * s.iat >= accounts[s.who].changedAt)
    BY <1>1, <2>1 DEF Accepted, Exists
  <2>6. accounts'[s.who] # NoAccount => ~(2 * s.iat >= accounts'[s.who].changedAt)
    BY <2>1, <2>2, <2>4, <2>5
  <2> QED BY <2>6 DEF Accepted, Exists
<1> QED BY <1>1

(***************************************************************************)
(* A session that a reset ended stays refused: the update of a slower reset   *)
(* matches its link again, so it writes only if no later one has, and the     *)
(* times of the changes only grow.                                          *)
(***************************************************************************)
THEOREM RefusedSessionsStayRefused == AccountsSpec => RefusedStaysRefused
BY RefusedStep, AccountsInvHolds, PTL DEF AccountsSpec, RefusedStaysRefused
=============================================================================
