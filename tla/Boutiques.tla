------------------------------ MODULE Boutiques ------------------------------
(***************************************************************************)
(* One shop: BoutiqueService (its onboarding sections) and BillingService   *)
(* (its plan and payments), as the requests of its merchant's browser tabs  *)
(* reach them.  A request that reads the shop and acts on what it read is    *)
(* two steps or more; subscribe awaits the payment provider in between.     *)
(***************************************************************************)
EXTENDS Integers, Sequences, Plans

CONSTANTS
  Tabs,         \* browser tabs of the merchant
  Times,        \* clock times, in minutes of the day
  Payments,     \* PAYMENTS_PROVIDER resolves to the simulated provider
  Tokens,       \* the payment tokens that are sent to the API
  Tried,        \* bound: the paid plans they try
  Declared,     \* the daily volumes a merchant declares
  MaxPayments   \* bound: charges

(* MIN_CALL_WINDOW_MINUTES *)
MinWindow == 60

(* TEST_TOKENS of the simulated provider *)
KnownTokens == {"tok_test_visa", "tok_test_mastercard", "tok_test_declined",
                "tok_test_insufficient_funds"}
AcceptedTokens == {"tok_test_visa", "tok_test_mastercard"}
AnyToken == KnownTokens \cup {"tok_card", "none"}

ASSUME BoutiquesAssumption ==
  /\ Times \subseteq 0 .. 1439
  /\ Payments \in BOOLEAN
  /\ MaxPayments \in Nat
  /\ Declared \subseteq Volumes /\ Tried \subseteq PaidPlans /\ Tokens \subseteq AnyToken

VARIABLES
  shop,      \* the boutiques row
  payments,  \* the payments table, in the order of its rows
  charged,   \* charges the provider accepted
  work       \* the request of each tab

boutiqueVars == <<shop, payments, charged, work>>

NoWindow == <<>>
Windows == Times \X Times
Shop == [identity : BOOLEAN, window : Windows \cup {NoWindow}, volume : Volumes,
         completed : BOOLEAN, plan : PlanOrNone, churned : BOOLEAN]
Payment == [plan : PaidPlans, ok : BOOLEAN]

Resting == [at |-> "idle", plan |-> "none", token |-> "none"]
Work == [at : {"idle", "charging", "refused", "paid", "cancelling", "subscribed", "completing",
               "failed", "ready"},
         plan : PlanOrNone, token : AnyToken]

BoutiquesTypeOK ==
  /\ shop \in Shop
  /\ payments \in Seq(Payment) /\ Len(payments) <= MaxPayments
  /\ charged \in 0 .. MaxPayments
  /\ work \in [Tabs -> Work]

BoutiquesInit ==
  /\ shop = [identity |-> FALSE, window |-> NoWindow, volume |-> "none", completed |-> FALSE,
             plan |-> "none", churned |-> FALSE]
  /\ payments = <<>> /\ charged = 0
  /\ work = [t \in Tabs |-> Resting]

At(t, at) == work[t].at = at
(* plan, token: what the request still needs. *)
Goes(t, at) == work' = [work EXCEPT ![t] = [Resting EXCEPT !.at = at]]
Keeps(t, at) == work' = [work EXCEPT ![t] = [Resting EXCEPT !.at = at, !.plan = work[t].plan]]
Running == CurrentPlan(shop.plan, shop.churned)

-----------------------------------------------------------------------------
(* Onboarding *)

(* The first required screen that is still missing, else 3. *)
NextStep == IF ~shop.identity THEN 1 ELSE IF shop.window = NoWindow THEN 2 ELSE 3

(* isWithinCallWindow *)
WithinWindow(window, minute) ==
  /\ window # NoWindow
  /\ window[1] < window[2]
  /\ window[1] <= minute /\ minute < window[2]

UpdateIdentity ==
  /\ shop' = [shop EXCEPT !.identity = TRUE]
  /\ UNCHANGED <<payments, charged>>

(* Mutated form: any two times. *)
LongEnoughAnyway(window) == TRUE

(* updateAgent refuses less than an hour, and an end before the start. *)
LongEnough(window) == window[2] - window[1] >= MinWindow

UpdateAgent(window) ==
  /\ LongEnough(window)
  /\ shop' = [shop EXCEPT !.window = window]
  /\ UNCHANGED <<payments, charged>>

UpdateDetails(volume) ==
  /\ shop' = [shop EXCEPT !.volume = volume]
  /\ UNCHANGED <<payments, charged>>

-----------------------------------------------------------------------------
(* The plan *)

(* Free: a running paid plan is cancelled, and its code stays for the history. *)
SubscribeFree(t) ==
  /\ At(t, "idle")
  /\ Goes(t, IF Price[Running] > 0 THEN "cancelling" ELSE "subscribed")
  /\ UNCHANGED <<shop, payments, charged>>

Cancel(t) ==
  /\ At(t, "cancelling")
  /\ shop' = [shop EXCEPT !.churned = TRUE]
  /\ Goes(t, "subscribed")
  /\ UNCHANGED <<payments, charged>>

(* A paid plan: 503 without a provider, 400 without a token; else the card is charged. *)
SubscribePaid(t, plan, token) ==
  /\ At(t, "idle") /\ plan \in PaidPlans
  /\ IF Payments /\ token # "none"
       THEN work' = [work EXCEPT ![t] = [at |-> "charging", plan |-> plan, token |-> token]]
       ELSE Goes(t, "failed")
  /\ UNCHANGED <<shop, payments, charged>>

(* An unknown token is a 400: nothing is charged or recorded. *)
Charge(t) ==
  /\ At(t, "charging") /\ charged < MaxPayments
  /\ IF work[t].token \in AcceptedTokens
       THEN charged' = charged + 1 /\ Keeps(t, "paid")
       ELSE /\ IF work[t].token \in KnownTokens THEN Keeps(t, "refused") ELSE Goes(t, "failed")
            /\ UNCHANGED charged
  /\ UNCHANGED <<shop, payments>>

Recorded(t, ok) ==
  /\ Len(payments) < MaxPayments
  /\ payments' = Append(payments, [plan |-> work[t].plan, ok |-> ok])

(* Mutated form: the plan is given before the charge is known to have succeeded. *)
AfterRefusalGranted(t) == [shop EXCEPT !.plan = work[t].plan, !.churned = FALSE]

(* A failed charge changes nothing; it is recorded, and the answer is a 402. *)
AfterRefusal(t) == shop

RecordRefusal(t) ==
  /\ At(t, "refused") /\ Recorded(t, FALSE)
  /\ shop' = AfterRefusal(t)
  /\ Goes(t, "failed")
  /\ UNCHANGED charged

(* One transaction: the payment, and the plan from now on. *)
RecordPayment(t) ==
  /\ At(t, "paid") /\ Recorded(t, TRUE)
  /\ shop' = [shop EXCEPT !.plan = work[t].plan, !.churned = FALSE]
  /\ Goes(t, "subscribed")
  /\ UNCHANGED charged

-----------------------------------------------------------------------------
(* completeOnboarding is refused while a required screen is missing. *)
MayComplete == NextStep = 3

ReadForCompletion(t) ==
  /\ At(t, "subscribed")
  /\ Goes(t, IF ~MayComplete THEN "failed" ELSE IF shop.completed THEN "ready" ELSE "completing")
  /\ UNCHANGED <<shop, payments, charged>>

Complete(t) ==
  /\ At(t, "completing")
  /\ shop' = [shop EXCEPT !.completed = TRUE]
  /\ Goes(t, "ready")
  /\ UNCHANGED <<payments, charged>>

(* The API restarts or the database refuses: the request fails where it is. *)
RequestFails(t) ==
  /\ work[t].at \notin {"idle", "failed", "ready"}
  /\ Goes(t, "failed")
  /\ UNCHANGED <<shop, payments, charged>>

(* The answer came: the tab may send another request. *)
Acknowledge(t) ==
  /\ work[t].at \in {"failed", "ready"}
  /\ Goes(t, "idle")
  /\ UNCHANGED <<shop, payments, charged>>

BillingStep(t) == Cancel(t) \/ Charge(t) \/ RecordRefusal(t) \/ RecordPayment(t)
OnboardingStep(t) == ReadForCompletion(t) \/ Complete(t)

(* The API as several tabs use it, in any order. *)
BoutiquesNext ==
  \/ \E t \in Tabs :
      \/ SubscribeFree(t)
      \/ \E plan \in Tried, token \in Tokens : SubscribePaid(t, plan, token)
      \/ BillingStep(t) \/ OnboardingStep(t) \/ RequestFails(t) \/ Acknowledge(t)
  \/ /\ UpdateIdentity \/ \E window \in Windows : UpdateAgent(window)
     /\ UNCHANGED work

-----------------------------------------------------------------------------
(***************************************************************************)
(* A shop that finished its onboarding can be called for: the orchestrator   *)
(* finds a minute of the day inside its calling window, whatever is edited   *)
(* afterwards and in whatever order the requests of two tabs arrive.        *)
(***************************************************************************)
CompletedShopIsCallable ==
  shop.completed => /\ shop.identity
                    /\ \E minute \in Times : WithinWindow(shop.window, minute)

(***************************************************************************)
(* A shop is on a paid plan only if the last payment that succeeded was for  *)
(* that plan: no refused card, failed request or second tab gives one away.  *)
(***************************************************************************)
PaidPlanWasPaid ==
  Running \in PaidPlans =>
    \E i \in DOMAIN payments :
      /\ payments[i] = [plan |-> Running, ok |-> TRUE]
      /\ \A j \in i + 1 .. Len(payments) : ~payments[j].ok
      /\ charged >= 1
=============================================================================
