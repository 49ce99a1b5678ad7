-------------------------------- MODULE Pages --------------------------------
(***************************************************************************)
(* The web application's way through sign-in, confirmation, onboarding and   *)
(* the app: which page shows itself and which one redirects, given the       *)
(* session cookie, the account and the shop.  Each tab follows its own       *)
(* redirects; the forms of the onboarding call the API and move on.          *)
(***************************************************************************)
EXTENDS Boutiques

VARIABLES
  cookie,    \* the browser has a session cookie
  accepted,  \* the API still accepts the session of the cookie
  verified,  \* the account's address is confirmed
  admin,     \* the account is a platform admin
  tab        \* where each tab is, and whether the page shows itself

accountState == <<cookie, accepted, verified, admin>>
pagesVars == <<boutiqueVars, accountState, tab>>

StepPage == <<"boutique", "agent", "details", "plan">>
PlanStep == 4
Page == {"login", "verify-email", "onboarding", "dashboard", "admin"}
        \cup {StepPage[i] : i \in 1 .. 4}
Protected == Page \ {"login", "verify-email"}

PagesTypeOK ==
  /\ BoutiquesTypeOK
  /\ cookie \in BOOLEAN /\ accepted \in BOOLEAN /\ verified \in BOOLEAN /\ admin \in BOOLEAN
  /\ tab \in [Tabs -> [page : Page, shown : BOOLEAN]]

PagesInit ==
  /\ BoutiquesInit
  /\ cookie = FALSE /\ accepted = FALSE /\ verified = FALSE /\ admin = FALSE
  /\ tab = [t \in Tabs |-> [page |-> "login", shown |-> TRUE]]

-----------------------------------------------------------------------------
(* Where a page sends the browser; a page that shows itself is its own target. *)

(* send: what a protected call does to the page that makes it. *)
RefusedCall(allowUnverified) ==
  IF ~accepted THEN "login"
  ELSE IF ~verified /\ ~allowUnverified THEN "verify-email" ELSE "none"

(* Mutated form: the plan screen is not one of those the API tracks. *)
LastOpenStepTracked == NextStep

(* Once both required screens are filled, the details and the plan are both open. *)
LastOpenStep == IF NextStep = 3 THEN PlanStep ELSE NextStep

StepTarget(i) ==
  IF RefusedCall(FALSE) # "none" THEN RefusedCall(FALSE)
  ELSE IF shop.completed THEN "dashboard"
  ELSE IF i > LastOpenStep THEN StepPage[NextStep] ELSE StepPage[i]

OnboardingTarget ==
  IF RefusedCall(FALSE) # "none" THEN RefusedCall(FALSE)
  ELSE IF shop.completed THEN "dashboard" ELSE StepPage[NextStep]

(* Mutated form: the layout does not look at the onboarding. *)
AppClosedNever == FALSE

(* The app stays closed until the onboarding is done. *)
AppClosed == ~shop.completed

DashboardTarget ==
  IF RefusedCall(FALSE) # "none" THEN RefusedCall(FALSE)
  ELSE IF AppClosed THEN StepPage[NextStep] ELSE "dashboard"

(* The layout's api.me() admits an unconfirmed account, the page's own calls do not. *)
AdminTarget ==
  IF RefusedCall(TRUE) # "none" THEN RefusedCall(TRUE)
  ELSE IF ~admin THEN "dashboard"
  ELSE IF RefusedCall(FALSE) # "none" THEN RefusedCall(FALSE) ELSE "admin"

(* CheckInbox sends a confirmed account to the onboarding. *)
InboxSends == verified

VerifyEmailTarget ==
  IF ~cookie \/ RefusedCall(TRUE) # "none" THEN "login"
  ELSE IF InboxSends THEN "onboarding" ELSE "verify-email"

(* The middleware first: without a cookie a protected page is the login page. *)
Target(page) ==
  IF page \in Protected /\ ~cookie THEN "login"
  ELSE CASE page = "login" -> "login"
         [] page = "verify-email" -> VerifyEmailTarget
         [] page = "onboarding" -> OnboardingTarget
         [] page = "dashboard" -> DashboardTarget
         [] page = "admin" -> AdminTarget
         [] OTHER -> StepTarget(CHOOSE i \in 1 .. 4 : StepPage[i] = page)

-----------------------------------------------------------------------------
(* The tabs *)

(* TEST_CARDS: the token of each test number. *)
TestCards == [c4242 |-> "tok_test_visa", c5555 |-> "tok_test_mastercard",
              c0002 |-> "tok_test_declined", c9995 |-> "tok_test_insufficient_funds"]

Shows(t, page) == tab[t] = [page |-> page, shown |-> TRUE]
Open(t, page) == tab' = [tab EXCEPT ![t] = [page |-> page, shown |-> FALSE]]

Visit(t, page) ==
  /\ tab[t].shown /\ At(t, "idle")
  /\ Open(t, page)
  /\ UNCHANGED <<boutiqueVars, accountState>>

(* The server renders the page, or answers with a redirect. *)
Follow(t) ==
  /\ ~tab[t].shown
  /\ LET next == Target(tab[t].page)
     IN  tab' = [tab EXCEPT ![t] = [page |-> next, shown |-> next = tab[t].page]]
  /\ UNCHANGED <<boutiqueVars, accountState>>

(* The form of a page calls the API: its session and confirmation count then, too. *)
Submits(t, page) == Shows(t, page) /\ At(t, "idle")
Allowed == accepted /\ verified

SaveIdentity(t) ==
  /\ Submits(t, "boutique") /\ Allowed
  /\ UpdateIdentity /\ Open(t, "agent")
  /\ UNCHANGED <<work, accountState>>

SaveAgent(t) ==
  /\ Submits(t, "agent") /\ Allowed
  /\ \E w \in Windows : UpdateAgent(w)
  /\ Open(t, "details")
  /\ UNCHANGED <<work, accountState>>

(* "Skip" saves nothing. *)
FinishDetails(t) ==
  /\ Submits(t, "details") /\ Allowed
  /\ \/ \E v \in Declared : UpdateDetails(v)
     \/ UNCHANGED <<shop, payments, charged>>
  /\ Open(t, "plan")
  /\ UNCHANGED <<work, accountState>>

(* A call that is refused redirects the tab. *)
SubmitRefused(t) ==
  /\ \E i \in 1 .. 4 : Submits(t, StepPage[i])
  /\ RefusedCall(FALSE) # "none"
  /\ Open(t, RefusedCall(FALSE))
  /\ UNCHANGED <<boutiqueVars, accountState>>

(* The card form: what was typed, by what tokenizeTestCard tells apart. *)
Card == [number : DOMAIN TestCards \cup {"incomplete", "real card"},
         valid : BOOLEAN, cvc : BOOLEAN, name : BOOLEAN]

(* In test mode only the well-known test numbers have a token. *)
KnownCard(card) == card.number \in DOMAIN TestCards

CardError(card) ==
  CASE card.number = "incomplete" -> "number"
    [] ~card.valid -> "expiry"
    [] ~card.cvc -> "cvc"
    [] ~card.name -> "name"
    [] ~KnownCard(card) -> "test_only"
    [] OTHER -> "none"

Token(card) ==
  IF card.number \in DOMAIN TestCards THEN TestCards[card.number] ELSE "tok_card"

(* choosePlan: subscribe, then completeOnboarding.  A paid plan can only be picked where *)
(* payments are available, and a card with an error is not sent.                         *)
ChoosePlan(t) ==
  /\ Submits(t, "plan") /\ Allowed
  /\ \/ SubscribeFree(t)
     \/ /\ Payments
        /\ \E plan \in Tried, card \in Card :
             CardError(card) = "none" /\ SubscribePaid(t, plan, Token(card))
  /\ UNCHANGED <<tab, accountState>>

(* The answer came: the app opens, or the form is shown again with its message. *)
PlanChosen(t) ==
  /\ Acknowledge(t)
  /\ IF At(t, "ready") THEN Open(t, "dashboard") ELSE UNCHANGED tab
  /\ UNCHANGED accountState

(* Settings edit the same sections once the app is open. *)
EditShop(t) ==
  /\ Submits(t, "dashboard") /\ Allowed
  /\ \/ UpdateIdentity
     \/ \E w \in Windows : UpdateAgent(w)
     \/ \E v \in Declared : UpdateDetails(v)
  /\ UNCHANGED <<work, tab, accountState>>

(* Logging in goes to the app, signing up to the inbox. *)
LogsIn(t) ==
  /\ Shows(t, "login")
  /\ cookie' = TRUE /\ accepted' = TRUE
  /\ \E page \in {"dashboard", "verify-email"} : Open(t, page)
  /\ UNCHANGED <<boutiqueVars, verified, admin>>

(* The logout button. *)
LogsOut(t) ==
  /\ tab[t].shown /\ tab[t].page \in {"dashboard", "verify-email"} /\ At(t, "idle")
  /\ cookie' = FALSE /\ accepted' = FALSE
  /\ Open(t, "login")
  /\ UNCHANGED <<boutiqueVars, verified, admin>>

(* Elsewhere: the link of the mail is opened, a password reset ends the session, *)
(* the backend starts with this account as ADMIN_EMAIL.                          *)
Confirmed == verified' = TRUE /\ UNCHANGED <<boutiqueVars, cookie, accepted, admin, tab>>
SessionEnds == accepted' = FALSE /\ UNCHANGED <<boutiqueVars, cookie, verified, admin, tab>>
MadeAdmin == admin' = TRUE /\ UNCHANGED <<boutiqueVars, cookie, accepted, verified, tab>>

(* The shop's sections are saved, and its onboarding finished, on another device. *)
OtherDevice ==
  /\ \/ UpdateIdentity \/ \E w \in Windows : UpdateAgent(w)
     \/ MayComplete /\ shop' = [shop EXCEPT !.completed = TRUE] /\ UNCHANGED <<payments, charged>>
  /\ UNCHANGED <<work, accountState, tab>>

PagesStep(t) ==
  \/ \E page \in Page : Visit(t, page)
  \/ Follow(t) \/ SaveIdentity(t) \/ SaveAgent(t) \/ FinishDetails(t) \/ SubmitRefused(t)
  \/ ChoosePlan(t) \/ PlanChosen(t) \/ EditShop(t)
  \/ LogsIn(t) \/ LogsOut(t)
  \/ (BillingStep(t) \/ OnboardingStep(t) \/ RequestFails(t)) /\ UNCHANGED <<tab, accountState>>

Elsewhere == Confirmed \/ SessionEnds \/ MadeAdmin \/ OtherDevice

(* The pages in every tab, beside requests to the API that come from no page. *)
PagesNext ==
  \/ \E t \in Tabs : PagesStep(t)
  \/ Elsewhere
  \/ BoutiquesNext /\ UNCHANGED <<accountState, tab>>

PagesSpec == PagesInit /\ [][PagesNext]_pagesVars

-----------------------------------------------------------------------------
(***************************************************************************)
(* Wherever the browser goes, and whatever the cookie, the account and the   *)
(* shop are by then, no page is more than four redirects from one that       *)
(* shows itself: the layouts' checks never send a tab in circles.            *)
(***************************************************************************)
NoRedirectLoop ==
  \A page \in Page :
    LET landing == Target(Target(Target(Target(page)))) IN Target(landing) = landing

(***************************************************************************)
(* A page in front of the merchant is one that its shop is ready for: the    *)
(* app only after the onboarding, a screen only after the required ones      *)
(* before it - in every tab, though another tab or device moved on.          *)
(***************************************************************************)
ShownPageFits ==
  \A t \in Tabs : tab[t].shown =>
    /\ tab[t].page = "dashboard" => shop.completed
    /\ tab[t].page \in {"agent", "details", "plan"} => shop.identity
    /\ tab[t].page \in {"details", "plan"} => shop.window # NoWindow

(***************************************************************************)
(* The onboarding is never a dead end: a signed-in, confirmed merchant who   *)
(* has not finished it can open the screen that is missing, and the plan     *)
(* once nothing else is.                                                     *)
(***************************************************************************)
NothingBlocksOnboarding ==
  cookie /\ accepted /\ verified /\ ~shop.completed =>
    /\ Target(StepPage[NextStep]) = StepPage[NextStep]
    /\ NextStep = 3 => Target("plan") = "plan"

(***************************************************************************)
(* The pages lead a merchant to the right place: no redirects without end,   *)
(* no dead end before the onboarding is done, and no page that its shop is   *)
(* not ready for.                                                            *)
(***************************************************************************)
RedirectsLead == NoRedirectLoop /\ NothingBlocksOnboarding /\ ShownPageFits
=============================================================================
