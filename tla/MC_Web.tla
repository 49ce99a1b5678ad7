------------------------------- MODULE MC_Web -------------------------------
(***************************************************************************)
(* The parts of Ordely around the calls share no state that one of them     *)
(* waits for, so they are explored one at a time: "part" is chosen at the   *)
(* start, and only the variables of that part move.                         *)
(***************************************************************************)
EXTENDS Accounts, CallArtifacts, Pages, ShopFigures, RemoteAgent, Console, OrderImport,
        GeminiSession, Forms

(* Somebody can be registered from the start, a tab is open, and a test order can be made. *)
ASSUME WebAssumption ==
  AdminEmail \in Emails /\ Passwords # {} /\ MaxFresh >= 1 /\ Tabs # {} /\ MaxMoves >= 1

VARIABLE part

(* The sheet: a comma, a quote or a formula in a cell; lists; every check that can fail. *)
MC_Row(c, p, i, q, t) == [customer |-> c, phone |-> p, item |-> i, quantity |-> q, total |-> t]
One == <<"1">>
MC_Rows ==
  {MC_Row(<<" ", "x", "\"", ",", "y">>, One, <<"a">>, One, One),
   MC_Row(<<"\"", "x">>, One, <<"a", ",", "\"">>, <<"0">>, One),
   MC_Row(<<"-", "x">>, One, <<"a", ";", " ", ";", " ", "b">>, <<"1", ";", "2", " ">>, One),
   MC_Row(<<"x">>, One, <<"a", ";", "b">>, One, <<"x">>),
   MC_Row(<<>>, <<>>, <<"a">>, One, One)}
MC_Headers ==
  {<<"customer", "phone", "item", "quantity", "total">>,
   <<"total", "item", "other", "customer", "phone", "quantity", "item">>,
   <<"customer", "phone", "item", "quantity">>}

officeVars == <<accountVars, pagesVars>>
tableVars == <<owners, placed, called>>
shopVars == <<sales, dials>>
lateVars == <<artifactVars, agentVars>>
screenVars == <<consoleVars, importVars, settingsVars, deskVars, labVars>>
webVars == <<part, officeVars, lateVars, geminiVars, clock, tableVars, shopVars, screenVars>>

Parts == {"sign-up", "passwords", "pictures", "transcript", "recordings", "shop", "pages",
          "figures", "shop figures", "agent", "session", "console", "import", "settings",
          "order forms", "voice lab"}

FirstPassword == CHOOSE p \in Passwords : TRUE
FirstTab == CHOOSE t \in Tabs : TRUE
AnySheet == CHOOSE s \in [header : Headers, quoteAll : BOOLEAN, rows : {<<>>}] : TRUE
AnyRow == CHOOSE r \in Usual("profile") : TRUE
FirstMoment == CHOOSE t \in Moments : \A u \in Moments : t <= u

(* Either nobody has registered yet, or somebody has, with shop 0, and is logged in. *)
Registered == [NewAccount(FirstPassword, 0, None) EXCEPT !.verified = TRUE, !.verifyCooling = FALSE]

SomeAccounts ==
  LET known == IF part \in {"passwords", "pictures"} THEN {AdminEmail} ELSE {}
  IN  /\ accounts = [e \in Emails |-> IF e \in known THEN Registered ELSE NoAccount]
      /\ shops = IF known = {} THEN {} ELSE {0}
      /\ sessions = IF part = "pictures" THEN {[who |-> e, iat |-> 0] : e \in known} ELSE {}
      /\ mails = {} /\ pictures = {} /\ used = [t \in Keys |-> 0]
      /\ fresh = 1 /\ now = 0
      /\ req = [r \in Requests |-> Idle]

WebInit ==
  /\ part \in Parts
  /\ SomeAccounts /\ ArtifactsInit /\ PagesInit /\ AgentInit
  /\ FiguresInit /\ ShopFiguresInit /\ (part # "figures" => clock = FirstMoment)
  /\ ConsoleInit /\ (part # "console" => table = [s \in Sales |-> NoSale])
  /\ ImportInit /\ (part # "import" => sheet = AnySheet)
  /\ GeminiInit /\ SettingsInit /\ (part # "settings" => card.kind = "profile" /\ savedRow = AnyRow)
  /\ DeskInit /\ (part # "order forms" => form.kind = "new")
  /\ LabInit /\ (part # "voice lab" => \A c \in LabCalls : calls[c].stage = "queued")

AccountsMove ==
  \/ part = "sign-up" /\ \E r \in Requests : SignUpStep(r, {FirstPassword})
  \/ part = "passwords" /\ ((\E r \in Requests : PasswordStep(r)) \/ Tick)
  \/ part = "pictures" /\ \E r \in Requests : PictureStep(r)
  \/ \E e \in Emails : CooldownEnds(e) \/ LinkExpires(e)
  \/ part # "passwords" /\ (RestartApi \/ \E s \in sessions : Logout(s))

AccountParts == part \in {"sign-up", "passwords", "pictures"} /\ AccountsMove /\ UNCHANGED pagesVars
ShopParts ==
  \/ part = "shop" /\ BoutiquesNext /\ UNCHANGED <<accountState, tab>>
  \/ part = "pages" /\ (PagesStep(FirstTab) \/ Elsewhere)
CallParts ==
  \/ (part = "transcript" /\ TranscriptStep) \/ (part = "recordings" /\ RecordingStep)
FigureParts ==
  \/ part = "figures" /\ FiguresNext /\ UNCHANGED shopVars
  \/ part = "shop figures" /\ ShopFiguresNext /\ UNCHANGED tableVars

ScreenParts ==
  \/ part = "console" /\ ConsoleNext /\ UNCHANGED <<importVars, settingsVars, deskVars, labVars>>
  \/ part = "import" /\ ImportNext /\ UNCHANGED <<consoleVars, settingsVars, deskVars, labVars>>
  \/ part = "settings" /\ SettingsNext /\ UNCHANGED <<consoleVars, importVars, deskVars, labVars>>
  \/ part = "order forms" /\ DeskNext /\ UNCHANGED <<consoleVars, importVars, settingsVars, labVars>>
  \/ part = "voice lab" /\ LabNext /\ UNCHANGED <<consoleVars, importVars, settingsVars, deskVars>>

WebNext ==
  /\ UNCHANGED part
  /\ \/ /\ AccountParts \/ (ShopParts /\ UNCHANGED accountVars)
        /\ UNCHANGED <<lateVars, geminiVars, clock, tableVars, shopVars, screenVars>>
     \/ /\ (CallParts /\ UNCHANGED agentVars) \/ (part = "agent" /\ AgentNext /\ UNCHANGED artifactVars)
        /\ UNCHANGED <<officeVars, geminiVars, clock, tableVars, shopVars, screenVars>>
     \/ /\ part = "session" /\ GeminiNext
        /\ UNCHANGED <<officeVars, lateVars, clock, tableVars, shopVars, screenVars>>
     \/ /\ FigureParts
        /\ UNCHANGED <<officeVars, lateVars, geminiVars, screenVars>>
     \/ /\ ScreenParts
        /\ UNCHANGED <<officeVars, lateVars, geminiVars, clock, tableVars, shopVars>>

WebSpec == WebInit /\ [][WebNext]_webVars

-----------------------------------------------------------------------------
(***************************************************************************)
(* Every row, request and page of the part that moves has its type; every   *)
(* account owns its own shop and no shop is left without one; a link that   *)
(* was used has no expiry.                                                  *)
(***************************************************************************)
WebTypeOK ==
  CASE part \in {"sign-up", "passwords", "pictures"} -> AccountsTypeOK /\ EveryShopOwned
    [] part \in {"transcript", "recordings"} -> ArtifactsTypeOK
    [] part \in {"shop", "pages"} -> PagesTypeOK
    [] part = "figures" -> FiguresTypeOK
    [] part = "shop figures" -> ShopFiguresTypeOK
    [] part = "agent" -> AgentTypeOK
    [] part = "session" -> GeminiTypeOK
    [] part = "console" -> ConsoleTypeOK
    [] part = "import" -> ImportTypeOK
    [] part = "settings" -> SettingsTypeOK
    [] part = "order forms" -> DeskTypeOK
    [] part = "voice lab" -> LabTypeOK
=============================================================================
