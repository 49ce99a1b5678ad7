------------------------------ MODULE Accounts ------------------------------
(***************************************************************************)
(* The merchants' accounts: AuthService (src/backend/src/auth) with the    *)
(* guard that reads a session, the links it mails, and the profile picture *)
(* it keeps in the object store.  Every method awaits the database, bcrypt *)
(* or the mail between its steps, so two requests of one account overlap:  *)
(* a request is a record that remembers what its method read.              *)
(***************************************************************************)
EXTENDS Integers, FiniteSets

CONSTANTS
    Emails,       \* addresses
    Passwords,    \* passwords the merchants choose
    Requests,     \* requests under way at the same time
    AdminEmail,   \* ADMIN_EMAIL, or None
    AdminPassword, \* ADMIN_PASSWORD, or None
    None,         \* null
    MaxFresh,     \* bound: random tokens and object keys drawn
    LastTick      \* bound: the clock, in half seconds

ASSUME AccountsAssumption ==
    /\ MaxFresh \in Nat
    /\ LastTick \in Nat
    /\ None \notin Emails \cup Nat \cup Passwords
    /\ AdminEmail \in Emails \cup {None} /\ AdminPassword \in Passwords \cup {None}

VARIABLES
    accounts,   \* the users table: a row, or NoAccount, per address
    shops,      \* the boutiques table: the ids of its rows
    mails,      \* the links that reached a mailbox
    sessions,   \* the session tokens handed out
    pictures,   \* the keys in the object store
    used,       \* how often each reset link set a password (history)
    fresh,      \* the next random value
    now,        \* the clock, in half seconds
    req         \* the requests under way

accountVars == <<accounts, shops, mails, sessions, pictures, used, fresh, now, req>>

Second(t) == t \div 2
Keys == 0 .. MaxFresh
Ticks == 0 .. LastTick

NoAccount == [shop |-> None]
AccountRow ==
    [pwd : Passwords, shop : Keys, admin : BOOLEAN, verified : BOOLEAN,
     verifyLink : Keys \cup {None}, verifyOld : BOOLEAN, verifyCooling : BOOLEAN,
     resetLink : Keys \cup {None}, resetOld : BOOLEAN, resetCooling : BOOLEAN,
     changedAt : Ticks, avatar : Keys \cup {None}]

Stages == {"welcome", "signIn", "verify", "resend", "forgot", "mailVerify", "mailReset",
           "hash", "reset", "change", "put", "store", "unset", "drop"}
Idle == [at |-> "idle"]
\* who: the account; read: the link or the picture the method found in its row and uses
\* later; arg: the password, token or key it is to store; time: the moment it took.
ServedRequest == [at : Stages, who : Emails, read : Keys \cup {None},
            arg : Keys \cup Passwords \cup {None}, time : Ticks]

Exists(e) == accounts[e] # NoAccount
\* Mutated form: an address can be registered twice.
FreeAnyway(e) == TRUE

\* An address in use is a conflict: the lookup, and the unique key of the column.
Free(e) == ~Exists(e)
\* The row a registration creates: closed until the mailed link is opened.
NewAccount(p, shop, link) ==
    [pwd |-> p, shop |-> shop, admin |-> FALSE, verified |-> FALSE,
     verifyLink |-> link, verifyOld |-> FALSE, verifyCooling |-> TRUE,
     resetLink |-> None, resetOld |-> FALSE, resetCooling |-> FALSE,
     changedAt |-> 0, avatar |-> None]

\* AuthGuard: a session of an earlier second than the last reset is refused.
Accepted(s) == Exists(s.who) /\ 2 * s.iat >= accounts[s.who].changedAt
\* The same on a route without @AllowUnverified.
Admitted(s) == Accepted(s) /\ accounts[s.who].verified

Serve(r, stage, e, read, arg) ==
    req' = [req EXCEPT ![r] = [at |-> stage, who |-> e, read |-> read,
                               arg |-> arg, time |-> 0]]
Proceed(r, stage) == req' = [req EXCEPT ![r].at = stage]
Answer(r) == req' = [req EXCEPT ![r] = Idle]
InStage(r, stage) == req[r].at = stage
WriteAccount(e, row) == accounts' = [accounts EXCEPT ![e] = row]
AccountOf(r) == accounts[req[r].who]
Draw == fresh < MaxFresh /\ fresh' = fresh + 1

---------------------------------------------------------------------------
(* Registration, login, logout *)

\* The transaction creates the shop and its user.
Register(r, e, p) ==
    /\ InStage(r, "idle") /\ Free(e) /\ Draw
    /\ shops' = shops \cup {fresh}
    /\ WriteAccount(e, NewAccount(p, fresh, fresh))
    /\ Serve(r, "welcome", e, None, fresh)
    /\ UNCHANGED <<mails, sessions, pictures, used, now>>

Delivered(r, kind) ==
    mails \cup {[to |-> req[r].who, kind |-> kind, token |-> req[r].arg]}

\* The mail may fail, the account stays; then the session is issued.
Welcome(r) ==
    /\ InStage(r, "welcome")
    /\ mails' \in {mails, Delivered(r, "verify")}
    /\ Serve(r, "signIn", req[r].who, None, None)
    /\ UNCHANGED <<accounts, shops, sessions, pictures, used, fresh, now>>

\* login reads the row and compares the hash; a wrong password is a 401.
Login(r, e, p) ==
    /\ InStage(r, "idle") /\ Exists(e) /\ accounts[e].pwd = p
    /\ Serve(r, "signIn", e, None, None)
    /\ UNCHANGED <<accounts, shops, mails, sessions, pictures, used, fresh, now>>

\* issueToken: "iat" counts whole seconds.
SignIn(r) ==
    /\ InStage(r, "signIn")
    /\ sessions' = sessions \cup {[who |-> req[r].who, iat |-> Second(now)]}
    /\ Answer(r)
    /\ UNCHANGED <<accounts, shops, mails, pictures, used, fresh, now>>

Logout(s) ==
    /\ s \in sessions /\ sessions' = sessions \ {s}
    /\ UNCHANGED <<accounts, shops, mails, pictures, used, fresh, now, req>>

---------------------------------------------------------------------------
(* Confirming the address *)

OpenVerifyLink(r, m) ==
    /\ InStage(r, "idle") /\ m.kind = "verify"
    /\ \E e \in Emails :
        /\ Exists(e) /\ accounts[e].verifyLink = m.token /\ ~accounts[e].verifyOld
        /\ Serve(r, "verify", e, None, None)
    /\ UNCHANGED <<accounts, shops, mails, sessions, pictures, used, fresh, now>>

Verified(row) == [row EXCEPT !.verified = TRUE, !.verifyLink = None, !.verifyOld = FALSE]

Verify(r) ==
    /\ InStage(r, "verify") /\ WriteAccount(req[r].who, Verified(AccountOf(r))) /\ Answer(r)
    /\ UNCHANGED <<shops, mails, sessions, pictures, used, fresh, now>>

ReadForResend(r, s) ==
    /\ InStage(r, "idle") /\ s \in sessions /\ Accepted(s)
    /\ ~accounts[s.who].verified /\ ~accounts[s.who].verifyCooling
    /\ Serve(r, "resend", s.who, None, None)
    /\ UNCHANGED <<accounts, shops, mails, sessions, pictures, used, fresh, now>>

\* The new link is stored before it is mailed, and the previous one stops working.
Resend(r) ==
    /\ InStage(r, "resend") /\ Draw
    /\ WriteAccount(req[r].who, [AccountOf(r) EXCEPT !.verifyLink = fresh, !.verifyOld = FALSE,
                                        !.verifyCooling = TRUE])
    /\ req' = [req EXCEPT ![r].at = "mailVerify", ![r].arg = fresh]
    /\ UNCHANGED <<shops, mails, sessions, pictures, used, now>>

---------------------------------------------------------------------------
(* Forgotten and changed passwords *)

ReadForReset(r, e) ==
    /\ InStage(r, "idle") /\ Exists(e) /\ ~accounts[e].resetCooling
    /\ Serve(r, "forgot", e, None, None)
    /\ UNCHANGED <<accounts, shops, mails, sessions, pictures, used, fresh, now>>

RequestReset(r) ==
    /\ InStage(r, "forgot") /\ Draw
    /\ WriteAccount(req[r].who, [AccountOf(r) EXCEPT !.resetLink = fresh, !.resetOld = FALSE,
                                        !.resetCooling = TRUE])
    /\ req' = [req EXCEPT ![r].at = "mailReset", ![r].arg = fresh]
    /\ UNCHANGED <<shops, mails, sessions, pictures, used, now>>

\* A mail that fails is a 503; the link stays stored, the cooldown runs.
SendMail(r) ==
    /\ \/ InStage(r, "mailVerify") /\ mails' \in {mails, Delivered(r, "verify")}
       \/ InStage(r, "mailReset") /\ mails' \in {mails, Delivered(r, "reset")}
    /\ Answer(r)
    /\ UNCHANGED <<accounts, shops, sessions, pictures, used, fresh, now>>

OpenResetLink(r, m, p) ==
    /\ InStage(r, "idle") /\ m.kind = "reset"
    /\ \E e \in Emails :
        /\ Exists(e) /\ accounts[e].resetLink = m.token /\ ~accounts[e].resetOld
        /\ Serve(r, "hash", e, m.token, p)
    /\ UNCHANGED <<accounts, shops, mails, sessions, pictures, used, fresh, now>>

\* Mutated form: the exact time.
ChangedAtExactly(t) == t

\* Whole seconds, so that the session issued at the end stays valid.
ChangedAt(t) == 2 * Second(t)

\* bcrypt is done: the time of the change is taken, and the update is on its way.
HashReset(r) ==
    /\ InStage(r, "hash")
    /\ req' = [req EXCEPT ![r].at = "reset", ![r].time = ChangedAt(now)]
    /\ UNCHANGED <<accounts, shops, mails, sessions, pictures, used, fresh, now>>

\* Mutated form: the row that was found before the hash is taken.
StillLinkedThen(r) == TRUE

\* updateMany matches the link's hash again.
StillLinked(r) == AccountOf(r).resetLink = req[r].read

Reset(r) ==
    /\ InStage(r, "reset") /\ StillLinked(r)
    /\ WriteAccount(req[r].who,
             [AccountOf(r) EXCEPT !.pwd = req[r].arg, !.changedAt = req[r].time,
                            !.resetLink = None, !.resetOld = FALSE,
                            !.verified = TRUE, !.verifyLink = None, !.verifyOld = FALSE])
    /\ used' = [used EXCEPT ![req[r].read] = @ + 1]
    /\ Serve(r, "signIn", req[r].who, None, None)
    /\ UNCHANGED <<shops, mails, sessions, pictures, fresh, now>>

\* count = 0: the link was used or replaced meanwhile.
ResetRefused(r) ==
    /\ InStage(r, "reset") /\ ~StillLinked(r) /\ Answer(r)
    /\ UNCHANGED <<accounts, shops, mails, sessions, pictures, used, fresh, now>>

\* The current password is checked against the row that was read.
ReadForChange(r, s, p, q) ==
    /\ InStage(r, "idle") /\ s \in sessions /\ Admitted(s) /\ accounts[s.who].pwd = p
    /\ Serve(r, "change", s.who, None, q)
    /\ UNCHANGED <<accounts, shops, mails, sessions, pictures, used, fresh, now>>

ChangePassword(r) ==
    /\ InStage(r, "change") /\ WriteAccount(req[r].who, [AccountOf(r) EXCEPT !.pwd = req[r].arg]) /\ Answer(r)
    /\ UNCHANGED <<shops, mails, sessions, pictures, used, fresh, now>>

---------------------------------------------------------------------------
(* The profile picture *)

\* Mutated form: one name for the picture of an account.
PictureKeyFixed(e) == 0

\* avatars/<user>/<random>: a picture never takes the place of another.
PictureKey(e) == fresh

ReadForUpload(r, s) ==
    /\ InStage(r, "idle") /\ s \in sessions /\ Accepted(s) /\ Draw
    /\ Serve(r, "put", s.who, accounts[s.who].avatar, PictureKey(s.who))
    /\ UNCHANGED <<accounts, shops, mails, sessions, pictures, used, now>>

PutPicture(r) ==
    /\ InStage(r, "put") /\ pictures' = pictures \cup {req[r].arg} /\ Proceed(r, "store")
    /\ UNCHANGED <<accounts, shops, mails, sessions, used, fresh, now>>

StorePicture(r) ==
    /\ InStage(r, "store") /\ WriteAccount(req[r].who, [AccountOf(r) EXCEPT !.avatar = req[r].arg])
    /\ Proceed(r, "drop")
    /\ UNCHANGED <<shops, mails, sessions, pictures, used, fresh, now>>

ReadForRemoval(r, s) ==
    /\ InStage(r, "idle") /\ s \in sessions /\ Admitted(s) /\ accounts[s.who].avatar # None
    /\ Serve(r, "unset", s.who, accounts[s.who].avatar, None)
    /\ UNCHANGED <<accounts, shops, mails, sessions, pictures, used, fresh, now>>

UnsetPicture(r) ==
    /\ InStage(r, "unset") /\ WriteAccount(req[r].who, [AccountOf(r) EXCEPT !.avatar = None])
    /\ Proceed(r, "drop")
    /\ UNCHANGED <<shops, mails, sessions, pictures, used, fresh, now>>

\* The old file is the one the method read; deleting it is best effort.
DropPicture(r) ==
    /\ InStage(r, "drop")
    /\ pictures' \in {pictures, pictures \ {req[r].read}}
    /\ Answer(r)
    /\ UNCHANGED <<accounts, shops, mails, sessions, used, fresh, now>>

---------------------------------------------------------------------------
(* The backend's restart, the clock *)

\* AdminBootstrapService: the configured address gets the back office, or an account.
EnsureAdmin ==
    \/ /\ AdminEmail # None /\ Exists(AdminEmail)
       /\ WriteAccount(AdminEmail, [accounts[AdminEmail] EXCEPT !.admin = TRUE])
       /\ UNCHANGED <<shops, fresh>>
    \/ /\ AdminEmail # None /\ ~Exists(AdminEmail) /\ AdminPassword # None
       /\ Draw /\ shops' = shops \cup {fresh}
       /\ WriteAccount(AdminEmail, [NewAccount(AdminPassword, fresh, None) EXCEPT
                               !.admin = TRUE, !.verified = TRUE, !.verifyCooling = FALSE])
    \/ /\ AdminEmail \in Emails => ~Exists(AdminEmail) /\ AdminPassword = None
       /\ UNCHANGED <<accounts, shops, fresh>>

\* Requests under way die with the process; what they wrote stays.
RestartApi ==
    /\ req' = [r \in Requests |-> Idle]
    /\ EnsureAdmin
    /\ UNCHANGED <<mails, sessions, pictures, used, now>>

Tick == now < LastTick /\ now' = now + 1
        /\ UNCHANGED <<accounts, shops, mails, sessions, pictures, used, fresh, req>>

\* A minute after a mail another may be asked for; hours after it the link is dead.
CooldownEnds(e) ==
    /\ Exists(e)
    /\ \/ accounts[e].verifyCooling /\ WriteAccount(e, [accounts[e] EXCEPT !.verifyCooling = FALSE])
       \/ accounts[e].resetCooling /\ WriteAccount(e, [accounts[e] EXCEPT !.resetCooling = FALSE])
    /\ UNCHANGED <<shops, mails, sessions, pictures, used, fresh, now, req>>

LinkExpires(e) ==
    /\ Exists(e)
    /\ \/ /\ accounts[e].verifyLink # None /\ ~accounts[e].verifyOld
          /\ ~accounts[e].verifyCooling /\ WriteAccount(e, [accounts[e] EXCEPT !.verifyOld = TRUE])
       \/ /\ accounts[e].resetLink # None /\ ~accounts[e].resetOld
          /\ ~accounts[e].resetCooling /\ WriteAccount(e, [accounts[e] EXCEPT !.resetOld = TRUE])
    /\ UNCHANGED <<shops, mails, sessions, pictures, used, fresh, now, req>>

---------------------------------------------------------------------------
(* The steps, by what the merchant is doing *)

SignUpStep(r, chosen) ==
    \/ \E e \in Emails, p \in chosen : Register(r, e, p) \/ Login(r, e, p)
    \/ Welcome(r) \/ SignIn(r)
    \/ \E m \in mails : OpenVerifyLink(r, m)
    \/ Verify(r)
    \/ \E s \in sessions : ReadForResend(r, s)
    \/ Resend(r) \/ SendMail(r)

PasswordStep(r) ==
    \/ \E e \in Emails, p \in Passwords : Login(r, e, p)
    \/ SignIn(r)
    \/ \E e \in Emails : ReadForReset(r, e)
    \/ RequestReset(r) \/ SendMail(r)
    \/ \E m \in mails, p \in Passwords : OpenResetLink(r, m, p)
    \/ HashReset(r) \/ Reset(r) \/ ResetRefused(r)
    \/ \E s \in sessions, p, q \in Passwords : ReadForChange(r, s, p, q)
    \/ ChangePassword(r)

PictureStep(r) ==
    \/ \E s \in sessions : ReadForUpload(r, s) \/ ReadForRemoval(r, s)
    \/ PutPicture(r) \/ StorePicture(r) \/ UnsetPicture(r) \/ DropPicture(r)

\* Nobody has registered yet.
AccountsInit ==
    /\ accounts = [e \in Emails |-> NoAccount]
    /\ shops = {} /\ mails = {} /\ sessions = {} /\ pictures = {}
    /\ used = [t \in Keys |-> 0] /\ fresh = 0 /\ now = 0
    /\ req = [r \in Requests |-> Idle]

\* All at once, in any order.
AccountsNext ==
    \/ \E r \in Requests : SignUpStep(r, Passwords) \/ PasswordStep(r) \/ PictureStep(r)
    \/ \E e \in Emails : CooldownEnds(e) \/ LinkExpires(e)
    \/ RestartApi \/ Tick
    \/ \E s \in sessions : Logout(s)

AccountsSpec == AccountsInit /\ [][AccountsNext]_accountVars

---------------------------------------------------------------------------
(***************************************************************************)
(* Types; and a link that was opened or used has no expiry left.            *)
(***************************************************************************)
AccountsTypeOK ==
    /\ \A e \in Emails : Exists(e) =>
         /\ accounts[e] \in AccountRow
         /\ accounts[e].verifyLink = None => ~accounts[e].verifyOld
         /\ accounts[e].resetLink = None => ~accounts[e].resetOld
    /\ shops \subseteq Keys /\ pictures \subseteq Keys
    /\ used \in [Keys -> Nat] /\ fresh \in Keys /\ now \in Ticks
    /\ \A r \in Requests : req[r] # Idle => req[r] \in ServedRequest

(***************************************************************************)
(* Every shop has exactly one account, although the address is looked up    *)
(* before the shop and its user are created, and the restart of the backend *)
(* creates an account of its own.                                           *)
(***************************************************************************)
EveryShopOwned ==
    \A b \in shops : Cardinality({e \in Emails : Exists(e) /\ accounts[e].shop = b}) = 1

(***************************************************************************)
(* A reset link sets a password once, though two requests may both have     *)
(* found it before either had hashed its password.                          *)
(***************************************************************************)
ResetLinkOnce == \A t \in Keys : used[t] <= 1

(***************************************************************************)
(* A session that is handed out is accepted: the reset that issues it, or   *)
(* one that finished a moment before, does not refuse it.                   *)
(***************************************************************************)
NewSessionWorks == [][\A s \in sessions' \ sessions : Accepted(s)']_accountVars

(***************************************************************************)
(* A session that a reset ended is never accepted again: no slower reset    *)
(* that began earlier sets the time of the change back.                     *)
(***************************************************************************)
RefusedStaysRefused ==
    [][\A s \in sessions : ~Accepted(s) => ~Accepted(s)']_accountVars

(***************************************************************************)
(* The picture of an account is in the object store: an upload beside       *)
(* another one, or beside a removal, never deletes the file that its row    *)
(* names in the end.                                                        *)
(***************************************************************************)
AvatarStored ==
    \A e \in Emails : Exists(e) => accounts[e].avatar \in pictures \cup {None}
=============================================================================
