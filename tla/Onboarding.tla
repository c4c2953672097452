----------------------------- MODULE Onboarding -----------------------------
(***************************************************************************)
(* From the login form to the console: the routes of App.tsx with their    *)
(* gates, the pages Login, ChangePassword and Setup2FA, and the account    *)
(* they change, for one user in several browsers.  A gate decides on the   *)
(* user as the browser last loaded it, the server on the row as it is.     *)
(*                                                                         *)
(* Access tokens do not expire here and sessions live on until a logout:   *)
(* ApiSession models that.  A request is one step, except a confirmation,  *)
(* which reads the row, verifies the code, and writes after another await. *)
(***************************************************************************)
EXTENDS Integers, FiniteSets

CONSTANTS
  Browsers,
  NoUser,      \* the store's user is null
  MaxMoves     \* bound: addresses typed, steps back, wrong entries, logouts, lost requests

ASSUME OnboardingBound == MaxMoves \in Nat

VARIABLES
  account,    \* the users row
  tab,        \* each browser: route, state of its page, store and query cache
  verifying,  \* confirmations between their verification and their write
  phone,      \* the secret in the user's authenticator, 0 for none
  proved,     \* secrets for which a right code has been verified
  overlap,    \* a set-up has run between a verification and its write
  moves       \* counter of the bound

person == <<phone, proved, overlap>>
vars == <<account, tab, verifying, person, moves>>

Pages == {"login", "change-password", "setup-2fa", "console"}
Steps == {"credentials", "second", "form", "loading", "failed", "scan", "verify",
          "confirming", "codes", "shown"}
Users == {NoUser} \cup [must : BOOLEAN, confirmed : BOOLEAN]
Snapshot == [must |-> account.must, confirmed |-> account.confirmed]

TypeOK ==
  /\ account \in [must : BOOLEAN, confirmed : BOOLEAN, secret : Nat, codes : Nat]
  /\ \A b \in Browsers :
       /\ tab[b].page \in Pages /\ tab[b].step \in Steps
       /\ tab[b].user \in Users
       /\ tab[b].after \in Pages \cup {"none", "by user"}
       /\ tab[b].secret \in 0 .. account.secret
  /\ verifying \subseteq Browsers
  /\ proved \subseteq 1 .. account.secret /\ phone \in 0 .. account.secret
  /\ account.confirmed => account.secret > 0 /\ account.codes > 0

\* What a page shows when it is opened.
FirstStep(page, secret) ==
  CASE page = "login" -> "credentials"
    [] page = "change-password" -> "form"
    [] page = "setup-2fa" -> IF secret = 0 THEN "loading" ELSE "scan"
    [] page = "console" -> "shown"

Open(t, page) == [t EXCEPT !.page = page, !.step = FirstStep(page, t.secret),
                           !.after = "none", !.token = FALSE]

NewTab == [page |-> "login", step |-> "credentials", session |-> FALSE, user |-> NoUser,
           after |-> "none", token |-> FALSE, secret |-> 0]

\* The account as create_user leaves it, and nobody logged in.
Init ==
  /\ account = [must |-> TRUE, confirmed |-> FALSE, secret |-> 0, codes |-> 0]
  /\ tab = [b \in Browsers |-> NewTab]
  /\ verifying = {} /\ phone = 0 /\ proved = {} /\ overlap = FALSE
  /\ moves = 0

-----------------------------------------------------------------------------
(* The gates of App.tsx: where a route leads, itself if it is shown.       *)

Complete(user) == user # NoUser /\ user.confirmed /\ ~user.must

GuestOnly(t) == IF Complete(t.user) THEN "console" ELSE "login"

ChangePasswordGate(t) == IF t.session THEN "change-password" ELSE "login"

Setup2FAGate(t) ==
  IF ~t.session THEN "login" ELSE IF Complete(t.user) THEN "console" ELSE "setup-2fa"

\* Mutant: only the second factor is asked for.
RequireAuth_IgnoresPassword(t) ==
  IF ~t.session THEN "login"
  ELSE IF t.user # NoUser /\ ~t.user.confirmed THEN "setup-2fa"
  ELSE "console"

\* A user who could not be loaded passes.
RequireAuth(t) ==
  IF ~t.session THEN "login"
  ELSE IF t.user # NoUser /\ t.user.must THEN "change-password"
  ELSE IF t.user # NoUser /\ ~t.user.confirmed THEN "setup-2fa"
  ELSE "console"

Gate(t) == CASE t.page = "login" -> GuestOnly(t)
             [] t.page = "change-password" -> ChangePasswordGate(t)
             [] t.page = "setup-2fa" -> Setup2FAGate(t)
             [] t.page = "console" -> RequireAuth(t)

Redirected(b) == Gate(tab[b]) # tab[b].page
\* The page is on the screen and waits for its user.
Shows(b, page, step) == /\ tab[b].page = page /\ tab[b].step = step
                        /\ tab[b].after = "none" /\ ~Redirected(b)

Redirect(b) ==
  /\ Redirected(b)
  /\ tab' = [tab EXCEPT ![b] = [Open(@, Gate(@)) EXCEPT !.after = tab[b].after]]
  /\ UNCHANGED <<account, verifying, person, moves>>

Move == moves < MaxMoves /\ moves' = moves + 1
Answered == UNCHANGED moves

-----------------------------------------------------------------------------
(* The browser.                                                            *)

\* An address is typed or the page reloaded: bootstrap() exchanges the refresh token and
\* loads the user before anything is rendered, or drops the session if that fails.
Visit(b, page) ==
  /\ Move
  /\ \E session \in {FALSE, tab[b].session} :
       tab' = [tab EXCEPT ![b] =
                 Open([NewTab EXCEPT !.session = session,
                                     !.user = IF session THEN Snapshot ELSE NoUser], page)]
  /\ UNCHANGED <<account, verifying, person>>

\* The back button: store and query cache stay, the cached secret for five minutes.
Back(b, page) ==
  /\ Move /\ tab[b].after = "none" /\ page # tab[b].page
  /\ \E secret \in {0, tab[b].secret} :
       tab' = [tab EXCEPT ![b] = Open([@ EXCEPT !.secret = secret], page)]
  /\ UNCHANGED <<account, verifying, person>>

\* Mutant: the user stays in the store.
LogoutTab_KeepsUser(t) == [t EXCEPT !.session = FALSE]

\* clearTokens and the store's user; the query cache is kept.
LogoutTab(t) == [t EXCEPT !.session = FALSE, !.user = NoUser]

Logout(b) ==
  /\ Move /\ Shows(b, "console", "shown")
  /\ tab' = [tab EXCEPT ![b] = LogoutTab(@)]
  /\ UNCHANGED <<account, verifying, person>>

\* loadUser() at the end of a handler, then its navigate().
LoadUser(b) ==
  /\ tab[b].after # "none"
  /\ \E user \in {Snapshot, NoUser} :
       /\ IF user = NoUser THEN Move ELSE Answered
       /\ LET page == IF tab[b].after # "by user" THEN tab[b].after
                      ELSE IF user # NoUser /\ user.confirmed THEN "console" ELSE "setup-2fa"
          IN  tab' = [tab EXCEPT ![b] = Open([@ EXCEPT !.user = user], page)]
  /\ UNCHANGED <<account, verifying, person>>

-----------------------------------------------------------------------------
(* Login.tsx with POST /auth/login, /login/2fa and /login/backup-code.     *)

\* After the password: a session at once, or a partial token and the second step.
SubmitPassword(b) ==
  /\ Shows(b, "login", "credentials")
  /\ tab' = [tab EXCEPT ![b] =
       IF account.confirmed
       THEN [@ EXCEPT !.step = "second", !.token = TRUE]
       ELSE [@ EXCEPT !.session = TRUE,
                      !.after = IF account.must THEN "change-password" ELSE "setup-2fa"]]
  /\ Answered /\ UNCHANGED <<account, verifying, person>>

\* The partial token is taken whatever the code is.  A backup code's answer says nothing of
\* the password, so its login goes to the console and is redirected from there.
SubmitCode(b, backup) ==
  /\ Shows(b, "login", "second") /\ tab[b].token
  /\ IF backup THEN account.codes > 0 ELSE account.confirmed => phone = account.secret
  /\ tab' = [tab EXCEPT ![b].token = FALSE, ![b].session = TRUE,
               ![b].after = IF account.must /\ ~backup THEN "change-password" ELSE "console"]
  /\ Answered /\ UNCHANGED <<account, verifying, person>>

\* A wrong code: the form stays, with a token that is good for nothing.
SubmitWrongCode(b) ==
  /\ Move /\ Shows(b, "login", "second") /\ tab[b].token
  /\ tab' = [tab EXCEPT ![b].token = FALSE]
  /\ UNCHANGED <<account, verifying, person>>

\* goBack to the password.
GoBack(b) ==
  /\ Shows(b, "login", "second")
  /\ IF tab[b].token THEN Move ELSE Answered
  /\ tab' = [tab EXCEPT ![b].step = "credentials"]
  /\ UNCHANGED <<account, verifying, person>>

-----------------------------------------------------------------------------
(* ChangePassword.tsx with POST /auth/change-password.                     *)

\* Mutant: the new password is stored and nothing else.
ChangePassword_StillMust(b) ==
  /\ Shows(b, "change-password", "form")
  /\ tab' = [tab EXCEPT ![b].after = "by user"]
  /\ Answered /\ UNCHANGED <<account, verifying, person>>

ChangePassword(b) ==
  /\ Shows(b, "change-password", "form")
  /\ account' = [account EXCEPT !.must = FALSE]
  /\ tab' = [tab EXCEPT ![b].after = "by user"]
  /\ Answered /\ UNCHANGED <<verifying, person>>

-----------------------------------------------------------------------------
(* Setup2FA.tsx with GET /auth/2fa/setup and POST /auth/2fa/confirm.       *)

\* Mutant: the new secret inherits the confirmation of the old one.
NewSecret_StaysConfirmed == [account EXCEPT !.secret = @ + 1]

\* set_totp_secret
NewSecret == [account EXCEPT !.secret = @ + 1, !.confirmed = FALSE]

\* The query of the page, sent when it is opened without a cached answer.
SetUp(b) ==
  /\ Shows(b, "setup-2fa", "loading")
  /\ \/ /\ account' = NewSecret
        /\ overlap' = (overlap \/ verifying # {})
        /\ tab' = [tab EXCEPT ![b].step = "scan", ![b].secret = account.secret + 1]
        /\ Answered
     \/ /\ Move
        /\ tab' = [tab EXCEPT ![b].step = "failed"]
        /\ UNCHANGED <<account, overlap>>
  /\ UNCHANGED <<verifying, phone, proved>>

\* "I've added the account"
Scan(b) ==
  /\ Shows(b, "setup-2fa", "scan")
  /\ phone' = tab[b].secret
  /\ tab' = [tab EXCEPT ![b].step = "verify"]
  /\ Answered /\ UNCHANGED <<account, verifying, proved, overlap>>

BackToQr(b) ==
  /\ Move /\ Shows(b, "setup-2fa", "verify")
  /\ tab' = [tab EXCEPT ![b].step = "scan"]
  /\ UNCHANGED <<account, verifying, person>>

\* confirm_2fa up to its write: the code of the user's phone fits the stored secret.  (A code
\* that does not leaves everything as it is.)
Verify(b) ==
  /\ Shows(b, "setup-2fa", "verify") /\ b \notin verifying
  /\ account.secret > 0 /\ phone = account.secret
  /\ proved' = proved \cup {account.secret}
  /\ verifying' = verifying \cup {b}
  /\ tab' = [tab EXCEPT ![b].step = "confirming"]
  /\ Answered /\ UNCHANGED <<account, phone, overlap>>

\* Mutant: the backup codes are made when somebody asks for them.
Confirm_NoCodes(b) ==
  /\ b \in verifying
  /\ verifying' = verifying \ {b}
  /\ account' = [account EXCEPT !.confirmed = TRUE]
  /\ tab' = IF tab[b].step = "confirming" THEN [tab EXCEPT ![b].step = "codes"] ELSE tab
  /\ Answered /\ UNCHANGED person

\* confirm_totp, also when the page has been left meanwhile.
Confirm(b) ==
  /\ b \in verifying
  /\ verifying' = verifying \ {b}
  /\ account' = [account EXCEPT !.confirmed = TRUE, !.codes = @ + 1]
  /\ tab' = IF tab[b].step = "confirming" THEN [tab EXCEPT ![b].step = "codes"] ELSE tab
  /\ Answered /\ UNCHANGED person

\* "I've saved my backup codes"
Done(b) ==
  /\ Shows(b, "setup-2fa", "codes")
  /\ tab' = [tab EXCEPT ![b].after = "console"]
  /\ Answered /\ UNCHANGED <<account, verifying, person>>

-----------------------------------------------------------------------------
Forward(b) ==
  \/ Redirect(b) \/ LoadUser(b) \/ SubmitPassword(b) \/ SubmitCode(b, FALSE)
  \/ SubmitCode(b, TRUE) \/ (~tab[b].token /\ GoBack(b))
  \/ ChangePassword(b) \/ SetUp(b) \/ Scan(b) \/ Verify(b) \/ Confirm(b) \/ Done(b)

Aside(b) ==
  \/ \E page \in Pages : Visit(b, page) \/ Back(b, page)
  \/ Logout(b) \/ SubmitWrongCode(b) \/ (tab[b].token /\ GoBack(b)) \/ BackToQr(b)

Next == \E b \in Browsers : Forward(b) \/ Aside(b)

Spec == Init /\ [][Next]_vars

\* Rendering and requests go on, and the user goes on filling in the form on the screen.
Fairness == \A b \in Browsers : WF_vars(Forward(b))
FairSpec == Spec /\ Fairness

-----------------------------------------------------------------------------

\* A chain of redirects ends at a page: the gates of App.tsx never send a browser round.
Settles == \A b \in Browsers : Redirected(b) ~> ~Redirected(b)

\* A browser that knows its user, however stale what it knows, does not show the console
\* while the account has its initial password.  One that could not load the user does:
\* RequireAuth lets the unknown one through.
ConsoleAfterPassword ==
  \A b \in Browsers :
    Shows(b, "console", "shown") /\ tab[b].user # NoUser => ~account.must

\* Two-factor login is on only with a secret whose code has been verified, unless a set-up
\* ran in the middle of a confirmation.
ConfirmedSecretProved == account.confirmed /\ ~overlap => account.secret \in proved

\* This page cannot be completed: it shows a secret that has been replaced, or nothing.
Overtaken(b) ==
  \/ tab[b].step = "failed"
  \/ tab[b].page = "setup-2fa" /\ tab[b].secret # account.secret
  \/ phone # account.secret

\* No dead end: who goes on reaches the console, whatever was typed, mistyped or left
\* before, unless another browser's set-up or a lost request has overtaken the page.
NoDeadEnd ==
  \A b \in Browsers : []<>(Shows(b, "console", "shown") \/ Overtaken(b))
=============================================================================
