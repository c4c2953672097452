-------------------------- MODULE OnboardingProofs --------------------------
(***************************************************************************)
(* That two-factor login is switched on only with a secret whose code has  *)
(* been verified, that the console is shown only to a user whose password  *)
(* is their own, and that every variable keeps its type, for any number of *)
(* browsers and moves.                                                     *)
(***************************************************************************)
EXTENDS Onboarding, TLAPS

Accounts == [must : BOOLEAN, confirmed : BOOLEAN, secret : Nat, codes : Nat]
Tabs == [page : Pages, step : Steps, session : BOOLEAN, user : Users,
         after : Pages \cup {"none", "by user"}, token : BOOLEAN, secret : Nat]

\* A tab, as far as the two properties look at it.
Shape ==
  /\ account \in Accounts
  /\ tab \in [Browsers -> Tabs]
  /\ overlap \in BOOLEAN

\* A confirmation that is to be written has verified a code of the stored secret.
VerifiedIsProved ==
  (account.confirmed \/ verifying # {}) /\ ~overlap => account.secret \in proved

\* Only the initial password has to be changed, and nobody sets it again: a user as loaded
\* at any time may be told to change what has been changed since, never the other way round.
UsersLagBehind ==
  \A b \in Browsers : tab[b].user # NoUser => (account.must => tab[b].user.must)

OnboardingInv == Shape /\ VerifiedIsProved /\ UsersLagBehind

-----------------------------------------------------------------------------

LEMMA SnapshotIsUser == Shape => Snapshot \in Users /\ Snapshot.must = account.must
BY DEF Shape, Accounts, Snapshot, Users

\* What the three steps that write the row make of it.
LEMMA AccountWrites ==
  ASSUME NEW a \in Accounts, NEW n \in Nat
  PROVE  /\ [a EXCEPT !.must = FALSE] \in Accounts
         /\ [a EXCEPT !.secret = n, !.confirmed = FALSE] \in Accounts
         /\ [a EXCEPT !.confirmed = TRUE, !.codes = n] \in Accounts
BY DEF Accounts

LEMMA TabWrites ==
  ASSUME NEW t \in Tabs, NEW n \in Nat, NEW s \in Steps
  PROVE  LET new == [t EXCEPT !.step = s, !.secret = n]
         IN  new \in Tabs /\ new.user = t.user
BY DEF Tabs

LEMMA OpenedTab ==
  ASSUME NEW t \in Tabs, NEW page \in Pages
  PROVE  Open(t, page) \in Tabs /\ Open(t, page).user = t.user
<1>1. FirstStep(page, t.secret) \in Steps
  <2>1. CASE page = "login"
    BY <2>1 DEF FirstStep, Steps
  <2>2. CASE page = "change-password"
    BY <2>2 DEF FirstStep, Steps
  <2>3. CASE page = "setup-2fa"
    BY <2>3 DEF FirstStep, Steps
  <2>4. CASE page = "console"
    BY <2>4 DEF FirstStep, Steps
  <2>. QED  BY <2>1, <2>2, <2>3, <2>4 DEF Pages
<1>. QED  BY <1>1 DEF Open, Tabs

LEMMA GateIsPage == ASSUME NEW t \in Tabs PROVE Gate(t) \in Pages
<1>1. CASE t.page = "login"
  BY <1>1 DEF Gate, GuestOnly, Pages
<1>2. CASE t.page = "change-password"
  BY <1>2 DEF Gate, ChangePasswordGate, Pages
<1>3. CASE t.page = "setup-2fa"
  BY <1>3 DEF Gate, Setup2FAGate, Pages
<1>4. CASE t.page = "console"
  BY <1>4 DEF Gate, RequireAuth, Pages
<1>. QED  BY <1>1, <1>2, <1>3, <1>4 DEF Tabs, Pages

LEMMA NewTabIsTab == NewTab \in Tabs
BY DEF NewTab, Tabs, Users, Pages, Steps

LEMMA OnboardingInit == Init => OnboardingInv
<1>. SUFFICES ASSUME Init PROVE OnboardingInv
  OBVIOUS
<1>1. Shape
  BY NewTabIsTab DEF Init, Shape, Accounts
<1>2. VerifiedIsProved /\ UsersLagBehind
  BY DEF Init, VerifiedIsProved, UsersLagBehind, NewTab
<1>. QED  BY <1>1, <1>2 DEF OnboardingInv

\* A step that changes one tab, and gives it no user but one it had or the one that is.
LEMMA TabStep ==
  ASSUME OnboardingInv, NEW b \in Browsers, NEW t \in Tabs, tab' = [tab EXCEPT ![b] = t],
         t.user \in {tab[b].user, NoUser, Snapshot},
         UNCHANGED <<account, overlap>>, proved \subseteq proved',
         verifying' \subseteq verifying \/ account.secret \in proved'
  PROVE  OnboardingInv'
<1>1. Shape'
  BY DEF OnboardingInv, Shape
<1>2. VerifiedIsProved'
  BY DEF OnboardingInv, VerifiedIsProved
<1>3. UsersLagBehind'
  BY SnapshotIsUser DEF OnboardingInv, Shape, UsersLagBehind
<1>. QED  BY <1>1, <1>2, <1>3 DEF OnboardingInv

\* The same when the account changes, too.
LEMMA AccountStep ==
  ASSUME OnboardingInv, NEW b \in Browsers, NEW t \in Tabs, tab' = [tab EXCEPT ![b] = t],
         t.user = tab[b].user, overlap' \in BOOLEAN,
         account' \in Accounts,
         account'.must => account.must, VerifiedIsProved'
  PROVE  OnboardingInv'
<1>1. Shape'
  BY DEF OnboardingInv, Shape
<1>2. UsersLagBehind'
  BY DEF OnboardingInv, Shape, UsersLagBehind
<1>. QED  BY <1>1, <1>2 DEF OnboardingInv

\* The steps of the browser: gates, addresses, the back button, logout, loadUser.
LEMMA BrowserStep ==
  ASSUME OnboardingInv, NEW b \in Browsers,
         \/ Redirect(b) \/ LoadUser(b) \/ Logout(b)
         \/ \E page \in Pages : Visit(b, page) \/ Back(b, page)
  PROVE  OnboardingInv'
<1>0. tab[b] \in Tabs /\ tab[b].user \in Users /\ Snapshot \in Users /\ NoUser \in Users
  BY SnapshotIsUser DEF OnboardingInv, Shape, Tabs, Users
<1>1. UNCHANGED <<account, verifying, proved, overlap>>
  BY DEF Redirect, LoadUser, Logout, Visit, Back, person
<1>2. CASE Redirect(b)
  <2>. DEFINE t == [Open(tab[b], Gate(tab[b])) EXCEPT !.after = tab[b].after]
  <2>1. Open(tab[b], Gate(tab[b])) \in Tabs /\ Open(tab[b], Gate(tab[b])).user = tab[b].user
    BY <1>0, GateIsPage, OpenedTab
  <2>2. t \in Tabs /\ t.user = tab[b].user
    BY <1>0, <2>1 DEF Tabs
  <2>3. tab' = [tab EXCEPT ![b] = t]
    BY <1>2 DEF Redirect
  <2>. QED  BY <1>1, <2>2, <2>3, TabStep
<1>3. CASE LoadUser(b)
  <2>. PICK user \in {Snapshot, NoUser}, page \in Pages :
         tab' = [tab EXCEPT ![b] = Open([@ EXCEPT !.user = user], page)]
    <3>1. PICK user \in {Snapshot, NoUser} :
            LET page == IF tab[b].after # "by user" THEN tab[b].after
                        ELSE IF user # NoUser /\ user.confirmed THEN "console" ELSE "setup-2fa"
            IN  tab' = [tab EXCEPT ![b] = Open([@ EXCEPT !.user = user], page)]
      BY <1>3 DEF LoadUser
    <3>2. tab[b].after # "by user" => tab[b].after \in Pages
      BY <1>0, <1>3 DEF LoadUser, Tabs
    <3>. QED  BY <3>1, <3>2 DEF Pages
  <2>1. [tab[b] EXCEPT !.user = user] \in Tabs
    BY <1>0 DEF Tabs
  <2>2. /\ Open([tab[b] EXCEPT !.user = user], page) \in Tabs
        /\ Open([tab[b] EXCEPT !.user = user], page).user = user
    BY <1>0, <2>1, OpenedTab DEF Tabs
  <2>. QED  BY <1>1, <2>2, TabStep
<1>4. CASE Logout(b)
  <2>1. LogoutTab(tab[b]) \in Tabs /\ LogoutTab(tab[b]).user = NoUser
    BY <1>0 DEF LogoutTab, Tabs
  <2>. QED  BY <1>1, <1>4, <2>1, TabStep DEF Logout
<1>5. ASSUME NEW page \in Pages, Visit(b, page) PROVE OnboardingInv'
  <2>. PICK session \in {FALSE, tab[b].session} :
         tab' = [tab EXCEPT ![b] =
                   Open([NewTab EXCEPT !.session = session,
                                       !.user = IF session THEN Snapshot ELSE NoUser], page)]
    BY <1>5 DEF Visit
  <2>. DEFINE t == [NewTab EXCEPT !.session = session, !.user = IF session THEN Snapshot ELSE NoUser]
  <2>1. t \in Tabs /\ t.user \in {NoUser, Snapshot}
    BY <1>0, NewTabIsTab DEF Tabs
  <2>. HIDE DEF t
  <2>2. Open(t, page) \in Tabs /\ Open(t, page).user \in {NoUser, Snapshot}
    BY <2>1, OpenedTab
  <2>3. tab' = [tab EXCEPT ![b] = Open(t, page)]
    BY DEF t
  <2>. QED  BY <1>1, <2>2, <2>3, TabStep
<1>6. ASSUME NEW page \in Pages, Back(b, page) PROVE OnboardingInv'
  <2>. PICK secret \in {0, tab[b].secret} :
         tab' = [tab EXCEPT ![b] = Open([@ EXCEPT !.secret = secret], page)]
    BY <1>6 DEF Back
  <2>0. secret \in Nat
    <3>1. tab[b].secret \in Nat
      BY <1>0 DEF Tabs
    <3>. QED  BY <3>1
  <2>1. [tab[b] EXCEPT !.secret = secret] \in Tabs
          /\ [tab[b] EXCEPT !.secret = secret].user = tab[b].user
    BY <1>0, <2>0 DEF Tabs
  <2>2. /\ Open([tab[b] EXCEPT !.secret = secret], page) \in Tabs
        /\ Open([tab[b] EXCEPT !.secret = secret], page).user = tab[b].user
    BY <2>1, OpenedTab
  <2>. QED  BY <1>1, <2>2, TabStep
<1>. QED  BY <1>2, <1>3, <1>4, <1>5, <1>6

\* The steps of the login page, and those of the set-up that leave the account alone.
LEMMA FormStep ==
  ASSUME OnboardingInv, NEW b \in Browsers,
         \/ SubmitPassword(b) \/ SubmitCode(b, FALSE) \/ SubmitCode(b, TRUE) \/ SubmitWrongCode(b)
         \/ GoBack(b) \/ Scan(b) \/ BackToQr(b) \/ Verify(b) \/ Done(b)
  PROVE  OnboardingInv'
<1>0. tab[b] \in Tabs
  BY DEF OnboardingInv, Shape
<1>1. UNCHANGED <<account, overlap>>
  BY DEF SubmitPassword, SubmitCode, SubmitWrongCode, GoBack, Scan, BackToQr, Verify, Done, person
<1>2. proved \subseteq proved' /\ (verifying' = verifying \/ account.secret \in proved')
  BY DEF SubmitPassword, SubmitCode, SubmitWrongCode, GoBack, Scan, BackToQr, Verify, Done, person
<1>3. ASSUME NEW t, tab' = [tab EXCEPT ![b] = t], t \in Tabs, t.user = tab[b].user
      PROVE  OnboardingInv'
  BY <1>1, <1>2, <1>3, TabStep
<1>4. CASE SubmitPassword(b)
  <2>. USE <1>4 DEF SubmitPassword
  <2>1. CASE account.confirmed
    BY <1>0, <1>3, <2>1 DEF Tabs, Steps
  <2>2. CASE ~account.confirmed
    BY <1>0, <1>3, <2>2 DEF Tabs, Pages
  <2>. QED  BY <2>1, <2>2
<1>5. ASSUME NEW backup \in BOOLEAN, SubmitCode(b, backup) PROVE OnboardingInv'
  BY <1>0, <1>3, <1>5 DEF SubmitCode, Tabs, Pages
<1>6. CASE SubmitWrongCode(b) \/ GoBack(b)
  BY <1>0, <1>3, <1>6 DEF SubmitWrongCode, GoBack, Tabs, Steps
<1>7. CASE Scan(b) \/ BackToQr(b) \/ Verify(b) \/ Done(b)
  BY <1>0, <1>3, <1>7 DEF Scan, BackToQr, Verify, Done, Tabs, Steps, Pages
<1>. QED  BY <1>4, <1>5, <1>6, <1>7

LEMMA OnboardingNext == OnboardingInv /\ [Next]_vars => OnboardingInv'
<1>. SUFFICES ASSUME OnboardingInv, [Next]_vars PROVE OnboardingInv'
  OBVIOUS
<1>1. CASE UNCHANGED vars
  BY <1>1 DEF vars, person, OnboardingInv, Shape, VerifiedIsProved, UsersLagBehind
<1>2. ASSUME NEW b \in Browsers, ChangePassword(b) PROVE OnboardingInv'
  <2>1. /\ account' = [account EXCEPT !.must = FALSE] /\ UNCHANGED <<verifying, proved, overlap>>
        /\ tab' = [tab EXCEPT ![b] = [tab[b] EXCEPT !.after = "by user"]]
    BY <1>2 DEF ChangePassword, person
  <2>2. /\ account' \in Accounts
        /\ ~account'.must /\ account'.confirmed = account.confirmed /\ account'.secret = account.secret
    BY <2>1, AccountWrites DEF OnboardingInv, Shape, Accounts
  <2>3. [tab[b] EXCEPT !.after = "by user"] \in Tabs
          /\ [tab[b] EXCEPT !.after = "by user"].user = tab[b].user
    BY DEF OnboardingInv, Shape, Tabs
  <2>4. VerifiedIsProved' /\ overlap' \in BOOLEAN
    BY <2>1, <2>2 DEF OnboardingInv, Shape, Accounts, VerifiedIsProved
  <2>. QED  BY <2>1, <2>2, <2>3, <2>4, AccountStep
<1>3. ASSUME NEW b \in Browsers, SetUp(b) PROVE OnboardingInv'
  <2>1. tab[b] \in Tabs /\ account.secret \in Nat /\ UNCHANGED <<verifying, proved>>
    BY <1>3 DEF SetUp, OnboardingInv, Shape, Accounts
  <2>. DEFINE t == [tab[b] EXCEPT !.step = "scan", !.secret = account.secret + 1]
  <2>2. CASE /\ account' = NewSecret /\ overlap' = (overlap \/ verifying # {})
             /\ tab' = [tab EXCEPT ![b] = t]
    <3>0. account.secret + 1 \in Nat /\ "scan" \in Steps
      BY <2>1 DEF Steps
    <3>1. t \in Tabs /\ t.user = tab[b].user
      BY <2>1, <3>0, TabWrites
    <3>2. /\ account' \in Accounts
          /\ account'.must = account.must /\ ~account'.confirmed
      <4>1. account' = [account EXCEPT !.secret = account.secret + 1, !.confirmed = FALSE]
        BY <2>2 DEF NewSecret
      <4>2. account' \in Accounts /\ account \in Accounts
        BY <3>0, <4>1, AccountWrites DEF OnboardingInv, Shape
      <4>. QED  BY <4>1, <4>2, Zenon DEF Accounts
    <3>3. overlap' \in BOOLEAN /\ VerifiedIsProved'
      BY <2>1, <2>2, <3>2 DEF OnboardingInv, Shape, VerifiedIsProved
    <3>. HIDE DEF t
    <3>. QED  BY <2>2, <3>1, <3>2, <3>3, AccountStep
  <2>3. CASE UNCHANGED <<account, overlap>> /\ tab' = [tab EXCEPT ![b].step = "failed"]
    <3>1. [tab[b] EXCEPT !.step = "failed"] \in Tabs
            /\ [tab[b] EXCEPT !.step = "failed"].user = tab[b].user
      BY <2>1 DEF Tabs, Steps
    <3>. QED  BY <2>1, <2>3, <3>1, TabStep
  <2>. QED  BY <1>3, <2>2, <2>3 DEF SetUp
<1>4. ASSUME NEW b \in Browsers, Confirm(b) PROVE OnboardingInv'
  <2>1. /\ UNCHANGED <<proved, overlap>> /\ verifying # {}
        /\ account' = [account EXCEPT !.confirmed = TRUE, !.codes = @ + 1]
        /\ tab' \in {tab, [tab EXCEPT ![b] = [tab[b] EXCEPT !.step = "codes"]]}
    BY <1>4 DEF Confirm, person
  <2>2. /\ account' \in Accounts
        /\ account'.must = account.must /\ account'.secret = account.secret
    <3>1. account.codes + 1 \in Nat /\ account \in Accounts
      BY DEF OnboardingInv, Shape, Accounts
    <3>2. account' \in Accounts
      BY <2>1, <3>1, AccountWrites
    <3>. QED  BY <2>1, <3>1, <3>2, Zenon DEF Accounts
  <2>3. overlap' \in BOOLEAN /\ VerifiedIsProved'
    BY <2>1, <2>2 DEF OnboardingInv, Shape, VerifiedIsProved
  <2>4. PICK t \in Tabs : tab' = [tab EXCEPT ![b] = t] /\ t.user = tab[b].user
    <3>1. tab[b] \in Tabs /\ tab = [tab EXCEPT ![b] = tab[b]]
      BY DEF OnboardingInv, Shape
    <3>2. [tab[b] EXCEPT !.step = "codes"] \in Tabs
            /\ [tab[b] EXCEPT !.step = "codes"].user = tab[b].user
      BY <3>1 DEF Tabs, Steps
    <3>. QED  BY <2>1, <3>1, <3>2
  <2>. QED  BY <2>2, <2>3, <2>4, AccountStep
<1>. QED
  BY <1>1, <1>2, <1>3, <1>4, BrowserStep, FormStep DEF Next, Forward, Aside

\* Two-factor login is on only with a secret whose code has been verified, unless a set-up ran
\* in the middle of a confirmation (confirm_2fa, set_totp_secret, any number of pages).
THEOREM SecretIsProved == Spec => []ConfirmedSecretProved
<1>1. OnboardingInv => ConfirmedSecretProved
  BY DEF OnboardingInv, VerifiedIsProved, ConfirmedSecretProved
<1>. QED  BY <1>1, OnboardingInit, OnboardingNext, PTL DEF Spec

\* While the account has its initial password, no browser that knows its user shows the console,
\* however stale what it knows (RequireAuth; change_password is the only one to clear the flag).
THEOREM InitialPasswordStaysOut == Spec => []ConsoleAfterPassword
<1>1. OnboardingInv => ConsoleAfterPassword
  BY DEF OnboardingInv, UsersLagBehind, ConsoleAfterPassword, Shows, Redirected, Gate, RequireAuth
<1>. QED  BY <1>1, OnboardingInit, OnboardingNext, PTL DEF Spec
-----------------------------------------------------------------------------
(* That every variable keeps its type.                                     *)

\* Secrets are numbered in the order the set-ups make them: no page, authenticator or
\* verification knows one that is still to come.  Nothing is verified before the first.
Secrets ==
  /\ \A b \in Browsers : tab[b].secret <= account.secret
  /\ phone \in Nat /\ phone <= account.secret
  /\ proved \subseteq 1 .. account.secret
  /\ verifying \subseteq Browsers
  /\ account.confirmed \/ verifying # {} => account.secret > 0
  /\ account.confirmed => account.codes > 0

TypeInv == OnboardingInv /\ Secrets

LEMMA SecretIsNumber == ASSUME NEW t \in Tabs PROVE t.secret \in Nat
BY DEF Tabs

LEMMA OpenKeepsSecret == ASSUME NEW t \in Tabs, NEW page PROVE Open(t, page).secret = t.secret
BY DEF Open, Tabs

\* A step that changes one tab, and puts no secret but known ones into it or the phone.
LEMMA SecretsTab ==
  ASSUME TypeInv, OnboardingInv', NEW b \in Browsers, NEW t, tab' = [tab EXCEPT ![b] = t],
         t.secret \in {0, tab[b].secret}, phone' \in {phone, tab[b].secret},
         UNCHANGED account,
         \/ UNCHANGED <<proved, verifying>>
         \/ /\ account.secret > 0 /\ proved' = proved \cup {account.secret}
            /\ verifying' = verifying \cup {b}
  PROVE  TypeInv'
<1>1. account.secret \in Nat /\ tab[b].secret \in Nat /\ tab[b].secret <= account.secret
  BY DEF TypeInv, OnboardingInv, Shape, Accounts, Tabs, Secrets
<1>2. \A a \in Browsers : tab'[a] = IF a = b THEN t ELSE tab[a]
  BY DEF TypeInv, OnboardingInv, Shape
<1>3. \A a \in Browsers : tab'[a].secret <= account'.secret
  BY <1>1, <1>2 DEF TypeInv, Secrets
<1>4. phone' \in Nat /\ phone' <= account'.secret
  BY <1>1 DEF TypeInv, Secrets
<1>5. /\ proved' \subseteq 1 .. account'.secret /\ verifying' \subseteq Browsers
      /\ account'.confirmed \/ verifying' # {} => account'.secret > 0
  <2>1. CASE UNCHANGED <<proved, verifying>>
    BY <2>1 DEF TypeInv, Secrets
  <2>2. CASE /\ account.secret > 0 /\ proved' = proved \cup {account.secret}
             /\ verifying' = verifying \cup {b}
    <3>1. account.secret \in 1 .. account.secret
      BY <1>1, <2>2
    <3>. QED  BY <2>2, <3>1 DEF TypeInv, Secrets
  <2>. QED  BY <2>1, <2>2
<1>. QED  BY <1>3, <1>4, <1>5 DEF TypeInv, Secrets

LEMMA SecretsBrowser ==
  ASSUME TypeInv, OnboardingInv', NEW b \in Browsers,
         \/ Redirect(b) \/ LoadUser(b) \/ Logout(b)
         \/ \E page \in Pages : Visit(b, page) \/ Back(b, page)
  PROVE  TypeInv'
<1>0. tab[b] \in Tabs /\ Snapshot \in Users /\ NoUser \in Users
  BY SnapshotIsUser DEF TypeInv, OnboardingInv, Shape, Users
<1>1. UNCHANGED <<account, verifying, proved, phone>>
  BY DEF Redirect, LoadUser, Logout, Visit, Back, person
<1>2. ASSUME NEW t, tab' = [tab EXCEPT ![b] = t], t.secret \in {0, tab[b].secret} PROVE TypeInv'
  BY <1>1, <1>2, SecretsTab
<1>3. CASE Redirect(b)
  <2>. DEFINE o == Open(tab[b], Gate(tab[b]))
              t == [o EXCEPT !.after = tab[b].after]
  <2>1. o \in Tabs /\ o.secret = tab[b].secret
    BY <1>0, GateIsPage, OpenedTab, OpenKeepsSecret
  <2>2. tab' = [tab EXCEPT ![b] = t]
    BY <1>3 DEF Redirect
  <2>. HIDE DEF o
  <2>3. t.secret = tab[b].secret
    BY <2>1 DEF Tabs
  <2>. QED  BY <1>2, <2>2, <2>3
<1>4. CASE LoadUser(b)
  <2>0. PICK user \in {Snapshot, NoUser} :
          \E page : tab' = [tab EXCEPT ![b] = Open([tab[b] EXCEPT !.user = user], page)]
    BY <1>4 DEF LoadUser
  <2>. DEFINE t == [tab[b] EXCEPT !.user = user]
  <2>1. PICK page : tab' = [tab EXCEPT ![b] = Open(t, page)]
    BY <2>0
  <2>2. t \in Tabs /\ t.secret = tab[b].secret
    BY <1>0 DEF Tabs
  <2>. HIDE DEF t
  <2>3. Open(t, page).secret = t.secret
    BY <2>2, OpenKeepsSecret
  <2>. QED  BY <1>2, <2>1, <2>2, <2>3
<1>5. CASE Logout(b)
  <2>1. LogoutTab(tab[b]).secret = tab[b].secret
    BY <1>0 DEF LogoutTab, Tabs
  <2>. QED  BY <1>2, <1>5, <2>1 DEF Logout
<1>6. ASSUME NEW page \in Pages, Visit(b, page) PROVE TypeInv'
  <2>. PICK session \in {FALSE, tab[b].session} :
         tab' = [tab EXCEPT ![b] =
                   Open([NewTab EXCEPT !.session = session,
                                       !.user = IF session THEN Snapshot ELSE NoUser], page)]
    BY <1>6 DEF Visit
  <2>. DEFINE t == [NewTab EXCEPT !.session = session, !.user = IF session THEN Snapshot ELSE NoUser]
  <2>1. t \in Tabs /\ t.secret = 0
    <3>1. NewTab \in Tabs /\ NewTab.secret = 0
      BY NewTabIsTab DEF NewTab
    <3>. QED  BY <1>0, <3>1 DEF Tabs
  <2>. HIDE DEF t
  <2>2. tab' = [tab EXCEPT ![b] = Open(t, page)]
    BY DEF t
  <2>3. Open(t, page).secret = t.secret
    BY <2>1, OpenKeepsSecret
  <2>. QED  BY <1>2, <2>2, <2>1, <2>3
<1>7. ASSUME NEW page \in Pages, Back(b, page) PROVE TypeInv'
  <2>. PICK secret \in {0, tab[b].secret} :
         tab' = [tab EXCEPT ![b] = Open([tab[b] EXCEPT !.secret = secret], page)]
    BY <1>7 DEF Back
  <2>. DEFINE t == [tab[b] EXCEPT !.secret = secret]
  <2>1. tab' = [tab EXCEPT ![b] = Open(t, page)]
    OBVIOUS
  <2>2. secret \in Nat
    BY <1>0, SecretIsNumber
  <2>3. t \in Tabs /\ t.secret = secret
    BY <1>0, <2>2 DEF Tabs
  <2>. HIDE DEF t
  <2>4. Open(t, page).secret = t.secret
    BY <2>3, OpenKeepsSecret
  <2>. QED  BY <1>2, <2>1, <2>3, <2>4
<1>. QED  BY <1>3, <1>4, <1>5, <1>6, <1>7

\* The steps of the forms, which put no secret into the page.
LEMMA SecretsForm ==
  ASSUME TypeInv, OnboardingInv', NEW b \in Browsers,
         \/ SubmitPassword(b) \/ SubmitCode(b, FALSE) \/ SubmitCode(b, TRUE) \/ SubmitWrongCode(b)
         \/ GoBack(b) \/ ChangePassword(b) \/ Scan(b) \/ BackToQr(b) \/ Verify(b) \/ Done(b)
  PROVE  TypeInv'
<1>0. tab[b] \in Tabs /\ account \in Accounts
  BY DEF TypeInv, OnboardingInv, Shape
<1>1. ASSUME UNCHANGED account, phone' \in {phone, tab[b].secret},
             \/ UNCHANGED <<proved, verifying>>
             \/ /\ account.secret > 0 /\ proved' = proved \cup {account.secret}
                /\ verifying' = verifying \cup {b},
             NEW t, tab' = [tab EXCEPT ![b] = t], t.secret = tab[b].secret
      PROVE  TypeInv'
  BY <1>1, SecretsTab
<1>2. CASE SubmitPassword(b)
  <2>. USE <1>2 DEF SubmitPassword, person
  <2>1. CASE account.confirmed
    BY <1>0, <1>1, <2>1 DEF Tabs
  <2>2. CASE ~account.confirmed
    BY <1>0, <1>1, <2>2 DEF Tabs
  <2>. QED  BY <2>1, <2>2
<1>3. ASSUME NEW backup \in BOOLEAN, SubmitCode(b, backup) PROVE TypeInv'
  BY <1>0, <1>1, <1>3 DEF SubmitCode, Tabs, person
<1>4. CASE SubmitWrongCode(b) \/ GoBack(b) \/ BackToQr(b) \/ Done(b)
  BY <1>0, <1>1, <1>4 DEF SubmitWrongCode, GoBack, BackToQr, Done, Tabs, person
<1>5. CASE Scan(b)
  BY <1>0, <1>1, <1>5 DEF Scan, Tabs
<1>6. CASE Verify(b)
  BY <1>0, <1>1, <1>6 DEF Verify, Tabs
<1>7. CASE ChangePassword(b)
  <2>. DEFINE t == [tab[b] EXCEPT !.after = "by user"]
  <2>1. /\ account' = [account EXCEPT !.must = FALSE] /\ tab' = [tab EXCEPT ![b] = t]
        /\ UNCHANGED <<phone, proved, verifying>>
    BY <1>7 DEF ChangePassword, person
  <2>2. /\ account'.secret = account.secret /\ account'.confirmed = account.confirmed
        /\ account'.codes = account.codes
    BY <1>0, <2>1 DEF Accounts
  <2>3. t.secret = tab[b].secret
    BY <1>0 DEF Tabs
  <2>. HIDE DEF t
  <2>4. \A a \in Browsers : tab'[a].secret = tab[a].secret
    BY <2>1, <2>3 DEF TypeInv, OnboardingInv, Shape
  <2>. QED  BY <2>1, <2>2, <2>4, Zenon DEF TypeInv, Secrets
<1>. QED  BY <1>2, <1>3, <1>4, <1>5, <1>6, <1>7

\* A set-up makes the next secret, and only its own page knows it.
LEMMA SecretsSetUp ==
  ASSUME TypeInv, OnboardingInv', NEW b \in Browsers, SetUp(b) PROVE TypeInv'
<1>0. /\ account \in Accounts /\ account.secret \in Nat /\ tab[b] \in Tabs
      /\ UNCHANGED <<verifying, phone, proved>>
  BY DEF TypeInv, OnboardingInv, Shape, Accounts, SetUp
<1>1. CASE UNCHANGED account /\ tab' = [tab EXCEPT ![b].step = "failed"]
  <2>. DEFINE t == [tab[b] EXCEPT !.step = "failed"]
  <2>1. tab' = [tab EXCEPT ![b] = t] /\ t.secret = tab[b].secret
    BY <1>0, <1>1 DEF Tabs
  <2>. HIDE DEF t
  <2>. QED  BY <1>0, <1>1, <2>1, SecretsTab
<1>2. CASE account' = NewSecret
           /\ tab' = [tab EXCEPT ![b].step = "scan", ![b].secret = account.secret + 1]
  <2>. DEFINE t == [tab[b] EXCEPT !.step = "scan", !.secret = account.secret + 1]
  <2>1. tab' = [tab EXCEPT ![b] = t]
    BY <1>2 DEF TypeInv, OnboardingInv, Shape
  <2>2. t.secret = account.secret + 1
    BY <1>0 DEF Tabs
  <2>3. account'.secret = account.secret + 1 /\ ~account'.confirmed
    BY <1>0, <1>2 DEF NewSecret, Accounts
  <2>. HIDE DEF t
  <2>4. \A a \in Browsers : tab'[a] = IF a = b THEN t ELSE tab[a]
    BY <2>1 DEF TypeInv, OnboardingInv, Shape
  <2>5. ASSUME NEW a \in Browsers PROVE tab'[a].secret <= account'.secret
    <3>1. tab[a].secret \in Nat /\ tab[a].secret <= account.secret
      BY DEF TypeInv, OnboardingInv, Shape, Tabs, Secrets
    <3>. QED  BY <1>0, <2>2, <2>3, <2>4, <3>1
  <2>6. phone' \in Nat /\ phone' <= account'.secret /\ proved' \subseteq 1 .. account'.secret
    BY <1>0, <2>3 DEF TypeInv, Secrets
  <2>7. account'.secret > 0 /\ verifying' \subseteq Browsers
    BY <1>0, <2>3 DEF TypeInv, Secrets
  <2>. QED  BY <2>3, <2>5, <2>6, <2>7 DEF TypeInv, Secrets
<1>. QED  BY <1>1, <1>2 DEF SetUp

\* The write of a confirmation turns the second factor on and stores backup codes.
LEMMA SecretsConfirm ==
  ASSUME TypeInv, OnboardingInv', NEW b \in Browsers, Confirm(b) PROVE TypeInv'
<1>1. /\ account' = [account EXCEPT !.confirmed = TRUE, !.codes = account.codes + 1]
      /\ b \in verifying /\ verifying' \subseteq verifying /\ UNCHANGED <<phone, proved>>
      /\ tab' \in {tab, [tab EXCEPT ![b] = [tab[b] EXCEPT !.step = "codes"]]}
  BY DEF Confirm, person
<1>2. account'.secret = account.secret /\ account'.codes = account.codes + 1
  BY <1>1 DEF TypeInv, OnboardingInv, Shape, Accounts
<1>3. account.secret > 0 /\ account'.codes > 0
  BY <1>1, <1>2 DEF TypeInv, OnboardingInv, Shape, Accounts, Secrets
<1>4. \A a \in Browsers : tab'[a].secret = tab[a].secret
  <2>. DEFINE t == [tab[b] EXCEPT !.step = "codes"]
  <2>1. tab[b] \in Tabs /\ tab' \in {tab, [tab EXCEPT ![b] = t]}
    BY <1>1 DEF TypeInv, OnboardingInv, Shape
  <2>2. t.secret = tab[b].secret
    BY <2>1 DEF Tabs
  <2>. HIDE DEF t
  <2>. QED  BY <2>1, <2>2 DEF TypeInv, OnboardingInv, Shape
<1>. QED  BY <1>1, <1>2, <1>3, <1>4 DEF TypeInv, Secrets

\* Every variable keeps its type: secrets are those a set-up has made, and two-factor login is
\* never on without a secret and backup codes (set_totp_secret, confirm_totp), whatever pages
\* are opened, left and confirmed in whichever order.
THEOREM OnboardingTyped == Spec => []TypeOK
<1>1. Init => TypeInv
  <2>. SUFFICES ASSUME Init PROVE TypeInv
    OBVIOUS
  <2>1. OnboardingInv
    BY OnboardingInit
  <2>2. \A b \in Browsers : tab[b].secret = 0
    BY DEF Init, NewTab
  <2>. QED  BY <2>1, <2>2 DEF Init, TypeInv, Secrets
<1>2. TypeInv /\ [Next]_vars => TypeInv'
  <2>. SUFFICES ASSUME TypeInv, [Next]_vars PROVE TypeInv'
    OBVIOUS
  <2>1. OnboardingInv'
    BY OnboardingNext DEF TypeInv
  <2>2. CASE UNCHANGED vars
    BY <2>1, <2>2 DEF vars, person, TypeInv, Secrets
  <2>3. CASE Next
    BY <2>1, <2>3, SecretsBrowser, SecretsForm, SecretsSetUp, SecretsConfirm
       DEF Next, Forward, Aside
  <2>. QED  BY <2>2, <2>3
<1>3. TypeInv => TypeOK
  <2>. SUFFICES ASSUME TypeInv PROVE TypeOK
    OBVIOUS
  <2>1. account \in Accounts /\ account.secret \in Nat
    BY DEF TypeInv, OnboardingInv, Shape, Accounts
  <2>2. ASSUME NEW b \in Browsers
        PROVE  /\ tab[b].page \in Pages /\ tab[b].step \in Steps /\ tab[b].user \in Users
               /\ tab[b].after \in Pages \cup {"none", "by user"}
               /\ tab[b].secret \in 0 .. account.secret
    <3>1. tab[b] \in Tabs /\ tab[b].secret <= account.secret
      BY DEF TypeInv, OnboardingInv, Shape, Secrets
    <3>2. tab[b].secret \in 0 .. account.secret
      BY <2>1, <3>1, SecretIsNumber
    <3>. QED  BY <3>1, <3>2 DEF Tabs
  <2>3. phone \in 0 .. account.secret
    BY <2>1 DEF TypeInv, Secrets
  <2>. QED  BY <2>1, <2>2, <2>3 DEF TypeOK, Accounts, TypeInv, Secrets
<1>. QED  BY <1>1, <1>2, <1>3, PTL DEF Spec
=============================================================================
