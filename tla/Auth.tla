-------------------------------- MODULE Auth --------------------------------
(***************************************************************************)
(* The login endpoints of api/auth.py over the users and refresh_tokens    *)
(* tables of db/sqlite_manager.py, for one account.  Requests run          *)
(* concurrently on one event loop: a request works on what it read before  *)
(* its last await, and other requests run in between.  An action is what   *)
(* one request does between two awaits, or one transaction the database    *)
(* executes for it.  The record of a request holds its local variables.    *)
(***************************************************************************)
EXTENDS Integers, FiniteSets

CONSTANTS
  Requests,     \* how many requests are handled at a time
  Codes,        \* the backup codes of the account
  Threshold,    \* failed attempts that lock the account (10)
  LockTime,     \* how long it stays locked (15 minutes)
  PartialLife,  \* age up to which a partial token is accepted (300 seconds)
  AccessLife,   \* lifetime of an access token (15 minutes)
  RefreshLife,  \* lifetime of a refresh token (7 days)
  MaxTime, MaxFailures, MaxPartials, MaxSessions, MaxSetups   \* bounds

ASSUME ThresholdIsPositive == Threshold \in Nat \ {0}
ASSUME LifetimesAreNaturals ==
  /\ LockTime \in Nat \ {0} /\ PartialLife \in Nat /\ AccessLife \in Nat /\ RefreshLife \in Nat
ASSUME AuthBounds ==
  /\ MaxTime \in Nat /\ MaxFailures \in Nat /\ MaxPartials \in Nat /\ MaxSessions \in Nat
  /\ MaxSetups \in Nat
ASSUME RequestsFinite == IsFiniteSet(Requests)

VARIABLES
  now,
  failed,       \* failed_attempts
  lockedUntil,  \* locked_until, 0 when NULL
  totp,         \* "none", "pending" (a secret, totp_confirmed = 0) or "confirmed"
  codes,        \* backup_codes
  expires,      \* expires_at of each refresh token, -1 while it is not issued
  revoked,      \* refresh tokens with revoked = 1
  accessUntil,  \* when the newest access token expires
  created,      \* _partial_tokens: created_at of each token, -1 when it is not in there
  partials,     \* partial tokens made so far
  req,          \* the requests being handled
  misses,       \* history: wrong passwords since the last successful login
  overrun,      \* history: wrong passwords answered while the account was locked
  passes,       \* history: how often each partial token was accepted
  spent,        \* history: how often each backup code was accepted
  opened,       \* history: the sessions opened
  setups        \* secrets set so far

account == <<failed, lockedUntil, totp, codes>>
tokens == <<expires, revoked, accessUntil, created, partials>>
history == <<misses, overrun, passes, spent, opened, setups>>
vars == <<now, account, tokens, req, history>>

Partials == 1 .. MaxPartials
Refreshes == 1 .. MaxSessions
Factors == {"none", "totp", "backup"}
TotpStates == {"none", "pending", "confirmed"}

Idle == [pc |-> "idle"]
RequestRecords ==
  {Idle} \cup
  [pc : {"login"}, good : BOOLEAN, lock : Nat, totp : TotpStates, open : BOOLEAN] \cup
  [pc : {"miss"}] \cup
  [pc : {"totp"}, good : BOOLEAN, open : BOOLEAN] \cup
  [pc : {"totpRow"}, good : BOOLEAN, totp : TotpStates, open : BOOLEAN] \cup
  [pc : {"backup"}, code : Codes, open : BOOLEAN] \cup
  [pc : {"backupRow"}, code : Codes, codes : SUBSET Codes, open : BOOLEAN] \cup
  [pc : {"success", "store"}, factor : Factors, open : BOOLEAN] \cup
  [pc : {"refresh"}] \cup
  [pc : {"confirm"}]

TypeOK ==
  /\ now \in 0 .. MaxTime
  /\ failed \in 0 .. MaxFailures /\ lockedUntil \in Nat
  /\ totp \in TotpStates /\ codes \subseteq Codes
  /\ expires \in [Refreshes -> Int] /\ revoked \subseteq Refreshes /\ accessUntil \in Nat
  /\ created \in [Partials -> -1 .. now] /\ partials \in 0 .. MaxPartials
  /\ req \in [Requests -> RequestRecords]
  /\ misses \in Nat /\ overrun \in Nat
  /\ passes \in [Partials -> Nat] /\ spent \in [Codes -> Nat]
  /\ opened \subseteq [factor : Factors, open : BOOLEAN]
  /\ setups \in 0 .. MaxSetups

Init ==
  /\ now = 0 /\ failed = 0 /\ lockedUntil = 0
  /\ totp \in {"none", "confirmed"}
  /\ codes = IF totp = "confirmed" THEN Codes ELSE {}
  /\ expires = [t \in Refreshes |-> -1] /\ revoked = {} /\ accessUntil = 0
  /\ created = [t \in Partials |-> -1] /\ partials = 0
  /\ req = [r \in Requests |-> Idle]
  /\ misses = 0 /\ overrun = 0
  /\ passes = [t \in Partials |-> 0] /\ spent = [c \in Codes |-> 0]
  /\ opened = {} /\ setups = 0

Locked == lockedUntil > now
Confirmed == totp = "confirmed"
Become(r, record) == req' = [req EXCEPT ![r] = record]

\* A request is handled in milliseconds and a lock lasts minutes: a request does not hold
\* the row it read until the lock in it is over while a later lock is in force.
Prompt ==
  \A r \in Requests :
    req[r].pc = "login" /\ req[r].lock = now + 1 => lockedUntil <= now + 1

Tick ==
  /\ now < MaxTime /\ Prompt
  /\ now' = now + 1
  /\ UNCHANGED <<account, tokens, req, history>>

-----------------------------------------------------------------------------
(* POST /login                                                             *)

\* get_user_by_username.  good: the password the request carries is the right one.
LoginRead(r, good) ==
  /\ req[r] = Idle
  /\ Become(r, [pc |-> "login", good |-> good, lock |-> lockedUntil, totp |-> totp,
                open |-> ~Confirmed])
  /\ UNCHANGED <<now, account, tokens, history>>

\* The lock is in force by the row that was read: 429.
LoginLocked(r) ==
  /\ req[r].pc = "login"
  /\ req[r].lock > now
  /\ Become(r, Idle)
  /\ UNCHANGED <<now, account, tokens, history>>

\* Mutant: the password is checked without a look at the lock.
LoginMiss_IgnoresLock(r) ==
  /\ req[r].pc = "login"
  /\ ~req[r].good
  /\ Become(r, [pc |-> "miss"])
  /\ UNCHANGED <<now, account, tokens, history>>

\* Wrong password.
LoginMiss(r) ==
  /\ req[r].pc = "login"
  /\ req[r].lock <= now /\ ~req[r].good
  /\ Become(r, [pc |-> "miss"])
  /\ UNCHANGED <<now, account, tokens, history>>

\* Right password, two-factor login not confirmed: straight to the session.
LoginOpen(r) ==
  /\ req[r].pc = "login"
  /\ req[r].lock <= now /\ req[r].good /\ req[r].totp # "confirmed"
  /\ Become(r, [pc |-> "success", factor |-> "none", open |-> req[r].open])
  /\ UNCHANGED <<now, account, tokens, history>>

\* Mutant: the partial token is kept with the time it ends instead of its creation.
LoginPartial_KeepsExpiry(r) ==
  /\ req[r].pc = "login"
  /\ req[r].lock <= now /\ req[r].good /\ req[r].totp = "confirmed"
  /\ partials < MaxPartials
  /\ partials' = partials + 1
  /\ created' = [created EXCEPT ![partials + 1] = now + PartialLife]
  /\ Become(r, Idle)
  /\ UNCHANGED <<now, account, expires, revoked, accessUntil, history>>

\* Right password, two-factor login confirmed: a partial token.
LoginPartial(r) ==
  /\ req[r].pc = "login"
  /\ req[r].lock <= now /\ req[r].good /\ req[r].totp = "confirmed"
  /\ partials < MaxPartials
  /\ partials' = partials + 1
  /\ created' = [created EXCEPT ![partials + 1] = now]
  /\ Become(r, Idle)
  /\ UNCHANGED <<now, account, expires, revoked, accessUntil, history>>

\* Mutant: the count is compared before it is incremented.
RecordFailure_ComparesOldCount(r) ==
  /\ req[r].pc = "miss"
  /\ failed < MaxFailures
  /\ failed' = failed + 1
  /\ lockedUntil' = IF failed >= Threshold THEN now + LockTime ELSE lockedUntil
  /\ misses' = misses + 1
  /\ overrun' = IF Locked THEN overrun + 1 ELSE 0
  /\ Become(r, Idle)
  /\ UNCHANGED <<now, totp, codes, tokens, passes, spent, opened, setups>>

\* record_login_failure: one transaction counts the attempt and locks the account.
RecordFailure(r) ==
  /\ req[r].pc = "miss"
  /\ failed < MaxFailures
  /\ failed' = failed + 1
  /\ lockedUntil' = IF failed + 1 >= Threshold THEN now + LockTime ELSE lockedUntil
  /\ misses' = misses + 1
  /\ overrun' = IF Locked THEN overrun + 1 ELSE 0
  /\ Become(r, Idle)
  /\ UNCHANGED <<now, totp, codes, tokens, passes, spent, opened, setups>>

\* record_login_success clears the counter and the lock.
RecordSuccess(r) ==
  /\ req[r].pc = "success"
  /\ failed' = 0 /\ lockedUntil' = 0
  /\ misses' = 0 /\ overrun' = 0
  /\ Become(r, [req[r] EXCEPT !.pc = "store"])
  /\ UNCHANGED <<now, totp, codes, tokens, passes, spent, opened, setups>>

\* store_refresh_token, then create_access_token.
StoreSession(r) ==
  /\ req[r].pc = "store"
  /\ \E t \in Refreshes :
       /\ expires[t] = -1
       /\ expires' = [expires EXCEPT ![t] = now + RefreshLife]
  /\ accessUntil' = now + AccessLife
  /\ opened' = opened \cup {[factor |-> req[r].factor, open |-> req[r].open]}
  /\ Become(r, Idle)
  /\ UNCHANGED <<now, account, revoked, created, partials, misses, overrun, passes, spent,
                 setups>>

-----------------------------------------------------------------------------
(* POST /login/2fa and POST /login/backup-code                             *)

Accepted(t) == created[t] # -1 /\ now - created[t] <= PartialLife

\* Mutant: the token is looked up and left in the dict.
Consume_Get(r, t, next) ==
  /\ req[r] = Idle
  /\ created[t] # -1
  /\ passes' = IF Accepted(t) THEN [passes EXCEPT ![t] = @ + 1] ELSE passes
  /\ Become(r, IF Accepted(t) THEN next ELSE Idle)
  /\ UNCHANGED <<now, account, tokens, misses, overrun, spent, opened, setups>>

\* _consume_partial_token pops the token whether or not it has expired.
Consume(r, t, next) ==
  /\ req[r] = Idle
  /\ created[t] # -1
  /\ created' = [created EXCEPT ![t] = -1]
  /\ passes' = IF Accepted(t) THEN [passes EXCEPT ![t] = @ + 1] ELSE passes
  /\ Become(r, IF Accepted(t) THEN next ELSE Idle)
  /\ UNCHANGED <<now, account, expires, revoked, accessUntil, partials, misses, overrun,
                 spent, opened, setups>>

\* good: the code verifies against the secret of the account.
TotpConsume(r, t, good) == Consume(r, t, [pc |-> "totp", good |-> good, open |-> ~Confirmed])
BackupConsume(r, t, c) == Consume(r, t, [pc |-> "backup", code |-> c, open |-> ~Confirmed])

\* get_user_by_id.
TotpRead(r) ==
  /\ req[r].pc = "totp"
  /\ Become(r, [pc |-> "totpRow", good |-> req[r].good, totp |-> totp, open |-> req[r].open])
  /\ UNCHANGED <<now, account, tokens, history>>

\* Mutant: the session is opened whatever the code was.
TotpVerify_IgnoresCode(r) ==
  /\ req[r].pc = "totpRow"
  /\ Become(r, [pc |-> "success", open |-> req[r].open,
                factor |-> IF req[r].totp = "confirmed" /\ req[r].good THEN "totp" ELSE "none"])
  /\ UNCHANGED <<now, account, tokens, history>>

\* Unconfirmed by the row that was read: a session without a code.  Else the code decides.
TotpVerify(r) ==
  /\ req[r].pc = "totpRow"
  /\ Become(r, IF req[r].totp # "confirmed"
               THEN [pc |-> "success", factor |-> "none", open |-> req[r].open]
               ELSE IF req[r].good
               THEN [pc |-> "success", factor |-> "totp", open |-> req[r].open]
               ELSE Idle)
  /\ UNCHANGED <<now, account, tokens, history>>

\* consume_backup_code reads the list of codes ...
BackupRead(r) ==
  /\ req[r].pc = "backup"
  /\ Become(r, [pc |-> "backupRow", code |-> req[r].code, codes |-> codes,
                open |-> req[r].open])
  /\ UNCHANGED <<now, account, tokens, history>>

\* ... and refuses a code that is not in it, or writes the whole list back without it.
BackupRefused(r) ==
  /\ req[r].pc = "backupRow"
  /\ req[r].code \notin req[r].codes
  /\ Become(r, Idle)
  /\ UNCHANGED <<now, account, tokens, history>>

BackupWrite(r) ==
  /\ req[r].pc = "backupRow"
  /\ req[r].code \in req[r].codes
  /\ codes' = req[r].codes \ {req[r].code}
  /\ spent' = [spent EXCEPT ![req[r].code] = @ + 1]
  /\ Become(r, [pc |-> "success", factor |-> "backup", open |-> req[r].open])
  /\ UNCHANGED <<now, failed, lockedUntil, totp, tokens, misses, overrun, passes, opened,
                 setups>>

-----------------------------------------------------------------------------
(* POST /refresh and POST /logout                                          *)

Live(t) == expires[t] > now /\ t \notin revoked

\* validate_refresh_token, for a token that was issued.
RefreshValidate(r, t) ==
  /\ req[r] = Idle
  /\ expires[t] # -1
  /\ Become(r, IF Live(t) THEN [pc |-> "refresh"] ELSE Idle)
  /\ UNCHANGED <<now, account, tokens, history>>

\* After get_user_by_id: create_access_token.
RefreshGrant(r) ==
  /\ req[r].pc = "refresh"
  /\ accessUntil' = now + AccessLife
  /\ Become(r, Idle)
  /\ UNCHANGED <<now, account, expires, revoked, created, partials, misses, overrun, passes,
                 spent, opened, setups>>

\* revoke_refresh_token, for a caller with a valid access token.
Logout(t) ==
  /\ accessUntil > now
  /\ expires[t] # -1
  /\ revoked' = revoked \cup {t}
  /\ UNCHANGED <<now, account, expires, accessUntil, created, partials, req, history>>

-----------------------------------------------------------------------------
(* GET /2fa/setup and POST /2fa/confirm                                    *)

\* set_totp_secret also clears totp_confirmed.
Setup ==
  /\ accessUntil > now
  /\ setups < MaxSetups
  /\ setups' = setups + 1
  /\ totp' = "pending"
  /\ req' = [r \in Requests |-> IF "open" \in DOMAIN req[r]
                                THEN [req[r] EXCEPT !.open = TRUE] ELSE req[r]]
  /\ UNCHANGED <<now, failed, lockedUntil, codes, tokens, misses, overrun, passes, spent,
                 opened>>

\* get_user_by_id finds a secret, and the code verifies against it.
ConfirmRead(r) ==
  /\ accessUntil > now
  /\ req[r] = Idle
  /\ totp # "none"
  /\ Become(r, [pc |-> "confirm"])
  /\ UNCHANGED <<now, account, tokens, history>>

\* confirm_totp, with newly generated codes.
ConfirmWrite(r) ==
  /\ req[r].pc = "confirm"
  /\ totp' = "confirmed"
  /\ codes' = Codes
  /\ spent' = [c \in Codes |-> 0]
  /\ Become(r, Idle)
  /\ UNCHANGED <<now, failed, lockedUntil, tokens, misses, overrun, passes, opened,
                 setups>>

-----------------------------------------------------------------------------
Login(r) ==
  \/ \E good \in BOOLEAN : LoginRead(r, good)
  \/ LoginLocked(r) \/ LoginMiss(r) \/ LoginOpen(r) \/ LoginPartial(r)
  \/ RecordFailure(r) \/ RecordSuccess(r) \/ StoreSession(r)

SecondFactor(r) ==
  \/ \E t \in Partials : (\E good \in BOOLEAN : TotpConsume(r, t, good))
                         \/ (\E c \in Codes : BackupConsume(r, t, c))
  \/ TotpRead(r) \/ TotpVerify(r)
  \/ BackupRead(r) \/ BackupRefused(r) \/ BackupWrite(r)

Session(r) ==
  \/ \E t \in Refreshes : RefreshValidate(r, t)
  \/ RefreshGrant(r) \/ ConfirmRead(r) \/ ConfirmWrite(r)

Next ==
  \/ Tick \/ Setup
  \/ \E t \in Refreshes : Logout(t)
  \/ \E r \in Requests : Login(r) \/ SecondFactor(r) \/ Session(r)

Spec == Init /\ [][Next]_vars

-----------------------------------------------------------------------------
(* What the login promises.                                                *)

\* No failed attempt is lost among concurrent requests, and from the tenth on the
\* account carries a lock until the next successful login.
LockoutCounts ==
  /\ failed = misses
  /\ failed >= Threshold => lockedUntil # 0

\* Once the account is locked, only the attempts that had read the row before can still
\* be answered: fewer than there are requests at a time.
LockStopsAttempts == Locked => overrun < Cardinality(Requests)

\* A partial token lets one request through, whichever of the two endpoints takes it.
PartialAcceptedOnce == \A t \in Partials : passes[t] <= 1

\* A session without a second factor is opened only if two-factor login was not
\* confirmed at some time while the request was handled.
SecondFactorRequired == \A s \in opened : s.factor = "none" => s.open

\* "Eight single-use backup codes are generated": each code of a set is accepted once.
CodeSpentOnce == \A c \in Codes : spent[c] <= 1
=============================================================================
