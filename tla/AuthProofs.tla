----------------------------- MODULE AuthProofs -----------------------------
(***************************************************************************)
(* What the login endpoints promise, for every number of concurrent        *)
(* requests, every threshold and every lifetime.                           *)
(***************************************************************************)
EXTENDS Auth, FiniteSetTheorems, TLAPS

USE ThresholdIsPositive, LifetimesAreNaturals, AuthBounds

-----------------------------------------------------------------------------
(* Failed attempts.                                                        *)

\* The counter of the table agrees with the history, and the clock is a number: without
\* the latter "now + LockTime" could not be told from NULL.
CountInv ==
  /\ now \in Nat /\ failed \in Nat /\ lockedUntil \in Nat
  /\ LockoutCounts

LEMMA CountInit == Init => CountInv
BY DEF Init, CountInv, LockoutCounts

\* Only three actions touch the counter; time does not.
LEMMA CountStep == CountInv /\ [Next]_vars => CountInv'
<1>. SUFFICES ASSUME CountInv, [Next]_vars PROVE CountInv'
  OBVIOUS
<1>. USE DEF CountInv, LockoutCounts
<1>1. CASE Tick
  BY <1>1 DEF Tick, account, history
<1>2. ASSUME NEW r \in Requests, RecordFailure(r) PROVE CountInv'
  BY <1>2 DEF RecordFailure
<1>3. ASSUME NEW r \in Requests, RecordSuccess(r) PROVE CountInv'
  BY <1>3 DEF RecordSuccess
<1>4. CASE UNCHANGED <<now, failed, lockedUntil, misses>>
  BY <1>4
<1>5. CASE Setup
  <2>1. UNCHANGED <<now, failed, lockedUntil, misses>>
    BY <1>5 DEF Setup
  <2>. QED  BY <2>1, <1>4
<1>6. ASSUME NEW t \in Refreshes, Logout(t) PROVE CountInv'
  <2>1. UNCHANGED <<now, failed, lockedUntil, misses>>
    BY <1>6 DEF Logout, account, history
  <2>. QED  BY <2>1, <1>4
<1>7. ASSUME NEW r \in Requests, Login(r) PROVE CountInv'
  <2>1. CASE \E good \in BOOLEAN : LoginRead(r, good)
    BY <2>1, <1>4 DEF LoginRead, account, history
  <2>2. CASE LoginLocked(r) \/ LoginMiss(r) \/ LoginOpen(r)
    BY <2>2, <1>4 DEF LoginLocked, LoginMiss, LoginOpen, account, history
  <2>3. CASE LoginPartial(r)
    BY <2>3, <1>4 DEF LoginPartial, account, history
  <2>4. CASE StoreSession(r)
    BY <2>4, <1>4 DEF StoreSession, account
  <2>. QED  BY <1>2, <1>3, <1>7, <2>1, <2>2, <2>3, <2>4 DEF Login
<1>8. ASSUME NEW r \in Requests, SecondFactor(r) PROVE CountInv'
  <2>1. ASSUME NEW t \in Partials, NEW next, Consume(r, t, next) PROVE CountInv'
    BY <2>1, <1>4 DEF Consume, account
  <2>2. CASE \E t \in Partials : \E good \in BOOLEAN : TotpConsume(r, t, good)
    BY <2>1, <2>2 DEF TotpConsume
  <2>3. CASE \E t \in Partials : \E c \in Codes : BackupConsume(r, t, c)
    BY <2>1, <2>3 DEF BackupConsume
  <2>4. CASE TotpRead(r) \/ TotpVerify(r) \/ BackupRead(r) \/ BackupRefused(r)
    BY <2>4, <1>4 DEF TotpRead, TotpVerify, BackupRead, BackupRefused, account, history
  <2>5. CASE BackupWrite(r)
    BY <2>5, <1>4 DEF BackupWrite
  <2>. QED  BY <1>8, <2>2, <2>3, <2>4, <2>5 DEF SecondFactor
<1>9. ASSUME NEW r \in Requests, Session(r) PROVE CountInv'
  <2>1. CASE \E t \in Refreshes : RefreshValidate(r, t)
    BY <2>1, <1>4 DEF RefreshValidate, account, history
  <2>2. CASE RefreshGrant(r)
    BY <2>2, <1>4 DEF RefreshGrant, account
  <2>3. CASE ConfirmRead(r)
    BY <2>3, <1>4 DEF ConfirmRead, account, history
  <2>4. CASE ConfirmWrite(r)
    BY <2>4, <1>4 DEF ConfirmWrite
  <2>. QED  BY <1>9, <2>1, <2>2, <2>3, <2>4 DEF Session
<1>10. CASE UNCHANGED vars
  BY <1>10, <1>4 DEF vars, account, history
<1>. QED  BY <1>1, <1>5, <1>6, <1>7, <1>8, <1>9, <1>10 DEF Next

\* However many requests fail at the same time, no failed attempt is lost, and from the
\* threshold on the account carries a lock until a login succeeds.
THEOREM FailuresAreCounted == Spec => []LockoutCounts
<1>1. CountInv => LockoutCounts
  BY DEF CountInv
<1>. QED  BY <1>1, CountInit, CountStep, PTL DEF Spec

-----------------------------------------------------------------------------
(* Partial tokens.                                                         *)

\* A token that is in the dict has been made and has not been accepted; one that has not
\* been made has not been accepted either.
TokenInv ==
  /\ partials \in Nat
  /\ created \in [Partials -> Int]
  /\ passes \in [Partials -> {0, 1}]
  /\ \A t \in Partials : created[t] # -1 => passes[t] = 0 /\ t <= partials
  /\ \A t \in Partials : partials < t => passes[t] = 0

LEMMA TokenInit == Init => TokenInv
BY DEF Init, TokenInv, Partials

LEMMA TokenStep == TokenInv /\ now \in Nat /\ [Next]_vars => TokenInv'
<1>. SUFFICES ASSUME TokenInv, now \in Nat, [Next]_vars PROVE TokenInv'
  OBVIOUS
<1>. USE DEF TokenInv, Partials
<1>1. CASE UNCHANGED <<partials, created, passes>>
  BY <1>1
<1>2. CASE Tick
  BY <1>1, <1>2 DEF Tick, tokens, history
<1>3. CASE Setup
  <2>1. UNCHANGED <<partials, created, passes>>
    BY <1>3 DEF Setup, tokens
  <2>. QED  BY <1>1, <2>1
<1>4. ASSUME NEW t \in Refreshes, Logout(t) PROVE TokenInv'
  BY <1>1, <1>4 DEF Logout, history
<1>5. ASSUME NEW r \in Requests, Login(r) PROVE TokenInv'
  <2>1. CASE \E good \in BOOLEAN : LoginRead(r, good)
    BY <1>1, <2>1 DEF LoginRead, tokens, history
  <2>2. CASE LoginLocked(r) \/ LoginMiss(r) \/ LoginOpen(r)
    BY <1>1, <2>2 DEF LoginLocked, LoginMiss, LoginOpen, tokens, history
  <2>3. CASE LoginPartial(r)
    BY <2>3 DEF LoginPartial, history
  <2>4. CASE RecordFailure(r) \/ RecordSuccess(r)
    BY <1>1, <2>4 DEF RecordFailure, RecordSuccess, tokens
  <2>5. CASE StoreSession(r)
    BY <1>1, <2>5 DEF StoreSession
  <2>. QED  BY <1>5, <2>1, <2>2, <2>3, <2>4, <2>5 DEF Login
<1>6. ASSUME NEW r \in Requests, SecondFactor(r) PROVE TokenInv'
  <2>1. ASSUME NEW t \in Partials, NEW next, Consume(r, t, next) PROVE TokenInv'
    <3>1. partials' = partials /\ created' = [created EXCEPT ![t] = -1] /\ created[t] # -1
      BY <2>1 DEF Consume
    <3>2. passes' = passes \/ passes' = [passes EXCEPT ![t] = @ + 1]
      BY <2>1 DEF Consume
    <3>. QED  BY <3>1, <3>2
  <2>2. CASE \E t \in Partials : \E good \in BOOLEAN : TotpConsume(r, t, good)
    BY <2>1, <2>2 DEF TotpConsume
  <2>3. CASE \E t \in Partials : \E c \in Codes : BackupConsume(r, t, c)
    BY <2>1, <2>3 DEF BackupConsume
  <2>4. CASE TotpRead(r) \/ TotpVerify(r) \/ BackupRead(r) \/ BackupRefused(r)
    BY <1>1, <2>4 DEF TotpRead, TotpVerify, BackupRead, BackupRefused, tokens, history
  <2>5. CASE BackupWrite(r)
    BY <1>1, <2>5 DEF BackupWrite, tokens
  <2>. QED  BY <1>6, <2>2, <2>3, <2>4, <2>5 DEF SecondFactor
<1>7. ASSUME NEW r \in Requests, Session(r) PROVE TokenInv'
  <2>1. CASE \E t \in Refreshes : RefreshValidate(r, t)
    BY <1>1, <2>1 DEF RefreshValidate, tokens, history
  <2>2. CASE RefreshGrant(r)
    BY <1>1, <2>2 DEF RefreshGrant
  <2>3. CASE ConfirmRead(r)
    BY <1>1, <2>3 DEF ConfirmRead, tokens, history
  <2>4. CASE ConfirmWrite(r)
    BY <1>1, <2>4 DEF ConfirmWrite, tokens
  <2>. QED  BY <1>7, <2>1, <2>2, <2>3, <2>4 DEF Session
<1>8. CASE UNCHANGED vars
  BY <1>1, <1>8 DEF vars, tokens, history
<1>. QED  BY <1>2, <1>3, <1>4, <1>5, <1>6, <1>7, <1>8 DEF Next

\* A partial token lets at most one request through, whichever endpoint pops it first.
THEOREM PartialTokensSpentOnce == Spec => []PartialAcceptedOnce
<1>1. TokenInv => PartialAcceptedOnce
  BY DEF TokenInv, PartialAcceptedOnce
<1>2. CountInv => now \in Nat
  BY DEF CountInv
<1>. QED  BY <1>1, <1>2, CountInit, CountStep, TokenInit, TokenStep, PTL DEF Spec

-----------------------------------------------------------------------------
(* The second factor.                                                      *)

\* The requests that carry "open" among their local variables.
Carries(m) == m.pc \in {"login", "totp", "totpRow", "backup", "backupRow", "success", "store"}

\* What a request knows is never more permissive than what was the case while it was
\* handled: if two-factor login is not confirmed now, or was not by the row the request
\* has read, or the request goes for a session without a code, then "open" says so.
Honest(m) ==
  /\ Carries(m) => "open" \in DOMAIN m /\ "pc" \in DOMAIN m
  /\ Carries(m) /\ totp # "confirmed" => m.open = TRUE
  /\ m.pc \in {"login", "totpRow"} /\ m.totp # "confirmed" => m.open = TRUE
  /\ m.pc \in {"success", "store"} /\ m.factor = "none" => m.open = TRUE

FactorInv ==
  /\ DOMAIN req = Requests
  /\ \A r \in Requests : Honest(req[r])
  /\ \A s \in opened : s.factor = "none" => s.open = TRUE

LEMMA FactorInit == Init => FactorInv
BY DEF Init, FactorInv, Honest, Carries, Idle

\* A step that moves one request to an honest record, leaves "totp" alone and opens no
\* session keeps the invariant.
LEMMA HonestMove ==
  ASSUME FactorInv, NEW r \in Requests, NEW m, Become(r, m), Honest(m),
         UNCHANGED <<totp, opened>>
  PROVE  FactorInv'
<1>1. DOMAIN req' = Requests
  BY DEF FactorInv, Become
<1>2. ASSUME NEW q \in Requests PROVE Honest(req[q])'
  <2>1. req'[q] = IF q = r THEN m ELSE req[q]
    BY DEF FactorInv, Become
  <2>2. Honest(req'[q])
    BY <2>1 DEF FactorInv
  <2>. QED  BY <2>2 DEF Honest, Carries
<1>. QED  BY <1>1, <1>2 DEF FactorInv

\* A record that carries nothing is honest.
LEMMA BareIsHonest ==
  \A m : m.pc \in {"idle", "miss", "refresh", "confirm"} => Honest(m)
BY DEF Honest, Carries

LEMMA FactorStep == FactorInv /\ [Next]_vars => FactorInv'
<1>. SUFFICES ASSUME FactorInv, [Next]_vars PROVE FactorInv'
  OBVIOUS
<1>1. Honest(Idle) /\ Honest([pc |-> "miss"]) /\ Honest([pc |-> "refresh"])
        /\ Honest([pc |-> "confirm"])
  BY BareIsHonest DEF Idle
<1>2. CASE UNCHANGED <<totp, opened, req>>
  BY <1>2 DEF FactorInv, Honest, Carries
<1>3. CASE Tick
  BY <1>2, <1>3 DEF Tick, account, history
<1>4. CASE Setup
  <2>1. \A q \in Requests : req'[q] = IF "open" \in DOMAIN req[q]
                                     THEN [req[q] EXCEPT !.open = TRUE] ELSE req[q]
    BY <1>4 DEF Setup
  <2>2. ASSUME NEW q \in Requests PROVE Honest(req[q])'
    <3>1. Honest(req[q])
      BY DEF FactorInv
    <3>2. CASE "open" \notin DOMAIN req[q]
      <4>1. ~Carries(req[q]) /\ req'[q] = req[q]
        BY <2>1, <3>1, <3>2 DEF Honest
      <4>. QED  BY <4>1 DEF Honest, Carries
    <3>3. CASE "open" \in DOMAIN req[q]
      <4>1. req'[q] = [req[q] EXCEPT !.open = TRUE]
        BY <2>1, <3>3
      <4>2. req'[q].open = TRUE /\ DOMAIN req'[q] = DOMAIN req[q] /\ req'[q].pc = req[q].pc
        BY <3>3, <4>1
      <4>. QED  BY <3>1, <3>3, <4>2 DEF Honest, Carries
    <3>. QED  BY <3>2, <3>3
  <2>3. DOMAIN req' = Requests /\ opened' = opened
    BY <1>4 DEF Setup
  <2>. QED  BY <2>2, <2>3 DEF FactorInv
<1>5. ASSUME NEW t \in Refreshes, Logout(t) PROVE FactorInv'
  BY <1>2, <1>5 DEF Logout, account, history
<1>6. ASSUME NEW r \in Requests, Login(r) PROVE FactorInv'
  <2>0. Honest(req[r]) /\ r \in DOMAIN req
    BY DEF FactorInv
  <2>1. ASSUME NEW good \in BOOLEAN, LoginRead(r, good) PROVE FactorInv'
    <3>. DEFINE m == [pc |-> "login", good |-> good, lock |-> lockedUntil, totp |-> totp,
                      open |-> ~Confirmed]
    <3>1. Honest(m)
      BY DEF Honest, Carries, Confirmed
    <3>2. Become(r, m) /\ UNCHANGED <<totp, opened>>
      BY <2>1 DEF LoginRead, account, history
    <3>. QED  BY <3>1, <3>2, HonestMove
  <2>2. CASE LoginLocked(r)
    BY <1>1, <2>2, HonestMove DEF LoginLocked, account, history
  <2>3. CASE LoginMiss(r)
    BY <1>1, <2>3, HonestMove DEF LoginMiss, account, history
  <2>4. CASE LoginOpen(r)
    <3>. DEFINE m == [pc |-> "success", factor |-> "none", open |-> req[r].open]
    <3>1. Honest(m)
      BY <2>0, <2>4 DEF LoginOpen, Honest, Carries
    <3>. QED  BY <2>4, <3>1, HonestMove DEF LoginOpen, account, history
  <2>5. CASE LoginPartial(r)
    BY <1>1, <2>5, HonestMove DEF LoginPartial, account, history
  <2>6. CASE RecordFailure(r)
    BY <1>1, <2>6, HonestMove DEF RecordFailure
  <2>7. CASE RecordSuccess(r)
    <3>. DEFINE m == [req[r] EXCEPT !.pc = "store"]
    <3>1. req[r].pc = "success" /\ Become(r, m) /\ UNCHANGED <<totp, opened>>
      BY <2>7 DEF RecordSuccess
    <3>2. Carries(req[r]) /\ "open" \in DOMAIN req[r]
      BY <2>0, <3>1 DEF Honest, Carries
    <3>3. DOMAIN m = DOMAIN req[r] /\ m.open = req[r].open /\ m.factor = req[r].factor
      OBVIOUS
    <3>4. m.pc = "store" /\ "pc" \in DOMAIN m
      BY <2>0, <3>2 DEF Honest
    <3>5. Honest(m)
      BY <2>0, <3>1, <3>2, <3>3, <3>4 DEF Honest, Carries
    <3>. QED  BY <3>1, <3>5, HonestMove
  <2>8. CASE StoreSession(r)
    <3>1. DOMAIN req' = Requests /\ \A q \in Requests : Honest(req[q])'
      <4>1. totp' = totp /\ Become(r, Idle)
        BY <2>8 DEF StoreSession, account
      <4>2. ASSUME NEW q \in Requests PROVE Honest(req[q])'
        <5>1. req'[q] = Idle \/ req'[q] = req[q]
          BY <4>1 DEF Become, FactorInv
        <5>2. Honest(req'[q])
          BY <1>1, <5>1 DEF FactorInv
        <5>. QED  BY <4>1, <5>2 DEF Honest, Carries
      <4>. QED  BY <4>1, <4>2 DEF Become, FactorInv
    <3>2. opened' = opened \cup {[factor |-> req[r].factor, open |-> req[r].open]}
      BY <2>8 DEF StoreSession
    <3>3. req[r].factor = "none" => req[r].open = TRUE
      BY <2>0, <2>8 DEF StoreSession, Honest
    <3>. QED  BY <3>1, <3>2, <3>3 DEF FactorInv
  <2>. QED  BY <1>6, <2>1, <2>2, <2>3, <2>4, <2>5, <2>6, <2>7, <2>8 DEF Login
<1>7. ASSUME NEW r \in Requests, SecondFactor(r) PROVE FactorInv'
  <2>0. Honest(req[r]) /\ r \in DOMAIN req
    BY DEF FactorInv
  <2>1. ASSUME NEW t \in Partials, NEW next, Consume(r, t, next), Honest(next) PROVE FactorInv'
    BY <1>1, <2>1, HonestMove DEF Consume, account
  <2>2. ASSUME NEW t \in Partials, NEW good \in BOOLEAN, TotpConsume(r, t, good)
        PROVE FactorInv'
    <3>1. Honest([pc |-> "totp", good |-> good, open |-> ~Confirmed])
      BY DEF Honest, Carries, Confirmed
    <3>. QED  BY <2>1, <2>2, <3>1 DEF TotpConsume
  <2>3. ASSUME NEW t \in Partials, NEW c \in Codes, BackupConsume(r, t, c) PROVE FactorInv'
    <3>1. Honest([pc |-> "backup", code |-> c, open |-> ~Confirmed])
      BY DEF Honest, Carries, Confirmed
    <3>. QED  BY <2>1, <2>3, <3>1 DEF BackupConsume
  <2>4. CASE TotpRead(r)
    <3>. DEFINE m == [pc |-> "totpRow", good |-> req[r].good, totp |-> totp,
                      open |-> req[r].open]
    <3>1. Honest(m)
      BY <2>0, <2>4 DEF TotpRead, Honest, Carries
    <3>. QED  BY <2>4, <3>1, HonestMove DEF TotpRead, account, history
  <2>5. CASE TotpVerify(r)
    <3>. DEFINE m == IF req[r].totp # "confirmed"
                     THEN [pc |-> "success", factor |-> "none", open |-> req[r].open]
                     ELSE IF req[r].good
                     THEN [pc |-> "success", factor |-> "totp", open |-> req[r].open]
                     ELSE Idle
    <3>1. Honest(m)
      BY <1>1, <2>0, <2>5 DEF TotpVerify, Honest, Carries
    <3>. QED  BY <2>5, <3>1, HonestMove DEF TotpVerify, account, history
  <2>6. CASE BackupRead(r)
    <3>. DEFINE m == [pc |-> "backupRow", code |-> req[r].code, codes |-> codes,
                      open |-> req[r].open]
    <3>1. Honest(m)
      BY <2>0, <2>6 DEF BackupRead, Honest, Carries
    <3>. QED  BY <2>6, <3>1, HonestMove DEF BackupRead, account, history
  <2>7. CASE BackupRefused(r)
    BY <1>1, <2>7, HonestMove DEF BackupRefused, account, history
  <2>8. CASE BackupWrite(r)
    <3>. DEFINE m == [pc |-> "success", factor |-> "backup", open |-> req[r].open]
    <3>1. Honest(m)
      BY <2>0, <2>8 DEF BackupWrite, Honest, Carries
    <3>. QED  BY <2>8, <3>1, HonestMove DEF BackupWrite
  <2>. QED  BY <1>7, <2>2, <2>3, <2>4, <2>5, <2>6, <2>7, <2>8 DEF SecondFactor
<1>8. ASSUME NEW r \in Requests, Session(r) PROVE FactorInv'
  <2>1. ASSUME NEW t \in Refreshes, RefreshValidate(r, t) PROVE FactorInv'
    BY <1>1, <2>1, HonestMove DEF RefreshValidate, account, history
  <2>2. CASE RefreshGrant(r)
    BY <1>1, <2>2, HonestMove DEF RefreshGrant, account
  <2>3. CASE ConfirmRead(r)
    BY <1>1, <2>3, HonestMove DEF ConfirmRead, account, history
  <2>4. CASE ConfirmWrite(r)
    <3>1. totp' = "confirmed" /\ opened' = opened /\ Become(r, Idle)
      BY <2>4 DEF ConfirmWrite
    <3>2. ASSUME NEW q \in Requests PROVE Honest(req[q])'
      <4>1. req'[q] = Idle \/ req'[q] = req[q]
        BY <3>1 DEF Become, FactorInv
      <4>2. Honest(req'[q])
        BY <1>1, <4>1 DEF FactorInv
      <4>. QED  BY <3>1, <4>2 DEF Honest, Carries
    <3>. QED  BY <3>1, <3>2 DEF FactorInv, Become
  <2>. QED  BY <1>8, <2>1, <2>2, <2>3, <2>4 DEF Session
<1>9. CASE UNCHANGED vars
  BY <1>2, <1>9 DEF vars, account, history
<1>. QED  BY <1>3, <1>4, <1>5, <1>6, <1>7, <1>8, <1>9 DEF Next

\* A session without a second factor was opened by a request during which two-factor
\* login was at some time not confirmed, although every request acts on rows it read
\* before other requests changed them.
THEOREM FactorIsRequired == Spec => []SecondFactorRequired
<1>1. FactorInv => SecondFactorRequired
  BY DEF FactorInv, SecondFactorRequired
<1>. QED  BY <1>1, FactorInit, FactorStep, PTL DEF Spec
-----------------------------------------------------------------------------
(* The lock.                                                               *)

\* The requests whose wrong password is answered although the account may be locked by
\* now: they have got past the look at the lock, or will by the row they hold.
Threats == {r \in Requests : \/ req[r].pc = "miss"
                             \/ req[r].pc = "login" /\ req[r].lock <= now}

Sound(m) == "pc" \in DOMAIN m /\ (m.pc = "login" => "lock" \in DOMAIN m /\ m.lock \in Nat)

\* The answered and the threatening ones together leave one request out: the one that
\* locked the account.
LockInv ==
  /\ DOMAIN req = Requests
  /\ \A r \in Requests : Sound(req[r])
  /\ overrun \in Nat
  /\ Locked => overrun + Cardinality(Threats) < Cardinality(Requests)

LEMMA ThreatsFinite ==
  ASSUME NEW T \in SUBSET Requests, NEW S \in SUBSET T
  PROVE  Cardinality(S) \in Nat /\ Cardinality(T) \in Nat /\ Cardinality(S) <= Cardinality(T)
<1>1. IsFiniteSet(T)
  BY RequestsFinite, FS_Subset
<1>2. IsFiniteSet(S) /\ Cardinality(S) <= Cardinality(T)
  BY <1>1, FS_Subset
<1>. QED  BY <1>1, <1>2, FS_CardinalityType

LEMMA LockInit == Init => LockInv
BY DEF Init, LockInv, Sound, Idle, Locked

\* A step that adds no threat to a locked account and answers no wrong password.
LEMMA ThreatsFall ==
  ASSUME LockInv, DOMAIN req' = Requests, \A r \in Requests : Sound(req'[r]),
         overrun' = overrun, Locked' => Locked /\ Threats' \subseteq Threats
  PROVE  LockInv'
<1>1. CASE Locked'
  <2>1. Cardinality(Threats') \in Nat /\ Cardinality(Threats) \in Nat
        /\ Cardinality(Threats') <= Cardinality(Threats) /\ Cardinality(Requests) \in Nat
    BY <1>1, ThreatsFinite DEF Threats
  <2>. QED  BY <1>1, <2>1 DEF LockInv
<1>2. CASE ~Locked'
  BY <1>2 DEF LockInv
<1>. QED  BY <1>1, <1>2

\* A step of one request that is no threat afterwards, or was one before.
LEMMA ThreatMoves ==
  ASSUME LockInv, NEW r \in Requests, NEW m, Become(r, m), Sound(m), overrun' = overrun,
         now' = now, Locked' => Locked,
         Locked /\ m.pc \in {"miss", "login"} =>
           r \in Threats \/ (m.pc = "login" /\ ~(m.lock <= now))
  PROVE  LockInv'
<1>1. DOMAIN req' = Requests /\ \A q \in Requests : req'[q] = IF q = r THEN m ELSE req[q]
  BY DEF LockInv, Become
<1>2. \A q \in Requests : Sound(req'[q])
  BY <1>1 DEF LockInv
<1>3. Locked => Threats' \subseteq Threats
  BY <1>1 DEF Threats
<1>. QED  BY <1>1, <1>2, <1>3, ThreatsFall

\* The failure that locks the account is no threat any more; one that comes while it is
\* locked was one of the threats.
LEMMA LockFailure ==
  ASSUME LockInv, CountInv, NEW r \in Requests, RecordFailure(r) PROVE LockInv'
<1>1. /\ req' = [req EXCEPT ![r] = Idle] /\ now' = now /\ r \in Threats
      /\ overrun' = IF Locked THEN overrun + 1 ELSE 0
  BY DEF RecordFailure, Become, Threats
<1>2. DOMAIN req' = Requests /\ \A q \in Requests : req'[q] = IF q = r THEN Idle ELSE req[q]
  BY <1>1 DEF LockInv
<1>3. \A q \in Requests : Sound(req'[q])
  BY <1>2 DEF LockInv, Sound, Idle
<1>4. Threats' \subseteq Threats \ {r}
  BY <1>1, <1>2 DEF Threats, Idle
<1>5. /\ Cardinality(Threats \ {r}) = Cardinality(Threats) - 1
      /\ Cardinality(Requests \ {r}) = Cardinality(Requests) - 1
  <2>1. IsFiniteSet(Threats)
    BY RequestsFinite, FS_Subset DEF Threats
  <2>. QED  BY <1>1, <2>1, RequestsFinite, FS_RemoveElement
<1>6. Cardinality(Threats') \in Nat /\ Cardinality(Threats) \in Nat /\ Cardinality(Requests) \in Nat
  BY ThreatsFinite DEF Threats
<1>7. Cardinality(Threats') <= Cardinality(Threats) - 1
  <2>1. Threats \ {r} \in SUBSET Requests /\ Threats' \in SUBSET (Threats \ {r})
    BY <1>4 DEF Threats
  <2>. QED  BY <1>5, <2>1, ThreatsFinite
<1>8. Cardinality(Threats') <= Cardinality(Requests) - 1
  <2>1. Requests \ {r} \in SUBSET Requests /\ Threats' \in SUBSET (Requests \ {r})
    BY <1>4 DEF Threats
  <2>. QED  BY <1>5, <2>1, ThreatsFinite
<1>9. CASE Locked
  BY <1>1, <1>2, <1>3, <1>6, <1>7, <1>9 DEF LockInv
<1>10. CASE ~Locked
  BY <1>1, <1>2, <1>3, <1>6, <1>8, <1>10 DEF LockInv
<1>. QED  BY <1>9, <1>10

LEMMA LockStep == LockInv /\ CountInv /\ CountInv' /\ [Next]_vars => LockInv'
<1>. SUFFICES ASSUME LockInv, CountInv, CountInv', [Next]_vars PROVE LockInv'
  OBVIOUS
<1>0. now \in Nat /\ lockedUntil \in Nat
  BY DEF CountInv
<1>1. CASE UNCHANGED <<now, lockedUntil, overrun, req>>
  BY <1>1 DEF LockInv, Locked, Threats
<1>2. CASE Tick
  <2>1. UNCHANGED <<lockedUntil, overrun, req>> /\ now' = now + 1 /\ Prompt
    BY <1>2 DEF Tick, account, history
  <2>2. Locked' => Locked
    BY <1>0, <2>1 DEF Locked
  <2>3. ASSUME Locked', NEW r \in Threats' PROVE r \in Threats
    <3>1. ~(lockedUntil <= now + 1)
      BY <1>0, <2>1, <2>3 DEF Locked
    <3>2. r \in Requests /\ Sound(req[r])
      BY <2>1 DEF LockInv, Threats
    <3>3. req[r].pc = "miss" \/ (req[r].pc = "login" /\ req[r].lock <= now + 1)
      BY <2>1 DEF Threats
    <3>4. req[r].pc = "login" => req[r].lock # now + 1
      BY <2>1, <3>1, <3>2 DEF Prompt
    <3>. QED  BY <1>0, <3>2, <3>3, <3>4 DEF Threats, Sound
  <2>. QED  BY <2>1, <2>2, <2>3, ThreatsFall DEF LockInv
<1>3. CASE Setup
  <2>1. /\ UNCHANGED <<now, lockedUntil, overrun>>
        /\ req' = [r \in Requests |-> IF "open" \in DOMAIN req[r]
                                      THEN [req[r] EXCEPT !.open = TRUE] ELSE req[r]]
    BY <1>3 DEF Setup
  <2>2. ASSUME NEW r \in Requests
        PROVE  Sound(req'[r]) /\ req'[r].pc = req[r].pc
               /\ (req[r].pc = "login" => req'[r].lock = req[r].lock)
    BY <2>1 DEF LockInv, Sound
  <2>3. Threats' \subseteq Threats
    BY <2>1, <2>2 DEF Threats
  <2>. QED  BY <2>1, <2>2, <2>3, ThreatsFall DEF Locked
<1>4. ASSUME NEW t \in Refreshes, Logout(t) PROVE LockInv'
  BY <1>1, <1>4 DEF Logout, account, history
<1>5. ASSUME NEW r \in Requests, Login(r) PROVE LockInv'
  <2>0. Sound(req[r])
    BY DEF LockInv
  <2>1. ASSUME NEW good \in BOOLEAN, LoginRead(r, good) PROVE LockInv'
    <3>. DEFINE m == [pc |-> "login", good |-> good, lock |-> lockedUntil, totp |-> totp,
                      open |-> ~Confirmed]
    <3>1. Sound(m) /\ m.pc = "login" /\ m.lock = lockedUntil
      BY <1>0 DEF Sound
    <3>2. Become(r, m) /\ UNCHANGED <<now, lockedUntil, overrun>>
      BY <2>1 DEF LoginRead, account, history
    <3>. HIDE DEF m
    <3>3. Locked => ~(m.lock <= now)
      BY <1>0, <3>1 DEF Locked
    <3>. QED  BY <3>1, <3>2, <3>3, ThreatMoves DEF Locked
  <2>2. CASE LoginLocked(r)
    BY <2>2, ThreatMoves DEF LoginLocked, Idle, Sound, Locked, account, history
  <2>3. CASE LoginMiss(r)
    <3>1. r \in Threats
      BY <2>3 DEF LoginMiss, Threats
    <3>. QED  BY <2>3, <3>1, ThreatMoves DEF LoginMiss, Sound, Locked, account, history
  <2>4. CASE LoginOpen(r)
    BY <2>4, ThreatMoves DEF LoginOpen, Sound, Locked, account, history
  <2>5. CASE LoginPartial(r)
    BY <2>5, ThreatMoves DEF LoginPartial, Idle, Sound, Locked, account, history
  <2>6. CASE RecordFailure(r)
    BY <2>6, LockFailure
  <2>7. CASE RecordSuccess(r)
    <3>. DEFINE m == [req[r] EXCEPT !.pc = "store"]
    <3>1. "pc" \in DOMAIN m /\ m.pc = "store"
      BY <2>0 DEF Sound
    <3>2. /\ Become(r, m) /\ now' = now /\ overrun' = 0 /\ lockedUntil' = 0
      BY <2>7 DEF RecordSuccess
    <3>. HIDE DEF m
    <3>3. ~Locked'
      BY <1>0, <3>2 DEF Locked
    <3>4. DOMAIN req' = Requests /\ \A q \in Requests : Sound(req'[q])
      BY <3>1, <3>2 DEF LockInv, Become, Sound
    <3>. QED  BY <3>2, <3>3, <3>4 DEF LockInv
  <2>8. CASE StoreSession(r)
    BY <2>8, ThreatMoves DEF StoreSession, Idle, Sound, Locked, account
  <2>. QED  BY <1>5, <2>1, <2>2, <2>3, <2>4, <2>5, <2>6, <2>7, <2>8 DEF Login
<1>6. ASSUME NEW r \in Requests, SecondFactor(r) PROVE LockInv'
  <2>1. ASSUME NEW t \in Partials, NEW next, Consume(r, t, next), "pc" \in DOMAIN next,
               next.pc \in {"totp", "backup"}
        PROVE  LockInv'
    <3>. DEFINE m == IF Accepted(t) THEN next ELSE Idle
    <3>1. Sound(m) /\ m.pc \notin {"miss", "login"}
      BY <2>1 DEF Sound, Idle
    <3>2. Become(r, m) /\ UNCHANGED <<now, lockedUntil, overrun>>
      BY <2>1 DEF Consume, account
    <3>. HIDE DEF m
    <3>. QED  BY <3>1, <3>2, ThreatMoves DEF Locked
  <2>2. CASE \E t \in Partials : \E good \in BOOLEAN : TotpConsume(r, t, good)
    BY <2>1, <2>2 DEF TotpConsume
  <2>3. CASE \E t \in Partials : \E c \in Codes : BackupConsume(r, t, c)
    BY <2>1, <2>3 DEF BackupConsume
  <2>4. CASE TotpRead(r)
    BY <2>4, ThreatMoves DEF TotpRead, Sound, Locked, account, history
  <2>5. CASE TotpVerify(r)
    BY <2>5, ThreatMoves DEF TotpVerify, Idle, Sound, Locked, account, history
  <2>6. CASE BackupRead(r)
    BY <2>6, ThreatMoves DEF BackupRead, Sound, Locked, account, history
  <2>7. CASE BackupRefused(r)
    BY <2>7, ThreatMoves DEF BackupRefused, Idle, Sound, Locked, account, history
  <2>8. CASE BackupWrite(r)
    BY <2>8, ThreatMoves DEF BackupWrite, Sound, Locked
  <2>. QED  BY <1>6, <2>2, <2>3, <2>4, <2>5, <2>6, <2>7, <2>8 DEF SecondFactor
<1>7. ASSUME NEW r \in Requests, Session(r) PROVE LockInv'
  <2>1. ASSUME NEW t \in Refreshes, RefreshValidate(r, t) PROVE LockInv'
    BY <2>1, ThreatMoves DEF RefreshValidate, Idle, Sound, Locked, account, history
  <2>2. CASE RefreshGrant(r)
    BY <2>2, ThreatMoves DEF RefreshGrant, Idle, Sound, Locked, account
  <2>3. CASE ConfirmRead(r)
    BY <2>3, ThreatMoves DEF ConfirmRead, Sound, Locked, account, history
  <2>4. CASE ConfirmWrite(r)
    BY <2>4, ThreatMoves DEF ConfirmWrite, Idle, Sound, Locked
  <2>. QED  BY <1>7, <2>1, <2>2, <2>3, <2>4 DEF Session
<1>8. CASE UNCHANGED vars
  BY <1>1, <1>8 DEF vars, account, history
<1>. QED  BY <1>2, <1>3, <1>4, <1>5, <1>6, <1>7, <1>8 DEF Next

\* However many requests try passwords at the same time, fewer of them than there are
\* requests at a time are answered after the account is locked.
THEOREM LockHolds == Spec => []LockStopsAttempts
<1>1. LockInv => LockStopsAttempts
  <2>. SUFFICES ASSUME LockInv, Locked PROVE overrun < Cardinality(Requests)
    BY DEF LockStopsAttempts
  <2>1. Cardinality(Threats) \in Nat /\ Cardinality(Requests) \in Nat
    BY ThreatsFinite DEF Threats
  <2>. QED  BY <2>1 DEF LockInv
<1>. QED  BY <1>1, CountInit, CountStep, LockInit, LockStep, PTL DEF Spec

-----------------------------------------------------------------------------
(* The types.  What a request carries depends on where it stands.           *)

AtLogin == [pc : {"login"}, good : BOOLEAN, lock : Nat, totp : TotpStates, open : BOOLEAN]
AtTotp == [pc : {"totp"}, good : BOOLEAN, open : BOOLEAN]
AtTotpRow == [pc : {"totpRow"}, good : BOOLEAN, totp : TotpStates, open : BOOLEAN]
AtBackup == [pc : {"backup"}, code : Codes, open : BOOLEAN]
AtBackupRow == [pc : {"backupRow"}, code : Codes, codes : SUBSET Codes, open : BOOLEAN]
AtSession == [pc : {"success", "store"}, factor : Factors, open : BOOLEAN]
Bare == {Idle} \cup [pc : {"miss"}] \cup [pc : {"refresh"}] \cup [pc : {"confirm"}]

LEMMA RecordsSplit ==
  RequestRecords =
    Bare \cup AtLogin \cup AtTotp \cup AtTotpRow \cup AtBackup \cup AtBackupRow \cup AtSession
BY DEF RequestRecords, Bare, AtLogin, AtTotp, AtTotpRow, AtBackup, AtBackupRow, AtSession

LEMMA BareRecords ==
  {Idle, [pc |-> "miss"], [pc |-> "refresh"], [pc |-> "confirm"]} \subseteq RequestRecords
BY RecordsSplit DEF Bare

\* Where a request stands tells what it carries.
LEMMA RecordAt ==
  ASSUME NEW m \in RequestRecords
  PROVE  /\ m.pc = "login" => m \in AtLogin
         /\ m.pc = "totp" => m \in AtTotp
         /\ m.pc = "totpRow" => m \in AtTotpRow
         /\ m.pc = "backup" => m \in AtBackup
         /\ m.pc = "backupRow" => m \in AtBackupRow
         /\ m.pc \in {"success", "store"} => m \in AtSession
<1>1. m \in Bare => m.pc \in {"idle", "miss", "refresh", "confirm"}
  BY DEF Bare, Idle
<1>2. /\ m \in AtLogin => m.pc = "login"
      /\ m \in AtTotp => m.pc = "totp"
      /\ m \in AtTotpRow => m.pc = "totpRow"
      /\ m \in AtBackup => m.pc = "backup"
      /\ m \in AtBackupRow => m.pc = "backupRow"
      /\ m \in AtSession => m.pc \in {"success", "store"}
  BY DEF AtLogin, AtTotp, AtTotpRow, AtBackup, AtBackupRow, AtSession
<1>3. m \in Bare \cup AtLogin \cup AtTotp \cup AtTotpRow \cup AtBackup \cup AtBackupRow \cup AtSession
  BY RecordsSplit
<1>. QED  BY <1>1, <1>2, <1>3

\* A request that remembers whether two-factor login was off still does when it is told.
LEMMA RecordOpened ==
  ASSUME NEW m \in RequestRecords, "open" \in DOMAIN m
  PROVE  [m EXCEPT !.open = TRUE] \in RequestRecords
<1>1. m \notin Bare
  BY DEF Bare, Idle
<1>2. m \in AtLogin => [m EXCEPT !.open = TRUE] \in AtLogin
  BY DEF AtLogin
<1>3. m \in AtTotp => [m EXCEPT !.open = TRUE] \in AtTotp
  BY DEF AtTotp
<1>4. m \in AtTotpRow => [m EXCEPT !.open = TRUE] \in AtTotpRow
  BY DEF AtTotpRow
<1>5. m \in AtBackup => [m EXCEPT !.open = TRUE] \in AtBackup
  BY DEF AtBackup
<1>6. m \in AtBackupRow => [m EXCEPT !.open = TRUE] \in AtBackupRow
  BY DEF AtBackupRow
<1>7. m \in AtSession => [m EXCEPT !.open = TRUE] \in AtSession
  BY DEF AtSession
<1>. QED  BY <1>1, <1>2, <1>3, <1>4, <1>5, <1>6, <1>7, RecordsSplit

ReqTyped == req \in [Requests -> RequestRecords]

LEMMA ReqMove ==
  ASSUME ReqTyped, NEW r \in Requests, NEW m \in RequestRecords, Become(r, m)
  PROVE  ReqTyped'
BY DEF ReqTyped, Become

LEMMA LoginTyped ==
  ASSUME TypeOK, ReqTyped, NEW r \in Requests, Login(r) PROVE ReqTyped'
<1>0. req[r] \in RequestRecords
  BY DEF ReqTyped
<1>1. ASSUME NEW good \in BOOLEAN, LoginRead(r, good) PROVE ReqTyped'
  <2>. DEFINE m == [pc |-> "login", good |-> good, lock |-> lockedUntil, totp |-> totp,
                    open |-> ~Confirmed]
  <2>1. m \in AtLogin
    BY DEF AtLogin, TypeOK, Confirmed
  <2>2. Become(r, m)
    BY <1>1 DEF LoginRead
  <2>. HIDE DEF m
  <2>. QED  BY <2>1, <2>2, ReqMove, RecordsSplit
<1>2. CASE LoginLocked(r) \/ LoginMiss(r) \/ LoginPartial(r) \/ RecordFailure(r) \/ StoreSession(r)
  <2>1. Become(r, Idle) \/ Become(r, [pc |-> "miss"])
    BY <1>2 DEF LoginLocked, LoginMiss, LoginPartial, RecordFailure, StoreSession
  <2>. QED  BY <2>1, ReqMove, BareRecords
<1>3. CASE LoginOpen(r)
  <2>. DEFINE m == [pc |-> "success", factor |-> "none", open |-> req[r].open]
  <2>1. req[r] \in AtLogin
    BY <1>0, <1>3, RecordAt DEF LoginOpen
  <2>2. m \in AtSession
    BY <2>1 DEF AtLogin, AtSession, Factors
  <2>3. Become(r, m)
    BY <1>3 DEF LoginOpen
  <2>. HIDE DEF m
  <2>. QED  BY <2>2, <2>3, ReqMove, RecordsSplit
<1>4. CASE RecordSuccess(r)
  <2>. DEFINE m == [req[r] EXCEPT !.pc = "store"]
  <2>1. req[r] \in AtSession
    BY <1>0, <1>4, RecordAt DEF RecordSuccess
  <2>2. m \in AtSession
    BY <2>1 DEF AtSession
  <2>3. Become(r, m)
    BY <1>4 DEF RecordSuccess
  <2>. HIDE DEF m
  <2>. QED  BY <2>2, <2>3, ReqMove, RecordsSplit
<1>. QED  BY <1>1, <1>2, <1>3, <1>4 DEF Login

LEMMA SecondFactorTyped ==
  ASSUME TypeOK, ReqTyped, NEW r \in Requests, SecondFactor(r) PROVE ReqTyped'
<1>0. req[r] \in RequestRecords
  BY DEF ReqTyped
<1>1. ASSUME NEW t \in Partials, NEW m \in RequestRecords, Consume(r, t, m) PROVE ReqTyped'
  <2>1. Become(r, m) \/ Become(r, Idle)
    BY <1>1 DEF Consume
  <2>. QED  BY <2>1, ReqMove, BareRecords
<1>2. ASSUME NEW t \in Partials, NEW good \in BOOLEAN, TotpConsume(r, t, good) PROVE ReqTyped'
  <2>. DEFINE m == [pc |-> "totp", good |-> good, open |-> ~Confirmed]
  <2>1. m \in AtTotp
    BY DEF AtTotp, Confirmed
  <2>2. Consume(r, t, m)
    BY <1>2 DEF TotpConsume
  <2>. HIDE DEF m
  <2>. QED  BY <1>1, <2>1, <2>2, RecordsSplit
<1>3. ASSUME NEW t \in Partials, NEW c \in Codes, BackupConsume(r, t, c) PROVE ReqTyped'
  <2>. DEFINE m == [pc |-> "backup", code |-> c, open |-> ~Confirmed]
  <2>1. m \in AtBackup
    BY DEF AtBackup, Confirmed
  <2>2. Consume(r, t, m)
    BY <1>3 DEF BackupConsume
  <2>. HIDE DEF m
  <2>. QED  BY <1>1, <2>1, <2>2, RecordsSplit
<1>4. CASE TotpRead(r)
  <2>. DEFINE m == [pc |-> "totpRow", good |-> req[r].good, totp |-> totp, open |-> req[r].open]
  <2>1. req[r] \in AtTotp
    BY <1>0, <1>4, RecordAt DEF TotpRead
  <2>2. m \in AtTotpRow
    BY <2>1 DEF AtTotp, AtTotpRow, TypeOK
  <2>3. Become(r, m)
    BY <1>4 DEF TotpRead
  <2>. HIDE DEF m
  <2>. QED  BY <2>2, <2>3, ReqMove, RecordsSplit
<1>5. CASE TotpVerify(r)
  <2>. DEFINE m(f) == [pc |-> "success", factor |-> f, open |-> req[r].open]
  <2>1. req[r] \in AtTotpRow
    BY <1>0, <1>5, RecordAt DEF TotpVerify
  <2>2. m("none") \in AtSession /\ m("totp") \in AtSession
    BY <2>1 DEF AtTotpRow, AtSession, Factors
  <2>3. Become(r, m("none")) \/ Become(r, m("totp")) \/ Become(r, Idle)
    BY <1>5 DEF TotpVerify
  <2>. HIDE DEF m
  <2>. QED  BY <2>2, <2>3, ReqMove, RecordsSplit, BareRecords
<1>6. CASE BackupRead(r)
  <2>. DEFINE m == [pc |-> "backupRow", code |-> req[r].code, codes |-> codes, open |-> req[r].open]
  <2>1. req[r] \in AtBackup
    BY <1>0, <1>6, RecordAt DEF BackupRead
  <2>2. m \in AtBackupRow
    BY <2>1 DEF AtBackup, AtBackupRow, TypeOK
  <2>3. Become(r, m)
    BY <1>6 DEF BackupRead
  <2>. HIDE DEF m
  <2>. QED  BY <2>2, <2>3, ReqMove, RecordsSplit
<1>7. CASE BackupRefused(r)
  BY <1>7, ReqMove, BareRecords DEF BackupRefused
<1>8. CASE BackupWrite(r)
  <2>. DEFINE m == [pc |-> "success", factor |-> "backup", open |-> req[r].open]
  <2>1. req[r] \in AtBackupRow
    BY <1>0, <1>8, RecordAt DEF BackupWrite
  <2>2. m \in AtSession
    BY <2>1 DEF AtBackupRow, AtSession, Factors
  <2>3. Become(r, m)
    BY <1>8 DEF BackupWrite
  <2>. HIDE DEF m
  <2>. QED  BY <2>2, <2>3, ReqMove, RecordsSplit
<1>. QED  BY <1>2, <1>3, <1>4, <1>5, <1>6, <1>7, <1>8 DEF SecondFactor

LEMMA ReqStep == ASSUME TypeOK, Next PROVE ReqTyped'
<1>0. ReqTyped
  BY DEF TypeOK, ReqTyped
<1>1. CASE UNCHANGED req
  BY <1>0, <1>1 DEF ReqTyped
<1>2. CASE Tick \/ \E t \in Refreshes : Logout(t)
  BY <1>1, <1>2 DEF Tick, Logout
<1>3. CASE Setup
  <2>1. req' = [r \in Requests |-> IF "open" \in DOMAIN req[r]
                                   THEN [req[r] EXCEPT !.open = TRUE] ELSE req[r]]
    BY <1>3 DEF Setup
  <2>2. ASSUME NEW r \in Requests PROVE req'[r] \in RequestRecords
    <3>1. req[r] \in RequestRecords
      BY <1>0 DEF ReqTyped
    <3>2. req'[r] = IF "open" \in DOMAIN req[r] THEN [req[r] EXCEPT !.open = TRUE] ELSE req[r]
      BY <2>1
    <3>3. CASE "open" \in DOMAIN req[r]
      BY <3>1, <3>2, <3>3, RecordOpened
    <3>. QED  BY <3>1, <3>2, <3>3
  <2>. HIDE DEF ReqTyped
  <2>3. req' = [r \in Requests |-> req'[r]]
    BY <2>1
  <2>. QED  BY <2>2, <2>3 DEF ReqTyped
<1>4. ASSUME NEW r \in Requests, Session(r) PROVE ReqTyped'
  <2>1. Become(r, Idle) \/ Become(r, [pc |-> "refresh"]) \/ Become(r, [pc |-> "confirm"])
    BY <1>4 DEF Session, RefreshValidate, RefreshGrant, ConfirmRead, ConfirmWrite
  <2>. QED  BY <1>0, <2>1, ReqMove, BareRecords
<1>. QED
  BY <1>0, <1>2, <1>3, <1>4, LoginTyped, SecondFactorTyped DEF Next

\* Everything but the requests.
TablesOK ==
  /\ now \in 0 .. MaxTime
  /\ failed \in 0 .. MaxFailures /\ lockedUntil \in Nat
  /\ totp \in TotpStates /\ codes \subseteq Codes
  /\ expires \in [Refreshes -> Int] /\ revoked \subseteq Refreshes /\ accessUntil \in Nat
  /\ created \in [Partials -> -1 .. now] /\ partials \in 0 .. MaxPartials
  /\ misses \in Nat /\ overrun \in Nat
  /\ passes \in [Partials -> Nat] /\ spent \in [Codes -> Nat]
  /\ opened \subseteq [factor : Factors, open : BOOLEAN]
  /\ setups \in 0 .. MaxSetups

LEMMA TablesStep == ASSUME TypeOK, Next PROVE TablesOK'
<1>0. TablesOK /\ ReqTyped
  BY DEF TypeOK, TablesOK, ReqTyped
<1>. USE DEF TablesOK
<1>1. CASE UNCHANGED <<now, account, tokens, history>>
  BY <1>0, <1>1 DEF account, tokens, history
<1>2. CASE Tick
  <2>1. now' = now + 1 /\ now < MaxTime /\ UNCHANGED <<account, tokens, history>>
    BY <1>2 DEF Tick
  <2>2. created \in [Partials -> -1 .. now + 1]
    <3>1. \A t \in Partials : created[t] \in -1 .. now + 1
      BY <1>0
    <3>. QED  BY <1>0, <3>1
  <2>. QED  BY <1>0, <2>1, <2>2 DEF account, tokens, history
<1>3. CASE Setup
  BY <1>0, <1>3 DEF Setup, tokens, TotpStates
<1>4. ASSUME NEW t \in Refreshes, Logout(t) PROVE TablesOK'
  BY <1>0, <1>4 DEF Logout, account, history
<1>5. ASSUME NEW r \in Requests, Login(r) PROVE TablesOK'
  <2>1. CASE (\E good \in BOOLEAN : LoginRead(r, good)) \/ LoginLocked(r) \/ LoginMiss(r) \/ LoginOpen(r)
    BY <1>1, <2>1 DEF LoginRead, LoginLocked, LoginMiss, LoginOpen
  <2>2. CASE LoginPartial(r)
    <3>1. partials + 1 \in Partials /\ now \in -1 .. now
      BY <1>0, <2>2 DEF LoginPartial, Partials
    <3>. QED  BY <1>0, <2>2, <3>1 DEF LoginPartial, account, history, Partials
  <2>3. CASE RecordFailure(r)
    BY <1>0, <2>3 DEF RecordFailure, tokens
  <2>4. CASE RecordSuccess(r)
    BY <1>0, <2>4 DEF RecordSuccess, tokens
  <2>5. CASE StoreSession(r)
    <3>1. req[r] \in AtSession
      BY <1>0, <2>5, RecordAt DEF StoreSession, ReqTyped
    <3>2. [factor |-> req[r].factor, open |-> req[r].open] \in [factor : Factors, open : BOOLEAN]
      BY <3>1 DEF AtSession
    <3>3. PICK t \in Refreshes : expires' = [expires EXCEPT ![t] = now + RefreshLife]
      BY <2>5 DEF StoreSession
    <3>4. expires' \in [Refreshes -> Int] /\ accessUntil' \in Nat
      BY <1>0, <2>5, <3>3 DEF StoreSession
    <3>5. opened' \subseteq [factor : Factors, open : BOOLEAN]
      BY <1>0, <2>5, <3>2 DEF StoreSession
    <3>. QED  BY <1>0, <2>5, <3>4, <3>5 DEF StoreSession, account
  <2>. QED  BY <1>5, <2>1, <2>2, <2>3, <2>4, <2>5 DEF Login
<1>6. ASSUME NEW r \in Requests, SecondFactor(r) PROVE TablesOK'
  <2>1. ASSUME NEW t \in Partials, NEW m, Consume(r, t, m) PROVE TablesOK'
    <3>1. created' \in [Partials -> -1 .. now] /\ passes' \in [Partials -> Nat]
      BY <1>0, <2>1 DEF Consume
    <3>. QED  BY <1>0, <2>1, <3>1 DEF Consume, account
  <2>2. CASE TotpRead(r) \/ TotpVerify(r) \/ BackupRead(r) \/ BackupRefused(r)
    BY <1>1, <2>2 DEF TotpRead, TotpVerify, BackupRead, BackupRefused
  <2>3. CASE BackupWrite(r)
    <3>1. req[r] \in AtBackupRow
      BY <1>0, <2>3, RecordAt DEF BackupWrite, ReqTyped
    <3>2. req[r].code \in Codes /\ req[r].codes \subseteq Codes
      BY <3>1 DEF AtBackupRow
    <3>. QED  BY <1>0, <2>3, <3>2 DEF BackupWrite, tokens
  <2>. QED  BY <1>6, <2>1, <2>2, <2>3 DEF SecondFactor, TotpConsume, BackupConsume
<1>7. ASSUME NEW r \in Requests, Session(r) PROVE TablesOK'
  <2>1. CASE (\E t \in Refreshes : RefreshValidate(r, t)) \/ ConfirmRead(r)
    BY <1>1, <2>1 DEF RefreshValidate, ConfirmRead
  <2>2. CASE RefreshGrant(r)
    BY <1>0, <2>2 DEF RefreshGrant, account
  <2>3. CASE ConfirmWrite(r)
    BY <1>0, <2>3 DEF ConfirmWrite, tokens, TotpStates
  <2>. QED  BY <1>7, <2>1, <2>2, <2>3 DEF Session
<1>. QED  BY <1>2, <1>3, <1>4, <1>5, <1>6, <1>7 DEF Next

\* The tables, the tokens and what every request carries have their types; a partial token
\* is never dated later than now (auth.py, sqlite_manager.py).
THEOREM AuthTyped == Spec => []TypeOK
<1>1. Init => TypeOK
  <2>. SUFFICES ASSUME Init PROVE TypeOK
    OBVIOUS
  <2>1. ReqTyped
    BY BareRecords DEF Init, ReqTyped
  <2>2. TablesOK
    BY DEF Init, TablesOK, TotpStates
  <2>. QED  BY <2>1, <2>2 DEF TypeOK, TablesOK, ReqTyped
<1>2. TypeOK /\ [Next]_vars => TypeOK'
  <2>. SUFFICES ASSUME TypeOK, [Next]_vars PROVE TypeOK'
    OBVIOUS
  <2>1. CASE Next
    BY <2>1, ReqStep, TablesStep DEF TypeOK, TablesOK, ReqTyped
  <2>2. CASE UNCHANGED vars
    BY <2>2 DEF vars, account, tokens, history, TypeOK
  <2>. QED  BY <2>1, <2>2
<1>. QED  BY <1>1, <1>2, PTL DEF Spec
=============================================================================
