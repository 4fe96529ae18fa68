---------------------------- MODULE LoginLimiter ----------------------------
(***************************************************************************)
(* The brute-force limiter of the login (internal/auth/limiter.go) as the   *)
(* login handler drives it (internal/api/auth.go authLogin): the handler    *)
(* asks Allow, verifies the password, which takes a bcrypt comparison's     *)
(* time, and only then reports Fail or Reset.  Each of the three is a       *)
(* critical section of its own, so any number of handlers are in between.   *)
(*                                                                         *)
(* Time is a natural number; 0 is Go's zero time.                          *)
(***************************************************************************)
EXTENDS Naturals, Sequences, FiniteSets

CONSTANTS
  Keys,       \* client addresses
  LoginHandlers, \* goroutines serving a login, one at a time each
  NoKey,      \* a handler that serves none
  IP, Global, \* the limits: [max, window, lockout]
  MaxNow      \* bound on the clock

Limits == [max : Nat \ {0}, window : Nat, lockout : Nat \ {0}]

ASSUME LimitsAssumption == IP \in Limits /\ Global \in Limits
ASSUME NoKeyAssumption == NoKey \notin Keys

VARIABLES
  now,     \* the clock
  fails,   \* LoginLimiter.fails: a partial function from keys to records
  global,  \* LoginLimiter.global
  login,   \* per handler, where authLogin is: [step, key]
  hist     \* history: per key, when it failed since its last lock or Reset

loginVars == <<now, fails, global, login, hist>>

FailRecord == [fails : Nat, start : Nat, until : Nat]
Zero == [fails |-> 0, start |-> 0, until |-> 0]
Away == [step |-> "idle", key |-> NoKey]

LoginInit ==
  /\ now = 1
  /\ fails = <<>>
  /\ global = Zero
  /\ login = [h \in LoginHandlers |-> Away]
  /\ hist = [k \in Keys |-> <<>>]

Blocked(rec, t) == t < rec.until

(* recordLocked: the record of a key, created when it is missing            *)
Of(k) == IF k \in DOMAIN fails THEN fails[k] ELSE Zero
With(k, rec) == [j \in DOMAIN fails \cup {k} |-> IF j = k THEN rec ELSE fails[j]]

(* Whether the window a failure would be counted in has run out.            *)
Expired(rec, limit, t) == rec.start = 0 \/ t - rec.start > limit.window

(* Mutant: an expired window starts over without a new start.               *)
BumpStale(rec, limit, t) ==
  LET n == IF Expired(rec, limit, t) THEN 1 ELSE rec.fails + 1 IN
    IF n >= limit.max
    THEN [fails |-> 0, start |-> 0, until |-> t + limit.lockout]
    ELSE [rec EXCEPT !.fails = n, !.start = IF @ = 0 THEN t ELSE @]

(* bump                                                                    *)
Bump(rec, limit, t) ==
  LET n == IF Expired(rec, limit, t) THEN 1 ELSE rec.fails + 1 IN
    IF n >= limit.max
    THEN [fails |-> 0, start |-> 0, until |-> t + limit.lockout]
    ELSE [rec EXCEPT !.fails = n, !.start = IF Expired(rec, limit, t) THEN t ELSE @]

(* Mutant: a failure during the lock starts the lock anew.                  *)
CountAlways(rec, limit, t) ==
  [Bump(rec, limit, t) EXCEPT !.until = IF Blocked(rec, t) THEN t + limit.lockout ELSE @]

(* Fail leaves a record alone while it is locked.                           *)
Count(rec, limit, t) == IF Blocked(rec, t) THEN rec ELSE Bump(rec, limit, t)

(* evictLocked                                                             *)
Evict(f, t) == [k \in {j \in DOMAIN f : Blocked(f[j], t) \/ f[j].fails # 0} |-> f[k]]

-----------------------------------------------------------------------------
(* Time passes.                                                             *)
Tick ==
  /\ now < MaxNow
  /\ now' = now + 1
  /\ UNCHANGED <<fails, global, login, hist>>

(* Allow: while the global lock holds the key's record is not even looked up *)
Allow(h, k) ==
  /\ login[h].step = "idle"
  /\ fails' = IF Blocked(global, now) THEN fails ELSE With(k, Of(k))
  /\ login' = [login EXCEPT ![h] =
       [step |-> IF Blocked(global, now) \/ Blocked(Of(k), now) THEN "refused" ELSE "verify", key |-> k]]
  /\ UNCHANGED <<now, global, hist>>

(* RetryAfter, for the text of the 429 response                             *)
RetryAfter(h) ==
  /\ login[h].step = "refused"
  /\ fails' = With(login[h].key, Of(login[h].key))
  /\ login' = [login EXCEPT ![h] = Away]
  /\ UNCHANGED <<now, global, hist>>

(* VerifyLogin failed, for whatever reason                                  *)
Fail(h) ==
  /\ login[h].step = "verify"
  /\ LET k   == login[h].key
         rec == Count(Of(k), IP, now)
     IN  /\ fails' = Evict(With(k, rec), now)
         /\ hist' = [hist EXCEPT ![k] =
              IF Blocked(Of(k), now) THEN @
              ELSE IF k \in DOMAIN fails' /\ Blocked(fails'[k], now) THEN <<>>
              ELSE Append(@, now)]
  /\ global' = Count(global, Global, now)
  /\ login' = [login EXCEPT ![h] = Away]
  /\ UNCHANGED now

(* Mutant: a success also clears the global record.                         *)
ResetAll(h) ==
  /\ login[h].step = "verify"
  /\ fails' = [k \in DOMAIN fails \ {login[h].key} |-> fails[k]]
  /\ hist' = [hist EXCEPT ![login[h].key] = <<>>]
  /\ login' = [login EXCEPT ![h] = Away]
  /\ global' = Zero
  /\ UNCHANGED now

(* VerifyLogin succeeded: Reset                                             *)
Reset(h) ==
  /\ login[h].step = "verify"
  /\ fails' = [k \in DOMAIN fails \ {login[h].key} |-> fails[k]]
  /\ hist' = [hist EXCEPT ![login[h].key] = <<>>]
  /\ login' = [login EXCEPT ![h] = Away]
  /\ UNCHANGED <<now, global>>

ServeLogin(h) == (\E k \in Keys : Allow(h, k)) \/ RetryAfter(h) \/ Fail(h) \/ Reset(h)

LoginNext == Tick \/ \E h \in LoginHandlers : ServeLogin(h)

LoginSpec == LoginInit /\ [][LoginNext]_loginVars

-----------------------------------------------------------------------------
(* Properties.                                                              *)

(* Type invariant; a record never holds as many failures as lock it, and no *)
(* lock reaches further than one lockout ahead.                             *)
LimiterTypeOK ==
  /\ now \in Nat
  /\ DOMAIN fails \subseteq Keys
  /\ \A k \in DOMAIN fails :
       fails[k] \in FailRecord /\ fails[k].fails < IP.max /\ fails[k].until <= now + IP.lockout
  /\ global \in FailRecord /\ global.fails < Global.max /\ global.until <= now + Global.lockout
  /\ login \in [LoginHandlers -> [step : {"idle", "refused", "verify"}, key : Keys \cup {NoKey}]]
  /\ \A h \in LoginHandlers : login[h].step # "idle" => login[h].key \in Keys

(* Fail's comment: a lock is neither extended by failures of handlers that  *)
(* were let in before it, nor forgotten by the eviction; only a login that  *)
(* succeeds lifts it early, and then the whole record goes.                 *)
LockHolds ==
  [][\A k \in DOMAIN fails : Blocked(fails[k], now) =>
       \/ k \in DOMAIN fails' /\ fails'[k] = fails[k]
       \/ k \notin DOMAIN fails' /\ \E h \in LoginHandlers : login[h].key = k /\ Reset(h)]_loginVars

(* limiter.go: the global lock is the backstop against changing addresses;  *)
(* nothing lifts it early, not even a login that succeeds.                  *)
GlobalLockHolds == [][Blocked(global, now) => global' = global]_loginVars

(* What the counting window gives: between two locks or Resets, no span of  *)
(* one window holds more than 2 * (max - 1) failures of one key: the one    *)
(* that comes so many later comes after it.                                 *)
FailuresBounded ==
  \A k \in Keys : \A i \in DOMAIN hist[k] :
    LET j == i + 2 * (IP.max - 1)
    IN  j \in DOMAIN hist[k] => hist[k][j] > hist[k][i] + IP.window
=============================================================================
