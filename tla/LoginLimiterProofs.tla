------------------------- MODULE LoginLimiterProofs -------------------------
(* Theorems about LoginLimiter, for any addresses, handlers and limits.     *)
EXTENDS LoginLimiter, TLAPS

(* Every record below a limit at a time is one bump and Allow can produce.  *)
Sound(rec, limit, t) == rec \in FailRecord /\ rec.fails < limit.max /\ rec.until <= t + limit.lockout

(* An untouched record is one.                                              *)
LEMMA ZeroSound == ASSUME NEW limit \in Limits, NEW t \in Nat PROVE Sound(Zero, limit, t)
  BY DEF Sound, Zero, FailRecord, Limits

(* bump keeps a record below its limit.                                     *)
LEMMA CountSound ==
  ASSUME NEW limit \in Limits, NEW t \in Nat, NEW rec, Sound(rec, limit, t)
  PROVE  Sound(Count(rec, limit, t), limit, t)
<1> DEFINE n == IF Expired(rec, limit, t) THEN 1 ELSE rec.fails + 1
<1>1. n \in Nat /\ limit.max \in Nat /\ limit.lockout \in Nat /\ limit.max > 0
  BY DEF Sound, FailRecord, Limits
<1>2. CASE n >= limit.max
  <2>1. Bump(rec, limit, t) = [fails |-> 0, start |-> 0, until |-> t + limit.lockout]
    BY <1>2 DEF Bump
  <2>2. Sound(Bump(rec, limit, t), limit, t)
    BY <1>1, <2>1 DEF Sound, FailRecord
  <2>3. QED
    BY <2>2 DEF Count
<1>3. CASE ~(n >= limit.max)
  <2>1. PICK st \in Nat : Bump(rec, limit, t) = [rec EXCEPT !.fails = n, !.start = st]
    BY <1>3 DEF Bump, Sound, FailRecord
  <2> HIDE DEF n
  <2>2. n < limit.max
    BY <1>1, <1>3
  <2>3. LET b == [rec EXCEPT !.fails = n, !.start = st] IN
        b \in FailRecord /\ b.fails = n /\ b.until = rec.until
    BY <1>1 DEF Sound, FailRecord
  <2>4. Sound(Bump(rec, limit, t), limit, t)
    BY <2>1, <2>2, <2>3 DEF Sound
  <2>5. QED
    BY <2>4 DEF Count
<1>4. QED
  BY <1>2, <1>3

-----------------------------------------------------------------------------
(* Type correctness: no record reaches its limit, no lock its double.       *)

(* The records of a map are those of addresses, and sound.                  *)
SoundMap(f, t) == DOMAIN f \subseteq Keys /\ \A k \in DOMAIN f : Sound(f[k], IP, t)

SoundGlobal(rec, t) == Sound(rec, Global, t)

Serving == /\ login \in [LoginHandlers -> [step : {"idle", "refused", "verify"}, key : Keys \cup {NoKey}]]
           /\ \A h \in LoginHandlers : login[h].step # "idle" => login[h].key \in Keys

(* The type invariant in these terms.                                       *)
LEMMA TypeParts == LimiterTypeOK <=> now \in Nat /\ SoundMap(fails, now) /\ SoundGlobal(global, now) /\ Serving
  BY DEF LimiterTypeOK, SoundMap, SoundGlobal, Serving, Sound

(* recordLocked finds or creates a sound record ...                         *)
LEMMA OfSound == ASSUME now \in Nat, SoundMap(fails, now), NEW k \in Keys PROVE Sound(Of(k), IP, now)
  BY ZeroSound, LimitsAssumption DEF Of, SoundMap

(* ... and the map stays sound.                                             *)
LEMMA WithSound ==
  ASSUME SoundMap(fails, now), NEW k \in Keys, NEW rec, Sound(rec, IP, now)
  PROVE  SoundMap(With(k, rec), now)
  BY DEF With, SoundMap

(* Eviction only takes records away.                                        *)
LEMMA EvictSound == ASSUME NEW f, NEW t, SoundMap(f, t) PROVE SoundMap(Evict(f, t), t)
  BY DEF Evict, SoundMap

(* A sound map stays sound as time passes.                                  *)
LEMMA LaterSound ==
  ASSUME NEW rec, NEW limit \in Limits, NEW t \in Nat, Sound(rec, limit, t)
  PROVE  Sound(rec, limit, t + 1)
<1>1. rec.until \in Nat /\ limit.lockout \in Nat
  BY DEF Sound, FailRecord, Limits
<1>2. QED
  BY <1>1 DEF Sound

(* A handler that moves on keeps its address.                               *)
LEMMA ServingMoves ==
  ASSUME Serving, NEW h \in LoginHandlers,
         \/ login' = [login EXCEPT ![h] = Away]
         \/ \E k \in Keys, s \in {"refused", "verify"} : login' = [login EXCEPT ![h] = [step |-> s, key |-> k]]
  PROVE  Serving'
  BY DEF Serving, Away

(* The limiter starts empty.                                                *)
LEMMA Initially == LoginInit => LimiterTypeOK
<1> SUFFICES ASSUME LoginInit PROVE LimiterTypeOK
  OBVIOUS
<1>1. now \in Nat /\ SoundMap(fails, now)
  BY DEF LoginInit, SoundMap
<1>2. SoundGlobal(global, now)
  BY ZeroSound, LimitsAssumption DEF LoginInit, SoundGlobal
<1>3. Serving
  BY DEF LoginInit, Serving, Away
<1>4. QED
  BY <1>1, <1>2, <1>3, TypeParts

(* What a handler does keeps the types.                                     *)
LEMMA ServeType == ASSUME LimiterTypeOK, NEW h \in LoginHandlers, ServeLogin(h) PROVE LimiterTypeOK'
<1>0. now \in Nat /\ SoundMap(fails, now) /\ SoundGlobal(global, now) /\ Serving
  BY TypeParts
<1>1. SUFFICES now' = now /\ SoundMap(fails', now) /\ SoundGlobal(global', now) /\ Serving'
  BY <1>0 DEF LimiterTypeOK, SoundMap, SoundGlobal, Serving, Sound
<1>2. ASSUME NEW k \in Keys, Allow(h, k)
      PROVE  now' = now /\ SoundMap(fails', now) /\ SoundGlobal(global', now) /\ Serving'
  <2>1. SoundMap(With(k, Of(k)), now)
    BY <1>0, OfSound, WithSound
  <2>2. Serving'
    BY <1>0, <1>2, ServingMoves DEF Allow
  <2>3. QED
    BY <1>0, <1>2, <2>1, <2>2 DEF Allow
<1>3. CASE RetryAfter(h)
  <2>1. login[h].key \in Keys
    BY <1>0, <1>3 DEF RetryAfter, Serving
  <2>2. SoundMap(With(login[h].key, Of(login[h].key)), now)
    BY <1>0, <2>1, OfSound, WithSound
  <2>3. QED
    BY <1>0, <1>3, <2>2, ServingMoves DEF RetryAfter
<1>4. CASE Fail(h)
  <2> DEFINE k   == login[h].key
             rec == Count(Of(k), IP, now)
  <2>1. k \in Keys
    BY <1>0, <1>4 DEF Fail, Serving
  <2>2. Sound(rec, IP, now)
    BY <1>0, <2>1, OfSound, CountSound, LimitsAssumption
  <2> HIDE DEF rec
  <2>3. SoundMap(Evict(With(k, rec), now), now)
    BY <1>0, <2>1, <2>2, WithSound, EvictSound
  <2>4. SoundGlobal(Count(global, Global, now), now)
    BY <1>0, CountSound, LimitsAssumption DEF SoundGlobal
  <2>5. fails' = Evict(With(k, rec), now) /\ global' = Count(global, Global, now) /\ now' = now
        /\ login' = [login EXCEPT ![h] = Away]
    BY <1>4 DEF Fail, rec
  <2>6. QED
    BY <1>0, <2>3, <2>4, <2>5, ServingMoves
<1>5. CASE Reset(h)
  <2>1. SoundMap([j \in DOMAIN fails \ {login[h].key} |-> fails[j]], now)
    BY <1>0 DEF SoundMap
  <2>2. QED
    BY <1>0, <1>5, <2>1, ServingMoves DEF Reset
<1>6. QED
  BY <1>2, <1>3, <1>4, <1>5 DEF ServeLogin

(* So does the clock, and so does every step.                               *)
LEMMA NextType == LimiterTypeOK /\ [LoginNext]_loginVars => LimiterTypeOK'
<1> SUFFICES ASSUME LimiterTypeOK, [LoginNext]_loginVars PROVE LimiterTypeOK'
  OBVIOUS
<1>1. CASE Tick
  <2>1. now \in Nat /\ SoundMap(fails, now) /\ SoundGlobal(global, now) /\ Serving
    BY TypeParts
  <2>2. now' = now + 1 /\ UNCHANGED <<fails, global, login>>
    BY <1>1 DEF Tick
  <2>3. SoundMap(fails, now + 1) /\ SoundGlobal(global, now + 1)
    BY <2>1, LaterSound, LimitsAssumption DEF SoundMap, SoundGlobal
  <2>4. QED
    BY <2>1, <2>2, <2>3 DEF LimiterTypeOK, SoundMap, SoundGlobal, Serving, Sound
<1>2. CASE UNCHANGED loginVars
  BY <1>2 DEF loginVars, LimiterTypeOK
<1>3. QED
  BY <1>1, <1>2, ServeType DEF LoginNext

(* limiter.go: no record counts to its limit without a lock, and no lock    *)
(* reaches further ahead than one lockout.                                  *)
THEOREM TypeCorrect == LoginSpec => []LimiterTypeOK
  BY Initially, NextType, PTL DEF LoginSpec

-----------------------------------------------------------------------------
(* Locks.                                                                   *)

(* What a handler does to a locked record.                                  *)
LEMMA ServeLocks ==
  ASSUME LimiterTypeOK, NEW h \in LoginHandlers, ServeLogin(h), NEW k \in DOMAIN fails, Blocked(fails[k], now)
  PROVE  \/ k \in DOMAIN fails' /\ fails'[k] = fails[k]
         \/ k \notin DOMAIN fails' /\ \E g \in LoginHandlers : login[g].key = k /\ Reset(g)
<1>1. ASSUME NEW j \in Keys, NEW rec, j = k => rec = fails[k]
      PROVE  k \in DOMAIN With(j, rec) /\ With(j, rec)[k] = fails[k]
  BY <1>1 DEF With
<1>2. Of(k) = fails[k]
  BY DEF Of
<1>3. ASSUME NEW j \in Keys, Allow(h, j) PROVE k \in DOMAIN fails' /\ fails'[k] = fails[k]
  BY <1>1, <1>2, <1>3 DEF Allow
<1>4. ASSUME login[h].step # "idle" PROVE login[h].key \in Keys
  BY <1>4 DEF LimiterTypeOK
<1>5. CASE RetryAfter(h)
  BY <1>1, <1>2, <1>4, <1>5 DEF RetryAfter
<1>6. CASE Fail(h)
  <2> DEFINE j   == login[h].key
             rec == Count(Of(j), IP, now)
  <2>1. j \in Keys
    BY <1>4, <1>6 DEF Fail
  <2>2. j = k => rec = fails[k]
    BY <1>2 DEF Count
  <2> HIDE DEF rec
  <2>3. k \in DOMAIN With(j, rec) /\ With(j, rec)[k] = fails[k]
    BY <1>1, <2>1, <2>2
  <2>4. fails' = Evict(With(j, rec), now)
    BY <1>6 DEF Fail, rec
  <2>5. k \in DOMAIN fails' /\ fails'[k] = fails[k]
    BY <2>3, <2>4 DEF Evict
  <2>6. QED
    BY <2>5
<1>7. CASE Reset(h)
  BY <1>7 DEF Reset
<1>8. QED
  BY <1>3, <1>5, <1>6, <1>7 DEF ServeLogin

(* limiter.go Fail, evictLocked: a lock runs its full time, unless a login  *)
(* of the same address that was let in before it succeeds.                  *)
THEOREM LocksRunTheirTime == LoginSpec => LockHolds
<1> DEFINE Held == \A k \in DOMAIN fails : Blocked(fails[k], now) =>
             \/ k \in DOMAIN fails' /\ fails'[k] = fails[k]
             \/ k \notin DOMAIN fails' /\ \E h \in LoginHandlers : login[h].key = k /\ Reset(h)
<1>1. LimiterTypeOK /\ [LoginNext]_loginVars => [Held]_loginVars
  <2>1. ASSUME LimiterTypeOK, NEW h \in LoginHandlers, ServeLogin(h) PROVE Held
    BY <2>1, ServeLocks
  <2>2. Tick => Held
    BY DEF Tick
  <2>3. QED
    BY <2>1, <2>2 DEF LoginNext
<1>2. QED
  BY <1>1, TypeCorrect, PTL DEF LoginSpec, LockHolds

(* limiter.go: the global lock runs its full time, whatever succeeds.       *)
THEOREM GlobalLockRunsItsTime == LoginSpec => GlobalLockHolds
<1> DEFINE Held == Blocked(global, now) => global' = global
<1>1. [LoginNext]_loginVars => [Held]_loginVars
  BY DEF LoginNext, Tick, ServeLogin, Allow, RetryAfter, Fail, Reset, Count
<1>2. QED
  BY <1>1, PTL DEF LoginSpec, GlobalLockHolds

-----------------------------------------------------------------------------
(* The counting window.                                                     *)

(* What a record says of the failures since the last lock or Reset: it      *)
(* counts the last of them, from the one that opened its window; what lies   *)
(* a full count before those came in an earlier window.                     *)
Remembers(rec, s, t) ==
  /\ s \in Seq(Nat)
  /\ \A i, j \in DOMAIN s : i <= j => s[i] <= s[j]
  /\ \A i \in DOMAIN s : 0 < s[i] /\ s[i] <= t
  /\ rec.fails <= Len(s)
  /\ rec.fails = 0 => Len(s) = 0 /\ rec.start = 0
  /\ rec.fails > 0 => rec.start = s[Len(s) - rec.fails + 1]
  /\ \A i \in DOMAIN s : i + rec.fails + (IP.max - 1) <= Len(s) => s[i] + IP.window < rec.start

Spread(s) ==
  \A i, j \in DOMAIN s : j = i + 2 * (IP.max - 1) => s[j] > s[i] + IP.window

Kept(rec, s, t) == Remembers(rec, s, t) /\ Spread(s)

(* The record of a key in a map.                                            *)
Found(f, k) == IF k \in DOMAIN f THEN f[k] ELSE Zero

HistoryKept ==
  /\ now > 0 /\ hist = [k \in Keys |-> hist[k]]
  /\ \A k \in Keys : Kept(Found(fails, k), hist[k], now)

(* A record of no failures remembers none.                                  *)
LEMMA NothingKept ==
  ASSUME NEW rec, rec.fails = 0, rec.start = 0, NEW t
  PROVE  Kept(rec, <<>>, t)
  BY DEF Kept, Remembers, Spread

(* A failure that locks nothing is counted, in the window that is open or    *)
(* in one of its own.                                                       *)
LEMMA BumpKept ==
  ASSUME NEW t \in Nat, t > 0, NEW rec \in FailRecord, rec.fails < IP.max, NEW s, Kept(rec, s, t),
         Bump(rec, IP, t).fails # 0
  PROVE  Kept(Bump(rec, IP, t), Append(s, t), t) /\ Bump(rec, IP, t).until = rec.until
<1> DEFINE n   == IF Expired(rec, IP, t) THEN 1 ELSE rec.fails + 1
           st  == IF Expired(rec, IP, t) THEN t ELSE rec.start
           new == [rec EXCEPT !.fails = n, !.start = st]
           r   == Append(s, t)
<1>1. IP.max \in Nat /\ IP.window \in Nat /\ rec.fails \in Nat /\ rec.start \in Nat
  BY LimitsAssumption DEF Limits, FailRecord
<1>2. Bump(rec, IP, t) = new /\ n < IP.max
  <2>1. n \in Nat
    BY <1>1
  <2>2. QED
    BY <1>1, <2>1 DEF Bump
<1>3. new.fails = n /\ new.start = st /\ new.until = rec.until
  BY DEF FailRecord
<1> DEFINE expired == Expired(rec, IP, t)
<1>3a. /\ expired => n = 1 /\ st = t
       /\ ~expired => n = rec.fails + 1 /\ st = rec.start /\ rec.start # 0
       /\ n \in Nat
  BY <1>1 DEF Expired
<1> HIDE DEF new, n, st
<1>4. /\ s \in Seq(Nat) /\ r \in Seq(Nat) /\ Len(r) = Len(s) + 1 /\ r[Len(s) + 1] = t
      /\ \A i \in DOMAIN s : r[i] = s[i] /\ i \in 1 .. Len(s) /\ s[i] \in Nat
      /\ DOMAIN r = 1 .. Len(s) + 1 /\ DOMAIN s = 1 .. Len(s) /\ Len(s) \in Nat
  BY DEF Kept, Remembers
<1>4a. Len(s) \in Nat /\ Len(r) = Len(s) + 1 /\ DOMAIN s = 1 .. Len(s)
  BY <1>4
<1> HIDE DEF r
<1>5. \A i \in DOMAIN r : i \in DOMAIN s \/ i = Len(s) + 1
  BY <1>4
<1>6. /\ \A i, j \in DOMAIN r : i <= j => r[i] <= r[j]
      /\ \A i \in DOMAIN r : 0 < r[i] /\ r[i] <= t
  <2>1. \A i \in DOMAIN r : 0 < r[i] /\ r[i] <= t
    BY <1>4, <1>5 DEF Kept, Remembers
  <2>2. ASSUME NEW i \in DOMAIN r, NEW j \in DOMAIN r, i <= j PROVE r[i] <= r[j]
    <3>1. CASE j = Len(s) + 1
      BY <1>4, <2>1, <3>1
    <3>2. CASE j \in DOMAIN s
      <4>1. i \in DOMAIN s
        BY <1>4, <1>5, <2>2, <3>2
      <4>2. QED
        BY <1>4, <2>2, <3>2, <4>1 DEF Kept, Remembers
    <3>3. QED
      BY <1>5, <3>1, <3>2
  <2>3. QED
    BY <2>1, <2>2
<1>7. n <= Len(r) /\ n > 0 /\ st = r[Len(r) - n + 1] /\ st \in Nat /\ st <= t
  <2>1. CASE expired
    BY <1>4, <1>3a, <2>1
  <2>2. CASE ~expired
    <3>1. rec.fails > 0 /\ rec.fails <= Len(s)
      BY <1>1, <1>3a, <2>2 DEF Kept, Remembers
    <3>2. rec.start = s[Len(s) - rec.fails + 1] /\ Len(s) - rec.fails + 1 \in DOMAIN s
      BY <1>1, <1>4, <3>1 DEF Kept, Remembers
    <3>3. rec.start <= t
      BY <3>2 DEF Kept, Remembers
    <3>4. Len(r) - n + 1 = Len(s) - rec.fails + 1
      BY <1>1, <1>3a, <1>4a, <2>2
    <3>5. r[Len(s) - rec.fails + 1] = rec.start
      BY <1>4, <3>2
    <3>6. n <= Len(r) /\ n > 0
      BY <1>1, <1>3a, <1>4a, <2>2, <3>1
    <3>7. QED
      BY <1>1, <1>3a, <2>2, <3>3, <3>4, <3>5, <3>6
  <2>3. QED
    BY <2>1, <2>2
<1>8. ASSUME NEW i \in DOMAIN r, i + n + (IP.max - 1) <= Len(r)
      PROVE  r[i] + IP.window < st
  <2>1. i \in DOMAIN s
    BY <1>1, <1>2, <1>4, <1>5, <1>7, <1>8, <1>3a
  <2>0. i \in Nat /\ i >= 1 /\ i <= Len(s)
    BY <1>4, <2>1
  <2>2. CASE expired
    <3>0. rec.fails > 0 /\ rec.fails <= Len(s) /\ rec.start # 0
      <4>1. rec.fails <= Len(s) /\ (rec.fails = 0 => Len(s) = 0)
        BY DEF Kept, Remembers
      <4>2. rec.fails > 0
        BY <1>1, <1>4, <2>0, <4>1
      <4>3. Len(s) - rec.fails + 1 \in DOMAIN s
        BY <1>1, <1>4a, <4>1, <4>2
      <4>4. rec.start = s[Len(s) - rec.fails + 1]
        BY <4>2 DEF Kept, Remembers
      <4>5. QED
        BY <4>1, <4>2, <4>3, <4>4 DEF Kept, Remembers
    <3>1. t > rec.start + IP.window
      BY <1>1, <2>2, <3>0 DEF Expired
    <3>2. Len(s) - rec.fails + 1 \in DOMAIN s /\ i <= Len(s) - rec.fails + 1
      <4>1. i + 1 + (IP.max - 1) <= Len(s) + 1 /\ rec.fails <= IP.max - 1
        BY <1>1, <1>8, <1>3a, <1>4a, <2>2
      <4>2. QED
        BY <1>1, <1>4a, <2>0, <3>0, <4>1
    <3>3. s[i] <= rec.start
      BY <2>1, <3>0, <3>2 DEF Kept, Remembers
    <3>4. QED
      BY <1>1, <1>4, <1>3a, <2>1, <2>2, <3>1, <3>3
  <2>3. CASE ~expired
    <3>1. i + rec.fails + (IP.max - 1) <= Len(s)
      <4>1. i + (rec.fails + 1) + (IP.max - 1) <= Len(s) + 1
        BY <1>8, <1>3a, <1>4a, <2>3
      <4>2. QED
        BY <1>1, <1>4a, <2>0, <4>1
    <3>2. s[i] + IP.window < rec.start
      BY <2>1, <3>1 DEF Kept, Remembers
    <3>3. QED
      BY <1>4, <1>3a, <2>1, <2>3, <3>2
  <2>4. QED
    BY <2>2, <2>3
<1>9. Spread(r)
  <2>1. ASSUME NEW i \in DOMAIN r, NEW j \in DOMAIN r, j = i + 2 * (IP.max - 1)
        PROVE  r[j] > r[i] + IP.window
    <3>0. i \in Nat /\ j \in Nat
      BY <1>4
    <3>1. CASE j = Len(s) + 1
      <4>1. i + n + (IP.max - 1) <= Len(r)
        BY <1>1, <1>2, <1>4, <1>3a, <2>1, <3>0, <3>1
      <4>2. r[i] + IP.window < st
        BY <1>8, <4>1
      <4>3. r[i] \in Nat /\ r[j] = t
        BY <1>4, <3>1
      <4>4. QED
        BY <1>1, <1>7, <4>2, <4>3
    <3>2. CASE j \in DOMAIN s
      <4>1. i \in DOMAIN s
        <5>1. j <= Len(s) /\ i >= 1
          BY <1>4, <1>4a, <3>2
        <5>2. i <= j
          BY <1>1, <1>2, <1>3a, <1>7, <2>1, <3>0
        <5>3. QED
          BY <1>4a, <3>0, <5>1, <5>2
      <4>2. QED
        BY <1>4, <2>1, <3>2, <4>1 DEF Kept, Spread
    <3>3. QED
      BY <1>5, <3>1, <3>2
  <2>2. QED
    BY <2>1 DEF Spread
<1>10. Remembers(new, r, t)
  BY <1>3, <1>4, <1>6, <1>7, <1>8 DEF Remembers
<1>11. QED
  BY <1>2, <1>3, <1>9, <1>10 DEF Kept, r

(* The eviction takes away only records of no failures.                     *)
LEMMA EvictKept ==
  ASSUME NEW f, NEW k, NEW s, NEW t, NEW u, Kept(Found(f, k), s, t)
  PROVE  Kept(Found(Evict(f, u), k), s, t)
<1>1. CASE Found(Evict(f, u), k) = Found(f, k)
  BY <1>1
<1>2. CASE Found(Evict(f, u), k) # Found(f, k)
  <2>1. Found(Evict(f, u), k) = Zero /\ Found(f, k).fails = 0
    BY <1>2 DEF Found, Evict
  <2>2. s \in Seq(Nat) /\ Len(s) = 0
    BY <2>1 DEF Kept, Remembers
  <2>3. s = <<>>
    BY <2>2
  <2>4. QED
    BY <2>1, <2>3, NothingKept DEF Zero
<1>3. QED
  BY <1>1, <1>2

LEMMA FailKept ==
  ASSUME LimiterTypeOK, HistoryKept, NEW h \in LoginHandlers, Fail(h)
  PROVE  HistoryKept'
<1> DEFINE k   == login[h].key
           old == Found(fails, k)
           rec == Count(old, IP, now)
           f   == With(k, rec)
<1>1. /\ k \in Keys /\ now \in Nat /\ now > 0 /\ now' = now /\ IP.max \in Nat
      /\ fails' = Evict(f, now)
      /\ hist' = [hist EXCEPT ![k] =
              IF Blocked(old, now) THEN @
              ELSE IF k \in DOMAIN fails' /\ Blocked(fails'[k], now) THEN <<>>
              ELSE Append(@, now)]
  BY LimitsAssumption DEF Fail, LimiterTypeOK, HistoryKept, Of, Found, Limits
<1>2. old \in FailRecord /\ old.fails < IP.max
  BY <1>1, LimitsAssumption DEF Found, LimiterTypeOK, Zero, FailRecord, Limits
<1>3. Kept(old, hist[k], now)
  BY <1>1 DEF HistoryKept
<1>4. f[k] = rec /\ k \in DOMAIN f /\ Found(f, k) = rec
  BY DEF With, Found
<1> HIDE DEF rec
<1>5. \A j \in Keys : j # k => Found(f, j) = Found(fails, j)
  BY DEF With, Found
<1>6. hist' = [j \in Keys |-> hist'[j]] /\ \A j \in Keys : j # k => hist'[j] = hist[j]
  BY <1>1 DEF HistoryKept
<1>7. Kept(Found(fails', k), hist'[k], now)
  <2>1. CASE Blocked(old, now)
    <3>1. rec = old /\ hist'[k] = hist[k]
      BY <1>1, <2>1 DEF HistoryKept, rec, Count
    <3>2. QED
      BY <1>1, <1>3, <1>4, <3>1, EvictKept
  <2>2. CASE ~Blocked(old, now) /\ Bump(old, IP, now).fails # 0
    <3>1. rec = Bump(old, IP, now)
      BY <2>2 DEF rec, Count
    <3>2. Kept(rec, Append(hist[k], now), now) /\ rec.until = old.until
      BY <1>1, <1>2, <1>3, <2>2, <3>1, BumpKept
    <3>3. ~Blocked(rec, now)
      BY <2>2, <3>2 DEF Blocked
    <3>4. k \in DOMAIN fails' => fails'[k] = rec
      BY <1>1, <1>4 DEF Evict
    <3>5. hist'[k] = Append(hist[k], now)
      BY <1>1, <2>2, <3>3, <3>4 DEF HistoryKept
    <3>6. QED
      BY <1>1, <1>4, <3>2, <3>5, EvictKept
  <2>3. CASE ~Blocked(old, now) /\ Bump(old, IP, now).fails = 0
    <3>1. rec = Bump(old, IP, now)
      BY <2>3 DEF rec, Count
    <3>2. rec = [fails |-> 0, start |-> 0, until |-> now + IP.lockout]
      <4>1. IF Expired(old, IP, now) THEN TRUE ELSE old.fails + 1 # 0
        BY <1>2 DEF FailRecord
      <4>2. \A n, st : n # 0 => [old EXCEPT !.fails = n, !.start = st].fails # 0
        BY <1>2 DEF FailRecord
      <4>3. QED
        BY <2>3, <3>1, <4>1, <4>2 DEF Bump
    <3>3. Blocked(rec, now)
      BY <1>1, <3>2, LimitsAssumption DEF Blocked, Limits
    <3>4. k \in DOMAIN fails' /\ fails'[k] = rec
      BY <1>1, <1>4, <3>3 DEF Evict
    <3>5. hist'[k] = <<>>
      BY <1>1, <2>3, <3>3, <3>4 DEF HistoryKept
    <3>6. QED
      BY <3>2, <3>4, <3>5, NothingKept DEF Found
  <2>4. QED
    BY <2>1, <2>2, <2>3
<1>8. \A j \in Keys : j # k => Kept(Found(fails', j), hist'[j], now)
  BY <1>1, <1>5, <1>6, EvictKept DEF HistoryKept
<1>9. QED
  BY <1>1, <1>6, <1>7, <1>8 DEF HistoryKept

(* What only creates a record changes nothing that is remembered.           *)
LEMMA LookedUp ==
  ASSUME HistoryKept, UNCHANGED <<now, hist>>,
         \/ UNCHANGED fails
         \/ \E k \in Keys : fails' = With(k, Of(k))
  PROVE  HistoryKept'
<1>1. \A j \in Keys : Found(fails', j) = Found(fails, j)
  BY DEF Found, With, Of
<1>2. QED
  BY <1>1 DEF HistoryKept

LEMMA ResetKept ==
  ASSUME HistoryKept, NEW h \in LoginHandlers, Reset(h)
  PROVE  HistoryKept'
<1> DEFINE k == login[h].key
<1>1. /\ now' = now /\ hist' = [hist EXCEPT ![k] = <<>>]
      /\ fails' = [j \in DOMAIN fails \ {k} |-> fails[j]]
  BY DEF Reset
<1>2. \A j \in Keys : j # k => Found(fails', j) = Found(fails, j) /\ hist'[j] = hist[j]
  BY <1>1 DEF Found, HistoryKept
<1>3. k \in Keys => Found(fails', k) = Zero /\ hist'[k] = <<>>
  BY <1>1 DEF Found, HistoryKept
<1>4. k \in Keys => Kept(Found(fails', k), hist'[k], now)
  BY <1>3, NothingKept DEF Zero
<1>5. hist' = [j \in Keys |-> hist'[j]]
  BY <1>1 DEF HistoryKept
<1>6. QED
  BY <1>1, <1>2, <1>4, <1>5 DEF HistoryKept

LEMMA TickKept ==
  ASSUME LimiterTypeOK, HistoryKept, Tick
  PROVE  HistoryKept'
<1>1. now' = now + 1 /\ UNCHANGED <<fails, hist>> /\ now \in Nat
  BY DEF Tick, LimiterTypeOK
<1>2. ASSUME NEW rec, NEW s, Kept(rec, s, now) PROVE Kept(rec, s, now + 1)
  <2>1. \A i \in DOMAIN s : s[i] \in Nat /\ 0 < s[i] /\ s[i] <= now
    BY <1>2 DEF Kept, Remembers
  <2>2. \A i \in DOMAIN s : 0 < s[i] /\ s[i] <= now + 1
    BY <1>1, <2>1
  <2>3. QED
    BY <1>2, <2>2 DEF Kept, Remembers
<1>3. QED
  BY <1>1, <1>2 DEF HistoryKept

(* limiter.go bump, Fail: between two locks or logins that succeed, no span  *)
(* of one window's length holds more than 2 * (max - 1) failures of one      *)
(* address, whatever the limits and however many handlers were let in.       *)
THEOREM FewPerWindow == LoginSpec => []FailuresBounded
<1>1. LoginInit => HistoryKept
  <2> SUFFICES ASSUME LoginInit PROVE HistoryKept
    OBVIOUS
  <2>1. now > 0 /\ hist = [k \in Keys |-> hist[k]] /\ \A k \in Keys : hist[k] = <<>>
    BY DEF LoginInit
  <2>2. \A k \in Keys : Found(fails, k) = Zero
    BY DEF LoginInit, Found
  <2>3. Zero.fails = 0 /\ Zero.start = 0
    BY DEF Zero
  <2>4. QED
    BY <2>1, <2>2, <2>3, NothingKept DEF HistoryKept
<1>2. LimiterTypeOK /\ HistoryKept /\ [LoginNext]_loginVars => HistoryKept'
  <2> SUFFICES ASSUME LimiterTypeOK, HistoryKept, [LoginNext]_loginVars PROVE HistoryKept'
    OBVIOUS
  <2>1. CASE UNCHANGED loginVars
    BY <2>1, LookedUp DEF loginVars
  <2>2. ASSUME NEW h \in LoginHandlers, ServeLogin(h) PROVE HistoryKept'
    <3>1. ASSUME NEW k \in Keys, Allow(h, k) PROVE HistoryKept'
      BY <3>1, LookedUp DEF Allow
    <3>2. CASE RetryAfter(h)
      <4>1. login[h].key \in Keys
        BY <3>2 DEF RetryAfter, LimiterTypeOK
      <4>2. QED
        BY <3>2, <4>1, LookedUp DEF RetryAfter
    <3>3. QED
      BY <2>2, <3>1, <3>2, FailKept, ResetKept DEF ServeLogin
  <2>3. QED
    BY <2>1, <2>2, TickKept DEF LoginNext
<1>3. HistoryKept => FailuresBounded
  BY DEF HistoryKept, Kept, Spread, FailuresBounded
<1>4. QED
  BY <1>1, <1>2, <1>3, TypeCorrect, PTL DEF LoginSpec
=============================================================================
