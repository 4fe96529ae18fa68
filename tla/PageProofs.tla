----------------------------- MODULE PageProofs -----------------------------
(***************************************************************************)
(* Proofs about the pages of the frontend, for any number of servers,       *)
(* torrents, clicks and answers.                                            *)
(***************************************************************************)
EXTENDS DirPicker, Assistant, RssFeeds, RssRules, SettingsForms, AiSettings, FiniteSetTheorems,
        SequenceTheorems, WellFoundedInduction, TLAPS

(* A handler that is asked for something has a request in flight, and one    *)
(* that ends takes away no request for anything else.                       *)
LEMMA AskedWaits ==
  ASSUME NEW op, NEW arg, Asked(op, arg)
  PROVE  /\ Waiting(op)' # {}
         /\ \A o : Waiting(o) \subseteq Waiting(o)'
<1> DEFINE new == Request(clicks', op, arg)
<1>1. new.op = op
  BY DEF Request
<1>2. reqs' = reqs \cup {new}
  BY DEF Asked
<1>3. new \in Waiting(op)'
  BY <1>1, <1>2 DEF Waiting
<1>4. QED
  BY <1>2, <1>3 DEF Waiting

LEMMA EndedLeaves ==
  ASSUME NEW o, NEW r \in Waiting(o), Ended(r)
  PROVE  \A op : op # o => Waiting(op)' = Waiting(op)
  BY DEF Ended, Waiting

LEMMA ThenWaits ==
  ASSUME NEW o, NEW r \in Waiting(o), NEW next, NEW arg, Then(r, next, arg)
  PROVE  /\ Waiting(next)' # {}
         /\ \A op : op # o => Waiting(op) \subseteq Waiting(op)'
<1> DEFINE new == Request(r.n, next, arg)
<1>1. new.op = next /\ r.op = o
  BY DEF Request, Waiting
<1>2. reqs' = (reqs \ {r}) \cup {new}
  BY DEF Then
<1>3. new \in Waiting(next)'
  BY <1>1, <1>2 DEF Waiting
<1>4. QED
  BY <1>1, <1>2, <1>3 DEF Waiting

(* A request has its five fields, whatever happened to it.                  *)
IsRequest(r) ==
  r = [n |-> r.n, op |-> r.op, arg |-> r.arg, got |-> r.got, cancelled |-> r.cancelled]

LEMMA RequestMade ==
  ASSUME NEW n, NEW op, NEW arg
  PROVE  LET r == Request(n, op, arg)
         IN  IsRequest(r) /\ r.n = n /\ r.op = op /\ r.arg = arg /\ r.got = {} /\ ~r.cancelled
  BY DEF Request, IsRequest

LEMMA Answered ==
  ASSUME NEW r, IsRequest(r), NEW value
  PROVE  LET q == [r EXCEPT !.got = {value}]
         IN  IsRequest(q) /\ q.n = r.n /\ q.op = r.op /\ q.arg = r.arg /\ q.got = {value}
  BY DEF IsRequest

(* Every click has at most one request in flight: its handler goes on only   *)
(* when the one before was answered.                                        *)
OnePerClick ==
  /\ clicks \in Nat
  /\ \A r \in reqs : IsRequest(r) /\ r.n \in Nat /\ r.n <= clicks
  /\ \A r, q \in reqs : r.n = q.n => r = q

(* What a step does to the requests: a click adds one with its number, a    *)
(* handler that goes on replaces its own.                                   *)
Adds(q)        == clicks' = clicks + 1 /\ reqs' = reqs \cup {q} /\ q.n = clicks' /\ IsRequest(q)
Replaces(r, q) == clicks' = clicks /\ reqs' = (reqs \ {r}) \cup {q} /\ q.n = r.n /\ IsRequest(q)
Drops(r)       == clicks' = clicks /\ reqs' = reqs \ {r}
Leaves         == clicks' \in {clicks, clicks + 1} /\ reqs' = reqs

LEMMA StaysNumbered ==
  ASSUME OnePerClick,
         \/ \E q : Adds(q)
         \/ \E r \in reqs : Drops(r) \/ \E q : Replaces(r, q)
         \/ Leaves
  PROVE  OnePerClick'
<1>1. ASSUME NEW q, Adds(q) PROVE OnePerClick'
  BY <1>1 DEF OnePerClick, Adds
<1>2. ASSUME NEW r \in reqs, NEW q, Replaces(r, q) PROVE OnePerClick'
  BY <1>2 DEF OnePerClick, Replaces
<1>3. ASSUME NEW r \in reqs, Drops(r) PROVE OnePerClick'
  BY <1>3 DEF OnePerClick, Drops
<1>4. CASE Leaves
  BY <1>4 DEF OnePerClick, Leaves
<1>5. QED
  BY <1>1, <1>2, <1>3, <1>4

-----------------------------------------------------------------------------
(* Lists that are filtered, cut and put together                            *)

(* The rank of a place tells it from every other.                           *)
LEMMA RanksDiffer ==
  ASSUME NEW I, IsFiniteSet(I), I \subseteq Nat, NEW i \in I, NEW j \in I, i < j
  PROVE  Rank(I, i) \in Nat /\ Rank(I, j) \in Nat /\ Rank(I, i) < Rank(I, j)
<1> DEFINE A == {k \in I : k <= i}
           B == {k \in I : k <= j}
<1>1. IsFiniteSet(B)
  BY FS_Subset
<1>a. i \in Nat /\ j \in Nat /\ \A k \in I : k \in Nat
  OBVIOUS
<1>2. A \subseteq B /\ j \in B /\ j \notin A
  <2>1. \A k \in I : k <= i => k <= j
    BY <1>a
  <2>2. j <= j /\ ~(j <= i)
    BY <1>a
  <2>3. QED
    BY <2>1, <2>2
<1>3. IsFiniteSet(A) /\ Cardinality(A) <= Cardinality(B) /\ Cardinality(A) # Cardinality(B)
  BY <1>1, <1>2, FS_Subset
<1>4. Cardinality(A) \in Nat /\ Cardinality(B) \in Nat
  BY <1>1, <1>3, FS_CardinalityType
<1>5. QED
  BY <1>3, <1>4 DEF Rank

(* A set of places written in order by f has the n-th of them at rank n.    *)
Writes(f, m, I) ==
  /\ f \in [1 .. m -> I]
  /\ \A i \in I : \E n \in 1 .. m : f[n] = i
  /\ \A n, k \in 1 .. m : n < k => f[n] < f[k]

LEMMA RankIs ==
  ASSUME NEW I, I \subseteq Nat, NEW m \in Nat, NEW f, Writes(f, m, I)
  PROVE  /\ IsFiniteSet(I) /\ Cardinality(I) = m
         /\ \A n \in 1 .. m : Rank(I, f[n]) = n
<1> USE DEF Writes
<1>0. \A n \in 1 .. m : f[n] \in Nat /\ f[n] \in I
  OBVIOUS
<1>1. \A n, k \in 1 .. m : n # k => f[n] # f[k]
  <2> SUFFICES ASSUME NEW n \in 1 .. m, NEW k \in 1 .. m, n # k PROVE f[n] # f[k]
    OBVIOUS
  <2>1. n < k \/ k < n
    OBVIOUS
  <2>2. f[n] < f[k] \/ f[k] < f[n]
    BY <2>1
  <2>3. QED
    BY <1>0, <2>2
<1>8. \A n, k \in 1 .. m : n <= k <=> f[n] <= f[k]
  <2> SUFFICES ASSUME NEW n \in 1 .. m, NEW k \in 1 .. m PROVE n <= k <=> f[n] <= f[k]
    OBVIOUS
  <2>1. f[n] \in Nat /\ f[k] \in Nat
    BY <1>0
  <2>2. CASE n < k
    BY <2>1, <2>2
  <2>3. CASE k < n
    BY <2>1, <2>3
  <2>4. CASE n = k
    BY <2>1, <2>4
  <2>5. QED
    BY <2>2, <2>3, <2>4
<1>2. f \in Injection(1 .. m, I) /\ f \in Surjection(1 .. m, I)
  BY <1>1 DEF Injection, IsInjective, Surjection
<1>3. IsFiniteSet(1 .. m) /\ Cardinality(1 .. m) = m
  BY FS_Interval
<1>4. IsFiniteSet(I) /\ Cardinality(I) = m
  BY <1>2, <1>3, FS_Surjection
<1>5. ASSUME NEW n \in 1 .. m PROVE Rank(I, f[n]) = n
  <2> DEFINE J == {j \in I : j <= f[n]}
             g == [k \in 1 .. n |-> f[k]]
  <2>0. \A k \in 1 .. n : k \in 1 .. m /\ k <= n
    OBVIOUS
  <2>1. g \in [1 .. n -> J]
    <3>1. \A k \in 1 .. n : f[k] \in I /\ f[k] <= f[n]
      BY <1>0, <1>8, <2>0
    <3>2. QED
      BY <3>1
  <2>2. \A j \in J : \E k \in 1 .. n : g[k] = j
    <3> TAKE j \in J
    <3>1. PICK k \in 1 .. m : f[k] = j
      OBVIOUS
    <3>2. k <= n
      BY <1>8, <3>1
    <3>3. k \in 1 .. n
      BY <3>2
    <3>4. QED
      BY <3>1, <3>3
  <2>3. g \in Surjection(1 .. n, J) /\ g \in Injection(1 .. n, J)
    BY <1>1, <2>1, <2>2 DEF Surjection, Injection, IsInjective
  <2>4. IsFiniteSet(1 .. n) /\ Cardinality(1 .. n) = n
    BY FS_Interval
  <2> HIDE DEF g, J
  <2>5. Cardinality(J) = n
    BY <2>3, <2>4, FS_Surjection
  <2>6. QED
    BY <2>5 DEF J, Rank
<1>7. QED
  BY <1>4, <1>5

(* What is kept are the places that f writes in order.                      *)
LEMMA SiftedIs ==
  ASSUME NEW s, NEW T, Places(s, T) \subseteq Nat, NEW m \in Nat, NEW f, Writes(f, m, Places(s, T))
  PROVE  Sifted(s, T) = [n \in 1 .. m |-> s[f[n]]]
<1> DEFINE I == Places(s, T)
<1> HIDE DEF I
<1>0. I \subseteq Nat /\ Writes(f, m, I)
  BY DEF I
<1>1. /\ Cardinality(I) = m
      /\ \A n \in 1 .. m : Rank(I, f[n]) = n
      /\ \A n \in 1 .. m : \A i \in I : Rank(I, i) = n => i = f[n]
  <2>1. Cardinality(I) = m
    BY <1>0, RankIs
  <2>2. \A n \in 1 .. m : Rank(I, f[n]) = n
    BY <1>0, RankIs
  <2>3. ASSUME NEW n \in 1 .. m, NEW i \in I, Rank(I, i) = n PROVE i = f[n]
    <3>1. PICK k \in 1 .. m : f[k] = i
      BY <1>0 DEF Writes
    <3>2. QED
      BY <2>2, <2>3, <3>1
  <2>4. QED
    BY <2>1, <2>2, <2>3
<1>2. \A n \in 1 .. m : f[n] \in I
  BY <1>0 DEF Writes
<1>3. \A n \in 1 .. m : (CHOOSE i \in I : Rank(I, i) = n) = f[n]
  BY <1>1, <1>2
<1>4. QED
  <2>1. Sifted(s, T) = [n \in 1 .. m |-> s[CHOOSE i \in I : Rank(I, i) = n]]
    BY <1>1 DEF Sifted, I
  <2>2. QED
    BY <1>3, <2>1

(* Every finite set of places can be written in order.                      *)
LEMMA WrittenInOrder ==
  ASSUME NEW I, I \subseteq Nat, IsFiniteSet(I)
  PROVE  \E f : Writes(f, Cardinality(I), I)
<1> DEFINE m == Cardinality(I)
           r == [i \in I |-> Rank(I, i)]
<1>1. m \in Nat /\ IsFiniteSet(1 .. m) /\ Cardinality(1 .. m) = m
  BY FS_CardinalityType, FS_Interval
<1>2. ASSUME NEW i \in I PROVE Rank(I, i) \in 1 .. m
  <2> DEFINE A == {k \in I : k <= i}
  <2>1. A \subseteq I /\ i \in A
    OBVIOUS
  <2>2. IsFiniteSet(A) /\ Cardinality(A) <= m
    BY <2>1, FS_Subset
  <2>3. Cardinality(A) \in Nat /\ Cardinality(A) # 0
    BY <2>1, <2>2, FS_CardinalityType, FS_EmptySet
  <2>4. QED
    BY <1>1, <2>2, <2>3 DEF Rank
<1>3. \A i, j \in I : i < j => r[i] < r[j]
  BY RanksDiffer
<1>4. r \in [I -> 1 .. m]
  BY <1>2
<1>5. \A i, j \in I : i # j => r[i] # r[j]
  BY <1>2, <1>3
<1>6. r \in Injection(I, 1 .. m)
  BY <1>4, <1>5 DEF Injection, IsInjective
<1>7. r \in Surjection(I, 1 .. m)
  BY <1>1, <1>6, FS_Injection
<1>8. \A n \in 1 .. m : \E i \in I : r[i] = n
  BY <1>7 DEF Surjection
<1> HIDE DEF m, r
<1> DEFINE f == [n \in 1 .. m |-> CHOOSE i \in I : r[i] = n]
<1>9. \A n \in 1 .. m : f[n] \in I /\ r[f[n]] = n
  BY <1>8
<1>10. f \in [1 .. m -> I]
  BY <1>9
<1>11. \A i \in I : r[i] \in 1 .. m /\ f[r[i]] = i
  BY <1>4, <1>5, <1>9
<1>12. \A n, k \in 1 .. m : n < k => f[n] < f[k]
  <2> SUFFICES ASSUME NEW n \in 1 .. m, NEW k \in 1 .. m, n < k, ~(f[n] < f[k])
               PROVE  FALSE
    OBVIOUS
  <2>1. f[n] \in I /\ f[k] \in I /\ r[f[n]] = n /\ r[f[k]] = k
    BY <1>9
  <2> HIDE DEF f
  <2>5. f[n] \in Nat /\ f[k] \in Nat
    BY <2>1
  <2>2. f[n] # f[k]
    BY <2>1
  <2>3. f[k] < f[n]
    BY <2>2, <2>5
  <2>6. k < n
    BY <2>1, <2>3, <1>3
  <2>4. QED
    BY <2>6
<1> HIDE DEF f
<1>13. QED
  BY <1>10, <1>11, <1>12 DEF m, Writes

(* The kept values of a list, without those dropped, are a list of the same *)
(* kind in which each stands as often as before and in the same order.      *)
LEMMA SiftedInOrder ==
  ASSUME NEW S, NEW s \in Seq(S), NEW T
  PROVE  \E m \in Nat : \E f :
           /\ Writes(f, m, Places(s, T))
           /\ Sifted(s, T) = [n \in 1 .. m |-> s[f[n]]]
           /\ Sifted(s, T) \in Seq(S)
           /\ Len(Sifted(s, T)) = m
<1> DEFINE I == Places(s, T)
<1>1. Len(s) \in Nat /\ s \in [1 .. Len(s) -> S]
  BY LenProperties
<1>2. I \subseteq 1 .. Len(s)
  BY <1>1 DEF Places
<1> HIDE DEF I
<1>3. I \subseteq Nat /\ IsFiniteSet(I)
  <2>1. IsFiniteSet(1 .. Len(s)) /\ \A i \in 1 .. Len(s) : i \in Nat
    BY <1>1, FS_Interval
  <2>2. QED
    BY <1>2, <2>1, FS_Subset
<1>4. Cardinality(I) \in Nat
  BY <1>3, FS_CardinalityType
<1> DEFINE m == Cardinality(I)
<1>5. PICK f : Writes(f, m, I)
  BY <1>3, WrittenInOrder
<1> HIDE DEF m
<1>6. Sifted(s, T) = [n \in 1 .. m |-> s[f[n]]]
  <2>1. m \in Nat
    BY <1>4 DEF m
  <2>2. QED
    BY <1>3, <1>5, <2>1, SiftedIs DEF I
<1>7. \A n \in 1 .. m : s[f[n]] \in S
  BY <1>1, <1>2, <1>5 DEF Writes
<1> DEFINE t == [n \in 1 .. m |-> s[f[n]]]
<1>8. t \in [1 .. m -> S] /\ m \in Nat
  BY <1>4, <1>7 DEF m
<1> HIDE DEF t
<1>9. t \in Seq(S)
  BY <1>8, SeqDef
<1>10. Len(t) = m
  <2>1. DOMAIN t = 1 .. Len(t) /\ DOMAIN t = 1 .. m /\ Len(t) \in Nat
    BY <1>8, <1>9, LenProperties
  <2>2. m <= Len(t)
    BY <2>1, <1>8
  <2>3. Len(t) <= m
    BY <2>1, <1>8
  <2>4. m \in Nat /\ Len(t) \in Nat
    BY <2>1, <1>8
  <2>5. QED
    BY <2>2, <2>3, <2>4
<1>11. QED
  BY <1>5, <1>6, <1>8, <1>9, <1>10 DEF t, I

(* Filtering a list of different values leaves exactly those of the set,    *)
(* each once.                                                               *)
LEMMA SiftedDiffer ==
  ASSUME NEW S, NEW s \in Seq(S), IsInjective(s), NEW T
  PROVE  LET t == Sifted(s, T)
         IN  t \in Seq(S) /\ IsInjective(t) /\ ToSet(t) = ToSet(s) \cap T
<1>1. PICK m \in Nat : \E f :
        /\ Writes(f, m, Places(s, T))
        /\ Sifted(s, T) = [n \in 1 .. m |-> s[f[n]]]
        /\ Sifted(s, T) \in Seq(S)
        /\ Len(Sifted(s, T)) = m
  BY SiftedInOrder
<1>10. PICK f :
        /\ Writes(f, m, Places(s, T))
        /\ Sifted(s, T) = [n \in 1 .. m |-> s[f[n]]]
        /\ Sifted(s, T) \in Seq(S)
        /\ Len(Sifted(s, T)) = m
  BY <1>1
<1> DEFINE t == [n \in 1 .. m |-> s[f[n]]]
<1>2. \A n \in 1 .. m : f[n] \in Places(s, T) /\ f[n] \in DOMAIN s /\ s[f[n]] \in T
  BY <1>10 DEF Writes, Places
<1>3. DOMAIN s = 1 .. Len(s) /\ Len(s) \in Nat
  BY LenProperties
<1>4. \A n, k \in 1 .. m : n # k => f[n] # f[k]
  <2> SUFFICES ASSUME NEW n \in 1 .. m, NEW k \in 1 .. m, n # k PROVE f[n] # f[k]
    OBVIOUS
  <2>1. f[n] \in Nat /\ f[k] \in Nat
    BY <1>2, <1>3
  <2>2. f[n] < f[k] \/ f[k] < f[n]
    BY <1>10 DEF Writes
  <2>3. QED
    BY <2>1, <2>2
<1>5. IsInjective(t)
  BY <1>2, <1>4 DEF IsInjective
<1>6. ToSet(t) \subseteq ToSet(s) \cap T
  BY <1>2 DEF ToSet
<1>7. ASSUME NEW i \in DOMAIN s, s[i] \in T PROVE s[i] \in ToSet(t)
  <2>1. i \in Places(s, T)
    BY <1>7 DEF Places
  <2>2. PICK n \in 1 .. m : f[n] = i
    BY <1>10, <2>1 DEF Writes
  <2>3. QED
    BY <2>2 DEF ToSet
<1>8. ToSet(s) \cap T \subseteq ToSet(t)
  BY <1>7 DEF ToSet
<1>9. QED
  BY <1>10, <1>5, <1>6, <1>8

(* A list of one value, once.                                               *)
LEMMA OnlyOne ==
  ASSUME NEW S, NEW s \in Seq(S), IsInjective(s), NEW v, ToSet(s) = {v}
  PROVE  Len(s) = 1 /\ s[1] = v
<1>1. DOMAIN s = 1 .. Len(s) /\ Len(s) \in Nat
  BY LenProperties
<1>2. \A i \in 1 .. Len(s) : s[i] = v
  BY <1>1 DEF ToSet
<1>3. 1 .. Len(s) # {}
  BY <1>1 DEF ToSet
<1>4. 1 \in 1 .. Len(s)
  BY <1>1, <1>3
<1>5. \A i \in 1 .. Len(s) : i = 1
  BY <1>1, <1>2, <1>4 DEF IsInjective
<1>6. Len(s) = 1
  BY <1>1, <1>4, <1>5
<1>7. QED
  BY <1>2, <1>6

(* The places of a list taken in another order.                             *)
Shuffles(p, n) ==
  /\ \A i \in 1 .. n : p[i] \in 1 .. n
  /\ \A i, j \in 1 .. n : p[i] = p[j] => i = j
  /\ \A j \in 1 .. n : \E i \in 1 .. n : p[i] = j

LEMMA Rearranged ==
  ASSUME NEW S, NEW s \in Seq(S), IsInjective(s), NEW u \in Seq(S), Len(u) = Len(s),
         NEW p, Shuffles(p, Len(s)), \A i \in 1 .. Len(s) : u[i] = s[p[i]]
  PROVE  IsInjective(u) /\ ToSet(u) = ToSet(s)
<1>1. DOMAIN s = 1 .. Len(s) /\ DOMAIN u = 1 .. Len(s)
  BY LenProperties
<1>2. IsInjective(u)
  <2>1. \A i, j \in 1 .. Len(s) : s[i] = s[j] => i = j
    BY <1>1 DEF IsInjective
  <2>2. ASSUME NEW i \in 1 .. Len(s), NEW j \in 1 .. Len(s), u[i] = u[j] PROVE i = j
    <3>1. s[p[i]] = s[p[j]] /\ p[i] \in 1 .. Len(s) /\ p[j] \in 1 .. Len(s)
      BY <2>2 DEF Shuffles
    <3>2. p[i] = p[j]
      BY <2>1, <3>1
    <3>3. QED
      BY <3>2 DEF Shuffles
  <2>3. QED
    BY <1>1, <2>2 DEF IsInjective
<1>3. ASSUME NEW i \in DOMAIN u PROVE u[i] \in ToSet(s)
  <2>1. u[i] = s[p[i]] /\ p[i] \in DOMAIN s
    BY <1>1 DEF Shuffles
  <2>2. QED
    BY <2>1 DEF ToSet
<1>4. ASSUME NEW j \in DOMAIN s PROVE s[j] \in ToSet(u)
  <2>1. PICK i \in 1 .. Len(s) : p[i] = j
    BY <1>1 DEF Shuffles
  <2>2. u[i] = s[j]
    BY <2>1
  <2>3. QED
    BY <1>1, <2>2 DEF ToSet
<1>5. QED
  BY <1>2, <1>3, <1>4 DEF ToSet

(* A part of a list, two lists one after the other, a list without its i-th *)
(* value and one with k put in at j, by their places.                       *)
IsPart(t, S, s, a, b) ==
  /\ t \in Seq(S) /\ Len(t) = b - a + 1
  /\ \A p \in 1 .. b - a + 1 : t[p] = s[a - 1 + p]

IsConcat(u, S, s, t) ==
  /\ u \in Seq(S) /\ Len(u) = Len(s) + Len(t)
  /\ \A p \in 1 .. Len(s) : u[p] = s[p]
  /\ \A p \in 1 .. Len(t) : u[Len(s) + p] = t[p]

IsWithout(t, S, s, i) ==
  /\ t \in Seq(S) /\ Len(t) = Len(s) - 1
  /\ \A p \in 1 .. Len(s) - 1 : t[p] = IF p < i THEN s[p] ELSE s[p + 1]

IsWith(u, S, t, j, k) ==
  /\ u \in Seq(S) /\ Len(u) = Len(t) + 1
  /\ \A p \in 1 .. Len(t) + 1 : u[p] = IF p = j THEN k ELSE IF p < j THEN t[p] ELSE t[p - 1]

LEMMA PartOf ==
  ASSUME NEW S, NEW s \in Seq(S), NEW a \in Nat, NEW b \in Nat, 1 <= a, a <= b + 1, b <= Len(s)
  PROVE  IsPart(SubSeq(s, a, b), S, s, a, b)
<1> DEFINE t == SubSeq(s, a, b)
<1>1. Len(s) \in Nat /\ \A p \in 1 .. Len(s) : s[p] \in S
  BY LenProperties
<1>2. \A p \in a .. b : s[p] \in S
  BY <1>1
<1>3. /\ t \in Seq(S) /\ Len(t) = IF a <= b THEN b - a + 1 ELSE 0
      /\ \A p \in 1 .. b - a + 1 : t[p] = s[a + p - 1]
  BY <1>2, SubSeqProperties
<1> HIDE DEF t
<1>4. Len(t) = b - a + 1
  BY <1>3
<1>5. \A p \in 1 .. b - a + 1 : a + p - 1 = a - 1 + p
  OBVIOUS
<1>6. QED
  BY <1>3, <1>4, <1>5 DEF t, IsPart

LEMMA ConcatOf ==
  ASSUME NEW S, NEW s \in Seq(S), NEW t \in Seq(S)
  PROVE  IsConcat(s \o t, S, s, t)
<1> DEFINE u == s \o t
           a == Len(s)
           b == Len(t)
<1>1. a \in Nat /\ b \in Nat
  BY LenProperties
<1>2. /\ u \in Seq(S) /\ Len(u) = a + b
      /\ \A p \in 1 .. a + b : u[p] = IF p <= a THEN s[p] ELSE t[p - a]
  BY ConcatProperties
<1> HIDE DEF u, a, b
<1>3. \A p \in 1 .. a : p \in 1 .. a + b /\ p <= a
  BY <1>1
<1>4. ASSUME NEW p \in 1 .. b PROVE u[a + p] = t[p]
  <2>1. a + p \in 1 .. a + b /\ ~(a + p <= a) /\ (a + p) - a = p
    BY <1>1
  <2>2. u[a + p] = IF a + p <= a THEN s[a + p] ELSE t[(a + p) - a]
    BY <1>2, <2>1
  <2>3. QED
    BY <2>1, <2>2
<1>5. QED
  BY <1>2, <1>3, <1>4 DEF u, a, b, IsConcat

(* Lists without a common value, one after the other.                       *)
LEMMA Joined ==
  ASSUME NEW S, NEW s \in Seq(S), NEW t \in Seq(S), IsInjective(s), IsInjective(t),
         ToSet(s) \cap ToSet(t) = {}
  PROVE  /\ s \o t \in Seq(S) /\ IsInjective(s \o t)
         /\ ToSet(s \o t) = ToSet(s) \cup ToSet(t)
<1> DEFINE u == s \o t
           a == Len(s)
           b == Len(t)
<1>1. DOMAIN s = 1 .. a /\ DOMAIN t = 1 .. b /\ a \in Nat /\ b \in Nat
  BY LenProperties
<1>2. IsConcat(u, S, s, t)
  BY ConcatOf
<1>3. u \in Seq(S) /\ DOMAIN u = 1 .. a + b
  BY <1>2, LenProperties DEF IsConcat
<1> HIDE DEF u
<1>4. \A i \in 1 .. a : i \in 1 .. a + b /\ u[i] = s[i]
  BY <1>1, <1>2 DEF IsConcat
<1>5. \A i \in 1 .. b : a + i \in 1 .. a + b /\ u[a + i] = t[i]
  BY <1>1, <1>2 DEF IsConcat
<1> HIDE DEF a, b
<1>6. \A i \in 1 .. a + b : i \in 1 .. a \/ \E j \in 1 .. b : i = a + j
  <2> TAKE i \in 1 .. a + b
  <2>1. CASE i <= a
    BY <1>1, <2>1
  <2>2. CASE ~(i <= a)
    <3>1. i - a \in 1 .. b /\ i = a + (i - a)
      BY <1>1, <2>2
    <3>2. QED
      BY <3>1
  <2>3. QED
    BY <2>1, <2>2
<1>7. ToSet(u) = ToSet(s) \cup ToSet(t)
  <2>1. ToSet(s) \subseteq ToSet(u)
    BY <1>1, <1>3, <1>4 DEF ToSet
  <2>2. ToSet(t) \subseteq ToSet(u)
    BY <1>1, <1>3, <1>5 DEF ToSet
  <2>3. ASSUME NEW i \in 1 .. a + b PROVE u[i] \in ToSet(s) \cup ToSet(t)
    BY <1>1, <1>4, <1>5, <1>6 DEF ToSet
  <2>4. QED
    BY <1>3, <2>1, <2>2, <2>3 DEF ToSet
<1>8. ASSUME NEW i \in 1 .. a + b, NEW j \in 1 .. a + b, u[i] = u[j] PROVE i = j
  <2>1. CASE i \in 1 .. a /\ j \in 1 .. a
    BY <1>1, <1>4, <1>8, <2>1 DEF IsInjective
  <2>2. ASSUME NEW k \in 1 .. a, NEW l \in 1 .. b, u[k] = u[a + l] PROVE FALSE
    <3>1. s[k] = t[l]
      BY <1>4, <1>5, <2>2
    <3>2. QED
      BY <1>1, <3>1 DEF ToSet
  <2>3. ASSUME NEW k \in 1 .. b, NEW l \in 1 .. b, u[a + k] = u[a + l] PROVE k = l
    BY <1>1, <1>5, <2>3 DEF IsInjective
  <2>4. QED
    BY <1>6, <1>8, <2>1, <2>2, <2>3
<1>9. QED
  BY <1>3, <1>7, <1>8 DEF u, IsInjective

LEMMA WithoutOf ==
  ASSUME NEW S, NEW s \in Seq(S), NEW i \in 1 .. Len(s)
  PROVE  IsWithout(RemoveAt(s, i), S, s, i)
<1> DEFINE n     == Len(s)
           front == SubSeq(s, 1, i - 1)
           back  == SubSeq(s, i + 1, n)
           t     == front \o back
<1>1. n \in Nat
  BY LenProperties
<1>2. /\ i - 1 \in Nat /\ i + 1 \in Nat /\ i \in Nat /\ 1 <= i /\ i <= n
      /\ (i - 1) - 1 + 1 = i - 1 /\ n - (i + 1) + 1 = n - i
      /\ \A p \in Nat : 1 - 1 + p = p /\ (i + 1) - 1 + p = i + p
  BY <1>1
<1>3. IsPart(front, S, s, 1, i - 1)
  BY <1>1, <1>2, PartOf
<1>4. IsPart(back, S, s, i + 1, n)
  BY <1>1, <1>2, PartOf
<1> HIDE DEF front, back, n
<1>5. /\ front \in Seq(S) /\ Len(front) = i - 1
      /\ back \in Seq(S) /\ Len(back) = n - i
      /\ \A p \in 1 .. i - 1 : front[p] = s[p]
      /\ \A p \in 1 .. n - i : back[p] = s[i + p]
  BY <1>2, <1>3, <1>4 DEF IsPart
<1>a. IsConcat(t, S, front, back)
  BY <1>5, ConcatOf
<1> HIDE DEF t
<1>6. /\ t \in Seq(S) /\ Len(t) = Len(front) + Len(back)
      /\ \A p \in 1 .. Len(front) : t[p] = front[p]
      /\ \A p \in 1 .. Len(back) : t[Len(front) + p] = back[p]
  BY <1>a DEF IsConcat
<1>7. ASSUME NEW p \in 1 .. n - 1 PROVE t[p] = IF p < i THEN s[p] ELSE s[p + 1]
  <2>1. CASE p < i
    <3>1. p \in 1 .. i - 1
      BY <1>2, <2>1
    <3>2. QED
      BY <1>5, <1>6, <2>1, <3>1
  <2>2. CASE ~(p < i)
    <3> DEFINE q == p - (i - 1)
    <3>1. q \in 1 .. n - i /\ (i - 1) + q = p /\ i + q = p + 1
      BY <1>1, <1>2, <2>2
    <3> HIDE DEF q
    <3>2. t[(i - 1) + q] = s[i + q]
      BY <1>5, <1>6, <3>1
    <3>3. QED
      BY <2>2, <3>1, <3>2
  <2>3. QED
    BY <2>1, <2>2
<1>8. Len(t) = n - 1
  BY <1>1, <1>2, <1>5, <1>6
<1>9. QED
  BY <1>6, <1>7, <1>8 DEF t, RemoveAt, front, back, n, IsWithout

LEMMA WithOf ==
  ASSUME NEW S, NEW t \in Seq(S), NEW j \in 1 .. Len(t) + 1, NEW k \in S
  PROVE  IsWith(InsertAt(t, j, k), S, t, j, k)
<1> DEFINE n     == Len(t)
           front == SubSeq(t, 1, j - 1)
           back  == SubSeq(t, j, n)
           one   == <<k>>
           left  == front \o one
           u     == left \o back
<1>1. n \in Nat
  BY LenProperties
<1>2. /\ j - 1 \in Nat /\ j \in Nat /\ 1 <= j /\ j <= n + 1
      /\ (j - 1) - 1 + 1 = j - 1
      /\ \A p \in Nat : 1 - 1 + p = p
  BY <1>1
<1>3. IsPart(front, S, t, 1, j - 1)
  BY <1>1, <1>2, PartOf
<1>4. IsPart(back, S, t, j, n)
  BY <1>1, <1>2, PartOf
<1>5. one \in Seq(S) /\ Len(one) = 1 /\ one[1] = k
  OBVIOUS
<1> HIDE DEF front, back, n, one
<1>6. /\ front \in Seq(S) /\ Len(front) = j - 1
      /\ back \in Seq(S) /\ Len(back) = n - j + 1
      /\ \A p \in 1 .. j - 1 : front[p] = t[p]
      /\ \A p \in 1 .. n - j + 1 : back[p] = t[j - 1 + p]
  BY <1>2, <1>3, <1>4 DEF IsPart
<1>7. IsConcat(left, S, front, one)
  BY <1>5, <1>6, ConcatOf
<1> HIDE DEF left
<1>8. IsConcat(u, S, left, back)
  <2>1. left \in Seq(S)
    BY <1>7 DEF IsConcat
  <2>2. QED
    BY <1>6, <2>1, ConcatOf
<1> HIDE DEF u
<1>9. /\ Len(left) = j /\ left[j] = k
      /\ \A p \in 1 .. j - 1 : left[p] = t[p]
  <2>1. Len(front) = j - 1 /\ Len(left) = j
    BY <1>2, <1>5, <1>6, <1>7 DEF IsConcat
  <2>2. \A p \in 1 .. j - 1 : left[p] = t[p]
    BY <1>6, <1>7, <2>1 DEF IsConcat
  <2>3. 1 \in 1 .. Len(one) /\ (j - 1) + 1 = j
    BY <1>2, <1>5
  <2>4. left[(j - 1) + 1] = k
    BY <1>5, <1>7, <2>1, <2>3 DEF IsConcat
  <2>5. QED
    BY <2>1, <2>2, <2>3, <2>4
<1>c. /\ u \in Seq(S) /\ Len(u) = j + (n - j + 1)
      /\ \A p \in 1 .. j : u[p] = left[p]
      /\ \A p \in 1 .. n - j + 1 : u[j + p] = t[j - 1 + p]
  BY <1>6, <1>8, <1>9 DEF IsConcat
<1>10. ASSUME NEW p \in 1 .. n + 1
       PROVE  u[p] = IF p = j THEN k ELSE IF p < j THEN t[p] ELSE t[p - 1]
  <2>1. CASE p = j
    BY <1>2, <1>9, <1>c, <2>1
  <2>2. CASE p < j
    <3>1. p \in 1 .. j - 1 /\ p \in 1 .. j
      BY <1>2, <2>2
    <3>2. QED
      BY <1>9, <1>c, <2>2, <3>1
  <2>3. CASE p > j
    <3> DEFINE q == p - j
    <3>1. q \in 1 .. n - j + 1 /\ j + q = p /\ j - 1 + q = p - 1
      BY <1>1, <1>2, <2>3
    <3> HIDE DEF q
    <3>2. u[j + q] = t[j - 1 + q]
      BY <1>c, <3>1
    <3>3. QED
      BY <1>2, <2>3, <3>1, <3>2
  <2>4. QED
    BY <1>2, <2>1, <2>2, <2>3
<1>11. Len(u) = n + 1
  BY <1>1, <1>2, <1>c
<1>12. QED
  BY <1>c, <1>10, <1>11 DEF IsWith, u, left, front, back, n, one, InsertAt

-----------------------------------------------------------------------------
(* DirPicker                                                                *)

(* What the user does in the dialog leaves no spinner alone.                *)
LEMMA UserBacked ==
  ASSUME SpinnerBacked,
         \/ OpenPicker \/ CancelPicker \/ Relocate \/ HandleOk
         \/ \E v \in SomePath : TypePath(v)
         \/ \E p \in tree : SelectNode(p) \/ ExpandNode(p)
  PROVE  SpinnerBacked'
<1>1. CASE OpenPicker
  <2>1. Asked("info", NoArg) /\ phase' = "info" /\ UNCHANGED rootLoading
    BY <1>1 DEF OpenPicker
  <2>2. QED
    BY <2>1, AskedWaits DEF SpinnerBacked
<1>2. CASE Relocate
  <2>1. \E path : LoadRoot(path, FALSE) /\ UNCHANGED <<phase, dlgOpen, candidates>>
    BY <1>2 DEF Relocate
  <2>2. PICK path : LoadRoot(path, FALSE) /\ UNCHANGED <<phase, dlgOpen, candidates>>
    BY <2>1
  <2>3. Asked("root", [path |-> path, silent |-> FALSE, again |-> FALSE])
    BY <2>2 DEF LoadRoot
  <2>4. QED
    BY <2>2, <2>3, AskedWaits DEF SpinnerBacked
<1>3. CASE \E p \in tree : ExpandNode(p)
  <2>1. PICK p \in tree : Asked("children", p) /\ UNCHANGED dirVars
    BY <1>3 DEF ExpandNode
  <2>2. QED
    BY <2>1, AskedWaits DEF SpinnerBacked, dirVars
<1>4. CASE CancelPicker \/ HandleOk
  BY <1>4 DEF CancelPicker, HandleOk, SpinnerBacked, Waiting
<1>5. CASE (\E v \in SomePath : TypePath(v)) \/ (\E p \in tree : SelectNode(p))
  BY <1>5 DEF TypePath, SelectNode, SpinnerBacked, Waiting
<1>6. QED
  BY <1>1, <1>2, <1>3, <1>4, <1>5

(* Nor do the answers, of this opening or of an earlier one.                *)
LEMMA AnswerBacked ==
  ASSUME SpinnerBacked, DirAnswer
  PROVE  SpinnerBacked'
<1>1. ASSUME NEW r \in Waiting("info"), InfoDone(r)
      PROVE  SpinnerBacked'
  <2>1. /\ UNCHANGED <<dlgOpen, candidates>>
        /\ InfoFail(r) \/ \E m, s : InfoOk(r, m, s)
    BY <1>1 DEF InfoDone
  <2>2. CASE InfoFail(r)
    BY <2>1, <2>2, EndedLeaves DEF InfoFail, SpinnerBacked
  <2>3. ASSUME NEW m, NEW s, InfoOk(r, m, s)
        PROVE  SpinnerBacked'
    <3>1. CASE m = "remote"
      BY <2>1, <2>3, <3>1, ThenWaits DEF InfoOk, SpinnerBacked
    <3>2. CASE m # "remote"
      <4>1. phase' = "browse" /\ \E arg : Then(r, "root", arg)
        BY <2>3, <3>2 DEF InfoOk
      <4>2. QED
        BY <4>1, ThenWaits DEF SpinnerBacked
    <3>3. QED
      BY <3>1, <3>2
  <2>4. QED
    BY <2>1, <2>2, <2>3
<1>2. ASSUME NEW r \in Waiting("root"), RootDone(r)
      PROVE  SpinnerBacked'
  <2>1. /\ UNCHANGED <<dlgOpen, phase, candidates>>
        /\ \/ rootLoading' = FALSE /\ Ended(r)
           \/ UNCHANGED rootLoading /\ \E arg : Then(r, "root", arg)
    BY <1>2 DEF RootDone, RootOk, RootFail
  <2>2. QED
    BY <2>1, EndedLeaves, ThenWaits DEF SpinnerBacked
<1>3. ASSUME NEW r \in Waiting("children"), ChildrenDone(r)
      PROVE  SpinnerBacked'
  BY <1>3, EndedLeaves DEF ChildrenDone, SpinnerBacked
<1>4. ASSUME NEW r \in Waiting("candidates"), CandidatesDone(r)
      PROVE  SpinnerBacked'
  <2>1. candidates' # None
    BY <1>4 DEF CandidatesDone, None
  <2>2. QED
    BY <1>4, <2>1, EndedLeaves DEF CandidatesDone, SpinnerBacked
<1>5. QED
  BY <1>1, <1>2, <1>3, <1>4 DEF DirAnswer

(* Whatever answers arrive in whatever order, a spinner of the directory     *)
(* picker waits for a request that will end it (DirPathInput.tsx).          *)
THEOREM SpinnersEnd == DirSpec => []SpinnerBacked
<1>1. PageInit /\ DirInit => SpinnerBacked
  BY DEF DirInit, SpinnerBacked
<1>2. SpinnerBacked /\ [DirNext]_<<clicks, reqs, dirVars>> => SpinnerBacked'
  <2>1. CASE UNCHANGED <<clicks, reqs, dirVars>>
    BY <2>1 DEF SpinnerBacked, Waiting, dirVars
  <2>2. QED
    BY <2>1, UserBacked, AnswerBacked DEF DirNext
<1>3. QED
  BY <1>1, <1>2, PTL DEF DirSpec

-----------------------------------------------------------------------------
(* Assistant                                                                *)

Wires == Events \cup {"nl"}

(* The stream of the events q: each with its empty line.                    *)
IsStream(b, q) ==
  /\ b \in Seq(Wires) /\ Len(b) = 3 * Len(q)
  /\ \A j \in 1 .. Len(q) : b[3 * j - 2] = q[j] /\ b[3 * j - 1] = "nl" /\ b[3 * j] = "nl"

(* A chunk of a stream that starts with a frame, of m whole frames and the  *)
(* beginning of another.                                                    *)
IsChunk(b, q, m) ==
  /\ b \in Seq(Wires) /\ m \in Nat /\ m <= Len(q)
  /\ 3 * m <= Len(b) /\ Len(b) < 3 * m + 3 /\ Len(b) <= 3 * Len(q)
  /\ \A j \in 1 .. Len(q) :
       /\ 3 * j - 2 <= Len(b) => b[3 * j - 2] = q[j]
       /\ 3 * j - 1 <= Len(b) => b[3 * j - 1] = "nl"
       /\ 3 * j <= Len(b) => b[3 * j] = "nl"

LEMMA InThrees ==
  ASSUME NEW n \in Nat
  PROVE  /\ \E m \in Nat : 3 * m <= n /\ n < 3 * m + 3
         /\ n > 0 => \E j \in Nat \ {0} : n \in {3 * j - 2, 3 * j - 1, 3 * j}
<1> DEFINE m == n \div 3
<1>1. m \in Nat /\ 3 * m <= n /\ n < 3 * m + 3
  OBVIOUS
<1>2. ASSUME n > 0 PROVE \E j \in Nat \ {0} : n \in {3 * j - 2, 3 * j - 1, 3 * j}
  <2>1. CASE n = 3 * m
    <3>1. m \in Nat \ {0}
      BY <1>1, <1>2, <2>1
    <3>2. QED
      BY <2>1, <3>1
  <2>2. CASE n # 3 * m
    <3>1. m + 1 \in Nat \ {0}
      BY <1>1
    <3>2. n \in {3 * (m + 1) - 2, 3 * (m + 1) - 1, 3 * (m + 1)}
      BY <1>1, <2>2
    <3>3. QED
      BY <3>1, <3>2
  <2>3. QED
    BY <2>1, <2>2
<1>3. QED
  BY <1>1, <1>2

(* The last empty line of a chunk ends its last whole frame.                *)
LEMMA CutAt ==
  ASSUME NEW q \in Seq(Events), NEW b, NEW m, IsChunk(b, q, m)
  PROVE  Cut(b) = 3 * m
<1> DEFINE l    == Len(b)
           ends == {i \in 1 .. l - 1 : b[i] = "nl" /\ b[i + 1] = "nl"}
<1>1. l \in Nat /\ m \in Nat /\ Len(q) \in Nat /\ 3 * m <= l /\ l < 3 * m + 3 /\ m <= Len(q) /\ l <= 3 * Len(q)
  BY LenProperties DEF IsChunk
<1>2. \A j \in 1 .. Len(q) : q[j] # "nl"
  BY LenProperties DEF Events
<1>3. \A j \in 1 .. Len(q) :
        /\ 3 * j - 2 <= l => b[3 * j - 2] = q[j]
        /\ 3 * j - 1 <= l => b[3 * j - 1] = "nl"
        /\ 3 * j <= l => b[3 * j] = "nl"
  BY DEF IsChunk
<1> HIDE DEF l
<1>4. ASSUME NEW i \in ends PROVE i <= 3 * m - 1 /\ m > 0
  <2>1. i \in Nat /\ i > 0 /\ i + 1 <= l /\ b[i] = "nl" /\ b[i + 1] = "nl"
    BY <1>1, <1>4
  <2>2. PICK j \in Nat \ {0} : i \in {3 * j - 2, 3 * j - 1, 3 * j}
    BY <2>1, InThrees
  <2>3. CASE i = 3 * j - 2
    <3>1. j \in 1 .. Len(q) /\ 3 * j - 2 <= l
      BY <1>1, <2>1, <2>3
    <3>2. QED
      BY <1>2, <1>3, <2>1, <2>3, <3>1
  <2>4. CASE i = 3 * j
    <3> DEFINE k == j + 1
    <3>1. k \in 1 .. Len(q) /\ 3 * k - 2 <= l /\ 3 * k - 2 = i + 1
      BY <1>1, <2>1, <2>4
    <3>2. b[3 * k - 2] = q[k] /\ q[k] # "nl"
      BY <1>2, <1>3, <3>1
    <3>3. QED
      BY <2>1, <3>1, <3>2
  <2>5. CASE i = 3 * j - 1
    <3>1. 3 * j <= l
      BY <2>1, <2>5
    <3>2. j <= m
      BY <1>1, <3>1
    <3>3. QED
      BY <1>1, <2>5, <3>2
  <2>6. QED
    BY <2>2, <2>3, <2>4, <2>5
<1>5. CASE m = 0
  <2>1. ends = {}
    BY <1>4, <1>5
  <2>2. QED
    BY <1>1, <1>5, <2>1 DEF Cut, l
<1>6. CASE m # 0
  <2> DEFINE last == 3 * m - 1
  <2>1. m \in 1 .. Len(q) /\ last \in 1 .. l - 1 /\ last <= l /\ last + 1 = 3 * m /\ 1 + last = 3 * m /\ last \in Nat
    BY <1>1, <1>6
  <2>2. b[3 * m - 1] = "nl" /\ b[3 * m] = "nl"
    BY <1>1, <1>3, <2>1
  <2>3. last \in ends
    BY <2>1, <2>2
  <2>4. \A i \in ends : i <= last /\ i \in Nat
    BY <1>1, <1>4
  <2> HIDE DEF last, ends
  <2> DEFINE c == CHOOSE i \in ends : \A j \in ends : j <= i
  <2>5. c \in ends /\ \A j \in ends : j <= c
    BY <2>3, <2>4
  <2> HIDE DEF c
  <2>6. c = last
    <3>1. c \in Nat /\ last \in Nat /\ c <= last /\ last <= c
      BY <2>1, <2>3, <2>4, <2>5
    <3>2. QED
      BY <3>1
  <2>7. Cut(b) = 1 + c
    BY <2>3 DEF Cut, ends, c, l
  <2>8. QED
    BY <2>1, <2>6, <2>7
<1>7. QED
  BY <1>5, <1>6

(* Its whole frames are the first m events.                                 *)
LEMMA FramesOf ==
  ASSUME NEW q \in Seq(Events), NEW b, NEW m, IsChunk(b, q, m)
  PROVE  Frames(b) = SubSeq(q, 1, m)
<1> DEFINE p == SubSeq(b, 1, 3 * m)
           t == SubSeq(q, 1, m)
           f == [n \in 1 .. m |-> 3 * n - 2]
<1>1. /\ b \in Seq(Wires) /\ Len(b) \in Nat /\ m \in Nat /\ Len(q) \in Nat
      /\ 3 * m <= Len(b) /\ m <= Len(q)
      /\ 1 \in Nat /\ 3 * m \in Nat /\ 1 <= 1 /\ 1 <= 3 * m + 1 /\ 1 <= m + 1
      /\ 3 * m - 1 + 1 = 3 * m /\ m - 1 + 1 = m /\ \A i \in Nat : 1 - 1 + i = i
  BY LenProperties DEF IsChunk
<1>2. IsPart(p, Wires, b, 1, 3 * m)
  BY <1>1, PartOf
<1>3. IsPart(t, Events, q, 1, m)
  BY <1>1, PartOf
<1> HIDE DEF p, t
<1>4. /\ p \in Seq(Wires) /\ Len(p) = 3 * m /\ \A i \in 1 .. 3 * m : p[i] = b[i]
      /\ t \in Seq(Events) /\ Len(t) = m /\ \A i \in 1 .. m : t[i] = q[i]
  BY <1>1, <1>2, <1>3 DEF IsPart
<1>5. DOMAIN p = 1 .. 3 * m /\ DOMAIN t = 1 .. m /\ t \in [1 .. m -> Events]
  BY <1>4, LenProperties
<1>6. \A j \in 1 .. m :
        /\ 3 * j - 2 \in 1 .. 3 * m /\ p[3 * j - 2] = q[j] /\ q[j] \in Events
        /\ p[3 * j - 1] = "nl" /\ p[3 * j] = "nl"
  <2> TAKE j \in 1 .. m
  <2>1. /\ j \in 1 .. Len(q) /\ j \in Nat
        /\ 3 * j - 2 \in 1 .. 3 * m /\ 3 * j - 1 \in 1 .. 3 * m /\ 3 * j \in 1 .. 3 * m
        /\ 3 * j - 2 <= Len(b) /\ 3 * j - 1 <= Len(b) /\ 3 * j <= Len(b)
    BY <1>1
  <2>2. b[3 * j - 2] = q[j] /\ b[3 * j - 1] = "nl" /\ b[3 * j] = "nl"
    BY <2>1 DEF IsChunk
  <2>3. q[j] \in Events
    BY <2>1, LenProperties
  <2>4. QED
    BY <1>4, <2>1, <2>2, <2>3
<1>7. "nl" \notin Events
  BY DEF Events
<1>8. ASSUME NEW i \in Places(p, Events) PROVE \E n \in 1 .. m : f[n] = i
  <2>1. i \in 1 .. 3 * m /\ p[i] \in Events
    BY <1>5, <1>8 DEF Places
  <2>2. i \in Nat /\ i > 0
    BY <1>1, <2>1
  <2>3. PICK j \in Nat \ {0} : i \in {3 * j - 2, 3 * j - 1, 3 * j}
    BY <2>2, InThrees
  <2>4. j \in 1 .. m
    BY <1>1, <2>1, <2>3
  <2>5. i = 3 * j - 2
    BY <1>6, <1>7, <2>1, <2>3, <2>4
  <2>6. QED
    BY <2>4, <2>5
<1>9. \A n \in 1 .. m : f[n] \in Places(p, Events)
  BY <1>5, <1>6 DEF Places
<1>10. \A n, k \in 1 .. m : n < k => f[n] < f[k]
  <2> SUFFICES ASSUME NEW n \in 1 .. m, NEW k \in 1 .. m, n < k PROVE 3 * n - 2 < 3 * k - 2
    OBVIOUS
  <2>1. n \in Nat /\ k \in Nat
    BY <1>1
  <2>2. QED
    BY <2>1
<1>11. Places(p, Events) \subseteq Nat
  BY <1>1, <1>5 DEF Places
<1>12. Writes(f, m, Places(p, Events))
  BY <1>8, <1>9, <1>10 DEF Writes
<1>13. Sifted(p, Events) = [n \in 1 .. m |-> p[f[n]]]
  <2> HIDE DEF f
  <2>1. QED
    BY <1>1, <1>11, <1>12, SiftedIs
<1>14. \A n \in 1 .. m : p[f[n]] = t[n]
  BY <1>4, <1>6
<1>15. Sifted(p, Events) = t
  <2> HIDE DEF f
  <2>1. t = [n \in 1 .. m |-> t[n]]
    BY <1>5
  <2>2. QED
    BY <1>13, <1>14, <2>1
<1>16. Cut(b) = 3 * m
  BY CutAt
<1>17. QED
  BY <1>15, <1>16 DEF Frames, p, t

(* A stream cut after b: b is a chunk of it, and what is not parsed yet is   *)
(* a stream again, together with the rest.                                  *)
LEMMA StreamCut ==
  ASSUME NEW q \in Seq(Events), NEW b \in Seq(Wires), NEW rest \in Seq(Wires), IsStream(b \o rest, q)
  PROVE  \E m \in Nat :
           /\ IsChunk(b, q, m)
           /\ Remainder(b) \in Seq(Wires) /\ Len(Remainder(b)) < 3
           /\ IsStream(Remainder(b) \o rest, SubSeq(q, m + 1, Len(q)))
           /\ rest = <<>> => m = Len(q)
<1> DEFINE u == b \o rest
           l == Len(b)
           n == Len(q)
           w == Len(rest)
<1>1. l \in Nat /\ n \in Nat /\ w \in Nat
  BY LenProperties
<1>2. IsConcat(u, Wires, b, rest) /\ IsStream(u, q)
  BY ConcatOf
<1> HIDE DEF u
<1>3. /\ l + w = 3 * n
      /\ \A p \in 1 .. l : u[p] = b[p]
      /\ \A p \in 1 .. w : u[l + p] = rest[p]
      /\ \A j \in 1 .. n : u[3 * j - 2] = q[j] /\ u[3 * j - 1] = "nl" /\ u[3 * j] = "nl"
  BY <1>2 DEF IsConcat, IsStream
<1>4. PICK m \in Nat : 3 * m <= l /\ l < 3 * m + 3
  BY <1>1, InThrees
<1> HIDE DEF l, n, w
<1>5. m <= n /\ l <= 3 * n
  BY <1>1, <1>3, <1>4
<1>6. IsChunk(b, q, m)
  <2>1. ASSUME NEW j \in 1 .. n
        PROVE  /\ 3 * j - 2 <= l => b[3 * j - 2] = q[j]
               /\ 3 * j - 1 <= l => b[3 * j - 1] = "nl"
               /\ 3 * j <= l => b[3 * j] = "nl"
    <3>1. /\ 3 * j - 2 <= l => 3 * j - 2 \in 1 .. l
          /\ 3 * j - 1 <= l => 3 * j - 1 \in 1 .. l
          /\ 3 * j <= l => 3 * j \in 1 .. l
      BY <1>1
    <3>2. QED
      BY <1>3, <3>1
  <2>2. QED
    BY <1>4, <1>5, <2>1 DEF IsChunk, l, n
<1> DEFINE r == SubSeq(b, 3 * m + 1, l)
           t == SubSeq(q, m + 1, n)
           v == r \o rest
<1>7. /\ 3 * m + 1 \in Nat /\ 1 <= 3 * m + 1 /\ 3 * m + 1 <= l + 1 /\ m + 1 \in Nat /\ 1 <= m + 1 /\ m + 1 <= n + 1
      /\ l - (3 * m + 1) + 1 = l - 3 * m /\ n - (m + 1) + 1 = n - m
      /\ \A p \in Nat : 3 * m + 1 - 1 + p = 3 * m + p /\ m + 1 - 1 + p = m + p
  BY <1>1, <1>4, <1>5
<1>8. IsPart(r, Wires, b, 3 * m + 1, l)
  BY <1>1, <1>7, PartOf DEF l
<1>9. IsPart(t, Events, q, m + 1, n)
  BY <1>1, <1>7, PartOf DEF n
<1> HIDE DEF r, t
<1>10. /\ r \in Seq(Wires) /\ Len(r) = l - 3 * m /\ \A p \in 1 .. l - 3 * m : r[p] = b[3 * m + p]
       /\ t \in Seq(Events) /\ Len(t) = n - m /\ \A p \in 1 .. n - m : t[p] = q[m + p]
  BY <1>7, <1>8, <1>9 DEF IsPart
<1>11. IsConcat(v, Wires, r, rest)
  BY <1>10, ConcatOf
<1> HIDE DEF v
<1>12. /\ v \in Seq(Wires) /\ Len(v) = 3 * (n - m)
       /\ \A p \in 1 .. l - 3 * m : v[p] = r[p]
       /\ \A p \in 1 .. w : v[(l - 3 * m) + p] = rest[p]
  BY <1>1, <1>3, <1>4, <1>10, <1>11 DEF IsConcat, w
<1>13. ASSUME NEW p \in 1 .. 3 * (n - m) PROVE v[p] = u[3 * m + p]
  <2>1. CASE p <= l - 3 * m
    <3>1. p \in 1 .. l - 3 * m /\ 3 * m + p \in 1 .. l
      BY <1>1, <1>4, <2>1
    <3>2. QED
      BY <1>3, <1>10, <1>12, <3>1
  <2>2. CASE ~(p <= l - 3 * m)
    <3> DEFINE o == p - (l - 3 * m)
    <3>1. o \in 1 .. w /\ (l - 3 * m) + o = p /\ l + o = 3 * m + p
      BY <1>1, <1>3, <1>4, <2>2
    <3> HIDE DEF o
    <3>2. QED
      BY <1>3, <1>12, <3>1
  <2>3. QED
    BY <2>1, <2>2
<1>14. ASSUME NEW j \in 1 .. n - m
       PROVE  v[3 * j - 2] = t[j] /\ v[3 * j - 1] = "nl" /\ v[3 * j] = "nl"
  <2>1. /\ 3 * j - 2 \in 1 .. 3 * (n - m) /\ 3 * j - 1 \in 1 .. 3 * (n - m) /\ 3 * j \in 1 .. 3 * (n - m)
        /\ m + j \in 1 .. n
        /\ 3 * m + (3 * j - 2) = 3 * (m + j) - 2 /\ 3 * m + (3 * j - 1) = 3 * (m + j) - 1 /\ 3 * m + 3 * j = 3 * (m + j)
    BY <1>1, <1>4, <1>5
  <2>2. u[3 * (m + j) - 2] = q[m + j] /\ u[3 * (m + j) - 1] = "nl" /\ u[3 * (m + j)] = "nl"
    BY <1>3, <2>1
  <2>3. QED
    BY <1>10, <1>13, <2>1, <2>2
<1>15. IsStream(v, t)
  BY <1>10, <1>12, <1>14 DEF IsStream
<1>16. Remainder(b) = r
  BY <1>6, CutAt DEF Remainder, r, l
<1>17. Len(r) < 3
  BY <1>1, <1>4, <1>10
<1>18. rest = <<>> => m = n
  BY <1>1, <1>3, <1>4, <1>5 DEF w
<1>19. QED
  BY <1>6, <1>10, <1>15, <1>16, <1>17, <1>18 DEF v, t, n

(* A stream with one more event.                                            *)
LEMMA StreamGrows ==
  ASSUME NEW q \in Seq(Events), NEW s, IsStream(s, q), NEW e \in Events
  PROVE  IsStream(s \o <<e, "nl", "nl">>, Append(q, e))
<1> DEFINE c == <<e, "nl", "nl">>
           u == s \o c
           t == Append(q, e)
           n == Len(q)
<1>1. c \in Seq(Wires) /\ Len(c) = 3 /\ c[1] = e /\ c[2] = "nl" /\ c[3] = "nl"
  BY DEF Wires
<1> HIDE DEF c
<1>2. /\ s \in Seq(Wires) /\ Len(s) = 3 * n /\ n \in Nat
      /\ \A j \in 1 .. n : s[3 * j - 2] = q[j] /\ s[3 * j - 1] = "nl" /\ s[3 * j] = "nl"
  BY LenProperties DEF IsStream
<1>3. IsConcat(u, Wires, s, c)
  BY <1>1, <1>2, ConcatOf
<1> HIDE DEF u
<1>4. /\ t \in Seq(Events) /\ Len(t) = n + 1 /\ t[n + 1] = e
      /\ \A j \in 1 .. n : t[j] = q[j]
  BY AppendProperties
<1> HIDE DEF t, n
<1>5. /\ u \in Seq(Wires) /\ Len(u) = 3 * (n + 1)
      /\ \A p \in 1 .. 3 * n : u[p] = s[p]
      /\ u[3 * n + 1] = e /\ u[3 * n + 2] = "nl" /\ u[3 * n + 3] = "nl"
  <2>1. 1 \in 1 .. Len(c) /\ 2 \in 1 .. Len(c) /\ 3 \in 1 .. Len(c) /\ 3 * n + 3 = 3 * (n + 1)
    BY <1>1, <1>2
  <2>2. QED
    BY <1>1, <1>2, <1>3, <2>1 DEF IsConcat
<1>6. ASSUME NEW j \in 1 .. n + 1
      PROVE  u[3 * j - 2] = t[j] /\ u[3 * j - 1] = "nl" /\ u[3 * j] = "nl"
  <2>1. CASE j \in 1 .. n
    <3>1. 3 * j - 2 \in 1 .. 3 * n /\ 3 * j - 1 \in 1 .. 3 * n /\ 3 * j \in 1 .. 3 * n
      BY <1>2, <2>1
    <3>2. QED
      BY <1>2, <1>4, <1>5, <2>1, <3>1
  <2>2. CASE j = n + 1
    <3>1. 3 * j - 2 = 3 * n + 1 /\ 3 * j - 1 = 3 * n + 2 /\ 3 * j = 3 * n + 3
      BY <1>2, <2>2
    <3>2. QED
      BY <1>4, <1>5, <2>2, <3>1
  <2>3. QED
    BY <1>2, <2>1, <2>2
<1>7. QED
  BY <1>4, <1>5, <1>6 DEF IsStream, u, t, c

(* The chat's inductive invariant: what was read but not parsed starts with *)
(* a frame and is less than one, and with what is under way it is the       *)
(* stream of the events not yet called back.                                *)
StreamWhole(q) ==
  /\ q \in Seq(Events) /\ said = heard \o q
  /\ IsStream(buf \o wire, q)

ChatInv ==
  /\ said \in Seq(Events) /\ heard \in Seq(Events)
  /\ wire \in Seq(Wires) /\ buf \in Seq(Wires) /\ Len(buf) < 3
  /\ \E q : StreamWhole(q)

LEMMA NothingYet ==
  /\ <<>> \in Seq(Events) /\ <<>> \in Seq(Wires) /\ Len(<<>>) < 3
  /\ <<>> = <<>> \o <<>> /\ IsStream(<<>> \o <<>>, <<>>)
<1>1. <<>> \in Seq(Events) /\ <<>> \in Seq(Wires) /\ Len(<<>>) = 0
  OBVIOUS
<1>2. <<>> = <<>> \o <<>>
  BY <1>1, ConcatEmptySeq
<1>3. IsStream(<<>>, <<>>)
  BY <1>1 DEF IsStream
<1>4. QED
  BY <1>1, <1>2, <1>3

LEMMA SpeakWhole ==
  ASSUME ChatInv, Speak
  PROVE  ChatInv'
<1>1. PICK q : StreamWhole(q)
  BY DEF ChatInv
<1>2. CASE UNCHANGED <<wire, said>>
  <2>1. UNCHANGED <<wire, said, buf, heard>>
    BY <1>2 DEF Speak
  <2>2. QED
    BY <1>1, <2>1 DEF ChatInv, StreamWhole
<1>3. ASSUME NEW e \in Events, wire' = wire \o <<e, "nl", "nl">>, said' = Append(said, e)
      PROVE  ChatInv'
  <2> DEFINE c == <<e, "nl", "nl">>
             t == Append(q, e)
  <2>1. UNCHANGED <<buf, heard>>
    BY DEF Speak
  <2>2. c \in Seq(Wires) /\ wire \in Seq(Wires) /\ buf \in Seq(Wires) /\ heard \in Seq(Events) /\ said \in Seq(Events)
    BY DEF Wires, ChatInv
  <2>3. q \in Seq(Events) /\ said = heard \o q /\ IsStream(buf \o wire, q)
    BY <1>1 DEF StreamWhole
  <2>4. t \in Seq(Events) /\ said' \in Seq(Events)
    BY <1>3, <2>2, <2>3, AppendProperties
  <2>5. IsStream((buf \o wire) \o c, t)
    BY <2>3, StreamGrows
  <2> HIDE DEF c
  <2>6. wire' \in Seq(Wires) /\ (buf \o wire) \o c = buf' \o wire'
    <3>1. wire \o c \in Seq(Wires)
      BY <2>2, ConcatProperties
    <3>2. (buf \o wire) \o c = buf \o (wire \o c)
      BY <2>2, ConcatAssociative
    <3>3. wire' = wire \o c
      BY <1>3 DEF c
    <3>4. QED
      BY <2>1, <3>1, <3>2, <3>3
  <2>7. said' = heard' \o t
    <3> DEFINE one == <<e>>
    <3>1. one \in Seq(Events)
      OBVIOUS
    <3>2. said' = said \o one /\ t = q \o one
      BY <1>3, <2>2, <2>3, AppendIsConcat
    <3> HIDE DEF one, t
    <3>3. (heard \o q) \o one = heard \o (q \o one)
      BY <2>2, <2>3, <3>1, ConcatAssociative
    <3>4. QED
      BY <2>1, <2>3, <3>2, <3>3
  <2> HIDE DEF t
  <2>8. StreamWhole(t)'
    BY <2>4, <2>5, <2>6, <2>7 DEF StreamWhole
  <2>9. QED
    BY <2>1, <2>2, <2>4, <2>6, <2>8 DEF ChatInv
<1>4. QED
  BY <1>2, <1>3 DEF Speak

LEMMA ReadWhole ==
  ASSUME ChatInv, Read
  PROVE  ChatInv'
<1>1. PICK q : StreamWhole(q)
  BY DEF ChatInv
<1>2. PICK k \in 1 .. Len(wire) :
        LET b == buf \o SubSeq(wire, 1, k)
        IN  wire' = SubSeq(wire, k + 1, Len(wire)) /\ buf' = Remainder(b) /\ heard' = heard \o Frames(b)
  BY DEF Read
<1> DEFINE n    == Len(wire)
           part == SubSeq(wire, 1, k)
           rest == SubSeq(wire, k + 1, n)
           b    == buf \o part
<1>3. /\ wire' = rest /\ buf' = Remainder(b) /\ heard' = heard \o Frames(b) /\ said' = said
  BY <1>2 DEF Read
<1>4. /\ wire \in Seq(Wires) /\ buf \in Seq(Wires) /\ heard \in Seq(Events) /\ said \in Seq(Events)
      /\ n \in Nat /\ k \in Nat /\ 1 <= k /\ k <= n
  BY LenProperties DEF ChatInv
<1>5. q \in Seq(Events) /\ said = heard \o q /\ IsStream(buf \o wire, q)
  BY <1>1 DEF StreamWhole
<1>6. IsPart(part, Wires, wire, 1, k) /\ IsPart(rest, Wires, wire, k + 1, n)
  <2>1. 1 \in Nat /\ 1 <= 1 /\ 1 <= k + 1 /\ k + 1 \in Nat /\ 1 <= k + 1 /\ k + 1 <= n + 1 /\ n <= n
    BY <1>4
  <2>2. QED
    BY <1>4, <2>1, PartOf
<1>7. part \in Seq(Wires) /\ rest \in Seq(Wires)
  BY <1>6 DEF IsPart
<1>8. part \o rest = wire
  <2>1. 1 \in 1 .. n + 1 /\ k \in 1 - 1 .. n /\ n \in k .. n
    BY <1>4
  <2>2. SubSeq(wire, 1, k) \o SubSeq(wire, k + 1, n) = SubSeq(wire, 1, n)
    BY <1>4, <2>1, ConcatAdjacentSubSeq
  <2>3. SubSeq(wire, 1, n) = wire
    BY <1>4, SubSeqFull
  <2>4. QED
    BY <2>2, <2>3
<1> HIDE DEF part, rest, n
<1>9. b \in Seq(Wires) /\ b \o rest = buf \o wire
  <2>1. b \in Seq(Wires)
    BY <1>4, <1>7, ConcatProperties
  <2>2. (buf \o part) \o rest = buf \o (part \o rest)
    <3>1. buf \in Seq(Wires) /\ part \in Seq(Wires) /\ rest \in Seq(Wires)
      BY <1>4, <1>7
    <3>2. QED
      BY ONLY <3>1, ConcatAssociative
  <2>3. QED
    BY <1>8, <2>1, <2>2
<1> HIDE DEF b
<1>10. PICK m \in Nat :
         /\ IsChunk(b, q, m)
         /\ Remainder(b) \in Seq(Wires) /\ Len(Remainder(b)) < 3
         /\ IsStream(Remainder(b) \o rest, SubSeq(q, m + 1, Len(q)))
  BY <1>5, <1>7, <1>9, StreamCut
<1> DEFINE l    == Len(q)
           head == SubSeq(q, 1, m)
           tail == SubSeq(q, m + 1, l)
<1>11. Frames(b) = head
  BY <1>5, <1>10, FramesOf
<1>12. l \in Nat /\ m <= l
  BY <1>5, <1>10, LenProperties DEF IsChunk
<1>13. IsPart(head, Events, q, 1, m) /\ IsPart(tail, Events, q, m + 1, l)
  <2>1. 1 \in Nat /\ 1 <= 1 /\ 1 <= m + 1 /\ m + 1 \in Nat /\ m + 1 <= l + 1 /\ l <= l
    BY <1>12
  <2>2. QED
    BY <1>5, <1>12, <2>1, PartOf
<1>14. head \in Seq(Events) /\ tail \in Seq(Events)
  BY <1>13 DEF IsPart
<1>15. head \o tail = q
  <2>1. 1 \in 1 .. l + 1 /\ m \in 1 - 1 .. l /\ l \in m .. l
    BY <1>12
  <2>2. SubSeq(q, 1, m) \o SubSeq(q, m + 1, l) = SubSeq(q, 1, l)
    BY <1>5, <2>1, ConcatAdjacentSubSeq
  <2>3. SubSeq(q, 1, l) = q
    BY <1>5, SubSeqFull
  <2>4. QED
    BY <2>2, <2>3
<1>16. IsStream(Remainder(b) \o rest, tail)
  BY <1>10
<1> HIDE DEF head, tail, l
<1>17. heard' \in Seq(Events) /\ said' = heard' \o tail
  <2>1. heard' = heard \o head /\ heard' \in Seq(Events)
    BY <1>3, <1>4, <1>11, <1>14, ConcatProperties
  <2>2. (heard \o head) \o tail = heard \o (head \o tail)
    <3>1. heard \in Seq(Events) /\ head \in Seq(Events) /\ tail \in Seq(Events)
      BY <1>4, <1>14
    <3>2. QED
      BY ONLY <3>1, ConcatAssociative
  <2>3. QED
    BY <1>3, <1>5, <1>15, <2>1, <2>2
<1>18. StreamWhole(tail)'
  BY <1>3, <1>14, <1>16, <1>17 DEF StreamWhole
<1>19. QED
  BY <1>3, <1>4, <1>7, <1>10, <1>17, <1>18 DEF ChatInv

LEMMA ChatInvKept == ChatInv /\ [ChatNext]_<<clicks, reqs, chatVars>> => ChatInv'
<1> SUFFICES ASSUME ChatInv, [ChatNext]_<<clicks, reqs, chatVars>> PROVE ChatInv'
  OBVIOUS
<1>1. CASE UNCHANGED <<wire, buf, said, heard>>
  BY <1>1 DEF ChatInv, StreamWhole
<1>2. CASE Send \/ SendDone
  <2>1. said' = <<>> /\ heard' = <<>> /\ wire' = <<>> /\ buf' = <<>>
    BY <1>2 DEF Send, SendDone
  <2>2. StreamWhole(<<>>)'
    BY <2>1, NothingYet DEF StreamWhole
  <2>3. QED
    BY <2>1, <2>2, NothingYet DEF ChatInv
<1>3. CASE Speak
  BY <1>3, SpeakWhole
<1>4. CASE Read
  BY <1>4, ReadWhole
<1>5. CASE RefreshStatus \/ Abort \/ Clear \/ (\E r \in Waiting("status") : StatusDone(r)) \/ UNCHANGED chatVars
  BY <1>1, <1>5 DEF RefreshStatus, Abort, Clear, StatusDone, chatVars
<1>6. QED
  BY <1>2, <1>3, <1>4, <1>5 DEF ChatNext

(* However the connection cuts the answer's stream, its events are called   *)
(* back in order and whole, and nothing is left over (ai.ts: streamChat).   *)
THEOREM FramesStayWhole == ChatSpec => []FramesWhole
<1>1. PageInit /\ ChatInit => ChatInv
  <2> SUFFICES ASSUME ChatInit PROVE ChatInv
    OBVIOUS
  <2>1. said = <<>> /\ heard = <<>> /\ wire = <<>> /\ buf = <<>>
    BY DEF ChatInit
  <2>2. StreamWhole(<<>>)
    BY <2>1, NothingYet DEF StreamWhole
  <2>3. QED
    BY <2>1, <2>2, NothingYet DEF ChatInv
<1>2. ChatInv => FramesWhole
  <2> SUFFICES ASSUME ChatInv PROVE FramesWhole
    OBVIOUS
  <2> DEFINE b == buf \o wire
  <2>1. PICK q : StreamWhole(q)
    BY DEF ChatInv
  <2>2. /\ q \in Seq(Events) /\ said = heard \o q /\ IsStream(b, q)
        /\ wire \in Seq(Wires) /\ buf \in Seq(Wires) /\ b \in Seq(Wires) /\ <<>> \in Seq(Wires)
    <3>1. q \in Seq(Events) /\ said = heard \o q /\ IsStream(b, q)
      BY <2>1 DEF StreamWhole
    <3>2. wire \in Seq(Wires) /\ buf \in Seq(Wires)
      BY DEF ChatInv
    <3>3. b \in Seq(Wires)
      BY <3>1 DEF IsStream
    <3>4. QED
      BY <3>1, <3>2, <3>3, NothingYet
  <2> HIDE DEF b
  <2>3. b \o <<>> = b
    BY <2>2, ConcatEmptySeq
  <2>4. PICK m \in Nat : IsChunk(b, q, m) /\ m = Len(q)
    BY <2>2, <2>3, StreamCut
  <2>5. Frames(b) = SubSeq(q, 1, Len(q))
    BY <2>2, <2>4, FramesOf
  <2>6. Frames(b) = q
    BY <2>2, <2>5, SubSeqFull
  <2>7. ASSUME wire = <<>> PROVE buf = <<>>
    <3>1. b = buf
      BY <2>2, <2>7, ConcatEmptySeq DEF b
    <3>2. Len(buf) = 3 * Len(q) /\ Len(buf) < 3 /\ Len(q) \in Nat
      BY <2>2, <3>1, LenProperties DEF IsStream, ChatInv
    <3>3. Len(buf) = 0
      BY <3>2
    <3>4. QED
      BY <2>2, <3>3, EmptySeq
  <2>8. QED
    BY <2>2, <2>6, <2>7 DEF FramesWhole, b
<1>3. QED
  BY <1>1, <1>2, ChatInvKept, PTL DEF ChatSpec

-----------------------------------------------------------------------------
(* RssFeeds                                                                 *)

(* One path at most is selected, and while the dialog for renaming is open   *)
(* it is none but the one the dialog was opened for.                        *)
OneSelected == \A p, q \in selectedPath : p = q

RenamesSelected == \A w \in window : w.kind = "rename" => selectedPath \subseteq {w.path}

AreWindows == \A w \in window : w = [kind |-> w.kind, busy |-> w.busy, path |-> w.path]

FeedInv == OneSelected /\ RenamesSelected /\ AreWindows

(* Fewer dialogs over fewer selected paths are as good.                     *)
LEMMA FewerWindows ==
  ASSUME FeedInv, window' \subseteq window, selectedPath' \subseteq selectedPath
  PROVE  FeedInv'
  BY DEF FeedInv, OneSelected, RenamesSelected, AreWindows

LEMMA FeedStep ==
  ASSUME FeedInv, FeedNext
  PROVE  FeedInv'
<1>1. CASE UNCHANGED <<window, selectedPath>>
  BY <1>1, FewerWindows
<1>2. CASE Visit \/ ReloadFeeds \/ CancelWindow
  BY <1>2, FewerWindows DEF Visit, ReloadFeeds, CancelWindow
<1>3. ASSUME NEW s \in Feeders, FeedTab(s)
      PROVE  FeedInv'
  BY <1>3, FewerWindows DEF FeedTab
<1>4. ASSUME NEW p, SelectPath(p)
      PROVE  FeedInv'
  <2>1. window' = {} /\ (p = {} \/ \E n \in feeds : p = {n.path}) /\ selectedPath' = p
    BY <1>4 DEF SelectPath
  <2>2. QED
    BY <2>1 DEF FeedInv, OneSelected, RenamesSelected, AreWindows
<1>5. ASSUME NEW kind, OpenWindow(kind)
      PROVE  FeedInv'
  <2> DEFINE path == IF kind \in {"rename", "remove"} THEN CHOOSE p \in selectedPath : TRUE ELSE DefaultParent
             w    == [kind |-> kind, busy |-> {}, path |-> path]
  <2>1. window' = {w} /\ UNCHANGED selectedPath
    BY <1>5 DEF OpenWindow
  <2>2. kind = "rename" => selectedPath \subseteq {path}
    BY DEF FeedInv, OneSelected
  <2>3. QED
    BY <2>1, <2>2 DEF FeedInv, OneSelected, RenamesSelected, AreWindows
<1>6. ASSUME NEW w, ConfirmRemove(w)
      PROVE  FeedInv'
  <2>1. /\ w \in window /\ w.kind = "remove" /\ window' = {[w EXCEPT !.busy = {clicks'}]}
        /\ UNCHANGED selectedPath
    BY <1>6 DEF ConfirmRemove
  <2> DEFINE v == [w EXCEPT !.busy = {clicks'}]
  <2>2. v.kind = "remove" /\ v = [kind |-> v.kind, busy |-> v.busy, path |-> v.path]
    BY <2>1 DEF FeedInv, AreWindows
  <2>3. QED
    BY <2>1, <2>2 DEF FeedInv, OneSelected, RenamesSelected, AreWindows
<1>7. ASSUME NEW w, NEW name, SubmitRename(w, name)
      PROVE  FeedInv'
  BY <1>7, FewerWindows DEF SubmitRename
<1>8. ASSUME NEW w, NEW name, NEW dir, SubmitNode(w, dir, name)
      PROVE  FeedInv'
  BY <1>1, <1>8 DEF SubmitNode, feedVars
<1>9. ASSUME NEW p, ToggleFolder(p)
      PROVE  FeedInv'
  BY <1>1, <1>9 DEF ToggleFolder
<1>10. ASSUME NEW op, SelectedOp(op)
       PROVE  FeedInv'
  BY <1>1, <1>10 DEF SelectedOp, feedVars
<1>11. CASE FeedAnswer
  <2>1. ASSUME NEW r, NEW ok, NEW nodes, FeedsDone(r, ok, nodes)
        PROVE  FeedInv'
    <3>1. window' \subseteq window /\ (r.arg.then = "rename" => \A w \in window' : w.kind # "rename")
      BY <2>1 DEF FeedsDone, Closes
    <3>2. CASE r.arg.then = "rename"
      <4>1. selectedPath' = {r.arg.path}
        BY <2>1, <3>2 DEF FeedsDone
      <4>2. QED
        BY <3>1, <3>2, <4>1 DEF FeedInv, OneSelected, RenamesSelected, AreWindows
    <3>3. CASE r.arg.then # "rename"
      <4>1. selectedPath' \subseteq selectedPath
        BY <2>1, <3>3 DEF FeedsDone
      <4>2. QED
        BY <3>1, <4>1, FewerWindows
    <3>4. QED
      BY <3>2, <3>3
  <2>2. ASSUME NEW r, NEW ok, RunDone(r, ok)
        PROVE  FeedInv'
    BY <2>2, FewerWindows DEF RunDone, Closes
  <2>3. ASSUME NEW r, FeedServer(r) \/ TimerFires(r) \/ \E ok : RefreshDone(r, ok)
        PROVE  FeedInv'
    BY <1>1, <2>3 DEF FeedServer, TimerFires, RefreshDone, feedVars
  <2>4. QED
    BY <1>11, <2>1, <2>2, <2>3 DEF FeedAnswer
<1>12. QED
  BY <1>2, <1>3, <1>4, <1>5, <1>6, <1>7, <1>8, <1>9, <1>10, <1>11 DEF FeedNext

(* Whatever handler goes on below the dialog, confirming it renames what it  *)
(* was opened for (RssPage.tsx: submitRename, reload).                      *)
THEOREM RenameIsSafe == FeedSpec => []RenameHitsChosen
<1>1. PageInit /\ FeedInit => FeedInv
  BY DEF FeedInit, FeedInv, OneSelected, RenamesSelected, AreWindows
<1>2. FeedInv /\ [FeedNext]_<<clicks, reqs, feedVars>> => FeedInv'
  <2>1. CASE UNCHANGED <<clicks, reqs, feedVars>>
    BY <2>1, FewerWindows DEF feedVars
  <2>2. QED
    BY <2>1, FeedStep
<1>3. FeedInv => RenameHitsChosen
  BY DEF FeedInv, RenamesSelected, RenameHitsChosen, Selected, FindNode
<1>4. QED
  BY <1>1, <1>2, <1>3, PTL DEF FeedSpec

-----------------------------------------------------------------------------
(* RssRules                                                                 *)

(* The first of a sequence that is one of the names: there is a least index. *)
Less == {pair \in Nat \X Nat : pair[1] < pair[2]}

LEMMA LeastOf ==
  ASSUME NEW T \in SUBSET Nat, T # {}
  PROVE  \E x \in T : \A y \in T : x <= y
<1>1. IsWellFoundedOn(Less, Nat)
  BY NatLessThanWellFounded DEF OpToRel, Less
<1>2. PICK x \in T : \A y \in T : <<y, x>> \notin Less
  BY <1>1, WFMin
<1>3. ASSUME NEW y \in T PROVE x <= y
  <2>1. <<y, x>> \in Nat \X Nat /\ <<y, x>>[1] = y /\ <<y, x>>[2] = x
    OBVIOUS
  <2>2. ~(y < x)
    BY <1>2, <2>1 DEF Less
  <2>3. QED
    BY <2>2
<1>4. QED
  BY <1>3

LEMMA FirstOfIsOne ==
  ASSUME NEW S, NEW seq \in Seq(S), NEW names, \E i \in DOMAIN seq : seq[i] \in names
  PROVE  FirstOf(seq, names) \in names
<1> DEFINE at == {i \in DOMAIN seq : seq[i] \in names}
<1>1. at \in SUBSET Nat /\ at # {}
  OBVIOUS
<1>2. \E i \in DOMAIN seq : seq[i] \in names /\ \A j \in DOMAIN seq : seq[j] \in names => i <= j
  <2>1. PICK i \in at : \A j \in at : i <= j
    BY <1>1, LeastOf
  <2>2. QED
    BY <2>1
<1>3. QED
  BY <1>2 DEF FirstOf

LEMMA NamesInOrder ==
  /\ Numbered \in Seq(RuleNames) /\ <<OtherRule>> \o Numbered \in Seq(RuleNames)
  /\ \A name \in ToSet(Numbered) : \E i \in DOMAIN Numbered : Numbered[i] = name
  /\ \A name \in RuleNames : \E i \in DOMAIN (<<OtherRule>> \o Numbered) :
                               (<<OtherRule>> \o Numbered)[i] = name
<1>1. Numbered \in Seq(ToSet(Numbered))
  BY RuleAssumption
<1>2. \A name \in ToSet(Numbered) : \E i \in DOMAIN Numbered : Numbered[i] = name
  BY DEF ToSet
<1>3. Numbered \in Seq(RuleNames) /\ <<OtherRule>> \in Seq(RuleNames)
  BY <1>1 DEF RuleNames
<1>4. ASSUME NEW name \in RuleNames
      PROVE  \E i \in DOMAIN (<<OtherRule>> \o Numbered) : (<<OtherRule>> \o Numbered)[i] = name
  <2>1. CASE name = OtherRule
    <3>1. 1 \in DOMAIN (<<OtherRule>> \o Numbered) /\ (<<OtherRule>> \o Numbered)[1] = name
      BY <1>3, <2>1
    <3>2. QED
      BY <3>1
  <2>2. CASE name \in ToSet(Numbered)
    <3>1. PICK i \in DOMAIN Numbered : Numbered[i] = name
      BY <1>2, <2>2
    <3>2. i + 1 \in DOMAIN (<<OtherRule>> \o Numbered) /\ (<<OtherRule>> \o Numbered)[i + 1] = name
      BY <1>3, <3>1
    <3>3. QED
      BY <3>2
  <2>3. QED
    BY <2>1, <2>2 DEF RuleNames
<1>5. QED
  BY <1>2, <1>3, <1>4

IsRule(r) == r = [name |-> r.name, val |-> r.val, kept |-> r.kept] /\ r.name \in RuleNames

AreRules(rs) == \A r \in rs : IsRule(r)

(* createRule finds a name when there is one, reload the first rule.        *)
LEMMA FirstFreeIsFree ==
  ASSUME ToSet(Numbered) \ Taken(list) # {}
  PROVE  FirstFree \in RuleNames \ Taken(list)
<1>1. PICK name \in ToSet(Numbered) : name \notin Taken(list)
  OBVIOUS
<1>2. name \in RuleNames \ Taken(list)
  BY <1>1 DEF RuleNames
<1>3. \E i \in DOMAIN Numbered : Numbered[i] \in RuleNames \ Taken(list)
  BY <1>1, <1>2, NamesInOrder
<1>4. FirstOf(Numbered, RuleNames \ Taken(list)) \in RuleNames \ Taken(list)
  BY <1>3, NamesInOrder, FirstOfIsOne
<1>5. QED
  BY <1>4 DEF FirstFree

LEMMA TopIsOne ==
  ASSUME NEW got, AreRules(got), got # {}
  PROVE  TopOf(got) \in got
<1>1. \E name \in RuleNames : name \in Taken(got)
  BY DEF AreRules, IsRule, Taken
<1>2. FirstOf(<<OtherRule>> \o Numbered, Taken(got)) \in Taken(got)
  BY <1>1, NamesInOrder, FirstOfIsOne
<1>3. \E q \in got : q.name = FirstOf(<<OtherRule>> \o Numbered, Taken(got))
  BY <1>2 DEF Taken
<1>4. QED
  BY <1>3 DEF TopOf

(* The requests of the dialog name a server and carry rules.                *)
IsRuleArg(op, arg) ==
  /\ arg.server \in RuleServers
  /\ op \in {"setRule", "renameRule"} => IsRule(arg.rule)
  /\ op = "setRule" => arg.name \in RuleNames
  /\ op = "renameRule" => arg.dest \in RuleNames

IsRuleRequest(r) == IsRuleArg(r.op, r.arg) /\ \A a \in r.got : AreRules(a.list)

RulesNamed ==
  /\ rules = [s \in RuleServers |-> rules[s]]
  /\ \A s \in RuleServers : DOMAIN rules[s] \subseteq RuleNames

DialogNamed ==
  /\ ruleTab \in RuleServers /\ form.name \in RuleNames
  /\ AreRules(list) /\ AreRules(rule) /\ AreRules(discard)

RequestsNamed == \A r \in reqs : IsRuleRequest(r)

RuleInv == OnePerClick /\ RulesNamed /\ DialogNamed /\ RequestsNamed

LEMMA RuleMade == \A name \in RuleNames : \A val, kept : IsRule(Rule(name, val, kept))
  BY DEF Rule, IsRule

(* A server obeys what the form showed, whether it is given a copy or not.  *)
LEMMA ObeyedPayload ==
  ASSUME NEW r, IsRule(r)
  PROVE  Obeyed(Payload(r)) = r.val
<1>1. Payload(r) = [name |-> r.name, val |-> r.val, kept |-> IF r.kept = {} THEN {} ELSE {r.val}]
  BY DEF IsRule, Payload
<1>2. QED
  BY <1>1 DEF Obeyed

(* What a server does with a request for rules, and answers.                *)
LEMMA RuleServerStep ==
  ASSUME RuleInv, NEW r \in reqs, r.op \in RuleOps, RuleServer(r)
  PROVE  /\ RuleInv'
         /\ \E q : Replaces(r, q)
         /\ \A q \in reqs' : /\ q \notin reqs => q.n = r.n
                             /\ q \notin reqs /\ r.op = "setRule" /\ (\E a \in q.got : a.ok)
                                  => rules'[r.arg.server][r.arg.name] = r.arg.rule.val
<1>1. IsRequest(r) /\ IsRuleRequest(r) /\ UNCHANGED <<clicks, ruleTab, list, rule, form, discard>>
  BY DEF RuleInv, OnePerClick, RequestsNamed, RuleServer
<1> DEFINE s == r.arg.server
<1>2. /\ rules' = rules \/ rules' \in RuleOutcomes(r)
      /\ \E value : Handled(r, value) /\ AreRules(value.list) /\ (value.ok => rules' \in RuleOutcomes(r))
  <2>1. AreRules({})
    BY DEF AreRules
  <2>2. CASE \E now \in RuleOutcomes(r) : rules' = now
    <3>1. AreRules(GetRules(s))
      <4>1. \A n \in DOMAIN rules[s] : IsRule(ParseRssRule(s, n))
        BY <1>1, RuleMade DEF ParseRssRule, RuleInv, RulesNamed, IsRuleRequest, IsRuleArg
      <4>2. QED
        BY <4>1 DEF AreRules, GetRules
    <3>2. QED
      BY <2>1, <2>2, <3>1 DEF RuleServer
  <2>3. CASE Handled(r, [ok |-> FALSE, list |-> {}]) /\ UNCHANGED rules
    BY <2>1, <2>3
  <2>4. QED
    BY <2>2, <2>3 DEF RuleServer
<1>3. PICK value : Handled(r, value) /\ AreRules(value.list) /\ (value.ok => rules' \in RuleOutcomes(r))
  BY <1>2
<1> DEFINE answer == [r EXCEPT !.got = {value}]
<1>4. /\ IsRequest(answer) /\ answer.n = r.n /\ answer.op = r.op /\ answer.arg = r.arg
      /\ answer.got = {value}
  BY <1>1, Answered
<1>5. reqs' = (reqs \ {r}) \cup {answer}
  BY <1>3 DEF Handled
<1>6. Replaces(r, answer)
  BY <1>1, <1>4, <1>5 DEF Replaces
<1>7. IsRuleRequest(answer)
  BY <1>1, <1>3, <1>4 DEF IsRuleRequest
<1>8. RulesNamed'
  <2>1. CASE rules' = rules
    BY <2>1 DEF RuleInv, RulesNamed
  <2>2. CASE rules' \in RuleOutcomes(r)
    <3>1. s \in RuleServers /\ rules = [m \in RuleServers |-> rules[m]] /\ DOMAIN rules[s] \subseteq RuleNames
      BY <1>1 DEF RuleInv, RulesNamed, IsRuleRequest, IsRuleArg
    <3>2. rules' = rules \/ \E now : rules' = [rules EXCEPT ![s] = now] /\ DOMAIN now \subseteq RuleNames
      <4>1. CASE r.op = "setRule"
        <5> DEFINE val == Obeyed(Payload(r.arg.rule))
                   now == [n \in DOMAIN rules[s] \cup {r.arg.name} |-> IF n = r.arg.name THEN val ELSE rules[s][n]]
        <5>1. rules' = [rules EXCEPT ![s] = now]
          BY <2>2, <4>1 DEF RuleOutcomes, Put
        <5>2. DOMAIN now \subseteq RuleNames
          BY <1>1, <3>1, <4>1 DEF IsRuleRequest, IsRuleArg
        <5>3. QED
          BY <5>1, <5>2
      <4>2. CASE r.op = "renameRule"
        <5> DEFINE now == [n \in (DOMAIN rules[s] \ {r.arg.name}) \cup {r.arg.dest} |->
                             IF n = r.arg.dest THEN rules[s][r.arg.name] ELSE rules[s][n]]
        <5>1. rules' = [rules EXCEPT ![s] = now]
          BY <2>2, <4>2 DEF RuleOutcomes
        <5>2. DOMAIN now \subseteq RuleNames
          BY <1>1, <3>1, <4>2 DEF IsRuleRequest, IsRuleArg
        <5>3. QED
          BY <5>1, <5>2
      <4>3. CASE r.op = "removeRule"
        <5> DEFINE now == [n \in DOMAIN rules[s] \ {r.arg.name} |-> rules[s][n]]
        <5>1. rules' = [rules EXCEPT ![s] = now] /\ DOMAIN now \subseteq RuleNames
          BY <2>2, <3>1, <4>3 DEF RuleOutcomes, Without
        <5>2. QED
          BY <5>1
      <4>4. CASE r.op = "rules"
        BY <2>2, <4>4 DEF RuleOutcomes
      <4>5. QED
        BY <4>1, <4>2, <4>3, <4>4 DEF RuleOps
    <3>3. CASE rules' = rules
      BY <2>1, <3>3
    <3>4. ASSUME NEW now, rules' = [rules EXCEPT ![s] = now], DOMAIN now \subseteq RuleNames
          PROVE  RulesNamed'
      BY <3>1, <3>4 DEF RuleInv, RulesNamed
    <3>5. QED
      BY <3>2, <3>3, <3>4
  <2>3. QED
    BY <1>2, <2>1, <2>2
<1>9. RuleInv'
  <2>1. OnePerClick'
    BY <1>6, StaysNumbered DEF RuleInv
  <2>2. DialogNamed' /\ RequestsNamed'
    BY <1>1, <1>5, <1>7 DEF RuleInv, DialogNamed, RequestsNamed
  <2>3. QED
    BY <1>8, <2>1, <2>2 DEF RuleInv
<1>10. ASSUME r.op = "setRule", value.ok
       PROVE  rules'[r.arg.server][r.arg.name] = r.arg.rule.val
  <2>1. rules' = Put(r.arg.server, r.arg.name, Obeyed(Payload(r.arg.rule)))
    BY <1>3, <1>10 DEF RuleOutcomes
  <2>2. Obeyed(Payload(r.arg.rule)) = r.arg.rule.val
    BY <1>1, <1>10, ObeyedPayload DEF IsRuleRequest, IsRuleArg
  <2>3. rules = [m \in RuleServers |-> rules[m]] /\ r.arg.server \in RuleServers
    BY <1>1 DEF RuleInv, RulesNamed, IsRuleRequest, IsRuleArg
  <2>4. QED
    BY <2>1, <2>2, <2>3 DEF Put
<1>11. QED
  BY <1>4, <1>5, <1>6, <1>9, <1>10

(* What the user does: a request more, not yet answered, or none.           *)
LEMMA RuleUserStep ==
  ASSUME RuleInv,
         \/ \E s \in RuleServers : RuleTab(s)
         \/ OpenRules \/ CloseRules \/ Confirmed \/ CreateRule
         \/ \E r \in list : SelectRule(r) \/ DeleteRule(r)
         \/ \E name \in RuleNames : Edit(name)
         \/ \E r \in rule : HandleSave(r)
  PROVE  /\ RuleInv'
         /\ \A q \in reqs' : q \notin reqs => q.got = {}
<1> USE DEF RuleInv
<1>1. OnePerClick /\ clicks \in Nat /\ UNCHANGED rules
  BY DEF OnePerClick, RuleTab, OpenRules, CloseRules, Confirmed, CreateRule, SelectRule, DeleteRule, Edit,
         HandleSave, ruleVars
<1>2. DialogNamed'
  <2> USE DEF DialogNamed
  <2>1. CASE (\E s \in RuleServers : RuleTab(s)) \/ OpenRules \/ CloseRules \/ CreateRule
    BY <2>1 DEF RuleTab, OpenRules, CloseRules, CreateRule, AreRules
  <2>2. CASE (\E r \in list : DeleteRule(r)) \/ (\E r \in rule : HandleSave(r))
    BY <2>2 DEF DeleteRule, HandleSave, ruleVars
  <2>3. ASSUME NEW r, IsRule(r), Selects(r)
        PROVE  AreRules(rule') /\ form'.name \in RuleNames
    BY <2>3 DEF Selects, AreRules, IsRule, Formed
  <2>4. CASE Confirmed
    BY <2>3, <2>4 DEF Confirmed, AreRules
  <2>5. ASSUME NEW r \in list, SelectRule(r)
        PROVE  DialogNamed'
    BY <2>3, <2>5 DEF SelectRule, AreRules
  <2>6. ASSUME NEW name \in RuleNames, Edit(name)
        PROVE  DialogNamed'
    BY <2>6 DEF Edit
  <2>7. QED
    BY <2>1, <2>2, <2>4, <2>5, <2>6
<1>3. Leaves \/ \E op, arg : Press /\ reqs' = reqs \cup {Request(clicks', op, arg)} /\ IsRuleArg(op, arg)
  <2>1. CASE \/ \E s \in RuleServers : RuleTab(s)
             \/ CloseRules \/ Confirmed
             \/ \E r \in list : SelectRule(r)
             \/ \E name \in RuleNames : Edit(name)
    BY <2>1 DEF RuleTab, CloseRules, Confirmed, SelectRule, Edit, Press, Leaves
  <2>2. CASE OpenRules
    <3> DEFINE arg == [server |-> ruleTab, wanted |-> {}, awaited |-> FALSE]
    <3>1. Press /\ reqs' = reqs \cup {Request(clicks', "rules", arg)} /\ IsRuleArg("rules", arg)
      BY <2>2 DEF OpenRules, AsksRules, DialogNamed, IsRuleArg
    <3>2. QED
      BY <3>1
  <2>3. CASE CreateRule
    <3> DEFINE arg == [server |-> ruleTab, name |-> FirstFree, rule |-> Rule(FirstFree, Blank, {}), from |-> "create"]
    <3>1. Press /\ reqs' = reqs \cup {Request(clicks', "setRule", arg)}
      BY <2>3 DEF CreateRule, Asked
    <3>2. FirstFree \in RuleNames
      BY <2>3, FirstFreeIsFree DEF CreateRule
    <3>3. IsRuleArg("setRule", arg)
      BY <3>2, RuleMade DEF DialogNamed, IsRuleArg
    <3>4. QED
      BY <3>1, <3>3
  <2>4. ASSUME NEW r \in list, DeleteRule(r)
        PROVE  <1>3!2
    <3> DEFINE arg == [server |-> ruleTab, name |-> r.name]
    <3>1. Press /\ reqs' = reqs \cup {Request(clicks', "removeRule", arg)} /\ IsRuleArg("removeRule", arg)
      BY <2>4 DEF DeleteRule, Asked, DialogNamed, IsRuleArg
    <3>2. QED
      BY <3>1
  <2>5. ASSUME NEW r \in rule, HandleSave(r)
        PROVE  <1>3!2
    <3>1. IsRule(Edited(r))
      BY RuleMade DEF DialogNamed, Edited
    <3> DEFINE renamed == [server |-> ruleTab, name |-> r.name, dest |-> form.name, rule |-> Edited(r)]
               set     == [server |-> ruleTab, name |-> form.name, rule |-> Edited(r), from |-> "save"]
    <3>2. /\ Press
          /\ \/ reqs' = reqs \cup {Request(clicks', "renameRule", renamed)}
             \/ reqs' = reqs \cup {Request(clicks', "setRule", set)}
      BY <2>5 DEF HandleSave, Asked
    <3>3. IsRuleArg("renameRule", renamed) /\ IsRuleArg("setRule", set)
      BY <3>1 DEF DialogNamed, IsRuleArg
    <3>4. QED
      BY <3>2, <3>3
  <2>6. QED
    BY <2>1, <2>2, <2>3, <2>4, <2>5
<1>4. CASE Leaves
  <2>1. OnePerClick'
    BY <1>1, <1>4, StaysNumbered
  <2>2. RulesNamed' /\ RequestsNamed'
    BY <1>1, <1>4 DEF RulesNamed, RequestsNamed, Leaves
  <2>3. QED
    BY <1>2, <1>4, <2>1, <2>2 DEF Leaves
<1>5. ASSUME NEW op, NEW arg, Press, reqs' = reqs \cup {Request(clicks', op, arg)}, IsRuleArg(op, arg)
      PROVE  RuleInv' /\ \A q \in reqs' : q \notin reqs => q.got = {}
  <2> DEFINE new == Request(clicks', op, arg)
  <2>1. IsRequest(new) /\ new.n = clicks' /\ new.op = op /\ new.arg = arg /\ new.got = {}
    BY RequestMade
  <2>2. Adds(new)
    BY <1>5, <2>1 DEF Adds, Press
  <2>3. OnePerClick'
    BY <1>1, <2>2, StaysNumbered
  <2>4. IsRuleRequest(new)
    BY <1>5, <2>1 DEF IsRuleRequest
  <2>5. RulesNamed' /\ RequestsNamed'
    BY <1>1, <1>5, <2>4 DEF RulesNamed, RequestsNamed
  <2>6. QED
    BY <1>2, <1>5, <2>1, <2>3, <2>5
<1>6. QED
  BY <1>3, <1>4, <1>5

(* A handler goes on with its server and its rule, or ends.                 *)
LEMMA RuleHandlerStep ==
  ASSUME RuleInv, NEW r \in reqs, NEW a \in r.got, UNCHANGED clicks,
         \/ r.op = "rules" /\ RulesDone(r, a.ok, a.list)
         \/ r.op = "renameRule" /\ RenameDone(r, a.ok)
         \/ r.op = "setRule" /\ SetDone(r, a.ok)
         \/ r.op = "removeRule" /\ RemoveDone(r, a.ok)
  PROVE  /\ RuleInv'
         /\ \A q \in reqs' : q \notin reqs => q.got = {}
<1>1. IsRuleRequest(r) /\ IsRequest(r) /\ OnePerClick /\ UNCHANGED <<rules, ruleTab, discard>>
  BY DEF RuleInv, OnePerClick, RequestsNamed, RulesDone, RenameDone, SetDone, RemoveDone, ruleVars
<1>2. AreRules(list') /\ AreRules(rule') /\ form'.name \in RuleNames
  <2>1. CASE r.op = "rules" /\ RulesDone(r, a.ok, a.list)
    <3>1. AreRules(a.list)
      BY <1>1 DEF IsRuleRequest
    <3>2. CASE a.ok /\ a.list # {}
      <4> DEFINE target == {q \in a.list : q.name \in r.arg.wanted}
                 top    == TopOf(IF target # {} THEN target ELSE a.list)
      <4>1. rule' = {top} /\ list' = a.list /\ form' = Formed(top)
        BY <2>1, <3>2 DEF RulesDone, Selects
      <4>2. top \in a.list
        <5>1. AreRules(target) /\ target \subseteq a.list
          BY <3>1 DEF AreRules
        <5>2. QED
          BY <3>1, <3>2, <5>1, TopIsOne
      <4>3. QED
        BY <3>1, <4>1, <4>2 DEF AreRules, IsRule, Formed
    <3>3. CASE ~(a.ok /\ a.list # {})
      BY <2>1, <3>1, <3>3 DEF RulesDone, RuleInv, DialogNamed, AreRules
    <3>4. QED
      BY <3>2, <3>3
  <2>2. CASE RenameDone(r, a.ok) \/ SetDone(r, a.ok) \/ RemoveDone(r, a.ok)
    BY <2>2 DEF RenameDone, SetDone, RemoveDone, ruleVars, RuleInv, DialogNamed
  <2>3. QED
    BY <2>1, <2>2
<1>3. Drops(r) \/ \E op, arg : reqs' = (reqs \ {r}) \cup {Request(r.n, op, arg)} /\ IsRuleArg(op, arg)
  <2>1. IsRuleArg(r.op, r.arg)
    BY <1>1 DEF IsRuleRequest
  <2>2. \A wanted, awaited : \E arg : /\ AsksRules(r.n, r.arg.server, wanted, awaited) = Request(r.n, "rules", arg)
                                      /\ IsRuleArg("rules", arg)
    <3>1. TAKE wanted, awaited
    <3> DEFINE arg == [server |-> r.arg.server, wanted |-> wanted, awaited |-> awaited]
    <3>2. AsksRules(r.n, r.arg.server, wanted, awaited) = Request(r.n, "rules", arg) /\ IsRuleArg("rules", arg)
      BY <2>1 DEF AsksRules, IsRuleArg
    <3>3. QED
      BY <3>2
  <2>3. CASE \E wanted, awaited : reqs' = (reqs \ {r}) \cup {AsksRules(r.n, r.arg.server, wanted, awaited)}
    <3>1. PICK wanted, awaited : reqs' = (reqs \ {r}) \cup {AsksRules(r.n, r.arg.server, wanted, awaited)}
      BY <2>3
    <3>2. PICK arg : /\ AsksRules(r.n, r.arg.server, wanted, awaited) = Request(r.n, "rules", arg)
                     /\ IsRuleArg("rules", arg)
      BY <2>2
    <3>3. QED
      BY <3>1, <3>2
  <2>4. CASE RulesDone(r, a.ok, a.list)
    BY <2>4 DEF RulesDone, Ended, Drops
  <2>5. CASE r.op = "renameRule" /\ RenameDone(r, a.ok)
    <3> DEFINE arg == [server |-> r.arg.server, name |-> r.arg.dest, rule |-> r.arg.rule, from |-> "rename"]
    <3>1. IsRuleArg("setRule", arg)
      BY <2>1, <2>5 DEF IsRuleArg
    <3>2. CASE a.ok
      <4>1. reqs' = (reqs \ {r}) \cup {Request(r.n, "setRule", arg)}
        BY <2>5, <3>2 DEF RenameDone, Then
      <4>2. QED
        BY <3>1, <4>1
    <3>3. CASE ~a.ok
      BY <2>3, <2>5, <3>3 DEF RenameDone
    <3>4. QED
      BY <3>2, <3>3
  <2>6. CASE SetDone(r, a.ok)
    <3>1. \/ reqs' = (reqs \ {r}) \cup {AsksRules(r.n, r.arg.server, {r.arg.name}, a.ok)}
          \/ reqs' = (reqs \ {r}) \cup {}
      BY <2>6 DEF SetDone
    <3>2. QED
      BY <2>3, <3>1 DEF Drops
  <2>7. CASE RemoveDone(r, a.ok)
    <3>1. \/ reqs' = (reqs \ {r}) \cup {AsksRules(r.n, r.arg.server, {}, FALSE)}
          \/ reqs' = (reqs \ {r}) \cup {}
      BY <2>7 DEF RemoveDone
    <3>2. QED
      BY <2>3, <3>1 DEF Drops
  <2>8. QED
    BY <2>4, <2>5, <2>6, <2>7
<1> DialogNamed' /\ RulesNamed'
  BY <1>1, <1>2 DEF RuleInv, DialogNamed, RulesNamed
<1>4. CASE Drops(r)
  BY <1>1, <1>4, StaysNumbered DEF RuleInv, RequestsNamed, Drops
<1>5. ASSUME NEW op, NEW arg, reqs' = (reqs \ {r}) \cup {Request(r.n, op, arg)}, IsRuleArg(op, arg)
      PROVE  RuleInv' /\ \A q \in reqs' : q \notin reqs => q.got = {}
  <2> DEFINE new == Request(r.n, op, arg)
  <2>1. IsRequest(new) /\ new.n = r.n /\ new.op = op /\ new.arg = arg /\ new.got = {}
    BY RequestMade
  <2>2. Replaces(r, new)
    BY <1>5, <2>1 DEF Replaces
  <2>3. OnePerClick'
    BY <1>1, <2>2, StaysNumbered
  <2>4. IsRuleRequest(new)
    BY <1>5, <2>1 DEF IsRuleRequest
  <2>5. RequestsNamed'
    BY <1>1, <1>5, <2>4 DEF RuleInv, RequestsNamed
  <2>6. QED
    BY <1>5, <2>1, <2>3, <2>5 DEF RuleInv
<1>6. QED
  BY <1>3, <1>4, <1>5

LEMMA RuleNextStep ==
  ASSUME RuleInv, RuleNext
  PROVE  /\ RuleInv'
         /\ \/ \A q \in reqs' : q \notin reqs => q.got = {}
            \/ \E r \in reqs : r.op \in RuleOps /\ RuleServer(r)
<1>1. CASE RuleAnswer
  BY <1>1, RuleServerStep, RuleHandlerStep DEF RuleAnswer, Ready, Waiting
<1>2. CASE ~RuleAnswer
  BY <1>2, RuleUserStep DEF RuleNext
<1>3. QED
  BY <1>1, <1>2

SaveLandsNow ==
  \A r \in Open("setRule") :
    (\E q \in Waiting("setRule")' : q.n = r.n /\ \E a \in q.got : a.ok)
      => rules'[r.arg.server][r.arg.name] = r.arg.rule.val

(* A step that gives a request for writing a rule its answer is the server's *)
(* own: no other request has its number.                                    *)
LEMMA RuleStepLands ==
  ASSUME RuleInv, RuleNext
  PROVE  SaveLandsNow
<1> SUFFICES ASSUME NEW r \in Open("setRule"), NEW q \in Waiting("setRule")',
                    q.n = r.n, \E a \in q.got : a.ok
             PROVE  rules'[r.arg.server][r.arg.name] = r.arg.rule.val
  BY DEF SaveLandsNow
<1>1. r \in reqs /\ r.op = "setRule" /\ r.got = {} /\ q \in reqs' /\ q.got # {}
  BY DEF Open, Waiting
<1>2. q \notin reqs
  BY <1>1 DEF RuleInv, OnePerClick
<1>3. PICK s \in reqs : s.op \in RuleOps /\ RuleServer(s)
  BY <1>1, <1>2, RuleNextStep
<1>4. q.n = s.n
  BY <1>1, <1>2, <1>3, RuleServerStep
<1>5. s = r
  BY <1>1, <1>4 DEF RuleInv, OnePerClick
<1>6. QED
  BY <1>1, <1>2, <1>3, <1>5, RuleServerStep

(* A rule is obeyed with the settings the form showed, by every version of   *)
(* the server, however many saves, renames and reads are under way           *)
(* (client.ts: rssApi.setRule; RssRulesModal.tsx).                          *)
THEOREM SavesLand == RuleSpec => SaveLands
<1>1. PageInit /\ RuleInit => RuleInv
  <2> SUFFICES ASSUME PageInit, RuleInit PROVE RuleInv
    OBVIOUS
  <2>1. OnePerClick
    BY MaxClicksAssumption DEF PageInit, OnePerClick
  <2>2. RulesNamed
    <3>1. Head(Numbered) \in RuleNames
      BY RuleAssumption, NamesInOrder
    <3>2. QED
      BY <3>1 DEF RuleInit, RulesNamed, RuleNames
  <2>3. DialogNamed /\ RequestsNamed
    BY DEF RuleInit, PageInit, DialogNamed, RequestsNamed, AreRules, RuleNames, Formed, Rule
  <2>4. QED
    BY <2>1, <2>2, <2>3 DEF RuleInv
<1>2. RuleInv /\ [RuleNext]_<<clicks, reqs, ruleVars>> => RuleInv' /\ [SaveLandsNow]_<<clicks, reqs, ruleVars>>
  <2>1. CASE UNCHANGED <<clicks, reqs, ruleVars>>
    BY <2>1 DEF ruleVars, RuleInv, OnePerClick, RulesNamed, DialogNamed, RequestsNamed
  <2>2. QED
    BY <2>1, RuleNextStep, RuleStepLands
<1>3. RuleSpec => [][SaveLandsNow]_<<clicks, reqs, ruleVars>>
  BY <1>1, <1>2, PTL DEF RuleSpec
<1>4. QED
  BY <1>3 DEF SaveLands, SaveLandsNow

-----------------------------------------------------------------------------
(* SettingsForms                                                            *)

IsFill(f) == f = [t \in SettingTabs |-> f[t]]

(* A default stands only where the server did not report the tab.           *)
NoDefault(f, m) == \A t \in SettingTabs : f[t] = Defaults => t \in Unreported[m]

LoadsHere == {r \in Waiting("load") : OfThisPanel(r)}

(* The requests of a panel name it, the server it is of and one of its tabs; *)
(* a default is sent to a server, or comes from one, only for what it does   *)
(* not report.                                                              *)
IsFormRequest(r) ==
  /\ r.arg.mount \in Nat /\ r.arg.mount <= clicks /\ r.arg.server \in Machines
  /\ OfThisPanel(r) => r.arg.server = machine
  /\ r.op = "save" =>
       /\ r.arg.tab \in SettingTabs
       /\ page = "tr" /\ r.arg.value = Defaults => r.arg.tab \in Unreported[r.arg.server]
  /\ r.op = "load" =>
       \A a \in r.got : IsFill(a.got) /\ (page = "tr" /\ a.ok => NoDefault(a.got, r.arg.server))

FormShape ==
  /\ clicks \in Nat /\ mount \in Nat /\ mount <= clicks /\ machine \in Machines
  /\ IsFill(base) /\ IsFill(draft)
  /\ conf = [m \in Machines |-> conf[m]] /\ \A m \in Machines : IsFill(conf[m])
  /\ \A u \in unsaved : u[1] \in SettingTabs
  /\ \A r \in reqs : IsRequest(r) /\ IsFormRequest(r)

(* Until the language is switched, a Transmission's panel has one load at a  *)
(* time, of its own opening, and shows its form only when none is left:      *)
(* nothing is entered before.                                               *)
LoadsOnce ==
  page = "tr" /\ ~switched =>
    /\ \A r, q \in LoadsHere : r = q
    /\ LoadsHere # {} => busyLoad /\ ~loaded
    /\ busyLoad => ~failed
    /\ failed => ~loaded
    /\ ~loaded => unsaved = {}

LoadedChosen == page = "tr" /\ loaded => NoDefault(base, machine) /\ NoDefault(draft, machine)

FormInv == FormShape /\ LoadsOnce /\ LoadedChosen /\ TrUnsavedKept /\ NothingInvented

LEMMA Filled == \A value : IsFill(Fill(value)) /\ \A t \in SettingTabs : Fill(value)[t] = value
  BY DEF IsFill, Fill

LEMMA FilledExcept ==
  ASSUME NEW f, IsFill(f), NEW t \in SettingTabs, NEW v
  PROVE  LET g == [f EXCEPT ![t] = v]
         IN  IsFill(g) /\ g[t] = v /\ \A u \in SettingTabs : u # t => g[u] = f[u]
  BY DEF IsFill

(* The user: a panel is mounted, loaded again, edited, reset and saved.     *)
LEMMA MountStep ==
  ASSUME FormInv, NEW m \in Machines, Mount(m)
  PROVE  FormInv'
<1>. PICK new : new = Request(clicks', "load", [server |-> m, mount |-> clicks'])
  OBVIOUS
<1>1. /\ clicks' = clicks + 1 /\ mount' = clicks' /\ machine' = m /\ reqs' = reqs \cup {new}
      /\ base' = Fill(Defaults) /\ draft' = Fill(Defaults) /\ unsaved' = {}
      /\ busyLoad' /\ ~failed' /\ ~loaded' /\ UNCHANGED <<page, conf>> /\ clicks \in Nat
  BY DEF Mount, Press, Load, Asked, FormInv, FormShape
<1>2. /\ IsRequest(new) /\ new.op = "load" /\ new.got = {}
      /\ new.arg.mount = clicks' /\ new.arg.server = m
  BY RequestMade
<1>3. \A r \in reqs : IsRequest(r) /\ r.arg.mount # clicks' /\ IsFormRequest(r)'
  BY <1>1 DEF FormInv, FormShape, IsFormRequest, OfThisPanel
<1>4. IsFormRequest(new)'
  BY <1>1, <1>2 DEF IsFormRequest, OfThisPanel
<1>5. FormShape'
  BY <1>1, <1>2, <1>3, <1>4, Filled DEF FormInv, FormShape
<1>6. LoadsHere' \subseteq {new}
  BY <1>1, <1>3 DEF LoadsHere, Waiting, OfThisPanel
<1>7. LoadsOnce' /\ LoadedChosen' /\ TrUnsavedKept' /\ NothingInvented'
  BY <1>1, <1>6 DEF FormInv, LoadsOnce, LoadedChosen, TrUnsavedKept, NothingInvented
<1>8. QED
  BY <1>5, <1>7 DEF FormInv

(* A request of this panel, no default where one was reported, leaves the    *)
(* form alone.                                                              *)
LEMMA FormAsks ==
  ASSUME FormInv, Press, NEW op, NEW arg,
         reqs' = reqs \cup {Request(clicks', op, arg)},
         arg.mount = mount, arg.server = machine,
         op = "save" =>
           arg.tab \in SettingTabs /\ (page = "tr" /\ arg.value = Defaults => arg.tab \in Unreported[machine]),
         UNCHANGED <<page, conf, machine, mount, base, draft>>,
         \A u \in unsaved' : u \in unsaved
  PROVE  /\ FormShape' /\ TrUnsavedKept' /\ NothingInvented'
         /\ LoadsHere' \subseteq LoadsHere \cup {Request(clicks', op, arg)}
         /\ op # "load" => LoadsHere' = LoadsHere
<1>. PICK new : new = Request(clicks', op, arg)
  OBVIOUS
<1>1. clicks' = clicks + 1 /\ clicks \in Nat /\ mount \in Nat /\ mount <= clicks
  BY DEF Press, FormInv, FormShape
<1>2. IsRequest(new) /\ new.op = op /\ new.arg = arg /\ new.got = {}
  BY RequestMade
<1>3. \A r \in reqs : IsRequest(r) /\ IsFormRequest(r)'
  BY <1>1 DEF FormInv, FormShape, IsFormRequest, OfThisPanel
<1>4. IsFormRequest(new)'
  BY <1>1, <1>2 DEF IsFormRequest, OfThisPanel, FormInv, FormShape
<1>5. FormShape'
  BY <1>1, <1>2, <1>3, <1>4 DEF FormInv, FormShape
<1>6. TrUnsavedKept' /\ NothingInvented'
  BY DEF FormInv, TrUnsavedKept, NothingInvented
<1>7. QED
  BY <1>2, <1>5, <1>6 DEF LoadsHere, Waiting, OfThisPanel

LEMMA LoadAgainStep ==
  ASSUME FormInv, Retry \/ SwitchLanguage
  PROVE  FormInv'
<1> DEFINE arg == [server |-> machine, mount |-> mount]
           new == Request(clicks', "load", arg)
<1>1. /\ Press /\ reqs' = reqs \cup {new} /\ arg.mount = mount /\ arg.server = machine
      /\ busyLoad' /\ ~failed'
      /\ UNCHANGED <<page, conf, machine, mount, base, draft, unsaved, loaded>>
  BY DEF Retry, SwitchLanguage, Load, Asked
<1>2. FormShape' /\ TrUnsavedKept' /\ NothingInvented' /\ LoadsHere' \subseteq LoadsHere \cup {new}
  BY <1>1, FormAsks
<1>3. LoadedChosen'
  BY <1>1 DEF FormInv, LoadedChosen
<1>4. LoadsOnce'
  <2>1. CASE Retry
    <3>1. page = "tr" /\ ~busyLoad /\ failed /\ UNCHANGED switched
      BY <2>1 DEF Retry
    <3>2. ~switched => LoadsHere = {} /\ ~loaded
      BY <3>1 DEF FormInv, LoadsOnce
    <3>3. QED
      BY <1>1, <1>2, <3>1, <3>2 DEF FormInv, LoadsOnce
  <2>2. CASE SwitchLanguage
    BY <2>2 DEF SwitchLanguage, LoadsOnce
  <2>3. QED
    BY <2>1, <2>2
<1>5. QED
  BY <1>2, <1>3, <1>4 DEF FormInv

LEMMA SaveTabStep ==
  ASSUME FormInv, NEW t \in SettingTabs, HandleSaveTab(t)
  PROVE  FormInv'
<1> DEFINE arg == [server |-> machine, mount |-> mount, tab |-> t, value |-> draft[t]]
<1>1. /\ Press /\ reqs' = reqs \cup {Request(clicks', "save", arg)}
      /\ arg.mount = mount /\ arg.server = machine /\ arg.tab \in SettingTabs /\ arg.value = draft[t]
      /\ UNCHANGED <<page, conf, machine, mount, base, draft, switched, busyLoad, loaded, failed>> /\ unsaved' = Others(t)
  BY DEF HandleSaveTab, Asked, FormInv, FormShape
<1>2. page = "tr" /\ arg.value = Defaults => t \in Unreported[machine]
  BY <1>1 DEF HandleSaveTab, FormOffered, FormInv, LoadedChosen, NoDefault
<1>3. unsaved' \subseteq unsaved
  BY <1>1 DEF Others
<1>4. FormShape' /\ TrUnsavedKept' /\ NothingInvented' /\ LoadsHere' = LoadsHere
  BY <1>1, <1>2, <1>3, FormAsks
<1>5. LoadsOnce' /\ LoadedChosen'
  BY <1>1, <1>3, <1>4 DEF FormInv, LoadsOnce, LoadedChosen
<1>6. QED
  BY <1>4, <1>5 DEF FormInv

LEMMA EditStep ==
  ASSUME FormInv, NEW t \in SettingTabs,
         HandleReset(t) \/ \E v \in Inputs : EditField(t, v)
  PROVE  FormInv'
<1>1. PICK v : /\ draft' = [draft EXCEPT ![t] = v]
               /\ \/ v = base[t] /\ unsaved' = Others(t)
                  \/ v \in Inputs /\ unsaved' = Others(t) \cup {<<t, v, t \in savingTab>>}
  BY DEF HandleReset, EditField
<1>2. /\ FormOffered /\ UNCHANGED <<clicks, reqs, page, conf, machine, mount, base, switched, busyLoad, loaded, failed>>
  BY DEF HandleReset, EditField
<1>3. IsFill(draft') /\ draft'[t] = v /\ \A u \in SettingTabs : u # t => draft'[u] = draft[u]
  <2>1. IsFill(draft)
    BY DEF FormInv, FormShape
  <2> DEFINE entered == [draft EXCEPT ![t] = v]
  <2>2. IsFill(entered) /\ entered[t] = v /\ \A u \in SettingTabs : u # t => entered[u] = draft[u]
    BY <2>1, FilledExcept
  <2>3. draft' = entered
    BY <1>1
  <2>4. QED
    BY <2>2, <2>3
<1>4. \A u \in unsaved' : u = <<t, v, t \in savingTab>> \/ (u \in unsaved /\ u[1] # t)
  BY <1>1 DEF Others
<1>5. FormShape'
  <2>1. \A u \in unsaved' : u[1] \in SettingTabs
    BY <1>4 DEF FormInv, FormShape
  <2>2. \A r \in reqs' : IsRequest(r) /\ IsFormRequest(r)'
    BY <1>2 DEF FormInv, FormShape, IsFormRequest, OfThisPanel
  <2>3. QED
    BY <1>2, <1>3, <2>1, <2>2 DEF FormInv, FormShape
<1>6. LoadsOnce'
  BY <1>2 DEF FormInv, LoadsOnce, FormOffered, LoadsHere, Waiting, OfThisPanel
<1>7. LoadedChosen'
  <2>1. page = "tr" /\ loaded /\ v = Defaults => t \in Unreported[machine]
    BY <1>1, SettingsAssumption DEF FormInv, LoadedChosen, NoDefault
  <2>2. QED
    BY <1>2, <1>3, <2>1 DEF FormInv, LoadedChosen, NoDefault
<1>8. TrUnsavedKept'
  BY <1>2, <1>3, <1>4 DEF FormInv, FormShape, TrUnsavedKept
<1>9. NothingInvented'
  BY <1>2 DEF FormInv, NothingInvented
<1>10. QED
  BY <1>5, <1>6, <1>7, <1>8, <1>9 DEF FormInv

-----------------------------------------------------------------------------

(* A server answers.                                                        *)
LEMMA MachineStep ==
  ASSUME FormInv, NEW r \in Open("load") \cup Open("save"), Machine(r)
  PROVE  FormInv'
<1>1. /\ r \in reqs /\ r.op \in {"load", "save"} /\ IsRequest(r) /\ IsFormRequest(r)
      /\ UNCHANGED <<clicks, page, machine, mount, base, draft, unsaved, switched, busyLoad, loaded, failed>>
  BY DEF Open, Waiting, Machine, FormInv, FormShape
<1>2. PICK value :
        /\ Handled(r, value) /\ IsFill(value.got)
        /\ r.op = "load" /\ value.ok => value.got = conf[r.arg.server]
  <2>1. CASE r.op = "load" /\ Handled(r, [ok |-> TRUE, got |-> conf[r.arg.server]])
    BY <1>1, <2>1 DEF FormInv, FormShape, IsFormRequest
  <2>2. CASE r.op = "save" /\ \E ok \in BOOLEAN : Handled(r, [ok |-> ok, got |-> Fill(Defaults)])
    BY <2>2, Filled
  <2>3. CASE Handled(r, [ok |-> FALSE, got |-> Fill(Defaults)])
    BY <2>3, Filled
  <2>4. QED
    BY <2>1, <2>2, <2>3 DEF Machine
<1> DEFINE answer == [r EXCEPT !.got = {value}]
<1>3. /\ IsRequest(answer) /\ answer.op = r.op /\ answer.arg = r.arg /\ answer.got = {value}
      /\ reqs' = (reqs \ {r}) \cup {answer}
  BY <1>1, <1>2, Answered DEF Handled
<1>4. UNCHANGED conf \/ (r.op = "save" /\ conf' = [conf EXCEPT ![r.arg.server][r.arg.tab] = r.arg.value])
  BY DEF Machine
<1>5. /\ conf' = [m \in Machines |-> conf'[m]] /\ \A m \in Machines : IsFill(conf'[m])
      /\ NothingInvented'
  <2>1. CASE UNCHANGED conf
    BY <1>1, <2>1 DEF FormInv, FormShape, NothingInvented
  <2>2. CASE r.op = "save" /\ conf' = [conf EXCEPT ![r.arg.server][r.arg.tab] = r.arg.value]
    <3> DEFINE s == r.arg.server
               f == [conf[s] EXCEPT ![r.arg.tab] = r.arg.value]
    <3>1. /\ s \in Machines /\ r.arg.tab \in SettingTabs
          /\ page = "tr" /\ r.arg.value = Defaults => r.arg.tab \in Unreported[s]
      BY <1>1, <2>2 DEF IsFormRequest
    <3>2. conf' = [conf EXCEPT ![s] = f] /\ conf = [m \in Machines |-> conf[m]]
      BY <2>2 DEF FormInv, FormShape
    <3>3. conf' = [m \in Machines |-> conf'[m]] /\ conf'[s] = f /\ \A m \in Machines : m # s => conf'[m] = conf[m]
      BY <3>1, <3>2
    <3>4. IsFill(f) /\ f[r.arg.tab] = r.arg.value /\ \A t \in SettingTabs : t # r.arg.tab => f[t] = conf[s][t]
      <4>1. IsFill(conf[s])
        BY <3>1 DEF FormInv, FormShape
      <4>2. QED
        BY <3>1, <4>1, FilledExcept
    <3>5. \A m \in Machines : IsFill(conf'[m])
      BY <3>3, <3>4 DEF FormInv, FormShape
    <3>6. NothingInvented'
      <4>1. ASSUME page = "tr", NEW m \in Machines, NEW t \in SettingTabs, conf'[m][t] = Defaults
            PROVE  t \in Unreported[m]
        <5>1. CASE m = s
          <6>1. f[t] = Defaults
            BY <3>3, <4>1, <5>1
          <6>2. CASE t = r.arg.tab
            BY <3>1, <3>4, <4>1, <5>1, <6>1, <6>2
          <6>3. CASE t # r.arg.tab
            <7>1. conf[s][t] = Defaults
              BY <3>4, <6>1, <6>3
            <7>2. QED
              BY <3>1, <4>1, <5>1, <7>1 DEF FormInv, NothingInvented
          <6>4. QED
            BY <6>2, <6>3
        <5>2. CASE m # s
          BY <3>3, <4>1, <5>2 DEF FormInv, NothingInvented
        <5>3. QED
          BY <5>1, <5>2
      <4>2. QED
        BY <1>1, <4>1 DEF NothingInvented
    <3>7. QED
      BY <3>3, <3>5, <3>6
  <2>3. QED
    BY <1>4, <2>1, <2>2
<1>6. IsFormRequest(answer)'
  <2>1. page = "tr" /\ r.op = "load" /\ value.ok => NoDefault(value.got, r.arg.server)
    BY <1>1, <1>2 DEF FormInv, NothingInvented, NoDefault, IsFormRequest
  <2>2. QED
    BY <1>1, <1>2, <1>3, <2>1 DEF IsFormRequest, OfThisPanel
<1>7. \A q \in reqs : IsRequest(q) /\ IsFormRequest(q)'
  BY <1>1 DEF FormInv, FormShape, IsFormRequest, OfThisPanel
<1>8. FormShape'
  BY <1>1, <1>3, <1>5, <1>6, <1>7 DEF FormInv, FormShape
<1>9. LoadsOnce'
  <2>1. LoadsHere' = IF r \in LoadsHere THEN (LoadsHere \ {r}) \cup {answer} ELSE LoadsHere \ {r}
    BY <1>1, <1>3 DEF LoadsHere, Waiting, OfThisPanel
  <2>2. QED
    BY <1>1, <2>1 DEF FormInv, LoadsOnce
<1>10. LoadedChosen' /\ TrUnsavedKept'
  BY <1>1 DEF FormInv, LoadedChosen, TrUnsavedKept
<1>11. QED
  BY <1>5, <1>8, <1>9, <1>10 DEF FormInv

(* The panel takes the answer, if it is one for it.                         *)
LEMMA LoadDoneStep ==
  ASSUME FormInv, NEW r \in Ready("load"), NEW a \in r.got, LoadDone(r, a.ok, a.got), UNCHANGED clicks
  PROVE  FormInv'
<1>1. /\ r \in reqs /\ r.op = "load" /\ IsFormRequest(r) /\ reqs' = reqs \ {r}
      /\ UNCHANGED <<clicks, page, conf, machine, mount, switched>> /\ unsaved' \in {unsaved, {}}
  BY DEF Ready, Waiting, LoadDone, Ended, FormInv, FormShape
<1> DEFINE picked == PickDraft(a.got, machine)
<1>2. IsFill(picked) /\ \A t \in SettingTabs : picked[t] \in {a.got[t], Defaults}
  BY DEF PickDraft, IsFill
<1>3. \A q \in reqs' : IsRequest(q) /\ IsFormRequest(q)'
  BY <1>1 DEF FormInv, FormShape, IsFormRequest, OfThisPanel
<1>4. IsFill(base') /\ IsFill(draft')
  BY <1>2 DEF LoadDone, FormInv, FormShape
<1>5. FormShape'
  BY <1>1, <1>3, <1>4 DEF FormInv, FormShape
<1>6. LoadsHere' = LoadsHere \ {r}
  BY <1>1 DEF LoadsHere, Waiting, OfThisPanel
<1>7. NothingInvented'
  BY <1>1 DEF FormInv, NothingInvented
<1>8. CASE OfThisPanel(r)
  <2>1. /\ loaded' = a.ok /\ ~busyLoad' /\ failed' = (failed \/ ~a.ok)
        /\ IF a.ok THEN base' = picked /\ draft' = picked /\ unsaved' = (IF switched THEN {} ELSE unsaved)
           ELSE UNCHANGED <<base, draft, unsaved>>
    BY <1>8 DEF LoadDone
  <2>2. r \in LoadsHere
    BY <1>1, <1>8 DEF LoadsHere, Waiting
  <2>3. page = "tr" /\ ~switched => LoadsHere' = {} /\ unsaved = {} /\ ~failed
    BY <1>6, <2>2 DEF FormInv, LoadsOnce
  <2>4. LoadsOnce'
    BY <1>1, <2>1, <2>3 DEF LoadsOnce
  <2>5. TrUnsavedKept'
    BY <1>1, <2>1, <2>3 DEF FormInv, TrUnsavedKept
  <2>6. page = "tr" /\ a.ok => NoDefault(picked, machine)
    BY <1>1, <1>8, Zenon DEF IsFormRequest, NoDefault, PickDraft
  <2>7. LoadedChosen'
    BY <1>1, <2>1, <2>6 DEF LoadedChosen
  <2>8. QED
    BY <1>5, <1>7, <2>4, <2>5, <2>7 DEF FormInv
<1>9. CASE ~OfThisPanel(r)
  <2>1. UNCHANGED <<base, draft, unsaved, loaded, failed, busyLoad>>
    BY <1>9 DEF LoadDone
  <2>2. LoadsOnce' /\ TrUnsavedKept' /\ LoadedChosen'
    BY <1>1, <1>6, <2>1 DEF FormInv, LoadsOnce, TrUnsavedKept, LoadedChosen
  <2>3. QED
    BY <1>5, <1>7, <2>2 DEF FormInv
<1>10. QED
  BY <1>8, <1>9

LEMMA SaveDoneStep ==
  ASSUME FormInv, NEW r \in Ready("save"), NEW ok, SaveDone(r, ok), UNCHANGED clicks
  PROVE  FormInv'
<1>1. /\ r \in reqs /\ r.op = "save" /\ IsFormRequest(r) /\ reqs' = reqs \ {r}
      /\ UNCHANGED <<clicks, page, conf, machine, mount, unsaved, switched, busyLoad, loaded, failed>>
  BY DEF Ready, Waiting, SaveDone, Ended, FormInv, FormShape
<1> DEFINE kept == [base EXCEPT ![r.arg.tab] = r.arg.value]
<1>2. /\ r.arg.tab \in SettingTabs
      /\ page = "tr" /\ r.arg.value = Defaults => r.arg.tab \in Unreported[r.arg.server]
  BY <1>1 DEF IsFormRequest
<1>3. /\ IsFill(kept) /\ kept[r.arg.tab] = r.arg.value
      /\ \A t \in SettingTabs : t # r.arg.tab => kept[t] = base[t]
  <2>1. IsFill(base)
    BY DEF FormInv, FormShape
  <2>2. QED
    BY <1>2, <2>1, FilledExcept
<1>4. /\ base' = base \/ base' = kept
      /\ draft' = draft \/ (page = "qbt" /\ draft' = kept)
  BY DEF SaveDone, DraftAfterSave
<1>5. \A q \in reqs' : IsRequest(q) /\ IsFormRequest(q)'
  BY <1>1 DEF FormInv, FormShape, IsFormRequest, OfThisPanel
<1>6. FormShape'
  <2>1. IsFill(base') /\ IsFill(draft')
    BY <1>3, <1>4 DEF FormInv, FormShape
  <2>2. QED
    BY <1>1, <1>5, <2>1 DEF FormInv, FormShape
<1>7. LoadsHere' = LoadsHere
  BY <1>1 DEF LoadsHere, Waiting, OfThisPanel
<1>8. LoadsOnce' /\ TrUnsavedKept' /\ NothingInvented'
  BY <1>1, <1>4, <1>7 DEF FormInv, LoadsOnce, TrUnsavedKept, NothingInvented
<1>9. LoadedChosen'
  <2>1. base' = kept => OfThisPanel(r) \/ base' = base
    BY DEF SaveDone
  <2>2. OfThisPanel(r) => r.arg.server = machine
    BY <1>1 DEF IsFormRequest
  <2>3. QED
    BY <1>1, <1>2, <1>3, <1>4, <2>1, <2>2 DEF FormInv, LoadedChosen, NoDefault
<1>10. QED
  BY <1>6, <1>8, <1>9 DEF FormInv

LEMMA FormInvariant == FormSpec => []FormInv
<1>1. PageInit /\ FormInit => FormInv
  <2> SUFFICES ASSUME PageInit, FormInit PROVE FormInv
    OBVIOUS
  <2>1. clicks \in Nat /\ reqs = {}
    BY MaxClicksAssumption DEF PageInit
  <2>2. FormShape
    BY <2>1, Filled DEF FormInit, FormShape
  <2>3. LoadsOnce /\ LoadedChosen /\ TrUnsavedKept
    BY <2>1 DEF FormInit, LoadsOnce, LoadsHere, Waiting, LoadedChosen, TrUnsavedKept
  <2>4. NothingInvented
    BY Filled DEF FormInit, NothingInvented, Defaults
  <2>5. QED
    BY <2>2, <2>3, <2>4 DEF FormInv
<1>2. FormInv /\ [FormNext]_<<clicks, reqs, formVars>> => FormInv'
  <2>1. CASE UNCHANGED <<clicks, reqs, formVars>>
    BY <2>1 DEF formVars, FormInv, FormShape, IsFormRequest, LoadsOnce, LoadsHere, Waiting, OfThisPanel,
                LoadedChosen, TrUnsavedKept, NothingInvented
  <2>2. ASSUME FormInv, FormNext
        PROVE  FormInv'
    BY <2>2, MountStep, LoadAgainStep, SaveTabStep, EditStep, MachineStep, LoadDoneStep, SaveDoneStep
       DEF FormNext, FormAnswer
  <2>3. QED
    BY <2>1, <2>2
<1>3. QED
  BY <1>1, <1>2, PTL DEF FormSpec

(* What is entered in a Transmission's panel and neither saved nor reset     *)
(* stays in the form through every late answer, of the panel's own saves,    *)
(* its reloads after a failure and the panels before it; only the reload of  *)
(* a switch of the language may overwrite it                                *)
(* (SessionSettingsTab.tsx, TransmissionSettingsPage.tsx).                  *)
THEOREM UnsavedIsKept == FormSpec => []TrUnsavedKept
<1>1. FormInv => TrUnsavedKept
  BY DEF FormInv
<1>2. QED
  BY <1>1, FormInvariant, PTL

(* A Transmission is never set to a default of the form (EMPTY_DRAFT) where   *)
(* it had reported a value.                                                 *)
THEOREM NoDefaultSaved == FormSpec => []NothingInvented
<1>1. FormInv => NothingInvented
  BY DEF FormInv
<1>2. QED
  BY <1>1, FormInvariant, PTL

-----------------------------------------------------------------------------
(* AiSettings                                                               *)

(* What becomes of a finite set, element by element, is finite.             *)
LEMMA FiniteImage ==
  ASSUME NEW S, IsFiniteSet(S), NEW T, NEW f \in [S -> T], \A t \in T : \E s \in S : f[s] = t
  PROVE  IsFiniteSet(T)
<1>1. f \in Surjection(S, T)
  BY DEF Surjection
<1>2. QED
  BY <1>1, FS_Surjection

(* Sequences of whatever.                                                   *)
IsSequence(s) == s \in Seq({s[i] : i \in DOMAIN s})

LEMMA SequenceOf ==
  ASSUME NEW S, NEW s \in Seq(S)
  PROVE  IsSequence(s) /\ DOMAIN s = 1 .. Len(s) /\ Len(s) \in Nat
<1> DEFINE R == {s[i] : i \in DOMAIN s}
<1>1. Len(s) \in Nat /\ s \in [1 .. Len(s) -> S]
  BY LenProperties
<1>2. s \in [1 .. Len(s) -> R]
  BY <1>1
<1> HIDE DEF R
<1>3. s \in Seq(R)
  BY <1>1, <1>2, SeqDef
<1>4. QED
  BY <1>1, <1>3 DEF R, IsSequence

LEMMA Appended ==
  ASSUME NEW s, IsSequence(s), NEW e
  PROVE  LET t == Append(s, e)
         IN  /\ IsSequence(t) /\ Len(t) = Len(s) + 1
             /\ \A i \in DOMAIN s : i \in DOMAIN t /\ t[i] = s[i]
<1> DEFINE R == {s[i] : i \in DOMAIN s}
           S == R \cup {e}
           t == Append(s, e)
<1>1. s \in Seq(R)
  BY DEF IsSequence
<1> HIDE DEF R
<1>2. s \in Seq(S) /\ e \in S
  BY <1>1, SeqMonotonic
<1> HIDE DEF S
<1>3. t \in Seq(S) /\ Len(t) = Len(s) + 1 /\ \A i \in 1 .. Len(s) : t[i] = s[i]
  BY <1>2, AppendProperties
<1>4. DOMAIN s = 1 .. Len(s) /\ Len(s) \in Nat
  BY <1>2, SequenceOf
<1> HIDE DEF t
<1>5. IsSequence(t) /\ DOMAIN t = 1 .. Len(t)
  BY <1>3, SequenceOf
<1>6. \A i \in DOMAIN s : i \in DOMAIN t /\ t[i] = s[i]
  BY <1>3, <1>4, <1>5
<1>7. QED
  BY <1>3, <1>5, <1>6 DEF t

LEMMA Removed ==
  ASSUME NEW s, IsSequence(s), NEW i \in DOMAIN s
  PROVE  LET t == RemoveAt(s, i)
         IN  /\ IsSequence(t) /\ Len(t) = Len(s) - 1
             /\ \A j \in DOMAIN s \ {i} :
                  LET k == IF j < i THEN j ELSE j - 1 IN k \in DOMAIN t /\ t[k] = s[j]
<1> DEFINE S     == {s[j] : j \in DOMAIN s}
           front == SubSeq(s, 1, i - 1)
           back  == SubSeq(s, i + 1, Len(s))
           t     == front \o back
<1>1. s \in Seq(S)
  BY DEF IsSequence
<1>2. \A j \in DOMAIN s : s[j] \in S
  OBVIOUS
<1> HIDE DEF S
<1>3. DOMAIN s = 1 .. Len(s) /\ Len(s) \in Nat /\ i \in 1 .. Len(s)
  BY <1>1, SequenceOf
<1>4. front \in Seq(S) /\ Len(front) = i - 1 /\ \A j \in 1 .. i - 1 : front[j] = s[j]
  <2>1. /\ 1 \in Int /\ i - 1 \in Int /\ \A j \in 1 .. i - 1 : s[j] \in S
        /\ (i - 1) - 1 + 1 = i - 1 /\ \A j \in 1 .. i - 1 : 1 + j - 1 = j
        /\ ~(1 <= i - 1) => i - 1 = 0
    BY <1>2, <1>3
  <2>2. /\ front \in Seq(S) /\ Len(front) = IF 1 <= i - 1 THEN (i - 1) - 1 + 1 ELSE 0
        /\ \A j \in 1 .. (i - 1) - 1 + 1 : front[j] = s[1 + j - 1]
    BY <2>1, SubSeqProperties
  <2>3. QED
    BY <2>1, <2>2
<1>5. back \in Seq(S) /\ Len(back) = Len(s) - i /\ \A j \in 1 .. Len(s) - i : back[j] = s[j + i]
  <2>1. /\ i + 1 \in Int /\ Len(s) \in Int /\ \A j \in i + 1 .. Len(s) : s[j] \in S
        /\ Len(s) - (i + 1) + 1 = Len(s) - i /\ \A j \in 1 .. Len(s) - i : i + 1 + j - 1 = j + i
        /\ ~(i + 1 <= Len(s)) => Len(s) - i = 0
    BY <1>2, <1>3
  <2>2. /\ back \in Seq(S) /\ Len(back) = IF i + 1 <= Len(s) THEN Len(s) - (i + 1) + 1 ELSE 0
        /\ \A j \in 1 .. Len(s) - (i + 1) + 1 : back[j] = s[i + 1 + j - 1]
    BY <2>1, SubSeqProperties
  <2>3. QED
    BY <2>1, <2>2
<1> HIDE DEF front, back
<1>6. /\ t \in Seq(S) /\ Len(t) = Len(front) + Len(back)
      /\ \A j \in 1 .. Len(front) + Len(back) :
           t[j] = IF j <= Len(front) THEN front[j] ELSE back[j - Len(front)]
  BY <1>4, <1>5, ConcatProperties
<1> HIDE DEF t
<1>7. Len(t) = Len(s) - 1 /\ IsSequence(t) /\ DOMAIN t = 1 .. Len(s) - 1
  <2>1. Len(t) = Len(s) - 1
    BY <1>3, <1>4, <1>5, <1>6
  <2>2. QED
    BY <1>6, <2>1, SequenceOf
<1>8. ASSUME NEW j \in DOMAIN s, j < i
      PROVE  j \in DOMAIN t /\ t[j] = s[j]
  <2>1. j \in 1 .. i - 1 /\ j \in 1 .. Len(s) - 1
    BY <1>3, <1>8
  <2>2. t[j] = front[j]
    BY <1>3, <1>4, <1>5, <1>6, <2>1
  <2>3. QED
    BY <1>4, <1>7, <2>1, <2>2
<1>9. ASSUME NEW j \in DOMAIN s, j > i
      PROVE  j - 1 \in DOMAIN t /\ t[j - 1] = s[j]
  <2> DEFINE k == j - i
  <2>1. j - 1 \in 1 .. Len(s) - 1 /\ k \in 1 .. Len(s) - i /\ ~(j - 1 <= i - 1) /\ (j - 1) - (i - 1) = k /\ k + i = j
    BY <1>3, <1>9
  <2> HIDE DEF k
  <2>2. j - 1 \in 1 .. Len(front) + Len(back) /\ ~(j - 1 <= Len(front)) /\ (j - 1) - Len(front) = k
    BY <1>3, <1>4, <1>5, <2>1
  <2>3. t[j - 1] = back[k]
    BY <1>6, <2>2
  <2>4. back[k] = s[j]
    BY <1>5, <2>1
  <2>5. QED
    BY <1>7, <2>1, <2>3, <2>4
<1>10. \A j \in DOMAIN s \ {i} :
         LET k == IF j < i THEN j ELSE j - 1 IN k \in DOMAIN t /\ t[k] = s[j]
  <2>1. \A j \in DOMAIN s \ {i} : j < i \/ (j > i /\ ~(j < i))
    BY <1>3
  <2>2. QED
    BY <1>8, <1>9, <2>1
<1>11. QED
  BY <1>7, <1>10 DEF RemoveAt, front, back, t

(* The servers of a set in some order are all of them.                      *)
LEMMA InOrder ==
  ASSUME NEW S, IsFiniteSet(S)
  PROVE  /\ IsSequence(SetToSeq(S))
         /\ \A s \in S : \E i \in DOMAIN SetToSeq(S) : SetToSeq(S)[i] = s
<1> DEFINE n == Cardinality(S)
           q == SetToSeq(S)
<1>1. n \in Nat /\ Bijection(1 .. n, S) # {}
  BY FS_CardinalityType DEF ExistsBijection
<1>2. \E f \in [1 .. n -> S] : IsInjective(f)
  BY <1>1 DEF Bijection, Injection
<1>3. q \in [1 .. n -> S] /\ IsInjective(q)
  BY <1>2 DEF SetToSeq
<1>4. IsFiniteSet(1 .. n) /\ Cardinality(1 .. n) = n
  BY <1>1, FS_Interval
<1> HIDE DEF q
<1>5. q \in Injection(1 .. n, S)
  BY <1>3 DEF Injection
<1>6. q \in Surjection(1 .. n, S)
  BY <1>1, <1>4, <1>5, FS_Injection
<1>7. q \in Seq(S)
  BY <1>1, <1>3, SeqDef
<1>8. IsSequence(q)
  BY <1>7, SequenceOf
<1>9. \A s \in S : \E i \in DOMAIN q : q[i] = s
  BY <1>3, <1>6 DEF Surjection
<1>10. QED
  BY <1>8, <1>9 DEF q

(* What the page holds in place of a stored server.                         *)
Shadow(s) == McpServer(s.id, s.name, Masked(s.secret))

(* Finitely many servers with names and ids of their own, where they have    *)
(* ids at all.                                                              *)
AreServers(S) ==
  /\ IsFiniteSet(S)
  /\ \A s \in S : s = McpServer(s.id, s.name, s.secret) /\ s.name # ""
  /\ \A s, t \in S : s.name = t.name \/ (s.id = t.id /\ s.id # NoId) => s = t

StoredNamed == AreServers(stored) /\ \A s \in stored : s.id # NoId

(* The servers stored under these names are in a set as the page has them.   *)
Mirrors(S, names) == \A s \in stored : s.name \in names => Shadow(s) \in S

(* What the user left alone is still in the editor, as it was read.         *)
Untouched == untouched \subseteq {s.name : s \in stored}

Kept(s, i) == s.name \in origin[i] /\ texts[i].name = s.name /\ texts[i].secret = Masked(s.secret)

TextsKept ==
  /\ IsSequence(texts) /\ IsSequence(origin) /\ Len(texts) = Len(origin)
  /\ \A s \in stored : s.name \in untouched => \E i \in DOMAIN texts : Kept(s, i)

EditorInv == AreServers(mcpServers) /\ Mirrors(mcpServers, untouched) /\ Untouched /\ TextsKept

(* One request at a time is under way, and the form waits for it.           *)
OneAtATime ==
  /\ clicks \in Nat /\ (clicks = 0 => reqs = {} /\ ~aiLoaded)
  /\ aiLoading => ~aiLoaded
  /\ \A r, q \in reqs : r = q
  /\ \A r \in reqs : IsRequest(r) /\ \/ r.op = "aiConfig" /\ aiLoading
                                     \/ r.op = "saveAi" /\ aiSaving

(* What is sent mirrors what is stored, and so does an answer.              *)
SaveMirrors ==
  \A r \in Open("saveAi") :
    AreServers(r.arg.servers) /\ Mirrors(r.arg.servers, r.arg.untouched) /\ untouched \subseteq r.arg.untouched

AnswersView == \A r \in reqs : \A a \in r.got : a.ok => a.servers = View(stored)

AiInv == StoredNamed /\ EditorInv /\ OneAtATime /\ SaveMirrors /\ AnswersView

LEMMA ServerMade ==
  ASSUME NEW id, NEW name, NEW secret
  PROVE  LET s == McpServer(id, name, secret)
         IN  s.id = id /\ s.name = name /\ s.secret = secret /\ s = McpServer(s.id, s.name, s.secret)
  BY DEF McpServer

LEMMA Viewed ==
  ASSUME StoredNamed
  PROVE  /\ View(stored) = {Shadow(s) : s \in stored}
         /\ AreServers(View(stored))
         /\ IsFiniteSet({Block(s.name, s.secret, TRUE) : s \in View(stored)})
<1>1. ASSUME NEW s \in stored
      PROVE  [s EXCEPT !.secret = Masked(@)] = Shadow(s)
  <2>1. s = [id |-> s.id, name |-> s.name, secret |-> s.secret]
    BY DEF StoredNamed, AreServers, McpServer
  <2>2. QED
    BY <2>1 DEF Shadow, McpServer
<1>2. View(stored) = {Shadow(s) : s \in stored}
  BY <1>1 DEF View
<1>3. \A s \in stored : Shadow(s).id = s.id /\ Shadow(s).name = s.name
                        /\ Shadow(s) = McpServer(Shadow(s).id, Shadow(s).name, Shadow(s).secret)
  BY ServerMade DEF Shadow
<1>4. IsFiniteSet(View(stored))
  <2> DEFINE f == [s \in stored |-> Shadow(s)]
  <2>1. f \in [stored -> View(stored)] /\ \A t \in View(stored) : \E s \in stored : f[s] = t
    BY <1>2
  <2> HIDE DEF f
  <2>2. IsFiniteSet(stored)
    BY DEF StoredNamed, AreServers
  <2>3. QED
    BY <2>1, <2>2, FiniteImage
<1>5. AreServers(View(stored))
  <2>1. ASSUME NEW s \in View(stored)
        PROVE  s = McpServer(s.id, s.name, s.secret) /\ s.name # ""
    <3>1. PICK o \in stored : s = Shadow(o)
      BY <1>2
    <3>2. o.name # ""
      BY DEF StoredNamed, AreServers
    <3>3. QED
      BY <1>3, <3>1, <3>2
  <2>2. ASSUME NEW s \in View(stored), NEW t \in View(stored), s.name = t.name \/ (s.id = t.id /\ s.id # NoId)
        PROVE  s = t
    <3>1. PICK o \in stored : s = Shadow(o)
      BY <1>2
    <3>2. PICK p \in stored : t = Shadow(p)
      BY <1>2
    <3>3. o.name = p.name \/ (o.id = p.id /\ o.id # NoId)
      BY <1>3, <2>2, <3>1, <3>2
    <3>4. o = p
      BY <3>3 DEF StoredNamed, AreServers
    <3>5. QED
      BY <3>1, <3>2, <3>4
  <2>3. QED
    BY <1>4, <2>1, <2>2 DEF AreServers
<1>6. IsFiniteSet({Block(s.name, s.secret, TRUE) : s \in View(stored)})
  <2> DEFINE B == {Block(s.name, s.secret, TRUE) : s \in View(stored)}
             f == [s \in View(stored) |-> Block(s.name, s.secret, TRUE)]
  <2>1. f \in [View(stored) -> B] /\ \A b \in B : \E s \in View(stored) : f[s] = b
    OBVIOUS
  <2> HIDE DEF f, B
  <2>2. IsFiniteSet(B)
    BY <1>4, <2>1, FiniteImage
  <2>3. QED
    BY <2>2 DEF B
<1>7. QED
  BY <1>2, <1>5, <1>6

(* The editor taken anew from an answer.                                    *)
LEMMA RemountKeeps ==
  ASSUME StoredNamed, UNCHANGED stored, Remount(View(stored))
  PROVE  EditorInv'
<1> DEFINE B == {Block(s.name, s.secret, TRUE) : s \in View(stored)}
<1>1. texts' = SetToSeq(B)
  BY DEF Remount, ToTexts
<1>2. IsSequence(texts') /\ \A b \in B : \E i \in DOMAIN texts' : texts'[i] = b
  BY <1>1, Viewed, InOrder
<1>3. origin' = [i \in DOMAIN texts' |-> {texts'[i].name}]
  BY DEF Remount
<1>4. IsSequence(origin') /\ Len(origin') = Len(texts')
  <2>1. DOMAIN texts' = 1 .. Len(texts') /\ Len(texts') \in Nat
    BY <1>2, SequenceOf DEF IsSequence
  <2> DEFINE O == {{texts'[i].name} : i \in DOMAIN texts'}
  <2>2. origin' \in [1 .. Len(texts') -> O]
    BY <1>3, <2>1
  <2> HIDE DEF O
  <2>3. origin' \in Seq(O)
    BY <2>1, <2>2, SeqDef
  <2>4. IsSequence(origin') /\ 1 .. Len(origin') = 1 .. Len(texts') /\ Len(origin') \in Nat
    BY <2>2, <2>3, SequenceOf
  <2>5. QED
    BY <2>1, <2>4
<1>5. mcpServers' = {Shadow(s) : s \in stored} /\ AreServers(mcpServers')
  BY Viewed DEF Remount
<1>6. untouched' = {s.name : s \in stored}
  <2>1. untouched' = {t.name : t \in {Shadow(s) : s \in stored}}
    BY Viewed DEF Remount
  <2>2. \A s \in stored : Shadow(s).name = s.name
    BY ServerMade DEF Shadow
  <2>3. QED
    BY <2>1, <2>2
<1>7. ASSUME NEW s \in stored
      PROVE  \E i \in DOMAIN texts' :
               s.name \in origin'[i] /\ texts'[i].name = s.name /\ texts'[i].secret = Masked(s.secret)
  <2>1. Shadow(s) \in View(stored) /\ Shadow(s).name = s.name /\ Shadow(s).secret = Masked(s.secret)
    BY Viewed, ServerMade DEF Shadow
  <2>2. Block(s.name, Masked(s.secret), TRUE) \in B
    BY <2>1
  <2>3. PICK i \in DOMAIN texts' : texts'[i] = Block(s.name, Masked(s.secret), TRUE)
    BY <1>2, <2>2
  <2>4. texts'[i].name = s.name /\ texts'[i].secret = Masked(s.secret)
    BY <2>3 DEF Block
  <2>5. QED
    BY <1>3, <2>4
<1>8. Mirrors(mcpServers, untouched)' /\ Untouched'
  BY <1>5, <1>6 DEF Mirrors, Untouched, Shadow
<1>9. TextsKept'
  BY <1>2, <1>4, <1>7 DEF TextsKept, Kept
<1>10. QED
  BY <1>5, <1>8, <1>9 DEF EditorInv

(* What is read from texts that are valid: entries keep the ids their names  *)
(* had.                                                                     *)
LEMMA Parsed ==
  ASSUME StoredNamed, AreServers(mcpServers), NEW b
  PROVE  LET s == ParseSingleServer(b)
         IN  /\ s.name = b.name /\ s.secret = b.secret /\ s = McpServer(s.id, s.name, s.secret)
             /\ s.id # NoId => \E q \in mcpServers : q.id = s.id /\ q.name = b.name
             /\ \A q \in mcpServers : q.name = b.name /\ q.id # NoId => s.id = q.id
<1>1. ASSUME NEW id \in IdByName(b.name)
      PROVE  \E q \in mcpServers : q.id = id /\ q.id # NoId /\ q.name = b.name
  BY DEF IdByName
<1>2. IdByName(b.name) # {} => (CHOOSE id \in IdByName(b.name) : TRUE) \in IdByName(b.name)
  OBVIOUS
<1>3. \A q \in mcpServers : q.name = b.name /\ q.id # NoId => q.id \in IdByName(b.name)
  BY DEF IdByName
<1>4. \A p, q \in mcpServers : p.name = q.name => p.id = q.id
  BY DEF AreServers
<1> DEFINE id == IF IdByName(b.name) = {} THEN NoId ELSE CHOOSE id \in IdByName(b.name) : TRUE
<1>5. /\ id # NoId => \E q \in mcpServers : q.id = id /\ q.name = b.name
      /\ \A q \in mcpServers : q.name = b.name /\ q.id # NoId => id = q.id
  BY <1>1, <1>2, <1>3, <1>4
<1>6. ParseSingleServer(b) = McpServer(id, b.name, b.secret)
  BY DEF ParseSingleServer
<1> HIDE DEF id
<1>7. QED
  BY <1>5, <1>6, ServerMade

LEMMA ReportKeeps ==
  ASSUME StoredNamed, AreServers(mcpServers), Mirrors(mcpServers, untouched), UNCHANGED stored,
         NEW next, IsSequence(next), Report(next), untouched' \subseteq untouched,
         \A s \in stored : s.name \in untouched' =>
           \E i \in DOMAIN next : next[i].name = s.name /\ next[i].secret = Masked(s.secret)
  PROVE  AreServers(mcpServers') /\ Mirrors(mcpServers, untouched)'
<1>1. CASE UNCHANGED mcpServers
  BY <1>1 DEF Mirrors, Shadow
<1>2. CASE /\ ~Duplicate(next) /\ \A i \in DOMAIN next : next[i].valid
           /\ mcpServers' = {ParseSingleServer(next[i]) : i \in Entries(next)}
  <2>1. \A i, j \in Entries(next) : next[i].name = next[j].name => i = j
    BY <1>2 DEF Duplicate, Entries
  <2>2. \A s \in mcpServers' : \E i \in Entries(next) : s = ParseSingleServer(next[i])
    BY <1>2
  <2>3. IsFiniteSet(mcpServers')
    <3>1. DOMAIN next = 1 .. Len(next) /\ Len(next) \in Nat
      BY SequenceOf DEF IsSequence
    <3>2. IsFiniteSet(Entries(next))
      <4>1. Entries(next) \in SUBSET (1 .. Len(next))
        BY <3>1 DEF Entries
      <4>2. IsFiniteSet(1 .. Len(next))
        BY <3>1, FS_Interval
      <4>3. QED
        BY <4>1, <4>2, FS_Subset
    <3> DEFINE f == [i \in Entries(next) |-> ParseSingleServer(next[i])]
    <3>3. f \in [Entries(next) -> mcpServers'] /\ \A s \in mcpServers' : \E i \in Entries(next) : f[i] = s
      BY <1>2
    <3> HIDE DEF f
    <3>4. QED
      BY <3>2, <3>3, FiniteImage
  <2>4. ASSUME NEW s \in mcpServers'
        PROVE  s = McpServer(s.id, s.name, s.secret) /\ s.name # ""
    <3>1. PICK i \in Entries(next) : s = ParseSingleServer(next[i])
      BY <2>2
    <3>2. next[i].name # ""
      BY DEF Entries
    <3>3. s.name = next[i].name /\ s = McpServer(s.id, s.name, s.secret)
      BY <3>1, Parsed
    <3>4. QED
      BY <3>2, <3>3
  <2>5. ASSUME NEW s \in mcpServers', NEW t \in mcpServers', s.name = t.name \/ (s.id = t.id /\ s.id # NoId)
        PROVE  s = t
    <3>1. PICK i \in Entries(next) : s = ParseSingleServer(next[i])
      BY <2>2
    <3>2. PICK j \in Entries(next) : t = ParseSingleServer(next[j])
      BY <2>2
    <3>3. s.name = next[i].name /\ t.name = next[j].name
      BY <3>1, <3>2, Parsed
    <3>4. next[i].name = next[j].name
      <4>1. CASE s.id = t.id /\ s.id # NoId
        <5>1. PICK p \in mcpServers : p.id = s.id /\ p.name = next[i].name
          BY <3>1, <4>1, Parsed
        <5>2. PICK q \in mcpServers : q.id = t.id /\ q.name = next[j].name
          BY <3>2, <4>1, Parsed
        <5>3. \A a, b \in mcpServers : a.id = b.id /\ a.id # NoId => a = b
          BY DEF AreServers
        <5>4. p = q
          BY <4>1, <5>1, <5>2, <5>3
        <5>5. QED
          BY <5>1, <5>2, <5>4
      <4>2. QED
        BY <2>5, <3>3, <4>1
    <3>5. i = j
      BY <2>1, <3>4
    <3>6. QED
      BY <3>1, <3>2, <3>5
  <2>6. ASSUME NEW s \in stored, s.name \in untouched'
        PROVE  Shadow(s) \in mcpServers'
    <3>1. Shadow(s) \in mcpServers /\ s.id # NoId /\ s.name # ""
      BY <2>6 DEF Mirrors, StoredNamed, AreServers
    <3>2. PICK i \in DOMAIN next : next[i].name = s.name /\ next[i].secret = Masked(s.secret)
      BY <2>6
    <3>3. i \in Entries(next)
      BY <3>1, <3>2 DEF Entries
    <3> DEFINE e == ParseSingleServer(next[i])
    <3>4. Shadow(s).name = s.name /\ Shadow(s).id = s.id
      BY ServerMade DEF Shadow
    <3>5. /\ e.name = next[i].name /\ e.secret = next[i].secret /\ e = McpServer(e.id, e.name, e.secret)
          /\ \A q \in mcpServers : q.name = next[i].name /\ q.id # NoId => e.id = q.id
      BY Parsed
    <3> HIDE DEF e
    <3>6. e = Shadow(s)
      BY <3>1, <3>2, <3>4, <3>5 DEF Shadow
    <3>7. QED
      BY <1>2, <3>3, <3>6 DEF e
  <2>7. Mirrors(mcpServers, untouched)'
    BY <2>6 DEF Mirrors, Shadow
  <2>8. QED
    BY <2>3, <2>4, <2>5, <2>7 DEF AreServers
<1>3. QED
  BY <1>1, <1>2 DEF Report

-----------------------------------------------------------------------------
(* The handler's merge.                                                     *)

LEMMA IdsGiven ==
  ASSUME StoredNamed, NEW S, AreServers(S), Numberings(S) # {}
  PROVE  /\ AreServers(WithIds(S)) /\ \A s \in WithIds(S) : s.id # NoId
         /\ \A s \in S : s.id # NoId => s \in WithIds(S)
<1> DEFINE number  == CHOOSE f \in Numberings(S) : TRUE
           fresh   == {s \in S : s.id = NoId}
           free    == FreshIds \ {s.id : s \in S \cup stored}
           Id(s)   == IF s.id = NoId THEN number[s] ELSE s.id
           Give(s) == IF s.id = NoId THEN [s EXCEPT !.id = number[s]] ELSE s
<1>1. number \in [fresh -> free] /\ IsInjective(number)
  <2>1. number \in Numberings(S)
    OBVIOUS
  <2>2. QED
    BY <2>1 DEF Numberings, Injection
<1>2. WithIds(S) = {Give(s) : s \in S}
  BY DEF WithIds
<1> HIDE DEF number
<1>3. ASSUME NEW s \in S
      PROVE  Give(s) = McpServer(Id(s), s.name, s.secret)
  <2>1. s = [id |-> s.id, name |-> s.name, secret |-> s.secret]
    BY DEF AreServers, McpServer
  <2>2. QED
    BY <2>1 DEF McpServer
<1>4. \A s \in S : Id(s) # NoId /\ (s.id = NoId => Id(s) = number[s] /\ Id(s) \notin {t.id : t \in S})
  <2>1. NoId \notin FreshIds
    BY DEF NoId, FreshIds
  <2>2. QED
    BY <1>1, <2>1
<1>5. \A s, t \in S : Id(s) = Id(t) => s = t
  <2> SUFFICES ASSUME NEW s \in S, NEW t \in S, Id(s) = Id(t)
               PROVE  s = t
    OBVIOUS
  <2>1. CASE s.id = NoId /\ t.id = NoId
    <3>1. s \in DOMAIN number /\ t \in DOMAIN number /\ number[s] = number[t]
      BY <1>1, <2>1
    <3>2. QED
      BY <1>1, <3>1 DEF IsInjective
  <2>2. CASE s.id = NoId /\ t.id # NoId
    BY <1>4, <2>2
  <2>3. CASE s.id # NoId /\ t.id = NoId
    BY <1>4, <2>3
  <2>4. CASE s.id # NoId /\ t.id # NoId
    BY <2>4 DEF AreServers
  <2>5. QED
    BY <2>1, <2>2, <2>3, <2>4
<1> HIDE DEF Id
<1>6. \A s \in S : /\ Give(s).id = Id(s) /\ Give(s).name = s.name
                   /\ Give(s) = McpServer(Give(s).id, Give(s).name, Give(s).secret)
  <2> SUFFICES ASSUME NEW s \in S
               PROVE  /\ Give(s).id = Id(s) /\ Give(s).name = s.name
                      /\ Give(s) = McpServer(Give(s).id, Give(s).name, Give(s).secret)
    OBVIOUS
  <2>1. Give(s) = McpServer(Id(s), s.name, s.secret)
    BY <1>3
  <2> HIDE DEF Give
  <2>2. QED
    BY <2>1, ServerMade
<1>7. \A s \in S : s.id # NoId => Give(s) = s
  OBVIOUS
<1>8. IsFiniteSet(WithIds(S))
  <2> DEFINE f == [s \in S |-> Give(s)]
  <2>1. f \in [S -> WithIds(S)] /\ \A t \in WithIds(S) : \E s \in S : f[s] = t
    BY <1>2
  <2>2. IsFiniteSet(S)
    BY DEF AreServers
  <2> HIDE DEF f
  <2>3. QED
    BY <2>1, <2>2, FiniteImage
<1> HIDE DEF Give
<1>9. \A s \in WithIds(S) : s = McpServer(s.id, s.name, s.secret) /\ s.name # "" /\ s.id # NoId
  <2> SUFFICES ASSUME NEW s \in WithIds(S)
               PROVE  s = McpServer(s.id, s.name, s.secret) /\ s.name # "" /\ s.id # NoId
    OBVIOUS
  <2>1. PICK o \in S : s = Give(o)
    BY <1>2
  <2>2. o.name # ""
    BY DEF AreServers
  <2>3. QED
    BY <1>4, <1>6, <2>1, <2>2
<1>10. \A s, t \in WithIds(S) : s.name = t.name \/ (s.id = t.id /\ s.id # NoId) => s = t
  <2>1. \A s, t \in S : s.name = t.name => s = t
    BY DEF AreServers
  <2>2. QED
    BY <1>2, <1>5, <1>6, <2>1
<1>11. QED
  BY <1>2, <1>7, <1>8, <1>9, <1>10 DEF AreServers

LEMMA Restoring ==
  ASSUME NEW s, s = McpServer(s.id, s.name, s.secret)
  PROVE  LET t == Restored(s)
         IN  t.id = s.id /\ t.name = s.name /\ t = McpServer(t.id, t.name, t.secret)
<1> DEFINE secret == IF s.secret # Sentinel THEN s.secret
                     ELSE IF OldSecret(s.id) = {} THEN "" ELSE CHOOSE v \in OldSecret(s.id) : TRUE
<1>1. Restored(s) = [s EXCEPT !.secret = secret]
  BY DEF Restored
<1> HIDE DEF secret
<1>2. [s EXCEPT !.secret = secret] = McpServer(s.id, s.name, secret)
  <2>1. s = [id |-> s.id, name |-> s.name, secret |-> s.secret]
    BY DEF McpServer
  <2>2. QED
    BY <2>1 DEF McpServer
<1>3. QED
  BY <1>1, <1>2, ServerMade

(* A stored server comes back from its shadow.                              *)
LEMMA ShadowRestored ==
  ASSUME StoredNamed, NEW s \in stored
  PROVE  Restored(Shadow(s)) = s
<1>1. /\ Shadow(s) = McpServer(s.id, s.name, Masked(s.secret)) /\ Shadow(s).id = s.id /\ Shadow(s).name = s.name
      /\ Shadow(s).secret = Masked(s.secret)
  BY ServerMade DEF Shadow
<1>2. s = McpServer(s.id, s.name, s.secret)
  BY DEF StoredNamed, AreServers
<1>3. OldSecret(s.id) = {s.secret}
  <2>1. \A q \in stored : q.id = s.id => q = s
    BY DEF StoredNamed, AreServers
  <2>2. QED
    BY <2>1 DEF OldSecret
<1>4. Shadow(s) = [id |-> s.id, name |-> s.name, secret |-> Masked(s.secret)]
  BY <1>1 DEF McpServer
<1> DEFINE secret == IF Masked(s.secret) # Sentinel THEN Masked(s.secret)
                     ELSE IF OldSecret(s.id) = {} THEN "" ELSE CHOOSE v \in OldSecret(s.id) : TRUE
<1>5. secret = s.secret
  <2>1. "" # Sentinel
    BY DEF Sentinel
  <2>2. QED
    BY <1>3, <2>1 DEF Masked
<1>6. Restored(Shadow(s)) = [Shadow(s) EXCEPT !.secret = secret]
  BY <1>1 DEF Restored
<1> HIDE DEF secret
<1>7. [Shadow(s) EXCEPT !.secret = secret] = [id |-> s.id, name |-> s.name, secret |-> s.secret]
  BY <1>4, <1>5
<1>8. QED
  BY <1>2, <1>6, <1>7 DEF McpServer

LEMMA MergeKeeps ==
  ASSUME StoredNamed, NEW S, AreServers(S), Numberings(S) # {}, NEW names, Mirrors(S, names)
  PROVE  /\ AreServers(Merged(S)) /\ \A s \in Merged(S) : s.id # NoId
         /\ \A s \in stored : s.name \in names => s \in Merged(S)
<1> DEFINE W == WithIds(S)
<1>1. /\ AreServers(W) /\ \A s \in W : s.id # NoId
      /\ \A s \in S : s.id # NoId => s \in W
  BY IdsGiven
<1>2. Merged(S) = {Restored(s) : s \in W}
  BY DEF Merged
<1> HIDE DEF W
<1>3. \A s \in W : /\ Restored(s).id = s.id /\ Restored(s).name = s.name
                   /\ Restored(s) = McpServer(Restored(s).id, Restored(s).name, Restored(s).secret)
  BY <1>1, Restoring DEF AreServers
<1>4. IsFiniteSet(Merged(S))
  <2> DEFINE f == [s \in W |-> Restored(s)]
  <2>1. f \in [W -> Merged(S)] /\ \A t \in Merged(S) : \E s \in W : f[s] = t
    BY <1>2
  <2>2. IsFiniteSet(W)
    BY <1>1 DEF AreServers
  <2> HIDE DEF f
  <2>3. QED
    BY <2>1, <2>2, FiniteImage
<1>5. \A s \in Merged(S) : s = McpServer(s.id, s.name, s.secret) /\ s.name # "" /\ s.id # NoId
  <2>1. \A s \in W : s.name # "" /\ s.id # NoId
    BY <1>1 DEF AreServers
  <2>2. QED
    BY <1>2, <1>3, <2>1
<1>6. \A s, t \in Merged(S) : s.name = t.name \/ (s.id = t.id /\ s.id # NoId) => s = t
  <2>1. \A s, t \in W : s.name = t.name \/ (s.id = t.id /\ s.id # NoId) => s = t
    BY <1>1 DEF AreServers
  <2>2. QED
    BY <1>2, <1>3, <2>1
<1>7. ASSUME NEW s \in stored, s.name \in names
      PROVE  s \in Merged(S)
  <2>1. Shadow(s) \in S /\ Shadow(s).id # NoId
    BY <1>7, ServerMade DEF Mirrors, Shadow, StoredNamed
  <2>2. QED
    BY <1>1, <1>2, <2>1, ShadowRestored
<1>8. QED
  BY <1>4, <1>5, <1>6, <1>7 DEF AreServers

-----------------------------------------------------------------------------
(* The steps.                                                               *)

LEMMA EditorRests ==
  ASSUME EditorInv, UNCHANGED <<stored, mcpServers, texts, untouched, origin>>
  PROVE  EditorInv'
  BY DEF EditorInv, Mirrors, Untouched, TextsKept, Kept

(* An edit goes on beside a request under way.                              *)
LEMMA EditKeeps ==
  ASSUME AiInv, Press, UNCHANGED <<reqs, stored, aiLoading, aiLoaded, aiSaving>>,
         EditorInv', untouched' \subseteq untouched
  PROVE  AiInv'
<1>1. StoredNamed'
  BY DEF AiInv, StoredNamed
<1>2. OneAtATime'
  BY DEF AiInv, OneAtATime, Press
<1>3. SaveMirrors'
  BY DEF AiInv, SaveMirrors, Mirrors, Open, Waiting, Shadow
<1>4. AnswersView'
  BY DEF AiInv, AnswersView, View
<1>5. QED
  BY <1>1, <1>2, <1>3, <1>4 DEF AiInv

LEMMA SetTextKeeps ==
  ASSUME AiInv, NEW i \in DOMAIN texts, NEW b, SetText(i, b)
  PROVE  AiInv'
<1>1. /\ IsSequence(texts) /\ IsSequence(origin) /\ Len(texts) = Len(origin)
      /\ \A s \in stored : s.name \in untouched => \E j \in DOMAIN texts : Kept(s, j)
      /\ StoredNamed /\ AreServers(mcpServers) /\ Mirrors(mcpServers, untouched) /\ Untouched
  BY DEF AiInv, EditorInv, TextsKept
<1>2. /\ texts' = [texts EXCEPT ![i] = b] /\ Report(texts')
      /\ untouched' = untouched \ (IF b.name # texts[i].name \/ b.secret # texts[i].secret THEN origin[i] ELSE {})
      /\ UNCHANGED <<reqs, stored, aiLoading, aiLoaded, aiSaving, origin>> /\ Press
  BY DEF SetText
<1>3. IsSequence(texts') /\ Len(texts') = Len(texts) /\ DOMAIN texts' = DOMAIN texts
  <2> DEFINE R == {texts[j] : j \in DOMAIN texts}
             S == R \cup {b}
  <2>1. texts \in Seq(R)
    BY <1>1 DEF IsSequence
  <2> HIDE DEF R
  <2>2. texts \in Seq(S) /\ b \in S
    BY <2>1, SeqMonotonic
  <2>3. i \in 1 .. Len(texts)
    BY <2>1, SequenceOf
  <2> HIDE DEF S
  <2>4. texts' \in Seq(S) /\ Len(texts') = Len(texts)
    BY <1>2, <2>2, <2>3, ExceptSeq
  <2>5. QED
    BY <1>2, <2>4, SequenceOf
<1>4. ASSUME NEW s \in stored, s.name \in untouched'
      PROVE  \E j \in DOMAIN texts' :
               s.name \in origin'[j] /\ texts'[j].name = s.name /\ texts'[j].secret = Masked(s.secret)
  <2>1. PICK j \in DOMAIN texts : Kept(s, j)
    BY <1>1, <1>2, <1>4
  <2>2. s.name \in origin'[j] /\ texts[j].name = s.name /\ texts[j].secret = Masked(s.secret)
    BY <1>2, <2>1 DEF Kept
  <2>3. CASE j # i
    BY <1>2, <1>3, <2>2, <2>3
  <2>4. CASE j = i
    <3>1. b.name = texts[i].name /\ b.secret = texts[i].secret
      BY <1>2, <1>4, <2>1, <2>4 DEF Kept
    <3>2. texts'[i] = b
      BY <1>2
    <3>3. QED
      BY <1>3, <2>2, <2>4, <3>1, <3>2
  <2>5. QED
    BY <2>3, <2>4
<1>5. untouched' \subseteq untouched
  BY <1>2
<1>6. AreServers(mcpServers') /\ Mirrors(mcpServers, untouched)'
  BY <1>1, <1>2, <1>3, <1>4, <1>5, ReportKeeps
<1>7. TextsKept'
  BY <1>1, <1>2, <1>3, <1>4 DEF TextsKept, Kept
<1>8. EditorInv'
  BY <1>1, <1>2, <1>5, <1>6, <1>7 DEF EditorInv, Untouched
<1>9. QED
  BY <1>2, <1>5, <1>8, EditKeeps

LEMMA AddTextKeeps ==
  ASSUME AiInv, AddText
  PROVE  AiInv'
<1>1. /\ IsSequence(texts) /\ IsSequence(origin) /\ Len(texts) = Len(origin)
      /\ \A s \in stored : s.name \in untouched => \E j \in DOMAIN texts : Kept(s, j)
      /\ StoredNamed /\ AreServers(mcpServers) /\ Mirrors(mcpServers, untouched) /\ Untouched
  BY DEF AiInv, EditorInv, TextsKept
<1>2. /\ texts' = Append(texts, EmptyText) /\ origin' = Append(origin, {}) /\ Report(texts')
      /\ UNCHANGED <<reqs, stored, aiLoading, aiLoaded, aiSaving, untouched>> /\ Press
  BY DEF AddText
<1>3. /\ IsSequence(texts') /\ IsSequence(origin') /\ Len(texts') = Len(origin')
      /\ \A j \in DOMAIN texts : j \in DOMAIN texts' /\ texts'[j] = texts[j]
      /\ \A j \in DOMAIN texts : origin'[j] = origin[j]
  <2>1. DOMAIN texts = DOMAIN origin
    BY <1>1, SequenceOf DEF IsSequence
  <2>2. QED
    BY <1>1, <1>2, <2>1, Appended
<1>4. ASSUME NEW s \in stored, s.name \in untouched'
      PROVE  \E j \in DOMAIN texts' :
               s.name \in origin'[j] /\ texts'[j].name = s.name /\ texts'[j].secret = Masked(s.secret)
  <2>1. PICK j \in DOMAIN texts : Kept(s, j)
    BY <1>1, <1>2, <1>4
  <2>2. QED
    BY <1>3, <2>1 DEF Kept
<1>5. AreServers(mcpServers') /\ Mirrors(mcpServers, untouched)'
  BY <1>1, <1>2, <1>3, <1>4, ReportKeeps
<1>6. TextsKept'
  BY <1>2, <1>3, <1>4 DEF TextsKept, Kept
<1>7. EditorInv'
  BY <1>1, <1>2, <1>5, <1>6 DEF EditorInv, Untouched
<1>8. QED
  BY <1>2, <1>7, EditKeeps

LEMMA DeleteTextKeeps ==
  ASSUME AiInv, NEW i \in DOMAIN texts, DeleteText(i)
  PROVE  AiInv'
<1>1. /\ IsSequence(texts) /\ IsSequence(origin) /\ Len(texts) = Len(origin)
      /\ \A s \in stored : s.name \in untouched => \E j \in DOMAIN texts : Kept(s, j)
      /\ StoredNamed /\ AreServers(mcpServers) /\ Mirrors(mcpServers, untouched) /\ Untouched
  BY DEF AiInv, EditorInv, TextsKept
<1>2. /\ texts' = RemoveAt(texts, i) /\ origin' = RemoveAt(origin, i) /\ Report(texts')
      /\ untouched' = untouched \ origin[i]
      /\ UNCHANGED <<reqs, stored, aiLoading, aiLoaded, aiSaving>> /\ Press
  BY DEF DeleteText
<1>3. DOMAIN texts = DOMAIN origin
  BY <1>1, SequenceOf DEF IsSequence
<1>4. /\ IsSequence(texts') /\ Len(texts') = Len(texts) - 1
      /\ \A j \in DOMAIN texts \ {i} :
           LET k == IF j < i THEN j ELSE j - 1 IN k \in DOMAIN texts' /\ texts'[k] = texts[j]
  BY <1>1, <1>2, Removed
<1>5. /\ IsSequence(origin') /\ Len(origin') = Len(origin) - 1
      /\ \A j \in DOMAIN texts \ {i} :
           LET k == IF j < i THEN j ELSE j - 1 IN k \in DOMAIN origin' /\ origin'[k] = origin[j]
  BY <1>1, <1>2, <1>3, Removed
<1>6. ASSUME NEW s \in stored, s.name \in untouched'
      PROVE  \E j \in DOMAIN texts' :
               s.name \in origin'[j] /\ texts'[j].name = s.name /\ texts'[j].secret = Masked(s.secret)
  <2>1. PICK j \in DOMAIN texts : Kept(s, j)
    BY <1>1, <1>2, <1>6
  <2>2. j # i
    BY <1>2, <1>6, <2>1 DEF Kept
  <2> DEFINE k == IF j < i THEN j ELSE j - 1
  <2>3. k \in DOMAIN texts' /\ texts'[k] = texts[j] /\ origin'[k] = origin[j]
    BY <1>4, <1>5, <2>2
  <2> HIDE DEF k
  <2>4. QED
    BY <2>1, <2>3 DEF Kept
<1>7. untouched' \subseteq untouched
  BY <1>2
<1>8. AreServers(mcpServers') /\ Mirrors(mcpServers, untouched)'
  BY <1>1, <1>2, <1>4, <1>6, <1>7, ReportKeeps
<1>9. TextsKept'
  <2>1. Len(texts') = Len(origin')
    BY <1>1, <1>4, <1>5
  <2>2. QED
    BY <1>2, <1>4, <1>5, <1>6, <2>1 DEF TextsKept, Kept
<1>10. EditorInv'
  BY <1>1, <1>2, <1>7, <1>8, <1>9 DEF EditorInv, Untouched
<1>11. QED
  BY <1>2, <1>7, <1>10, EditKeeps

LEMMA LoadAiKeeps ==
  ASSUME AiInv, LoadAi
  PROVE  AiInv'
<1> DEFINE q == Request(clicks', "aiConfig", NoArg)
<1>1. /\ reqs = {} /\ ~aiLoaded /\ clicks' \in Nat /\ clicks' # 0
  BY DEF AiInv, OneAtATime, LoadAi, Press
<1>2. /\ reqs' = reqs \cup {q} /\ aiLoading'
      /\ UNCHANGED <<stored, mcpServers, texts, aiLoaded, aiSaving, untouched, origin>>
  BY DEF LoadAi, Asked
<1>3. IsRequest(q) /\ q.op = "aiConfig" /\ q.got = {}
  BY RequestMade
<1> HIDE DEF q
<1>4. reqs' = {q}
  BY <1>1, <1>2
<1>5. StoredNamed' /\ EditorInv'
  BY <1>2, EditorRests DEF AiInv, StoredNamed
<1>6. OneAtATime'
  BY <1>1, <1>2, <1>3, <1>4 DEF OneAtATime
<1>7. SaveMirrors' /\ AnswersView'
  BY <1>3, <1>4 DEF SaveMirrors, AnswersView, Open, Waiting
<1>8. QED
  BY <1>5, <1>6, <1>7 DEF AiInv

LEMMA SaveAiKeeps ==
  ASSUME AiInv, SaveAi
  PROVE  AiInv'
<1> DEFINE arg == [servers |-> mcpServers, untouched |-> untouched]
           q   == Request(clicks', "saveAi", arg)
<1>1. reqs = {} /\ ~aiLoading /\ clicks' \in Nat /\ clicks' # 0
  BY DEF AiInv, OneAtATime, SaveAi, Shown, Press
<1>2. /\ reqs' = reqs \cup {q} /\ aiSaving'
      /\ UNCHANGED <<stored, mcpServers, texts, aiLoading, aiLoaded, untouched, origin>>
  BY DEF SaveAi, Asked
<1>3. IsRequest(q) /\ q.op = "saveAi" /\ q.got = {} /\ q.arg = arg
  BY RequestMade
<1> HIDE DEF q
<1>4. reqs' = {q}
  BY <1>1, <1>2
<1>5. StoredNamed' /\ EditorInv'
  BY <1>2, EditorRests DEF AiInv, StoredNamed
<1>6. OneAtATime'
  BY <1>1, <1>2, <1>3, <1>4 DEF OneAtATime
<1>7. SaveMirrors'
  <2>1. AreServers(mcpServers) /\ Mirrors(mcpServers, untouched)
    BY DEF AiInv, EditorInv
  <2>2. \A r \in Open("saveAi")' : r.arg = arg
    BY <1>3, <1>4 DEF Open, Waiting
  <2>3. QED
    BY <1>2, <2>1, <2>2 DEF SaveMirrors, Mirrors, Shadow
<1>8. AnswersView'
  BY <1>3, <1>4 DEF AnswersView
<1>9. QED
  BY <1>5, <1>6, <1>7, <1>8 DEF AiInv

(* The backend answers the one request under way.                           *)
LEMMA OneAnswered ==
  ASSUME AiInv, NEW op, NEW r \in Open(op), NEW value, Handled(r, value),
         UNCHANGED <<clicks, aiLoading, aiLoaded, aiSaving>>
  PROVE  OneAtATime' /\ SaveMirrors' /\ \A q \in reqs' : q.got = {value}
<1> DEFINE q == [r EXCEPT !.got = {value}]
<1>1. r \in reqs /\ IsRequest(r) /\ reqs = {r}
  BY DEF AiInv, OneAtATime, Open, Waiting
<1>2. IsRequest(q) /\ q.op = r.op /\ q.got = {value}
  BY <1>1, Answered
<1>3. reqs' = (reqs \ {r}) \cup {q}
  BY DEF Handled
<1> HIDE DEF q
<1>4. reqs' = {q}
  BY <1>1, <1>3
<1>5. OneAtATime'
  BY <1>1, <1>2, <1>4 DEF AiInv, OneAtATime
<1>6. SaveMirrors'
  BY <1>2, <1>4 DEF SaveMirrors, Open, Waiting
<1>7. QED
  BY <1>2, <1>4, <1>5, <1>6

(* What is stored by a save keeps what it left untouched.                   *)
LEMMA StoredBySave ==
  ASSUME AiInv, NEW r \in Open("saveAi"), Numberings(r.arg.servers) # {}, stored' = Merged(r.arg.servers)
  PROVE  StoredNamed' /\ \A s \in stored : s.name \in r.arg.untouched => s \in stored'
<1>1. StoredNamed /\ AreServers(r.arg.servers) /\ Mirrors(r.arg.servers, r.arg.untouched)
  BY DEF AiInv, SaveMirrors
<1>2. QED
  BY <1>1, MergeKeeps DEF StoredNamed

LEMMA UpdateKeeps ==
  ASSUME AiInv, NEW r \in Open("saveAi"), UpdateAiConfig(r)
  PROVE  AiInv'
<1>1. UNCHANGED <<clicks, mcpServers, texts, mcpInvalid, aiLoading, aiLoaded, aiSaving, untouched, origin>>
  BY DEF UpdateAiConfig
<1>2. ASSUME Numberings(r.arg.servers) # {}, stored' = Merged(r.arg.servers), NEW ok \in BOOLEAN,
             Handled(r, [ok |-> ok, servers |-> View(stored')])
      PROVE  AiInv'
  <2> DEFINE value == [ok |-> ok, servers |-> View(stored')]
  <2>1. StoredNamed' /\ \A s \in stored : s.name \in r.arg.untouched => s \in stored'
    BY <1>2, StoredBySave
  <2>2. untouched \subseteq r.arg.untouched
    BY DEF AiInv, SaveMirrors
  <2>3. \A s \in stored' : s.name \in untouched => s \in stored
    <3> SUFFICES ASSUME NEW s \in stored', s.name \in untouched
                 PROVE  s \in stored
      OBVIOUS
    <3>1. PICK o \in stored : o.name = s.name
      BY DEF AiInv, EditorInv, Untouched
    <3>2. o \in stored'
      BY <2>1, <2>2, <3>1
    <3>3. \A a, b \in stored' : a.name = b.name => a = b
      BY <2>1 DEF StoredNamed, AreServers
    <3>4. o = s
      BY <3>1, <3>2, <3>3
    <3>5. QED
      BY <3>1, <3>4
  <2>4. Untouched'
    BY <1>1, <2>1, <2>2 DEF AiInv, EditorInv, Untouched
  <2>5. Mirrors(mcpServers, untouched)' /\ TextsKept'
    BY <1>1, <2>3 DEF AiInv, EditorInv, Mirrors, Shadow, TextsKept, Kept
  <2>6. EditorInv'
    BY <1>1, <2>4, <2>5 DEF AiInv, EditorInv
  <2>7. OneAtATime' /\ SaveMirrors' /\ \A q \in reqs' : q.got = {value}
    BY <1>1, <1>2, OneAnswered
  <2>8. AnswersView'
    <3>1. View(stored)' = View(stored')
      BY DEF View
    <3>2. QED
      BY <2>7, <3>1 DEF AnswersView
  <2>9. QED
    BY <2>1, <2>6, <2>7, <2>8 DEF AiInv
<1>3. CASE Handled(r, [ok |-> FALSE, servers |-> {}]) /\ UNCHANGED stored
  <2>1. OneAtATime' /\ SaveMirrors' /\ \A q \in reqs' : q.got = {[ok |-> FALSE, servers |-> {}]}
    BY <1>1, <1>3, OneAnswered
  <2>2. AnswersView'
    BY <2>1 DEF AnswersView
  <2>3. StoredNamed' /\ EditorInv'
    BY <1>1, <1>3, EditorRests DEF AiInv, StoredNamed
  <2>4. QED
    BY <2>1, <2>2, <2>3 DEF AiInv
<1>4. QED
  BY <1>2, <1>3 DEF UpdateAiConfig

LEMMA GetKeeps ==
  ASSUME AiInv, NEW r \in Open("aiConfig"), GetAiConfig(r)
  PROVE  AiInv'
<1>1. PICK ok \in BOOLEAN : Handled(r, [ok |-> ok, servers |-> View(stored)])
  BY DEF GetAiConfig
<1>2. UNCHANGED <<clicks, stored, mcpServers, texts, aiLoading, aiLoaded, aiSaving, untouched, origin>>
  BY DEF GetAiConfig, aiVars
<1>3. OneAtATime' /\ SaveMirrors' /\ \A q \in reqs' : q.got = {[ok |-> ok, servers |-> View(stored)]}
  BY <1>1, <1>2, OneAnswered
<1>4. AnswersView'
  BY <1>2, <1>3 DEF AnswersView, View
<1>5. StoredNamed' /\ EditorInv'
  BY <1>2, EditorRests DEF AiInv, StoredNamed
<1>6. QED
  BY <1>3, <1>4, <1>5 DEF AiInv

(* The page takes the answer: nothing is under way then.                    *)
LEMMA DoneKeeps ==
  ASSUME AiInv, NEW r \in reqs, NEW a \in r.got, UNCHANGED clicks,
         LoadAiDone(r, a.ok, a.servers) \/ SaveAiDone(r, a.ok, a.servers)
  PROVE  AiInv'
<1>1. reqs = {r} /\ clicks \in Nat /\ clicks # 0
  BY DEF AiInv, OneAtATime
<1>2. UNCHANGED stored /\ reqs' = {}
  BY <1>1 DEF LoadAiDone, SaveAiDone, Ended
<1>3. EditorInv'
  <2>1. CASE a.ok
    <3>1. Remount(View(stored))
      BY <1>1, <2>1 DEF LoadAiDone, SaveAiDone, AiInv, AnswersView
    <3>2. QED
      BY <1>2, <3>1, RemountKeeps DEF AiInv
  <2>2. CASE ~a.ok
    <3>1. UNCHANGED <<mcpServers, texts, untouched, origin>>
      BY <2>2 DEF LoadAiDone, SaveAiDone
    <3>2. QED
      BY <1>2, <3>1, EditorRests DEF AiInv
  <2>3. QED
    BY <2>1, <2>2
<1>4. aiLoading' => ~aiLoaded'
  BY DEF AiInv, OneAtATime, LoadAiDone, SaveAiDone
<1>5. OneAtATime' /\ SaveMirrors' /\ AnswersView'
  BY <1>1, <1>2, <1>4 DEF OneAtATime, SaveMirrors, AnswersView, Open, Waiting
<1>6. QED
  BY <1>2, <1>3, <1>5 DEF AiInv, StoredNamed

LEMMA AiStep ==
  ASSUME AiInv, [AiNext]_<<clicks, reqs, aiVars>>
  PROVE  AiInv'
<1>1. CASE UNCHANGED <<clicks, reqs, aiVars>>
  <2>1. UNCHANGED <<clicks, reqs, stored, mcpServers, texts, aiLoading, aiLoaded, aiSaving, untouched, origin>>
    BY <1>1 DEF aiVars
  <2>2. EditorInv' /\ StoredNamed'
    BY <2>1, EditorRests DEF AiInv, StoredNamed
  <2>3. OneAtATime'
    BY <2>1 DEF AiInv, OneAtATime
  <2>4. SaveMirrors' /\ AnswersView'
    BY <2>1 DEF AiInv, SaveMirrors, AnswersView, Mirrors, Open, Waiting, Shadow, View
  <2>5. QED
    BY <2>2, <2>3, <2>4 DEF AiInv
<1>2. ASSUME NEW i \in DOMAIN texts, DeleteText(i) \/ \E b \in Typed(texts[i]) : SetText(i, b)
      PROVE  AiInv'
  BY <1>2, DeleteTextKeeps, SetTextKeeps
<1>3. CASE AiAnswer
  <2>1. \A op : Ready(op) \subseteq reqs
    BY DEF Ready, Waiting
  <2>2. ASSUME NEW r \in reqs, NEW a \in r.got, UNCHANGED clicks,
               LoadAiDone(r, a.ok, a.servers) \/ SaveAiDone(r, a.ok, a.servers)
        PROVE  AiInv'
    BY <2>2, DoneKeeps
  <2>3. QED
    BY <1>3, <2>1, <2>2, UpdateKeeps, GetKeeps DEF AiAnswer
<1>4. QED
  BY <1>1, <1>2, <1>3, LoadAiKeeps, AddTextKeeps, SaveAiKeeps DEF AiNext

LEMMA AiInitially == PageInit /\ AiInit => AiInv
<1> SUFFICES ASSUME PageInit, AiInit PROVE AiInv
  OBVIOUS
<1>1. StoredNamed
  <2>1. stored = McpAtFirst /\ IsFiniteSet(McpAtFirst)
    BY AiAssumption DEF AiInit
  <2>2. ASSUME NEW s \in stored
        PROVE  s = McpServer(s.id, s.name, s.secret) /\ s.name # "" /\ s.id # NoId
    BY <2>1, AiAssumption DEF McpServer
  <2>3. \A s, t \in stored : s.name = t.name \/ (s.id = t.id /\ s.id # NoId) => s = t
    BY <2>1, AiAssumption
  <2>4. QED
    BY <2>1, <2>2, <2>3 DEF StoredNamed, AreServers
<1>2. AreServers(mcpServers)
  BY FS_EmptySet DEF AiInit, AreServers
<1>3. IsSequence(texts) /\ IsSequence(origin) /\ Len(texts) = Len(origin)
  <2>1. <<>> \in Seq({})
    BY EmptySeq
  <2>2. QED
    BY <2>1, SequenceOf DEF AiInit
<1>4. EditorInv
  BY <1>2, <1>3 DEF AiInit, EditorInv, Mirrors, Untouched, TextsKept
<1>5. OneAtATime /\ SaveMirrors /\ AnswersView
  BY MaxClicksAssumption DEF AiInit, PageInit, OneAtATime, SaveMirrors, AnswersView, Open, Waiting
<1>6. QED
  BY <1>1, <1>4, <1>5 DEF AiInv

LEMMA AiInvariant == AiSpec => []AiInv
  BY AiInitially, AiStep, PTL DEF AiSpec

(* A save leaves the servers whose texts were not changed as they are, with  *)
(* their secrets, although neither the page nor its request ever held one    *)
(* (McpSection.tsx, ai.go: restoreMcpSentinels).                            *)
THEOREM SecretsSurvive == AiSpec => SecretsKept
<1> DEFINE Survives ==
      \A r \in Open("saveAi") :
        stored' # stored => \A s \in stored : s.name \in r.arg.untouched => s \in stored'
<1>1. AiInv /\ [AiNext]_<<clicks, reqs, aiVars>> => [Survives]_<<clicks, reqs, aiVars>>
  <2> SUFFICES ASSUME AiInv, AiNext, NEW r \in Open("saveAi"), stored' # stored
               PROVE  \A s \in stored : s.name \in r.arg.untouched => s \in stored'
    OBVIOUS
  <2>1. PICK q \in Open("saveAi") : UpdateAiConfig(q)
    BY DEF AiNext, LoadAi, AddText, SaveAi, DeleteText, SetText, AiAnswer, GetAiConfig, LoadAiDone, SaveAiDone, aiVars
  <2>2. q = r
    BY DEF AiInv, OneAtATime, Open, Waiting
  <2>3. Numberings(r.arg.servers) # {} /\ stored' = Merged(r.arg.servers)
    BY <2>1, <2>2 DEF UpdateAiConfig
  <2>4. QED
    BY <2>3, StoredBySave
<1>2. QED
  BY <1>1, AiInvariant, PTL DEF AiSpec, SecretsKept
=============================================================================
