------------------------------- MODULE VideoRecProofs -------------------------------
(* Theorems about VideoRec, for any requests, subscriptions, likes, trending videos, *)
(* batch limits, pool sizes and flags.                                               *)
EXTENDS VideoRec, FiniteSetTheorems, TLAPS

-------------------------------------------------------------------------------------
(* Arithmetic of batches and of the pool.                                            *)

\* q batches of m are within n, and one more would not be.
LEMMA Quotient ==
    ASSUME NEW n \in Nat, NEW m \in Nat \ {0}
    PROVE  n \div m \in Nat /\ (n \div m) * m <= n /\ n < (n \div m + 1) * m
OBVIOUS

LEMMA Product ==
    ASSUME NEW a \in Nat, NEW b \in Nat, NEW m \in Nat \ {0}, a * m < b * m
    PROVE  a < b
OBVIOUS

\* Quotient and remainder are unique.
LEMMA Remainder ==
    ASSUME NEW n \in Nat \ {0}, NEW p \in Nat, NEW q \in Nat, NEW a \in 0 .. n - 1, NEW b \in 0 .. n - 1,
           p * n + a = q * n + b
    PROVE  a = b
<1>1. CASE p < q
    <2>1. p * n + n <= q * n
        BY <1>1
    <2> QED
        BY <2>1
<1>2. CASE q < p
    <2>1. q * n + n <= p * n
        BY <1>2
    <2> QED
        BY <2>1
<1> QED
    BY <1>1, <1>2

LEMMA Division ==
    ASSUME NEW x \in Nat, NEW n \in Nat \ {0}
    PROVE  \E q \in Nat, b \in 0 .. n - 1 : b = x % n /\ x = q * n + b
<1>1. x % n = x - n * (x \div n)
    OBVIOUS
<1>2. x \div n \in Nat
    OBVIOUS
<1>3. PICK q \in Nat : q = x \div n
    BY <1>2
<1>4. PICK b \in 0 .. n - 1 : b = x % n
    OBVIOUS
<1>5. b = x - n * q
    BY <1>1, <1>3, <1>4
<1>6. x = q * n + b
    BY <1>5
<1> QED
    BY <1>4, <1>6

LEMMA NextModulo ==
    ASSUME NEW x \in Nat, NEW n \in Nat \ {0}
    PROVE  /\ x % n \in 0 .. n - 1
           /\ (x + 1) % n = IF (x % n) + 1 = n THEN 0 ELSE (x % n) + 1
<1>1. x % n \in 0 .. n - 1 /\ (x + 1) % n \in 0 .. n - 1
    OBVIOUS
<1>2. PICK p \in Nat, a \in 0 .. n - 1 : a = (x + 1) % n /\ x + 1 = p * n + a
    BY Division
<1>3. PICK q \in Nat, b \in 0 .. n - 1 : b = x % n /\ x = q * n + b
    BY Division
<1>4. p * n + a = q * n + b + 1
    BY <1>2, <1>3
<1>5. CASE b + 1 = n
    <2>1. p * n + a = (q + 1) * n + 0
        BY <1>4, <1>5
    <2>2. a = 0
        BY <2>1, Remainder
    <2> QED
        BY <1>1, <1>2, <1>3, <1>5, <2>2
<1>6. CASE b + 1 # n
    <2>1. b + 1 \in 0 .. n - 1 /\ p * n + a = q * n + (b + 1)
        BY <1>4, <1>6
    <2>2. a = b + 1
        BY <2>1, Remainder
    <2> QED
        BY <1>1, <1>2, <1>3, <1>6, <2>2
<1> QED
    BY <1>5, <1>6

-------------------------------------------------------------------------------------
(* Batches.                                                                          *)

\* No batch has more than m ids, and each id of the list is in one.
LEMMA SliceSound ==
    ASSUME NEW l \in Seq(Nat), NEW m \in Nat \ {0}
    PROVE  /\ Len(l) \div m \in Nat
           /\ \A i \in 0 .. Len(l) \div m : /\ Slice(l, m, i) \subseteq Range(l)
                                           /\ Cardinality(Slice(l, m, i)) \in Nat
                                           /\ Cardinality(Slice(l, m, i)) <= m
           /\ \A x \in Range(l) : \E i \in 0 .. Len(l) \div m : x \in Slice(l, m, i)
<1>1. Len(l) \in Nat
    OBVIOUS
<1>2. PICK n \in Nat : n = Len(l)
    BY <1>1
<1>3. PICK q \in Nat : q = n \div m
    BY Quotient
<1>4. q * m <= n /\ n < (q + 1) * m
    BY <1>3, Quotient
<1>5. ASSUME NEW i \in 0 .. q
      PROVE  /\ Slice(l, m, i) \subseteq Range(l)
             /\ Cardinality(Slice(l, m, i)) \in Nat /\ Cardinality(Slice(l, m, i)) <= m
    <2> DEFINE a == i * m + 1
               b == IF i = q THEN n ELSE (i + 1) * m
    <2>1. Slice(l, m, i) = {l[k] : k \in a .. b}
        BY <1>2, <1>3 DEF Slice
    <2>2. a \in Nat /\ b \in Nat /\ a >= 1 /\ b <= n /\ b - a + 1 <= m
        <3>1. i \in Nat /\ i * m \in Nat /\ (i + 1) * m = i * m + m
            OBVIOUS
        <3>2. CASE i = q
            BY <1>4, <3>1, <3>2
        <3>3. CASE i # q
            <4>1. i + 1 <= q
                BY <3>3
            <4>2. (i + 1) * m <= q * m
                BY <4>1
            <4>3. (i + 1) * m \in Nat /\ q * m \in Nat
                OBVIOUS
            <4> QED
                BY <1>4, <3>1, <3>3, <4>2, <4>3
        <3> QED
            BY <3>2, <3>3
    <2> HIDE DEF a, b
    <2>3. Slice(l, m, i) \subseteq Range(l)
        <3> SUFFICES ASSUME NEW k \in a .. b PROVE l[k] \in Range(l)
            BY <2>1
        <3>1. k \in 1 .. Len(l)
            BY <1>2, <2>2
        <3> QED
            BY <3>1 DEF Range
    <2>4. /\ IsFiniteSet(a .. b) /\ Cardinality(a .. b) \in Nat /\ Cardinality(a .. b) <= m
        <3>1. a \in Int /\ b \in Int
            BY <2>2
        <3>2. IsFiniteSet(a .. b) /\ Cardinality(a .. b) = IF a > b THEN 0 ELSE b - a + 1
            BY <3>1, FS_Interval
        <3> QED
            BY <2>2, <3>2
    <2>5. /\ IsFiniteSet({l[k] : k \in a .. b})
          /\ Cardinality({l[k] : k \in a .. b}) <= Cardinality(a .. b)
        <3> DEFINE f == [k \in a .. b |-> l[k]]
                   T == {l[k] : k \in a .. b}
        <3>1. f \in Surjection(a .. b, T)
            BY DEF Surjection
        <3> QED
            BY <2>4, <3>1, FS_Surjection
    <2>6. Cardinality({l[k] : k \in a .. b}) \in Nat
        BY <2>5, FS_CardinalityType
    <2> QED
        BY <2>1, <2>3, <2>4, <2>5, <2>6
<1>6. ASSUME NEW x \in Range(l) PROVE \E i \in 0 .. q : x \in Slice(l, m, i)
    <2>1. PICK k \in 1 .. n : x = l[k]
        BY <1>2 DEF Range
    <2>2. PICK j \in Nat : j = k - 1
        OBVIOUS
    <2>3. PICK i \in Nat : i = j \div m
        BY Quotient
    <2>4. i * m <= j /\ j < (i + 1) * m
        BY <2>3, Quotient
    <2>5. i < q + 1
        <3>1. i * m \in Nat /\ (q + 1) * m \in Nat
            OBVIOUS
        <3>2. i * m < (q + 1) * m
            BY <1>4, <2>2, <2>4, <3>1
        <3> QED
            BY <3>2, Product
    <2>6. i \in 0 .. q
        BY <2>5
    <2>7. k \in i * m + 1 .. IF i = q THEN n ELSE (i + 1) * m
        <3>1. i * m \in Nat /\ (i + 1) * m \in Nat
            OBVIOUS
        <3>2. i * m + 1 <= k /\ k <= (i + 1) * m
            BY <2>2, <2>4, <3>1
        <3> QED
            BY <3>1, <3>2
    <2>8. x \in Slice(l, m, i)
        BY <1>2, <1>3, <2>1, <2>7 DEF Slice
    <2> QED
        BY <2>6, <2>8
<1>7. q = Len(l) \div m
    BY <1>2, <1>3
<1> QED
    BY <1>5, <1>6, <1>7

\* SetToSeq lists a finite set.
LEMMA Listed ==
    ASSUME NEW S, IsFiniteSet(S), S \subseteq Nat
    PROVE  SetToSeq(S) \in Seq(Nat) /\ Range(SetToSeq(S)) = S /\ Len(SetToSeq(S)) = Cardinality(S)
<1> DEFINE n == Cardinality(S)
           f == SetToSeq(S)
<1>1. n \in Nat /\ ExistsBijection(1 .. n, S)
    BY FS_CardinalityType
<1>2. \E g \in [1 .. n -> S] : IsInjective(g)
    BY <1>1 DEF ExistsBijection, Bijection, Injection
<1>3. f \in [1 .. n -> S] /\ IsInjective(f)
    BY <1>2 DEF SetToSeq
<1> HIDE DEF f
<1>4. IsFiniteSet(1 .. n) /\ Cardinality(1 .. n) = n
    BY <1>1, FS_Interval
<1>5. f \in Surjection(1 .. n, S)
    BY <1>3, <1>4, FS_Injection DEF Injection
<1>6. f \in Seq(Nat) /\ Len(f) = n
    <2>1. f \in [1 .. n -> Nat]
        BY <1>3
    <2> HIDE DEF n
    <2> QED
        BY <1>1, <2>1
<1>7. Range(f) = S
    BY <1>3, <1>5 DEF Range, Surjection
<1> QED
    BY <1>6, <1>7 DEF f

-------------------------------------------------------------------------------------
(* The batch sizes. A service is asked with batches of 1 until the probe has learnt   *)
(* what it takes, so no batch size ever exceeds the limit of its service.             *)

Probing == {"new", "probing", "expired", "learnt", "ended"}

ServiceInv ==
    /\ opt \in Options /\ limit \in Limits
    /\ batch \in [Service -> Nat \ {0}] /\ probe \in [Service -> Probing]
    /\ \A s \in Service : batch[s] <= limit[s] /\ (probe[s] # "learnt" => batch[s] = 1)
    /\ \A s \in Service : probe[s] = "probing" => BatchFlag >= 1

LEMMA LimitType ==
    ASSUME ServiceInv
    PROVE  limit \in [Service -> Nat \ {0}]
BY VideoRecAssumption DEF ServiceInv

\* Only the probes change what is known of the services.
LEMMA ServiceSteps ==
    ASSUME [Next]_vars
    PROVE  \/ UNCHANGED serviceVars
           \/ \E s \in Service : ProbeBegins(s) \/ ProbeAnswered(s) \/ ProbeExpires(s)
<1>1. ASSUME NEW r \in Request, Call(r) \/ Handler(r) PROVE UNCHANGED serviceVars
    BY <1>1 DEF Call, Handler, SubscriberFound, SubscriberFails, FallBack, UsersStale, UsersDone,
                VideosDone
<1>2. ASSUME NEW r \in Request, NEW i \in DOMAIN worker[r], Worker(r, i)
      PROVE  UNCHANGED serviceVars
    BY <1>2 DEF Worker, WorkerSucceeds, WorkerFails, WorkerFallsBack
<1>3. ASSUME RefreshBegins \/ Refresh PROVE UNCHANGED serviceVars
    BY <1>3 DEF RefreshBegins, Refresh, NoTrending, RefreshEnds
<1>4. CASE UNCHANGED vars
    BY <1>4 DEF vars
<1> QED
    BY <1>1, <1>2, <1>3, <1>4 DEF Next

LEMMA ServiceStep ==
    ASSUME ServiceInv, [Next]_vars
    PROVE  ServiceInv' /\ UNCHANGED <<opt, limit>>
<1>1. CASE UNCHANGED serviceVars
    BY <1>1 DEF ServiceInv, serviceVars
<1>2. ASSUME NEW s \in Service, ProbeBegins(s) \/ ProbeExpires(s)
      PROVE  ServiceInv' /\ UNCHANGED <<opt, limit>>
    <2>1. PICK x \in {"probing", "expired", "ended"} :
            /\ probe' = [probe EXCEPT ![s] = x] /\ probe[s] # "learnt"
            /\ (x = "probing" => ~(BatchFlag < 1))
        BY <1>2 DEF ProbeBegins, ProbeExpires
    <2>2. UNCHANGED <<opt, limit, batch>>
        BY <1>2 DEF ProbeBegins, ProbeExpires
    <2>3. x = "probing" => BatchFlag >= 1
        BY <2>1, VideoRecAssumption
    <2> QED
        BY <2>1, <2>2, <2>3 DEF ServiceInv, Probing
<1>3. ASSUME NEW s \in Service, ProbeAnswered(s)
      PROVE  ServiceInv' /\ UNCHANGED <<opt, limit>>
    <2>1. limit[s] \in Nat \ {0} /\ BatchFlag \in Nat \ {0}
        BY <1>3, LimitType, VideoRecAssumption DEF ServiceInv, ProbeAnswered
    <2>2. PICK a \in Nat \ {0} : a = Accepted(s) /\ a <= limit[s]
        BY <2>1 DEF Accepted
    <2>3. batch[s] = 1 /\ UNCHANGED <<opt, limit>>
        BY <1>3 DEF ServiceInv, ProbeAnswered
    <2>4. batch' = [batch EXCEPT ![s] = batch[s] + a - 1]
        BY <1>3, <2>2 DEF ProbeAnswered
    <2>5. batch[s] + a - 1 = a
        BY <2>3
    <2>6. batch' = [batch EXCEPT ![s] = a]
        BY <2>4, <2>5
    <2> QED
        BY <1>3, <2>2, <2>3, <2>6 DEF ServiceInv, Probing, ProbeAnswered
<1> QED
    BY <1>1, <1>2, <1>3, ServiceSteps

-------------------------------------------------------------------------------------
(* The cache.                                                                         *)

CacheInv ==
    /\ cache \subseteq Trending /\ locked \in BOOLEAN
    /\ refreshSize \in Nat \ {0} /\ refreshes \in Nat /\ refreshErrors \in Nat

\* Only the refresher changes the cache.
LEMMA CacheSteps ==
    ASSUME [Next]_vars
    PROVE  UNCHANGED cacheVars \/ RefreshBegins \/ Refresh
<1>1. ASSUME NEW r \in Request, Call(r) \/ Handler(r) PROVE UNCHANGED cacheVars
    BY <1>1 DEF Call, Handler, SubscriberFound, SubscriberFails, FallBack, UsersStale, UsersDone,
                VideosDone
<1>2. ASSUME NEW r \in Request, NEW i \in DOMAIN worker[r], Worker(r, i)
      PROVE  UNCHANGED cacheVars
    BY <1>2 DEF Worker, WorkerSucceeds, WorkerFails, WorkerFallsBack
<1>3. ASSUME NEW s \in Service, ProbeBegins(s) \/ ProbeAnswered(s) \/ ProbeExpires(s)
      PROVE  UNCHANGED cacheVars
    BY <1>3 DEF ProbeBegins, ProbeAnswered, ProbeExpires
<1>4. CASE UNCHANGED vars
    BY <1>4 DEF vars
<1> QED
    BY <1>1, <1>2, <1>3, <1>4 DEF Next

\* A refresh fetches trending videos only, all of them if no batch is lost; a part of
\* them replaces nothing but an empty cache.
LEMMA Refreshed ==
    ASSUME CacheInv, NEW lost \in SUBSET Losable, RefreshEnds(lost)
    PROVE  cache \subseteq cache' /\ cache' \subseteq Trending /\ Cardinality(lost) \in Nat
<1> DEFINE l == SetToSeq(Trending)
           n == Len(l) \div refreshSize
           fetched == UNION {Slice(l, refreshSize, i) : i \in (0 .. n) \ lost}
<1>1. l \in Seq(Nat) /\ Range(l) = Trending /\ Len(l) = Cardinality(Trending)
    BY VideoRecAssumption, Listed
<1>2. cache' = IF lost = {} \/ cache = {} THEN fetched ELSE cache
    BY DEF RefreshEnds
<1>3. lost \subseteq 0 .. n
    BY <1>1 DEF Losable
<1> HIDE DEF l
<1>4. /\ n \in Nat
      /\ \A i \in 0 .. n : Slice(l, refreshSize, i) \subseteq Range(l)
      /\ \A x \in Range(l) : \E i \in 0 .. n : x \in Slice(l, refreshSize, i)
    BY <1>1, SliceSound DEF CacheInv
<1> HIDE DEF n
<1>5. fetched \subseteq Trending
    BY <1>1, <1>4
<1>6. lost = {} => fetched = Trending
    BY <1>1, <1>4
<1>7. Cardinality(lost) \in Nat
    <2>1. IsFiniteSet(0 .. n)
        BY <1>4, FS_Interval
    <2>2. IsFiniteSet(lost)
        BY <1>3, <2>1, FS_Subset
    <2> QED
        BY <2>2, FS_CardinalityType
<1> QED
    BY <1>2, <1>5, <1>6, <1>7 DEF CacheInv

LEMMA CacheStep ==
    ASSUME ServiceInv, CacheInv, [Next]_vars
    PROVE  CacheInv' /\ cache \subseteq cache'
<1>1. CASE UNCHANGED cacheVars
    BY <1>1 DEF CacheInv, cacheVars
<1>2. CASE RefreshBegins
    BY <1>2 DEF CacheInv, ServiceInv, RefreshBegins, Service
<1>3. CASE NoTrending
    <2>1. locked' \in BOOLEAN
        BY <1>3 DEF NoTrending
    <2>2. UNCHANGED <<cache, refreshSize, refreshes>> /\ refreshErrors' = refreshErrors + 1
        BY <1>3 DEF NoTrending
    <2> QED
        BY <2>1, <2>2 DEF CacheInv
<1>4. ASSUME NEW lost \in SUBSET Losable, RefreshEnds(lost)
      PROVE  CacheInv' /\ cache \subseteq cache'
    <2>1. cache \subseteq cache' /\ cache' \subseteq Trending /\ Cardinality(lost) \in Nat
        BY <1>4, Refreshed
    <2>2. /\ refreshErrors' = refreshErrors + Cardinality(lost)
          /\ UNCHANGED <<refreshSize, refreshes>>
        BY <1>4 DEF RefreshEnds
    <2>3. locked' \in BOOLEAN
        BY <1>4 DEF RefreshEnds
    <2>4. PICK k \in Nat : k = Cardinality(lost)
        BY <2>1
    <2>5. refreshErrors' \in Nat
        BY <2>2, <2>4 DEF CacheInv
    <2> QED
        BY <2>1, <2>2, <2>3, <2>5 DEF CacheInv
<1> QED
    BY <1>1, <1>2, <1>3, <1>4, CacheSteps DEF Refresh

-------------------------------------------------------------------------------------
(* The pool: the connections 1 to index % n of a service have been handed out once    *)
(* more than the others of its n.                                                     *)

Turns(p, n) ==
    /\ p \in [index : Nat, uses : [0 .. n - 1 -> Nat]]
    /\ \E q \in Nat : \A i \in 0 .. n - 1 :
        p.uses[i] = IF 1 <= i /\ i <= p.index % n THEN q + 1 ELSE q

PoolInv == DOMAIN pool = Service /\ \A s \in Service : Turns(pool[s], ClientPoolSize)

LEMMA PoolSize == ClientPoolSize \in Nat \ {0}
BY VideoRecAssumption DEF ClientPoolSize

LEMMA PoolSteps ==
    ASSUME [Next]_vars
    PROVE  UNCHANGED pool \/ \E s \in Service : NextConn(s)
<1> USE DEF Service
<1>1. ASSUME NEW r \in Request, Call(r) \/ Handler(r)
      PROVE  UNCHANGED pool \/ \E s \in Service : NextConn(s)
    <2>1. ASSUME Call(r) PROVE UNCHANGED pool \/ NextConn("user")
        BY <2>1 DEF Call
    <2>2. ASSUME UsersDone(r) PROVE UNCHANGED pool \/ NextConn("video")
        BY <2>2 DEF UsersDone
    <2>3. ASSUME \/ SubscriberFound(r) \/ SubscriberFails(r) \/ FallBack(r) \/ UsersStale(r)
                 \/ VideosDone(r)
          PROVE  UNCHANGED pool
        BY <2>3 DEF SubscriberFound, SubscriberFails, FallBack, UsersStale, VideosDone
    <2> QED
        BY <1>1, <2>1, <2>2, <2>3 DEF Handler
<1>2. ASSUME NEW r \in Request, NEW i \in DOMAIN worker[r], Worker(r, i) PROVE UNCHANGED pool
    BY <1>2 DEF Worker, WorkerSucceeds, WorkerFails, WorkerFallsBack
<1>3. ASSUME RefreshBegins PROVE UNCHANGED pool \/ NextConn("video")
    BY <1>3 DEF RefreshBegins
<1>4. ASSUME Refresh PROVE UNCHANGED pool
    BY <1>4 DEF Refresh, NoTrending, RefreshEnds
<1>5. ASSUME NEW s \in Service, ProbeBegins(s) \/ ProbeAnswered(s) \/ ProbeExpires(s)
      PROVE  UNCHANGED pool \/ NextConn(s)
    BY <1>5 DEF ProbeBegins, ProbeAnswered, ProbeExpires
<1>6. CASE UNCHANGED vars
    BY <1>6 DEF vars
<1> QED
    BY <1>1, <1>2, <1>3, <1>4, <1>5, <1>6 DEF Next

\* Handing out the next connection keeps the turns.
LEMMA NextTurn ==
    ASSUME NEW n \in Nat \ {0}, NEW p, Turns(p, n), NEW idx, idx = (p.index + 1) % n,
           NEW o, o = [index |-> p.index + 1, uses |-> [p.uses EXCEPT ![idx] = @ + 1]]
    PROVE  Turns(o, n)
<1>1. PICK x \in Nat : x = p.index
    BY DEF Turns
<1>2. PICK u \in [0 .. n - 1 -> Nat] : u = p.uses
    BY DEF Turns
<1>3. PICK q \in Nat : \A i \in 0 .. n - 1 : u[i] = IF 1 <= i /\ i <= x % n THEN q + 1 ELSE q
    BY <1>1, <1>2 DEF Turns
<1>4. PICK a \in 0 .. n - 1 : a = x % n
    BY NextModulo
<1>5. PICK b \in 0 .. n - 1 : b = (x + 1) % n
    <2>1. x + 1 \in Nat
        OBVIOUS
    <2> QED
        BY <2>1, NextModulo
<1>6. b = IF a + 1 = n THEN 0 ELSE a + 1
    BY <1>4, <1>5, NextModulo
<1>7. o.index = x + 1 /\ o.uses = [u EXCEPT ![b] = @ + 1] /\ o.index % n = b
    BY <1>1, <1>2, <1>5
<1>8. o \in [index : Nat, uses : [0 .. n - 1 -> Nat]]
    <2>1. PICK y \in Nat : y = x + 1
        OBVIOUS
    <2>2. [u EXCEPT ![b] = @ + 1] \in [0 .. n - 1 -> Nat]
        OBVIOUS
    <2>3. PICK f \in [0 .. n - 1 -> Nat] : f = [u EXCEPT ![b] = @ + 1]
        BY <2>2, Zenon
    <2>4. o = [index |-> y, uses |-> f]
        BY <1>1, <1>2, <1>5, <2>1, <2>3
    <2> QED
        BY ONLY y \in Nat, f \in [0 .. n - 1 -> Nat], <2>4
<1>9. \A i \in 0 .. n - 1 : u[i] = IF 1 <= i /\ i <= a THEN q + 1 ELSE q
    BY <1>3, <1>4
<1>10. \E z \in Nat : \A i \in 0 .. n - 1 :
        o.uses[i] = IF 1 <= i /\ i <= b THEN z + 1 ELSE z
    <2>1. CASE a + 1 = n
        <3>1. \A i \in 0 .. n - 1 :
                o.uses[i] = IF 1 <= i /\ i <= b THEN (q + 1) + 1 ELSE q + 1
            <4> SUFFICES ASSUME NEW i \in 0 .. n - 1
                         PROVE  o.uses[i] = IF 1 <= i /\ i <= b THEN (q + 1) + 1 ELSE q + 1
                OBVIOUS
            <4>1. b = 0 /\ a = n - 1
                BY <1>6, <2>1
            <4>2. o.uses[i] = IF i = 0 THEN u[i] + 1 ELSE u[i]
                BY <1>7, <4>1
            <4>3. u[i] = IF i = 0 THEN q ELSE q + 1
                BY <1>9, <4>1
            <4>4. ~(1 <= i /\ i <= b)
                BY <4>1
            <4> QED
                BY <4>2, <4>3, <4>4
        <3>2. q + 1 \in Nat
            OBVIOUS
        <3> QED
            BY <3>1, <3>2
    <2>2. CASE a + 1 # n
        <3>1. \A i \in 0 .. n - 1 : o.uses[i] = IF 1 <= i /\ i <= b THEN q + 1 ELSE q
            <4> SUFFICES ASSUME NEW i \in 0 .. n - 1
                         PROVE  o.uses[i] = IF 1 <= i /\ i <= b THEN q + 1 ELSE q
                OBVIOUS
            <4>1. b = a + 1
                BY <1>6, <2>2
            <4>2. o.uses[i] = IF i = b THEN u[i] + 1 ELSE u[i]
                BY <1>7
            <4>3. u[i] = IF 1 <= i /\ i <= a THEN q + 1 ELSE q
                BY <1>9
            <4>4. CASE i = b
                BY <4>1, <4>2, <4>3, <4>4
            <4>5. CASE i # b
                BY <4>1, <4>2, <4>3, <4>5
            <4> QED
                BY <4>4, <4>5
        <3> QED
            BY <3>1
    <2> QED
        BY <2>1, <2>2
<1> QED
    BY <1>7, <1>8, <1>10 DEF Turns

LEMMA PoolStep ==
    ASSUME PoolInv, [Next]_vars
    PROVE  PoolInv'
<1>1. CASE UNCHANGED pool
    BY <1>1 DEF PoolInv
<1>2. ASSUME NEW s \in Service, NextConn(s) PROVE PoolInv'
    <2> DEFINE n == ClientPoolSize
               idx == (pool[s].index + 1) % n
               o == [index |-> pool[s].index + 1, uses |-> [pool[s].uses EXCEPT ![idx] = @ + 1]]
    <2>1. n \in Nat \ {0} /\ Turns(pool[s], n)
        BY PoolSize DEF PoolInv
    <2>2. pool' = [pool EXCEPT ![s].index = @ + 1, ![s].uses[idx] = @ + 1]
        BY <1>2 DEF NextConn
    <2> HIDE DEF n
    <2>3. pool[s] \in [index : Nat, uses : [0 .. n - 1 -> Nat]]
        BY <2>1 DEF Turns
    <2>4. pool'[s] = o
        BY <2>2, <2>3 DEF PoolInv
    <2>5. DOMAIN pool' = Service /\ \A t \in Service : t # s => pool'[t] = pool[t]
        BY <2>2 DEF PoolInv
    <2>6. Turns(o, n)
        BY <2>1, NextTurn
    <2> QED
        BY <2>4, <2>5, <2>6 DEF PoolInv, n
<1> QED
    BY <1>1, <1>2, PoolSteps

LEMMA PoolIsBalanced ==
    ASSUME PoolInv
    PROVE  PoolBalanced
<1> SUFFICES ASSUME NEW s \in Service, NEW i \in DOMAIN pool[s].uses,
                    NEW j \in DOMAIN pool[s].uses
             PROVE  pool[s].uses[i] - pool[s].uses[j] <= 1
    BY DEF PoolBalanced
<1>1. Turns(pool[s], ClientPoolSize)
    BY DEF PoolInv
<1>2. PICK u \in [0 .. ClientPoolSize - 1 -> Nat] : u = pool[s].uses
    BY <1>1 DEF Turns
<1>3. PICK q \in Nat : u[i] \in {q, q + 1} /\ u[j] \in {q, q + 1}
    BY <1>1, <1>2 DEF Turns
<1> QED
    BY <1>2, <1>3

-------------------------------------------------------------------------------------
(* The requests. Only a request that has ended has a response.                        *)

Places == {"idle", "subscriber", "subscriberRetry", "fall", "users", "videos", "done"}
Kinds == {"none", "fresh", "stale", "error", "refused"}

RequestInv ==
    /\ pc \in [Request -> Places] /\ subs \in [Request -> 0 .. Creators]
    /\ DOMAIN resp = Request
    /\ \A r \in Request : /\ resp[r].kind \in Kinds
                          /\ pc[r] # "done" => resp[r].kind = "none"

LEMMA RequestSteps ==
    ASSUME [Next]_vars
    PROVE  UNCHANGED <<pc, subs, resp, stats>> \/ \E r \in Request : Call(r) \/ Handler(r)
<1>1. ASSUME NEW r \in Request, NEW i \in DOMAIN worker[r], Worker(r, i)
      PROVE  UNCHANGED <<pc, subs, resp, stats>>
    BY <1>1 DEF Worker, WorkerSucceeds, WorkerFails, WorkerFallsBack
<1>2. ASSUME RefreshBegins \/ Refresh PROVE UNCHANGED <<pc, subs, resp, stats>>
    BY <1>2 DEF RefreshBegins, Refresh, NoTrending, RefreshEnds
<1>3. ASSUME NEW s \in Service, ProbeBegins(s) \/ ProbeAnswered(s) \/ ProbeExpires(s)
      PROVE  UNCHANGED <<pc, subs, resp, stats>>
    BY <1>3 DEF ProbeBegins, ProbeAnswered, ProbeExpires
<1>4. CASE UNCHANGED vars
    BY <1>4 DEF vars
<1> QED
    BY <1>1, <1>2, <1>3, <1>4 DEF Next

\* A response ends the request.
LEMMA Ended ==
    ASSUME RequestInv, NEW r \in Request, NEW x, x.kind \in Kinds, UNCHANGED subs,
           pc' = [pc EXCEPT ![r] = "done"], resp' = [resp EXCEPT ![r] = x]
    PROVE  RequestInv'
BY DEF RequestInv, Places

\* Any other step leaves the responses alone.
LEMMA Moved ==
    ASSUME RequestInv, NEW r \in Request, NEW x \in Places, UNCHANGED <<subs, resp>>,
           pc[r] # "done", pc' = [pc EXCEPT ![r] = x]
    PROVE  RequestInv'
BY DEF RequestInv, Places

LEMMA RequestStep ==
    ASSUME RequestInv, [Next]_vars
    PROVE  RequestInv'
<1>1. CASE UNCHANGED <<pc, subs, resp, stats>>
    BY <1>1 DEF RequestInv
<1>2. ASSUME NEW r \in Request, Call(r) PROVE RequestInv'
    <2>1. pc[r] = "idle"
        BY <1>2 DEF Call
    <2>2. CASE /\ pc' = [pc EXCEPT ![r] = "done"] /\ resp' = [resp EXCEPT ![r] = Refused]
               /\ UNCHANGED subs
        <3>1. Refused.kind \in Kinds
            BY DEF Refused, Kinds
        <3> QED
            BY <2>2, <3>1, Ended
    <2>3. CASE pc' = [pc EXCEPT ![r] = "fall"] /\ UNCHANGED <<subs, resp>>
        BY <2>1, <2>3, Moved DEF Places
    <2>4. CASE /\ pc' = [pc EXCEPT ![r] = "subscriber"] /\ UNCHANGED resp
               /\ \E n \in 0 .. Creators : subs' = [subs EXCEPT ![r] = n]
        BY <2>1, <2>4 DEF RequestInv, Places
    <2> QED
        BY <1>2, <2>2, <2>3, <2>4 DEF Call
<1>3. ASSUME NEW r \in Request, SubscriberFound(r) \/ SubscriberFails(r) PROVE RequestInv'
    <2>1. pc[r] \in {"subscriber", "subscriberRetry"} /\ UNCHANGED <<subs, resp>>
        BY <1>3 DEF SubscriberFound, SubscriberFails, LastTry
    <2>2. \E x \in {"fall", "users", "subscriberRetry"} : pc' = [pc EXCEPT ![r] = x]
        BY <1>3 DEF SubscriberFound, SubscriberFails
    <2> QED
        BY <2>1, <2>2, Moved DEF Places
<1>4. ASSUME NEW r \in Request, NEW x, Finish(r, x), x.kind \in Kinds, UNCHANGED subs
      PROVE  RequestInv'
    BY <1>4, Ended DEF Finish
<1>5. ASSUME NEW r \in Request, FallBack(r) PROVE RequestInv'
    <2> DEFINE x == IF opt.fallback /\ cache # {} THEN Stale(cache) ELSE Error
    <2>1. x.kind \in Kinds
        BY DEF Stale, Error, Kinds
    <2>2. Finish(r, x) /\ UNCHANGED subs
        BY <1>5 DEF FallBack
    <2> HIDE DEF x
    <2> QED
        BY <1>4, <2>1, <2>2
<1>6. ASSUME NEW r \in Request, UsersStale(r) PROVE RequestInv'
    <2>1. Finish(r, Stale(Head(cacheChan[r]))) /\ UNCHANGED subs
        BY <1>6 DEF UsersStale
    <2> QED
        BY <1>4, <2>1 DEF Stale, Kinds
<1>7. ASSUME NEW r \in Request, UsersDone(r) PROVE RequestInv'
    <2>1. CASE Finish(r, Error) /\ UNCHANGED subs
        BY <1>4, <2>1 DEF Error, Kinds
    <2>2. CASE pc[r] = "users" /\ pc' = [pc EXCEPT ![r] = "videos"] /\ UNCHANGED <<subs, resp>>
        BY <2>2, Moved DEF Places
    <2> QED
        BY <1>7, <2>1, <2>2 DEF UsersDone
<1>8. ASSUME NEW r \in Request, VideosDone(r) PROVE RequestInv'
    <2>1. /\ UNCHANGED subs
          /\ \/ Finish(r, Stale(Head(cacheChan[r]))) \/ Finish(r, Error) \/ Finish(r, Fresh(got[r]))
        BY <1>8 DEF VideosDone
    <2> QED
        BY <1>4, <2>1 DEF Stale, Error, Fresh, Kinds
<1> QED
    BY <1>1, <1>2, <1>3, <1>5, <1>6, <1>7, <1>8, RequestSteps DEF Handler

-------------------------------------------------------------------------------------
(* The fan-out of a request: s is the service, l the ids, m the batch size, g what it  *)
(* brought, w its goroutines, e and c the channels they send on. A goroutine that is   *)
(* not through has room in either channel.                                            *)

Labels == {"call", "retry", "fall", "exit"}

Busy(w) == {i \in DOMAIN w : w[i] # "exit"}

Fan(lim, s, l, m, g, w, e, c) ==
    /\ s \in Service /\ l \in Seq(Nat) /\ m \in Nat \ {0} /\ m <= lim[s] /\ g \subseteq Range(l)
    /\ w \in [DOMAIN w -> Labels] /\ DOMAIN w \in {{}, 0 .. Len(l) \div m}
    /\ e \in Seq({"nil", "err"}) /\ c \in Seq(SUBSET Trending)
    /\ Cardinality(Busy(w)) + Len(e) + Len(c) <= Room(Len(l), m)

Domains ==
    /\ svc \in [Request -> Service] /\ DOMAIN ids = Request /\ DOMAIN size = Request
    /\ DOMAIN got = Request /\ DOMAIN worker = Request /\ DOMAIN errorChan = Request
    /\ DOMAIN cacheChan = Request /\ gaveUp \in [Request -> BOOLEAN]

FanInv ==
    /\ Domains
    /\ \A r \in Request :
        Fan(limit, svc[r], ids[r], size[r], got[r], worker[r], errorChan[r], cacheChan[r])

LEMMA FanStarts ==
    ASSUME NEW lim, NEW s \in Service, NEW l \in Seq(Nat), NEW m \in Nat \ {0}, m <= lim[s]
    PROVE  Fan(lim, s, l, m, {}, [i \in 0 .. Len(l) \div m |-> "call"], <<>>, <<>>)
<1>1. PICK q \in Nat : q = Len(l) \div m
    BY SliceSound
<1> DEFINE w == [i \in 0 .. q |-> "call"]
<1>2. Busy(w) = 0 .. q
    BY DEF Busy
<1>3. Cardinality(0 .. q) = q + 1
    <2>1. 0 \in Int /\ q \in Int /\ ~(0 > q)
        OBVIOUS
    <2>2. Cardinality(0 .. q) = IF 0 > q THEN 0 ELSE q - 0 + 1
        BY <2>1, FS_Interval
    <2> QED
        BY <2>1, <2>2
<1>4. Room(Len(l), m) = q + 1
    BY <1>1 DEF Room
<1>5. w \in [DOMAIN w -> Labels] /\ DOMAIN w = 0 .. q
    BY DEF Labels
<1> HIDE DEF w
<1>6. Fan(lim, s, l, m, {}, w, <<>>, <<>>)
    BY <1>1, <1>2, <1>3, <1>4, <1>5 DEF Fan
<1> QED
    BY <1>1, <1>6 DEF w

\* The goroutines that are not through are finitely many.
LEMMA BusyFinite ==
    ASSUME NEW lim, NEW s, NEW l, NEW m, NEW g, NEW w, NEW e, NEW c, Fan(lim, s, l, m, g, w, e, c)
    PROVE  /\ IsFiniteSet(Busy(w)) /\ Cardinality(Busy(w)) \in Nat
           /\ Len(e) \in Nat /\ Len(c) \in Nat /\ Room(Len(l), m) \in Nat
<1>1. PICK q \in Nat : q = Len(l) \div m
    BY SliceSound DEF Fan
<1>2. IsFiniteSet(0 .. q)
    BY FS_Interval
<1>3. Busy(w) \subseteq 0 .. q
    BY <1>1 DEF Fan, Busy
<1>4. IsFiniteSet(Busy(w))
    BY <1>2, <1>3, FS_Subset
<1>5. Cardinality(Busy(w)) \in Nat
    BY <1>4, FS_CardinalityType
<1>6. Len(e) \in Nat /\ Len(c) \in Nat
    BY DEF Fan
<1>7. Room(Len(l), m) \in Nat
    BY <1>1 DEF Room
<1> QED
    BY <1>4, <1>5, <1>6, <1>7

\* A goroutine goes on, or ends and sends at most once.
LEMMA FanContinues ==
    ASSUME NEW lim, NEW s, NEW l, NEW m, NEW g, NEW w, NEW e, NEW c, Fan(lim, s, l, m, g, w, e, c),
           NEW i \in DOMAIN w, w[i] # "exit", NEW x \in {"retry", "fall"}
    PROVE  Fan(lim, s, l, m, g, [w EXCEPT ![i] = x], e, c)
<1> DEFINE v == [w EXCEPT ![i] = x]
<1>1. Busy(v) = Busy(w)
    BY DEF Busy
<1>2. v \in [DOMAIN v -> Labels] /\ DOMAIN v = DOMAIN w
    BY DEF Fan, Labels
<1> HIDE DEF v
<1>3. Fan(lim, s, l, m, g, v, e, c)
    BY <1>1, <1>2 DEF Fan
<1> QED
    BY <1>3 DEF v

LEMMA FanExits ==
    ASSUME NEW lim, NEW s, NEW l, NEW m, NEW g, NEW w, NEW e, NEW c, Fan(lim, s, l, m, g, w, e, c),
           NEW i \in DOMAIN w, w[i] # "exit", NEW x \in {"nil", "err"}, NEW y \in SUBSET Trending
    PROVE  /\ Fan(lim, s, l, m, g, [w EXCEPT ![i] = "exit"], Append(e, x), c)
           /\ Fan(lim, s, l, m, g, [w EXCEPT ![i] = "exit"], e, Append(c, y))
           /\ Fan(lim, s, l, m, g, [w EXCEPT ![i] = "exit"], e, c)
<1> DEFINE v == [w EXCEPT ![i] = "exit"]
<1>1. Busy(v) = Busy(w) \ {i} /\ i \in Busy(w)
    BY DEF Busy
<1>2. v \in [DOMAIN v -> Labels] /\ DOMAIN v = DOMAIN w
    BY DEF Fan, Labels
<1> HIDE DEF v
<1>3. Cardinality(Busy(v)) = Cardinality(Busy(w)) - 1
    <2>1. IsFiniteSet(Busy(w))
        BY BusyFinite
    <2>2. Cardinality(Busy(w) \ {i}) = IF i \in Busy(w) THEN Cardinality(Busy(w)) - 1
                                                      ELSE Cardinality(Busy(w))
        BY <2>1, FS_RemoveElement
    <2> QED
        BY <1>1, <2>2
<1>4. PICK k \in Nat : k = Cardinality(Busy(w))
    BY BusyFinite
<1>5. PICK n \in Nat : n = Room(Len(l), m)
    BY BusyFinite
<1>6. Append(e, x) \in Seq({"nil", "err"}) /\ Len(Append(e, x)) = Len(e) + 1
    BY DEF Fan
<1>7. Append(c, y) \in Seq(SUBSET Trending) /\ Len(Append(c, y)) = Len(c) + 1
    BY DEF Fan
<1>8. Len(e) \in Nat /\ Len(c) \in Nat /\ k + Len(e) + Len(c) <= n
    BY <1>4, <1>5, BusyFinite DEF Fan
<1>9. /\ Cardinality(Busy(v)) + Len(Append(e, x)) + Len(c) <= n
      /\ Cardinality(Busy(v)) + Len(e) + Len(Append(c, y)) <= n
      /\ Cardinality(Busy(v)) + Len(e) + Len(c) <= n
    BY <1>3, <1>4, <1>6, <1>7, <1>8
<1>10. ASSUME NEW f \in Seq({"nil", "err"}), NEW d \in Seq(SUBSET Trending),
              Cardinality(Busy(v)) + Len(f) + Len(d) <= n
       PROVE  Fan(lim, s, l, m, g, v, f, d)
    <2>1. /\ s \in Service /\ l \in Seq(Nat) /\ m \in Nat \ {0} /\ m <= lim[s] /\ g \subseteq Range(l)
          /\ DOMAIN v \in {{}, 0 .. Len(l) \div m}
        BY <1>2 DEF Fan
    <2>2. Cardinality(Busy(v)) + Len(f) + Len(d) <= Room(Len(l), m)
        BY <1>5, <1>10
    <2> QED
        BY <1>2, <2>1, <2>2 DEF Fan
<1>11. e \in Seq({"nil", "err"}) /\ c \in Seq(SUBSET Trending)
    BY DEF Fan
<1>12. Fan(lim, s, l, m, g, v, Append(e, x), c)
    BY <1>6, <1>9, <1>10, <1>11
<1>13. Fan(lim, s, l, m, g, v, e, Append(c, y))
    BY <1>7, <1>9, <1>10, <1>11
<1>14. Fan(lim, s, l, m, g, v, e, c)
    BY <1>9, <1>10, <1>11
<1> QED
    BY <1>12, <1>13, <1>14 DEF v

\* A batch brings ids of the list.
LEMMA FanGets ==
    ASSUME NEW lim, NEW s, NEW l, NEW m, NEW g, NEW w, NEW e, NEW c, Fan(lim, s, l, m, g, w, e, c),
           NEW i \in DOMAIN w
    PROVE  Fan(lim, s, l, m, g \cup Slice(l, m, i), w, e, c)
<1>1. i \in 0 .. Len(l) \div m
    BY DEF Fan
<1>2. Slice(l, m, i) \subseteq Range(l)
    BY <1>1, SliceSound DEF Fan
<1> QED
    BY <1>2 DEF Fan

-------------------------------------------------------------------------------------
(* The course of a request, if no batch of it failed for good: what its goroutines     *)
(* have brought so far, and that the two fan-outs ask for the right ids; p is where it *)
(* is, n the number of its creators.                                                   *)

Course(p, n, gave, l, m, g, w) ==
    /\ p = "users" => Range(l) = 1 .. n
    /\ ~gave /\ p \in {"users", "videos"} =>
        /\ DOMAIN w = 0 .. Len(l) \div m
        /\ \A i \in DOMAIN w : w[i] # "fall" /\ (w[i] = "exit" => Slice(l, m, i) \subseteq g)
        /\ p = "videos" => Range(l) = UNION {Likes[u] : u \in 1 .. n}

CourseInv ==
    \A r \in Request :
        Course(pc[r], subs[r], gaveUp[r], ids[r], size[r], got[r], worker[r])

\* When all goroutines of a fan-out are through, it has brought everything.
LEMMA AllBrought ==
    ASSUME FanInv, CourseInv, NEW r \in Request, AllDone(r), ~gaveUp[r],
           pc[r] \in {"users", "videos"}
    PROVE  got[r] = Range(ids[r])
<1>1. /\ ids[r] \in Seq(Nat) /\ size[r] \in Nat \ {0} /\ got[r] \subseteq Range(ids[r])
    BY DEF FanInv, Fan
<1>2. /\ DOMAIN worker[r] = 0 .. Len(ids[r]) \div size[r]
      /\ \A i \in DOMAIN worker[r] :
            worker[r][i] = "exit" => Slice(ids[r], size[r], i) \subseteq got[r]
    BY DEF CourseInv, Course
<1>3. \A x \in Range(ids[r]) :
        \E i \in 0 .. Len(ids[r]) \div size[r] : x \in Slice(ids[r], size[r], i)
    BY <1>1, SliceSound
<1> QED
    BY <1>1, <1>2, <1>3 DEF AllDone

\* The videos of the creators found are a finite set of ids.
LEMMA LikedVideos ==
    ASSUME RequestInv, FanInv, CourseInv, NEW r \in Request, pc[r] = "users"
    PROVE  LET l == SetToSeq(UNION {Likes[u] : u \in got[r]})
           IN  l \in Seq(Nat) /\ Range(l) = UNION {Likes[u] : u \in got[r]}
<1>1. got[r] \subseteq 1 .. subs[r]
    BY DEF FanInv, Fan, CourseInv, Course
<1>2. got[r] \subseteq 1 .. Creators
    BY <1>1, VideoRecAssumption DEF RequestInv
<1>3. IsFiniteSet(1 .. Creators)
    BY VideoRecAssumption, FS_Interval
<1>4. IsFiniteSet(got[r])
    BY <1>2, <1>3, FS_Subset
<1> DEFINE T == {Likes[u] : u \in got[r]}
<1>5. IsFiniteSet(T)
    <2> DEFINE f == [u \in got[r] |-> Likes[u]]
    <2>1. f \in Surjection(got[r], T)
        BY DEF Surjection
    <2> HIDE DEF f, T
    <2> QED
        BY <1>4, <2>1, FS_Surjection
<1>6. \A x \in T : IsFiniteSet(x) /\ x \subseteq Nat
    BY <1>2, VideoRecAssumption
<1> HIDE DEF T
<1>7. IsFiniteSet(UNION T) /\ UNION T \subseteq Nat
    BY <1>5, <1>6, FS_UNION
<1>8. SetToSeq(UNION T) \in Seq(Nat) /\ Range(SetToSeq(UNION T)) = UNION T
    BY <1>7, Listed
<1> QED
    BY <1>8 DEF T

KeepsOthers(r) ==
    \A q \in Request \ {r} :
        /\ svc'[q] = svc[q] /\ ids'[q] = ids[q] /\ size'[q] = size[q] /\ got'[q] = got[q]
        /\ worker'[q] = worker[q] /\ errorChan'[q] = errorChan[q]
        /\ cacheChan'[q] = cacheChan[q] /\ gaveUp'[q] = gaveUp[q]

\* What a fan-out sets.
LEMMA FanOutEffect ==
    ASSUME Domains, NEW r \in Request, NEW s \in Service, NEW l, FanOut(r, s, l), UNCHANGED gaveUp
    PROVE  /\ Domains' /\ KeepsOthers(r)
           /\ svc'[r] = s /\ ids'[r] = l /\ size'[r] = batch[s] /\ got'[r] = {}
           /\ worker'[r] = [i \in 0 .. Len(l) \div batch[s] |-> "call"]
           /\ errorChan'[r] = <<>> /\ cacheChan'[r] = <<>> /\ gaveUp'[r] = gaveUp[r]
<1> DEFINE w == [i \in 0 .. Len(l) \div batch[s] |-> "call"]
           m == batch[s]
<1>1. /\ svc' = [svc EXCEPT ![r] = s] /\ ids' = [ids EXCEPT ![r] = l]
      /\ size' = [size EXCEPT ![r] = m] /\ got' = [got EXCEPT ![r] = {}]
      /\ worker' = [worker EXCEPT ![r] = w]
      /\ errorChan' = [errorChan EXCEPT ![r] = <<>>] /\ cacheChan' = [cacheChan EXCEPT ![r] = <<>>]
    BY DEF FanOut
<1> HIDE DEF w, m
<1>2. Domains'
    BY <1>1 DEF Domains
<1>3. KeepsOthers(r)
    BY <1>1 DEF Domains, KeepsOthers
<1>4. /\ svc'[r] = s /\ ids'[r] = l /\ size'[r] = m /\ got'[r] = {} /\ worker'[r] = w
      /\ errorChan'[r] = <<>> /\ cacheChan'[r] = <<>>
    BY <1>1 DEF Domains
<1> QED
    BY <1>2, <1>3, <1>4 DEF w, m

\* What a step of goroutine i of r does to it, to what it brought, to the channels and to
\* the history.
Brings(r, i) ==
    /\ worker[r][i] \in {"call", "retry"} /\ worker'[r] = [worker[r] EXCEPT ![i] = "exit"]
    /\ got'[r] = got[r] \cup Batch(r, i) /\ errorChan'[r] = Append(errorChan[r], "nil")
    /\ cacheChan'[r] = cacheChan[r] /\ gaveUp'[r] = gaveUp[r]

Retries(r, i) ==
    /\ worker[r][i] = "call" /\ worker'[r] = [worker[r] EXCEPT ![i] = "retry"]
    /\ got'[r] = got[r] /\ errorChan'[r] = errorChan[r] /\ cacheChan'[r] = cacheChan[r]
    /\ gaveUp'[r] = gaveUp[r]

GivesUp(r, i) ==
    /\ worker[r][i] \in {"call", "retry"} /\ got'[r] = got[r] /\ cacheChan'[r] = cacheChan[r]
    /\ gaveUp'[r] = TRUE
    /\ \/ worker'[r] = [worker[r] EXCEPT ![i] = "fall"] /\ errorChan'[r] = errorChan[r]
       \/ /\ worker'[r] = [worker[r] EXCEPT ![i] = "exit"]
          /\ errorChan'[r] = Append(errorChan[r], "err")

Serves(r, i) ==
    /\ worker[r][i] = "fall" /\ worker'[r] = [worker[r] EXCEPT ![i] = "exit"]
    /\ got'[r] = got[r] /\ errorChan'[r] = errorChan[r]
    /\ cacheChan'[r] = cacheChan[r] \/ cacheChan'[r] = Append(cacheChan[r], cache)
    /\ gaveUp'[r] = gaveUp[r]

LEMMA WorkerEffect ==
    ASSUME Domains, NEW r \in Request, NEW i \in DOMAIN worker[r], Worker(r, i)
    PROVE  /\ Domains' /\ KeepsOthers(r) /\ UNCHANGED <<svc, ids, size, pc, subs, resp>>
           /\ Brings(r, i) \/ Retries(r, i) \/ GivesUp(r, i) \/ Serves(r, i)
<1>1. CASE WorkerSucceeds(r, i)
    <2>1. /\ UNCHANGED <<svc, ids, size, pc, subs, resp, cacheChan, gaveUp>>
          /\ got' = [got EXCEPT ![r] = got[r] \cup Batch(r, i)]
          /\ errorChan' = [errorChan EXCEPT ![r] = Append(errorChan[r], "nil")]
          /\ worker' = [worker EXCEPT ![r] = [worker[r] EXCEPT ![i] = "exit"]]
        BY <1>1 DEF WorkerSucceeds
    <2>2. Domains' /\ KeepsOthers(r)
        BY <2>1 DEF Domains, KeepsOthers
    <2>3. Brings(r, i)
        BY <1>1, <2>1 DEF Domains, Brings, WorkerSucceeds
    <2> QED
        BY <2>1, <2>2, <2>3
<1>2. CASE WorkerFails(r, i)
    <2>1. UNCHANGED <<svc, ids, size, pc, subs, resp, got, cacheChan>>
        BY <1>2 DEF WorkerFails
    <2>2. CASE /\ worker[r][i] = "call" /\ UNCHANGED <<errorChan, gaveUp>>
               /\ worker' = [worker EXCEPT ![r] = [worker[r] EXCEPT ![i] = "retry"]]
        <3>1. Domains' /\ KeepsOthers(r)
            BY <2>1, <2>2 DEF Domains, KeepsOthers
        <3>2. Retries(r, i)
            BY <2>1, <2>2 DEF Domains, Retries
        <3> QED
            BY <2>1, <3>1, <3>2
    <2>3. ASSUME NEW e, NEW x, LastTry(worker[r][i], "call", "retry"),
                 \/ e = errorChan[r] /\ x = "fall"
                 \/ e = Append(errorChan[r], "err") /\ x = "exit",
                 gaveUp' = [gaveUp EXCEPT ![r] = TRUE],
                 worker' = [worker EXCEPT ![r] = [worker[r] EXCEPT ![i] = x]],
                 DOMAIN errorChan' = Request, errorChan'[r] = e,
                 \A q \in Request \ {r} : errorChan'[q] = errorChan[q]
          PROVE  Domains' /\ KeepsOthers(r) /\ GivesUp(r, i)
        <3>1. Domains'
            BY <2>1, <2>3 DEF Domains
        <3>2. KeepsOthers(r)
            BY <2>1, <2>3 DEF Domains, KeepsOthers
        <3>3. worker[r][i] \in {"call", "retry"}
            BY <2>3 DEF LastTry
        <3>4. gaveUp'[r] = TRUE /\ worker'[r] = [worker[r] EXCEPT ![i] = x]
            BY <2>3 DEF Domains
        <3>5. GivesUp(r, i)
            BY <2>1, <2>3, <3>3, <3>4 DEF GivesUp
        <3> QED
            BY <3>1, <3>2, <3>5
    <2>4. CASE /\ LastTry(worker[r][i], "call", "retry")
               /\ gaveUp' = [gaveUp EXCEPT ![r] = TRUE] /\ UNCHANGED errorChan
               /\ worker' = [worker EXCEPT ![r] = [worker[r] EXCEPT ![i] = "fall"]]
        BY <2>1, <2>3, <2>4 DEF Domains
    <2>5. CASE /\ LastTry(worker[r][i], "call", "retry")
               /\ gaveUp' = [gaveUp EXCEPT ![r] = TRUE]
               /\ errorChan' = [errorChan EXCEPT ![r] = Append(errorChan[r], "err")]
               /\ worker' = [worker EXCEPT ![r] = [worker[r] EXCEPT ![i] = "exit"]]
        BY <2>1, <2>3, <2>5 DEF Domains
    <2> QED
        BY <1>2, <2>1, <2>2, <2>4, <2>5 DEF WorkerFails
<1>3. CASE WorkerFallsBack(r, i)
    <2> DEFINE c == IF cache = {} THEN cacheChan[r] ELSE Append(cacheChan[r], cache)
    <2>1. /\ UNCHANGED <<svc, ids, size, pc, subs, resp, got, errorChan, gaveUp>>
          /\ worker[r][i] = "fall"
          /\ worker' = [worker EXCEPT ![r] = [worker[r] EXCEPT ![i] = "exit"]]
          /\ cacheChan' = [cacheChan EXCEPT ![r] = c]
        BY <1>3 DEF WorkerFallsBack
    <2>2. c = cacheChan[r] \/ c = Append(cacheChan[r], cache)
        OBVIOUS
    <2> HIDE DEF c
    <2>3. Domains' /\ KeepsOthers(r)
        BY <2>1 DEF Domains, KeepsOthers
    <2>4. Serves(r, i)
        BY <2>1, <2>2 DEF Domains, Serves
    <2> QED
        BY <2>1, <2>3, <2>4
<1> QED
    BY <1>1, <1>2, <1>3 DEF Worker

\* The steps that change a fan-out.
BeginsUsers(r) ==
    /\ subs[r] > 0 /\ pc' = [pc EXCEPT ![r] = "users"] /\ UNCHANGED <<subs, gaveUp>>
    /\ FanOut(r, "user", [k \in 1 .. subs[r] |-> k])

BeginsVideos(r) ==
    /\ pc[r] = "users" /\ AllDone(r) /\ pc' = [pc EXCEPT ![r] = "videos"]
    /\ FanOut(r, "video", SetToSeq(UNION {Likes[u] : u \in got[r]}))
    /\ UNCHANGED <<subs, gaveUp>>

LEMMA FanSteps ==
    ASSUME [Next]_vars
    PROVE  \/ UNCHANGED fanVars
           \/ \E r \in Request : BeginsUsers(r) \/ BeginsVideos(r)
           \/ \E r \in Request : \E i \in DOMAIN worker[r] : Worker(r, i)
<1>1. ASSUME NEW r \in Request, Call(r) \/ Handler(r)
      PROVE  UNCHANGED fanVars \/ BeginsUsers(r) \/ BeginsVideos(r)
    <2>1. ASSUME \/ Call(r) \/ SubscriberFails(r) \/ FallBack(r) \/ UsersStale(r) \/ VideosDone(r)
          PROVE  UNCHANGED fanVars
        BY <2>1 DEF Call, SubscriberFails, FallBack, UsersStale, VideosDone
    <2>2. ASSUME SubscriberFound(r) PROVE UNCHANGED fanVars \/ BeginsUsers(r)
        BY <2>2 DEF SubscriberFound, BeginsUsers
    <2>3. ASSUME UsersDone(r) PROVE UNCHANGED fanVars \/ BeginsVideos(r)
        BY <2>3 DEF UsersDone, BeginsVideos
    <2> QED
        BY <1>1, <2>1, <2>2, <2>3 DEF Handler
<1>2. ASSUME RefreshBegins \/ Refresh PROVE UNCHANGED fanVars
    BY <1>2 DEF RefreshBegins, Refresh, NoTrending, RefreshEnds
<1>3. ASSUME NEW s \in Service, ProbeBegins(s) \/ ProbeAnswered(s) \/ ProbeExpires(s)
      PROVE  UNCHANGED fanVars
    BY <1>3 DEF ProbeBegins, ProbeAnswered, ProbeExpires
<1>4. CASE UNCHANGED vars
    BY <1>4 DEF vars
<1> QED
    BY <1>1, <1>2, <1>3, <1>4 DEF Next

\* The fan-outs of the other requests stay as they are.
LEMMA FanFocus ==
    ASSUME FanInv, NEW r \in Request, UNCHANGED limit, Domains', KeepsOthers(r),
           Fan(limit, svc'[r], ids'[r], size'[r], got'[r], worker'[r], errorChan'[r], cacheChan'[r])
    PROVE  FanInv'
<1> SUFFICES ASSUME NEW q \in Request
             PROVE  Fan(limit, svc'[q], ids'[q], size'[q], got'[q], worker'[q], errorChan'[q],
                        cacheChan'[q])
    BY DEF FanInv
<1>1. CASE q = r
    BY <1>1
<1>2. CASE q # r
    BY <1>2 DEF FanInv, KeepsOthers
<1> QED
    BY <1>1, <1>2

LEMMA FanStep ==
    ASSUME ServiceInv, CacheInv, RequestInv, FanInv, CourseInv, [Next]_vars
    PROVE  FanInv'
<1>1. UNCHANGED limit
    BY ServiceStep
<1>2. Domains
    BY DEF FanInv
<1>3. CASE UNCHANGED fanVars
    BY <1>1, <1>3 DEF FanInv, Domains, fanVars
<1>4. ASSUME NEW r \in Request, NEW s \in Service, NEW l \in Seq(Nat), FanOut(r, s, l),
             UNCHANGED gaveUp
      PROVE  FanInv'
    <2>1. batch[s] \in Nat \ {0} /\ batch[s] <= limit[s]
        BY DEF ServiceInv
    <2>2. Fan(limit, s, l, batch[s], {}, [i \in 0 .. Len(l) \div batch[s] |-> "call"], <<>>, <<>>)
        BY <2>1, FanStarts
    <2>3. /\ Domains' /\ KeepsOthers(r)
          /\ svc'[r] = s /\ ids'[r] = l /\ size'[r] = batch[s] /\ got'[r] = {}
          /\ worker'[r] = [i \in 0 .. Len(l) \div batch[s] |-> "call"]
          /\ errorChan'[r] = <<>> /\ cacheChan'[r] = <<>>
        BY <1>2, <1>4, FanOutEffect
    <2> QED
        BY <1>1, <2>2, <2>3, FanFocus
<1>5. ASSUME NEW r \in Request, BeginsUsers(r) PROVE FanInv'
    <2>1. subs[r] \in Nat
        BY VideoRecAssumption DEF RequestInv
    <2>2. [k \in 1 .. subs[r] |-> k] \in Seq(Nat)
        BY <2>1
    <2> QED
        BY <1>4, <1>5, <2>2 DEF BeginsUsers, Service
<1>6. ASSUME NEW r \in Request, BeginsVideos(r) PROVE FanInv'
    <2>1. SetToSeq(UNION {Likes[u] : u \in got[r]}) \in Seq(Nat)
        BY <1>6, LikedVideos DEF BeginsVideos
    <2> QED
        BY <1>4, <1>6, <2>1 DEF BeginsVideos, Service
<1>7. ASSUME NEW r \in Request, NEW i \in DOMAIN worker[r], Worker(r, i) PROVE FanInv'
    <2> DEFINE F(g, w, e, c) == Fan(limit, svc[r], ids[r], size[r], g, w, e, c)
    <2>1. /\ Domains' /\ KeepsOthers(r) /\ UNCHANGED <<svc, ids, size>>
          /\ Brings(r, i) \/ Retries(r, i) \/ GivesUp(r, i) \/ Serves(r, i)
        BY <1>2, <1>7, WorkerEffect
    <2>2. F(got[r], worker[r], errorChan[r], cacheChan[r])
        BY DEF FanInv
    <2>3. worker[r][i] # "exit" /\ cache \in SUBSET Trending
        BY <2>1 DEF Brings, Retries, GivesUp, Serves, CacheInv
    <2>4. ASSUME NEW x \in {"retry", "fall"}
          PROVE  F(got[r], [worker[r] EXCEPT ![i] = x], errorChan[r], cacheChan[r])
        BY <2>2, <2>3, FanContinues
    <2> DEFINE v == [worker[r] EXCEPT ![i] = "exit"]
    <2>5. ASSUME NEW x \in {"nil", "err"}
          PROVE  F(got[r], v, Append(errorChan[r], x), cacheChan[r])
        BY <2>2, <2>3, FanExits
    <2>6. /\ F(got[r], v, errorChan[r], Append(cacheChan[r], cache))
          /\ F(got[r], v, errorChan[r], cacheChan[r])
        BY <2>2, <2>3, FanExits
    <2>7. F(got[r] \cup Batch(r, i), v, Append(errorChan[r], "nil"), cacheChan[r])
        <3>1. i \in DOMAIN v
            OBVIOUS
        <3> HIDE DEF v
        <3> QED
            BY <2>5, <3>1, FanGets DEF Batch
    <2>8. F(got'[r], worker'[r], errorChan'[r], cacheChan'[r])
        <3> HIDE DEF F
        <3>1. CASE Brings(r, i)
            BY <2>7, <3>1 DEF Brings
        <3>2. CASE Retries(r, i)
            BY <2>4, <3>2 DEF Retries
        <3>3. CASE GivesUp(r, i)
            BY <2>4, <2>5, <3>3 DEF GivesUp
        <3>4. CASE Serves(r, i)
            BY <2>6, <3>4 DEF Serves
        <3> QED
            BY <2>1, <3>1, <3>2, <3>3, <3>4
    <2> QED
        BY <1>1, <2>1, <2>8, FanFocus
<1> QED
    BY <1>3, <1>5, <1>6, <1>7, FanSteps

\* Neither does the course of the others change.
LEMMA CourseFocus ==
    ASSUME CourseInv, NEW r \in Request, KeepsOthers(r),
           \A q \in Request \ {r} : pc'[q] = pc[q] /\ subs'[q] = subs[q],
           Course(pc'[r], subs'[r], gaveUp'[r], ids'[r], size'[r], got'[r], worker'[r])
    PROVE  CourseInv'
<1> SUFFICES ASSUME NEW q \in Request
             PROVE  Course(pc'[q], subs'[q], gaveUp'[q], ids'[q], size'[q], got'[q], worker'[q])
    BY DEF CourseInv
<1>1. CASE q = r
    BY <1>1
<1>2. CASE q # r
    BY <1>2 DEF CourseInv, KeepsOthers
<1> QED
    BY <1>1, <1>2

\* A step of the request itself, other than the start of a fan-out, leaves no fan-out
\* awaited that was not before.
LEMMA PlaceSteps ==
    ASSUME RequestInv, [Next]_vars, UNCHANGED fanVars
    PROVE  \A q \in Request :
             \/ UNCHANGED <<pc[q], subs[q]>>
             \/ pc'[q] \notin {"users", "videos"}
             \/ BeginsUsers(q) \/ BeginsVideos(q)
<1>1. CASE UNCHANGED <<pc, subs, resp, stats>>
    BY <1>1
<1>2. ASSUME NEW r \in Request, Call(r) \/ Handler(r)
      PROVE  /\ \A q \in Request \ {r} : pc'[q] = pc[q] /\ subs'[q] = subs[q]
             /\ pc'[r] \notin {"users", "videos"} \/ BeginsUsers(r) \/ BeginsVideos(r)
    <2>1. CASE Call(r)
        BY <2>1 DEF Call, RequestInv
    <2>2. CASE SubscriberFails(r)
        BY <2>2 DEF SubscriberFails, RequestInv
    <2>3. ASSUME NEW x, Finish(r, x), UNCHANGED subs
          PROVE  /\ \A q \in Request \ {r} : pc'[q] = pc[q] /\ subs'[q] = subs[q]
                 /\ pc'[r] \notin {"users", "videos"}
        BY <2>3 DEF Finish, RequestInv
    <2>4. CASE FallBack(r) \/ UsersStale(r) \/ VideosDone(r)
        BY <2>3, <2>4 DEF FallBack, UsersStale, VideosDone
    <2>5. CASE SubscriberFound(r)
        BY <2>5 DEF SubscriberFound, BeginsUsers, RequestInv
    <2>6. CASE UsersDone(r)
        BY <2>3, <2>6 DEF UsersDone, BeginsVideos, RequestInv
    <2> QED
        BY <1>2, <2>1, <2>2, <2>4, <2>5, <2>6 DEF Handler
<1> QED
    BY <1>1, <1>2, RequestSteps

LEMMA CourseStep ==
    ASSUME ServiceInv, CacheInv, RequestInv, FanInv, CourseInv, [Next]_vars
    PROVE  CourseInv'
<1>1. Domains
    BY DEF FanInv
<1>2. ASSUME NEW r \in Request, BeginsUsers(r) PROVE CourseInv'
    <2> DEFINE l == [k \in 1 .. subs[r] |-> k]
    <2>1. /\ KeepsOthers(r) /\ ids'[r] = l /\ size'[r] = batch["user"]
          /\ worker'[r] = [i \in 0 .. Len(l) \div batch["user"] |-> "call"]
        <3>1. FanOut(r, "user", l) /\ UNCHANGED gaveUp
            BY <1>2 DEF BeginsUsers
        <3> HIDE DEF l
        <3> QED
            BY <1>1, <3>1, FanOutEffect DEF Service
    <2>2. /\ pc'[r] = "users" /\ subs'[r] = subs[r]
          /\ \A q \in Request \ {r} : pc'[q] = pc[q] /\ subs'[q] = subs[q]
        BY <1>2 DEF BeginsUsers, RequestInv
    <2>3. Range(l) = 1 .. subs[r]
        BY DEF Range
    <2> HIDE DEF l
    <2>4. Course(pc'[r], subs'[r], gaveUp'[r], ids'[r], size'[r], got'[r], worker'[r])
        BY <2>1, <2>2, <2>3 DEF Course
    <2> QED
        BY <2>1, <2>2, <2>4, CourseFocus
<1>3. ASSUME NEW r \in Request, BeginsVideos(r) PROVE CourseInv'
    <2> DEFINE L == UNION {Likes[u] : u \in got[r]}
               l == SetToSeq(L)
    <2>1. /\ KeepsOthers(r) /\ ids'[r] = l /\ size'[r] = batch["video"]
          /\ worker'[r] = [i \in 0 .. Len(l) \div batch["video"] |-> "call"]
          /\ gaveUp'[r] = gaveUp[r]
        <3>1. FanOut(r, "video", l) /\ UNCHANGED gaveUp
            BY <1>3 DEF BeginsVideos
        <3> HIDE DEF l
        <3> QED
            BY <1>1, <3>1, FanOutEffect DEF Service
    <2>2. /\ pc'[r] = "videos" /\ subs'[r] = subs[r] /\ pc[r] = "users" /\ AllDone(r)
          /\ \A q \in Request \ {r} : pc'[q] = pc[q] /\ subs'[q] = subs[q]
        BY <1>3 DEF BeginsVideos, RequestInv
    <2>3. Range(l) = L
        BY <2>2, LikedVideos
    <2>4. ~gaveUp[r] => L = UNION {Likes[u] : u \in 1 .. subs[r]}
        <3> SUFFICES ASSUME ~gaveUp[r] PROVE got[r] = 1 .. subs[r]
            OBVIOUS
        <3>1. got[r] = Range(ids[r])
            BY <2>2, AllBrought
        <3>2. Range(ids[r]) = 1 .. subs[r]
            BY <2>2 DEF CourseInv, Course
        <3> QED
            BY <3>1, <3>2
    <2> HIDE DEF L, l
    <2>5. Course(pc'[r], subs'[r], gaveUp'[r], ids'[r], size'[r], got'[r], worker'[r])
        BY <2>1, <2>2, <2>3, <2>4 DEF Course
    <2> QED
        BY <2>1, <2>2, <2>5, CourseFocus
<1>4. ASSUME NEW r \in Request, NEW i \in DOMAIN worker[r], Worker(r, i) PROVE CourseInv'
    <2>1. /\ KeepsOthers(r) /\ UNCHANGED <<svc, ids, size, pc, subs>>
          /\ Brings(r, i) \/ Retries(r, i) \/ GivesUp(r, i) \/ Serves(r, i)
        BY <1>1, <1>4, WorkerEffect
    <2> DEFINE C(gave, g, w) == Course(pc[r], subs[r], gave, ids[r], size[r], g, w)
    <2>2. C(gaveUp[r], got[r], worker[r])
        BY DEF CourseInv
    <2>3. C(gaveUp'[r], got'[r], worker'[r])
        <3>1. CASE Brings(r, i)
            BY <2>2, <3>1 DEF Brings, Course, Batch
        <3>2. CASE Retries(r, i)
            BY <2>2, <3>2 DEF Retries, Course
        <3>3. CASE GivesUp(r, i)
            BY <2>2, <3>3 DEF GivesUp, Course
        <3>4. CASE Serves(r, i)
            BY <2>2, <3>4 DEF Serves, Course
        <3> QED
            BY <2>1, <3>1, <3>2, <3>3, <3>4
    <2> QED
        BY <2>1, <2>3, CourseFocus
<1>5. CASE UNCHANGED fanVars
    <2>1. CASE \E q \in Request : BeginsUsers(q) \/ BeginsVideos(q)
        BY <1>2, <1>3, <2>1
    <2>2. CASE ~ \E q \in Request : BeginsUsers(q) \/ BeginsVideos(q)
        <3> SUFFICES ASSUME NEW q \in Request
                     PROVE  Course(pc'[q], subs'[q], gaveUp'[q], ids'[q], size'[q], got'[q],
                                   worker'[q])
            BY DEF CourseInv
        <3>1. UNCHANGED <<pc[q], subs[q]>> \/ pc'[q] \notin {"users", "videos"}
            BY <1>5, <2>2, PlaceSteps
        <3>2. Course(pc[q], subs[q], gaveUp[q], ids[q], size[q], got[q], worker[q])
            BY DEF CourseInv
        <3>3. UNCHANGED <<gaveUp, ids, size, got, worker>>
            BY <1>5 DEF fanVars
        <3>4. CASE UNCHANGED <<pc[q], subs[q]>>
            BY <3>2, <3>3, <3>4
        <3>5. CASE pc'[q] \notin {"users", "videos"}
            BY <3>5 DEF Course
        <3> QED
            BY <3>1, <3>4, <3>5
    <2> QED
        BY <2>1, <2>2
<1> QED
    BY <1>2, <1>3, <1>4, <1>5, FanSteps

\* Where a fresh response comes from.
LEMMA FreshSteps ==
    ASSUME RequestInv, [Next]_vars
    PROVE  \A q \in Request :
             \/ resp'[q] = resp[q] /\ (subs'[q] = subs[q] \/ resp[q].kind = "none")
             \/ resp'[q].kind # "fresh"
             \/ /\ pc[q] = "videos" /\ AllDone(q) /\ resp'[q] = Fresh(got[q])
                /\ UNCHANGED <<subs, gaveUp>>
<1>1. CASE UNCHANGED <<pc, subs, resp, stats>>
    BY <1>1
<1>2. ASSUME NEW r \in Request, Call(r) \/ Handler(r)
      PROVE  /\ \A q \in Request \ {r} : resp'[q] = resp[q] /\ subs'[q] = subs[q]
             /\ \/ resp'[r] = resp[r] /\ (subs'[r] = subs[r] \/ resp[r].kind = "none")
                \/ resp'[r].kind # "fresh"
                \/ /\ pc[r] = "videos" /\ AllDone(r) /\ resp'[r] = Fresh(got[r])
                   /\ UNCHANGED <<subs, gaveUp>>
    <2>1. CASE Call(r)
        <3>1. resp[r].kind = "none"
            BY <2>1 DEF Call, RequestInv
        <3>2. Refused.kind # "fresh"
            BY DEF Refused
        <3>3. CASE resp' = [resp EXCEPT ![r] = Refused] /\ UNCHANGED subs
            BY <3>2, <3>3 DEF RequestInv
        <3>4. CASE UNCHANGED <<resp, subs>>
            BY <3>4
        <3>5. CASE UNCHANGED resp /\ \E n \in 0 .. Creators : subs' = [subs EXCEPT ![r] = n]
            BY <3>1, <3>5 DEF RequestInv
        <3> QED
            BY <2>1, <3>3, <3>4, <3>5 DEF Call
    <2>2. CASE SubscriberFails(r) \/ SubscriberFound(r)
        BY <2>2 DEF SubscriberFails, SubscriberFound
    <2>3. ASSUME NEW x, Finish(r, x), UNCHANGED subs
          PROVE  /\ \A q \in Request \ {r} : resp'[q] = resp[q] /\ subs'[q] = subs[q]
                 /\ resp'[r] = x
        BY <2>3 DEF Finish, RequestInv
    <2>4. ASSUME NEW x, Finish(r, x), UNCHANGED subs, x.kind # "fresh"
          PROVE  /\ \A q \in Request \ {r} : resp'[q] = resp[q] /\ subs'[q] = subs[q]
                 /\ resp'[r].kind # "fresh"
        BY <2>3, <2>4
    <2>5. CASE FallBack(r)
        <3> DEFINE x == IF opt.fallback /\ cache # {} THEN Stale(cache) ELSE Error
        <3>1. x.kind # "fresh"
            BY DEF Stale, Error
        <3>2. Finish(r, x) /\ UNCHANGED subs
            BY <2>5 DEF FallBack
        <3> HIDE DEF x
        <3> QED
            BY <2>4, <3>1, <3>2
    <2>6. ASSUME Finish(r, Stale(Head(cacheChan[r]))) \/ Finish(r, Error), UNCHANGED subs
          PROVE  /\ \A q \in Request \ {r} : resp'[q] = resp[q] /\ subs'[q] = subs[q]
                 /\ resp'[r].kind # "fresh"
        <3>1. Error.kind # "fresh" /\ Stale(Head(cacheChan[r])).kind # "fresh"
            BY DEF Stale, Error
        <3> QED
            BY <2>4, <2>6, <3>1
    <2>7. CASE UsersStale(r)
        BY <2>6, <2>7 DEF UsersStale
    <2>8. CASE UsersDone(r)
        BY <2>6, <2>8 DEF UsersDone
    <2>9. CASE VideosDone(r)
        <3>1. /\ pc[r] = "videos" /\ AllDone(r) /\ UNCHANGED <<subs, gaveUp>>
              /\ \/ Finish(r, Stale(Head(cacheChan[r]))) \/ Finish(r, Error)
                 \/ Finish(r, Fresh(got[r]))
            BY <2>9 DEF VideosDone, fanVars
        <3> QED
            BY <2>3, <2>6, <3>1
    <2> QED
        BY <1>2, <2>1, <2>2, <2>5, <2>7, <2>8, <2>9 DEF Handler
<1> QED
    BY <1>1, <1>2, RequestSteps

\* A batch that was given up stays given up.
LEMMA GaveUpStays ==
    ASSUME FanInv, [Next]_vars, NEW q \in Request, gaveUp[q]
    PROVE  gaveUp'[q]
<1>1. Domains
    BY DEF FanInv
<1>2. ASSUME NEW r \in Request, NEW i \in DOMAIN worker[r], Worker(r, i) PROVE gaveUp'[q]
    <2>1. /\ KeepsOthers(r)
          /\ Brings(r, i) \/ Retries(r, i) \/ GivesUp(r, i) \/ Serves(r, i)
        BY <1>1, <1>2, WorkerEffect
    <2> QED
        BY <2>1 DEF KeepsOthers, Brings, Retries, GivesUp, Serves
<1> QED
    BY <1>2, FanSteps DEF fanVars, BeginsUsers, BeginsVideos

LEMMA ServedStep ==
    ASSUME RequestInv, FanInv, CourseInv, ServedIsComplete, [Next]_vars
    PROVE  ServedIsComplete'
<1> SUFFICES ASSUME NEW q \in Request, resp'[q].kind = "fresh", ~gaveUp'[q]
             PROVE  resp'[q].videos = UNION {Likes[u] : u \in 1 .. subs'[q]}
    BY DEF ServedIsComplete, Wanted
<1>1. ~gaveUp[q]
    BY GaveUpStays
<1>2. CASE resp'[q] = resp[q] /\ (subs'[q] = subs[q] \/ resp[q].kind = "none")
    BY <1>1, <1>2 DEF ServedIsComplete, Wanted
<1>3. CASE pc[q] = "videos" /\ AllDone(q) /\ resp'[q] = Fresh(got[q]) /\ UNCHANGED subs
    <2>1. got[q] = Range(ids[q])
        BY <1>1, <1>3, AllBrought
    <2>2. Range(ids[q]) = UNION {Likes[u] : u \in 1 .. subs[q]}
        BY <1>1, <1>3 DEF CourseInv, Course
    <2>3. resp'[q].videos = got[q]
        BY <1>3 DEF Fresh
    <2> QED
        BY <1>3, <2>1, <2>2, <2>3
<1> QED
    BY <1>2, <1>3, FreshSteps

-------------------------------------------------------------------------------------
(* The counters.                                                                      *)

Failed == {r \in Request : pc[r] = "fall" \/ resp[r].kind \in {"stale", "error"}}
StaleOnes == {r \in Request : resp[r].kind = "stale"}
Inside == {r \in Request : pc[r] \notin {"idle", "done"}}

Stats == [TotalRequests : Nat, ActiveRequests : Nat, StaleResponses : Nat]

ErrorInv ==
    /\ totalErrors \in Nat /\ IsFiniteSet(Failed)
    /\ totalErrors = refreshErrors + Cardinality(Failed)

StatsInv ==
    /\ stats \in Stats /\ IsFiniteSet(StaleOnes) /\ IsFiniteSet(Inside)
    /\ stats.StaleResponses = Cardinality(StaleOnes)
    /\ stats.ActiveRequests = Cardinality(Inside)

LEMMA Grows ==
    ASSUME NEW S, IsFiniteSet(S), NEW x, x \notin S
    PROVE  /\ IsFiniteSet(S \cup {x}) /\ Cardinality(S) \in Nat
           /\ Cardinality(S \cup {x}) = Cardinality(S) + 1
BY FS_AddElement, FS_CardinalityType

LEMMA Shrinks ==
    ASSUME NEW S, IsFiniteSet(S), NEW x \in S
    PROVE  /\ IsFiniteSet(S \ {x}) /\ Cardinality(S) \in Nat
           /\ Cardinality(S \ {x}) = Cardinality(S) - 1
BY FS_RemoveElement, FS_CardinalityType

\* One request more has failed.
LEMMA OneMore ==
    ASSUME CacheInv, ErrorInv, NEW r, r \notin Failed, Failed' = Failed \cup {r},
           totalErrors' = totalErrors + 1, UNCHANGED refreshErrors
    PROVE  ErrorInv'
<1>1. /\ IsFiniteSet(Failed') /\ Cardinality(Failed) \in Nat
      /\ Cardinality(Failed') = Cardinality(Failed) + 1
    BY Grows DEF ErrorInv
<1>2. PICK k \in Nat : k = Cardinality(Failed)
    BY <1>1
<1> HIDE DEF Failed
<1>3. totalErrors' \in Nat /\ totalErrors' = refreshErrors' + (k + 1)
    BY <1>2 DEF ErrorInv, CacheInv
<1> QED
    BY <1>1, <1>2, <1>3 DEF ErrorInv

LEMMA ErrorStep ==
    ASSUME CacheInv, RequestInv, ErrorInv, [Next]_vars
    PROVE  ErrorInv'
<1>1. ASSUME Failed' = Failed, UNCHANGED <<totalErrors, refreshErrors>> PROVE ErrorInv'
    BY <1>1 DEF ErrorInv
<1>2. ASSUME NEW r \in Request, Finish(r, Stale(Head(cacheChan[r]))) \/ Finish(r, Error),
             pc[r] \in {"users", "videos"}, totalErrors' = totalErrors + 1,
             UNCHANGED refreshErrors
      PROVE  ErrorInv'
    <2>1. PICK x : x.kind \in {"stale", "error"} /\ Finish(r, x)
        BY <1>2 DEF Stale, Error
    <2>2. pc' = [pc EXCEPT ![r] = "done"] /\ resp' = [resp EXCEPT ![r] = x]
        BY <2>1 DEF Finish
    <2>3. r \notin Failed
        BY <1>2 DEF Failed, RequestInv
    <2>4. Failed' = Failed \cup {r}
        BY <2>1, <2>2 DEF Failed, RequestInv
    <2> QED
        BY <1>2, <2>3, <2>4, OneMore
<1>3. ASSUME NEW r \in Request, pc[r] \in {"idle", "subscriber", "subscriberRetry"},
             pc' = [pc EXCEPT ![r] = "fall"], UNCHANGED <<resp, refreshErrors>>,
             totalErrors' = totalErrors + 1
      PROVE  ErrorInv'
    <2>1. r \notin Failed /\ Failed' = Failed \cup {r}
        BY <1>3 DEF Failed, RequestInv
    <2> QED
        BY <1>3, <2>1, OneMore
<1>4. ASSUME NEW r \in Request, NEW x \in {"subscriber", "subscriberRetry", "users", "videos"},
             pc[r] # "fall", pc' = [pc EXCEPT ![r] = x],
             UNCHANGED <<resp, totalErrors, refreshErrors>>
      PROVE  ErrorInv'
    <2>1. Failed' = Failed
        BY <1>4 DEF Failed, RequestInv
    <2> QED
        BY <1>1, <1>4, <2>1
<1>5. ASSUME NEW r \in Request, Call(r) PROVE ErrorInv'
    <2>1. pc[r] = "idle" /\ UNCHANGED refreshErrors
        BY <1>5 DEF Call, cacheVars
    <2>2. CASE /\ pc' = [pc EXCEPT ![r] = "done"] /\ resp' = [resp EXCEPT ![r] = Refused]
               /\ UNCHANGED totalErrors
        <3>1. Refused.kind = "refused" /\ resp[r].kind = "none"
            BY <2>1 DEF Refused, RequestInv
        <3>2. Failed' = Failed
            BY <2>1, <2>2, <3>1 DEF Failed, RequestInv
        <3> QED
            BY <1>1, <2>1, <2>2, <3>2
    <2>3. CASE pc' = [pc EXCEPT ![r] = "fall"] /\ UNCHANGED resp /\ totalErrors' = totalErrors + 1
        BY <1>3, <2>1, <2>3
    <2>4. CASE pc' = [pc EXCEPT ![r] = "subscriber"] /\ UNCHANGED <<resp, totalErrors>>
        BY <1>4, <2>1, <2>4
    <2> QED
        BY <1>5, <2>2, <2>3, <2>4 DEF Call
<1>6. ASSUME NEW r \in Request, SubscriberFound(r) \/ SubscriberFails(r) PROVE ErrorInv'
    <2>1. /\ pc[r] \in {"subscriber", "subscriberRetry"} /\ UNCHANGED <<resp, refreshErrors>>
        BY <1>6 DEF SubscriberFound, SubscriberFails, LastTry, cacheVars
    <2>2. CASE pc' = [pc EXCEPT ![r] = "fall"] /\ totalErrors' = totalErrors + 1
        BY <1>3, <2>1, <2>2
    <2>3. CASE pc' = [pc EXCEPT ![r] = "users"] /\ UNCHANGED totalErrors
        BY <1>4, <2>1, <2>3
    <2>4. CASE pc' = [pc EXCEPT ![r] = "subscriberRetry"] /\ UNCHANGED totalErrors
        BY <1>4, <2>1, <2>4
    <2> QED
        BY <1>6, <2>2, <2>3, <2>4 DEF SubscriberFound, SubscriberFails
<1>7. ASSUME NEW r \in Request, FallBack(r) PROVE ErrorInv'
    <2> DEFINE x == IF opt.fallback /\ cache # {} THEN Stale(cache) ELSE Error
    <2>1. x.kind \in {"stale", "error"}
        BY DEF Stale, Error
    <2>2. /\ pc[r] = "fall" /\ UNCHANGED <<totalErrors, refreshErrors>> /\ Finish(r, x)
        BY <1>7 DEF FallBack, cacheVars
    <2> HIDE DEF x
    <2>3. Failed' = Failed
        BY <2>1, <2>2 DEF Finish, Failed, RequestInv
    <2> QED
        BY <1>1, <2>2, <2>3
<1>8. ASSUME NEW r \in Request, UsersStale(r) PROVE ErrorInv'
    BY <1>2, <1>8 DEF UsersStale, cacheVars
<1>9. ASSUME NEW r \in Request, UsersDone(r) PROVE ErrorInv'
    BY <1>2, <1>4, <1>9 DEF UsersDone, cacheVars
<1>10. ASSUME NEW r \in Request, VideosDone(r) PROVE ErrorInv'
    <2>1. pc[r] = "videos" /\ UNCHANGED refreshErrors
        BY <1>10 DEF VideosDone, cacheVars
    <2>2. CASE Finish(r, Fresh(got[r])) /\ UNCHANGED totalErrors
        <3>1. Fresh(got[r]).kind = "fresh" /\ resp[r].kind = "none"
            BY <2>1 DEF Fresh, RequestInv
        <3>2. Failed' = Failed
            BY <2>1, <2>2, <3>1 DEF Finish, Failed, RequestInv
        <3> QED
            BY <1>1, <2>1, <2>2, <3>2
    <2> QED
        BY <1>2, <1>10, <2>1, <2>2 DEF VideosDone
<1>11. ASSUME NEW k \in Nat, UNCHANGED <<pc, resp>>, totalErrors' = totalErrors + k,
              refreshErrors' = refreshErrors + k
       PROVE  ErrorInv'
    <2>1. Failed' = Failed
        BY <1>11 DEF Failed
    <2>2. PICK c \in Nat : c = Cardinality(Failed)
        BY FS_CardinalityType DEF ErrorInv
    <2>3. totalErrors' \in Nat /\ totalErrors' = refreshErrors' + c
        BY <1>11, <2>2 DEF ErrorInv, CacheInv
    <2> QED
        BY <2>1, <2>2, <2>3 DEF ErrorInv
<1>12. ASSUME Refresh PROVE ErrorInv'
    <2>1. CASE NoTrending
        BY <1>11, <2>1 DEF NoTrending
    <2>2. ASSUME NEW lost \in SUBSET Losable, RefreshEnds(lost) PROVE ErrorInv'
        <3>1. Cardinality(lost) \in Nat
            BY <2>2, Refreshed
        <3> QED
            BY <1>11, <2>2, <3>1 DEF RefreshEnds
    <2> QED
        BY <1>12, <2>1, <2>2 DEF Refresh
<1>13. ASSUME UNCHANGED <<pc, resp, totalErrors, refreshErrors>> PROVE ErrorInv'
    BY <1>1, <1>13 DEF Failed
<1>14. ASSUME NEW r \in Request, NEW i \in DOMAIN worker[r], Worker(r, i) PROVE ErrorInv'
    BY <1>13, <1>14 DEF Worker, WorkerSucceeds, WorkerFails, WorkerFallsBack, cacheVars
<1>15. ASSUME RefreshBegins PROVE ErrorInv'
    BY <1>13, <1>15 DEF RefreshBegins
<1>16. ASSUME NEW s \in Service, ProbeBegins(s) \/ ProbeAnswered(s) \/ ProbeExpires(s)
       PROVE  ErrorInv'
    BY <1>13, <1>16 DEF ProbeBegins, ProbeAnswered, ProbeExpires, cacheVars
<1>17. CASE UNCHANGED vars
    BY <1>13, <1>17 DEF vars, cacheVars
<1> QED
    BY <1>5, <1>6, <1>7, <1>8, <1>9, <1>10, <1>12, <1>14, <1>15, <1>16, <1>17 DEF Next, Handler

\* A request enters.
LEMMA OneEnters ==
    ASSUME RequestInv, StatsInv, NEW r \in Request, pc[r] = "idle",
           NEW x \in {"fall", "subscriber"}, pc' = [pc EXCEPT ![r] = x], UNCHANGED resp,
           stats' = [stats EXCEPT !.TotalRequests = @ + 1, !.ActiveRequests = @ + 1]
    PROVE  StatsInv'
<1>1. StaleOnes' = StaleOnes
    BY DEF StaleOnes
<1>2. r \notin Inside /\ Inside' = Inside \cup {r}
    BY DEF Inside, RequestInv
<1>3. /\ IsFiniteSet(Inside') /\ Cardinality(Inside) \in Nat
      /\ Cardinality(Inside') = Cardinality(Inside) + 1
    BY <1>2, Grows DEF StatsInv
<1>4. /\ stats' \in Stats /\ stats'.StaleResponses = stats.StaleResponses
      /\ stats'.ActiveRequests = stats.ActiveRequests + 1
    <2>1. PICK s \in Stats : s = stats
        BY DEF StatsInv
    <2>2. PICK a \in Nat : a = s.ActiveRequests
        BY DEF Stats
    <2>3. PICK b \in Nat : b = s.TotalRequests
        BY DEF Stats
    <2>4. stats' = [s EXCEPT !.TotalRequests = b + 1, !.ActiveRequests = a + 1]
        BY <2>1, <2>2, <2>3
    <2>5. a + 1 \in Nat /\ b + 1 \in Nat
        OBVIOUS
    <2> QED
        BY <2>1, <2>2, <2>4, <2>5 DEF Stats
<1> QED
    BY <1>1, <1>3, <1>4 DEF StatsInv

\* A request leaves: it was inside and had no response.
LEMMA OneLeaves ==
    ASSUME RequestInv, StatsInv, NEW r \in Request, r \in Inside, NEW x, Finish(r, x)
    PROVE  StatsInv'
<1>1. /\ pc' = [pc EXCEPT ![r] = "done"] /\ resp' = [resp EXCEPT ![r] = x]
      /\ stats' = [stats EXCEPT !.ActiveRequests = @ - 1,
                                !.StaleResponses = IF x.kind = "stale" THEN @ + 1 ELSE @]
    BY DEF Finish
<1>2. Inside' = Inside \ {r}
    BY <1>1 DEF Inside, RequestInv
<1>3. /\ IsFiniteSet(Inside') /\ Cardinality(Inside) \in Nat /\ Cardinality(Inside') \in Nat
      /\ Cardinality(Inside') = Cardinality(Inside) - 1
    <2>1. IsFiniteSet(Inside \ {r}) /\ Cardinality(Inside) \in Nat
        BY Shrinks DEF StatsInv
    <2>2. Cardinality(Inside \ {r}) = Cardinality(Inside) - 1
        BY Shrinks DEF StatsInv
    <2>3. Cardinality(Inside \ {r}) \in Nat
        BY <2>1, FS_CardinalityType
    <2> QED
        BY <1>2, <2>1, <2>2, <2>3
<1>4. r \notin StaleOnes
    BY DEF StaleOnes, Inside, RequestInv
<1>5. /\ IsFiniteSet(StaleOnes') /\ Cardinality(StaleOnes) \in Nat /\ Cardinality(StaleOnes') \in Nat
      /\ Cardinality(StaleOnes') = IF x.kind = "stale" THEN Cardinality(StaleOnes) + 1
                                                      ELSE Cardinality(StaleOnes)
    <2>1. CASE x.kind = "stale"
        <3>1. StaleOnes' = StaleOnes \cup {r}
            BY <1>1, <2>1 DEF StaleOnes, RequestInv
        <3>2. /\ IsFiniteSet(StaleOnes \cup {r}) /\ Cardinality(StaleOnes) \in Nat
              /\ Cardinality(StaleOnes \cup {r}) = Cardinality(StaleOnes) + 1
            BY <1>4, Grows DEF StatsInv
        <3> QED
            BY <2>1, <3>1, <3>2
    <2>2. CASE x.kind # "stale"
        <3>1. StaleOnes' = StaleOnes
            BY <1>1, <1>4, <2>2 DEF StaleOnes, RequestInv
        <3>2. Cardinality(StaleOnes) \in Nat
            BY FS_CardinalityType DEF StatsInv
        <3> QED
            BY <2>2, <3>1, <3>2 DEF StatsInv
    <2> QED
        BY <2>1, <2>2
<1> DEFINE stale == IF x.kind = "stale" THEN stats.StaleResponses + 1 ELSE stats.StaleResponses
<1>6. stats' = [stats EXCEPT !.ActiveRequests = @ - 1, !.StaleResponses = stale]
    BY <1>1
<1>7. stale = Cardinality(StaleOnes') /\ stats.ActiveRequests - 1 = Cardinality(Inside')
    BY <1>3, <1>5 DEF StatsInv
<1> HIDE DEF stale
<1>8. /\ stats' \in Stats /\ stats'.StaleResponses = stale
      /\ stats'.ActiveRequests = stats.ActiveRequests - 1
    <2>1. stale \in Nat /\ stats.ActiveRequests - 1 \in Nat
        BY <1>3, <1>5, <1>7
    <2> QED
        BY <1>6, <2>1 DEF StatsInv, Stats
<1> QED
    BY <1>3, <1>5, <1>7, <1>8 DEF StatsInv

LEMMA StatsStep ==
    ASSUME RequestInv, StatsInv, [Next]_vars
    PROVE  StatsInv'
<1>1. ASSUME Inside' = Inside, StaleOnes' = StaleOnes, UNCHANGED stats PROVE StatsInv'
    BY <1>1 DEF StatsInv
<1>2. CASE UNCHANGED <<pc, subs, resp, stats>>
    BY <1>1, <1>2 DEF Inside, StaleOnes
<1>3. ASSUME NEW r \in Request, Call(r) PROVE StatsInv'
    <2>1. pc[r] = "idle"
        BY <1>3 DEF Call
    <2>2. CASE /\ pc' = [pc EXCEPT ![r] = "done"] /\ resp' = [resp EXCEPT ![r] = Refused]
               /\ stats' = [stats EXCEPT !.TotalRequests = @ + 1]
        <3>1. Refused.kind = "refused" /\ resp[r].kind = "none"
            BY <2>1 DEF Refused, RequestInv
        <3>2. Inside' = Inside /\ StaleOnes' = StaleOnes
            BY <2>1, <2>2, <3>1 DEF Inside, StaleOnes, RequestInv
        <3>3. /\ stats' \in Stats /\ stats'.StaleResponses = stats.StaleResponses
              /\ stats'.ActiveRequests = stats.ActiveRequests
            BY <2>2 DEF StatsInv, Stats
        <3> QED
            BY <3>2, <3>3 DEF StatsInv
    <2>3. CASE /\ \E x \in {"fall", "subscriber"} : pc' = [pc EXCEPT ![r] = x]
               /\ UNCHANGED resp
               /\ stats' = [stats EXCEPT !.TotalRequests = @ + 1, !.ActiveRequests = @ + 1]
        BY <2>1, <2>3, OneEnters
    <2> QED
        BY <1>3, <2>2, <2>3 DEF Call
<1>4. ASSUME NEW r \in Request, r \in Inside,
             NEW x \in {"fall", "users", "videos", "subscriberRetry"},
             pc' = [pc EXCEPT ![r] = x], UNCHANGED <<resp, stats>>
      PROVE  StatsInv'
    <2>1. Inside' = Inside /\ StaleOnes' = StaleOnes
        BY <1>4 DEF Inside, StaleOnes, RequestInv
    <2> QED
        BY <1>1, <1>4, <2>1
<1>5. ASSUME NEW r \in Request, SubscriberFound(r) \/ SubscriberFails(r) PROVE StatsInv'
    <2>1. r \in Inside /\ UNCHANGED <<resp, stats>>
        BY <1>5 DEF SubscriberFound, SubscriberFails, LastTry, Inside
    <2>2. \E x \in {"fall", "users", "subscriberRetry"} : pc' = [pc EXCEPT ![r] = x]
        BY <1>5 DEF SubscriberFound, SubscriberFails
    <2> QED
        BY <1>4, <2>1, <2>2
<1>6. ASSUME NEW r \in Request, FallBack(r) PROVE StatsInv'
    <2>1. r \in Inside /\ \E x : Finish(r, x)
        BY <1>6 DEF FallBack, Inside
    <2> QED
        BY <2>1, OneLeaves
<1>7. ASSUME NEW r \in Request, UsersStale(r) PROVE StatsInv'
    <2>1. r \in Inside /\ \E x : Finish(r, x)
        BY <1>7 DEF UsersStale, Inside
    <2> QED
        BY <2>1, OneLeaves
<1>8. ASSUME NEW r \in Request, UsersDone(r) PROVE StatsInv'
    <2>1. r \in Inside
        BY <1>8 DEF UsersDone, Inside
    <2>2. \/ \E x : Finish(r, x)
          \/ pc' = [pc EXCEPT ![r] = "videos"] /\ UNCHANGED <<resp, stats>>
        BY <1>8 DEF UsersDone
    <2> QED
        BY <1>4, <2>1, <2>2, OneLeaves
<1>9. ASSUME NEW r \in Request, VideosDone(r) PROVE StatsInv'
    <2>1. r \in Inside /\ \E x : Finish(r, x)
        BY <1>9 DEF VideosDone, Inside
    <2> QED
        BY <2>1, OneLeaves
<1> QED
    BY <1>2, <1>3, <1>5, <1>6, <1>7, <1>8, <1>9, RequestSteps DEF Handler

-------------------------------------------------------------------------------------
(* However many requests there are, finitely many have been refused.                  *)

RefusedOnes == {r \in Request : resp[r].kind = "refused"}

RefusedInv == IsFiniteSet(RefusedOnes)

LEMMA RefusedStep ==
    ASSUME RequestInv, RefusedInv, [Next]_vars
    PROVE  RefusedInv'
<1>1. ASSUME UNCHANGED resp PROVE RefusedInv'
    BY <1>1 DEF RefusedInv, RefusedOnes
<1>2. ASSUME NEW r \in Request, NEW x, resp' = [resp EXCEPT ![r] = x] PROVE RefusedInv'
    <2>1. RefusedOnes' \subseteq RefusedOnes \cup {r}
        BY <1>2 DEF RefusedOnes, RequestInv
    <2>2. IsFiniteSet(RefusedOnes \cup {r})
        BY FS_AddElement DEF RefusedInv
    <2> QED
        BY <2>1, <2>2, FS_Subset DEF RefusedInv
<1>3. ASSUME NEW r \in Request, Call(r) PROVE RefusedInv'
    BY <1>1, <1>2, <1>3 DEF Call
<1>4. ASSUME NEW r \in Request, Handler(r) PROVE RefusedInv'
    <2>1. CASE SubscriberFound(r) \/ SubscriberFails(r)
        BY <1>1, <2>1 DEF SubscriberFound, SubscriberFails
    <2>2. CASE FallBack(r) \/ UsersStale(r) \/ UsersDone(r) \/ VideosDone(r)
        BY <1>1, <1>2, <2>2 DEF FallBack, UsersStale, UsersDone, VideosDone, Finish
    <2> QED
        BY <1>4, <2>1, <2>2 DEF Handler
<1>5. ASSUME NEW r \in Request, NEW i \in DOMAIN worker[r], Worker(r, i) PROVE RefusedInv'
    BY <1>1, <1>5 DEF Worker, WorkerSucceeds, WorkerFails, WorkerFallsBack
<1>6. ASSUME RefreshBegins \/ Refresh PROVE RefusedInv'
    BY <1>1, <1>6 DEF RefreshBegins, Refresh, NoTrending, RefreshEnds
<1>7. ASSUME NEW s \in Service, ProbeBegins(s) \/ ProbeAnswered(s) \/ ProbeExpires(s)
      PROVE  RefusedInv'
    BY <1>1, <1>7 DEF ProbeBegins, ProbeAnswered, ProbeExpires
<1>8. CASE UNCHANGED vars
    BY <1>1, <1>8 DEF vars
<1> QED
    BY <1>3, <1>4, <1>5, <1>6, <1>7, <1>8 DEF Next

-------------------------------------------------------------------------------------
(* The inductive invariant.                                                           *)

Inv ==
    /\ ServiceInv /\ CacheInv /\ PoolInv /\ RequestInv /\ FanInv /\ CourseInv
    /\ ServedIsComplete /\ ErrorInv /\ StatsInv /\ RefusedInv

LEMMA InitInv ==
    ASSUME Init
    PROVE  Inv
<1>1. ServiceInv
    <2>1. limit \in [Service -> Nat \ {0}]
        BY VideoRecAssumption DEF Init
    <2>2. \A s \in Service : 1 <= limit[s]
        BY <2>1
    <2> QED
        BY <2>2 DEF Init, ServiceInv, Probing
<1>2. CacheInv
    <2>1. locked \in BOOLEAN
        BY DEF Init
    <2> QED
        BY <2>1 DEF Init, CacheInv
<1>3. PoolInv
    <2>1. PICK n \in Nat \ {0} : n = ClientPoolSize
        BY PoolSize
    <2> DEFINE p == [index |-> 0, uses |-> [i \in 0 .. n - 1 |-> 0]]
    <2>2. p \in [index : Nat, uses : [0 .. n - 1 -> Nat]]
        OBVIOUS
    <2>3. 0 % n = 0
        OBVIOUS
    <2>4. \A i \in 0 .. n - 1 : p.uses[i] = IF 1 <= i /\ i <= p.index % n THEN 0 + 1 ELSE 0
        BY <2>3
    <2>5. Turns(p, n)
        BY <2>2, <2>4 DEF Turns
    <2>6. pool = [s \in Service |-> p]
        BY <2>1 DEF Init
    <2> HIDE DEF p
    <2> QED
        BY <2>1, <2>5, <2>6 DEF PoolInv
<1>4. RequestInv
    BY VideoRecAssumption DEF Init, RequestInv, Places, Kinds, NoResponse
<1>5. FanInv
    <2>1. gaveUp \in [Request -> BOOLEAN]
        BY DEF Init
    <2>2. Domains
        BY <2>1 DEF Init, Domains, Service
    <2>3. ASSUME NEW r \in Request
          PROVE  Fan(limit, svc[r], ids[r], size[r], got[r], worker[r], errorChan[r], cacheChan[r])
        <3> DEFINE w == [i \in {} |-> "exit"]
        <3>1. /\ svc[r] = "user" /\ ids[r] = <<>> /\ size[r] = 1 /\ got[r] = {} /\ worker[r] = w
              /\ errorChan[r] = <<>> /\ cacheChan[r] = <<>>
            BY DEF Init
        <3>2. DOMAIN w = {} /\ w \in [DOMAIN w -> Labels]
            OBVIOUS
        <3>3. Busy(w) = {}
            BY DEF Busy
        <3> HIDE DEF w
        <3>4. Cardinality(Busy(w)) = 0
            BY <3>3, FS_EmptySet
        <3>5. limit["user"] \in Nat \ {0}
            BY <1>1, LimitType DEF Service
        <3>6. Room(0, 1) = 1
            BY DEF Room
        <3>7. Fan(limit, "user", <<>>, 1, {}, w, <<>>, <<>>)
            BY <3>2, <3>4, <3>5, <3>6 DEF Fan, Service
        <3> QED
            BY <3>1, <3>7
    <2> QED
        BY <2>2, <2>3 DEF FanInv
<1>6. CourseInv
    BY DEF Init, CourseInv, Course
<1>7. ServedIsComplete
    BY DEF Init, ServedIsComplete, NoResponse
<1>8. ErrorInv
    <2>1. Failed = {}
        BY DEF Init, Failed, NoResponse
    <2> QED
        BY <2>1, FS_EmptySet DEF Init, ErrorInv
<1>9. StatsInv
    <2>1. StaleOnes = {} /\ Inside = {}
        BY DEF Init, StaleOnes, Inside, NoResponse
    <2> QED
        BY <2>1, FS_EmptySet DEF Init, StatsInv, Stats
<1>10. RefusedInv
    <2>1. RefusedOnes = {}
        BY DEF Init, RefusedOnes, NoResponse
    <2> QED
        BY <2>1, FS_EmptySet DEF RefusedInv
<1> QED
    BY <1>1, <1>2, <1>3, <1>4, <1>5, <1>6, <1>7, <1>8, <1>9, <1>10 DEF Inv

LEMMA InvStep ==
    ASSUME Inv, [Next]_vars
    PROVE  Inv'
<1>1. ServiceInv /\ CacheInv /\ PoolInv /\ RequestInv /\ FanInv /\ CourseInv
    BY DEF Inv
<1>2. ServedIsComplete /\ ErrorInv /\ StatsInv /\ RefusedInv
    BY DEF Inv
<1>3. ServiceInv' /\ CacheInv' /\ PoolInv' /\ RequestInv'
    BY <1>1, ServiceStep, CacheStep, PoolStep, RequestStep
<1>4. FanInv' /\ CourseInv'
    BY <1>1, FanStep, CourseStep
<1>5. ServedIsComplete' /\ ErrorInv' /\ StatsInv' /\ RefusedInv'
    BY <1>1, <1>2, ServedStep, ErrorStep, StatsStep, RefusedStep
<1> QED
    BY <1>3, <1>4, <1>5 DEF Inv

\* The inductive invariant holds in every state of the service.
THEOREM Invariance == Spec => []Inv
<1>1. Init => Inv
    BY InitInv
<1>2. Inv /\ [Next]_vars => Inv'
    BY InvStep
<1> QED
    BY <1>1, <1>2, PTL DEF Spec

LEMMA FanOutIsSound ==
    ASSUME Inv
    PROVE  FanOutSound
<1>1. ServiceInv /\ CacheInv /\ RequestInv /\ FanInv /\ ErrorInv /\ StatsInv
    BY DEF Inv
<1>2. ASSUME NEW r \in Request
      PROVE  Fan(limit, svc[r], ids[r], size[r], got[r], worker[r], errorChan[r], cacheChan[r])
    BY <1>1 DEF FanInv
<1>3. TypeOK
    <2>1. /\ opt \in Options /\ limit \in Limits /\ batch \in [Service -> Nat \ {0}]
          /\ probe \in [Service -> {"new", "probing", "expired", "learnt", "ended"}]
        BY <1>1 DEF ServiceInv, Probing
    <2>2. stats \in [TotalRequests : Nat, ActiveRequests : Nat, StaleResponses : Nat]
        BY <1>1 DEF StatsInv, Stats
    <2>3. /\ cache \subseteq Trending /\ locked \in BOOLEAN /\ refreshSize \in Nat \ {0}
          /\ {refreshes, totalErrors, refreshErrors} \subseteq Nat
        BY <1>1 DEF CacheInv, ErrorInv
    <2>4. /\ pc \in [Request -> {"idle", "subscriber", "subscriberRetry", "fall", "users", "videos",
                                 "done"}]
          /\ subs \in [Request -> 0 .. Creators]
        BY <1>1 DEF RequestInv, Places
    <2>5. svc \in [Request -> Service]
        BY <1>1, <1>2 DEF Fan, FanInv, Domains
    <2>6. ASSUME NEW r \in Request
          PROVE  /\ ids[r] \in Seq(Nat) /\ size[r] \in Nat \ {0} /\ got[r] \subseteq Range(ids[r])
                 /\ \A i \in DOMAIN worker[r] : worker[r][i] \in {"call", "retry", "fall", "exit"}
                 /\ errorChan[r] \in Seq({"nil", "err"}) /\ cacheChan[r] \in Seq(SUBSET Trending)
                 /\ resp[r].kind \in {"none", "fresh", "stale", "error", "refused"}
        BY <1>1, <1>2 DEF Fan, Labels, RequestInv, Kinds
    <2>7. gaveUp \in [Request -> BOOLEAN]
        BY <1>1 DEF FanInv, Domains
    <2> QED
        BY <2>1, <2>2, <2>3, <2>4, <2>5, <2>6, <2>7 DEF TypeOK
<1>4. BatchesAccepted
    <2> SUFFICES ASSUME NEW r \in Request, NEW i \in DOMAIN worker[r]
                 PROVE  Cardinality(Batch(r, i)) <= limit[svc[r]]
        BY DEF BatchesAccepted
    <2>1. /\ ids[r] \in Seq(Nat) /\ size[r] \in Nat \ {0} /\ size[r] <= limit[svc[r]]
          /\ svc[r] \in Service /\ i \in 0 .. Len(ids[r]) \div size[r]
        BY <1>2 DEF Fan
    <2>2. limit[svc[r]] \in Nat
        BY <1>1, <2>1, LimitType
    <2>3. /\ Cardinality(Slice(ids[r], size[r], i)) \in Nat
          /\ Cardinality(Slice(ids[r], size[r], i)) <= size[r]
        BY <2>1, SliceSound
    <2> QED
        BY <2>1, <2>2, <2>3 DEF Batch
<1>5. SendersHaveRoom
    BY <1>2 DEF SendersHaveRoom, Fan, Busy
<1> QED
    BY <1>3, <1>4, <1>5 DEF FanOutSound

\* However the ids are cut into batches and whatever the probes have learnt by then: no
\* batch size is 0, no batch is refused for its size, and no goroutine of a fan-out waits
\* for room in a channel, also when the request has returned.
THEOREM FanOutsAreSound == Spec => []FanOutSound
<1>1. Inv => FanOutSound
    BY FanOutIsSound
<1> QED
    BY <1>1, Invariance, PTL

\* A fresh response of a request none of whose batches failed for good has every video
\* its creators like, for any sizes of the two fan-outs.
THEOREM FreshHasAll == Spec => []ServedIsComplete
<1>1. Inv => ServedIsComplete
    BY DEF Inv
<1> QED
    BY <1>1, Invariance, PTL

\* No request is counted twice in TotalErrors, StaleResponses or ActiveRequests, and a
\* failed one is counted, whichever and however many of its goroutines fail.
THEOREM EachIsCountedOnce == Spec => []CountedOnce
<1>1. ASSUME Inv
      PROVE  CountedOnce
    <2> DEFINE Errors == {r \in Request : resp[r].kind = "error"}
    <2>1. /\ totalErrors \in Nat /\ refreshErrors \in Nat /\ IsFiniteSet(Failed)
          /\ totalErrors = refreshErrors + Cardinality(Failed)
        BY <1>1 DEF Inv, ErrorInv, CacheInv
    <2>2. Cardinality(Errors) <= Cardinality(Failed) /\ Cardinality(Errors) \in Nat
        <3>1. Errors \subseteq Failed
            BY DEF Failed
        <3> QED
            BY <2>1, <3>1, FS_Subset, FS_CardinalityType
    <2>3. Cardinality(Failed) <= Cardinality(Failing) /\ Cardinality(Failing) \in Nat
        <3>1. Failing = Failed \cup RefusedOnes
            BY DEF Failed, Failing, RefusedOnes
        <3>2. IsFiniteSet(Failing)
            BY <1>1, <2>1, <3>1, FS_Union DEF Inv, RefusedInv
        <3> QED
            BY <3>1, <3>2, FS_Subset, FS_CardinalityType
    <2>4. /\ stats.StaleResponses = Cardinality({r \in Request : resp[r].kind = "stale"})
          /\ stats.ActiveRequests = Cardinality({r \in Request : pc[r] \notin {"idle", "done"}})
        BY <1>1 DEF Inv, StatsInv, StaleOnes, Inside
    <2>5. Cardinality(Failed) \in Nat
        BY <2>1, FS_CardinalityType
    <2> QED
        BY <2>1, <2>2, <2>3, <2>4, <2>5 DEF CountedOnce
<1> QED
    BY <1>1, Invariance, PTL

\* For any pool size the connections of a service are handed out evenly.
THEOREM TurnsAreTaken == Spec => []PoolBalanced
<1>1. Inv => PoolBalanced
    BY PoolIsBalanced DEF Inv
<1> QED
    BY <1>1, Invariance, PTL

\* No refresh takes a video out of the cache, whichever of its batches fail.
THEOREM NothingIsDropped == Spec => CacheOnlyGrows
<1>1. Inv /\ [Next]_vars => [cache \subseteq cache']_vars
    BY CacheStep DEF Inv
<1> QED
    BY <1>1, Invariance, PTL DEF Spec, CacheOnlyGrows
=====================================================================================
