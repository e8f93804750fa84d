----------------------------- MODULE VideoRecLab1Proofs -----------------------------
(***********************************************************************************)
(* Theorems about the recommendation service of lab 1 and the programs around it,   *)
(* for any users, videos, requests, limits, injected failures, flags and clients.   *)
(***********************************************************************************)
EXTENDS Clients, FiniteSetTheorems, WellFoundedInduction, TLAPS

-------------------------------------------------------------------------------------
(* Sequences.                                                                        *)

\* A property of 1 that each number up to n inherits from the one before holds up to n.
\* The set is that of the numbers that have it.
LEMMA UpTo ==
    ASSUME NEW n \in Nat, NEW P, n = 0 \/ 1 \in P,
           \A k \in 1 .. n : k # 1 /\ k - 1 \in P => k \in P
    PROVE  1 .. n \subseteq P
<1> DEFINE T == {k \in 1 .. n : k \notin P}
<1> SUFFICES ASSUME T # {} PROVE FALSE
    OBVIOUS
<1>1. T \subseteq Nat
    OBVIOUS
<1>2. PICK k \in T : \A j \in T : <<j, k>> \notin OpToRel(<, Nat)
    BY <1>1, NatLessThanWellFounded, WFMin
<1>3. k \in 1 .. n /\ k \notin P
    OBVIOUS
<1>4. k # 1
    BY <1>3
<1>5. k - 1 \in 1 .. n /\ k - 1 < k
    BY <1>3, <1>4
<1>6. <<k - 1, k>> \in OpToRel(<, Nat)
    BY <1>5 DEF OpToRel
<1>7. k - 1 \notin T
    BY <1>2, <1>6
<1> QED
    BY <1>3, <1>4, <1>5, <1>7
\* What FlattenSeq folds up.
Flattening(seqs) ==
    CHOOSE f : f = [i \in 1 .. Len(seqs) |-> IF i = 1 THEN seqs[i] ELSE f[i - 1] \o seqs[i]]
IsFlattening(f, seqs, n) ==
    f = [i \in 1 .. n |-> IF i = 1 THEN seqs[i] ELSE f[i - 1] \o seqs[i]]

LEMMA FlatteningExists ==
    ASSUME NEW S, NEW seqs \in Seq(Seq(S))
    PROVE  \E f : IsFlattening(f, seqs, Len(seqs))
<1> DEFINE N == Len(seqs)
           P == {n \in Nat : \E f : IsFlattening(f, seqs, n)}
<1>0. N \in Nat
    OBVIOUS
<1>1. IsFlattening(<<>>, seqs, 0)
    BY DEF IsFlattening
<1>2. 1 \in P
    <2>1. IsFlattening([i \in 1 .. 1 |-> seqs[i]], seqs, 1)
        BY DEF IsFlattening
    <2> QED
        BY <2>1
<1>3. ASSUME NEW k \in 1 .. N, k # 1, k - 1 \in P PROVE k \in P
    <2>1. PICK f : IsFlattening(f, seqs, k - 1)
        BY <1>3
    <2> DEFINE g == [i \in 1 .. k |-> IF i = k THEN f[k - 1] \o seqs[k] ELSE f[i]]
    <2>2. ASSUME NEW i \in 1 .. k
          PROVE  g[i] = IF i = 1 THEN seqs[i] ELSE g[i - 1] \o seqs[i]
        <3>1. CASE i = k
            <4>1. k \in 1 .. k /\ k - 1 \in 1 .. k /\ k - 1 # k
                BY <1>3
            <4>2. g[k] = f[k - 1] \o seqs[k] /\ g[k - 1] = f[k - 1]
                BY ONLY <4>1
            <4> QED
                BY <1>3, <3>1, <4>2
        <3>2. CASE i # k
            <4>1. i \in 1 .. k - 1 /\ g[i] = f[i]
                BY <1>3, <3>2
            <4>2. f[i] = IF i = 1 THEN seqs[i] ELSE f[i - 1] \o seqs[i]
                BY <2>1, <4>1 DEF IsFlattening
            <4>3. i # 1 => g[i - 1] = f[i - 1]
                BY <1>3, <3>2
            <4> QED
                BY <4>1, <4>2, <4>3
        <3> QED
            BY <3>1, <3>2
    <2>3. g = [i \in 1 .. k |-> IF i = 1 THEN seqs[i] ELSE g[i - 1] \o seqs[i]]
        BY <2>2
    <2> HIDE DEF g
    <2>4. IsFlattening(g, seqs, k)
        BY <2>3 DEF IsFlattening
    <2> QED
        BY <2>4
<1> HIDE DEF P
<1>4. 1 .. N \subseteq P
    BY <1>0, <1>2, <1>3, UpTo
<1>5. N = 0 \/ N \in P
    BY <1>0, <1>4
<1> QED
    BY <1>1, <1>5 DEF P

\* Flattening sequences of members of S gives a sequence of them.
LEMMA Flattened ==
    ASSUME NEW S, NEW seqs \in Seq(Seq(S))
    PROVE  FlattenSeq(seqs) \in Seq(S)
<1>0. Len(seqs) \in Nat
    OBVIOUS
<1>1. CASE Len(seqs) = 0
    <2>1. seqs = <<>>
        BY <1>1
    <2> QED
        BY <1>1, <2>1 DEF FlattenSeq
<1>2. CASE Len(seqs) # 0
    <2> DEFINE f == Flattening(seqs)
    <2>1. FlattenSeq(seqs) = f[Len(seqs)]
        BY <1>2 DEF FlattenSeq, Flattening
    <2>2. \E g : g = [i \in 1 .. Len(seqs) |-> IF i = 1 THEN seqs[i] ELSE g[i - 1] \o seqs[i]]
        BY FlatteningExists DEF IsFlattening
    <2>3. f = [i \in 1 .. Len(seqs) |-> IF i = 1 THEN seqs[i] ELSE f[i - 1] \o seqs[i]]
        BY <2>2 DEF Flattening
    <2> HIDE DEF f
    <2> DEFINE P == {k \in 1 .. Len(seqs) : f[k] \in Seq(S)}
    <2>4. 1 \in P
        <3>1. 1 \in 1 .. Len(seqs)
            BY <1>0, <1>2
        <3>2. f[1] = seqs[1]
            BY <2>3, <3>1
        <3> QED
            BY <3>1, <3>2
    <2>5. ASSUME NEW k \in 1 .. Len(seqs), k # 1, k - 1 \in P PROVE k \in P
        <3>1. f[k] = f[k - 1] \o seqs[k]
            BY <2>3, <2>5
        <3>2. f[k - 1] \in Seq(S) /\ seqs[k] \in Seq(S)
            BY <2>5
        <3>3. f[k] \in Seq(S)
            BY ONLY <3>1, <3>2
        <3> QED
            BY <3>3
    <2> HIDE DEF P
    <2>6. 1 .. Len(seqs) \subseteq P
        BY <1>0, <2>4, <2>5, UpTo
    <2>7. Len(seqs) \in P
        BY <1>0, <1>2, <2>6
    <2> QED
        BY <2>1, <2>7 DEF P
<1> QED
    BY <1>1, <1>2
-------------------------------------------------------------------------------------
(* Places in an order.                                                               *)

\* R orders D; the place of i is the number of those that are not after it.
Orders(R, D) ==
    /\ \A i \in D : <<i, i>> \in R
    /\ \A i, j \in D : <<i, j>> \in R \/ <<j, i>> \in R
    /\ \A i, j \in D : <<i, j>> \in R /\ <<j, i>> \in R => i = j
    /\ \A i, j, k \in D : <<i, j>> \in R /\ <<j, k>> \in R => <<i, k>> \in R
Upto(R, D, i) == {j \in D : <<j, i>> \in R}
PlaceOf(R, D, i) == Cardinality(Upto(R, D, i))

\* The places of n members are 1 to n, in their order.
LEMMA Places ==
    ASSUME NEW D, IsFiniteSet(D), NEW R, Orders(R, D)
    PROVE  /\ Cardinality(D) \in Nat
           /\ \A i \in D : PlaceOf(R, D, i) \in 1 .. Cardinality(D)
           /\ \A i, j \in D : i # j /\ <<i, j>> \in R => PlaceOf(R, D, i) < PlaceOf(R, D, j)
           /\ \A k \in 1 .. Cardinality(D) : \E i \in D : PlaceOf(R, D, i) = k
<1>1. Cardinality(D) \in Nat
    BY FS_CardinalityType
<1>2. PICK n \in Nat : n = Cardinality(D)
    BY <1>1
<1>3. ASSUME NEW i \in D PROVE IsFiniteSet(Upto(R, D, i)) /\ PlaceOf(R, D, i) \in 1 .. n
    <2>1. Upto(R, D, i) \in SUBSET D /\ i \in Upto(R, D, i)
        BY DEF Upto, Orders
    <2>2. IsFiniteSet(Upto(R, D, i)) /\ Cardinality(Upto(R, D, i)) <= n
        BY <1>2, <2>1, FS_Subset
    <2>3. Cardinality(Upto(R, D, i)) \in Nat /\ Cardinality(Upto(R, D, i)) # 0
        BY <2>1, <2>2, FS_CardinalityType, FS_EmptySet
    <2> QED
        BY <2>2, <2>3 DEF PlaceOf
<1>4. ASSUME NEW i \in D, NEW j \in D, i # j, <<i, j>> \in R
      PROVE  PlaceOf(R, D, i) < PlaceOf(R, D, j)
    <2>1. Upto(R, D, i) \in SUBSET Upto(R, D, j)
        BY <1>4 DEF Upto, Orders
    <2>2. j \in Upto(R, D, j) /\ j \notin Upto(R, D, i)
        BY <1>4 DEF Upto, Orders
    <2>3. PlaceOf(R, D, i) <= PlaceOf(R, D, j) /\ PlaceOf(R, D, i) # PlaceOf(R, D, j)
        BY <1>3, <2>1, <2>2, FS_Subset DEF PlaceOf
    <2> QED
        BY <1>3, <2>3
<1>5. \A k \in 1 .. n : \E i \in D : PlaceOf(R, D, i) = k
    <2> DEFINE f == [i \in D |-> PlaceOf(R, D, i)]
    <2>1. f \in [D -> 1 .. n]
        BY <1>3
    <2>2. ASSUME NEW i \in D, NEW j \in D, f[i] = f[j] PROVE i = j
        <3> SUFFICES ASSUME i # j PROVE FALSE
            OBVIOUS
        <3>1. PlaceOf(R, D, i) < PlaceOf(R, D, j) \/ PlaceOf(R, D, j) < PlaceOf(R, D, i)
            BY <1>4 DEF Orders
        <3> QED
            BY <1>3, <2>2, <3>1
    <2>3. f \in Injection(D, 1 .. n)
        BY <2>1, <2>2 DEF Injection, IsInjective
    <2>4. IsFiniteSet(1 .. n) /\ Cardinality(1 .. n) = n
        BY FS_Interval
    <2>5. f \in Surjection(D, 1 .. n)
        BY <1>2, <2>3, <2>4, FS_Injection
    <2> QED
        BY <2>5 DEF Surjection
<1> QED
    BY <1>1, <1>2, <1>3, <1>4, <1>5

\* The places of numbers.
LEMMA NumberPlaces ==
    ASSUME NEW D, IsFiniteSet(D), D \subseteq Int
    PROVE  /\ Cardinality(D) \in Nat
           /\ \A n \in 1 .. Cardinality(D) : \E k \in D : Cardinality({j \in D : j <= k}) = n
<1> DEFINE R == {x \in D \X D : x[1] <= x[2]}
<1>1. Orders(R, D)
    BY DEF Orders
<1>2. ASSUME NEW k \in D PROVE Upto(R, D, k) = {j \in D : j <= k}
    BY DEF Upto
<1> HIDE DEF R
<1>3. Cardinality(D) \in Nat
    BY FS_CardinalityType
<1>4. \A n \in 1 .. Cardinality(D) : \E k \in D : PlaceOf(R, D, k) = n
    <2>1. IsFiniteSet(D)
        OBVIOUS
    <2> QED
        BY ONLY <1>1, <2>1, Places
<1> QED
    BY <1>2, <1>3, <1>4 DEF PlaceOf
-------------------------------------------------------------------------------------
(* Lists of ids.                                                                     *)

LEMMA DomainOf ==
    ASSUME NEW S, NEW l \in Seq(S)
    PROVE  /\ Len(l) \in Nat /\ DOMAIN l = 1 .. Len(l) /\ IsFiniteSet(DOMAIN l)
           /\ Cardinality(DOMAIN l) = Len(l)
<1>1. Len(l) \in Nat /\ DOMAIN l = 1 .. Len(l)
    OBVIOUS
<1>2. PICK n \in Nat : n = Len(l)
    BY <1>1
<1>3. IsFiniteSet(1 .. n) /\ Cardinality(1 .. n) = n
    <2>1. 1 \in Int /\ n \in Int
        OBVIOUS
    <2>2. IsFiniteSet(1 .. n) /\ Cardinality(1 .. n) = IF 1 > n THEN 0 ELSE n - 1 + 1
        BY <2>1, FS_Interval
    <2> QED
        BY <2>2
<1> QED
    BY <1>1, <1>2, <1>3

\* A list without its duplicates has the same kind of ids.
LEMMA Deduplicated ==
    ASSUME NEW S, NEW l \in Seq(S)
    PROVE  deduplicateIds(l) \in Seq(S)
<1> DEFINE first == {k \in DOMAIN l : \A j \in 1 .. k - 1 : l[j] # l[k]}
           Place(n) == CHOOSE k \in first : Cardinality({j \in first : j <= k}) = n
           N == Cardinality(first)
<1>1. first \subseteq DOMAIN l /\ first \subseteq Int
    OBVIOUS
<1>2. IsFiniteSet(first)
    BY <1>1, DomainOf, FS_Subset
<1>3. deduplicateIds(l) = [n \in 1 .. N |-> l[Place(n)]]
    BY DEF deduplicateIds
<1> HIDE DEF first
<1>4. N \in Nat /\ \A n \in 1 .. N : \E k \in first : Cardinality({j \in first : j <= k}) = n
    <2>1. first \subseteq Int
        BY <1>1
    <2> QED
        BY ONLY <1>2, <2>1, NumberPlaces
<1>5. ASSUME NEW n \in 1 .. N PROVE l[Place(n)] \in S
    <2>1. Place(n) \in first
        BY <1>4
    <2> HIDE DEF Place
    <2> QED
        BY <1>1, <2>1
<1> HIDE DEF N, Place
<1> QED
    BY <1>3, <1>4, <1>5

LEMMA TopVideos == topVideos \in Seq(Video)
BY Deduplicated, BackendAssumption DEF topVideos

LEMMA Truncated ==
    ASSUME NEW S, NEW l \in Seq(S), NEW n \in Int
    PROVE  Truncate(l, n) \in Seq(S)
<1>1. CASE n > 0 /\ n <= Len(l)
    <2>1. SubSeq(l, 1, n) \in Seq(S)
        BY <1>1
    <2> QED
        BY <1>1, <2>1 DEF Truncate
<1>2. CASE ~(n > 0 /\ n <= Len(l))
    BY <1>2 DEF Truncate
<1> QED
    BY <1>1, <1>2

\* Ranking a list of videos gives a list of videos.
LEMMA Ranked ==
    ASSUME NEW u \in DOMAIN User, NEW l \in Seq(Video), NEW n \in Int
    PROVE  rankVideos(u, l, n) \in Seq(Video)
<1> DEFINE D == DOMAIN l
           Score(i) == Scores[u][l[i]]
           Before(i, j) == Score(i) > Score(j) \/ (Score(i) = Score(j) /\ i <= j)
           R == {x \in D \X D : Before(x[1], x[2])}
           Place(k) == CHOOSE i \in D : Cardinality({j \in D : Before(j, i)}) = k
<1>1. IsFiniteSet(D) /\ D \subseteq Int /\ D = 1 .. Len(l) /\ Len(l) \in Nat /\ Cardinality(D) = Len(l)
    BY DomainOf
<1>2. \A i \in D : l[i] \in Video /\ Score(i) \in Nat
    BY ScoreAssumption
<1> HIDE DEF Score, D
<1>3. Orders(R, D)
    <2>1. \A i \in D : <<i, i>> \in R
        BY <1>1, <1>2
    <2>2. \A i, j \in D : <<i, j>> \in R \/ <<j, i>> \in R
        BY <1>1, <1>2
    <2>3. \A i, j \in D : <<i, j>> \in R /\ <<j, i>> \in R => i = j
        BY <1>1, <1>2
    <2>4. \A i, j, k \in D : <<i, j>> \in R /\ <<j, k>> \in R => <<i, k>> \in R
        BY <1>1, <1>2
    <2> QED
        BY <2>1, <2>2, <2>3, <2>4 DEF Orders
<1>4. ASSUME NEW i \in D PROVE Upto(R, D, i) = {j \in D : Before(j, i)}
    BY DEF Upto
<1> HIDE DEF R
<1>5. \A k \in 1 .. Cardinality(D) : \E i \in D : PlaceOf(R, D, i) = k
    <2>1. IsFiniteSet(D)
        BY <1>1
    <2> QED
        BY ONLY <1>3, <2>1, Places
<1>6. ASSUME NEW k \in D PROVE Place(k) \in D
    <2>1. k \in 1 .. Cardinality(D)
        BY <1>1
    <2>2. \E i \in D : Cardinality({j \in D : Before(j, i)}) = k
        BY <1>4, <1>5, <2>1 DEF PlaceOf
    <2> HIDE DEF Before
    <2> QED
        BY <2>2
<1> DEFINE t == [k \in D |-> l[Place(k)]]
<1>7. rankVideos(u, l, n) = Truncate(t, n)
    BY DEF rankVideos, D, Score
<1> HIDE DEF Place
<1>8. t \in Seq(Video)
    <2>1. \A k \in D : l[Place(k)] \in Video
        BY <1>2, <1>6
    <2>2. t \in [1 .. Len(l) -> Video]
        BY <1>1, <2>1
    <2> QED
        BY <1>1, <2>2
<1> HIDE DEF t
<1> QED
    BY <1>7, <1>8, Truncated

\* q batches of m are within n, and one more would not be.
LEMMA Quotient ==
    ASSUME NEW n \in Nat, NEW m \in Nat \ {0}
    PROVE  n \div m \in Nat /\ (n \div m) * m <= n /\ n < (n \div m + 1) * m
OBVIOUS

\* No batch has more than m ids, and all are of the list.
LEMMA SliceSound ==
    ASSUME NEW S, NEW l \in Seq(S), NEW m \in Nat \ {0}
    PROVE  /\ Len(l) \div m \in Nat
           /\ \A i \in 0 .. Len(l) \div m : /\ Slice(l, m, i) \in Seq(S)
                                           /\ Len(Slice(l, m, i)) <= m
<1>1. Len(l) \in Nat
    OBVIOUS
<1>2. PICK n \in Nat : n = Len(l)
    BY <1>1
<1>3. PICK q \in Nat : q = n \div m
    BY Quotient
<1>4. q * m <= n /\ n < (q + 1) * m
    BY <1>3, Quotient
<1>5. ASSUME NEW i \in 0 .. q
      PROVE  Slice(l, m, i) \in Seq(S) /\ Len(Slice(l, m, i)) <= m
    <2> DEFINE a == i * m + 1
               b == IF i = q THEN n ELSE (i + 1) * m
    <2>1. Slice(l, m, i) = SubSeq(l, a, b)
        BY <1>2, <1>3 DEF Slice
    <2>2. a \in Nat /\ b \in Nat /\ a >= 1 /\ b <= n /\ b - a + 1 <= m
        <3>1. i \in Nat /\ i * m \in Nat /\ (i + 1) * m = i * m + m
            OBVIOUS
        <3>2. CASE i = q
            BY <1>4, <3>1, <3>2
        <3>3. CASE i # q
            <4>1. i + 1 <= q
                BY <3>3
            <4>2. (i + 1) * m <= q * m
                BY <4>1
            <4>3. (i + 1) * m \in Nat /\ q * m \in Nat
                OBVIOUS
            <4> QED
                BY <1>4, <3>1, <3>3, <4>2, <4>3
        <3> QED
            BY <3>2, <3>3
    <2> HIDE DEF a, b
    <2>3. SubSeq(l, a, b) \in Seq(S)
        BY <1>2, <2>2
    <2>4. Len(SubSeq(l, a, b)) <= m
        BY <1>2, <2>2
    <2> QED
        BY <2>1, <2>3, <2>4
<1>6. q = Len(l) \div m
    BY <1>2, <1>3
<1> QED
    BY <1>5, <1>6
-------------------------------------------------------------------------------------
(* The steps of the service, and what they leave alone.                              *)

AnyUser == Int \cup DOMAIN User
ClientPlaces == {"none", "waiting", "success", "failure", "stale", "counted"}
ServerPlaces == {"none", "handling", "logged"}

\* A call has the user and the limit that its program chose.
CallType ==
    /\ scene \in Scenes
    /\ call \in [Request -> [client : ClientPlaces, server : ServerPlaces, user : AnyUser, limit : Int]]

RequestMoves(r) ==
    \/ Handler(r) \/ ContextEnds(r)
    \/ \E i \in DOMAIN fan[r].worker : Worker(r, i)
Arrives(r) == \E u \in AnyUser, n \in Int : Arrive(r, u, n)
CallBegins(r) == \E u, n : videoRecServiceClient(r, u, n)
Background ==
    \/ \E failures \in 0 .. Tries : RefreshDials(failures)
    \/ RefreshBegins \/ NoTrending \/ Refreshed
Probes(s) ==
    \/ ProbeDials(s) \/ ProbeAsks(s) \/ ProbeExpires(s)
    \/ \E c \in Configs : Inject(s, c)

LEMMA ServiceSteps ==
    ASSUME CallType, [ClientsNext]_allVars
    PROVE  \/ UNCHANGED vars
           \/ \E r \in Request : RequestMoves(r) \/ Arrives(r) \/ CallBegins(r)
           \/ Background
           \/ \E s \in Service : Probes(s)
<1>1. CASE UNCHANGED allVars
    BY <1>1 DEF allVars
<1>2. CASE Serve
    BY <1>2 DEF Serve, RequestMoves, Background, Probes
<1>3. ASSUME NEW r \in Request, NEW ask \in scene.asked, Arrive(r, ask[1], ask[2])
      PROVE  Arrives(r)
    <2>1. scene.asked \subseteq Int \X Int
        BY SceneAssumption DEF CallType
    <2>2. ask[1] \in AnyUser /\ ask[2] \in Int
        BY <2>1 DEF AnyUser
    <2> QED
        BY <1>3, <2>2 DEF Arrives
<1>4. ASSUME NEW r \in Request, VideoRecService_GetTopVideos_Handler(r)
      PROVE  Arrives(r)
    <2>1. call[r].user \in AnyUser /\ call[r].limit \in Int
        BY DEF CallType
    <2> QED
        BY <1>4, <2>1 DEF VideoRecService_GetTopVideos_Handler, Arrives
<1>5. ASSUME NEW r \in Request,
             MakeMiddleware(r) \/ CallReturns(r) \/ CountStale(r) \/ CountResponse(r)
                \/ CountSuccess(r) \/ Judge(r)
      PROVE  UNCHANGED vars
    BY <1>5 DEF MakeMiddleware, CallReturns, CountStale, CountResponse, CountSuccess, Judge
<1>6. ASSUME NEW r \in Request, sendSingleTestRequest(r) PROVE CallBegins(r)
    BY <1>6 DEF sendSingleTestRequest, CallBegins
<1>7. ASSUME NEW r \in Request, sendRequest(r) PROVE CallBegins(r)
    BY <1>7 DEF sendRequest, CallBegins
<1>8. ASSUME reportStats \/ gatherStats \/ GetStats \/ fetchUser PROVE UNCHANGED vars
    BY <1>8 DEF reportStats, gatherStats, GetStats, fetchUser
<1> QED
    BY <1>1, <1>2, <1>3, <1>4, <1>5, <1>6, <1>7, <1>8 DEF ClientsNext, ServiceNext, Client

LEMMA RequestFrame ==
    ASSUME NEW r \in Request, RequestMoves(r) \/ Arrives(r) \/ CallBegins(r)
    PROVE  UNCHANGED StaticVars
BY DEF RequestMoves, Arrives, CallBegins, Handler, ContextEnds, Worker, Arrive, videoRecServiceClient,
       StaticVars

LEMMA BackgroundFrame ==
    ASSUME Background
    PROVE  UNCHANGED RequestVars
BY DEF Background, RefreshDials, RefreshBegins, NoTrending, Refreshed, RequestVars

LEMMA ProbesFrame ==
    ASSUME NEW s \in Service, Probes(s)
    PROVE  UNCHANGED <<scene, MaxBatchSize, cache, refresh, stats, req, fan, hist>>
BY DEF Probes, ProbeDials, ProbeAsks, ProbeExpires, Inject, SetInjectionConfig, backendVars

-------------------------------------------------------------------------------------
(* The batch sizes. A service is asked with batches of 1 until the probe has learnt   *)
(* what it takes, so no batch size ever exceeds the limit of its service.             *)

Probing == {"dial", "ask", "spin", "end"}

StaticInv ==
    /\ scene \in Scenes /\ MaxBatchSize \in [Service -> Nat \ {0}]
    /\ batch \in [Service -> Nat \ {0}] /\ probe \in [Service -> Probing]
    /\ \A s \in Service : batch[s] <= MaxBatchSize[s] /\ (probe[s] # "end" => batch[s] = 1)

\* An answer is OK or NotFound only if the batch was not empty and not too large.
Takes(a, s, ids) ==
    \/ a.code \notin {"OK", "NotFound", "InvalidArgument"}
    \/ a.code = "InvalidArgument" /\ (a.quoted = 0 \/ a.quoted = MaxBatchSize[s])
    \/ a.code \in {"OK", "NotFound"} /\ ids # <<>> /\ ~(Len(ids) > MaxBatchSize[s])

LEMMA GetUserTakes ==
    ASSUME NEW ids, NEW a \in GetUser(ids)
    PROVE  Takes(a, "user", ids) /\ (a.code = "OK" => ToSet(ids) \subseteq DOMAIN User)
<1>1. PICK e \in MaybeInject("user") :
        a = CASE e                                     -> Failed("Internal")
              [] ~e /\ ids = <<>>                      -> Failed("InvalidArgument")
              [] ~e /\ Len(ids) > MaxBatchSize["user"] -> Answer("InvalidArgument", <<>>, MaxBatchSize["user"])
              [] OTHER -> IF ToSet(ids) \subseteq DOMAIN User THEN OK(ids) ELSE Failed("NotFound")
    BY Zenon DEF GetUser
<1>2. e \in BOOLEAN
    BY DEF MaybeInject, oneIn
<1> DEFINE P == ToSet(ids) \subseteq DOMAIN User
<1> HIDE DEF P
<1>3. a = CASE e                                     -> Failed("Internal")
              [] ~e /\ ids = <<>>                      -> Failed("InvalidArgument")
              [] ~e /\ Len(ids) > MaxBatchSize["user"] -> Answer("InvalidArgument", <<>>, MaxBatchSize["user"])
              [] OTHER -> IF P THEN OK(ids) ELSE Failed("NotFound")
    BY <1>1 DEF P
<1>4. Takes(a, "user", ids) /\ (a.code = "OK" => P)
    BY <1>2, <1>3 DEF Takes, Failed, Answer, OK
<1> QED
    BY <1>4 DEF P

LEMMA GetVideoTakes ==
    ASSUME NEW ids, NEW a \in GetVideo(ids)
    PROVE  Takes(a, "video", ids)
<1> DEFINE P == ToSet(ids) \subseteq Video
           Q == Len(ids) <= MaxBatchSize["video"] /\ Len(deduplicateIds(ids)) # Len(ids)
<1>1. PICK e \in MaybeInject("video") :
        a = CASE e                                      -> Failed("Internal")
              [] ~e /\ ids = <<>>                       -> Failed("InvalidArgument")
              [] ~e /\ Len(ids) > MaxBatchSize["video"] -> Answer("InvalidArgument", <<>>, MaxBatchSize["video"])
              [] ~e /\ Len(ids) <= MaxBatchSize["video"] /\ Len(deduplicateIds(ids)) # Len(ids)
                                                        -> Failed("InvalidArgument")
              [] OTHER -> IF ToSet(ids) \subseteq Video THEN OK(ids) ELSE Failed("NotFound")
    BY Zenon DEF GetVideo
<1>2. e \in BOOLEAN
    BY DEF MaybeInject, oneIn
<1>3. a = CASE e                                      -> Failed("Internal")
            [] ~e /\ ids = <<>>                       -> Failed("InvalidArgument")
            [] ~e /\ Len(ids) > MaxBatchSize["video"] -> Answer("InvalidArgument", <<>>, MaxBatchSize["video"])
            [] ~e /\ Q                                -> Failed("InvalidArgument")
            [] OTHER -> IF P THEN OK(ids) ELSE Failed("NotFound")
    BY <1>1
<1> HIDE DEF P, Q
<1> QED
    BY <1>2, <1>3 DEF Takes, Failed, Answer, OK
\* What a client hears is what the service says, or that the call failed.
LEMMA ProbeTakes ==
    ASSUME NEW s \in Service, NEW a \in ProbeAnswers(s)
    PROVE  Takes(a, s, ProbeIds(s))
<1>1. ASSUME NEW c, a = Failed(c), c \in {"Canceled", "Unavailable"} PROVE Takes(a, s, ProbeIds(s))
    BY <1>1 DEF Takes, Failed, Answer
<1>2. CASE s = "user"
    <2>1. ProbeAnswers(s) \subseteq GetUser(ProbeIds(s)) \cup {Failed("Unavailable")}
        BY <1>2 DEF ProbeAnswers, MockUserServiceClient, userServiceClient, Invoke, UserService_Handler
    <2> QED
        BY <1>1, <1>2, <2>1, GetUserTakes
<1>3. CASE s = "video"
    <2>1. ProbeAnswers(s) \subseteq GetVideo(ProbeIds(s)) \cup {Failed("Unavailable")}
        BY <1>3 DEF ProbeAnswers, MockVideoServiceClient, videoServiceClient, Invoke, VideoService_Handler
    <2> QED
        BY <1>1, <1>3, <2>1, GetVideoTakes
<1> QED
    BY <1>2, <1>3 DEF Service

LEMMA ProbeLearns ==
    ASSUME StaticInv, NEW s \in Service, ProbeAsks(s)
    PROVE  \E n \in Nat \ {0} : batch' = [batch EXCEPT ![s] = n] /\ n <= MaxBatchSize[s]
<1>1. PICK a \in ProbeAnswers(s) : /\ a.code \in {"OK", "NotFound", "InvalidArgument"}
                                   /\ batch' = [batch EXCEPT ![s] = @ + Learnt(a)]
    BY DEF ProbeAsks
<1>2. batch[s] = 1
    BY DEF StaticInv, ProbeAsks
<1>3. PICK m \in Nat \ {0} : m = MaxBatchSize[s]
    BY DEF StaticInv
<1>4. PICK b \in Int : b = opt.MaxBatchSize
    BY SceneAssumption DEF StaticInv, opt
<1>5. Takes(a, s, ProbeIds(s))
    BY ProbeTakes
<1>6. CASE a.code = "InvalidArgument"
    <2>1. Learnt(a) \in {0, m - 1}
        BY <1>3, <1>5, <1>6 DEF Takes, Learnt
    <2>2. 1 + Learnt(a) \in Nat \ {0} /\ 1 + Learnt(a) <= m
        BY <2>1
    <2> QED
        BY <1>1, <1>2, <1>3, <2>2
<1>7. CASE a.code # "InvalidArgument"
    <2>1. ProbeIds(s) # <<>> /\ ~(Len(ProbeIds(s)) > m)
        BY <1>1, <1>3, <1>5, <1>7 DEF Takes
    <2> DEFINE f == [k \in 1 .. b |-> IF s = "user" THEN 204054 ELSE 1299 + k]
    <2>2. ProbeIds(s) = f
        BY <1>4 DEF ProbeIds
    <2>3. b >= 1
        <3> SUFFICES ASSUME ~(b >= 1) PROVE FALSE
            OBVIOUS
        <3>1. 1 .. b = {}
            OBVIOUS
        <3>2. f = <<>>
            BY <3>1
        <3> QED
            BY <2>1, <2>2, <3>2
    <2>4. Len(f) = b
        BY <2>3
    <2> HIDE DEF f
    <2>5. b <= m
        BY <2>1, <2>2, <2>3, <2>4
    <2>6. Learnt(a) = b - 1
        BY <1>4, <1>7 DEF Learnt
    <2>7. batch[s] + Learnt(a) = b
        BY <1>2, <2>6
    <2>8. batch' = [batch EXCEPT ![s] = b]
        BY <1>1, <2>7
    <2>9. b \in Nat \ {0} /\ b <= MaxBatchSize[s]
        BY <1>3, <2>3, <2>5
    <2> QED
        BY <2>8, <2>9, Zenon
<1> QED
    BY <1>6, <1>7

LEMMA StaticStep ==
    ASSUME CallType, StaticInv, [ClientsNext]_allVars
    PROVE  StaticInv' /\ UNCHANGED <<scene, MaxBatchSize>>
<1>1. ASSUME UNCHANGED <<scene, MaxBatchSize, batch, probe>>
      PROVE  StaticInv' /\ UNCHANGED <<scene, MaxBatchSize>>
    BY <1>1 DEF StaticInv
<1>2. ASSUME NEW s \in Service, ProbeDials(s) \/ ProbeExpires(s)
      PROVE  StaticInv' /\ UNCHANGED <<scene, MaxBatchSize>>
    <2>1. /\ UNCHANGED <<scene, MaxBatchSize, batch>> /\ probe[s] # "end"
          /\ \E x \in Probing : probe' = [probe EXCEPT ![s] = x]
        BY <1>2 DEF ProbeDials, ProbeExpires, Probing, backendVars
    <2> QED
        BY <2>1 DEF StaticInv
<1>3. ASSUME NEW s \in Service, ProbeAsks(s)
      PROVE  StaticInv' /\ UNCHANGED <<scene, MaxBatchSize>>
    <2>1. PICK n \in Nat \ {0} : batch' = [batch EXCEPT ![s] = n] /\ n <= MaxBatchSize[s]
        BY <1>3, ProbeLearns
    <2>2. UNCHANGED <<scene, MaxBatchSize>> /\ probe' = [probe EXCEPT ![s] = "end"]
        BY <1>3 DEF ProbeAsks, backendVars
    <2> QED
        BY <2>1, <2>2 DEF StaticInv, Probing
<1>4. ASSUME NEW s \in Service, NEW c \in Configs, Inject(s, c)
      PROVE  StaticInv' /\ UNCHANGED <<scene, MaxBatchSize>>
    BY <1>1, <1>4 DEF Inject, SetInjectionConfig
<1>5. CASE UNCHANGED vars
    BY <1>1, <1>5 DEF vars, backendVars
<1>6. ASSUME NEW r \in Request, RequestMoves(r) \/ Arrives(r) \/ CallBegins(r)
      PROVE  StaticInv' /\ UNCHANGED <<scene, MaxBatchSize>>
    <2>1. UNCHANGED StaticVars
        BY <1>6, RequestFrame
    <2> QED
        BY <1>1, <2>1 DEF StaticVars, backendVars
<1>7. CASE Background
    BY <1>1, <1>7, BackgroundFrame DEF RequestVars, backendVars
<1> QED
    BY <1>2, <1>3, <1>4, <1>5, <1>6, <1>7, ServiceSteps DEF Probes

-------------------------------------------------------------------------------------
(* The cache.                                                                         *)

CacheInv ==
    /\ cache \in Seq(Video) /\ cache \in Seq(ToSet(topVideos))
    /\ refresh.size \in Nat \ {0}
    /\ DOMAIN refresh = {"client", "locked", "size", "round"}

\* The last batch that a refresh asks for is a batch of the list.
LEMMA LastBatch ==
    ASSUME NEW n \in Nat, NEW m \in Nat \ {0}
    PROVE  (n - 1) \div m <= n \div m
<1>1. n \div m \in Nat /\ (n \div m) * m <= n /\ n < (n \div m + 1) * m
    BY Quotient
<1>2. CASE n = 0
    BY <1>2
<1>3. CASE n # 0
    BY <1>1, <1>3
<1> QED
    BY <1>2, <1>3

LEMMA BatchOfVideos ==
    ASSUME NEW S, NEW l \in Seq(S), NEW m \in Nat \ {0}, NEW i \in 0 .. (Len(l) - 1) \div m
    PROVE  Slice(l, m, i) \in Seq(S)
<1>1. PICK n \in Nat : n = Len(l)
    OBVIOUS
<1>2. (n - 1) \div m <= n \div m
    BY LastBatch
<1>3. (n - 1) \div m \in Int /\ n \div m \in Int
    OBVIOUS
<1>4. i \in 0 .. n \div m
    BY <1>1, <1>2, <1>3
<1> QED
    BY <1>1, <1>4, SliceSound

\* What a refresh makes of the answers is a list of trending videos.
LEMMA UpdatedCache ==
    ASSUME CacheInv, NEW S, topVideos \in Seq(S), NEW T, NEW order \in SetToSeqs(T),
           T \subseteq 0 .. (Len(topVideos) - 1) \div refresh.size
    PROVE  FlattenSeq([k \in DOMAIN order |-> Slice(topVideos, refresh.size, order[k])]) \in Seq(S)
<1> DEFINE m == refresh.size
           n == Cardinality(T)
           N == Len(topVideos)
           g == [k \in DOMAIN order |-> Slice(topVideos, refresh.size, order[k])]
<1>1. topVideos \in Seq(S) /\ m \in Nat \ {0} /\ N \in Nat
    BY DEF CacheInv
<1>2. order \in [1 .. n -> T]
    BY DEF SetToSeqs
<1>4. n \in Nat
    <2>1. PICK a \in Int : a = (N - 1) \div m
        BY <1>1
    <2>2. IsFiniteSet(0 .. a)
        BY FS_Interval
    <2>3. IsFiniteSet(T)
        BY <2>1, <2>2, FS_Subset
    <2> QED
        BY <2>3, FS_CardinalityType
<1>5. ASSUME NEW k \in 1 .. n PROVE Slice(topVideos, m, order[k]) \in Seq(S)
    <2>1. order[k] \in 0 .. (N - 1) \div m
        BY <1>2
    <2> QED
        BY <1>1, <2>1, BatchOfVideos
<1>6. g \in Seq(Seq(S))
    <2>1. g \in [1 .. n -> Seq(S)]
        BY <1>2, <1>5
    <2> QED
        BY <1>4, <2>1
<1> QED
    BY <1>6, Flattened

LEMMA CacheStep ==
    ASSUME CallType, StaticInv, CacheInv, [ClientsNext]_allVars
    PROVE  CacheInv'
<1>1. ASSUME UNCHANGED <<cache, refresh>> PROVE CacheInv'
    BY <1>1 DEF CacheInv
<1>2. ASSUME NEW failures, RefreshDials(failures) PROVE CacheInv'
    <2>1. UNCHANGED cache /\ \E x, y : refresh' = [refresh EXCEPT !.client = x, !.round = y]
        BY <1>2 DEF RefreshDials
    <2> QED
        BY <2>1 DEF CacheInv
<1>3. CASE RefreshBegins
    <2>1. UNCHANGED cache /\ batch["video"] \in Nat \ {0}
        BY <1>3 DEF RefreshBegins, StaticInv, Service
    <2>2. \E y : refresh' = [refresh EXCEPT !.locked = TRUE, !.size = batch["video"], !.round = y]
        BY <1>3 DEF RefreshBegins
    <2> QED
        BY <2>1, <2>2 DEF CacheInv
<1>4. CASE NoTrending
    BY <1>4 DEF NoTrending, CacheInv
<1>5. CASE Refreshed
    <2>1. refresh' = [refresh EXCEPT !.locked = FALSE]
        BY <1>5 DEF Refreshed
    <2> DEFINE batches == 0 .. (Len(topVideos) - 1) \div refresh.size
    <2>2. PICK first \in 0 .. Tries - 1, failures \in [batches -> 0 .. Tries] :
            \E order \in SetToSeqs({i \in batches : failures[i] < Tries}) :
                UpdateCache(first, failures, order)
        BY <1>5 DEF Refreshed
    <2>3. PICK order \in SetToSeqs({i \in batches : failures[i] < Tries}) :
            UpdateCache(first, failures, order)
        BY <2>2
    <2> DEFINE fetched == FlattenSeq([k \in DOMAIN order |-> Slice(topVideos, refresh.size, order[k])])
    <2>4. cache' \in {fetched, cache}
        BY <2>3 DEF UpdateCache, Kept
    <2>5. fetched \in Seq(Video)
        BY TopVideos, UpdatedCache
    <2>6. topVideos \in Seq(ToSet(topVideos))
        BY TopVideos DEF ToSet
    <2>7. fetched \in Seq(ToSet(topVideos))
        BY <2>6, UpdatedCache
    <2> HIDE DEF fetched
    <2> QED
        BY <2>1, <2>4, <2>5, <2>7 DEF CacheInv
<1>6. CASE Background
    BY <1>2, <1>3, <1>4, <1>5, <1>6 DEF Background
<1>7. CASE UNCHANGED vars
    BY <1>1, <1>7 DEF vars
<1>8. ASSUME NEW r \in Request, RequestMoves(r) \/ Arrives(r) \/ CallBegins(r) PROVE CacheInv'
    BY <1>1, <1>8, RequestFrame DEF StaticVars
<1>9. ASSUME NEW s \in Service, Probes(s) PROVE CacheInv'
    BY <1>1, <1>9, ProbesFrame
<1> QED
    BY <1>6, <1>7, <1>8, <1>9, ServiceSteps
-------------------------------------------------------------------------------------
(* Counting. A step adds d to the counters, and to what is known of its request.       *)

Known == {"TotalErrors", "StaleResponses"}
Tally(names, k) == Cardinality({n \in DOMAIN names : names[n] = k})
Tallies(names) == [k \in Counters |-> Tally(names, k)]

Adds(r, d) ==
    /\ DOMAIN stats' = Counters
    /\ \A k \in Counters \ {"ActiveRequests"} : stats'[k] = stats[k] + d[k]
    /\ hist' = [hist EXCEPT ![r] = [k \in Known |-> hist[r][k] + d[k]]]

HistType == hist \in [Request -> [Known -> Nat]] /\ stats \in [Counters -> Nat]

LEMMA TallyType ==
    ASSUME NEW names \in Seq(Counters), NEW k
    PROVE  /\ Tally(names, k) \in Nat
           /\ (\A n \in DOMAIN names : names[n] # k) => Tally(names, k) = 0
           /\ \A n \in DOMAIN names : names[n] = k => Tally(names, k) >= 1
           /\ \A n \in DOMAIN names :
                names[n] = k /\ (\A j \in DOMAIN names : names[j] = k => j = n) => Tally(names, k) = 1
<1> DEFINE T == {n \in DOMAIN names : names[n] = k}
<1>1. IsFiniteSet(T)
    BY DomainOf, FS_Subset
<1>2. Cardinality(T) \in Nat
    BY <1>1, FS_CardinalityType
<1>3. ASSUME \A n \in DOMAIN names : names[n] # k PROVE Cardinality(T) = 0
    <2>1. T = {}
        BY <1>3
    <2> QED
        BY <2>1, FS_EmptySet
<1>4. ASSUME NEW n \in DOMAIN names, names[n] = k PROVE Cardinality(T) >= 1
    <2>1. T # {}
        BY <1>4
    <2>2. Cardinality(T) # 0
        BY <1>1, <2>1, FS_EmptySet
    <2> QED
        BY <1>2, <2>2
<1>5. ASSUME NEW n \in DOMAIN names, names[n] = k, \A j \in DOMAIN names : names[j] = k => j = n
      PROVE  Cardinality(T) = 1
    <2>1. T = {n}
        BY <1>5
    <2> QED
        BY <2>1, FS_Singleton
<1> QED
    BY <1>2, <1>3, <1>4, <1>5 DEF Tally

LEMMA TalliesType ==
    ASSUME NEW names \in Seq(Counters)
    PROVE  Tallies(names) \in [Counters -> Nat]
BY TallyType DEF Tallies

LEMMA Remembered ==
    ASSUME HistType, NEW r \in Request, NEW names \in Seq(Counters), Remember(r, names)
    PROVE  hist' = [hist EXCEPT ![r] = [k \in Known |-> hist[r][k] + Tallies(names)[k]]]
<1>1. DOMAIN hist[r] = Known /\ Known \subseteq Counters
    BY DEF HistType, Known, Counters
<1>2. hist' = [hist EXCEPT ![r] = [k \in Known |-> hist[r][k] + Tally(names, k)]]
    BY <1>1 DEF Remember, Tally
<1>3. [k \in Known |-> hist[r][k] + Tally(names, k)] = [k \in Known |-> hist[r][k] + Tallies(names)[k]]
    BY <1>1 DEF Tallies
<1> QED
    BY <1>2, <1>3

LEMMA AddedIs ==
    ASSUME HistType, NEW names \in Seq(Counters)
    PROVE  Added(names) = [k \in Counters |-> stats[k] + Tallies(names)[k]]
BY DEF HistType, Added, Tallies, Tally

LEMMA Counted ==
    ASSUME HistType, NEW r \in Request, NEW names \in Seq(Counters), Count(r, names)
    PROVE  /\ Tallies(names) \in [Counters -> Nat] /\ Adds(r, Tallies(names))
           /\ stats'["ActiveRequests"] = stats["ActiveRequests"] + Tally(names, "ActiveRequests")
<1>1. hist' = [hist EXCEPT ![r] = [k \in Known |-> hist[r][k] + Tallies(names)[k]]]
    BY Remembered DEF Count
<1>2. stats' = [k \in Counters |-> stats[k] + Tallies(names)[k]]
    BY AddedIs DEF Count
<1>3. stats'["ActiveRequests"] = stats["ActiveRequests"] + Tally(names, "ActiveRequests")
    BY <1>2 DEF Tallies, Counters
<1> QED
    BY <1>1, <1>2, <1>3, TalliesType DEF Adds

NoTallies == [k \in Counters |-> 0]

LEMMA NotCounted ==
    ASSUME HistType, NEW r \in Request, Uncounted
    PROVE  /\ NoTallies \in [Counters -> Nat] /\ Adds(r, NoTallies)
           /\ stats'["ActiveRequests"] = stats["ActiveRequests"]
<1>1. NoTallies \in [Counters -> Nat] /\ Known \subseteq Counters
    BY DEF NoTallies, Known, Counters
<1>2. UNCHANGED <<hist, stats>>
    BY DEF Uncounted
<1>3. \A k \in Known : hist[r][k] + NoTallies[k] = hist[r][k]
    BY <1>1 DEF NoTallies, HistType
<1>4. [k \in Known |-> hist[r][k] + NoTallies[k]] = hist[r]
    BY <1>3 DEF HistType
<1>5. hist' = [hist EXCEPT ![r] = [k \in Known |-> hist[r][k] + NoTallies[k]]]
    BY <1>2, <1>4 DEF HistType
<1>6. \A k \in Counters : stats'[k] = stats[k] + NoTallies[k]
    BY <1>2 DEF NoTallies, HistType
<1> QED
    BY <1>1, <1>2, <1>5, <1>6 DEF Adds, HistType
-------------------------------------------------------------------------------------
(* The requests and their fan-outs.                                                    *)

Stages == {"idle", "dialUser", "dialUserAgain", "user", "userAgain", "users", "fall", "dialVideo",
           "dialVideoAgain", "fanOut", "videos", "done"}
Under == Stages \ {"idle", "done"}
Kinds == {"none", "fresh", "stale", "error", "refused"}
Hows == [instead : {"error", "fresh"}, ranked : BOOLEAN, late : BOOLEAN]
Responses == [kind : Kinds, videos : Seq(Video)]
Requests ==
    [pc : Stages, user : AnyUser, limit : Int, ctx : {"live", "expired", "canceled"}, how : Hows,
     resp : Responses]

Labels == {"call", "again", "late", "fall", "report", "exit"}
FanFields == {"svc", "ids", "size", "got", "worker", "errorChan", "returnChanCache", "closed", "gaveUp"}
IdsOf(s) == IF s = "user" THEN DOMAIN User ELSE Video
Busy(w) == {i \in DOMAIN w : w[i] # "exit"}

\* A goroutine of a fan-out that is not through has room in either channel, and the
\* channels are closed when all are.
Fan(lim, f) ==
    /\ DOMAIN f = FanFields /\ f.svc \in Service
    /\ f.ids \in Seq(IdsOf(f.svc)) /\ f.got \in Seq(IdsOf(f.svc))
    /\ f.size \in Nat \ {0} /\ f.size <= lim[f.svc]
    /\ f.worker \in [DOMAIN f.worker -> Labels] /\ DOMAIN f.worker \in {{}, 0 .. Len(f.ids) \div f.size}
    /\ f.errorChan \in Seq({"nil", "err"}) /\ f.returnChanCache \in Seq(Seq(Video))
    /\ Cardinality(Busy(f.worker)) + Len(f.errorChan) + Len(f.returnChanCache)
            <= Len(f.ids) \div f.size + 1
    /\ f.closed => Busy(f.worker) = {}

\* Where a request is and the fan-out it has: the response comes at the end, and
\* only for a user who was found is there anything to rank.
Course(q, f) ==
    /\ q.pc = "idle" => q = NewRequest /\ f = NewFan
    /\ q.pc # "done" => q.resp.kind = "none"
    /\ q.pc \in {"users", "dialVideo", "dialVideoAgain", "fanOut", "videos"} => q.user \in DOMAIN User
    /\ q.pc = "fall" /\ q.how.ranked => q.user \in DOMAIN User
    /\ q.pc \in {"users", "dialVideo", "dialVideoAgain", "fanOut"} => f.svc = "user"
    /\ q.pc = "videos" => f.svc = "video"

RequestInv ==
    /\ req \in [Request -> Requests] /\ DOMAIN fan = Request
    /\ \A r \in Request : Fan(MaxBatchSize, fan[r]) /\ Course(req[r], fan[r])

\* Nothing changes but what is about r.
Only(r) ==
    /\ DOMAIN req' = Request /\ DOMAIN fan' = Request
    /\ \A x \in Request \ {r} : req'[x] = req[x] /\ fan'[x] = fan[x]

\* The ways in which a request moves and is counted.
Enters(r, d) ==
    /\ req[r].pc = "idle" /\ req'[r].pc \in Under /\ req'[r].resp = req[r].resp
    /\ req'[r].pc = "fall" => d["TotalErrors"] >= 1
    /\ d["TotalRequests"] = 1 /\ stats'["ActiveRequests"] = stats["ActiveRequests"] + 1
Refuses(r, d) ==
    /\ req[r].pc = "idle" /\ req'[r].pc = "done" /\ req'[r].resp.kind = "refused"
    /\ d["TotalRequests"] = 1 /\ stats'["ActiveRequests"] = stats["ActiveRequests"]
Goes(r, d) ==
    /\ req[r].pc \in Under /\ req'[r].pc \in Under /\ req'[r].resp = req[r].resp
    /\ req'[r].pc = "fall" => req'[r].how.late \/ d["TotalErrors"] >= 1
    /\ d["TotalRequests"] = 0 /\ stats'["ActiveRequests"] = stats["ActiveRequests"]
Ends(r, d) ==
    /\ req[r].pc \in Under /\ req'[r].pc = "done" /\ req'[r].how = req[r].how
    /\ req'[r].resp.kind \in {"fresh", "stale", "error"}
    /\ req'[r].resp.kind = "stale" => d["StaleResponses"] >= 1
    /\ req'[r].resp.kind \in {"error", "stale"} =>
        \/ d["TotalErrors"] >= 1
        \/ req[r].pc = "fall" /\ (req[r].how.late => req'[r].resp.kind = "stale")
    /\ d["TotalRequests"] = 0 /\ stats'["ActiveRequests"] = stats["ActiveRequests"] - 1
Works(r, d) ==
    /\ UNCHANGED req /\ req[r].pc # "idle"
    /\ d["TotalRequests"] = 0 /\ stats'["ActiveRequests"] = stats["ActiveRequests"]

Moves(r, d) == Enters(r, d) \/ Refuses(r, d) \/ Goes(r, d) \/ Ends(r, d) \/ Works(r, d)

\* What is shown of every step of a request.
Sound(r) ==
    /\ Only(r) /\ req'[r] \in Requests
    /\ Fan(MaxBatchSize, fan'[r]) /\ Course(req'[r], fan'[r])
    /\ \E d \in [Counters -> Nat] : Adds(r, d) /\ Moves(r, d)

ServiceInv == StaticInv /\ CacheInv /\ RequestInv /\ HistType

\* The fields of a request, after each way of changing them.
LEMMA GotoFields ==
    ASSUME req \in [Request -> Requests], NEW r \in Request, NEW x \in Stages, Goto(r, x)
    PROVE  /\ DOMAIN req' = Request /\ req'[r] \in Requests
           /\ \A y \in Request \ {r} : req'[y] = req[y]
           /\ req'[r].pc = x /\ req'[r].user = req[r].user /\ req'[r].limit = req[r].limit
           /\ req'[r].how = req[r].how /\ req'[r].resp = req[r].resp
BY DEF Goto, Requests

LEMMA FallFields ==
    ASSUME req \in [Request -> Requests], NEW r \in Request, NEW instead \in {"error", "fresh"},
           NEW ranked \in BOOLEAN, NEW late \in BOOLEAN, FallTo(r, instead, ranked, late)
    PROVE  /\ DOMAIN req' = Request /\ req'[r] \in Requests
           /\ \A y \in Request \ {r} : req'[y] = req[y]
           /\ req'[r].pc = "fall" /\ req'[r].user = req[r].user /\ req'[r].limit = req[r].limit
           /\ req'[r].how.ranked = ranked /\ req'[r].how.late = late /\ req'[r].resp = req[r].resp
<1> DEFINE h == [instead |-> instead, ranked |-> ranked, late |-> late]
<1>1. h \in Hows /\ h.ranked = ranked /\ h.late = late
    BY DEF Hows
<1>2. req' = [req EXCEPT ![r].pc = "fall", ![r].how = h]
    BY DEF FallTo
<1> HIDE DEF h
<1>3. "fall" \in Stages
    BY DEF Stages
<1>4. /\ DOMAIN req' = Request /\ req'[r] \in Requests
      /\ \A y \in Request \ {r} : req'[y] = req[y]
      /\ req'[r].pc = "fall" /\ req'[r].user = req[r].user /\ req'[r].limit = req[r].limit
      /\ req'[r].how = h /\ req'[r].resp = req[r].resp
    BY <1>1, <1>2, <1>3 DEF Requests
<1> QED
    BY <1>1, <1>4

LEMMA FinishFields ==
    ASSUME HistType, req \in [Request -> Requests], NEW r \in Request, NEW names \in Seq(Counters),
           NEW x \in Responses, Finish(r, names, x), \A n \in DOMAIN names : names[n] # "ActiveRequests"
    PROVE  /\ DOMAIN req' = Request /\ req'[r] \in Requests
           /\ \A y \in Request \ {r} : req'[y] = req[y]
           /\ req'[r].pc = "done" /\ req'[r].how = req[r].how /\ req'[r].resp = x
           /\ Tallies(names) \in [Counters -> Nat] /\ Adds(r, Tallies(names))
           /\ stats'["ActiveRequests"] = stats["ActiveRequests"] - 1
<1>1. /\ req' = [req EXCEPT ![r].pc = "done", ![r].resp = x, ![r].ctx = "canceled"]
      /\ stats' = [Added(names) EXCEPT !.ActiveRequests = @ - 1] /\ Remember(r, names)
    BY DEF Finish
<1>2. "done" \in Stages
    BY DEF Stages
<1>3. /\ DOMAIN req' = Request /\ req'[r] \in Requests
      /\ \A y \in Request \ {r} : req'[y] = req[y]
      /\ req'[r].pc = "done" /\ req'[r].how = req[r].how /\ req'[r].resp = x
    BY <1>1, <1>2 DEF Requests
<1>4. hist' = [hist EXCEPT ![r] = [k \in Known |-> hist[r][k] + Tallies(names)[k]]]
    BY <1>1, Remembered
<1>5. Added(names) = [k \in Counters |-> stats[k] + Tallies(names)[k]]
    BY AddedIs
<1>6. /\ DOMAIN stats' = Counters
      /\ \A k \in Counters \ {"ActiveRequests"} : stats'[k] = stats[k] + Tallies(names)[k]
      /\ stats'["ActiveRequests"] = stats["ActiveRequests"] + Tallies(names)["ActiveRequests"] - 1
    <2>1. "ActiveRequests" \in Counters
        BY DEF Counters
    <2> DEFINE a == Added(names)
    <2>2. stats' = [a EXCEPT !["ActiveRequests"] = a["ActiveRequests"] - 1]
        BY <1>1
    <2> DEFINE t == Tallies(names)
    <2>3. a = [k \in Counters |-> stats[k] + t[k]]
        BY <1>5
    <2> HIDE DEF a, t
    <2>4. /\ DOMAIN stats' = Counters
          /\ \A k \in Counters \ {"ActiveRequests"} : stats'[k] = stats[k] + t[k]
          /\ stats'["ActiveRequests"] = stats["ActiveRequests"] + t["ActiveRequests"] - 1
        <3>1. t \in [Counters -> Nat] /\ stats \in [Counters -> Nat]
            BY TalliesType DEF HistType, t
        <3>2. a \in [Counters -> Nat] /\ \A k \in Counters : a[k] = stats[k] + t[k]
            BY ONLY <2>3, <3>1
        <3>3. PICK b \in Int : b = a["ActiveRequests"] - 1
            BY ONLY <2>1, <3>2
        <3>4. stats' = [a EXCEPT !["ActiveRequests"] = b]
            BY <2>2, <3>3
        <3>5. /\ DOMAIN stats' = Counters /\ stats'["ActiveRequests"] = b
              /\ \A k \in Counters \ {"ActiveRequests"} : stats'[k] = a[k]
            BY ONLY <2>1, <3>2, <3>4
        <3>6. b = stats["ActiveRequests"] + t["ActiveRequests"] - 1
            <4>1. PICK n \in Nat : n = stats["ActiveRequests"]
                BY <2>1, <3>1
            <4>2. PICK y \in Nat : y = t["ActiveRequests"]
                BY <2>1, <3>1
            <4>3. a["ActiveRequests"] = n + y
                BY <2>1, <3>2, <4>1, <4>2
            <4>4. b = n + y - 1
                BY <3>3, <4>3
            <4> QED
                BY <4>1, <4>2, <4>4
        <3>7. \A k \in Counters \ {"ActiveRequests"} : stats'[k] = stats[k] + t[k]
            BY <3>2, <3>5
        <3> QED
            BY <3>5, <3>6, <3>7
    <2> QED
        BY <2>4 DEF t
<1>7. Tallies(names)["ActiveRequests"] = 0 /\ stats["ActiveRequests"] \in Nat
    <2>1. "ActiveRequests" \in Counters
        BY DEF Counters
    <2> QED
        BY <2>1, TallyType DEF Tallies, HistType
<1>8. stats'["ActiveRequests"] = stats["ActiveRequests"] - 1
    BY <1>6, <1>7
<1> QED
    BY <1>3, <1>4, <1>6, <1>8, TalliesType DEF Adds
\* Most steps count neither a request nor an active one.
Quiet(names) ==
    names \in Seq(Counters) /\ \A n \in DOMAIN names : names[n] \notin {"TotalRequests", "ActiveRequests"}
Has(names, k) == \E n \in DOMAIN names : names[n] = k
QuietStep(r, d) ==
    /\ d \in [Counters -> Nat] /\ Adds(r, d) /\ d["TotalRequests"] = 0
    /\ stats'["ActiveRequests"] = stats["ActiveRequests"]

LEMMA TalliesHave ==
    ASSUME NEW names, Quiet(names)
    PROVE  /\ Tallies(names) \in [Counters -> Nat] /\ Tallies(names)["TotalRequests"] = 0
           /\ Tally(names, "ActiveRequests") = 0
           /\ \A k \in Counters : Has(names, k) => Tallies(names)[k] >= 1
<1>1. names \in Seq(Counters) /\ {"TotalRequests", "ActiveRequests"} \subseteq Counters
    BY DEF Quiet, Counters
<1>2. Tally(names, "TotalRequests") = 0 /\ Tally(names, "ActiveRequests") = 0
    BY <1>1, TallyType DEF Quiet
<1>3. \A k \in Counters : Has(names, k) => Tally(names, k) >= 1
    BY <1>1, TallyType DEF Has
<1> QED
    BY <1>1, <1>2, <1>3, TalliesType DEF Tallies

LEMMA QuietCount ==
    ASSUME HistType, NEW r \in Request, NEW names, Quiet(names), Count(r, names)
    PROVE  /\ QuietStep(r, Tallies(names))
           /\ \A k \in Counters : Has(names, k) => Tallies(names)[k] >= 1
<1>1. names \in Seq(Counters)
    BY DEF Quiet
<1>2. /\ Tallies(names) \in [Counters -> Nat] /\ Adds(r, Tallies(names))
      /\ stats'["ActiveRequests"] = stats["ActiveRequests"] + Tally(names, "ActiveRequests")
    BY <1>1, Counted
<1>3. stats["ActiveRequests"] \in Nat
    BY DEF HistType, Counters
<1>4. stats'["ActiveRequests"] = stats["ActiveRequests"]
    BY <1>2, <1>3, TalliesHave
<1> QED
    BY <1>2, <1>4, TalliesHave DEF QuietStep

LEMMA QuietUncounted ==
    ASSUME HistType, NEW r \in Request, Uncounted
    PROVE  QuietStep(r, NoTallies)
<1>1. NoTallies["TotalRequests"] = 0
    BY DEF NoTallies, Counters
<1> QED
    BY <1>1, NotCounted DEF QuietStep

FanOnly(r) ==
    /\ DOMAIN fan' = Request /\ \A x \in Request \ {r} : fan'[x] = fan[x]
    /\ Fan(MaxBatchSize, fan'[r])

LEMMA SameFan ==
    ASSUME RequestInv, NEW r \in Request, UNCHANGED fan
    PROVE  FanOnly(r) /\ fan'[r] = fan[r]
BY DEF RequestInv, FanOnly

\* The request goes on, to the cache, or to its end.
LEMMA GoesOn ==
    ASSUME ServiceInv, NEW r \in Request, NEW x \in Under, x # "fall", req[r].pc \in Under, Goto(r, x),
           FanOnly(r), NEW d, QuietStep(r, d),
           x \in {"users", "dialVideo", "dialVideoAgain", "fanOut", "videos"} => req[r].user \in DOMAIN User,
           x \in {"users", "dialVideo", "dialVideoAgain", "fanOut"} => fan'[r].svc = "user",
           x = "videos" => fan'[r].svc = "video"
    PROVE  Sound(r)
<1>1. req \in [Request -> Requests] /\ x \in Stages /\ Course(req[r], fan[r])
    BY DEF ServiceInv, RequestInv, Under
<1>2. /\ DOMAIN req' = Request /\ req'[r] \in Requests
      /\ \A y \in Request \ {r} : req'[y] = req[y]
      /\ req'[r].pc = x /\ req'[r].user = req[r].user /\ req'[r].resp = req[r].resp
    BY <1>1, GotoFields
<1>3. Course(req'[r], fan'[r])
    BY <1>1, <1>2 DEF Course, Under
<1>4. Goes(r, d)
    BY <1>2 DEF Goes, QuietStep
<1> QED
    BY <1>2, <1>3, <1>4 DEF Sound, Only, FanOnly, Moves, QuietStep

LEMMA FallsTo ==
    ASSUME ServiceInv, NEW r \in Request, req[r].pc \in Under, NEW instead \in {"error", "fresh"},
           NEW ranked \in BOOLEAN, NEW late \in BOOLEAN, FallTo(r, instead, ranked, late),
           FanOnly(r), NEW d, QuietStep(r, d), ranked => req[r].user \in DOMAIN User,
           late \/ d["TotalErrors"] >= 1
    PROVE  Sound(r)
<1>1. req \in [Request -> Requests] /\ Course(req[r], fan[r])
    BY DEF ServiceInv, RequestInv
<1>2. /\ DOMAIN req' = Request /\ req'[r] \in Requests
      /\ \A y \in Request \ {r} : req'[y] = req[y]
      /\ req'[r].pc = "fall" /\ req'[r].user = req[r].user
      /\ req'[r].how.ranked = ranked /\ req'[r].how.late = late /\ req'[r].resp = req[r].resp
    BY <1>1, FallFields
<1>3. Course(req'[r], fan'[r])
    BY <1>1, <1>2 DEF Course, Under
<1>4. Goes(r, d)
    BY <1>2 DEF Goes, QuietStep, Under, Stages
<1> QED
    BY <1>2, <1>3, <1>4 DEF Sound, Only, FanOnly, Moves, QuietStep

LEMMA EndsWith ==
    ASSUME ServiceInv, NEW r \in Request, req[r].pc \in Under, NEW names, Quiet(names),
           NEW kind \in {"fresh", "stale", "error"}, NEW videos \in Seq(Video),
           Finish(r, names, Response(kind, videos)), FanOnly(r),
           kind = "stale" => Has(names, "StaleResponses"),
           kind \in {"error", "stale"} =>
                \/ Has(names, "TotalErrors")
                \/ req[r].pc = "fall" /\ (req[r].how.late => kind = "stale")
    PROVE  Sound(r)
<1> DEFINE x == Response(kind, videos)
           d == Tallies(names)
<1>1. req \in [Request -> Requests] /\ HistType
    BY DEF ServiceInv, RequestInv
<1>2. x \in Responses /\ x.kind = kind
    BY DEF Response, Responses, Kinds
<1>3. names \in Seq(Counters) /\ \A n \in DOMAIN names : names[n] # "ActiveRequests"
    BY DEF Quiet
<1>4. Finish(r, names, x)
    OBVIOUS
<1> HIDE DEF x
<1>5. /\ DOMAIN req' = Request /\ req'[r] \in Requests
      /\ \A y \in Request \ {r} : req'[y] = req[y]
      /\ req'[r].pc = "done" /\ req'[r].how = req[r].how /\ req'[r].resp = x
      /\ d \in [Counters -> Nat] /\ Adds(r, d)
      /\ stats'["ActiveRequests"] = stats["ActiveRequests"] - 1
    BY <1>1, <1>2, <1>3, <1>4, FinishFields
<1>6. /\ d["TotalRequests"] = 0
      /\ \A k \in Counters : Has(names, k) => d[k] >= 1
    BY TalliesHave
<1> HIDE DEF d
<1>7. Course(req'[r], fan'[r])
    BY <1>5 DEF Course
<1>8. Ends(r, d)
    BY <1>2, <1>5, <1>6 DEF Ends, Counters
<1> QED
    BY <1>5, <1>7, <1>8 DEF Sound, Only, FanOnly, Moves
\* A fan-out begins: as many goroutines as there is room for.
LEMMA FanStarts ==
    ASSUME ServiceInv, NEW r \in Request, NEW s \in Service, NEW l \in Seq(IdsOf(s)), FanOut(r, s, l)
    PROVE  FanOnly(r) /\ fan'[r].svc = s
<1> DEFINE m == batch[s]
           w == [i \in 0 .. Len(l) \div m |-> "call"]
           f == [svc |-> s, ids |-> l, size |-> m, got |-> <<>>, worker |-> w,
                 errorChan |-> <<>>, returnChanCache |-> <<>>, closed |-> FALSE,
                 gaveUp |-> fan[r].gaveUp]
<1>1. DOMAIN fan = Request /\ m \in Nat \ {0} /\ m <= MaxBatchSize[s]
    BY DEF ServiceInv, RequestInv, StaticInv
<1>2. fan' = [fan EXCEPT ![r] = f]
    BY DEF FanOut
<1>3. PICK q \in Nat : q = Len(l) \div m
    BY <1>1, SliceSound
<1>4. Busy(w) = 0 .. q /\ Cardinality(0 .. q) = q + 1
    <2>1. 0 \in Int /\ q \in Int /\ ~(0 > q)
        OBVIOUS
    <2>2. Cardinality(0 .. q) = IF 0 > q THEN 0 ELSE q - 0 + 1
        BY <2>1, FS_Interval
    <2>3. Busy(w) = 0 .. q
        BY <1>3 DEF Busy
    <2> QED
        BY <2>1, <2>2, <2>3
<1>5. w \in [DOMAIN w -> Labels] /\ DOMAIN w = 0 .. Len(l) \div m
    BY DEF Labels
<1> HIDE DEF w, m
<1>6. /\ DOMAIN f = FanFields /\ f.svc = s /\ f.ids = l /\ f.size = m /\ f.got = <<>> /\ f.worker = w
      /\ f.errorChan = <<>> /\ f.returnChanCache = <<>> /\ f.closed = FALSE
    BY DEF FanFields
<1> HIDE DEF f
<1>7. Cardinality(Busy(w)) + Len(f.errorChan) + Len(f.returnChanCache) <= Len(l) \div m + 1
    BY <1>3, <1>4, <1>6
<1>8. Fan(MaxBatchSize, f)
    BY <1>1, <1>5, <1>6, <1>7 DEF Fan
<1>9. fan'[r] = f /\ DOMAIN fan' = Request /\ \A x \in Request \ {r} : fan'[x] = fan[x]
    BY <1>1, <1>2
<1> QED
    BY <1>6, <1>8, <1>9 DEF FanOnly

\* The channels are closed when all goroutines of the fan-out are through.
LEMMA FanCloses ==
    ASSUME ServiceInv, NEW r \in Request, AllDone(r), fan' = [fan EXCEPT ![r].closed = TRUE]
    PROVE  FanOnly(r) /\ fan'[r].svc = fan[r].svc
<1> DEFINE f == fan[r]
           g == fan'[r]
<1>1. DOMAIN fan = Request /\ Fan(MaxBatchSize, f)
    BY DEF ServiceInv, RequestInv
<1>2. DOMAIN f = FanFields
    BY <1>1 DEF Fan
<1>3. /\ DOMAIN fan' = Request /\ \A x \in Request \ {r} : fan'[x] = fan[x]
      /\ g = [f EXCEPT !.closed = TRUE]
    BY <1>1
<1>4. Busy(f.worker) = {}
    BY DEF AllDone, Busy
<1> HIDE DEF f, g
<1>5. /\ DOMAIN g = FanFields /\ g.svc = f.svc /\ g.ids = f.ids /\ g.size = f.size /\ g.got = f.got
      /\ g.worker = f.worker /\ g.errorChan = f.errorChan /\ g.returnChanCache = f.returnChanCache
    BY <1>2, <1>3 DEF FanFields
<1>6. Fan(MaxBatchSize, g)
    BY <1>1, <1>4, <1>5 DEF Fan
<1> QED
    BY <1>3, <1>5, <1>6 DEF FanOnly, f, g

LEMMA QuietNames ==
    /\ Quiet(<<>>)
    /\ Quiet(<<"UserServiceErrors">>) /\ Quiet(<<"VideoServiceErrors">>)
    /\ Quiet(<<"TotalErrors">>) /\ Has(<<"TotalErrors">>, "TotalErrors")
    /\ Quiet(<<"TotalErrors", "UserServiceErrors">>) /\ Has(<<"TotalErrors", "UserServiceErrors">>, "TotalErrors")
    /\ Quiet(<<"TotalErrors", "VideoServiceErrors">>) /\ Has(<<"TotalErrors", "VideoServiceErrors">>, "TotalErrors")
    /\ Quiet(<<"UserServiceErrors", "TotalErrors">>) /\ Has(<<"UserServiceErrors", "TotalErrors">>, "TotalErrors")
    /\ Quiet(<<"StaleResponses">>) /\ Has(<<"StaleResponses">>, "StaleResponses")
    /\ Quiet(<<"StaleResponses", "TotalErrors">>)
    /\ Has(<<"StaleResponses", "TotalErrors">>, "StaleResponses")
    /\ Has(<<"StaleResponses", "TotalErrors">>, "TotalErrors")
<1>1. Quiet(<<>>)
    BY DEF Quiet
<1>2. ASSUME NEW a \in Counters \ {"TotalRequests", "ActiveRequests"}
      PROVE  Quiet(<<a>>) /\ Has(<<a>>, a)
    BY DEF Quiet, Has
<1>3. ASSUME NEW a \in Counters \ {"TotalRequests", "ActiveRequests"},
             NEW b \in Counters \ {"TotalRequests", "ActiveRequests"}
      PROVE  Quiet(<<a, b>>) /\ Has(<<a, b>>, a) /\ Has(<<a, b>>, b)
    <2>1. <<a, b>> \in Seq(Counters) /\ DOMAIN <<a, b>> = {1, 2} /\ <<a, b>>[1] = a /\ <<a, b>>[2] = b
        OBVIOUS
    <2> DEFINE t == <<a, b>>
    <2> HIDE DEF t
    <2>2. Quiet(t) /\ Has(t, a) /\ Has(t, b)
        BY <2>1 DEF Quiet, Has, t
    <2> QED
        BY <2>2 DEF t
<1>4. {"TotalErrors", "UserServiceErrors", "VideoServiceErrors", "StaleResponses"}
        \subseteq Counters \ {"TotalRequests", "ActiveRequests"}
    BY DEF Counters
<1> QED
    BY <1>1, <1>2, <1>3, <1>4

LEMMA DialUserStep ==
    ASSUME ServiceInv, NEW r \in Request, DialUser(r)
    PROVE  Sound(r)
<1>1. HistType /\ RequestInv
    BY DEF ServiceInv
<1>2. req[r].pc \in Under /\ FanOnly(r)
    BY <1>1, SameFan DEF DialUser, Under, Stages
<1>3. CASE Goto(r, "user") /\ Uncounted
    <2>1. QuietStep(r, NoTallies)
        BY <1>1, <1>3, QuietUncounted
    <2>2. "user" \in Under
        BY DEF Under, Stages
    <2> QED
        BY <1>2, <1>3, <2>1, <2>2, GoesOn
<1>4. CASE Goto(r, "dialUserAgain") /\ Count(r, <<"UserServiceErrors">>)
    <2>1. QuietStep(r, Tallies(<<"UserServiceErrors">>))
        BY <1>1, <1>4, QuietCount, QuietNames
    <2>2. "dialUserAgain" \in Under
        BY DEF Under, Stages
    <2> QED
        BY <1>2, <1>4, <2>1, <2>2, GoesOn
<1>5. CASE FallTo(r, "error", FALSE, TRUE) /\ Count(r, <<"UserServiceErrors">>)
    <2>1. QuietStep(r, Tallies(<<"UserServiceErrors">>))
        BY <1>1, <1>5, QuietCount, QuietNames
    <2> QED
        BY <1>2, <1>5, <2>1, FallsTo
<1>6. CASE FallToError(r) /\ Count(r, <<"TotalErrors", "UserServiceErrors">>)
    <2> DEFINE names == <<"TotalErrors", "UserServiceErrors">>
    <2>1. Quiet(names) /\ Has(names, "TotalErrors") /\ Count(r, names)
        BY <1>6, QuietNames
    <2> HIDE DEF names
    <2>2. QuietStep(r, Tallies(names)) /\ Tallies(names)["TotalErrors"] >= 1
        BY <1>1, <2>1, QuietCount DEF Counters
    <2> QED
        BY <1>2, <1>6, <2>2, FallsTo DEF FallToError
<1> QED
    BY <1>3, <1>4, <1>5, <1>6 DEF DialUser
LEMMA QuietBoth ==
    ASSUME NEW a, NEW b, Quiet(a), Quiet(b)
    PROVE  /\ Quiet(a \o b)
           /\ \A k : Has(a, k) \/ Has(b, k) => Has(a \o b, k)
<1>1. a \in Seq(Counters) /\ b \in Seq(Counters)
    BY DEF Quiet
<1>2. /\ a \o b \in Seq(Counters) /\ Len(a) \in Nat /\ Len(b) \in Nat
      /\ DOMAIN (a \o b) = 1 .. Len(a) + Len(b) /\ DOMAIN a = 1 .. Len(a) /\ DOMAIN b = 1 .. Len(b)
    BY <1>1
<1>3. \A n \in 1 .. Len(a) + Len(b) : (a \o b)[n] = IF n <= Len(a) THEN a[n] ELSE b[n - Len(a)]
    BY <1>1
<1> DEFINE c == a \o b
<1> HIDE DEF c
<1>4. ASSUME NEW n \in DOMAIN c PROVE c[n] \notin {"TotalRequests", "ActiveRequests"}
    <2>1. CASE n <= Len(a)
        BY <1>2, <1>3, <2>1 DEF Quiet, c
    <2>2. CASE ~(n <= Len(a))
        <3>1. n - Len(a) \in DOMAIN b
            BY <1>2, <2>2 DEF c
        <3>2. c[n] = b[n - Len(a)]
            BY <1>2, <1>3, <2>2 DEF c
        <3> QED
            BY <3>1, <3>2 DEF Quiet
    <2> QED
        BY <2>1, <2>2
<1>5. Quiet(c)
    BY <1>2, <1>4 DEF Quiet, c
<1>6. ASSUME NEW k, Has(a, k) PROVE Has(c, k)
    <2>1. PICK n \in 1 .. Len(a) : a[n] = k
        BY <1>2, <1>6 DEF Has
    <2>2. n \in 1 .. Len(a) + Len(b) /\ n <= Len(a)
        BY <1>2
    <2> QED
        BY <1>2, <1>3, <2>1, <2>2 DEF Has, c
<1>7. ASSUME NEW k, Has(b, k) PROVE Has(c, k)
    <2>1. PICK n \in 1 .. Len(b) : b[n] = k
        BY <1>2, <1>7 DEF Has
    <2>2. PICK m \in 1 .. Len(a) + Len(b) : m = Len(a) + n
        BY <1>2
    <2>3. ~(m <= Len(a)) /\ m - Len(a) = n
        BY <1>2, <2>2
    <2>4. c[m] = k
        BY <1>3, <2>1, <2>3 DEF c
    <2> QED
        BY <1>2, <2>4 DEF Has, c
<1> QED
    BY <1>5, <1>6, <1>7 DEF c

\* To the cache, with an error counted.
LEMMA FallsCounted ==
    ASSUME ServiceInv, NEW r \in Request, req[r].pc \in Under, NEW instead \in {"error", "fresh"},
           NEW ranked \in BOOLEAN, FallTo(r, instead, ranked, FALSE), FanOnly(r),
           ranked => req[r].user \in DOMAIN User,
           NEW names, Quiet(names), Has(names, "TotalErrors"), Count(r, names)
    PROVE  Sound(r)
<1>1. QuietStep(r, Tallies(names)) /\ Tallies(names)["TotalErrors"] >= 1
    BY QuietCount DEF Counters, ServiceInv
<1> QED
    BY <1>1, FallsTo

LEMMA NoSuchUserStep ==
    ASSUME ServiceInv, NEW r \in Request, NoSuchUser(r)
    PROVE  Sound(r)
<1>1. req[r].pc \in Under /\ FanOnly(r)
    BY SameFan DEF NoSuchUser, Under, Stages, ServiceInv
<1>2. FallTo(r, "error", FALSE, FALSE) /\ Count(r, <<"TotalErrors">>)
    BY DEF NoSuchUser, FallToError
<1> QED
    BY <1>1, <1>2, QuietNames, FallsCounted

LEMMA FoundUser ==
    ASSUME NEW r, NEW u, OK(<<u>>) \in UserAnswers(r, <<u>>)
    PROVE  u \in DOMAIN User
<1>1. OK(<<u>>).code = "OK" /\ \A c : OK(<<u>>) = Failed(c) => c = "OK"
    BY DEF OK, Failed, Answer
<1>2. OK(<<u>>) \in GetUser(<<u>>)
    BY <1>1 DEF UserAnswers, MockUserServiceClient, userServiceClient, Invoke, UserService_Handler
<1>3. ToSet(<<u>>) \subseteq DOMAIN User
    BY <1>1, <1>2, GetUserTakes
<1>4. u \in ToSet(<<u>>)
    BY DEF ToSet
<1> QED
    BY <1>3, <1>4

LEMMA SubscriberStep ==
    ASSUME ServiceInv, NEW r \in Request, Subscriber(r)
    PROVE  Sound(r)
<1> DEFINE l == User[req[r].user].subscribedTo
<1>1. HistType /\ RequestInv
    BY DEF ServiceInv
<1>2. req[r].pc \in Under
    BY DEF Subscriber, Under, Stages
<1>3. req[r].user \in DOMAIN User
    BY FoundUser DEF Subscriber
<1>4. l \in Seq(IdsOf("user"))
    <2>1. l \in Seq(DOMAIN User \ {req[r].user})
        BY <1>3, BackendAssumption
    <2>2. l \in Seq(DOMAIN User)
        BY <2>1
    <2> QED
        BY <2>2 DEF IdsOf
<1> HIDE DEF l
<1>5. CASE FallToEmpty(r) /\ Count(r, <<"TotalErrors">>) /\ UNCHANGED fan
    <2>1. FanOnly(r)
        BY <1>1, <1>5, SameFan
    <2> QED
        BY <1>2, <1>3, <1>5, <2>1, QuietNames, FallsCounted DEF FallToEmpty
<1>6. CASE Goto(r, "users") /\ FanOut(r, "user", l) /\ Uncounted
    <2>1. QuietStep(r, NoTallies) /\ "users" \in Under /\ "user" \in Service
        BY <1>1, <1>6, QuietUncounted DEF Under, Stages, Service
    <2>2. FanOnly(r) /\ fan'[r].svc = "user"
        BY <1>4, <1>6, <2>1, FanStarts
    <2> QED
        BY <1>2, <1>3, <1>6, <2>1, <2>2, GoesOn
<1> QED
    BY <1>5, <1>6 DEF Subscriber, l

LEMMA SubscriberFailsStep ==
    ASSUME ServiceInv, NEW r \in Request, SubscriberFails(r)
    PROVE  Sound(r)
<1> DEFINE again == IF req[r].ctx = "expired" THEN <<"TotalErrors", "UserServiceErrors">> ELSE <<>>
<1>1. HistType /\ RequestInv
    BY DEF ServiceInv
<1>2. req[r].pc \in Under /\ FanOnly(r)
    BY <1>1, SameFan DEF SubscriberFails, Under, Stages
<1>3. Quiet(again) /\ (req[r].ctx = "expired" => Has(again, "TotalErrors"))
    BY QuietNames
<1>4. CASE req[r].ctx = "expired" /\ FallToError(r) /\ Count(r, <<"UserServiceErrors">> \o again)
    <2> DEFINE names == <<"UserServiceErrors">> \o again
    <2>1. Quiet(names) /\ Has(names, "TotalErrors")
        <3> HIDE DEF again
        <3> QED
            BY <1>3, <1>4, QuietNames, QuietBoth
    <2>2. Count(r, names)
        BY <1>4
    <2> HIDE DEF names
    <2> QED
        BY <1>2, <1>4, <2>1, <2>2, FallsCounted DEF FallToError
<1>5. CASE Goto(r, "userAgain") /\ Count(r, <<"UserServiceErrors">>)
    <2>1. QuietStep(r, Tallies(<<"UserServiceErrors">>)) /\ "userAgain" \in Under
        BY <1>1, <1>5, QuietCount, QuietNames DEF Under, Stages
    <2> QED
        BY <1>2, <1>5, <2>1, GoesOn
<1>6. CASE FallToError(r) /\ Count(r, <<"UserServiceErrors", "TotalErrors">>)
    BY <1>2, <1>6, QuietNames, FallsCounted DEF FallToError
<1>7. CASE FallToError(r) /\ Count(r, <<"UserServiceErrors", "TotalErrors">> \o again)
    <2> DEFINE names == <<"UserServiceErrors", "TotalErrors">> \o again
    <2>1. Quiet(names) /\ Has(names, "TotalErrors")
        <3> HIDE DEF again
        <3> QED
            BY <1>3, QuietNames, QuietBoth
    <2>2. Count(r, names)
        BY <1>7
    <2> HIDE DEF names
    <2> QED
        BY <1>2, <1>7, <2>1, <2>2, FallsCounted DEF FallToError
<1> QED
    BY <1>4, <1>5, <1>6, <1>7 DEF SubscriberFails
LEMMA NoVideos == <<>> \in Seq(Video)
OBVIOUS

LEMMA FallBackStep ==
    ASSUME ServiceInv, NEW r \in Request, FallBack(r)
    PROVE  Sound(r)
<1> DEFINE how == req[r].how
           vids == Truncate(cache, req[r].limit)
           served == IF how.ranked THEN rankVideos(req[r].user, vids, req[r].limit) ELSE vids
           names == IF how.late THEN <<"TotalErrors">> ELSE <<>>
<1>1. /\ req[r] \in Requests /\ Course(req[r], fan[r]) /\ cache \in Seq(Video) /\ RequestInv
      /\ req[r].pc = "fall"
    BY DEF ServiceInv, RequestInv, CacheInv, FallBack
<1>2. req[r].pc \in Under /\ FanOnly(r)
    BY <1>1, SameFan DEF FallBack, Under, Stages
<1>3. req[r].limit \in Int /\ how.instead \in {"error", "fresh"} /\ how.late \in BOOLEAN
    BY <1>1 DEF Requests, Hows
<1>4. vids \in Seq(Video)
    BY <1>1, <1>3, Truncated
<1>5. how.ranked => req[r].user \in DOMAIN User
    BY <1>1 DEF Course
<1>6. served \in Seq(Video)
    <2> HIDE DEF vids
    <2> QED
        BY <1>3, <1>4, <1>5, Ranked
<1> HIDE DEF served
<1>7. CASE Finish(r, <<"StaleResponses">>, Response("stale", served))
    <2> DEFINE one == <<"StaleResponses">>
    <2>1. Quiet(one) /\ Has(one, "StaleResponses") /\ Finish(r, one, Response("stale", served))
        BY <1>7, QuietNames
    <2> HIDE DEF one
    <2> QED
        BY <1>1, <1>2, <1>6, <2>1, EndsWith
<1>8. CASE Finish(r, names, Response(how.instead, <<>>))
    <2>1. Quiet(names) /\ (how.late => Has(names, "TotalErrors"))
        BY <1>3, QuietNames
    <2> DEFINE k == how.instead
    <2>2. k \in {"fresh", "stale", "error"} /\ k # "stale"
        BY <1>3
    <2>3. Finish(r, names, Response(k, <<>>))
        BY <1>8
    <2> HIDE DEF k, names
    <2>4. k \in {"error", "stale"} =>
            \/ Has(names, "TotalErrors")
            \/ req[r].pc = "fall" /\ (req[r].how.late => k = "stale")
        BY <1>1, <1>3, <2>1
    <2> QED
        BY <1>2, <2>1, <2>2, <2>3, <2>4, NoVideos, EndsWith
<1> QED
    BY <1>7, <1>8 DEF FallBack, served

LEMMA AnswerStaleStep ==
    ASSUME ServiceInv, NEW r \in Request, AnswerStale(r)
    PROVE  Sound(r)
<1> DEFINE names == <<"StaleResponses", "TotalErrors">>
           served == rankVideos(req[r].user, Head(fan[r].returnChanCache), req[r].limit)
<1>1. /\ req[r] \in Requests /\ Course(req[r], fan[r]) /\ Fan(MaxBatchSize, fan[r]) /\ RequestInv
      /\ req[r].pc \in {"users", "videos"} /\ fan[r].returnChanCache # <<>>
    BY DEF ServiceInv, RequestInv, AnswerStale
<1>2. req[r].pc \in Under /\ FanOnly(r)
    BY <1>1, SameFan DEF AnswerStale, Under, Stages
<1>3. req[r].limit \in Int /\ req[r].user \in DOMAIN User
    BY <1>1 DEF Requests, Course
<1>4. Head(fan[r].returnChanCache) \in Seq(Video)
    <2>1. fan[r].returnChanCache \in Seq(Seq(Video))
        BY <1>1 DEF Fan
    <2> QED
        BY <1>1, <2>1
<1>5. served \in Seq(Video)
    BY <1>3, <1>4, Ranked
<1>6. Quiet(names) /\ Has(names, "StaleResponses") /\ Has(names, "TotalErrors")
    BY QuietNames
<1>7. Finish(r, names, Response("stale", served))
    BY DEF AnswerStale
<1> HIDE DEF names, served
<1> QED
    BY <1>2, <1>5, <1>6, <1>7, EndsWith

\* The videos that the creators found like.
LEMMA LikedOnes ==
    ASSUME ServiceInv, NEW r \in Request, fan[r].svc = "user"
    PROVE  LikedVideos(r) \in Seq(Video)
<1> DEFINE got == fan[r].got
           g == [k \in DOMAIN got |-> User[got[k]].likedVideos]
<1>1. got \in Seq(DOMAIN User)
    BY DEF ServiceInv, RequestInv, Fan, IdsOf
<1> HIDE DEF got
<1>2. Len(got) \in Nat /\ DOMAIN got = 1 .. Len(got) /\ \A k \in 1 .. Len(got) : got[k] \in DOMAIN User
    BY <1>1
<1>3. \A k \in 1 .. Len(got) : User[got[k]].likedVideos \in Seq(Video)
    BY <1>2, BackendAssumption
<1>4. g \in Seq(Seq(Video))
    <2>1. g \in [1 .. Len(got) -> Seq(Video)]
        BY <1>2, <1>3
    <2> QED
        BY <1>2, <2>1
<1> HIDE DEF g
<1>5. deduplicateIds(FlattenSeq(g)) \in Seq(Video)
    BY <1>4, Flattened, Deduplicated
<1> QED
    BY <1>5 DEF LikedVideos, g, got

LEMMA UsersDoneStep ==
    ASSUME ServiceInv, NEW r \in Request, UsersDone(r)
    PROVE  Sound(r)
<1>1. /\ HistType /\ RequestInv /\ req[r].pc = "users" /\ AllDone(r)
      /\ Course(req[r], fan[r]) /\ req[r].pc \in Under
    BY DEF ServiceInv, RequestInv, UsersDone, Under, Stages
<1>2. req[r].user \in DOMAIN User /\ fan[r].svc = "user"
    BY <1>1 DEF Course
<1>3. CASE Finish(r, <<"TotalErrors">>, Response("error", <<>>)) /\ UNCHANGED fan
    <2> DEFINE names == <<"TotalErrors">>
    <2>1. FanOnly(r) /\ Quiet(names) /\ Has(names, "TotalErrors")
        BY <1>1, <1>3, SameFan, QuietNames
    <2>2. Finish(r, names, Response("error", <<>>))
        BY <1>3
    <2> HIDE DEF names
    <2> QED
        BY <1>1, <2>1, <2>2, NoVideos, EndsWith
<1>4. CASE fan' = [fan EXCEPT ![r].closed = TRUE]
    <2>1. FanOnly(r) /\ fan'[r].svc = "user"
        BY <1>1, <1>2, <1>4, FanCloses
    <2>2. CASE FallToEmpty(r) /\ Count(r, <<"TotalErrors">>)
        BY <1>1, <1>2, <2>1, <2>2, QuietNames, FallsCounted DEF FallToEmpty
    <2>3. ASSUME NEW x \in {"fanOut", "dialVideo"}, Goto(r, x), Uncounted PROVE Sound(r)
        <3>1. QuietStep(r, NoTallies) /\ x \in Under /\ x \notin {"fall", "videos"}
            BY <1>1, <2>3, QuietUncounted DEF Under, Stages
        <3> QED
            BY <1>1, <1>2, <2>1, <2>3, <3>1, GoesOn
    <2>4. CASE Goto(r, IF opt.isMock THEN "fanOut" ELSE "dialVideo") /\ Uncounted
        <3> DEFINE x == IF opt.isMock THEN "fanOut" ELSE "dialVideo"
        <3>1. x \in {"fanOut", "dialVideo"} /\ Goto(r, x) /\ Uncounted
            BY <2>4
        <3> HIDE DEF x
        <3> QED
            BY <2>3, <3>1
    <2> QED
        BY <1>4, <2>2, <2>4, <1>3 DEF UsersDone
<1> QED
    BY <1>3, <1>4 DEF UsersDone

LEMMA DialVideoStep ==
    ASSUME ServiceInv, NEW r \in Request, DialVideo(r)
    PROVE  Sound(r)
<1>1. /\ HistType /\ RequestInv /\ req[r].pc \in {"dialVideo", "dialVideoAgain"}
      /\ Course(req[r], fan[r]) /\ req[r].pc \in Under
    BY DEF ServiceInv, RequestInv, DialVideo, Under, Stages
<1>2. req[r].user \in DOMAIN User /\ fan[r].svc = "user"
    BY <1>1 DEF Course
<1>3. FanOnly(r) /\ fan'[r].svc = "user"
    BY <1>1, <1>2, SameFan DEF DialVideo
<1>4. CASE Goto(r, "fanOut") /\ Uncounted
    <2>1. QuietStep(r, NoTallies) /\ "fanOut" \in Under
        BY <1>1, <1>4, QuietUncounted DEF Under, Stages
    <2> QED
        BY <1>1, <1>2, <1>3, <1>4, <2>1, GoesOn
<1>5. CASE Goto(r, "dialVideoAgain") /\ Count(r, <<"VideoServiceErrors">>)
    <2>1. QuietStep(r, Tallies(<<"VideoServiceErrors">>)) /\ "dialVideoAgain" \in Under
        BY <1>1, <1>5, QuietCount, QuietNames DEF Under, Stages
    <2> QED
        BY <1>1, <1>2, <1>3, <1>5, <2>1, GoesOn
<1>6. CASE FallTo(r, "error", TRUE, FALSE) /\ Count(r, <<"TotalErrors", "VideoServiceErrors">>)
    BY <1>1, <1>2, <1>3, <1>6, QuietNames, FallsCounted
<1> QED
    BY <1>4, <1>5, <1>6 DEF DialVideo

LEMMA AskForVideosStep ==
    ASSUME ServiceInv, NEW r \in Request, AskForVideos(r)
    PROVE  Sound(r)
<1>1. /\ HistType /\ RequestInv /\ req[r].pc = "fanOut"
      /\ Course(req[r], fan[r]) /\ req[r].pc \in Under
    BY DEF ServiceInv, RequestInv, AskForVideos, Under, Stages
<1>2. req[r].user \in DOMAIN User /\ fan[r].svc = "user"
    BY <1>1 DEF Course
<1>3. LikedVideos(r) \in Seq(IdsOf("video")) /\ "video" \in Service
    BY <1>2, LikedOnes DEF IdsOf, Service
<1>4. Goto(r, "videos") /\ FanOut(r, "video", LikedVideos(r)) /\ Uncounted
    BY DEF AskForVideos
<1>5. FanOnly(r) /\ fan'[r].svc = "video"
    BY <1>3, <1>4, FanStarts
<1>6. QuietStep(r, NoTallies) /\ "videos" \in Under
    BY <1>1, <1>4, QuietUncounted DEF Under, Stages
<1> QED
    BY <1>1, <1>2, <1>4, <1>5, <1>6, GoesOn

LEMMA VideosDoneStep ==
    ASSUME ServiceInv, NEW r \in Request, VideosDone(r)
    PROVE  Sound(r)
<1> DEFINE served == rankVideos(req[r].user, fan[r].got, req[r].limit)
<1>1. /\ RequestInv /\ req[r].pc = "videos" /\ AllDone(r) /\ Fan(MaxBatchSize, fan[r])
      /\ Course(req[r], fan[r]) /\ req[r].pc \in Under /\ req[r] \in Requests
    BY DEF ServiceInv, RequestInv, VideosDone, Under, Stages
<1>2. req[r].user \in DOMAIN User /\ fan[r].svc = "video" /\ req[r].limit \in Int
    BY <1>1 DEF Course, Requests
<1>3. fan[r].got \in Seq(Video)
    BY <1>1, <1>2 DEF Fan, IdsOf
<1>4. served \in Seq(Video)
    BY <1>2, <1>3, Ranked
<1>5. FanOnly(r)
    BY <1>1, FanCloses DEF VideosDone
<1> HIDE DEF served
<1>6. CASE Finish(r, <<"TotalErrors">>, Response("error", <<>>))
    <2> DEFINE names == <<"TotalErrors">>
    <2>1. Quiet(names) /\ Has(names, "TotalErrors") /\ Finish(r, names, Response("error", <<>>))
        BY <1>6, QuietNames
    <2> HIDE DEF names
    <2> QED
        BY <1>1, <1>5, <2>1, NoVideos, EndsWith
<1>7. CASE Finish(r, <<>>, Response("fresh", served))
    BY <1>1, <1>4, <1>5, <1>7, QuietNames, EndsWith
<1> QED
    BY <1>6, <1>7 DEF VideosDone, served
LEMMA ContextEndsStep ==
    ASSUME ServiceInv, NEW r \in Request, ContextEnds(r)
    PROVE  Sound(r)
<1>1. /\ RequestInv /\ HistType /\ req \in [Request -> Requests] /\ Course(req[r], fan[r])
      /\ req[r].pc \in Under /\ req[r].pc # "fall" /\ scene.ends \subseteq {"expired", "canceled"}
    BY SceneAssumption DEF ServiceInv, RequestInv, ContextEnds, Under, Stages, StaticInv
<1>2. PICK how \in scene.ends : req' = [req EXCEPT ![r].ctx = how]
    BY DEF ContextEnds
<1>3. /\ DOMAIN req' = Request /\ req'[r] \in Requests
      /\ \A y \in Request \ {r} : req'[y] = req[y]
      /\ req'[r].pc = req[r].pc /\ req'[r].user = req[r].user
      /\ req'[r].how = req[r].how /\ req'[r].resp = req[r].resp
    BY <1>1, <1>2 DEF Requests
<1>4. FanOnly(r) /\ fan'[r] = fan[r]
    BY <1>1, SameFan DEF ContextEnds
<1>5. QuietStep(r, NoTallies)
    BY <1>1, QuietUncounted DEF ContextEnds, Uncounted
<1>6. Course(req'[r], fan'[r])
    BY <1>1, <1>3, <1>4 DEF Course, Under
<1>7. Goes(r, NoTallies)
    BY <1>1, <1>3, <1>5 DEF Goes, QuietStep
<1> QED
    BY <1>3, <1>4, <1>5, <1>6, <1>7 DEF Sound, Only, FanOnly, Moves, QuietStep

\* The names counted when a request arrives.
LEMMA ArrivalNames ==
    ASSUME NEW names,
           \/ names = <<"TotalRequests">>
           \/ names = <<"TotalRequests", "ActiveRequests">>
           \/ names = <<"TotalRequests", "ActiveRequests", "TotalErrors", "UserServiceErrors">>
    PROVE  /\ names \in Seq(Counters) /\ Tallies(names)["TotalRequests"] = 1
           /\ Tally(names, "ActiveRequests") = IF names = <<"TotalRequests">> THEN 0 ELSE 1
           /\ Len(names) = 4 => Tallies(names)["TotalErrors"] >= 1
<1>1. /\ names \in Seq(Counters) /\ 1 \in DOMAIN names /\ names[1] = "TotalRequests"
      /\ \A j \in DOMAIN names : names[j] = "TotalRequests" => j = 1
    <2>1. ASSUME NEW a \in Counters, NEW b \in Counters, NEW c \in Counters, NEW d \in Counters
          PROVE  /\ <<a>> \in Seq(Counters) /\ <<a, b>> \in Seq(Counters)
                 /\ <<a, b, c, d>> \in Seq(Counters)
        OBVIOUS
    <2>2. names \in Seq(Counters)
        <3>1. {"TotalRequests", "ActiveRequests", "TotalErrors", "UserServiceErrors"} \subseteq Counters
            BY DEF Counters
        <3> QED
            BY <2>1, <3>1
    <2>3. /\ 1 \in DOMAIN names /\ names[1] = "TotalRequests"
          /\ \A j \in DOMAIN names : names[j] = "TotalRequests" => j = 1
        OBVIOUS
    <2> QED
        BY <2>2, <2>3
<1>2. Tally(names, "TotalRequests") = 1
    BY <1>1, TallyType
<1>3. CASE names = <<"TotalRequests">>
    <2>1. \A n \in DOMAIN names : names[n] # "ActiveRequests"
        BY <1>3
    <2>2. Tally(names, "ActiveRequests") = 0
        BY <1>1, <2>1, TallyType
    <2> QED
        BY <1>1, <1>2, <1>3, <2>2 DEF Tallies, Counters
<1>4. CASE names # <<"TotalRequests">>
    <2>1. /\ 2 \in DOMAIN names /\ names[2] = "ActiveRequests"
          /\ \A j \in DOMAIN names : names[j] = "ActiveRequests" => j = 2
        BY <1>4
    <2>2. Tally(names, "ActiveRequests") = 1
        BY <1>1, <2>1, TallyType
    <2>3. Len(names) = 4 => 3 \in DOMAIN names /\ names[3] = "TotalErrors"
        BY <1>4
    <2>4. Len(names) = 4 => Tally(names, "TotalErrors") >= 1
        BY <1>1, <2>3, TallyType
    <2> QED
        BY <1>1, <1>2, <1>4, <2>2, <2>4 DEF Tallies, Counters
<1> QED
    BY <1>3, <1>4

LEMMA ArriveStep ==
    ASSUME ServiceInv, NEW r \in Request, NEW u \in AnyUser, NEW n \in Int, Arrive(r, u, n)
    PROVE  Sound(r) /\ req'[r].how.late = FALSE
<1>1. /\ RequestInv /\ HistType /\ req \in [Request -> Requests]
      /\ req[r].pc = "idle" /\ req[r] = NewRequest /\ stats["ActiveRequests"] \in Nat
    BY DEF ServiceInv, RequestInv, Arrive, Course, HistType, Counters
<1>2. FanOnly(r)
    BY <1>1, SameFan DEF Arrive
<1>3. req[r].resp.kind = "none" /\ req[r].how.ranked = FALSE /\ req[r].how.late = FALSE
    BY <1>1 DEF NewRequest, Response
<1>4. CASE /\ req' = [req EXCEPT ![r].pc = "done", ![r].resp = Response("refused", <<>>)]
           /\ Count(r, <<"TotalRequests">>)
    <2> DEFINE names == <<"TotalRequests">>
               x == Response("refused", <<>>)
    <2>1. x \in Responses /\ x.kind = "refused" /\ "done" \in Stages
        BY DEF Responses, Response, Kinds, Stages
    <2> HIDE DEF x
    <2>2. /\ DOMAIN req' = Request /\ req'[r] \in Requests
          /\ \A y \in Request \ {r} : req'[y] = req[y]
          /\ req'[r].pc = "done" /\ req'[r].how = req[r].how /\ req'[r].resp = x
        <3>1. req' = [req EXCEPT ![r].pc = "done", ![r].resp = x]
            BY <1>4 DEF x
        <3> QED
            BY <1>1, <2>1, <3>1 DEF Requests
    <2>3. /\ names \in Seq(Counters) /\ Tallies(names)["TotalRequests"] = 1
          /\ Tally(names, "ActiveRequests") = 0
        BY ArrivalNames
    <2>4. Count(r, names)
        BY <1>4
    <2> HIDE DEF names
    <2>5. /\ Tallies(names) \in [Counters -> Nat] /\ Adds(r, Tallies(names))
          /\ stats'["ActiveRequests"] = stats["ActiveRequests"] + 0
        BY <1>1, <2>3, <2>4, Counted
    <2>6. Course(req'[r], fan'[r])
        BY <2>2 DEF Course
    <2>7. Refuses(r, Tallies(names))
        BY <1>1, <2>1, <2>2, <2>3, <2>5 DEF Refuses
    <2> QED
        BY <1>2, <1>3, <2>2, <2>5, <2>6, <2>7 DEF Sound, Only, FanOnly, Moves
<1>5. ASSUME NEW x \in {"user", "dialUser", "fall"}, NEW c \in {"live", "expired"},
             req' = [req EXCEPT ![r].pc = x, ![r].user = u, ![r].limit = n, ![r].ctx = c],
             NEW names, Count(r, names),
             \/ names = <<"TotalRequests", "ActiveRequests">> /\ x # "fall"
             \/ names = <<"TotalRequests", "ActiveRequests", "TotalErrors", "UserServiceErrors">>
      PROVE  Sound(r) /\ req'[r].how.late = FALSE
    <2>1. x \in Stages /\ x \in Under
        BY DEF Stages, Under
    <2>2. /\ DOMAIN req' = Request /\ req'[r] \in Requests
          /\ \A y \in Request \ {r} : req'[y] = req[y]
          /\ req'[r].pc = x /\ req'[r].how = req[r].how /\ req'[r].resp = req[r].resp
        BY <1>1, <1>5, <2>1 DEF Requests
    <2>3. names # <<"TotalRequests">> /\ (x = "fall" => Len(names) = 4)
        BY <1>5
    <2>4. /\ names \in Seq(Counters) /\ Tallies(names)["TotalRequests"] = 1
          /\ Tally(names, "ActiveRequests") = 1
          /\ x = "fall" => Tallies(names)["TotalErrors"] >= 1
        BY <1>5, <2>3, ArrivalNames
    <2>5. /\ Tallies(names) \in [Counters -> Nat] /\ Adds(r, Tallies(names))
          /\ stats'["ActiveRequests"] = stats["ActiveRequests"] + 1
        BY <1>1, <1>5, <2>4, Counted
    <2>6. Course(req'[r], fan'[r])
        BY <1>3, <2>1, <2>2 DEF Course, Under
    <2>7. Enters(r, Tallies(names))
        BY <1>1, <2>1, <2>2, <2>4, <2>5 DEF Enters
    <2> QED
        BY <1>2, <1>3, <2>2, <2>5, <2>6, <2>7 DEF Sound, Only, FanOnly, Moves
<1>6. CASE /\ req' = [req EXCEPT ![r].pc = IF opt.isMock THEN "user" ELSE "dialUser",
                                 ![r].user = u, ![r].limit = n]
           /\ Count(r, <<"TotalRequests", "ActiveRequests">>)
    <2> DEFINE x == IF opt.isMock THEN "user" ELSE "dialUser"
               names == <<"TotalRequests", "ActiveRequests">>
    <2>1. x \in {"user", "dialUser", "fall"} /\ x # "fall"
        OBVIOUS
    <2>2. req' = [req EXCEPT ![r].pc = x, ![r].user = u, ![r].limit = n]
        BY <1>6
    <2>3. Count(r, names)
        BY <1>6
    <2> HIDE DEF x
    <2>4. req[r].ctx = "live"
        BY <1>1 DEF NewRequest
    <2>5. req' = [req EXCEPT ![r].pc = x, ![r].user = u, ![r].limit = n, ![r].ctx = "live"]
        BY <1>1, <2>2, <2>4 DEF Requests
    <2> QED
        BY <1>5, <2>1, <2>3, <2>5
<1>7. CASE /\ req' = [req EXCEPT ![r].pc = "fall", ![r].user = u, ![r].limit = n, ![r].ctx = "expired"]
           /\ Count(r, <<"TotalRequests", "ActiveRequests", "TotalErrors", "UserServiceErrors">>)
    BY <1>5, <1>7
<1> QED
    BY <1>4, <1>6, <1>7 DEF Arrive
\* The goroutines that are not through are finitely many.
LEMMA BusyFinite ==
    ASSUME NEW lim, NEW f, Fan(lim, f)
    PROVE  /\ IsFiniteSet(Busy(f.worker)) /\ Cardinality(Busy(f.worker)) \in Nat
           /\ Len(f.errorChan) \in Nat /\ Len(f.returnChanCache) \in Nat
           /\ Len(f.ids) \div f.size \in Nat
<1>1. PICK q \in Nat : q = Len(f.ids) \div f.size
    BY SliceSound DEF Fan
<1>2. IsFiniteSet(0 .. q)
    BY FS_Interval
<1>3. Busy(f.worker) \subseteq 0 .. q
    BY <1>1 DEF Fan, Busy
<1>4. IsFiniteSet(Busy(f.worker))
    BY <1>2, <1>3, FS_Subset
<1>5. Cardinality(Busy(f.worker)) \in Nat
    BY <1>4, FS_CardinalityType
<1>6. Len(f.errorChan) \in Nat /\ Len(f.returnChanCache) \in Nat
    BY DEF Fan
<1> QED
    BY <1>1, <1>4, <1>5, <1>6

\* A goroutine goes on.
LEMMA FanContinues ==
    ASSUME ServiceInv, NEW r \in Request, NEW i \in DOMAIN fan[r].worker, fan[r].worker[i] # "exit",
           NEW x \in Labels \ {"exit"},
           \/ fan' = [fan EXCEPT ![r].worker[i] = x]
           \/ fan' = [fan EXCEPT ![r].worker[i] = x, ![r].gaveUp = TRUE]
           \/ fan' = [fan EXCEPT ![r].gaveUp = TRUE, ![r].worker[i] = x]
    PROVE  FanOnly(r) /\ fan'[r].svc = fan[r].svc
<1> DEFINE f == fan[r]
           g == fan'[r]
           v == [f.worker EXCEPT ![i] = x]
<1>1. DOMAIN fan = Request /\ Fan(MaxBatchSize, f)
    BY DEF ServiceInv, RequestInv
<1>2. DOMAIN f = FanFields
    BY <1>1 DEF Fan
<1>3. /\ DOMAIN fan' = Request /\ \A y \in Request \ {r} : fan'[y] = fan[y]
      /\ \/ g = [f EXCEPT !.worker = v]
         \/ g = [f EXCEPT !.worker = v, !.gaveUp = TRUE]
         \/ g = [f EXCEPT !.gaveUp = TRUE, !.worker = v]
    BY <1>1, <1>2 DEF FanFields
<1>4. Busy(v) = Busy(f.worker)
    BY DEF Busy
<1>5. v \in [DOMAIN v -> Labels] /\ DOMAIN v = DOMAIN f.worker
    BY <1>1 DEF Fan
<1>6. i \in Busy(f.worker)
    BY DEF Busy
<1> HIDE DEF f, g, v
<1>7. /\ DOMAIN g = FanFields /\ g.svc = f.svc /\ g.ids = f.ids /\ g.size = f.size /\ g.got = f.got
      /\ g.worker = v /\ g.errorChan = f.errorChan /\ g.returnChanCache = f.returnChanCache
      /\ g.closed = f.closed
    BY <1>2, <1>3 DEF FanFields
<1>8. Fan(MaxBatchSize, g)
    BY <1>1, <1>4, <1>5, <1>6, <1>7 DEF Fan
<1> QED
    BY <1>3, <1>7, <1>8 DEF FanOnly, f, g

\* A goroutine ends, and sends at most once.
LEMMA FanExits ==
    ASSUME ServiceInv, NEW r \in Request, NEW i \in DOMAIN fan[r].worker, fan[r].worker[i] # "exit",
           NEW errors \in Seq({"nil", "err"}), NEW caches \in Seq(Seq(Video)),
           NEW got \in Seq(IdsOf(fan[r].svc)), Len(errors) + Len(caches) <= 1,
           Exit(r, i, errors, caches, got)
    PROVE  FanOnly(r) /\ fan'[r].svc = fan[r].svc
<1> DEFINE f == fan[r]
           g == fan'[r]
           v == [f.worker EXCEPT ![i] = "exit"]
           e == f.errorChan \o errors
           c == f.returnChanCache \o caches
           b == f.got \o got
<1>1. DOMAIN fan = Request /\ Fan(MaxBatchSize, f)
    BY DEF ServiceInv, RequestInv
<1>2. DOMAIN f = FanFields
    BY <1>1 DEF Fan
<1>3. fan' = [fan EXCEPT ![r].worker[i] = "exit", ![r].errorChan = @ \o errors,
                         ![r].returnChanCache = @ \o caches, ![r].got = @ \o got]
    BY DEF Exit
<1>4. /\ DOMAIN fan' = Request /\ \A y \in Request \ {r} : fan'[y] = fan[y]
      /\ g = [f EXCEPT !.worker = v, !.errorChan = e, !.returnChanCache = c, !.got = b]
    BY <1>1, <1>2, <1>3 DEF FanFields
<1>5. Busy(v) = Busy(f.worker) \ {i} /\ i \in Busy(f.worker)
    BY DEF Busy
<1>6. v \in [DOMAIN v -> Labels] /\ DOMAIN v = DOMAIN f.worker
    BY <1>1 DEF Fan, Labels
<1>7. f.errorChan \in Seq({"nil", "err"}) /\ f.returnChanCache \in Seq(Seq(Video))
    BY <1>1 DEF Fan
<1>8. e \in Seq({"nil", "err"}) /\ Len(e) = Len(f.errorChan) + Len(errors)
    BY <1>7
<1>9. c \in Seq(Seq(Video)) /\ Len(c) = Len(f.returnChanCache) + Len(caches)
    BY <1>7
<1>10. b \in Seq(IdsOf(f.svc))
    <2>1. f.got \in Seq(IdsOf(f.svc))
        BY <1>1 DEF Fan
    <2> QED
        BY <2>1
<1>11. Len(errors) \in Nat /\ Len(caches) \in Nat
    OBVIOUS
<1> HIDE DEF f, g, v, e, c, b
<1>12. PICK k \in Nat : k = Cardinality(Busy(f.worker))
    BY <1>1, BusyFinite
<1>13. PICK q \in Nat : q = Len(f.ids) \div f.size
    BY <1>1, BusyFinite
<1>14. Cardinality(Busy(v)) = k - 1 /\ Busy(f.worker) # {}
    <2>1. IsFiniteSet(Busy(f.worker))
        BY <1>1, BusyFinite
    <2>2. Cardinality(Busy(f.worker) \ {i}) = IF i \in Busy(f.worker) THEN Cardinality(Busy(f.worker)) - 1
                                                                   ELSE Cardinality(Busy(f.worker))
        BY <2>1, FS_RemoveElement
    <2> QED
        BY <1>5, <1>12, <2>2
<1>15. /\ Len(f.errorChan) \in Nat /\ Len(f.returnChanCache) \in Nat
       /\ k + Len(f.errorChan) + Len(f.returnChanCache) <= q + 1
    BY <1>1, <1>12, <1>13, BusyFinite DEF Fan
<1>16. Cardinality(Busy(v)) + Len(e) + Len(c) <= q + 1
    <2>1. PICK x \in Nat, y \in Nat : x = Len(errors) /\ y = Len(caches) /\ x + y <= 1
        BY <1>11
    <2>2. PICK z \in Nat, t \in Nat :
            z = Len(f.errorChan) /\ t = Len(f.returnChanCache) /\ k + z + t <= q + 1
        BY <1>15
    <2>3. Cardinality(Busy(v)) = k - 1 /\ Len(e) = z + x /\ Len(c) = t + y
        BY <1>8, <1>9, <1>14, <2>1, <2>2
    <2>4. k \in Nat /\ q \in Nat /\ x \in Nat /\ y \in Nat /\ z \in Nat /\ t \in Nat
        OBVIOUS
    <2>5. x + y <= 1 /\ k + z + t <= q + 1
        BY <2>1, <2>2
    <2>6. (k - 1) + (z + x) + (t + y) <= q + 1
        BY ONLY <2>4, <2>5
    <2> QED
        BY <2>3, <2>6
<1>17. /\ DOMAIN g = FanFields /\ g.svc = f.svc /\ g.ids = f.ids /\ g.size = f.size /\ g.got = b
       /\ g.worker = v /\ g.errorChan = e /\ g.returnChanCache = c /\ g.closed = f.closed
    BY <1>2, <1>4 DEF FanFields
<1>18. /\ f.svc \in Service /\ f.ids \in Seq(IdsOf(f.svc)) /\ f.size \in Nat \ {0}
       /\ f.size <= MaxBatchSize[f.svc] /\ DOMAIN f.worker \in {{}, 0 .. Len(f.ids) \div f.size}
       /\ f.closed => Busy(f.worker) = {}
    BY <1>1 DEF Fan
<1>19. g.closed => Busy(g.worker) = {}
    BY <1>14, <1>17, <1>18
<1>20. Cardinality(Busy(g.worker)) + Len(g.errorChan) + Len(g.returnChanCache) <= Len(g.ids) \div g.size + 1
    BY <1>13, <1>16, <1>17
<1>21. Fan(MaxBatchSize, g)
    BY <1>6, <1>8, <1>9, <1>10, <1>17, <1>18, <1>19, <1>20 DEF Fan
<1> QED
    BY <1>4, <1>17, <1>21 DEF FanOnly, f, g

LEMMA Working ==
    ASSUME ServiceInv, NEW r \in Request, DOMAIN fan[r].worker # {}, UNCHANGED req, FanOnly(r),
           fan'[r].svc = fan[r].svc, NEW d, QuietStep(r, d)
    PROVE  Sound(r)
<1>1. req \in [Request -> Requests] /\ Course(req[r], fan[r])
    BY DEF ServiceInv, RequestInv
<1>2. req[r].pc # "idle"
    BY <1>1 DEF Course, NewFan
<1>3. Course(req'[r], fan'[r])
    BY <1>1, <1>2 DEF Course
<1>4. Works(r, d)
    BY <1>2 DEF Works, QuietStep
<1> QED
    BY <1>1, <1>3, <1>4 DEF Sound, Only, FanOnly, Moves, QuietStep

LEMMA WorkerStep ==
    ASSUME ServiceInv, NEW r \in Request, NEW i \in DOMAIN fan[r].worker, Worker(r, i)
    PROVE  Sound(r)
<1>1. /\ HistType /\ UNCHANGED req /\ Fan(MaxBatchSize, fan[r]) /\ DOMAIN fan[r].worker # {}
      /\ cache \in Seq(Video) /\ req[r] \in Requests
    BY DEF ServiceInv, RequestInv, Worker, CacheInv
<1>2. Cached(r) \in Seq(Video)
    <2>1. req[r].limit \in Int
        BY <1>1 DEF Requests
    <2> QED
        BY <1>1, <2>1, Truncated, NoVideos DEF Cached
<1>3. ASSUME Uncounted PROVE QuietStep(r, NoTallies)
    BY <1>1, <1>3, QuietUncounted
<1>4. ASSUME NEW names, Quiet(names), Count(r, names) PROVE QuietStep(r, Tallies(names))
    BY <1>1, <1>4, QuietCount
<1>5. <<>> \in Seq({"nil", "err"}) /\ <<>> \in Seq(Seq(Video)) /\ <<>> \in Seq(IdsOf(fan[r].svc))
    OBVIOUS
<1>6. <<Cached(r)>> \in Seq(Seq(Video)) /\ Len(<<Cached(r)>>) = 1
    BY <1>2
<1>7. CASE WorkerSucceeds(r, i)
    <2>1. Ids(r, i) \in Seq(IdsOf(fan[r].svc))
        <3>1. /\ fan[r].ids \in Seq(IdsOf(fan[r].svc)) /\ fan[r].size \in Nat \ {0}
              /\ i \in 0 .. Len(fan[r].ids) \div fan[r].size
            BY <1>1 DEF Fan
        <3> QED
            BY <3>1, SliceSound DEF Ids
    <2>2. <<"nil">> \in Seq({"nil", "err"}) /\ Len(<<"nil">>) + Len(<<>>) <= 1
        OBVIOUS
    <2>3. Exit(r, i, <<"nil">>, <<>>, Ids(r, i)) /\ fan[r].worker[i] # "exit" /\ Uncounted
        BY <1>7 DEF WorkerSucceeds
    <2>4. FanOnly(r) /\ fan'[r].svc = fan[r].svc
        BY <1>5, <2>1, <2>2, <2>3, FanExits
    <2> QED
        BY <1>1, <1>3, <2>3, <2>4, Working
<1>8. CASE WorkerIsLate(r, i)
    <2>1. fan[r].worker[i] # "exit" /\ "late" \in Labels \ {"exit"}
        BY <1>8 DEF WorkerIsLate, TimesOut, Labels
    <2>2. /\ fan' = [fan EXCEPT ![r].worker[i] = "late", ![r].gaveUp = TRUE]
          /\ Count(r, <<"TotalErrors", "VideoServiceErrors">>)
        BY <1>8 DEF WorkerIsLate
    <2>3. FanOnly(r) /\ fan'[r].svc = fan[r].svc
        BY <2>1, <2>2, FanContinues
    <2> QED
        BY <1>1, <1>4, <2>2, <2>3, QuietNames, Working
<1>9. CASE WorkerFails(r, i)
    <2>1. fan[r].worker[i] # "exit"
        BY <1>9 DEF WorkerFails
    <2>2. Count(r, <<ErrorOf(fan[r].svc)>>) /\ Quiet(<<ErrorOf(fan[r].svc)>>)
        BY <1>9, QuietNames DEF WorkerFails, ErrorOf
    <2>3. \E x \in Labels \ {"exit"} :
            \/ fan' = [fan EXCEPT ![r].worker[i] = x]
            \/ fan' = [fan EXCEPT ![r].gaveUp = TRUE, ![r].worker[i] = x]
        <3>1. CASE fan' = [fan EXCEPT ![r].worker[i] = "again"]
            BY <3>1 DEF Labels
        <3>2. CASE fan' = [fan EXCEPT ![r].gaveUp = TRUE,
                                      ![r].worker[i] = IF opt.fallback THEN "fall" ELSE "report"]
            <4> DEFINE x == IF opt.fallback THEN "fall" ELSE "report"
            <4>1. x \in Labels \ {"exit"} /\ fan' = [fan EXCEPT ![r].gaveUp = TRUE, ![r].worker[i] = x]
                BY <3>2 DEF Labels
            <4> HIDE DEF x
            <4> QED
                BY <4>1
        <3> QED
            BY <1>9, <3>1, <3>2 DEF WorkerFails
    <2>4. FanOnly(r) /\ fan'[r].svc = fan[r].svc
        BY <2>1, <2>3, FanContinues
    <2> QED
        BY <1>1, <1>4, <2>2, <2>4, Working
<1>10. CASE WorkerReports(r, i)
    <2>1. <<"err">> \in Seq({"nil", "err"}) /\ Len(<<"err">>) + Len(<<>>) <= 1
        OBVIOUS
    <2>2. Exit(r, i, <<"err">>, <<>>, <<>>) /\ fan[r].worker[i] # "exit" /\ Uncounted
        BY <1>10 DEF WorkerReports
    <2>3. FanOnly(r) /\ fan'[r].svc = fan[r].svc
        BY <1>5, <2>1, <2>2, FanExits
    <2> QED
        BY <1>1, <1>3, <2>2, <2>3, Working
<1>11. ASSUME NEW caches, caches = <<>> \/ caches = <<Cached(r)>>, Exit(r, i, <<>>, caches, <<>>),
              fan[r].worker[i] # "exit"
       PROVE  FanOnly(r) /\ fan'[r].svc = fan[r].svc
    <2>1. caches \in Seq(Seq(Video)) /\ Len(<<>>) + Len(caches) <= 1
        <3>1. CASE caches = <<>>
            BY <1>5, <3>1
        <3>2. CASE caches = <<Cached(r)>>
            <4>1. Len(caches) = 1 /\ Len(<<>>) = 0
                BY <1>6, <3>2
            <4> QED
                BY <1>6, <3>2, <4>1
        <3> QED
            BY <1>11, <3>1, <3>2
    <2> QED
        BY <1>5, <1>11, <2>1, FanExits
<1>12. CASE WorkerFallsBack(r, i)
    <2> DEFINE caches == IF cache = <<>> THEN <<>> ELSE <<Cached(r)>>
    <2>1. Exit(r, i, <<>>, caches, <<>>) /\ fan[r].worker[i] # "exit" /\ Uncounted
        BY <1>12 DEF WorkerFallsBack
    <2>2. caches = <<>> \/ caches = <<Cached(r)>>
        OBVIOUS
    <2> HIDE DEF caches
    <2>3. FanOnly(r) /\ fan'[r].svc = fan[r].svc
        BY <1>11, <2>1, <2>2
    <2> QED
        BY <1>1, <1>3, <2>1, <2>3, Working
<1>13. CASE WorkerAnswersLate(r, i)
    <2> DEFINE names == IF Cached(r) = <<>> THEN <<>> ELSE <<"StaleResponses">>
    <2>1. Exit(r, i, <<>>, <<Cached(r)>>, <<>>) /\ fan[r].worker[i] # "exit" /\ Count(r, names)
        BY <1>13 DEF WorkerAnswersLate
    <2>2. Quiet(names)
        BY QuietNames
    <2> HIDE DEF names
    <2>3. FanOnly(r) /\ fan'[r].svc = fan[r].svc
        BY <1>11, <2>1
    <2> QED
        BY <1>1, <1>4, <2>1, <2>2, <2>3, Working
<1> QED
    BY <1>7, <1>8, <1>9, <1>10, <1>12, <1>13 DEF Worker

\* Every step of a request is sound.
LEMMA MoveStep ==
    ASSUME ServiceInv, NEW r \in Request, RequestMoves(r)
    PROVE  Sound(r)
<1>1. CASE Handler(r)
    BY <1>1, DialUserStep, NoSuchUserStep, SubscriberStep, SubscriberFailsStep, FallBackStep,
       AnswerStaleStep, UsersDoneStep, DialVideoStep, AskForVideosStep, VideosDoneStep DEF Handler
<1> QED
    BY <1>1, ContextEndsStep, WorkerStep DEF RequestMoves
-------------------------------------------------------------------------------------
(* The steps together.                                                                 *)

LEMMA NewFanSound ==
    ASSUME StaticInv
    PROVE  Fan(MaxBatchSize, NewFan)
<1> DEFINE w == [i \in {} |-> "exit"]
<1>1. DOMAIN w = {} /\ w \in [DOMAIN w -> Labels] /\ Busy(w) = {}
    BY DEF Busy
<1>2. PICK f : f = NewFan
    OBVIOUS
<1>3. /\ DOMAIN f = FanFields /\ f.svc = "user" /\ f.ids = <<>> /\ f.size = 1 /\ f.got = <<>>
      /\ f.worker = w /\ f.errorChan = <<>> /\ f.returnChanCache = <<>> /\ f.closed = FALSE
    BY <1>2 DEF NewFan, FanFields
<1> HIDE DEF w
<1>4. Cardinality(Busy(w)) = 0 /\ Len(<<>>) = 0 /\ 0 \div 1 = 0
    BY <1>1, FS_EmptySet
<1>5. MaxBatchSize["user"] \in Nat \ {0} /\ "user" \in Service /\ 1 <= MaxBatchSize["user"]
    BY DEF StaticInv, Service
<1>6. Fan(MaxBatchSize, f)
    <2>1. /\ f.ids \in Seq(IdsOf(f.svc)) /\ f.got \in Seq(IdsOf(f.svc))
          /\ f.errorChan \in Seq({"nil", "err"}) /\ f.returnChanCache \in Seq(Seq(Video))
        BY <1>3
    <2>2. f.size \in Nat \ {0} /\ f.size <= MaxBatchSize[f.svc] /\ f.svc \in Service
        BY <1>3, <1>5
    <2>3. /\ f.worker \in [DOMAIN f.worker -> Labels] /\ DOMAIN f.worker = {}
          /\ f.closed => Busy(f.worker) = {}
        BY <1>1, <1>3
    <2>4. Cardinality(Busy(f.worker)) + Len(f.errorChan) + Len(f.returnChanCache)
            <= Len(f.ids) \div f.size + 1
        BY <1>3, <1>4
    <2> QED
        BY ONLY <1>3, <2>1, <2>2, <2>3, <2>4 DEF Fan
<1> QED
    BY <1>2, <1>6

LEMMA NewRequestSound == NewRequest \in Requests /\ Course(NewRequest, NewFan)
<1>1. NewRequest \in Requests
    BY DEF NewRequest, Requests, Stages, AnyUser, Hows, Responses, Response, Kinds
<1>2. Course(NewRequest, NewFan)
    BY DEF NewRequest, Course, Response
<1> QED
    BY <1>1, <1>2

\* A new call clears what is known of the last one, and counts nothing.
LEMMA CallBeginsStep ==
    ASSUME ServiceInv, NEW r \in Request, CallBegins(r)
    PROVE  /\ Only(r) /\ UNCHANGED stats /\ req[r].pc \in {"idle", "done"}
           /\ req'[r] = NewRequest /\ fan'[r] = NewFan /\ hist' = [hist EXCEPT ![r] = [k \in Known |-> 0]]
           /\ call[r].client = "none" /\ call[r].server # "handling"
<1>1. PICK u, n : videoRecServiceClient(r, u, n)
    BY DEF CallBegins
<1>2. /\ DOMAIN req = Request /\ DOMAIN fan = Request /\ DOMAIN hist[r] = Known
    BY DEF ServiceInv, RequestInv, HistType
<1>3. /\ req' = [req EXCEPT ![r] = NewRequest] /\ fan' = [fan EXCEPT ![r] = NewFan]
      /\ hist' = [hist EXCEPT ![r] = [k \in DOMAIN @ |-> 0]] /\ UNCHANGED stats /\ Settled(r)
    BY <1>1 DEF videoRecServiceClient
<1> QED
    BY <1>2, <1>3 DEF Only, Settled

\* The background counts errors, and neither requests nor stale responses.
LEMMA BackgroundStats ==
    ASSUME ServiceInv, Background
    PROVE  /\ stats' \in [Counters -> Nat] /\ \A k \in Counters : stats[k] <= stats'[k]
           /\ \A k \in {"TotalRequests", "ActiveRequests", "StaleResponses"} : stats'[k] = stats[k]
<1>1. stats \in [Counters -> Nat] /\ Tries \in Nat
    BY DEF ServiceInv, HistType, Tries
<1>2. ASSUME NEW a \in Nat, NEW b \in Nat,
             stats' = [stats EXCEPT !.VideoServiceErrors = @ + a, !.TotalErrors = @ + b]
      PROVE  /\ stats' \in [Counters -> Nat] /\ \A k \in Counters : stats[k] <= stats'[k]
             /\ \A k \in {"TotalRequests", "ActiveRequests", "StaleResponses"} : stats'[k] = stats[k]
    <2>1. PICK x \in Nat, y \in Nat : x = stats["VideoServiceErrors"] /\ y = stats["TotalErrors"]
        BY <1>1 DEF Counters
    <2>2. stats' = [stats EXCEPT !["VideoServiceErrors"] = x + a, !["TotalErrors"] = y + b]
        BY <1>1, <1>2, <2>1 DEF Counters
    <2>3. x + a \in Nat /\ y + b \in Nat /\ x <= x + a /\ y <= y + b
        OBVIOUS
    <2>4. /\ stats'["VideoServiceErrors"] = x + a /\ stats'["TotalErrors"] = y + b
          /\ stats' \in [Counters -> Nat]
          /\ \A k \in Counters \ {"VideoServiceErrors", "TotalErrors"} : stats'[k] = stats[k]
        BY <1>1, <2>2, <2>3 DEF Counters
    <2>5. ASSUME NEW k \in Counters PROVE stats[k] <= stats'[k]
        <3>1. CASE k \in {"VideoServiceErrors", "TotalErrors"}
            BY <2>1, <2>3, <2>4, <3>1
        <3>2. CASE k \notin {"VideoServiceErrors", "TotalErrors"}
            BY <1>1, <2>4, <3>2
        <3> QED
            BY <3>1, <3>2
    <2>6. \A k \in {"TotalRequests", "ActiveRequests", "StaleResponses"} : stats'[k] = stats[k]
        BY <2>4 DEF Counters
    <2> QED
        BY <2>4, <2>5, <2>6
<1>3. CASE UNCHANGED stats
    BY <1>1, <1>3
<1>4. ASSUME NEW failures \in 0 .. Tries, RefreshDials(failures)
      PROVE  \E a \in Nat, b \in Nat :
                stats' = [stats EXCEPT !.VideoServiceErrors = @ + a, !.TotalErrors = @ + b]
    <2> DEFINE b == IF failures = Tries THEN 1 ELSE 0
    <2>1. failures \in Nat /\ b \in Nat
        BY <1>1
    <2>2. stats' = [stats EXCEPT !.VideoServiceErrors = @ + failures, !.TotalErrors = @ + b]
        BY <1>4 DEF RefreshDials
    <2> HIDE DEF b
    <2> QED
        BY <2>1, <2>2
<1>5. ASSUME NoTrending
      PROVE  \E a \in Nat, b \in Nat :
                stats' = [stats EXCEPT !.VideoServiceErrors = @ + a, !.TotalErrors = @ + b]
    <2>1. stats' = [stats EXCEPT !.VideoServiceErrors = @ + Tries, !.TotalErrors = @ + 1]
        BY <1>5 DEF NoTrending
    <2> QED
        BY <1>1, <2>1
<1>6. ASSUME Refreshed
      PROVE  \E a \in Nat, b \in Nat :
                stats' = [stats EXCEPT !.VideoServiceErrors = @ + a, !.TotalErrors = @ + b]
    <2> DEFINE batches == 0 .. (Len(topVideos) - 1) \div refresh.size
    <2>1. PICK first \in 0 .. Tries - 1, failures \in [batches -> 0 .. Tries] :
            \E order \in SetToSeqs({i \in batches : failures[i] < Tries}) :
                UpdateCache(first, failures, order)
        BY <1>6 DEF Refreshed
    <2> DEFINE lost == {i \in DOMAIN failures : failures[i] = Tries}
               failed == {x \in (DOMAIN failures) \X (1 .. Tries) : x[2] <= failures[x[1]]}
    <2>2. stats' = [stats EXCEPT !.VideoServiceErrors = @ + first + Cardinality(failed),
                                 !.TotalErrors = @ + Cardinality(lost)]
        BY <2>1 DEF UpdateCache
    <2>3. IsFiniteSet(batches)
        <3>1. Len(topVideos) \in Nat /\ refresh.size \in Nat \ {0}
            BY TopVideos, DomainOf DEF ServiceInv, CacheInv
        <3>2. PICK n \in Int : n = (Len(topVideos) - 1) \div refresh.size
            BY <3>1
        <3> QED
            BY <3>2, FS_Interval
    <2>4. DOMAIN failures = batches
        OBVIOUS
    <2> HIDE DEF batches
    <2>5. IsFiniteSet(lost)
        BY <2>3, <2>4, FS_Subset
    <2>6. IsFiniteSet(failed)
        <3>1. IsFiniteSet(1 .. Tries)
            BY <1>1, FS_Interval
        <3>2. IsFiniteSet(batches \X (1 .. Tries))
            BY <2>3, <3>1, FS_Product
        <3>3. failed \subseteq batches \X (1 .. Tries)
            BY <2>4
        <3> QED
            BY <3>2, <3>3, FS_Subset
    <2>7. PICK a \in Nat, b \in Nat, c \in Nat :
            a = Cardinality(failed) /\ b = Cardinality(lost) /\ c = first
        <3>1. Cardinality(failed) \in Nat /\ Cardinality(lost) \in Nat
            BY <2>5, <2>6, FS_CardinalityType
        <3> HIDE DEF failed, lost
        <3>2. first \in Nat
            BY <1>1
        <3> QED
            BY <3>1, <3>2
    <2> HIDE DEF failed, lost
    <2>8. PICK x \in Nat : x = stats["VideoServiceErrors"]
        BY <1>1 DEF Counters
    <2>9. x + c + a = x + (c + a) /\ c + a \in Nat
        OBVIOUS
    <2>10. stats' = [stats EXCEPT !.VideoServiceErrors = @ + (c + a), !.TotalErrors = @ + b]
        BY <2>2, <2>7, <2>8, <2>9
    <2> QED
        BY <2>9, <2>10
<1>7. CASE RefreshBegins
    BY <1>3, <1>7 DEF RefreshBegins
<1> QED
    BY <1>2, <1>4, <1>5, <1>6, <1>7 DEF Background
\* A request moves only once it is there.
LEMMA MovesOnce ==
    ASSUME RequestInv, NEW r \in Request, RequestMoves(r)
    PROVE  req[r].pc # "idle"
<1>1. CASE Handler(r)
    BY <1>1 DEF Handler, DialUser, NoSuchUser, Subscriber, SubscriberFails, FallBack, AnswerStale,
       UsersDone, DialVideo, AskForVideos, VideosDone
<1>2. CASE ContextEnds(r)
    BY <1>2 DEF ContextEnds
<1>3. ASSUME NEW i \in DOMAIN fan[r].worker PROVE req[r].pc # "idle"
    BY <1>3 DEF RequestInv, Course, NewFan
<1> QED
    BY <1>1, <1>2, <1>3 DEF RequestMoves

\* Requests and counters stay functions.
Functional ==
    req' = [x \in Request |-> req'[x]] /\ stats' = [k \in Counters |-> stats'[k]]

LEMMA AddedFunction ==
    ASSUME HistType, NEW names
    PROVE  Added(names) = [k \in Counters |-> Added(names)[k]]
BY DEF HistType, Added

LEMMA StaysFunctional ==
    ASSUME RequestInv, HistType, NEW r \in Request, RequestMoves(r) \/ Arrives(r) \/ CallBegins(r)
    PROVE  Functional
<1>1. req = [x \in Request |-> req[x]] /\ stats = [k \in Counters |-> stats[k]]
    BY DEF RequestInv, HistType
<1>2. ASSUME NEW x, req' = [req EXCEPT ![r] = x] PROVE req' = [y \in Request |-> req'[y]]
    BY <1>1, <1>2
<1>3. ASSUME NEW x, Goto(r, x) PROVE req' = [y \in Request |-> req'[y]]
    BY <1>1, <1>3 DEF Goto
<1>4. ASSUME NEW x, NEW y, NEW z, FallTo(r, x, y, z) PROVE req' = [t \in Request |-> req'[t]]
    BY <1>1, <1>4 DEF FallTo
<1>5. ASSUME NEW names, Count(r, names) PROVE stats' = [k \in Counters |-> stats'[k]]
    BY <1>5, AddedFunction DEF Count
<1>6. ASSUME Uncounted PROVE stats' = [k \in Counters |-> stats'[k]]
    BY <1>1, <1>6 DEF Uncounted
<1>7. ASSUME NEW names, NEW x, Finish(r, names, x) PROVE Functional
    <2>1. PICK f : f = Added(names) /\ f = [k \in Counters |-> f[k]]
        BY AddedFunction
    <2>2. stats' = [f EXCEPT !["ActiveRequests"] = f["ActiveRequests"] - 1]
        BY <1>7, <2>1 DEF Finish
    <2>3. stats' = [k \in Counters |-> stats'[k]]
        BY <2>1, <2>2
    <2>4. req' = [t \in Request |-> req'[t]]
        BY <1>1, <1>7 DEF Finish
    <2> QED
        BY <2>3, <2>4 DEF Functional
<1>8. CASE Handler(r)
    <2>1. CASE DialUser(r)
        BY <2>1, <1>3, <1>4, <1>5, <1>6 DEF DialUser, FallToError, Functional
    <2>2. CASE NoSuchUser(r)
        BY <2>2, <1>4, <1>5 DEF NoSuchUser, FallToError, Functional
    <2>3. CASE Subscriber(r)
        BY <2>3, <1>3, <1>4, <1>5, <1>6 DEF Subscriber, FallToEmpty, Functional
    <2>4. CASE SubscriberFails(r)
        BY <2>4, <1>3, <1>4, <1>5 DEF SubscriberFails, FallToError, Functional
    <2>5. CASE FallBack(r)
        BY <2>5, <1>7 DEF FallBack
    <2>6. CASE AnswerStale(r)
        BY <2>6, <1>7 DEF AnswerStale
    <2>7. CASE UsersDone(r)
        BY <2>7, <1>3, <1>4, <1>5, <1>6, <1>7 DEF UsersDone, FallToEmpty, Functional
    <2>8. CASE DialVideo(r)
        BY <2>8, <1>3, <1>4, <1>5, <1>6 DEF DialVideo, Functional
    <2>9. CASE AskForVideos(r)
        BY <2>9, <1>3, <1>6 DEF AskForVideos, Functional
    <2>10. CASE VideosDone(r)
        BY <2>10, <1>7 DEF VideosDone
    <2> QED
        BY <1>8, <2>1, <2>2, <2>3, <2>4, <2>5, <2>6, <2>7, <2>8, <2>9, <2>10 DEF Handler
<1>9. CASE ContextEnds(r)
    BY <1>1, <1>9 DEF ContextEnds, Functional
<1>10. ASSUME NEW i, Worker(r, i) PROVE Functional
    <2>1. UNCHANGED req /\ (Uncounted \/ \E names : Count(r, names))
        BY <1>10 DEF Worker, WorkerSucceeds, WorkerIsLate, WorkerFails, WorkerReports,
           WorkerFallsBack, WorkerAnswersLate
    <2> QED
        BY <1>1, <1>5, <1>6, <2>1 DEF Functional
<1>11. ASSUME NEW u, NEW n, Arrive(r, u, n) PROVE Functional
    <2>1. \E names : Count(r, names)
        BY <1>11 DEF Arrive
    <2>2. req' = [y \in Request |-> req'[y]]
        BY <1>1, <1>11 DEF Arrive
    <2> QED
        BY <1>5, <2>1, <2>2 DEF Functional
<1>12. ASSUME NEW u, NEW n, videoRecServiceClient(r, u, n) PROVE Functional
    BY <1>1, <1>2, <1>12 DEF videoRecServiceClient, Functional
<1> QED
    BY <1>8, <1>9, <1>10, <1>11, <1>12 DEF RequestMoves, Arrives, CallBegins

\* What a step is to the requests.
Rests == UNCHANGED <<req, fan, hist>>
LEMMA StepKinds ==
    ASSUME CallType, ServiceInv, [ClientsNext]_allVars
    PROVE  \/ Rests /\ UNCHANGED stats
           \/ Rests /\ Background
           \/ Functional /\ \E r \in Request : Sound(r) \/ CallBegins(r)
<1>1. ASSUME NEW r \in Request, Arrives(r) PROVE Sound(r)
    BY <1>1, ArriveStep DEF Arrives
<1>2. ASSUME NEW s \in Service, Probes(s) PROVE Rests /\ UNCHANGED stats
    BY <1>2, ProbesFrame DEF Rests
<1>3. ASSUME UNCHANGED vars PROVE Rests /\ UNCHANGED stats
    BY <1>3 DEF Rests, vars
<1>4. ASSUME Background PROVE Rests
    BY <1>4, BackgroundFrame DEF Rests, RequestVars
<1>5. ASSUME NEW r \in Request, RequestMoves(r) \/ Arrives(r) \/ CallBegins(r) PROVE Functional
    BY <1>5, StaysFunctional DEF ServiceInv
<1> QED
    BY <1>1, <1>2, <1>3, <1>4, <1>5, MoveStep, ServiceSteps

LEMMA RequestStep ==
    ASSUME CallType, ServiceInv, [ClientsNext]_allVars
    PROVE  RequestInv'
<1>1. UNCHANGED MaxBatchSize
    BY StaticStep DEF ServiceInv
<1>2. RequestInv
    BY DEF ServiceInv
<1>3. ASSUME Functional, NEW r \in Request, Only(r), req'[r] \in Requests, Fan(MaxBatchSize, fan'[r]),
             Course(req'[r], fan'[r])
      PROVE  RequestInv'
    <2>1. \A x \in Request : req'[x] \in Requests
        BY <1>2, <1>3 DEF RequestInv, Only
    <2>2. req' \in [Request -> Requests] /\ DOMAIN fan' = Request
        BY <1>3, <2>1 DEF Only, Functional
    <2>3. ASSUME NEW x \in Request PROVE Fan(MaxBatchSize, fan'[x]) /\ Course(req'[x], fan'[x])
        <3>1. CASE x = r
            BY <1>3, <3>1
        <3>2. CASE x # r
            <4>1. req'[x] = req[x] /\ fan'[x] = fan[x]
                BY <1>3, <3>2 DEF Only
            <4> QED
                BY <1>2, <4>1 DEF RequestInv
        <3> QED
            BY <3>1, <3>2
    <2> QED
        BY <1>1, <2>2, <2>3 DEF RequestInv
<1>4. CASE Rests
    BY <1>1, <1>2, <1>4 DEF Rests, RequestInv
<1>5. ASSUME Functional, NEW r \in Request, Sound(r) PROVE RequestInv'
    BY <1>3, <1>5 DEF Sound
<1>6. ASSUME Functional, NEW r \in Request, CallBegins(r) PROVE RequestInv'
    <2>1. Only(r) /\ req'[r] = NewRequest /\ fan'[r] = NewFan
        BY <1>6, CallBeginsStep
    <2>2. req'[r] \in Requests /\ Fan(MaxBatchSize, fan'[r]) /\ Course(req'[r], fan'[r])
        BY <2>1, NewFanSound, NewRequestSound DEF ServiceInv
    <2> QED
        BY <1>3, <1>6, <2>1, <2>2
<1> QED
    BY <1>4, <1>5, <1>6, StepKinds
-------------------------------------------------------------------------------------
(* What is counted. A request under way is active, and one that goes wrong has been    *)
(* counted by the time it answers, in its own goroutine or in one of the fan-out.      *)

Active == {r \in Request : req[r].pc \in Under}

Honest(q, h) ==
    /\ q.pc = "idle" => h["TotalErrors"] = 0
    /\ q.pc = "fall" => q.how.late \/ h["TotalErrors"] > 0
    /\ q.resp.kind \in {"error", "stale"} =>
        \/ h["TotalErrors"] > 0
        \/ q.resp.kind = "stale" /\ q.how.late
    /\ q.resp.kind = "stale" => h["StaleResponses"] > 0

AccountInv ==
    /\ IsFiniteSet(Active) /\ stats["ActiveRequests"] = Cardinality(Active)
    /\ \A r \in Request : Honest(req[r], hist[r])

LEMMA Grows ==
    ASSUME NEW S, IsFiniteSet(S), NEW x, x \notin S
    PROVE  /\ IsFiniteSet(S \cup {x}) /\ Cardinality(S) \in Nat
           /\ Cardinality(S \cup {x}) = Cardinality(S) + 1
BY FS_AddElement, FS_CardinalityType

LEMMA Shrinks ==
    ASSUME NEW S, IsFiniteSet(S), NEW x \in S
    PROVE  /\ IsFiniteSet(S \ {x}) /\ Cardinality(S) \in Nat /\ Cardinality(S \ {x}) \in Nat
           /\ Cardinality(S \ {x}) = Cardinality(S) - 1
BY FS_RemoveElement, FS_CardinalityType

\* What a request causes is added to what it is known to have caused.
LEMMA AddsHist ==
    ASSUME HistType, NEW r \in Request, NEW d \in [Counters -> Nat], Adds(r, d)
    PROVE  /\ hist' \in [Request -> [Known -> Nat]]
           /\ \A x \in Request \ {r} : hist'[x] = hist[x]
           /\ \A k \in Known : /\ hist'[r][k] >= hist[r][k]
                               /\ d[k] >= 1 => hist'[r][k] > 0
                               /\ hist'[r][k] = hist[r][k] + d[k]
<1> DEFINE h == [k \in Known |-> hist[r][k] + d[k]]
<1>1. Known \subseteq Counters
    BY DEF Known, Counters
<1>2. ASSUME NEW k \in Known
      PROVE  /\ hist[r][k] + d[k] \in Nat /\ hist[r][k] + d[k] >= hist[r][k]
             /\ d[k] >= 1 => hist[r][k] + d[k] > 0
    <2>1. PICK a \in Nat, b \in Nat : a = hist[r][k] /\ b = d[k]
        BY <1>1 DEF HistType
    <2> QED
        BY <2>1
<1>3. h \in [Known -> Nat]
    BY <1>2
<1>4. hist' = [hist EXCEPT ![r] = h]
    BY DEF Adds
<1>5. \A k \in Known : h[k] = hist[r][k] + d[k]
    OBVIOUS
<1> HIDE DEF h
<1>6. hist'[r] = h
    BY <1>4 DEF HistType
<1>7. hist' \in [Request -> [Known -> Nat]] /\ \A x \in Request \ {r} : hist'[x] = hist[x]
    BY <1>3, <1>4 DEF HistType
<1> QED
    BY <1>2, <1>5, <1>6, <1>7

LEMMA HonestStep ==
    ASSUME RequestInv, HistType, AccountInv, NEW r \in Request, NEW d \in [Counters -> Nat],
           Adds(r, d), Moves(r, d), req'[r] \in Requests
    PROVE  Honest(req'[r], hist'[r])
<1>1. PICK a \in Nat, b \in Nat : a = hist[r]["TotalErrors"] /\ b = hist[r]["StaleResponses"]
    BY DEF HistType, Known
<1>2. PICK u \in Nat, v \in Nat : u = hist'[r]["TotalErrors"] /\ v = hist'[r]["StaleResponses"]
    BY AddsHist DEF Known
<1>3. PICK x \in Nat, y \in Nat : x = d["TotalErrors"] /\ y = d["StaleResponses"]
    BY DEF Counters
<1>4. u >= a /\ v >= b /\ (x >= 1 => u > 0) /\ (y >= 1 => v > 0)
    BY <1>1, <1>2, <1>3, AddsHist DEF Known
<1>5. Honest(req[r], hist[r]) /\ Course(req[r], fan[r]) /\ req[r] \in Requests
    BY DEF AccountInv, RequestInv
<1>6. PICK p, q : p = req[r] /\ q = req'[r] /\ p \in Requests /\ q \in Requests
    BY <1>5
<1>7. /\ p.pc = "idle" => a = 0
      /\ p.pc = "fall" => p.how.late \/ a > 0
      /\ p.resp.kind \in {"error", "stale"} => (a > 0 \/ (p.resp.kind = "stale" /\ p.how.late))
      /\ p.resp.kind = "stale" => b > 0
      /\ p.pc # "done" => p.resp.kind = "none"
    BY <1>1, <1>5, <1>6 DEF Honest, Course
<1>8. Honest(q, hist'[r]) <=>
        /\ q.pc = "idle" => u = 0
        /\ q.pc = "fall" => q.how.late \/ u > 0
        /\ q.resp.kind \in {"error", "stale"} => (u > 0 \/ (q.resp.kind = "stale" /\ q.how.late))
        /\ q.resp.kind = "stale" => v > 0
    BY <1>2 DEF Honest
<1>9. CASE Enters(r, d)
    <2>1. p.pc = "idle" /\ q.pc \in Under /\ q.resp = p.resp /\ (q.pc = "fall" => x >= 1)
        BY <1>3, <1>6, <1>9 DEF Enters
    <2> QED
        BY <1>4, <1>6, <1>7, <1>8, <2>1 DEF Under
<1>10. CASE Refuses(r, d)
    <2>1. q.pc = "done" /\ q.resp.kind = "refused"
        BY <1>6, <1>10 DEF Refuses
    <2> QED
        BY <1>6, <1>8, <2>1
<1>11. CASE Goes(r, d)
    <2>1. p.pc \in Under /\ q.pc \in Under /\ q.resp = p.resp /\ (q.pc = "fall" => q.how.late \/ x >= 1)
        BY <1>3, <1>6, <1>11 DEF Goes
    <2> QED
        BY <1>4, <1>6, <1>7, <1>8, <2>1 DEF Under
<1>12. CASE Ends(r, d)
    <2>1. /\ p.pc \in Under /\ q.pc = "done" /\ q.how = p.how
          /\ q.resp.kind = "stale" => y >= 1
          /\ q.resp.kind \in {"error", "stale"} =>
                x >= 1 \/ (p.pc = "fall" /\ (p.how.late => q.resp.kind = "stale"))
        BY <1>3, <1>6, <1>12 DEF Ends
    <2> QED
        BY <1>4, <1>6, <1>7, <1>8, <2>1 DEF Under
<1>13. CASE Works(r, d)
    <2>1. q = p /\ p.pc # "idle"
        BY <1>6, <1>13 DEF Works
    <2> QED
        BY <1>4, <1>6, <1>7, <1>8, <2>1
<1> QED
    BY <1>9, <1>10, <1>11, <1>12, <1>13 DEF Moves
LEMMA ActiveStep ==
    ASSUME RequestInv, AccountInv, NEW r \in Request, NEW d, Only(r), Moves(r, d)
    PROVE  /\ IsFiniteSet(Active') /\ stats'["ActiveRequests"] = Cardinality(Active')
           /\ stats'["ActiveRequests"] \in Nat
<1>1. IsFiniteSet(Active) /\ Cardinality(Active) \in Nat /\ stats["ActiveRequests"] = Cardinality(Active)
    BY FS_CardinalityType DEF AccountInv
<1>2. \A x \in Request \ {r} : req'[x].pc = req[x].pc
    BY DEF Only
<1>3. ASSUME req[r].pc \in Under <=> req'[r].pc \in Under, stats'["ActiveRequests"] = stats["ActiveRequests"]
      PROVE  /\ IsFiniteSet(Active') /\ stats'["ActiveRequests"] = Cardinality(Active')
             /\ stats'["ActiveRequests"] \in Nat
    <2>1. Active' = Active
        BY <1>2, <1>3 DEF Active
    <2> QED
        BY <1>1, <1>3, <2>1
<1>4. CASE Enters(r, d)
    <2>1. r \notin Active /\ Active' = Active \cup {r}
        BY <1>2, <1>4 DEF Active, Enters, Under
    <2>2. IsFiniteSet(Active') /\ Cardinality(Active') = Cardinality(Active) + 1
        BY <1>1, <2>1, Grows
    <2>3. stats'["ActiveRequests"] = stats["ActiveRequests"] + 1
        BY <1>4 DEF Enters
    <2> QED
        BY <1>1, <2>2, <2>3
<1>5. CASE Ends(r, d)
    <2>1. r \in Active /\ Active' = Active \ {r}
        BY <1>2, <1>5 DEF Active, Ends, Under
    <2>2. IsFiniteSet(Active') /\ Cardinality(Active') = Cardinality(Active) - 1 /\ Cardinality(Active') \in Nat
        BY <1>1, <2>1, Shrinks
    <2>3. stats'["ActiveRequests"] = stats["ActiveRequests"] - 1
        BY <1>5 DEF Ends
    <2> QED
        BY <1>1, <2>2, <2>3
<1>6. CASE Refuses(r, d) \/ Goes(r, d) \/ Works(r, d)
    BY <1>3, <1>6 DEF Refuses, Goes, Works, Under
<1> QED
    BY <1>4, <1>5, <1>6 DEF Moves

LEMMA AccountStep ==
    ASSUME CallType, ServiceInv, AccountInv, [ClientsNext]_allVars
    PROVE  HistType' /\ AccountInv'
<1>1. RequestInv /\ HistType
    BY DEF ServiceInv
<1>2. CASE Rests /\ UNCHANGED stats
    BY <1>1, <1>2 DEF Rests, HistType, AccountInv, Active
<1>3. CASE Rests /\ Background
    <2>1. stats' \in [Counters -> Nat] /\ stats'["ActiveRequests"] = stats["ActiveRequests"]
        BY <1>3, BackgroundStats
    <2> QED
        BY <1>1, <1>3, <2>1 DEF Rests, HistType, AccountInv, Active
<1>4. ASSUME Functional, NEW r \in Request, Sound(r) PROVE HistType' /\ AccountInv'
    <2>1. PICK d \in [Counters -> Nat] : Adds(r, d) /\ Moves(r, d)
        BY <1>4 DEF Sound
    <2>2. Only(r) /\ req'[r] \in Requests
        BY <1>4 DEF Sound
    <2>3. /\ IsFiniteSet(Active') /\ stats'["ActiveRequests"] = Cardinality(Active')
          /\ stats'["ActiveRequests"] \in Nat
        BY <1>1, <2>1, <2>2, ActiveStep
    <2>4. Honest(req'[r], hist'[r])
        BY <1>1, <2>1, <2>2, HonestStep
    <2>5. hist' \in [Request -> [Known -> Nat]] /\ \A x \in Request \ {r} : hist'[x] = hist[x]
        BY <1>1, <2>1, AddsHist
    <2>6. \A x \in Request \ {r} : Honest(req'[x], hist'[x])
        <3>1. \A x \in Request \ {r} : req'[x] = req[x] /\ Honest(req[x], hist[x])
            BY <2>2 DEF Only, AccountInv
        <3> QED
            BY <2>5, <3>1
    <2>7. \A k \in Counters : stats'[k] \in Nat
        <3>1. ASSUME NEW k \in Counters \ {"ActiveRequests"} PROVE stats'[k] \in Nat
            <4>1. PICK a \in Nat, b \in Nat : a = stats[k] /\ b = d[k]
                BY <1>1 DEF HistType
            <4>2. stats'[k] = a + b
                BY <2>1, <4>1 DEF Adds
            <4> QED
                BY <4>2
        <3> QED
            BY <2>3, <3>1
    <2>8. HistType'
        BY <1>4, <2>5, <2>7 DEF Functional, HistType
    <2> QED
        BY <2>3, <2>4, <2>6, <2>8 DEF AccountInv
<1>5. ASSUME NEW r \in Request, CallBegins(r) PROVE HistType' /\ AccountInv'
    <2>1. /\ Only(r) /\ UNCHANGED stats /\ req[r].pc \in {"idle", "done"}
          /\ req'[r] = NewRequest /\ hist' = [hist EXCEPT ![r] = [k \in Known |-> 0]]
        BY <1>5, CallBeginsStep
    <2>2. hist' \in [Request -> [Known -> Nat]] /\ \A x \in Request \ {r} : hist'[x] = hist[x]
        BY <1>1, <2>1 DEF HistType
    <2>3. hist'[r] = [k \in Known |-> 0]
        BY <1>1, <2>1 DEF HistType
    <2>4. req'[r].pc = "idle" /\ req'[r].resp.kind = "none"
        BY <2>1 DEF NewRequest, Response
    <2>5. Honest(req'[r], hist'[r])
        BY <2>3, <2>4 DEF Honest, Known
    <2>6. \A x \in Request \ {r} : Honest(req'[x], hist'[x])
        <3>1. \A x \in Request \ {r} : req'[x] = req[x] /\ Honest(req[x], hist[x])
            BY <2>1 DEF Only, AccountInv
        <3> QED
            BY <2>2, <3>1
    <2>7. Active' = Active
        <3>1. \A x \in Request \ {r} : req'[x].pc = req[x].pc
            BY <2>1 DEF Only
        <3> QED
            BY <2>1, <2>4, <3>1 DEF Active, Under
    <2> QED
        BY <1>1, <2>1, <2>2, <2>5, <2>6, <2>7 DEF HistType, AccountInv
<1> QED
    BY <1>2, <1>3, <1>4, <1>5, StepKinds
-------------------------------------------------------------------------------------
(* The programs.                                                                       *)

Verdicts == {"fetch", "ask", "test1", "test2", "passed", "wrong", "fatal"}
Loads == [totalSent : Nat, totalResponses : Nat, totalSuccesses : Nat, totalStale : Nat, userId : Nat]
Reports ==
    [pc : {"tick", "numErrors", "print", "printed"}, numReqs : Nat, numErrors : 0 .. Word - 1, totalSent : Nat]
Polls == [loaded : 0 .. 6, count : Nat, line : [Counters -> Nat], last : [Counters -> Nat]]
Logs == [ok : Nat, err : Nat]

ProgramType ==
    load \in Loads /\ report \in Reports /\ poll \in Polls /\ log \in Logs /\ front \in Verdicts

\* A call asks for at least one video, so the service does not refuse it; who has the
\* answer has it from a call that was logged.
CallCourse(r) ==
    /\ call[r].client # "none" => call[r].limit > 0
    /\ call[r].server = "logged" => req[r].pc = "done"
    /\ call[r].client \in {"success", "stale", "counted"} => call[r].server = "logged"
    /\ ~Program("tests") => req[r].resp.kind # "refused"

\* main of the front end waits for each answer.
FrontInv ==
    Program("frontend") =>
        \A r \in Request : call[r].client # "none" =>
            front \in {"ask", "test1", "test2"} /\ \A x \in Request \ {r} : call[x].client = "none"

\* Calls that are not logged yet, and those among them for which an error was counted.
Unlogged == {r \in Request : call[r].server = "handling"}
Blamed == {r \in Unlogged : hist[r]["TotalErrors"] > 0}
\* Calls that succeeded and are not counted as successes yet; stale answers that are not
\* counted as such; calls without a counted response; responses that are counted, and
\* not yet as successes.
Seen ==
    {r \in Request : \/ call[r].client \in {"success", "stale", "counted"}
                     \/ call[r].client = "waiting" /\ call[r].server = "logged" /\ ~IsError(r)}
StaleSeen == {r \in Request : req[r].resp.kind = "stale" /\ call[r].client \in {"waiting", "success"}}
Outstanding == {r \in Request : call[r].client \in {"waiting", "success", "failure", "stale"}}
HalfCounted == {r \in Request : call[r].client = "counted"}

\* n counts what m counts and, at least, the members of S.
Balance(n, m, S) == IsFiniteSet(S) /\ m + Cardinality(S) <= n

RequestBalance ==
    IsFiniteSet(Unlogged) /\ stats["TotalRequests"] = log.ok + log.err + Cardinality(Unlogged)
ErrorBalance == Balance(stats["TotalErrors"], log.err, Blamed)
SuccessBalance == Balance(log.ok, load.totalSuccesses, Seen)
StaleBalance == Balance(stats["StaleResponses"], load.totalStale, StaleSeen)
SentBalance == Balance(load.totalSent, load.totalResponses, Outstanding)
ResponseBalance == Balance(load.totalResponses, load.totalSuccesses, HalfCounted)

BalanceInv ==
    /\ ~Program("tests") => RequestBalance /\ ErrorBalance
    /\ SuccessBalance /\ StaleBalance /\ ResponseBalance
    /\ Program("loadgen") => SentBalance

\* Numbers that are read one by one, while they grow.
ReadInv ==
    /\ report.pc = "print" => report.numErrors <= report.numReqs \/ load.totalSent > report.numReqs
    /\ report.pc = "printed" => report.numErrors <= report.numReqs \/ report.totalSent > report.numReqs
    /\ \A k \in Counters \ {"ActiveRequests"} : poll.last[k] <= poll.line[k] /\ poll.line[k] <= stats[k]

ClientInv ==
    /\ CallType /\ ProgramType /\ FrontInv /\ BalanceInv /\ ReadInv
    /\ \A r \in Request : CallCourse(r)

\* Every step of a client program that changes a call, seen from the call.
Returned(r) ==
    \/ MakeMiddleware(r) \/ CallReturns(r) \/ CountStale(r) \/ CountResponse(r) \/ CountSuccess(r)
    \/ Judge(r)

LEMMA ReturnedFields ==
    ASSUME CallType, NEW r \in Request, Returned(r)
    PROVE  /\ UNCHANGED vars /\ (\A y \in Request \ {r} : call'[y] = call[y])
           /\ call' \in [Request -> [client : ClientPlaces, server : ServerPlaces, user : AnyUser, limit : Int]]
           /\ call'[r].limit = call[r].limit
           /\ call'[r].server # call[r].server => call[r].server = "handling" /\ call'[r].server = "logged"
           /\ call[r].client = "none" => call'[r].client = "none"
           /\ call'[r].client # "none" => call[r].client # "none"
<1>1. ASSUME NEW x \in ServerPlaces, call' = [call EXCEPT ![r].server = x]
      PROVE  /\ \A y \in Request \ {r} : call'[y] = call[y]
             /\ call'[r].server = x /\ call'[r].client = call[r].client /\ call'[r].limit = call[r].limit
             /\ call' \in [Request -> [client : ClientPlaces, server : ServerPlaces, user : AnyUser, limit : Int]]
    BY <1>1 DEF CallType
<1>2. ASSUME NEW x \in ClientPlaces, call' = [call EXCEPT ![r].client = x]
      PROVE  /\ \A y \in Request \ {r} : call'[y] = call[y]
             /\ call'[r].client = x /\ call'[r].server = call[r].server /\ call'[r].limit = call[r].limit
             /\ call' \in [Request -> [client : ClientPlaces, server : ServerPlaces, user : AnyUser, limit : Int]]
    BY <1>2 DEF CallType
<1>3. UNCHANGED vars
    BY DEF Returned, MakeMiddleware, CallReturns, CountStale, CountResponse, CountSuccess, Judge
<1>4. CASE MakeMiddleware(r)
    <2>1. call' = [call EXCEPT ![r].server = "logged"] /\ call[r].server = "handling"
        BY <1>4 DEF MakeMiddleware
    <2>2. "logged" \in ServerPlaces
        BY DEF ServerPlaces
    <2> QED
        BY <1>1, <1>3, <2>1, <2>2
<1>5. CASE Returned(r) /\ ~MakeMiddleware(r)
    <2>1. PICK x \in ClientPlaces : call' = [call EXCEPT ![r].client = x] /\ (call[r].client = "none" => x = "none")
        <3>1. DOMAIN call = Request /\ "client" \in DOMAIN call[r]
            BY DEF CallType
        <3>2. CASE CallReturns(r)
            BY <3>2 DEF CallReturns, ClientPlaces
        <3>3. CASE CountStale(r)
            BY <3>3 DEF CountStale, ClientPlaces
        <3>4. CASE CountResponse(r)
            <4> DEFINE x == IF call[r].client = "failure" THEN "none" ELSE "counted"
            <4>1. call' = [call EXCEPT ![r].client = x]
                BY <3>1, <3>4 DEF CountResponse
            <4>2. x \in ClientPlaces /\ call[r].client # "none"
                BY <3>4 DEF CountResponse, ClientPlaces
            <4> QED
                BY <4>1, <4>2
        <3>5. CASE CountSuccess(r)
            BY <3>5 DEF CountSuccess, ClientPlaces
        <3>6. CASE Judge(r)
            BY <3>6 DEF Judge, ClientPlaces
        <3> QED
            BY <1>5, <3>2, <3>3, <3>4, <3>5, <3>6 DEF Returned
    <2>2. /\ \A y \in Request \ {r} : call'[y] = call[y]
          /\ call'[r].client = x /\ call'[r].server = call[r].server /\ call'[r].limit = call[r].limit
          /\ call' \in [Request -> [client : ClientPlaces, server : ServerPlaces, user : AnyUser, limit : Int]]
        BY <1>2, <2>1
    <2> QED
        BY <1>3, <2>1, <2>2
<1> QED
    BY <1>4, <1>5
Begins(r) == sendSingleTestRequest(r) \/ sendRequest(r)
Reads == reportStats \/ gatherStats \/ GetStats \/ fetchUser

LEMMA ClientSteps ==
    ASSUME [ClientsNext]_allVars
    PROVE  \/ UNCHANGED clientVars
           \/ \E r \in Request : Returned(r) \/ VideoRecService_GetTopVideos_Handler(r) \/ Begins(r)
           \/ Reads
BY DEF ClientsNext, ServiceNext, Client, Returned, Begins, Reads, allVars

\* A program asks for some user, and at least for one video.
LEMMA BeginsFields ==
    ASSUME CallType, ProgramType, NEW r \in Request, Begins(r)
    PROVE  /\ CallBegins(r) /\ (\A y \in Request \ {r} : call'[y] = call[y])
           /\ call' \in [Request -> [client : ClientPlaces, server : ServerPlaces, user : AnyUser, limit : Int]]
           /\ call'[r].client = "waiting" /\ call'[r].server = "none" /\ call'[r].limit > 0
           /\ UNCHANGED <<report, poll, front, log>>
<1>1. /\ UNCHANGED <<report, poll, front, log>>
      /\ \E u \in AnyUser, n \in Nat \ {0} : videoRecServiceClient(r, u, n)
    <2>1. CASE sendSingleTestRequest(r)
        <3>1. NetUser \in AnyUser /\ TestUsers[1] \in AnyUser /\ TestUsers[2] \in AnyUser
            BY ClientsAssumption DEF AnyUser
        <3>2. UserOf(front) \in AnyUser
            BY <3>1 DEF UserOf
        <3> QED
            BY <2>1, <3>2, ClientsAssumption DEF sendSingleTestRequest
    <2>2. CASE sendRequest(r)
        <3>1. load.userId \in AnyUser
            BY DEF ProgramType, Loads, AnyUser
        <3> QED
            BY <2>2, <3>1, ClientsAssumption DEF sendRequest
    <2> QED
        BY <2>1, <2>2 DEF Begins
<1>2. PICK u \in AnyUser, n \in Nat \ {0} : videoRecServiceClient(r, u, n)
    BY <1>1
<1> DEFINE c == [client |-> "waiting", server |-> "none", user |-> u, limit |-> n]
<1>3. /\ c \in [client : ClientPlaces, server : ServerPlaces, user : AnyUser, limit : Int]
      /\ c.client = "waiting" /\ c.server = "none" /\ c.limit > 0
    BY DEF ClientPlaces, ServerPlaces
<1>4. call' = [call EXCEPT ![r] = c]
    BY <1>2 DEF videoRecServiceClient
<1> HIDE DEF c
<1>5. CallBegins(r)
    BY <1>2 DEF CallBegins
<1> QED
    BY <1>1, <1>3, <1>4, <1>5 DEF CallType

LEMMA ArrivalFields ==
    ASSUME CallType, NEW r \in Request, VideoRecService_GetTopVideos_Handler(r)
    PROVE  /\ \A y \in Request \ {r} : call'[y] = call[y]
           /\ call' \in [Request -> [client : ClientPlaces, server : ServerPlaces, user : AnyUser, limit : Int]]
           /\ call[r].client \in {"waiting", "failure"} /\ call[r].server = "none"
           /\ call'[r].client = call[r].client /\ call'[r].server = "handling" /\ call'[r].limit = call[r].limit
           /\ UNCHANGED <<load, report, poll, front, log>>
           /\ Arrive(r, call[r].user, call[r].limit) /\ call[r].user \in AnyUser /\ call[r].limit \in Int
BY DEF CallType, VideoRecService_GetTopVideos_Handler, ServerPlaces

LEMMA CallStep ==
    ASSUME CallType, StaticInv, ProgramType, [ClientsNext]_allVars
    PROVE  CallType'
<1>1. scene' \in Scenes
    BY StaticStep DEF StaticInv
<1>2. ASSUME Reads PROVE UNCHANGED call
    BY <1>2 DEF Reads, reportStats, gatherStats, GetStats, fetchUser
<1>3. ASSUME UNCHANGED clientVars PROVE UNCHANGED call
    BY <1>3 DEF clientVars
<1>4. ASSUME UNCHANGED call PROVE CallType'
    BY <1>1, <1>4 DEF CallType
<1>5. ASSUME call' \in [Request -> [client : ClientPlaces, server : ServerPlaces, user : AnyUser, limit : Int]]
      PROVE  CallType'
    BY <1>1, <1>5 DEF CallType
<1> QED
    BY <1>2, <1>3, <1>4, <1>5, ClientSteps, ReturnedFields, BeginsFields, ArrivalFields

LEMMA Remainder ==
    ASSUME NEW x \in Int, NEW w \in Nat \ {0}
    PROVE  x % w \in 0 .. w - 1 /\ (x >= 0 => x % w <= x)
<1>1. x % w \in 0 .. w - 1
    OBVIOUS
<1>2. ASSUME x >= 0 PROVE x % w <= x
    <2>1. CASE x < w
        BY <1>2, <2>1
    <2>2. CASE x >= w
        BY <1>1, <2>2
    <2> QED
        BY <2>1, <2>2
<1> QED
    BY <1>1, <1>2

LEMMA ProgramStep ==
    ASSUME ClientInv, HistType, [ClientsNext]_allVars
    PROVE  ProgramType'
<1>1. /\ CallType /\ load \in Loads /\ report \in Reports /\ poll \in Polls /\ log \in Logs
      /\ front \in Verdicts
    BY DEF ClientInv, ProgramType
<1>2. CASE UNCHANGED clientVars
    BY <1>1, <1>2 DEF clientVars, ProgramType
<1>3. ASSUME NEW r \in Request, VideoRecService_GetTopVideos_Handler(r) PROVE ProgramType'
    BY <1>1, <1>3 DEF VideoRecService_GetTopVideos_Handler, ProgramType
<1>4. ASSUME NEW r \in Request, MakeMiddleware(r) PROVE ProgramType'
    <2>1. log' \in Logs
        BY <1>1, <1>4 DEF MakeMiddleware, LogRequest, Logs
    <2> QED
        BY <1>1, <1>4, <2>1 DEF MakeMiddleware, ProgramType
<1>5. ASSUME NEW r \in Request, CallReturns(r) PROVE ProgramType'
    BY <1>1, <1>5 DEF CallReturns, ProgramType
<1>6. ASSUME NEW r \in Request, CountStale(r) \/ CountResponse(r) \/ CountSuccess(r) PROVE ProgramType'
    <2>1. load' \in Loads
        BY <1>1, <1>6 DEF CountStale, CountResponse, CountSuccess, Loads
    <2> QED
        BY <1>1, <1>6, <2>1 DEF CountStale, CountResponse, CountSuccess, ProgramType
<1>7. ASSUME NEW r \in Request, Judge(r) PROVE ProgramType'
    <2>1. front' \in Verdicts
        <3>1. front \in {"ask", "test1", "test2"}
            BY <1>7 DEF ClientInv, FrontInv, Judge
        <3>2. NextStep[front] \in Verdicts
            BY <3>1 DEF NextStep, Verdicts
        <3> QED
            BY <1>7, <3>2 DEF Judge, Verdicts
    <2> QED
        BY <1>1, <1>7, <2>1 DEF Judge, ProgramType
<1>8. ASSUME NEW r \in Request, Begins(r) PROVE ProgramType'
    <2>1. load' \in Loads
        <3>1. CASE sendSingleTestRequest(r)
            BY <1>1, <3>1 DEF sendSingleTestRequest
        <3>2. CASE sendRequest(r)
            <4>1. PICK n \in Nat, t \in Nat : n = load.userId /\ t = load.totalSent
                BY <1>1 DEF Loads
            <4>2. PICK m \in Nat : m = getNextUserId(n)
                BY DEF getNextUserId
            <4>3. load' = [load EXCEPT !.totalSent = t + 1, !.userId = m]
                BY <3>2, <4>1, <4>2 DEF sendRequest
            <4>4. t + 1 \in Nat
                OBVIOUS
            <4> QED
                BY <1>1, <4>3, <4>4 DEF Loads
        <3> QED
            BY <1>8, <3>1, <3>2 DEF Begins
    <2> QED
        BY <1>1, <1>8, <2>1, BeginsFields DEF ClientInv, ProgramType
<1>9. CASE reportStats
    <2>1. PICK n \in Int : n = report.numReqs - load.totalSuccesses
        BY <1>1 DEF Reports, Loads
    <2>2. n % Word \in 0 .. Word - 1
        BY WordAssumption, Remainder
    <2>3. PICK e : e = n % Word
        OBVIOUS
    <2>4. e \in 0 .. Word - 1 /\ load.totalResponses \in Nat /\ load.totalSent \in Nat
        BY <1>1, <2>2, <2>3 DEF Loads
    <2>5. \/ report' = [report EXCEPT !.pc = "numErrors", !.numReqs = load.totalResponses]
          \/ report' = [report EXCEPT !.pc = "print", !.numErrors = e]
          \/ report' = [report EXCEPT !.pc = "printed", !.totalSent = load.totalSent]
        BY <1>9, <2>1, <2>3 DEF reportStats
    <2>6. report' \in Reports
        BY <1>1, <2>4, <2>5 DEF Reports
    <2> QED
        BY <1>1, <1>9, <2>6 DEF reportStats, ProgramType
<1>10. CASE gatherStats
    <2>1. PICK n \in Nat : n = poll.count /\ n + 1 \in Nat
        BY <1>1 DEF Polls
    <2>2. PICK l : l = poll.line /\ l \in [Counters -> Nat]
        BY <1>1 DEF Polls
    <2>3. poll' = [poll EXCEPT !.loaded = 0, !.count = n + 1, !.last = l]
        BY <1>10, <2>1, <2>2 DEF gatherStats
    <2>4. poll' \in Polls
        <3>1. PICK F : F = [Counters -> Nat]
            OBVIOUS
        <3>2. l \in F /\ poll \in [loaded : 0 .. 6, count : Nat, line : F, last : F] /\ 0 \in 0 .. 6
            BY <1>1, <2>2, <3>1 DEF Polls
        <3>3. poll' \in [loaded : 0 .. 6, count : Nat, line : F, last : F]
            BY ONLY <2>1, <2>3, <3>2
        <3> QED
            BY <3>1, <3>3 DEF Polls
    <2> QED
        BY <1>1, <1>10, <2>4 DEF gatherStats, ProgramType
<1>11. CASE GetStats
    <2>1. Len(LoadOrder) = 6 /\ \A i \in 1 .. 6 : LoadOrder[i] \in Counters
        BY DEF LoadOrder, Counters
    <2>2. PICK i \in 0 .. 5 : i = poll.loaded
        BY <1>1, <1>11, <2>1 DEF GetStats, Polls
    <2>3. PICK k \in Counters : k = LoadOrder[i + 1]
        BY <2>1
    <2>4. poll' = [poll EXCEPT !.loaded = i + 1, !.line = [poll.line EXCEPT ![k] = stats[k]]]
        <3>1. poll' = [poll EXCEPT !.loaded = @ + 1, !.line[k] = stats[k]]
            BY <1>11, <2>2, <2>3 DEF GetStats
        <3>2. poll.loaded + 1 = i + 1
            BY <2>2
        <3>3. "loaded" \in DOMAIN poll /\ "line" \in DOMAIN poll
            BY <1>1 DEF Polls
        <3> QED
            BY ONLY <3>1, <3>2, <3>3
    <2>5. [poll.line EXCEPT ![k] = stats[k]] \in [Counters -> Nat] /\ i + 1 \in 0 .. 6
        BY <1>1 DEF HistType, Polls
    <2>6. poll' \in Polls
        BY <1>1, <2>4, <2>5 DEF Polls
    <2> QED
        BY <1>1, <1>11, <2>6 DEF GetStats, ProgramType
<1>12. CASE fetchUser
    <2>1. front' \in Verdicts
        BY <1>12 DEF fetchUser, Verdicts
    <2> QED
        BY <1>1, <1>12, <2>1 DEF fetchUser, ProgramType
<1> QED
    BY <1>2, <1>3, <1>4, <1>5, <1>6, <1>7, <1>8, <1>9, <1>10, <1>11, <1>12, ClientSteps DEF Returned, Reads
\* The steps of the service by itself: only a test has a request arrive without a call.
LEMMA ServedKinds ==
    ASSUME CallType, ProgramType, ServiceInv, [ClientsNext]_allVars, UNCHANGED clientVars
    PROVE  \/ Rests /\ UNCHANGED stats
           \/ Rests /\ Background
           \/ \E r \in Request : Sound(r) /\ (Program("tests") \/ req[r].pc # "idle")
<1>1. UNCHANGED call
    BY DEF clientVars
<1>2. ASSUME UNCHANGED vars PROVE Rests /\ UNCHANGED stats
    BY <1>2 DEF Rests, vars
<1>3. ASSUME NEW r \in Request, Returned(r) PROVE Rests /\ UNCHANGED stats
    BY <1>2, <1>3, ReturnedFields
<1>4. ASSUME NEW r \in Request PROVE ~VideoRecService_GetTopVideos_Handler(r)
    <2> SUFFICES ASSUME VideoRecService_GetTopVideos_Handler(r) PROVE FALSE
        OBVIOUS
    <2>1. call[r].server = "none" /\ call'[r].server = "handling"
        BY ArrivalFields
    <2> QED
        BY <1>1, <2>1
<1>5. ASSUME NEW r \in Request PROVE ~Begins(r)
    <2> SUFFICES ASSUME Begins(r) PROVE FALSE
        OBVIOUS
    <2>1. CallBegins(r) /\ call'[r].client = "waiting"
        BY BeginsFields
    <2>2. call[r].client = "none"
        BY <2>1, CallBeginsStep
    <2> QED
        BY <1>1, <2>1, <2>2
<1>6. ASSUME Reads PROVE Rests /\ UNCHANGED stats
    BY <1>2, <1>6 DEF Reads, reportStats, gatherStats, GetStats, fetchUser
<1>7. ASSUME Background PROVE Rests
    BY <1>7, BackgroundFrame DEF Rests, RequestVars
<1>8. ASSUME NEW s \in Service, Probes(s) PROVE Rests /\ UNCHANGED stats
    BY <1>8, ProbesFrame DEF Rests
<1>9. ASSUME NEW r \in Request, RequestMoves(r) PROVE Sound(r) /\ req[r].pc # "idle"
    BY <1>9, MoveStep, MovesOnce DEF ServiceInv
<1>10. CASE Serve
    <2>1. \/ \E r \in Request : RequestMoves(r)
          \/ Background
          \/ \E s \in Service : Probes(s)
        BY <1>10 DEF Serve, RequestMoves, Background, Probes
    <2> QED
        BY <1>7, <1>8, <1>9, <2>1
<1>11. ASSUME Program("tests"), NEW r \in Request, NEW ask \in scene.asked, Arrive(r, ask[1], ask[2])
       PROVE  Sound(r)
    <2>1. scene.asked \subseteq Int \X Int
        BY SceneAssumption DEF CallType
    <2>2. ask[1] \in AnyUser /\ ask[2] \in Int
        BY <2>1 DEF AnyUser
    <2> QED
        BY <1>11, <2>2, ArriveStep
<1> QED
    BY <1>2, <1>3, <1>4, <1>5, <1>6, <1>10, <1>11
    DEF ClientsNext, ServiceNext, Client, Returned, Begins, Reads, allVars

\* A response stays as it is; only a request that arrives is refused.
LEMMA MovesResp ==
    ASSUME NEW r \in Request, NEW d, Moves(r, d)
    PROVE  /\ req[r].pc = "done" => req'[r] = req[r]
           /\ req'[r].resp.kind = "refused" => req[r].resp.kind = "refused" \/ req[r].pc = "idle"
           /\ req'[r].resp = req[r].resp \/ req'[r].pc = "done"
           /\ req[r].pc # "idle" => d["TotalRequests"] = 0
           /\ req[r].pc = "idle" => d["TotalRequests"] = 1
           /\ req'[r].resp.kind = "stale" => req[r].resp.kind = "stale" \/ d["StaleResponses"] >= 1
BY DEF Moves, Enters, Refuses, Goes, Ends, Works, Under

\* The request of a call is not refused.
LEMMA ArrivalStep ==
    ASSUME ServiceInv, ClientInv, NEW r \in Request, VideoRecService_GetTopVideos_Handler(r)
    PROVE  /\ Sound(r) /\ req[r].pc = "idle" /\ req[r] = NewRequest
           /\ req'[r].resp = req[r].resp /\ req[r].resp.kind = "none"
<1>1. /\ Arrive(r, call[r].user, call[r].limit) /\ call[r].user \in AnyUser /\ call[r].limit \in Int
      /\ call[r].client \in {"waiting", "failure"}
    BY ArrivalFields DEF ClientInv
<1>2. Sound(r)
    BY <1>1, ArriveStep
<1>3. call[r].limit > 0
    BY <1>1 DEF ClientInv, CallCourse
<1>4. req[r].pc = "idle" /\ req[r] = NewRequest
    BY <1>1 DEF Arrive, ServiceInv, RequestInv, Course
<1>5. req[r].resp.kind = "none"
    BY <1>4 DEF NewRequest, Response
<1>6. req \in [Request -> Requests]
    BY DEF ServiceInv, RequestInv
<1>7. ~(call[r].limit < 0)
    BY <1>1, <1>3
<1>8. req'[r].resp = req[r].resp
    BY <1>1, <1>6, <1>7 DEF Arrive, Requests
<1> QED
    BY <1>2, <1>4, <1>5, <1>8

LEMMA CourseStep ==
    ASSUME ServiceInv, ClientInv, [ClientsNext]_allVars, NEW r \in Request
    PROVE  CallCourse(r)'
<1>1. CallType /\ ProgramType /\ CallCourse(r) /\ UNCHANGED scene
    BY StaticStep DEF ClientInv, ServiceInv
<1>2. ASSUME call'[r] = call[r], req'[r] = req[r] PROVE CallCourse(r)'
    BY <1>1, <1>2 DEF CallCourse, Program
<1>3. CASE UNCHANGED clientVars
    <2>1. UNCHANGED call
        BY <1>3 DEF clientVars
    <2>2. CASE Rests
        BY <1>2, <2>1, <2>2 DEF Rests
    <2>3. ASSUME NEW x \in Request, Sound(x), Program("tests") \/ req[x].pc # "idle" PROVE CallCourse(r)'
        <3>1. CASE x # r
            BY <1>2, <2>1, <2>3, <3>1 DEF Sound, Only
        <3>2. CASE x = r
            <4>1. /\ req[r].pc = "done" => req'[r] = req[r]
                  /\ req'[r].resp.kind = "refused" => req[r].resp.kind = "refused" \/ req[r].pc = "idle"
                BY <2>3, <3>2, MovesResp DEF Sound
            <4> QED
                BY <1>1, <2>1, <2>3, <3>2, <4>1 DEF CallCourse, Program
        <3> QED
            BY <3>1, <3>2
    <2> QED
        BY <1>1, <1>3, <2>2, <2>3, ServedKinds
<1>4. ASSUME NEW x \in Request, Returned(x) PROVE CallCourse(r)'
    <2>1. UNCHANGED req
        BY <1>1, <1>4, ReturnedFields DEF vars
    <2>2. CASE x # r
        BY <1>1, <1>2, <1>4, <2>1, <2>2, ReturnedFields
    <2>3. CASE x = r
        <3>1. /\ call'[r].limit = call[r].limit
              /\ call'[r].server # call[r].server => call[r].server = "handling" /\ call'[r].server = "logged"
              /\ call'[r].client # "none" => call[r].client # "none"
            BY <1>1, <1>4, <2>3, ReturnedFields
        <3>2. call'[r].server = "logged" => req[r].pc = "done"
            <4>1. CASE call'[r].server = call[r].server
                BY <1>1, <4>1 DEF CallCourse
            <4>2. CASE call'[r].server # call[r].server
                <5>1. call[r].server = "handling"
                    BY <3>1, <4>2
                <5>2. ASSUME NEW y \in ClientPlaces, call' = [call EXCEPT ![r].client = y] PROVE FALSE
                    BY <1>1, <4>2, <5>2 DEF CallType
                <5>3. CASE MakeMiddleware(r)
                    BY <5>3 DEF MakeMiddleware
                <5>4. DOMAIN call = Request /\ "client" \in DOMAIN call[r]
                    BY <1>1 DEF CallType
                <5>5. ASSUME ~MakeMiddleware(r) PROVE FALSE
                    BY <1>4, <2>3, <5>2, <5>4, <5>5
                    DEF Returned, CallReturns, CountStale, CountResponse, CountSuccess, Judge, ClientPlaces
                <5> QED
                    BY <5>3, <5>5
            <4> QED
                BY <4>1, <4>2
        <3>3. call'[r].client \in {"success", "stale", "counted"} => call'[r].server = "logged"
            <4>1. CASE MakeMiddleware(r)
                BY <1>1, <4>1 DEF CallType, MakeMiddleware, CallCourse, ServerPlaces
            <4>2. CASE CallReturns(r)
                BY <1>1, <4>2 DEF CallType, CallReturns, CallCourse, ClientPlaces
            <4>3. CASE CountStale(r)
                BY <1>1, <4>3 DEF CallType, CountStale, CallCourse, ClientPlaces
            <4>4. CASE CountResponse(r)
                BY <1>1, <4>4 DEF CallType, CountResponse, CallCourse, ClientPlaces
            <4>5. CASE CountSuccess(r)
                BY <1>1, <4>5 DEF CallType, CountSuccess, CallCourse, ClientPlaces
            <4>6. CASE Judge(r)
                BY <1>1, <4>6 DEF CallType, Judge, CallCourse, ClientPlaces
            <4> QED
                BY <1>4, <2>3, <4>1, <4>2, <4>3, <4>4, <4>5, <4>6 DEF Returned
        <3> QED
            BY <1>1, <2>1, <3>1, <3>2, <3>3 DEF CallCourse, Program
    <2> QED
        BY <2>2, <2>3
<1>5. ASSUME NEW x \in Request, VideoRecService_GetTopVideos_Handler(x) PROVE CallCourse(r)'
    <2>1. Sound(x) /\ req'[x].resp = req[x].resp
        BY <1>5, ArrivalStep
    <2>2. CASE x # r
        BY <1>1, <1>2, <1>5, <2>1, <2>2, ArrivalFields DEF Sound, Only
    <2>3. CASE x = r
        <3>1. call'[r].client = call[r].client /\ call'[r].server = "handling" /\ call'[r].limit = call[r].limit
            BY <1>1, <1>5, <2>3, ArrivalFields
        <3>2. call[r].client \in {"waiting", "failure"}
            BY <1>1, <1>5, <2>3, ArrivalFields
        <3> QED
            BY <1>1, <2>1, <2>3, <3>1, <3>2 DEF CallCourse, Program
    <2> QED
        BY <2>2, <2>3
<1>6. ASSUME NEW x \in Request, Begins(x) PROVE CallCourse(r)'
    <2>1. CallBegins(x) /\ Only(x) /\ req'[x] = NewRequest
        BY <1>1, <1>6, BeginsFields, CallBeginsStep
    <2>2. CASE x # r
        BY <1>1, <1>2, <1>6, <2>1, <2>2, BeginsFields DEF Only
    <2>3. CASE x = r
        <3>1. call'[r].client = "waiting" /\ call'[r].server = "none" /\ call'[r].limit > 0
            BY <1>1, <1>6, <2>3, BeginsFields
        <3>2. req'[r].resp.kind = "none"
            BY <2>1, <2>3 DEF NewRequest, Response
        <3> QED
            BY <3>1, <3>2 DEF CallCourse
    <2> QED
        BY <2>2, <2>3
<1>7. ASSUME Reads PROVE CallCourse(r)'
    <2>1. UNCHANGED <<call, req>>
        BY <1>7 DEF Reads, reportStats, gatherStats, GetStats, fetchUser, vars
    <2> QED
        BY <1>2, <2>1
<1> QED
    BY <1>3, <1>4, <1>5, <1>6, <1>7, ClientSteps
LEMMA FrontStep ==
    ASSUME ServiceInv, ClientInv, [ClientsNext]_allVars
    PROVE  FrontInv'
<1>1. CallType /\ ProgramType /\ UNCHANGED scene
    BY StaticStep DEF ClientInv, ServiceInv
<1> SUFFICES ASSUME Program("frontend"), NEW r \in Request, call'[r].client # "none"
             PROVE  front' \in {"ask", "test1", "test2"} /\ \A x \in Request \ {r} : call'[x].client = "none"
    BY <1>1 DEF FrontInv, Program
<1>2. ASSUME NEW x \in Request, call[x].client # "none"
      PROVE  front \in {"ask", "test1", "test2"} /\ \A y \in Request \ {x} : call[y].client = "none"
    BY <1>2 DEF ClientInv, FrontInv
<1>3. ASSUME UNCHANGED front, \A x \in Request : call'[x].client # "none" => call[x].client # "none"
      PROVE  front' \in {"ask", "test1", "test2"} /\ \A x \in Request \ {r} : call'[x].client = "none"
    BY <1>2, <1>3
<1>4. CASE UNCHANGED clientVars
    BY <1>3, <1>4 DEF clientVars
<1>5. ASSUME NEW x \in Request, Returned(x)
      PROVE  front' \in {"ask", "test1", "test2"} /\ \A y \in Request \ {r} : call'[y].client = "none"
    <2>1. \A y \in Request : call'[y].client # "none" => call[y].client # "none"
        BY <1>1, <1>5, ReturnedFields
    <2>2. CASE Judge(x)
        <3>1. call[x].client # "none" /\ call' = [call EXCEPT ![x].client = "none"]
            BY <2>2 DEF Judge
        <3>2. call'[x].client = "none"
            BY <1>1, <3>1 DEF CallType
        <3>3. r # x /\ call[r].client = "none"
            BY <1>2, <3>1, <3>2
        <3> QED
            BY <2>1, <3>3
    <2>3. CASE ~Judge(x)
        <3>1. UNCHANGED front
            BY <1>5, <2>3 DEF Returned, MakeMiddleware, CallReturns, CountStale, CountResponse, CountSuccess
        <3> QED
            BY <1>3, <2>1, <3>1
    <2> QED
        BY <2>2, <2>3
<1>6. ASSUME NEW x \in Request, VideoRecService_GetTopVideos_Handler(x)
      PROVE  front' \in {"ask", "test1", "test2"} /\ \A y \in Request \ {r} : call'[y].client = "none"
    <2>1. /\ UNCHANGED front /\ call[x].client # "none" /\ \A y \in Request \ {x} : call'[y] = call[y]
        BY <1>1, <1>6, ArrivalFields
    <2> QED
        BY <1>3, <2>1
<1>7. ASSUME NEW x \in Request, Begins(x)
      PROVE  front' \in {"ask", "test1", "test2"} /\ \A y \in Request \ {r} : call'[y].client = "none"
    <2>1. sendSingleTestRequest(x)
        BY <1>7 DEF Begins, sendRequest, Program
    <2>2. front \in {"ask", "test1", "test2"} /\ \A y \in Request : call[y].client = "none"
        BY <2>1 DEF sendSingleTestRequest, NextStep
    <2>3. UNCHANGED front /\ \A y \in Request \ {x} : call'[y] = call[y]
        BY <1>1, <1>7, BeginsFields
    <2>4. x = r
        BY <2>2, <2>3
    <2> QED
        BY <2>2, <2>3, <2>4
<1>8. CASE Reads
    <2>1. UNCHANGED call
        BY <1>8 DEF Reads, reportStats, gatherStats, GetStats, fetchUser
    <2>2. front \in {"ask", "test1", "test2"}
        BY <1>2, <2>1
    <2>3. UNCHANGED front
        BY <1>8, <2>2 DEF Reads, reportStats, gatherStats, GetStats, fetchUser
    <2> QED
        BY <1>3, <2>1, <2>3
<1> QED
    BY <1>4, <1>5, <1>6, <1>7, <1>8, ClientSteps

\* The counters of the service, but for ActiveRequests, never go back.
LEMMA StatsGrow ==
    ASSUME CallType, ServiceInv, [ClientsNext]_allVars, NEW k \in Counters \ {"ActiveRequests"}
    PROVE  stats[k] <= stats'[k]
<1>1. stats \in [Counters -> Nat]
    BY DEF ServiceInv, HistType
<1>2. ASSUME NEW r \in Request, Sound(r) PROVE stats[k] <= stats'[k]
    <2>1. PICK d \in [Counters -> Nat] : Adds(r, d)
        BY <1>2 DEF Sound
    <2>2. PICK a \in Nat, b \in Nat : a = stats[k] /\ b = d[k]
        BY <1>1
    <2>3. stats'[k] = a + b
        BY <2>1, <2>2 DEF Adds
    <2> QED
        BY <2>2, <2>3
<1>3. ASSUME NEW r \in Request, CallBegins(r) PROVE stats[k] <= stats'[k]
    BY <1>1, <1>3, CallBeginsStep
<1>4. CASE Background
    BY <1>4, BackgroundStats
<1>5. CASE UNCHANGED stats
    BY <1>1, <1>5
<1> QED
    BY <1>2, <1>3, <1>4, <1>5, StepKinds

LEMMA LoadGrows ==
    ASSUME ClientInv, [ClientsNext]_allVars
    PROVE  load.totalSent <= load'.totalSent
<1>1. load \in Loads
    BY DEF ClientInv, ProgramType
<1>2. PICK n \in Nat : n = load.totalSent
    BY <1>1 DEF Loads
<1>3. load'.totalSent = n \/ load'.totalSent = n + 1
    <2>1. CASE UNCHANGED load
        BY <1>2, <2>1
    <2>2. ASSUME NEW r \in Request, Returned(r) PROVE load'.totalSent = n
        BY <1>1, <1>2, <2>2 DEF Returned, MakeMiddleware, CallReturns, CountStale, CountResponse, CountSuccess,
           Judge, Loads
    <2>3. ASSUME NEW r \in Request, sendRequest(r) PROVE load'.totalSent = n + 1
        BY <1>1, <1>2, <2>3 DEF sendRequest, Loads
    <2>4. ASSUME NEW r \in Request, VideoRecService_GetTopVideos_Handler(r) \/ sendSingleTestRequest(r)
          PROVE  UNCHANGED load
        BY <2>4 DEF VideoRecService_GetTopVideos_Handler, sendSingleTestRequest
    <2>5. ASSUME Reads PROVE UNCHANGED load
        BY <2>5 DEF Reads, reportStats, gatherStats, GetStats, fetchUser
    <2>6. ASSUME UNCHANGED clientVars PROVE UNCHANGED load
        BY <2>6 DEF clientVars
    <2> QED
        BY <2>1, <2>2, <2>3, <2>4, <2>5, <2>6, ClientSteps DEF Begins
<1> QED
    BY <1>2, <1>3
LEMMA BalanceBounds ==
    ASSUME NEW n \in Nat, NEW m \in Nat, NEW S, Balance(n, m, S)
    PROVE  m <= n
<1>1. PICK c \in Nat : c = Cardinality(S)
    BY FS_CardinalityType DEF Balance
<1> QED
    BY <1>1 DEF Balance

LEMMA BalanceKeeps ==
    ASSUME NEW n \in Nat, NEW m \in Nat, NEW S, Balance(n, m, S), NEW T, T \subseteq S,
           NEW n2 \in Nat, n <= n2
    PROVE  Balance(n2, m, T)
<1>1. IsFiniteSet(T) /\ Cardinality(T) \in Nat /\ Cardinality(S) \in Nat /\ Cardinality(T) <= Cardinality(S)
    BY FS_Subset, FS_CardinalityType DEF Balance
<1> QED
    BY <1>1 DEF Balance

LEMMA BalanceGrows ==
    ASSUME NEW n \in Nat, NEW m \in Nat, NEW S, Balance(n, m, S), NEW x, NEW T, T \subseteq S \cup {x},
           NEW n2 \in Nat, n + 1 <= n2
    PROVE  Balance(n2, m, T)
<1>1. IsFiniteSet(S \cup {x}) /\ Cardinality(S) \in Nat /\ Cardinality(S \cup {x}) \in Nat
    BY FS_AddElement, FS_CardinalityType DEF Balance
<1>2. Cardinality(S \cup {x}) <= Cardinality(S) + 1
    BY <1>1, FS_AddElement DEF Balance
<1>3. Balance(n2, m, S \cup {x})
    BY <1>1, <1>2 DEF Balance
<1> QED
    BY <1>3, BalanceKeeps

LEMMA BalancePays ==
    ASSUME NEW n \in Nat, NEW m \in Nat, NEW S, Balance(n, m, S), NEW x \in S, NEW T, T \subseteq S \ {x}
    PROVE  Balance(n, m + 1, T)
<1>1. IsFiniteSet(S \ {x}) /\ Cardinality(S) \in Nat /\ Cardinality(S \ {x}) = Cardinality(S) - 1
    BY Shrinks DEF Balance
<1>2. Balance(n, m + 1, S \ {x})
    BY <1>1 DEF Balance
<1> QED
    BY <1>2, BalanceKeeps

LEMMA ReadStep ==
    ASSUME ServiceInv, AccountInv, ClientInv, [ClientsNext]_allVars
    PROVE  ReadInv'
<1>1. /\ CallType /\ ProgramType /\ load \in Loads /\ report \in Reports /\ poll \in Polls /\ ReadInv
      /\ ProgramType' /\ stats \in [Counters -> Nat]
    BY ProgramStep DEF ClientInv, ProgramType, ServiceInv, HistType
<1>2. PICK s \in Nat, t \in Nat : s = load.totalSent /\ t = load'.totalSent
    BY <1>1 DEF Loads, ProgramType
<1>3. s <= t
    BY <1>2, LoadGrows
<1>4. ASSUME UNCHANGED report
      PROVE  /\ report'.pc = "print" => report'.numErrors <= report'.numReqs \/ load'.totalSent > report'.numReqs
             /\ report'.pc = "printed" => report'.numErrors <= report'.numReqs \/ report'.totalSent > report'.numReqs
    <2>1. PICK n \in Nat : n = report.numReqs
        BY <1>1 DEF Reports
    <2>2. s > n => t > n
        BY <1>3
    <2> QED
        BY <1>1, <1>2, <1>4, <2>1, <2>2 DEF ReadInv
<1>5. ASSUME reportStats
      PROVE  /\ report'.pc = "print" => report'.numErrors <= report'.numReqs \/ load'.totalSent > report'.numReqs
             /\ report'.pc = "printed" => report'.numErrors <= report'.numReqs \/ report'.totalSent > report'.numReqs
    <2>1. UNCHANGED load /\ Program("loadgen")
        BY <1>5 DEF reportStats
    <2>2. PICK n \in Nat, u \in Nat, v \in Nat :
            n = report.numReqs /\ u = load.totalSuccesses /\ v = load.totalResponses
        BY <1>1 DEF Reports, Loads
    <2>3. PICK e : e = (n - u) % Word
        OBVIOUS
    <2>4. u <= v
        BY <2>2, BalanceBounds DEF ClientInv, BalanceInv, ResponseBalance
    <2>5. v <= s
        BY <1>2, <2>1, <2>2, BalanceBounds DEF ClientInv, BalanceInv, SentBalance
    <2>6. e \in Nat /\ (e <= n \/ s > n)
        <3>1. CASE u <= n
            <4>1. n - u \in Int /\ n - u >= 0 /\ n - u <= n
                BY <3>1
            <4>2. e \in 0 .. Word - 1 /\ e <= n - u
                BY <2>3, <4>1, Remainder, WordAssumption
            <4> QED
                BY <4>1, <4>2, WordAssumption
        <3>2. CASE u > n
            <4>1. s > n
                BY <2>4, <2>5, <3>2
            <4>2. n - u \in Int
                OBVIOUS
            <4>3. e \in 0 .. Word - 1
                BY <2>3, <4>2, Remainder, WordAssumption
            <4> QED
                BY <4>1, <4>3, WordAssumption
        <3> QED
            BY <3>1, <3>2
    <2>7. \/ report.pc = "tick" /\ report' = [report EXCEPT !.pc = "numErrors", !.numReqs = v]
          \/ report.pc = "numErrors" /\ report' = [report EXCEPT !.pc = "print", !.numErrors = e]
          \/ report.pc = "print" /\ report' = [report EXCEPT !.pc = "printed", !.totalSent = s]
        BY <1>2, <1>5, <2>2, <2>3 DEF reportStats
    <2>8. report.pc = "print" => report.numErrors <= n \/ s > n
        BY <1>1, <1>2, <2>2 DEF ReadInv
    <2>9. load'.totalSent = s
        BY <1>2, <2>1
    <2> QED
        BY <1>1, <2>2, <2>6, <2>7, <2>8, <2>9 DEF Reports
<1>6. UNCHANGED report \/ reportStats
    BY ClientSteps DEF Returned, MakeMiddleware, CallReturns, CountStale, CountResponse, CountSuccess, Judge,
       VideoRecService_GetTopVideos_Handler, Begins, sendSingleTestRequest, sendRequest, Reads, gatherStats,
       GetStats, fetchUser, clientVars
<1>7. ASSUME NEW k \in Counters \ {"ActiveRequests"}
      PROVE  poll'.last[k] <= poll'.line[k] /\ poll'.line[k] <= stats'[k]
    <2>1. PICK a \in Nat, b \in Nat, c \in Nat : a = poll.last[k] /\ b = poll.line[k] /\ c = stats[k]
        BY <1>1 DEF Polls
    <2>2. a <= b /\ b <= c
        BY <1>1, <2>1 DEF ReadInv
    <2>3. c <= stats'[k]
        BY <1>1, <2>1, StatsGrow
    <2>5. stats'[k] \in Nat
        BY AccountStep DEF ClientInv, HistType
    <2>6. CASE UNCHANGED poll
        BY <2>1, <2>2, <2>3, <2>5, <2>6
    <2>7. CASE gatherStats
        <3>1. poll' = [poll EXCEPT !.loaded = 0, !.count = @ + 1, !.last = poll.line] /\ UNCHANGED stats
            BY <2>7 DEF gatherStats, vars
        <3>2. poll'.last = poll.line /\ poll'.line = poll.line
            BY <1>1, <3>1 DEF Polls
        <3> QED
            BY <2>1, <2>2, <3>1, <3>2
    <2>8. CASE GetStats
        <3>1. PICK i : poll' = [poll EXCEPT !.loaded = @ + 1, !.line[i] = stats[i]]
            BY <2>8 DEF GetStats
        <3>2. poll'.last = poll.last /\ poll'.line = [poll.line EXCEPT ![i] = stats[i]]
            BY <1>1, <3>1 DEF Polls
        <3>3. poll'.line[k] \in {b, c}
            BY <1>1, <2>1, <3>2 DEF Polls
        <3>4. UNCHANGED stats
            BY <2>8 DEF GetStats, vars
        <3> QED
            BY <2>1, <2>2, <3>2, <3>3, <3>4
    <2>9. UNCHANGED poll \/ gatherStats \/ GetStats
        BY ClientSteps DEF Returned, MakeMiddleware, CallReturns, CountStale, CountResponse, CountSuccess, Judge,
           VideoRecService_GetTopVideos_Handler, Begins, sendSingleTestRequest, sendRequest, Reads, reportStats,
           fetchUser, clientVars
    <2> QED
        BY <2>6, <2>7, <2>8, <2>9
<1> QED
    BY <1>4, <1>5, <1>6, <1>7 DEF ReadInv
\* What a step says of one call is all that changes.
Others(r) ==
    \A x \in Request \ {r} : call'[x] = call[x] /\ req'[x].resp = req[x].resp /\ hist'[x] = hist[x]

LEMMA OffOne ==
    ASSUME NEW r \in Request, Others(r)
    PROVE  /\ Unlogged' \subseteq Unlogged \cup {r} /\ Unlogged \subseteq Unlogged' \cup {r}
           /\ Blamed' \subseteq Blamed \cup {r} /\ Seen' \subseteq Seen \cup {r}
           /\ StaleSeen' \subseteq StaleSeen \cup {r} /\ Outstanding' \subseteq Outstanding \cup {r}
           /\ HalfCounted' \subseteq HalfCounted \cup {r}
<1>1. Unlogged' \subseteq Unlogged \cup {r} /\ Unlogged \subseteq Unlogged' \cup {r}
    BY DEF Others, Unlogged
<1>2. Blamed' \subseteq Blamed \cup {r}
    BY DEF Others, Unlogged, Blamed
<1>3. Seen' \subseteq Seen \cup {r}
    BY DEF Others, Seen, IsError
<1>4. StaleSeen' \subseteq StaleSeen \cup {r}
    BY DEF Others, StaleSeen
<1>5. Outstanding' \subseteq Outstanding \cup {r} /\ HalfCounted' \subseteq HalfCounted \cup {r}
    BY DEF Others, Outstanding, HalfCounted
<1> QED
    BY <1>1, <1>2, <1>3, <1>4, <1>5

Numbers ==
    /\ log.ok \in Nat /\ log.err \in Nat /\ load.totalSent \in Nat /\ load.totalResponses \in Nat
    /\ load.totalSuccesses \in Nat /\ load.totalStale \in Nat
    /\ \A k \in Counters : stats[k] \in Nat

LEMMA NumberTypes ==
    ASSUME ServiceInv, AccountInv, ClientInv, [ClientsNext]_allVars
    PROVE  Numbers /\ Numbers'
<1>1. ProgramType /\ HistType
    BY DEF ClientInv, ServiceInv
<1>2. ProgramType' /\ HistType'
    BY <1>1, ProgramStep, AccountStep DEF ClientInv
<1>3. ASSUME ProgramType, HistType PROVE Numbers
    BY <1>3 DEF ProgramType, HistType, Numbers, Logs, Loads
<1>4. (ProgramType /\ HistType => Numbers)'
    BY DEF ProgramType, HistType, Numbers, Logs, Loads
<1> QED
    BY <1>1, <1>2, <1>3, <1>4

\* A request moves: what it adds to the counters pays for what is now known of it.
LEMMA MovesBalance ==
    ASSUME Numbers, Numbers', NEW r \in Request, NEW d \in [Counters -> Nat], Adds(r, d), Others(r),
           UNCHANGED <<log, load>>, call'[r].client = call[r].client,
           r \in Blamed' => r \in Blamed \/ d["TotalErrors"] >= 1,
           r \in StaleSeen' => r \in StaleSeen \/ d["StaleResponses"] >= 1,
           r \in Seen' => r \in Seen
    PROVE  /\ ErrorBalance => ErrorBalance'
           /\ StaleBalance => StaleBalance'
           /\ SuccessBalance => SuccessBalance'
           /\ SentBalance => SentBalance'
           /\ ResponseBalance => ResponseBalance'
<1>1. ASSUME NEW k \in Counters \ {"ActiveRequests"}, NEW m \in Nat, NEW S, NEW T, T \subseteq S \cup {r},
             r \in T => r \in S \/ d[k] >= 1, Balance(stats[k], m, S)
      PROVE  Balance(stats'[k], m, T)
    <2>1. PICK a \in Nat, b \in Nat, c \in Nat : a = stats[k] /\ b = d[k] /\ c = stats'[k]
        BY DEF Numbers
    <2>2. c = a + b
        BY <2>1 DEF Adds
    <2>3. CASE T \subseteq S
        <3>1. a <= c
            BY <2>2
        <3> QED
            BY <1>1, <2>1, <2>3, <3>1, BalanceKeeps
    <2>4. CASE ~(T \subseteq S)
        <3>1. d[k] >= 1
            BY <1>1, <2>4
        <3>2. a + 1 <= c
            BY <2>1, <2>2, <3>1
        <3> QED
            BY <1>1, <2>1, <3>2, BalanceGrows
    <2> QED
        BY <2>3, <2>4
<1>2. log.err \in Nat /\ log'.err = log.err /\ load.totalStale \in Nat /\ load'.totalStale = load.totalStale
    BY DEF Numbers
<1>3. ErrorBalance => ErrorBalance'
    <2>1. Blamed' \subseteq Blamed \cup {r}
        BY OffOne
    <2>2. Balance(stats["TotalErrors"], log.err, Blamed) => Balance(stats'["TotalErrors"], log.err, Blamed')
        BY <1>1, <1>2, <2>1 DEF Counters
    <2> QED
        BY <1>2, <2>2 DEF ErrorBalance
<1>4. StaleBalance => StaleBalance'
    <2>1. StaleSeen' \subseteq StaleSeen \cup {r}
        BY OffOne
    <2>2. Balance(stats["StaleResponses"], load.totalStale, StaleSeen) =>
            Balance(stats'["StaleResponses"], load.totalStale, StaleSeen')
        BY <1>1, <1>2, <2>1 DEF Counters
    <2> QED
        BY <1>2, <2>2 DEF StaleBalance
<1>5. SuccessBalance => SuccessBalance'
    <2>1. Seen' \subseteq Seen
        BY OffOne
    <2>2. log.ok \in Nat /\ load.totalSuccesses \in Nat /\ log.ok <= log.ok
        BY DEF Numbers
    <2>3. Balance(log.ok, load.totalSuccesses, Seen) => Balance(log.ok, load.totalSuccesses, Seen')
        BY <2>1, <2>2, BalanceKeeps
    <2> QED
        BY <2>3 DEF SuccessBalance
<1>6. Outstanding' = Outstanding /\ HalfCounted' = HalfCounted
    <2>1. \A x \in Request : call'[x].client = call[x].client
        BY DEF Others
    <2> QED
        BY <2>1 DEF Outstanding, HalfCounted
<1>7. (SentBalance => SentBalance') /\ (ResponseBalance => ResponseBalance')
    BY <1>6 DEF SentBalance, ResponseBalance
<1> QED
    BY <1>3, <1>4, <1>5, <1>7

\* The service moves a request, and nobody hears of it yet.
LEMMA ServedBalance ==
    ASSUME ServiceInv, AccountInv, ClientInv, Numbers, Numbers', UNCHANGED <<scene, clientVars>>,
           NEW r \in Request, Sound(r), Program("tests") \/ req[r].pc # "idle"
    PROVE  BalanceInv'
<1>1. HistType /\ BalanceInv /\ CallCourse(r) /\ UNCHANGED <<call, load, log>>
    BY DEF ServiceInv, ClientInv, clientVars
<1>2. PICK d \in [Counters -> Nat] : Adds(r, d) /\ Moves(r, d)
    BY DEF Sound
<1>3. /\ hist' \in [Request -> [Known -> Nat]] /\ \A x \in Request \ {r} : hist'[x] = hist[x]
      /\ \A k \in Known : hist'[r][k] = hist[r][k] + d[k]
    BY <1>1, <1>2, AddsHist
<1>4. Others(r)
    BY <1>1, <1>3 DEF Others, Sound, Only
<1>5. r \in Blamed' => r \in Blamed \/ d["TotalErrors"] >= 1
    <2>1. PICK a \in Nat, b \in Nat : a = hist[r]["TotalErrors"] /\ b = d["TotalErrors"]
        BY <1>1 DEF HistType, Known, Counters
    <2>2. hist'[r]["TotalErrors"] = a + b
        BY <1>3, <2>1 DEF Known
    <2>3. a + b > 0 => a > 0 \/ b >= 1
        OBVIOUS
    <2> QED
        BY <1>1, <2>1, <2>2, <2>3 DEF Blamed, Unlogged
<1>6. r \in StaleSeen' => r \in StaleSeen \/ d["StaleResponses"] >= 1
    BY <1>1, <1>2, MovesResp DEF StaleSeen
<1>7. r \in Seen' => r \in Seen
    <2>1. call[r].server = "logged" => req'[r] = req[r]
        BY <1>1, <1>2, MovesResp DEF CallCourse
    <2> QED
        BY <1>1, <2>1 DEF Seen, IsError
<1>8. /\ ErrorBalance => ErrorBalance'
      /\ StaleBalance => StaleBalance'
      /\ SuccessBalance => SuccessBalance'
      /\ SentBalance => SentBalance'
      /\ ResponseBalance => ResponseBalance'
    BY <1>1, <1>2, <1>4, <1>5, <1>6, <1>7, MovesBalance
<1>9. ASSUME ~Program("tests"), RequestBalance PROVE RequestBalance'
    <2>1. d["TotalRequests"] = 0
        BY <1>2, <1>9, MovesResp
    <2>2. PICK a \in Nat : a = stats["TotalRequests"]
        BY DEF Numbers, Counters
    <2>3. stats'["TotalRequests"] = a
        BY <1>2, <2>1, <2>2 DEF Adds, Counters
    <2>4. Unlogged' = Unlogged
        BY <1>1 DEF Unlogged
    <2> QED
        BY <1>1, <1>9, <2>2, <2>3, <2>4 DEF RequestBalance
<1> QED
    BY <1>1, <1>8, <1>9 DEF BalanceInv, Program

\* A call arrives.
LEMMA ArrivalBalance ==
    ASSUME ServiceInv, AccountInv, ClientInv, Numbers, Numbers', UNCHANGED scene,
           NEW r \in Request, VideoRecService_GetTopVideos_Handler(r)
    PROVE  BalanceInv'
<1>1. HistType /\ CallType /\ BalanceInv /\ CallCourse(r) /\ Honest(req[r], hist[r])
    BY DEF ServiceInv, ClientInv, AccountInv
<1>2. /\ \A y \in Request \ {r} : call'[y] = call[y]
      /\ call[r].client \in {"waiting", "failure"} /\ call[r].server = "none"
      /\ call'[r].client = call[r].client /\ call'[r].server = "handling" /\ UNCHANGED <<load, log>>
    BY <1>1, ArrivalFields
<1>3. Sound(r) /\ req[r].pc = "idle" /\ req'[r].resp = req[r].resp /\ req[r].resp.kind = "none"
    BY ArrivalStep
<1>4. PICK d \in [Counters -> Nat] : Adds(r, d) /\ Moves(r, d)
    BY <1>3 DEF Sound
<1>5. /\ hist' \in [Request -> [Known -> Nat]] /\ \A x \in Request \ {r} : hist'[x] = hist[x]
      /\ \A k \in Known : hist'[r][k] = hist[r][k] + d[k]
    BY <1>1, <1>4, AddsHist
<1>6. Others(r)
    BY <1>2, <1>3, <1>5 DEF Others, Sound, Only
<1>7. r \in Blamed' => r \in Blamed \/ d["TotalErrors"] >= 1
    <2>1. PICK b \in Nat : b = d["TotalErrors"]
        BY DEF Counters
    <2>2. hist[r]["TotalErrors"] = 0
        BY <1>1, <1>3 DEF Honest
    <2>3. hist'[r]["TotalErrors"] = 0 + b
        BY <1>5, <2>1, <2>2 DEF Known
    <2> QED
        BY <2>1, <2>3 DEF Blamed
<1>8. r \in StaleSeen' => r \in StaleSeen \/ d["StaleResponses"] >= 1
    BY <1>3 DEF StaleSeen
<1>9. r \in Seen' => r \in Seen
    BY <1>2 DEF Seen
<1>10. /\ ErrorBalance => ErrorBalance'
       /\ StaleBalance => StaleBalance'
       /\ SuccessBalance => SuccessBalance'
       /\ SentBalance => SentBalance'
       /\ ResponseBalance => ResponseBalance'
    BY <1>2, <1>4, <1>6, <1>7, <1>8, <1>9, MovesBalance
<1>11. ASSUME RequestBalance PROVE RequestBalance'
    <2>1. r \notin Unlogged /\ r \in Unlogged'
        BY <1>2 DEF Unlogged
    <2>2. Unlogged' = Unlogged \cup {r}
        BY <1>6, <2>1, OffOne
    <2>3. /\ IsFiniteSet(Unlogged') /\ Cardinality(Unlogged) \in Nat
          /\ Cardinality(Unlogged') = Cardinality(Unlogged) + 1
        BY <1>11, <2>1, <2>2, Grows DEF RequestBalance
    <2>4. PICK a \in Nat : a = stats["TotalRequests"]
        BY DEF Numbers, Counters
    <2>5. stats'["TotalRequests"] = a + 1
        <3>1. d["TotalRequests"] = 1
            BY <1>3, <1>4, MovesResp
        <3> QED
            BY <1>4, <2>4, <3>1 DEF Adds, Counters
    <2>6. PICK o \in Nat, e \in Nat : o = log.ok /\ e = log.err
        BY DEF Numbers
    <2>7. a = o + e + Cardinality(Unlogged)
        BY <1>11, <2>4, <2>6 DEF RequestBalance
    <2> QED
        BY <1>2, <2>3, <2>5, <2>6, <2>7 DEF RequestBalance
<1> QED
    BY <1>1, <1>10, <1>11 DEF BalanceInv, Program
\* What a program does with an answer is nothing to the middleware.
LEMMA SameServer ==
    ASSUME UNCHANGED <<stats, hist, log>>, \A x \in Request : call'[x].server = call[x].server
    PROVE  (RequestBalance => RequestBalance') /\ (ErrorBalance => ErrorBalance')
<1>1. Unlogged' = Unlogged
    BY DEF Unlogged
<1>2. Blamed' = Blamed
    BY <1>1 DEF Blamed
<1> QED
    BY <1>1, <1>2 DEF RequestBalance, ErrorBalance

LEMMA LoggedBalance ==
    ASSUME ServiceInv, AccountInv, ClientInv, Numbers, Numbers', NEW r \in Request, MakeMiddleware(r)
    PROVE  BalanceInv'
<1>1. /\ CallType /\ BalanceInv /\ CallCourse(r) /\ Honest(req[r], hist[r])
      /\ log \in Logs /\ IsError(r) \in BOOLEAN
    BY DEF ServiceInv, ClientInv, AccountInv, ProgramType, IsError
<1>2. /\ call[r].server = "handling" /\ call' = [call EXCEPT ![r].server = "logged"]
      /\ UNCHANGED <<scene, stats, hist, req, load>> /\ LogRequest(IsError(r))
    BY DEF MakeMiddleware, vars
<1>3. /\ call'[r].server = "logged" /\ call'[r].client = call[r].client
      /\ \A x \in Request \ {r} : call'[x] = call[x]
    BY <1>1, <1>2 DEF CallType, ServerPlaces
<1>4. Others(r)
    BY <1>2, <1>3 DEF Others
<1>5. PICK o \in Nat, e \in Nat : o = log.ok /\ e = log.err
    BY DEF Numbers
<1>6. /\ IsError(r) => log'.ok = o /\ log'.err = e + 1
      /\ ~IsError(r) => log'.ok = o + 1 /\ log'.err = e
    BY <1>1, <1>2, <1>5 DEF LogRequest, Logs
<1>7. ASSUME RequestBalance PROVE RequestBalance'
    <2>1. r \in Unlogged /\ r \notin Unlogged'
        BY <1>2, <1>3 DEF Unlogged
    <2>2. Unlogged' = Unlogged \ {r}
        BY <1>4, <2>1, OffOne
    <2>3. /\ IsFiniteSet(Unlogged') /\ Cardinality(Unlogged) \in Nat
          /\ Cardinality(Unlogged') = Cardinality(Unlogged) - 1
        BY <1>7, <2>1, <2>2, Shrinks DEF RequestBalance
    <2>4. stats'["TotalRequests"] = o + e + Cardinality(Unlogged)
        BY <1>2, <1>5, <1>7 DEF RequestBalance
    <2>5. CASE IsError(r)
        BY <1>6, <2>3, <2>4, <2>5 DEF RequestBalance
    <2>6. CASE ~IsError(r)
        BY <1>6, <2>3, <2>4, <2>6 DEF RequestBalance
    <2> QED
        BY <1>1, <2>5, <2>6
<1>8. ASSUME ~Program("tests"), ErrorBalance PROVE ErrorBalance'
    <2>1. Blamed' \subseteq Blamed \ {r}
        <3>1. r \notin Blamed'
            BY <1>3 DEF Blamed, Unlogged
        <3> QED
            BY <1>4, <3>1, OffOne
    <2>2. PICK t \in Nat : t = stats["TotalErrors"]
        BY DEF Numbers, Counters
    <2>3. Balance(t, e, Blamed)
        BY <1>5, <1>8, <2>2 DEF ErrorBalance
    <2>4. CASE IsError(r)
        <3>1. req[r].resp.kind = "error"
            BY <1>1, <1>8, <2>4 DEF IsError, CallCourse
        <3>2. r \in Blamed
            BY <1>1, <1>2, <3>1 DEF Honest, Blamed, Unlogged
        <3>3. Balance(t, e + 1, Blamed')
            BY <2>1, <2>3, <3>2, BalancePays
        <3> QED
            BY <1>2, <1>6, <2>2, <2>4, <3>3 DEF ErrorBalance
    <2>5. CASE ~IsError(r)
        <3>1. t <= t /\ Blamed' \subseteq Blamed
            BY <2>1
        <3>2. Balance(t, e, Blamed')
            BY <2>3, <3>1, BalanceKeeps
        <3> QED
            BY <1>2, <1>6, <2>2, <2>5, <3>2 DEF ErrorBalance
    <2> QED
        BY <1>1, <2>4, <2>5
<1>9. SuccessBalance'
    <2>1. PICK n \in Nat : n = load.totalSuccesses
        BY DEF Numbers
    <2>2. Balance(o, n, Seen)
        BY <1>1, <1>5, <2>1 DEF BalanceInv, SuccessBalance
    <2>3. Seen' \subseteq Seen \cup {r}
        BY <1>4, OffOne
    <2>4. CASE IsError(r)
        <3>1. r \notin Seen'
            BY <1>1, <1>2, <1>3, <2>4 DEF Seen, CallCourse, IsError
        <3>2. o <= o /\ Seen' \subseteq Seen
            BY <2>3, <3>1
        <3>3. Balance(o, n, Seen')
            BY <2>2, <3>2, BalanceKeeps
        <3> QED
            BY <1>2, <1>6, <2>1, <2>4, <3>3 DEF SuccessBalance
    <2>5. CASE ~IsError(r)
        <3>1. o + 1 \in Nat /\ o + 1 <= o + 1
            OBVIOUS
        <3>2. Balance(o + 1, n, Seen')
            BY <2>2, <2>3, <3>1, BalanceGrows
        <3> QED
            BY <1>2, <1>6, <2>1, <2>5, <3>2 DEF SuccessBalance
    <2> QED
        BY <1>1, <2>4, <2>5
<1>10. StaleSeen' = StaleSeen /\ Outstanding' = Outstanding /\ HalfCounted' = HalfCounted
    <2>1. \A x \in Request : call'[x].client = call[x].client
        BY <1>3
    <2> QED
        BY <1>2, <2>1 DEF StaleSeen, Outstanding, HalfCounted
<1>11. /\ StaleBalance => StaleBalance'
       /\ SentBalance => SentBalance'
       /\ ResponseBalance => ResponseBalance'
    BY <1>2, <1>10 DEF StaleBalance, SentBalance, ResponseBalance
<1> QED
    BY <1>1, <1>2, <1>7, <1>8, <1>9, <1>11 DEF BalanceInv, Program

\* A step of a program on the answer to a call.
LEMMA AnswerFields ==
    ASSUME CallType, NEW r \in Request, Returned(r), ~MakeMiddleware(r)
    PROVE  /\ Others(r) /\ UNCHANGED <<scene, stats, hist, req, log>>
           /\ \A x \in Request : call'[x].server = call[x].server
           /\ CallReturns(r) => \/ call'[r].client = "failure"
                                \/ /\ call'[r].client = "success" /\ call[r].server = "logged"
                                   /\ ~IsError(r)
           /\ CountStale(r) => call'[r].client = "stale"
           /\ CountResponse(r) => call'[r].client = IF call[r].client = "failure" THEN "none" ELSE "counted"
           /\ CountSuccess(r) => call'[r].client = "none"
           /\ Judge(r) => call'[r].client = "none"
<1>1. /\ UNCHANGED vars /\ (\A y \in Request \ {r} : call'[y] = call[y])
      /\ DOMAIN call = Request /\ "client" \in DOMAIN call[r]
    BY ReturnedFields DEF CallType
<1>2. UNCHANGED <<scene, stats, hist, req, log>>
    BY <1>1 DEF vars, Returned, CallReturns, CountStale, CountResponse, CountSuccess, Judge
<1>3. Others(r)
    BY <1>1, <1>2 DEF Others
<1>4. ASSUME NEW x, call' = [call EXCEPT ![r].client = x]
      PROVE  call'[r].client = x /\ call'[r].server = call[r].server
    BY <1>4 DEF CallType
<1>5. CallReturns(r) => /\ call'[r].server = call[r].server
                        /\ \/ call'[r].client = "failure"
                           \/ /\ call'[r].client = "success" /\ call[r].server = "logged"
                              /\ ~IsError(r)
    <2> SUFFICES ASSUME CallReturns(r)
                 PROVE  /\ call'[r].server = call[r].server
                        /\ \/ call'[r].client = "failure"
                           \/ /\ call'[r].client = "success" /\ call[r].server = "logged"
                              /\ ~IsError(r)
        OBVIOUS
    <2>1. PICK outcome \in {"answer", "error"} :
            /\ outcome = "answer" => call[r].server = "logged"
            /\ call' = [call EXCEPT ![r].client =
                        IF outcome = "answer" /\ ~IsError(r) THEN "success" ELSE "failure"]
        BY DEF CallReturns
    <2>2. CASE outcome = "answer" /\ ~IsError(r)
        BY <1>4, <2>1, <2>2
    <2>3. CASE ~(outcome = "answer" /\ ~IsError(r))
        BY <1>4, <2>1, <2>3
    <2> QED
        BY <2>2, <2>3
<1>6. CountStale(r) => call'[r].client = "stale" /\ call'[r].server = call[r].server
    BY <1>4 DEF CountStale
<1>7. CountResponse(r) => /\ call'[r].client = IF call[r].client = "failure" THEN "none" ELSE "counted"
                          /\ call'[r].server = call[r].server
    <2> DEFINE x == IF call[r].client = "failure" THEN "none" ELSE "counted"
    <2>1. CountResponse(r) => call' = [call EXCEPT ![r].client = x]
        BY <1>1 DEF CountResponse
    <2> HIDE DEF x
    <2>2. CountResponse(r) => call'[r].client = x /\ call'[r].server = call[r].server
        BY <1>4, <2>1
    <2> QED
        BY <2>2 DEF x
<1>8. CountSuccess(r) => call'[r].client = "none" /\ call'[r].server = call[r].server
    BY <1>4 DEF CountSuccess
<1>9. Judge(r) => call'[r].client = "none" /\ call'[r].server = call[r].server
    BY <1>4 DEF Judge
<1>10. call'[r].server = call[r].server
    BY <1>5, <1>6, <1>7, <1>8, <1>9 DEF Returned
<1> QED
    BY <1>1, <1>2, <1>3, <1>5, <1>6, <1>7, <1>8, <1>9, <1>10
\* The balances of the load generator, when r pays for nothing.
LEMMA AnswerKeeps ==
    ASSUME Numbers, NEW r \in Request, Others(r)
    PROVE  /\ (r \in Seen' => r \in Seen) /\ SuccessBalance =>
                Balance(log.ok, load.totalSuccesses, Seen')
           /\ (r \in StaleSeen' => r \in StaleSeen) /\ StaleBalance =>
                Balance(stats["StaleResponses"], load.totalStale, StaleSeen')
           /\ (r \in Outstanding' => r \in Outstanding) /\ SentBalance =>
                Balance(load.totalSent, load.totalResponses, Outstanding')
           /\ (r \in HalfCounted' => r \in HalfCounted) /\ ResponseBalance =>
                Balance(load.totalResponses, load.totalSuccesses, HalfCounted')
<1>1. ASSUME NEW n \in Nat, NEW m \in Nat, NEW S, NEW T, Balance(n, m, S), T \subseteq S \cup {r},
             r \in T => r \in S
      PROVE  Balance(n, m, T)
    <2>1. n <= n /\ T \subseteq S
        BY <1>1
    <2> QED
        BY <1>1, <2>1, BalanceKeeps
<1>2. /\ log.ok \in Nat /\ load.totalSent \in Nat /\ load.totalResponses \in Nat
      /\ load.totalSuccesses \in Nat /\ load.totalStale \in Nat /\ stats["StaleResponses"] \in Nat
    BY DEF Numbers, Counters
<1>3. /\ Seen' \subseteq Seen \cup {r} /\ StaleSeen' \subseteq StaleSeen \cup {r}
      /\ Outstanding' \subseteq Outstanding \cup {r} /\ HalfCounted' \subseteq HalfCounted \cup {r}
    BY OffOne
<1>4. (r \in Seen' => r \in Seen) /\ SuccessBalance => Balance(log.ok, load.totalSuccesses, Seen')
    BY <1>1, <1>2, <1>3 DEF SuccessBalance
<1>5. (r \in StaleSeen' => r \in StaleSeen) /\ StaleBalance =>
                Balance(stats["StaleResponses"], load.totalStale, StaleSeen')
    BY <1>1, <1>2, <1>3 DEF StaleBalance
<1>6. (r \in Outstanding' => r \in Outstanding) /\ SentBalance =>
                Balance(load.totalSent, load.totalResponses, Outstanding')
    BY <1>1, <1>2, <1>3 DEF SentBalance
<1>7. (r \in HalfCounted' => r \in HalfCounted) /\ ResponseBalance =>
                Balance(load.totalResponses, load.totalSuccesses, HalfCounted')
    BY <1>1, <1>2, <1>3 DEF ResponseBalance
<1> QED
    BY <1>4, <1>5, <1>6, <1>7

LEMMA AnswerBalance ==
    ASSUME ServiceInv, AccountInv, ClientInv, Numbers, Numbers', NEW r \in Request, Returned(r),
           ~MakeMiddleware(r)
    PROVE  BalanceInv'
<1>1. CallType /\ BalanceInv /\ CallCourse(r) /\ load \in Loads
    BY DEF ClientInv, ProgramType
<1>2. /\ Others(r) /\ UNCHANGED <<scene, stats, hist, req, log>>
      /\ \A x \in Request : call'[x].server = call[x].server
    BY <1>1, AnswerFields
<1>3. (RequestBalance => RequestBalance') /\ (ErrorBalance => ErrorBalance')
    BY <1>2, SameServer
<1>4. IsError(r)' = IsError(r)
    BY <1>2 DEF IsError
<1>5. ASSUME SuccessBalance', StaleBalance', ResponseBalance', Program("loadgen") => SentBalance'
      PROVE  BalanceInv'
    BY <1>1, <1>2, <1>3, <1>5 DEF BalanceInv, Program
<1>6. SuccessBalance /\ StaleBalance /\ ResponseBalance /\ (Program("loadgen") => SentBalance)
    BY <1>1 DEF BalanceInv
<1>7. /\ (r \in Seen' => r \in Seen) => Balance(log.ok, load.totalSuccesses, Seen')
      /\ (r \in StaleSeen' => r \in StaleSeen) => Balance(stats["StaleResponses"], load.totalStale, StaleSeen')
      /\ (r \in Outstanding' => r \in Outstanding) /\ Program("loadgen") =>
            Balance(load.totalSent, load.totalResponses, Outstanding')
      /\ (r \in HalfCounted' => r \in HalfCounted) =>
            Balance(load.totalResponses, load.totalSuccesses, HalfCounted')
    BY <1>2, <1>6, AnswerKeeps
<1>8. ASSUME UNCHANGED load, r \in Seen' => r \in Seen, r \in StaleSeen' => r \in StaleSeen,
             Program("loadgen") => (r \in Outstanding' => r \in Outstanding), r \notin HalfCounted'
      PROVE  BalanceInv'
    <2>1. SuccessBalance' /\ StaleBalance' /\ ResponseBalance'
        BY <1>2, <1>7, <1>8 DEF SuccessBalance, StaleBalance, ResponseBalance
    <2>2. Program("loadgen") => SentBalance'
        BY <1>7, <1>8 DEF SentBalance
    <2> QED
        BY <1>5, <2>1, <2>2
<1>9. PICK s \in Nat, p \in Nat, c \in Nat, t \in Nat :
        s = load.totalSent /\ p = load.totalResponses /\ c = load.totalSuccesses /\ t = load.totalStale
    BY DEF Numbers
<1>10. PICK o \in Nat, q \in Nat : o = log.ok /\ q = stats["StaleResponses"]
    BY DEF Numbers, Counters
<1>11. CASE CallReturns(r)
    <2>1. call[r].client = "waiting" /\ UNCHANGED load
        BY <1>11 DEF CallReturns
    <2>2. \/ call'[r].client = "failure"
          \/ call'[r].client = "success" /\ call[r].server = "logged" /\ ~IsError(r)
        BY <1>1, <1>11, AnswerFields
    <2>3. r \in Seen' => r \in Seen
        BY <2>1, <2>2 DEF Seen
    <2>4. (r \in StaleSeen' => r \in StaleSeen) /\ r \in Outstanding /\ r \notin HalfCounted'
        BY <1>2, <2>1, <2>2 DEF StaleSeen, Outstanding, HalfCounted
    <2> QED
        BY <1>8, <2>1, <2>3, <2>4
<1>12. CASE Judge(r)
    <2>1. UNCHANGED load /\ Program("frontend")
        BY <1>12 DEF Judge
    <2>2. call'[r].client = "none"
        BY <1>1, <1>12, AnswerFields
    <2>3. r \notin Seen' /\ r \notin StaleSeen' /\ r \notin HalfCounted' /\ ~Program("loadgen")
        BY <2>1, <2>2 DEF Seen, StaleSeen, HalfCounted, Program
    <2> QED
        BY <1>8, <2>1, <2>3
<1>13. CASE CountStale(r)
    <2>1. call[r].client = "success" /\ req[r].resp.kind = "stale" /\ load' = [load EXCEPT !.totalStale = @ + 1]
        BY <1>13 DEF CountStale
    <2>2. call'[r].client = "stale"
        BY <1>1, <1>13, AnswerFields
    <2>3. load'.totalSent = s /\ load'.totalResponses = p /\ load'.totalSuccesses = c /\ load'.totalStale = t + 1
        BY <1>1, <1>9, <2>1 DEF Loads
    <2>4. /\ r \in Seen /\ r \in StaleSeen /\ r \notin StaleSeen' /\ r \in Outstanding /\ r \notin HalfCounted'
        BY <2>1, <2>2 DEF Seen, StaleSeen, Outstanding, HalfCounted
    <2>5. SuccessBalance' /\ ResponseBalance' /\ (Program("loadgen") => SentBalance')
        BY <1>2, <1>7, <1>9, <2>3, <2>4 DEF SuccessBalance, ResponseBalance, SentBalance
    <2>6. Balance(q, t + 1, StaleSeen')
        <3>1. StaleSeen' \subseteq StaleSeen \ {r}
            BY <1>2, <2>4, OffOne
        <3> QED
            BY <1>6, <1>9, <1>10, <2>4, <3>1, BalancePays DEF StaleBalance
    <2>7. StaleBalance'
        BY <1>2, <1>10, <2>3, <2>6 DEF StaleBalance
    <2> QED
        BY <1>5, <2>5, <2>7
<1>14. CASE CountResponse(r)
    <2>1. /\ call[r].client \in {"stale", "failure", "success"}
          /\ load' = [load EXCEPT !.totalResponses = @ + 1] /\ Program("loadgen")
        BY <1>14 DEF CountResponse
    <2>2. call'[r].client = IF call[r].client = "failure" THEN "none" ELSE "counted"
        BY <1>1, <1>14, AnswerFields
    <2>3. load'.totalSent = s /\ load'.totalResponses = p + 1 /\ load'.totalSuccesses = c /\ load'.totalStale = t
        BY <1>1, <1>9, <2>1 DEF Loads
    <2>4. /\ (r \in Seen' => r \in Seen) /\ r \notin StaleSeen' /\ r \in Outstanding /\ r \notin Outstanding'
        BY <2>1, <2>2 DEF Seen, StaleSeen, Outstanding
    <2>5. SuccessBalance' /\ StaleBalance'
        BY <1>2, <1>7, <1>9, <2>3, <2>4 DEF SuccessBalance, StaleBalance
    <2>6. Balance(s, p + 1, Outstanding')
        <3>1. Outstanding' \subseteq Outstanding \ {r}
            BY <1>2, <2>4, OffOne
        <3> QED
            BY <1>6, <1>9, <2>1, <2>4, <3>1, BalancePays DEF SentBalance
    <2>7. Balance(p + 1, c, HalfCounted')
        <3>1. HalfCounted' \subseteq HalfCounted \cup {r}
            BY <1>2, OffOne
        <3>2. p + 1 \in Nat /\ p + 1 <= p + 1
            OBVIOUS
        <3> QED
            BY <1>6, <1>9, <3>1, <3>2, BalanceGrows DEF ResponseBalance
    <2>8. SentBalance' /\ ResponseBalance'
        BY <2>3, <2>6, <2>7 DEF SentBalance, ResponseBalance
    <2> QED
        BY <1>5, <2>5, <2>8
<1>15. CASE CountSuccess(r)
    <2>1. call[r].client = "counted" /\ load' = [load EXCEPT !.totalSuccesses = @ + 1]
        BY <1>15 DEF CountSuccess
    <2>2. call'[r].client = "none"
        BY <1>1, <1>15, AnswerFields
    <2>3. load'.totalSent = s /\ load'.totalResponses = p /\ load'.totalSuccesses = c + 1 /\ load'.totalStale = t
        BY <1>1, <1>9, <2>1 DEF Loads
    <2>4. /\ r \in Seen /\ r \notin Seen' /\ r \notin StaleSeen' /\ r \notin Outstanding'
          /\ r \in HalfCounted /\ r \notin HalfCounted'
        BY <2>1, <2>2 DEF Seen, StaleSeen, Outstanding, HalfCounted
    <2>5. StaleBalance' /\ (Program("loadgen") => SentBalance')
        BY <1>2, <1>7, <1>9, <2>3, <2>4 DEF StaleBalance, SentBalance
    <2>6. Balance(o, c + 1, Seen')
        <3>1. Seen' \subseteq Seen \ {r}
            BY <1>2, <2>4, OffOne
        <3> QED
            BY <1>6, <1>9, <1>10, <2>4, <3>1, BalancePays DEF SuccessBalance
    <2>7. Balance(p, c + 1, HalfCounted')
        <3>1. HalfCounted' \subseteq HalfCounted \ {r}
            BY <1>2, <2>4, OffOne
        <3> QED
            BY <1>6, <1>9, <2>4, <3>1, BalancePays DEF ResponseBalance
    <2>8. SuccessBalance' /\ ResponseBalance'
        BY <1>2, <1>10, <2>3, <2>6, <2>7 DEF SuccessBalance, ResponseBalance
    <2> QED
        BY <1>5, <2>5, <2>8
<1> QED
    BY <1>11, <1>12, <1>13, <1>14, <1>15 DEF Returned

\* A new call: it is outstanding, and the load generator has counted it as sent.
LEMMA BeginsBalance ==
    ASSUME ServiceInv, AccountInv, ClientInv, Numbers, Numbers', UNCHANGED scene,
           NEW r \in Request, Begins(r)
    PROVE  BalanceInv'
<1>1. CallType /\ ProgramType /\ BalanceInv /\ load \in Loads /\ HistType
    BY DEF ClientInv, ProgramType, ServiceInv
<1>2. /\ CallBegins(r) /\ (\A y \in Request \ {r} : call'[y] = call[y])
      /\ call'[r].client = "waiting" /\ call'[r].server = "none" /\ UNCHANGED log
    BY <1>1, BeginsFields
<1>3. /\ Only(r) /\ UNCHANGED stats /\ req'[r] = NewRequest
      /\ hist' = [hist EXCEPT ![r] = [k \in Known |-> 0]]
      /\ call[r].client = "none" /\ call[r].server # "handling"
    BY <1>2, CallBeginsStep
<1>4. Others(r)
    BY <1>1, <1>2, <1>3 DEF Others, Only, HistType
<1>5. SuccessBalance /\ StaleBalance /\ ResponseBalance /\ (Program("loadgen") => SentBalance)
    BY <1>1 DEF BalanceInv
<1>6. r \notin Unlogged /\ r \notin Unlogged' /\ r \notin Blamed'
    BY <1>2, <1>3 DEF Unlogged, Blamed
<1>7. Unlogged' = Unlogged /\ Blamed' \subseteq Blamed
    BY <1>4, <1>6, OffOne
<1>8. RequestBalance => RequestBalance'
    BY <1>2, <1>3, <1>7 DEF RequestBalance
<1>9. ErrorBalance => ErrorBalance'
    <2>1. PICK a \in Nat, b \in Nat : a = stats["TotalErrors"] /\ b = log.err /\ a <= a
        BY DEF Numbers, Counters
    <2>2. Balance(a, b, Blamed) => Balance(a, b, Blamed')
        BY <1>7, <2>1, BalanceKeeps
    <2> QED
        BY <1>2, <1>3, <2>1, <2>2 DEF ErrorBalance
<1>10. r \notin Seen' /\ r \notin StaleSeen' /\ r \notin HalfCounted'
    <2>1. req'[r].resp.kind = "none"
        BY <1>3 DEF NewRequest, Response
    <2> QED
        BY <1>2, <2>1 DEF Seen, StaleSeen, HalfCounted
<1>11. /\ Balance(log.ok, load.totalSuccesses, Seen')
       /\ Balance(stats["StaleResponses"], load.totalStale, StaleSeen')
       /\ Balance(load.totalResponses, load.totalSuccesses, HalfCounted')
    BY <1>4, <1>5, <1>10, AnswerKeeps
<1>12. /\ load'.totalSuccesses = load.totalSuccesses /\ load'.totalStale = load.totalStale
       /\ load'.totalResponses = load.totalResponses
    <2>1. CASE sendSingleTestRequest(r)
        BY <2>1 DEF sendSingleTestRequest
    <2>2. CASE sendRequest(r)
        BY <1>1, <2>2 DEF sendRequest, Loads
    <2> QED
        BY <2>1, <2>2 DEF Begins
<1>13. SuccessBalance' /\ StaleBalance' /\ ResponseBalance'
    BY <1>2, <1>3, <1>11, <1>12 DEF SuccessBalance, StaleBalance, ResponseBalance
<1>14. ASSUME Program("loadgen") PROVE SentBalance'
    <2>1. sendRequest(r)
        BY <1>14 DEF Begins, sendSingleTestRequest, Program
    <2>2. PICK s \in Nat, p \in Nat : s = load.totalSent /\ p = load.totalResponses
        BY DEF Numbers
    <2>3. load'.totalSent = s + 1
        BY <1>1, <2>1, <2>2 DEF sendRequest, Loads
    <2>4. Outstanding' \subseteq Outstanding \cup {r} /\ s + 1 \in Nat /\ s + 1 <= s + 1
        BY <1>4, OffOne
    <2>5. Balance(s + 1, p, Outstanding')
        BY <1>5, <1>14, <2>2, <2>4, BalanceGrows DEF SentBalance
    <2> QED
        BY <1>12, <2>2, <2>3, <2>5 DEF SentBalance
<1> QED
    BY <1>1, <1>8, <1>9, <1>13, <1>14 DEF BalanceInv, Program
LEMMA BalanceStep ==
    ASSUME ServiceInv, AccountInv, ClientInv, [ClientsNext]_allVars
    PROVE  BalanceInv'
<1>1. CallType /\ ProgramType /\ BalanceInv /\ UNCHANGED scene /\ Numbers /\ Numbers'
    BY NumberTypes, StaticStep DEF ClientInv, ServiceInv
<1>2. ASSUME UNCHANGED <<call, req, hist, log, load>>, stats'["TotalRequests"] = stats["TotalRequests"]
      PROVE  BalanceInv'
    <2>1. /\ Unlogged' = Unlogged /\ Seen' = Seen /\ StaleSeen' = StaleSeen
          /\ Outstanding' = Outstanding /\ HalfCounted' = HalfCounted
        BY <1>2 DEF Unlogged, Seen, StaleSeen, Outstanding, HalfCounted, IsError
    <2>2. Blamed' = Blamed
        BY <1>2, <2>1 DEF Blamed
    <2>3. RequestBalance => RequestBalance'
        BY <1>2, <2>1 DEF RequestBalance
    <2>4. (SuccessBalance => SuccessBalance') /\ (SentBalance => SentBalance') /\ (ResponseBalance => ResponseBalance')
        BY <1>2, <2>1 DEF SuccessBalance, SentBalance, ResponseBalance
    <2>5. ErrorBalance => ErrorBalance'
        <3>1. PICK a \in Nat, b \in Nat, c \in Nat :
                a = stats["TotalErrors"] /\ b = log.err /\ c = stats'["TotalErrors"]
            BY <1>1 DEF Numbers, Counters
        <3>2. a <= c
            BY <1>1, <3>1, StatsGrow DEF Counters
        <3>3. Balance(a, b, Blamed) => Balance(c, b, Blamed)
            BY <3>2, BalanceKeeps
        <3> QED
            BY <1>2, <2>2, <3>1, <3>3 DEF ErrorBalance
    <2>6. StaleBalance => StaleBalance'
        <3>1. PICK a \in Nat, b \in Nat, c \in Nat :
                a = stats["StaleResponses"] /\ b = load.totalStale /\ c = stats'["StaleResponses"]
            BY <1>1 DEF Numbers, Counters
        <3>2. a <= c
            BY <1>1, <3>1, StatsGrow DEF Counters
        <3>3. Balance(a, b, StaleSeen) => Balance(c, b, StaleSeen)
            BY <3>2, BalanceKeeps
        <3> QED
            BY <1>2, <2>1, <3>1, <3>3 DEF StaleBalance
    <2> QED
        BY <1>1, <2>3, <2>4, <2>5, <2>6 DEF BalanceInv, Program
<1>3. CASE UNCHANGED clientVars
    <2>1. UNCHANGED <<call, log, load>>
        BY <1>3 DEF clientVars
    <2>2. CASE Rests /\ UNCHANGED stats
        BY <1>2, <2>1, <2>2 DEF Rests
    <2>3. CASE Rests /\ Background
        BY <1>2, <2>1, <2>3, BackgroundStats DEF Rests
    <2>4. ASSUME NEW r \in Request, Sound(r), Program("tests") \/ req[r].pc # "idle" PROVE BalanceInv'
        BY <1>1, <1>3, <2>4, ServedBalance
    <2> QED
        BY <1>1, <1>3, <2>2, <2>3, <2>4, ServedKinds
<1>4. ASSUME NEW r \in Request, Returned(r) PROVE BalanceInv'
    BY <1>1, <1>4, LoggedBalance, AnswerBalance
<1>5. ASSUME NEW r \in Request, VideoRecService_GetTopVideos_Handler(r) PROVE BalanceInv'
    BY <1>1, <1>5, ArrivalBalance
<1>6. ASSUME NEW r \in Request, Begins(r) PROVE BalanceInv'
    BY <1>1, <1>6, BeginsBalance
<1>7. CASE Reads
    <2>1. UNCHANGED <<vars, call, log, load>>
        BY <1>7 DEF Reads, reportStats, gatherStats, GetStats, fetchUser
    <2> QED
        BY <1>2, <2>1 DEF vars
<1> QED
    BY <1>3, <1>4, <1>5, <1>6, <1>7, ClientSteps
-------------------------------------------------------------------------------------
(* The inductive invariant.                                                            *)

Inv == ServiceInv /\ AccountInv /\ ClientInv

LEMMA InvStep ==
    ASSUME Inv, [ClientsNext]_allVars
    PROVE  Inv'
<1>1. ServiceInv /\ AccountInv /\ ClientInv
    BY DEF Inv
<1>2. CallType /\ ProgramType /\ StaticInv /\ CacheInv /\ HistType
    BY <1>1 DEF ServiceInv, ClientInv
<1>3. StaticInv' /\ CacheInv'
    BY <1>2, StaticStep, CacheStep
<1>4. RequestInv'
    BY <1>1, <1>2, RequestStep
<1>5. HistType' /\ AccountInv'
    BY <1>1, <1>2, AccountStep
<1>6. CallType' /\ ProgramType'
    BY <1>1, <1>2, CallStep, ProgramStep
<1>7. FrontInv' /\ BalanceInv' /\ ReadInv'
    BY <1>1, FrontStep, BalanceStep, ReadStep
<1>8. (\A r \in Request : CallCourse(r))'
    BY <1>1, CourseStep
<1> QED
    BY <1>3, <1>4, <1>5, <1>6, <1>7, <1>8 DEF Inv, ServiceInv, ClientInv

LEMMA InitStatic ==
    ASSUME Init
    PROVE  StaticInv /\ CacheInv
<1>1. scene \in Scenes /\ scene.limits \in [Service -> Nat \ {0}]
    BY SceneAssumption DEF Init
<1>2. MaxBatchSize = [s \in Service |-> scene.limits[s]]
    BY <1>1 DEF Init, BackendsInit, OptionsOf, UserServiceOptions, VideoServiceOptions, Service
<1>3. batch = [s \in Service |-> 1] /\ probe \in [Service -> Probing]
    BY DEF Init, Probing
<1>4. \A s \in Service : 1 <= scene.limits[s]
    BY <1>1
<1>5. StaticInv
    BY <1>1, <1>2, <1>3, <1>4 DEF StaticInv
<1>6. CacheInv
    BY DEF Init, CacheInv
<1> QED
    BY <1>5, <1>6

LEMMA InitInv ==
    ASSUME ClientsInit
    PROVE  Inv
<1>1. Init
    BY DEF ClientsInit
<1>2. StaticInv /\ CacheInv
    BY <1>1, InitStatic
<1>3. /\ req = [r \in Request |-> NewRequest] /\ fan = [r \in Request |-> NewFan]
      /\ hist = [r \in Request |-> [k \in Known |-> 0]] /\ stats = [k \in Counters |-> 0]
    BY <1>1 DEF Init, Known
<1>4. RequestInv
    BY <1>2, <1>3, NewFanSound, NewRequestSound DEF RequestInv
<1>5. HistType
    BY <1>3 DEF HistType
<1>6. \A r \in Request : req[r].pc = "idle" /\ req[r].resp.kind = "none"
    BY <1>3 DEF NewRequest, Response
<1>7. AccountInv
    <2>1. Active = {}
        BY <1>6 DEF Active, Under
    <2>2. stats["ActiveRequests"] = 0
        BY <1>3 DEF Counters
    <2>3. \A r \in Request : Honest(req[r], hist[r])
        BY <1>3, <1>6 DEF Honest, Known
    <2> QED
        BY <2>1, <2>2, <2>3, FS_EmptySet DEF AccountInv
<1>8. CallType
    <2>1. NoCall \in [client : ClientPlaces, server : ServerPlaces, user : AnyUser, limit : Int]
        BY DEF NoCall, ClientPlaces, ServerPlaces, AnyUser
    <2> QED
        BY <1>1, <2>1 DEF ClientsInit, CallType, Init
<1>9. \A r \in Request : call[r].client = "none" /\ call[r].server = "none"
    BY DEF ClientsInit, NoCall
<1>10. /\ load = [totalSent |-> 0, totalResponses |-> 0, totalSuccesses |-> 0, totalStale |-> 0, userId |-> 200000]
       /\ report = [pc |-> "tick", numReqs |-> 0, numErrors |-> 0, totalSent |-> 0]
       /\ poll = [loaded |-> 6, count |-> 0, line |-> [k \in Counters |-> 0], last |-> [k \in Counters |-> 0]]
       /\ front = "fetch" /\ log = [ok |-> 0, err |-> 0]
    <2>1. Len(LoadOrder) = 6
        BY DEF LoadOrder
    <2> QED
        BY <2>1 DEF ClientsInit
<1>11. ProgramType
    <2>1. load \in Loads /\ log \in Logs /\ front \in Verdicts
        BY <1>10 DEF Loads, Logs, Verdicts
    <2>2. report \in Reports
        BY <1>10, WordAssumption DEF Reports
    <2>3. poll \in Polls
        BY <1>10 DEF Polls
    <2> QED
        BY <2>1, <2>2, <2>3 DEF ProgramType
<1>12. FrontInv /\ \A r \in Request : CallCourse(r)
    BY <1>6, <1>9 DEF FrontInv, CallCourse
<1>13. BalanceInv
    <2>1. Unlogged = {} /\ Seen = {} /\ StaleSeen = {} /\ Outstanding = {} /\ HalfCounted = {}
        BY <1>9 DEF Unlogged, Seen, StaleSeen, Outstanding, HalfCounted
    <2>2. Blamed = {}
        BY <2>1 DEF Blamed
    <2>3. Balance(0, 0, {})
        BY FS_EmptySet DEF Balance
    <2>4. stats["TotalRequests"] = 0 /\ stats["TotalErrors"] = 0 /\ stats["StaleResponses"] = 0
        BY <1>3 DEF Counters
    <2>5. /\ log.ok = 0 /\ log.err = 0 /\ load.totalSent = 0 /\ load.totalResponses = 0
          /\ load.totalSuccesses = 0 /\ load.totalStale = 0
        BY <1>10
    <2>6. RequestBalance
        BY <2>1, <2>4, <2>5, FS_EmptySet DEF RequestBalance
    <2>7. ErrorBalance /\ SuccessBalance /\ StaleBalance /\ SentBalance /\ ResponseBalance
        BY <2>1, <2>2, <2>3, <2>4, <2>5
        DEF ErrorBalance, SuccessBalance, StaleBalance, SentBalance, ResponseBalance
    <2> QED
        BY <2>6, <2>7 DEF BalanceInv
<1>14. ReadInv
    BY <1>3, <1>10 DEF ReadInv
<1> QED
    BY <1>2, <1>4, <1>5, <1>7, <1>8, <1>11, <1>12, <1>13, <1>14 DEF Inv, ServiceInv, ClientInv

LEMMA InvHolds == ClientsSpec => []Inv
BY InitInv, InvStep, PTL DEF ClientsSpec
-------------------------------------------------------------------------------------
(* The theorems.                                                                       *)

LEMMA FanOutFollows ==
    ASSUME Inv
    PROVE  FanOutSound
<1>1. StaticInv /\ CacheInv /\ RequestInv /\ HistType
    BY DEF Inv, ServiceInv
<1>2. ASSUME NEW S, NEW l \in Seq(S) PROVE ToSet(l) \subseteq S
    BY <1>2, DomainOf DEF ToSet
<1>3. TypeOK
    <2>1. batch \in [Service -> Nat \ {0}] /\ probe \in [Service -> {"dial", "ask", "spin", "end"}]
        BY <1>1 DEF StaticInv, Probing
    <2>2. ToSet(cache) \subseteq Video /\ stats \in [Counters -> Nat]
        BY <1>1, <1>2 DEF CacheInv, HistType
    <2>3. ASSUME NEW r \in Request
          PROVE  /\ req[r].resp.kind \in {"none", "fresh", "stale", "error", "refused"}
                 /\ ToSet(req[r].resp.videos) \subseteq Video
        <3>1. req[r].resp.kind \in Kinds /\ req[r].resp.videos \in Seq(Video)
            BY <1>1 DEF RequestInv, Requests, Responses
        <3> QED
            BY <1>2, <3>1 DEF Kinds
    <2>4. ASSUME NEW r \in Request, NEW i \in DOMAIN fan[r].worker
          PROVE  fan[r].worker[i] \in {"call", "again", "late", "fall", "report", "exit"}
        BY <1>1 DEF RequestInv, Fan, Labels
    <2> QED
        BY <2>1, <2>2, <2>3, <2>4 DEF TypeOK
<1>4. BatchesAccepted
    <2> SUFFICES ASSUME NEW r \in Request, NEW i \in DOMAIN fan[r].worker
                 PROVE  Len(Ids(r, i)) <= MaxBatchSize[fan[r].svc]
        BY DEF BatchesAccepted
    <2>1. PICK f : f = fan[r]
        OBVIOUS
    <2>2. /\ f.svc \in Service /\ f.ids \in Seq(IdsOf(f.svc)) /\ f.size \in Nat \ {0}
          /\ f.size <= MaxBatchSize[f.svc] /\ i \in 0 .. Len(f.ids) \div f.size
        BY <1>1, <2>1 DEF RequestInv, Fan
    <2>3. Slice(f.ids, f.size, i) \in Seq(IdsOf(f.svc)) /\ Len(Slice(f.ids, f.size, i)) <= f.size
        BY <2>2, SliceSound
    <2>4. PICK n \in Nat, m \in Nat : n = Len(Slice(f.ids, f.size, i)) /\ m = f.size
        BY <2>2, <2>3
    <2>5. MaxBatchSize[f.svc] \in Nat
        BY <1>1, <2>2 DEF StaticInv
    <2>6. n <= MaxBatchSize[f.svc]
        BY <2>2, <2>3, <2>4, <2>5
    <2> QED
        BY <2>1, <2>4, <2>6 DEF Ids
<1>5. NoSendOnClosed
    BY <1>1 DEF NoSendOnClosed, AllDone, RequestInv, Fan, Busy
<1>6. SendersHaveRoom
    <2> SUFFICES ASSUME NEW r \in Request
                 PROVE  Cardinality({i \in DOMAIN fan[r].worker : fan[r].worker[i] # "exit"})
                            + Len(fan[r].errorChan) + Len(fan[r].returnChanCache) <= Room(r)
        BY DEF SendersHaveRoom
    <2>1. {i \in DOMAIN fan[r].worker : fan[r].worker[i] # "exit"} = Busy(fan[r].worker)
        BY DEF Busy
    <2>2. Cardinality(Busy(fan[r].worker)) + Len(fan[r].errorChan) + Len(fan[r].returnChanCache)
            <= Len(fan[r].ids) \div fan[r].size + 1
        BY <1>1 DEF RequestInv, Fan
    <2> QED
        BY ONLY <2>1, <2>2 DEF Room
<1> QED
    BY <1>3, <1>4, <1>5, <1>6 DEF FanOutSound

LEMMA CountedFollows ==
    ASSUME Inv
    PROVE  RequestsAreCounted
<1>1. \A r \in Request : Honest(req[r], hist[r])
    BY DEF Inv, AccountInv
<1> QED
    BY <1>1 DEF Honest, RequestsAreCounted, TroubleIsCounted, StaleIsCounted

LEMMA ObserversFollow ==
    ASSUME Inv
    PROVE  ObserversAgree
<1>1. CallType /\ ProgramType /\ BalanceInv /\ ReadInv /\ AccountInv /\ RequestInv /\ HistType
    BY DEF Inv, ServiceInv, ClientInv
<1>2. ClientsTypeOK
    <2>1. \A r \in Request : /\ call[r].client \in {"none", "waiting", "success", "failure", "stale", "counted"}
                             /\ call[r].server \in {"none", "handling", "logged"}
        BY <1>1 DEF CallType, ClientPlaces, ServerPlaces
    <2>2. \A k \in DOMAIN load : load[k] \in Nat
        BY <1>1 DEF ProgramType, Loads
    <2>3. report.numErrors \in 0 .. Word - 1
        BY <1>1 DEF ProgramType, Reports
    <2>4. poll.line \in [Counters -> Nat]
        BY <1>1 DEF ProgramType, Polls
    <2>5. front \in DOMAIN NextStep \cup {"fetch", "passed", "wrong", "fatal"}
        BY <1>1 DEF ProgramType, Verdicts, NextStep
    <2> QED
        BY <2>1, <2>2, <2>3, <2>4, <2>5 DEF ClientsTypeOK
<1>3. CountersAgree
    <2>1. {r \in Request : req[r].pc \notin {"idle", "done"}} = Active
        BY <1>1 DEF Active, Under, RequestInv, Requests
    <2>2. stats.ActiveRequests = Cardinality({r \in Request : req[r].pc \notin {"idle", "done"}})
        BY <1>1, <2>1 DEF AccountInv
    <2>3. Numbers
        BY <1>1 DEF ProgramType, HistType, Numbers, Logs, Loads
    <2>4. ASSUME ~Program("tests")
          PROVE  /\ stats.TotalRequests = log.ok + log.err + Cardinality({r \in Request : call[r].server = "handling"})
                 /\ log.err <= stats.TotalErrors
        <3>1. RequestBalance /\ ErrorBalance
            BY <1>1, <2>4 DEF BalanceInv
        <3>2. stats["TotalErrors"] \in Nat /\ log.err \in Nat
            BY <2>3 DEF Numbers, Counters
        <3>3. log.err <= stats["TotalErrors"]
            BY <3>1, <3>2, BalanceBounds DEF ErrorBalance
        <3> QED
            BY <3>1, <3>3 DEF RequestBalance, Unlogged
    <2>5. load.totalSuccesses <= log.ok /\ load.totalStale <= stats.StaleResponses
        <3>1. SuccessBalance /\ StaleBalance
            BY <1>1 DEF BalanceInv
        <3>2. /\ stats["StaleResponses"] \in Nat /\ log.ok \in Nat
              /\ load.totalSuccesses \in Nat /\ load.totalStale \in Nat
            BY <2>3 DEF Numbers, Counters
        <3> QED
            BY <3>1, <3>2, BalanceBounds DEF SuccessBalance, StaleBalance
    <2> QED
        BY <2>2, <2>4, <2>5 DEF CountersAgree
<1>4. IdleReportIsSane
    <2>1. PICK n \in Nat : n = report.numReqs
        BY <1>1 DEF ProgramType, Reports
    <2>2. report.pc = "printed" => report.numErrors <= n \/ report.totalSent > n
        BY <1>1, <2>1 DEF ReadInv
    <2> QED
        BY <2>1, <2>2 DEF IdleReportIsSane
<1>5. LinesGrow
    BY <1>1 DEF ReadInv, LinesGrow
<1> QED
    BY <1>2, <1>3, <1>4, <1>5 DEF ObserversAgree

\* A fan-out of GetTopVideos is sound whatever the probes have learnt, whatever the services
\* answer and however the request ended: batch sizes are never 0 and never above the limit of
\* their service, and every goroutine has room for what it sends and nobody closes a channel
\* before it is through.
THEOREM FanOutIsSound == ClientsSpec => []FanOutSound
BY InvHolds, FanOutFollows, PTL

\* At least once: a request of GetTopVideos that ends with an error past the test of its
\* limit or from the cache was counted in TotalErrors (but for the one case that the code
\* leaves out), and one that ends from the cache in StaleResponses, in whichever goroutine it
\* went wrong. That the counters are no more than these requests is not true of the code.
THEOREM TroubleIsSeen == ClientsSpec => []RequestsAreCounted
BY InvHolds, CountedFollows, PTL

\* The counters of GetStats, the lines of the middleware's log, the load generator's counters
\* and the lines of the monitor agree at every moment, for any number of calls at a time.
THEOREM ObserversTellTheSame == ClientsSpec => []ObserversAgree
BY InvHolds, ObserversFollow, PTL
-------------------------------------------------------------------------------------
(* The cache only grows: a refresh that got every batch has every trending video.      *)

LEMMA Joined ==
    ASSUME NEW S, NEW a \in Seq(S), NEW b \in Seq(S)
    PROVE  ToSet(a) \subseteq ToSet(a \o b) /\ ToSet(b) \subseteq ToSet(a \o b)
<1>1. a \o b \in Seq(S) /\ Len(a \o b) = Len(a) + Len(b) /\ Len(a) \in Nat /\ Len(b) \in Nat
    OBVIOUS
<1>2. DOMAIN a = 1 .. Len(a) /\ DOMAIN b = 1 .. Len(b) /\ DOMAIN (a \o b) = 1 .. Len(a) + Len(b)
    BY <1>1
<1>3. ASSUME NEW i \in DOMAIN a PROVE a[i] \in ToSet(a \o b)
    <2>1. i \in DOMAIN (a \o b) /\ (a \o b)[i] = a[i]
        BY <1>1, <1>2
    <2> QED
        BY <2>1 DEF ToSet
<1>4. ASSUME NEW i \in DOMAIN b PROVE b[i] \in ToSet(a \o b)
    <2>1. Len(a) + i \in DOMAIN (a \o b) /\ (a \o b)[Len(a) + i] = b[i]
        BY <1>1, <1>2
    <2> QED
        BY <2>1 DEF ToSet
<1> QED
    BY <1>3, <1>4 DEF ToSet

\* A flattened sequence has the members of each.
LEMMA FlattenedAll ==
    ASSUME NEW S, NEW seqs \in Seq(Seq(S)), NEW x \in DOMAIN seqs
    PROVE  ToSet(seqs[x]) \subseteq ToSet(FlattenSeq(seqs))
<1>1. Len(seqs) \in Nat /\ DOMAIN seqs = 1 .. Len(seqs) /\ Len(seqs) # 0 /\ seqs # <<>>
    OBVIOUS
<1> DEFINE f == Flattening(seqs)
<1>2. FlattenSeq(seqs) = f[Len(seqs)]
    BY <1>1 DEF FlattenSeq, Flattening
<1>3. \E g : g = [i \in 1 .. Len(seqs) |-> IF i = 1 THEN seqs[i] ELSE g[i - 1] \o seqs[i]]
    BY FlatteningExists DEF IsFlattening
<1>4. f = [i \in 1 .. Len(seqs) |-> IF i = 1 THEN seqs[i] ELSE f[i - 1] \o seqs[i]]
    BY <1>3 DEF Flattening
<1> HIDE DEF f
<1> DEFINE P == {k \in 1 .. Len(seqs) : f[k] \in Seq(S) /\ (x <= k => ToSet(seqs[x]) \subseteq ToSet(f[k]))}
<1>5. 1 \in P
    <2>1. 1 \in 1 .. Len(seqs)
        BY <1>1
    <2>2. f[1] = seqs[1]
        BY <1>4, <2>1
    <2>3. x <= 1 => x = 1
        BY <1>1
    <2> QED
        BY <2>1, <2>2, <2>3
<1>6. ASSUME NEW k \in 1 .. Len(seqs), k # 1, k - 1 \in P PROVE k \in P
    <2>1. f[k] = f[k - 1] \o seqs[k]
        BY <1>4, <1>6
    <2>2. /\ f[k - 1] \in Seq(S) /\ seqs[k] \in Seq(S)
          /\ x <= k - 1 => ToSet(seqs[x]) \subseteq ToSet(f[k - 1])
        BY <1>6
    <2>3. f[k] \in Seq(S)
        BY ONLY <2>1, <2>2
    <2>4. ToSet(f[k - 1]) \subseteq ToSet(f[k]) /\ ToSet(seqs[k]) \subseteq ToSet(f[k])
        BY <2>1, <2>2, Joined
    <2>5. x <= k => x = k \/ x <= k - 1
        BY <1>1
    <2> QED
        BY <2>2, <2>3, <2>4, <2>5
<1> HIDE DEF P
<1>7. 1 .. Len(seqs) \subseteq P
    BY <1>1, <1>5, <1>6, UpTo
<1>8. Len(seqs) \in 1 .. Len(seqs) /\ x <= Len(seqs)
    BY <1>1
<1>9. Len(seqs) \in P
    BY ONLY <1>7, <1>8
<1> QED
    BY <1>2, <1>8, <1>9 DEF P

\* Every id of a list is in one of its batches.
LEMMA SlicesCover ==
    ASSUME NEW S, NEW l \in Seq(S), NEW m \in Nat \ {0}, NEW j \in 1 .. Len(l)
    PROVE  \E i \in 0 .. (Len(l) - 1) \div m : l[j] \in ToSet(Slice(l, m, i))
<1>1. PICK n \in Nat \ {0} : n = Len(l)
    OBVIOUS
<1>0. PICK j0 \in Nat, n0 \in Nat : j0 = j - 1 /\ n0 = n - 1 /\ j0 <= n0
    BY <1>1, j - 1 \in Nat, n - 1 \in Nat, j - 1 <= n - 1
<1>2. PICK i \in Nat : i = j0 \div m
    BY Quotient
<1>3. i * m <= j0 /\ j0 < (i + 1) * m
    BY <1>2, Quotient
<1>4. PICK z \in Nat : z = n0 \div m
    BY Quotient
<1>5. z * m <= n0 /\ n0 < (z + 1) * m
    BY <1>4, Quotient
<1>6. PICK q \in Nat : q = n \div m
    BY Quotient
<1>7. q * m <= n /\ n < (q + 1) * m
    BY <1>6, Quotient
<1>8. ASSUME NEW x \in Nat, NEW y \in Nat, x > y
      PROVE  x * m >= (y + 1) * m /\ x * m \in Nat /\ (y + 1) * m \in Nat
    <2>1. PICK d \in Nat : x = (y + 1) + d
        BY <1>8, x - (y + 1) \in Nat
    <2>2. x * m = (y + 1) * m + d * m
        BY <2>1
    <2>3. d * m \in Nat /\ (y + 1) * m \in Nat
        OBVIOUS
    <2> QED
        BY <2>2, <2>3
<1>9. i <= z
    <2> SUFFICES ASSUME i > z PROVE FALSE
        OBVIOUS
    <2>1. PICK p \in Nat, w \in Nat : p = i * m /\ w = (z + 1) * m /\ p >= w
        BY <1>8
    <2> QED
        BY <1>0, <1>3, <1>5, <2>1
<1>10. i <= q
    <2> SUFFICES ASSUME i > q PROVE FALSE
        OBVIOUS
    <2>1. PICK p \in Nat, w \in Nat : p = i * m /\ w = (q + 1) * m /\ p >= w
        BY <1>8
    <2> QED
        BY <1>0, <1>1, <1>3, <1>7, <2>1
<1> DEFINE a == i * m + 1
           b == IF i = q THEN n ELSE (i + 1) * m
<1>11. Slice(l, m, i) = SubSeq(l, a, b)
    BY <1>1, <1>6 DEF Slice
<1>12. a \in Nat /\ a >= 1 /\ b \in Nat /\ b <= n /\ a <= j /\ j <= b
    <2>1. PICK p \in Nat, w \in Nat : p = i * m /\ w = (i + 1) * m
        OBVIOUS
    <2>2. CASE i = q
        BY <1>0, <1>1, <1>3, <2>1, <2>2
    <2>3. CASE i # q
        <3>1. PICK g \in Nat : g = q * m /\ g >= w
            BY <1>8, <1>10, <2>1, <2>3
        <3> QED
            BY <1>0, <1>1, <1>3, <1>7, <2>1, <2>3, <3>1
    <2> QED
        BY <2>2, <2>3
<1> HIDE DEF a, b
<1>13. l[j] \in ToSet(SubSeq(l, a, b))
    <2>1. PICK k \in Nat : k = j - a + 1 /\ k >= 1
        BY <1>1, <1>12
    <2>2. Len(SubSeq(l, a, b)) = b - a + 1 /\ SubSeq(l, a, b) \in Seq(S)
        BY <1>1, <1>12
    <2>3. k \in 1 .. b - a + 1
        BY <1>1, <1>12, <2>1
    <2>4. SubSeq(l, a, b)[k] = l[a + k - 1]
        BY <1>1, <1>12, <2>3
    <2>5. a + k - 1 = j /\ k \in DOMAIN SubSeq(l, a, b)
        BY <1>1, <1>12, <2>1, <2>2, <2>3
    <2> QED
        BY <2>4, <2>5 DEF ToSet
<1>14. i \in 0 .. (Len(l) - 1) \div m
    BY <1>0, <1>1, <1>4, <1>9
<1> QED
    BY <1>11, <1>13, <1>14

\* An order of a set has all of it.
LEMMA OrderHasAll ==
    ASSUME NEW T, IsFiniteSet(T), NEW order \in SetToSeqs(T), NEW i \in T
    PROVE  \E k \in DOMAIN order : order[k] = i
<1>1. PICK n \in Nat : n = Cardinality(T)
    BY FS_CardinalityType
<1>2. order \in [1 .. n -> T] /\ \A a, b \in 1 .. n : a # b => order[a] # order[b]
    BY <1>1 DEF SetToSeqs
<1>3. order \in Injection(1 .. n, T)
    BY <1>2 DEF Injection, IsInjective
<1>4. IsFiniteSet(1 .. n) /\ Cardinality(1 .. n) = n
    BY FS_Interval
<1>5. order \in Surjection(1 .. n, T)
    BY <1>1, <1>3, <1>4, FS_Injection
<1> QED
    BY <1>2, <1>5 DEF Surjection
\* A refresh that lost no batch has every trending video.
LEMMA WholeRefresh ==
    ASSUME CacheInv,
           NEW order \in SetToSeqs(0 .. (Len(topVideos) - 1) \div refresh.size)
    PROVE  ToSet(topVideos) \subseteq
                ToSet(FlattenSeq([k \in DOMAIN order |-> Slice(topVideos, refresh.size, order[k])]))
<1> DEFINE m == refresh.size
           T == 0 .. (Len(topVideos) - 1) \div m
           g == [k \in DOMAIN order |-> Slice(topVideos, refresh.size, order[k])]
<1>1. topVideos \in Seq(Video) /\ m \in Nat \ {0} /\ Len(topVideos) \in Nat
    BY TopVideos DEF CacheInv
<1>2. IsFiniteSet(T)
    <2>1. PICK a \in Int : a = (Len(topVideos) - 1) \div m
        BY <1>1
    <2> QED
        BY <2>1, FS_Interval
<1>3. g \in Seq(Seq(Video))
    <2> DEFINE n == Cardinality(T)
    <2>1. n \in Nat
        BY <1>2, FS_CardinalityType
    <2>2. order \in [1 .. n -> T]
        BY DEF SetToSeqs
    <2>3. ASSUME NEW k \in 1 .. n PROVE Slice(topVideos, m, order[k]) \in Seq(Video)
        <3>1. order[k] \in T
            BY <2>2
        <3> QED
            BY <1>1, <3>1, BatchOfVideos
    <2>4. g \in [1 .. n -> Seq(Video)]
        BY <2>2, <2>3
    <2> QED
        BY <2>1, <2>4
<1>4. ASSUME NEW j \in 1 .. Len(topVideos) PROVE topVideos[j] \in ToSet(FlattenSeq(g))
    <2>1. PICK i \in T : topVideos[j] \in ToSet(Slice(topVideos, m, i))
        BY <1>1, SlicesCover
    <2>2. PICK k \in DOMAIN order : order[k] = i
        BY <1>2, OrderHasAll
    <2>3. k \in DOMAIN g /\ g[k] = Slice(topVideos, m, i)
        BY <2>2
    <2> HIDE DEF g
    <2>4. ToSet(g[k]) \subseteq ToSet(FlattenSeq(g))
        BY <1>3, <2>3, FlattenedAll
    <2> QED
        BY <2>1, <2>3, <2>4
<1>5. DOMAIN topVideos = 1 .. Len(topVideos)
    BY <1>1
<1> QED
    BY <1>4, <1>5 DEF ToSet

LEMMA CacheGrows ==
    ASSUME CallType, CacheInv, [ClientsNext]_allVars
    PROVE  ToSet(cache) \subseteq ToSet(cache')
<1>1. ASSUME UNCHANGED cache PROVE ToSet(cache) \subseteq ToSet(cache')
    BY <1>1
<1>2. CASE Refreshed
    <2> DEFINE batches == 0 .. (Len(topVideos) - 1) \div refresh.size
    <2>1. PICK first \in 0 .. Tries - 1, failures \in [batches -> 0 .. Tries] :
            \E order \in SetToSeqs({i \in batches : failures[i] < Tries}) :
                UpdateCache(first, failures, order)
        BY <1>2 DEF Refreshed
    <2>2. PICK order \in SetToSeqs({i \in batches : failures[i] < Tries}) :
            UpdateCache(first, failures, order)
        BY <2>1
    <2> DEFINE fetched == FlattenSeq([k \in DOMAIN order |-> Slice(topVideos, refresh.size, order[k])])
               lost == {i \in DOMAIN failures : failures[i] = Tries}
    <2>3. cache' = IF lost = {} \/ cache = <<>> THEN fetched ELSE cache
        BY <2>2 DEF UpdateCache, Kept
    <2>4. CASE cache = <<>>
        BY <2>4 DEF ToSet
    <2>5. CASE lost = {}
        <3>1. \A i \in batches : failures[i] < Tries
            BY <2>5 DEF Tries
        <3>2. {i \in batches : failures[i] < Tries} = batches
            BY <3>1
        <3>3. order \in SetToSeqs(batches)
            BY <2>2, <3>2
        <3>4. ToSet(topVideos) \subseteq ToSet(fetched)
            BY <3>3, WholeRefresh
        <3>5. ToSet(cache) \subseteq ToSet(topVideos)
            <4>1. cache \in Seq(ToSet(topVideos))
                BY DEF CacheInv
            <4> QED
                BY ONLY <4>1 DEF ToSet
        <3>6. cache' = fetched
            BY <2>3, <2>5
        <3> QED
            BY <3>4, <3>5, <3>6
    <2>6. CASE lost # {} /\ cache # <<>>
        BY <2>3, <2>6
    <2> QED
        BY <2>4, <2>5, <2>6
<1>3. CASE Background
    BY <1>1, <1>2, <1>3 DEF Background, RefreshDials, RefreshBegins, NoTrending
<1>4. CASE UNCHANGED vars
    BY <1>1, <1>4 DEF vars
<1>5. ASSUME NEW r \in Request, RequestMoves(r) \/ Arrives(r) \/ CallBegins(r) PROVE ToSet(cache) \subseteq ToSet(cache')
    BY <1>1, <1>5, RequestFrame DEF StaticVars
<1>6. ASSUME NEW s \in Service, Probes(s) PROVE ToSet(cache) \subseteq ToSet(cache')
    BY <1>1, <1>6, ProbesFrame
<1> QED
    BY <1>3, <1>4, <1>5, <1>6, ServiceSteps

\* A refresh never takes a trending video out of the cache, whatever batches of it were lost
\* and in whatever order the others arrived: it keeps what it got only if that is all of them
\* (however large the batches are and whatever is left for the last), or if there was nothing.
THEOREM CacheIsNeverCut == ClientsSpec => CacheOnlyGrows
<1>1. Inv /\ [ClientsNext]_allVars => [ToSet(cache) \subseteq ToSet(cache')]_vars
    BY CacheGrows DEF Inv, ServiceInv, ClientInv
<1> QED
    BY <1>1, InvHolds, PTL DEF ClientsSpec, CacheOnlyGrows
-------------------------------------------------------------------------------------
(* Lists as sets.                                                                      *)

\* No id occurs twice.
Once(l) == \A i, j \in DOMAIN l : l[i] = l[j] => i = j

LEMMA JoinedIs ==
    ASSUME NEW S, NEW a \in Seq(S), NEW b \in Seq(S)
    PROVE  ToSet(a \o b) = ToSet(a) \cup ToSet(b)
<1>1. PICK m \in Nat, n \in Nat : m = Len(a) /\ n = Len(b)
    OBVIOUS
<1>2. DOMAIN a = 1 .. m /\ DOMAIN b = 1 .. n /\ DOMAIN (a \o b) = 1 .. m + n
    BY <1>1
<1>3. ASSUME NEW k \in 1 .. m + n PROVE (a \o b)[k] \in ToSet(a) \cup ToSet(b)
    <2>1. CASE k <= m
        <3>1. k \in 1 .. m /\ (a \o b)[k] = a[k]
            BY <1>1, <2>1
        <3> QED
            BY <1>2, <3>1 DEF ToSet
    <2>2. CASE k > m
        <3>1. k - m \in 1 .. n /\ (a \o b)[k] = b[k - m]
            BY <1>1, <2>2
        <3> QED
            BY <1>2, <3>1 DEF ToSet
    <2> QED
        BY <1>1, <2>1, <2>2
<1>4. ToSet(a \o b) \subseteq ToSet(a) \cup ToSet(b)
    BY <1>2, <1>3 DEF ToSet
<1> QED
    BY <1>4, Joined

LEMMA JoinedOnce ==
    ASSUME NEW S, NEW a \in Seq(S), NEW b \in Seq(S), Once(a), Once(b), ToSet(a) \cap ToSet(b) = {}
    PROVE  Once(a \o b)
<1>1. PICK m \in Nat, n \in Nat : m = Len(a) /\ n = Len(b)
    OBVIOUS
<1>2. DOMAIN a = 1 .. m /\ DOMAIN b = 1 .. n /\ DOMAIN (a \o b) = 1 .. m + n
    BY <1>1
<1>3. ASSUME NEW k \in 1 .. m + n, k <= m PROVE k \in 1 .. m /\ (a \o b)[k] = a[k] /\ a[k] \in ToSet(a)
    <2>1. k \in 1 .. m /\ (a \o b)[k] = a[k]
        BY <1>1, <1>3
    <2> QED
        BY <1>2, <2>1 DEF ToSet
<1>4. ASSUME NEW k \in 1 .. m + n, k > m
      PROVE  k - m \in 1 .. n /\ (a \o b)[k] = b[k - m] /\ b[k - m] \in ToSet(b)
    <2>1. k - m \in 1 .. n /\ (a \o b)[k] = b[k - m]
        BY <1>1, <1>4
    <2> QED
        BY <1>2, <2>1 DEF ToSet
<1>5. ASSUME NEW i \in 1 .. m + n, NEW j \in 1 .. m + n, (a \o b)[i] = (a \o b)[j] PROVE i = j
    <2>1. CASE i <= m /\ j <= m
        BY <1>2, <1>3, <1>5, <2>1 DEF Once
    <2>2. CASE i > m /\ j > m
        <3>1. i - m = j - m
            BY <1>2, <1>4, <1>5, <2>2 DEF Once
        <3> QED
            BY <3>1
    <2>3. CASE i <= m /\ j > m
        BY <1>3, <1>4, <1>5, <2>3
    <2>4. CASE i > m /\ j <= m
        BY <1>3, <1>4, <1>5, <2>4
    <2> QED
        BY <2>1, <2>2, <2>3, <2>4
<1> QED
    BY <1>2, <1>5 DEF Once

\* A list without duplicates has as many ids as it is long.
LEMMA OnceCount ==
    ASSUME NEW S, NEW l \in Seq(S), Once(l)
    PROVE  IsFiniteSet(ToSet(l)) /\ Cardinality(ToSet(l)) = Len(l)
<1>1. IsFiniteSet(DOMAIN l) /\ Cardinality(DOMAIN l) = Len(l)
    BY DomainOf
<1>2. l \in [DOMAIN l -> ToSet(l)]
    BY DEF ToSet
<1>3. l \in Injection(DOMAIN l, ToSet(l))
    BY <1>2 DEF Once, Injection, IsInjective
<1>4. l \in Surjection(DOMAIN l, ToSet(l))
    BY <1>2 DEF ToSet, Surjection
<1>5. ExistsBijection(DOMAIN l, ToSet(l))
    BY <1>3, <1>4 DEF Bijection, ExistsBijection
<1> QED
    BY <1>1, <1>5, FS_Bijection

\* What is flattened is of one of the lists.
LEMMA FlattenedIs ==
    ASSUME NEW S, NEW seqs \in Seq(Seq(S))
    PROVE  ToSet(FlattenSeq(seqs)) = UNION {ToSet(seqs[k]) : k \in DOMAIN seqs}
<1> DEFINE U == UNION {ToSet(seqs[k]) : k \in DOMAIN seqs}
<1>1. ASSUME NEW k \in DOMAIN seqs PROVE seqs[k] \in Seq(U)
    <2>1. seqs[k] \in Seq(S)
        OBVIOUS
    <2>2. seqs[k] \in Seq(ToSet(seqs[k]))
        BY <2>1 DEF ToSet
    <2>3. ToSet(seqs[k]) \subseteq U
        OBVIOUS
    <2> QED
        BY ONLY <2>2, <2>3
<1> HIDE DEF U
<1>2. seqs \in Seq(Seq(U))
    BY <1>1
<1>3. FlattenSeq(seqs) \in Seq(U)
    BY <1>2, Flattened
<1>4. ToSet(FlattenSeq(seqs)) \subseteq U
    BY ONLY <1>3 DEF ToSet
<1>5. U \subseteq ToSet(FlattenSeq(seqs))
    BY FlattenedAll DEF U
<1> QED
    BY <1>4, <1>5 DEF U
\* The first of the places where an id occurs.
LEMMA FirstOccurs ==
    ASSUME NEW S, NEW l \in Seq(S), NEW x \in ToSet(l)
    PROVE  \E k \in DOMAIN l : l[k] = x /\ \A j \in 1 .. k - 1 : l[j] # l[k]
<1> DEFINE T == {k \in DOMAIN l : l[k] = x}
<1>1. T \subseteq Nat /\ T # {} /\ DOMAIN l = 1 .. Len(l) /\ Len(l) \in Nat
    BY DEF ToSet
<1>2. PICK k \in T : \A j \in T : <<j, k>> \notin OpToRel(<, Nat)
    BY <1>1, NatLessThanWellFounded, WFMin
<1>3. k \in DOMAIN l /\ l[k] = x /\ k \in Nat
    BY <1>1
<1>4. ASSUME NEW j \in 1 .. k - 1 PROVE l[j] # x
    <2>1. j \in Nat /\ j < k /\ j \in DOMAIN l
        BY <1>1, <1>3
    <2>2. <<j, k>> \in OpToRel(<, Nat)
        BY <1>3, <2>1 DEF OpToRel
    <2> QED
        BY <1>2, <2>1, <2>2
<1> QED
    BY <1>3, <1>4

\* The places of numbers are all different.
LEMMA NumberPlacesApart ==
    ASSUME NEW D, IsFiniteSet(D), D \subseteq Int
    PROVE  /\ \A k \in D : Cardinality({j \in D : j <= k}) \in 1 .. Cardinality(D)
           /\ \A i, k \in D : Cardinality({j \in D : j <= i}) = Cardinality({j \in D : j <= k}) => i = k
<1> DEFINE R == {x \in D \X D : x[1] <= x[2]}
<1>1. Orders(R, D)
    BY DEF Orders
<1>2. ASSUME NEW k \in D PROVE PlaceOf(R, D, k) = Cardinality({j \in D : j <= k})
    BY DEF Upto, PlaceOf
<1> HIDE DEF R
<1>3. /\ Cardinality(D) \in Nat
      /\ \A i \in D : PlaceOf(R, D, i) \in 1 .. Cardinality(D)
      /\ \A i, j \in D : i # j /\ <<i, j>> \in R => PlaceOf(R, D, i) < PlaceOf(R, D, j)
    <2>1. IsFiniteSet(D)
        OBVIOUS
    <2> QED
        BY ONLY <1>1, <2>1, Places
<1>4. ASSUME NEW i \in D, NEW k \in D, PlaceOf(R, D, i) = PlaceOf(R, D, k) PROVE i = k
    <2>1. <<i, k>> \in R \/ <<k, i>> \in R
        BY <1>1 DEF Orders
    <2>2. PICK a \in Nat, b \in Nat : a = PlaceOf(R, D, i) /\ b = PlaceOf(R, D, k)
        BY <1>3
    <2>3. ~(a < b) /\ ~(b < a)
        BY <1>4, <2>2
    <2> QED
        BY <1>3, <2>1, <2>2, <2>3
<1> QED
    BY <1>2, <1>3, <1>4

\* deduplicateIds keeps every id, once.
LEMMA DeduplicatedAll ==
    ASSUME NEW S, NEW l \in Seq(S)
    PROVE  Once(deduplicateIds(l)) /\ ToSet(deduplicateIds(l)) = ToSet(l)
<1> DEFINE first == {k \in DOMAIN l : \A j \in 1 .. k - 1 : l[j] # l[k]}
           Rank1(k) == Cardinality({j \in first : j <= k})
           Place(n) == CHOOSE k \in first : Rank1(k) = n
           N == Cardinality(first)
           d == deduplicateIds(l)
<1>1. first \subseteq DOMAIN l /\ first \subseteq Int /\ DOMAIN l \subseteq Nat
    OBVIOUS
<1>2. IsFiniteSet(first)
    BY <1>1, DomainOf, FS_Subset
<1>3. d = [n \in 1 .. N |-> l[Place(n)]]
    BY DEF deduplicateIds
<1>4. ASSUME NEW i \in first, NEW k \in first, l[i] = l[k] PROVE i = k
    <2>1. i \in Nat /\ k \in Nat /\ i >= 1 /\ k >= 1
        OBVIOUS
    <2>2. ~(i \in 1 .. k - 1) /\ ~(k \in 1 .. i - 1)
        BY <1>4
    <2> QED
        BY <2>1, <2>2
<1>5. \A x \in ToSet(l) : \E k \in first : l[k] = x
    BY FirstOccurs
<1> HIDE DEF first
<1>6. /\ N \in Nat /\ \A n \in 1 .. N : \E k \in first : Rank1(k) = n
      /\ \A k \in first : Rank1(k) \in 1 .. N
      /\ \A i, k \in first : Rank1(i) = Rank1(k) => i = k
    <2>1. IsFiniteSet(first) /\ first \subseteq Int
        BY <1>1, <1>2
    <2> QED
        BY ONLY <2>1, NumberPlaces, NumberPlacesApart
<1> HIDE DEF Rank1, N
<1>7. \A n \in 1 .. N : Place(n) \in first /\ Rank1(Place(n)) = n
    BY <1>6
<1>8. \A k \in first : Place(Rank1(k)) = k
    BY <1>6, <1>7
<1> HIDE DEF Place, d
<1>9. Once(d)
    <2> SUFFICES ASSUME NEW i \in 1 .. N, NEW j \in 1 .. N, d[i] = d[j] PROVE i = j
        BY <1>3 DEF Once
    <2>1. Place(i) = Place(j)
        BY <1>3, <1>4, <1>7
    <2> QED
        BY <1>7, <2>1
<1>10. ToSet(d) \subseteq ToSet(l)
    <2> SUFFICES ASSUME NEW i \in 1 .. N PROVE l[Place(i)] \in ToSet(l)
        BY <1>3 DEF ToSet
    <2> QED
        BY <1>1, <1>7 DEF ToSet
<1>11. ToSet(l) \subseteq ToSet(d)
    <2> SUFFICES ASSUME NEW x \in ToSet(l) PROVE x \in ToSet(d)
        OBVIOUS
    <2>1. PICK k \in first : l[k] = x
        BY <1>5
    <2>2. Rank1(k) \in DOMAIN d /\ d[Rank1(k)] = x
        BY <1>3, <1>6, <1>8, <2>1
    <2> QED
        BY <2>2 DEF ToSet
<1> QED
    BY <1>9, <1>10, <1>11 DEF d
\* Batch i has the ids from place i * m + 1 to place (i + 1) * m, as far as there are any.
LEMMA SliceMembers ==
    ASSUME NEW S, NEW l \in Seq(S), NEW m \in Nat \ {0}, NEW i \in 0 .. Len(l) \div m
    PROVE  /\ \A x : x \in ToSet(Slice(l, m, i)) <=>
                        \E j \in 1 .. Len(l) : l[j] = x /\ i * m <= j - 1 /\ j - 1 < (i + 1) * m
           /\ Once(l) => Once(Slice(l, m, i))
<1>1. PICK n \in Nat : n = Len(l)
    OBVIOUS
<1>2. PICK q \in Nat : q = n \div m
    BY Quotient
<1>3. q * m <= n /\ n < (q + 1) * m
    BY <1>2, Quotient
<1>4. i \in Nat /\ i <= q
    BY <1>1, <1>2
<1>5. PICK p \in Nat, w \in Nat : p = i * m /\ w = (i + 1) * m
    BY <1>4
<1>6. i # q => w <= n
    <2> SUFFICES ASSUME i # q PROVE w <= n
        OBVIOUS
    <2>1. PICK d \in Nat : q = (i + 1) + d
        BY <1>4, q - (i + 1) \in Nat
    <2>2. q * m = (i + 1) * m + d * m
        BY <1>4, <2>1
    <2>3. PICK g \in Nat, h \in Nat : g = q * m /\ h = d * m
        OBVIOUS
    <2> QED
        BY <1>3, <1>5, <2>2, <2>3
<1>7. i = q => p <= n /\ n < w
    BY <1>3, <1>5
<1> DEFINE b == IF i = q THEN n ELSE w
           s == SubSeq(l, p + 1, b)
<1>8. Slice(l, m, i) = s
    BY <1>1, <1>2, <1>5 DEF Slice
<1>9. b \in Nat /\ b <= n /\ p <= b
    <2>1. p <= w
        BY <1>4, <1>5
    <2> QED
        BY <1>6, <1>7, <2>1
<1>10. ASSUME NEW j \in 1 .. n PROVE (p <= j - 1 /\ j - 1 < w) <=> (p + 1 <= j /\ j <= b)
    BY <1>6, <1>7
<1> HIDE DEF b
<1>11. DOMAIN s = 1 .. b - p /\ \A k \in 1 .. b - p : s[k] = l[p + k] /\ p + k \in 1 .. n
    <2>1. Len(s) = b - p /\ s \in Seq(S)
        BY <1>1, <1>9
    <2>2. DOMAIN s = 1 .. b - p
        BY <2>1
    <2>3. ASSUME NEW k \in 1 .. b - p PROVE s[k] = l[p + k] /\ p + k \in 1 .. n
        <3>1. k \in 1 .. (b - (p + 1) + 1)
            BY <1>9
        <3>2. s[k] = l[(p + 1) + k - 1]
            BY <1>1, <1>9, <3>1
        <3>3. (p + 1) + k - 1 = p + k
            OBVIOUS
        <3> QED
            BY <1>9, <3>2, <3>3
    <2> QED
        BY <2>2, <2>3
<1> HIDE DEF s
<1>12. ASSUME NEW x
       PROVE  x \in ToSet(s) <=> \E j \in 1 .. n : l[j] = x /\ p <= j - 1 /\ j - 1 < w
    <2>1. ASSUME x \in ToSet(s) PROVE \E j \in 1 .. n : l[j] = x /\ p <= j - 1 /\ j - 1 < w
        <3>1. PICK k \in 1 .. b - p : x = s[k]
            BY <1>11, <2>1 DEF ToSet
        <3>2. PICK j \in 1 .. n : j = p + k /\ l[j] = x
            BY <1>11, <3>1
        <3>3. p + 1 <= j /\ j <= b
            BY <1>9, <3>1, <3>2
        <3> QED
            BY <1>10, <3>2, <3>3
    <2>2. ASSUME NEW j \in 1 .. n, l[j] = x, p <= j - 1, j - 1 < w PROVE x \in ToSet(s)
        <3>1. p + 1 <= j /\ j <= b
            BY <1>10, <2>2
        <3>2. PICK k \in 1 .. b - p : k = j - p
            BY <1>9, <3>1, j - p \in 1 .. b - p
        <3>3. p + k = j
            BY <3>2
        <3> QED
            BY <1>11, <2>2, <3>2, <3>3 DEF ToSet
    <2> QED
        BY <2>1, <2>2
<1>13. ASSUME Once(l) PROVE Once(s)
    <2> SUFFICES ASSUME NEW j \in 1 .. b - p, NEW k \in 1 .. b - p, s[j] = s[k] PROVE j = k
        BY <1>11 DEF Once
    <2>1. p + j = p + k
        <3>1. l[p + j] = l[p + k] /\ p + j \in DOMAIN l /\ p + k \in DOMAIN l
            BY <1>1, <1>11
        <3> QED
            BY <1>13, <3>1 DEF Once
    <2> QED
        BY <2>1
<1> QED
    BY <1>1, <1>5, <1>8, <1>12, <1>13

\* Batches of a list without duplicates have nothing in common.
LEMMA SlicesApart ==
    ASSUME NEW S, NEW l \in Seq(S), NEW m \in Nat \ {0}, Once(l),
           NEW i \in 0 .. Len(l) \div m, NEW k \in 0 .. Len(l) \div m, i # k
    PROVE  ToSet(Slice(l, m, i)) \cap ToSet(Slice(l, m, k)) = {}
<1>1. ASSUME NEW a \in Nat, NEW b \in Nat, a < b, NEW j \in Nat, b * m <= j, j < (a + 1) * m PROVE FALSE
    <2>1. PICK d \in Nat : b = (a + 1) + d
        BY <1>1, b - (a + 1) \in Nat
    <2>2. b * m = (a + 1) * m + d * m
        BY <2>1
    <2>3. PICK g \in Nat, h \in Nat, e \in Nat : g = b * m /\ h = d * m /\ e = (a + 1) * m
        OBVIOUS
    <2> QED
        BY <1>1, <2>2, <2>3
<1>2. i \in Nat /\ k \in Nat
    OBVIOUS
<1> SUFFICES ASSUME NEW x \in ToSet(Slice(l, m, i)), x \in ToSet(Slice(l, m, k)) PROVE FALSE
    OBVIOUS
<1>3. PICK j \in 1 .. Len(l) : l[j] = x /\ i * m <= j - 1 /\ j - 1 < (i + 1) * m
    BY SliceMembers
<1>4. PICK h \in 1 .. Len(l) : l[h] = x /\ k * m <= h - 1 /\ h - 1 < (k + 1) * m
    BY SliceMembers
<1>5. j = h
    BY <1>3, <1>4 DEF Once
<1>6. PICK j0 \in Nat : j0 = j - 1
    BY j - 1 \in Nat
<1> QED
    BY <1>1, <1>2, <1>3, <1>4, <1>5, <1>6

\* All batches together are the list.
LEMMA SlicesAre ==
    ASSUME NEW S, NEW l \in Seq(S), NEW m \in Nat \ {0}
    PROVE  ToSet(l) = UNION {ToSet(Slice(l, m, i)) : i \in 0 .. Len(l) \div m}
<1> DEFINE U == UNION {ToSet(Slice(l, m, i)) : i \in 0 .. Len(l) \div m}
<1>1. ASSUME NEW i \in 0 .. Len(l) \div m PROVE ToSet(Slice(l, m, i)) \subseteq ToSet(l)
    <2> SUFFICES ASSUME NEW x \in ToSet(Slice(l, m, i)) PROVE x \in ToSet(l)
        OBVIOUS
    <2>1. PICK j \in 1 .. Len(l) : l[j] = x
        BY SliceMembers
    <2> QED
        BY <2>1 DEF ToSet
<1>2. ASSUME NEW j \in 1 .. Len(l) PROVE l[j] \in U
    <2>1. PICK i \in 0 .. (Len(l) - 1) \div m : l[j] \in ToSet(Slice(l, m, i))
        BY SlicesCover
    <2>2. i \in 0 .. Len(l) \div m
        <3>1. PICK n \in Nat : n = Len(l)
            OBVIOUS
        <3>2. (n - 1) \div m <= n \div m
            BY LastBatch
        <3>3. (n - 1) \div m \in Int /\ n \div m \in Int
            OBVIOUS
        <3> QED
            BY <3>1, <3>2, <3>3
    <2> QED
        BY <2>1, <2>2
<1>3. ToSet(l) = {l[j] : j \in 1 .. Len(l)}
    BY DEF ToSet
<1> QED
    BY <1>1, <1>2, <1>3
-------------------------------------------------------------------------------------
(* The ranking.                                                                        *)

\* The n best of the videos in all, best first.
Best(u, all, n, vs) ==
    /\ Len(vs) = IF n \in 1 .. Cardinality(all) THEN n ELSE Cardinality(all)
    /\ vs \in Seq(all) /\ Once(vs) /\ Cardinality(ToSet(vs)) = Len(vs)
    /\ \A i, j \in DOMAIN vs : i < j => Scores[u][vs[i]] >= Scores[u][vs[j]]
    /\ \A v \in all \ ToSet(vs) : \A i \in DOMAIN vs : Scores[u][vs[i]] >= Scores[u][v]

\* Sorting by places: nothing is lost, nothing is doubled, and the scores descend.
LEMMA RankedOrder ==
    ASSUME NEW u \in DOMAIN User, NEW l \in Seq(Video), Once(l), NEW n \in Int
    PROVE  \E t \in Seq(Video) :
            /\ rankVideos(u, l, n) = Truncate(t, n) /\ Len(t) = Len(l)
            /\ Once(t) /\ ToSet(t) = ToSet(l)
            /\ \A i, j \in DOMAIN t : i < j => Scores[u][t[i]] >= Scores[u][t[j]]
<1> DEFINE D == DOMAIN l
           Score(i) == Scores[u][l[i]]
           Before(i, j) == Score(i) > Score(j) \/ (Score(i) = Score(j) /\ i <= j)
           R == {x \in D \X D : Before(x[1], x[2])}
           Place(k) == CHOOSE i \in D : Cardinality({j \in D : Before(j, i)}) = k
           t == [k \in D |-> l[Place(k)]]
<1>1. IsFiniteSet(D) /\ D \subseteq Int /\ D = 1 .. Len(l) /\ Len(l) \in Nat /\ Cardinality(D) = Len(l)
    BY DomainOf
<1>2. \A i \in D : l[i] \in Video /\ Score(i) \in Nat
    BY ScoreAssumption
<1>3. rankVideos(u, l, n) = Truncate(t, n)
    BY DEF rankVideos
<1> HIDE DEF Score, D
<1>4. Orders(R, D)
    <2>1. \A i \in D : <<i, i>> \in R
        BY <1>1, <1>2
    <2>2. \A i, j \in D : <<i, j>> \in R \/ <<j, i>> \in R
        BY <1>1, <1>2
    <2>3. \A i, j \in D : <<i, j>> \in R /\ <<j, i>> \in R => i = j
        BY <1>1, <1>2
    <2>4. \A i, j, k \in D : <<i, j>> \in R /\ <<j, k>> \in R => <<i, k>> \in R
        BY <1>1, <1>2
    <2> QED
        BY <2>1, <2>2, <2>3, <2>4 DEF Orders
<1>5. ASSUME NEW i \in D PROVE PlaceOf(R, D, i) = Cardinality({j \in D : Before(j, i)})
    BY DEF Upto, PlaceOf
<1>6. ASSUME NEW i \in D, NEW j \in D, <<i, j>> \in R PROVE Score(i) >= Score(j)
    BY <1>2, <1>6
<1> HIDE DEF R
<1>7. /\ \A i \in D : PlaceOf(R, D, i) \in 1 .. Cardinality(D)
      /\ \A i, j \in D : i # j /\ <<i, j>> \in R => PlaceOf(R, D, i) < PlaceOf(R, D, j)
      /\ \A k \in 1 .. Cardinality(D) : \E i \in D : PlaceOf(R, D, i) = k
    <2>1. IsFiniteSet(D)
        BY <1>1
    <2> QED
        BY ONLY <1>4, <2>1, Places
<1>8. ASSUME NEW k \in D PROVE Place(k) \in D /\ PlaceOf(R, D, Place(k)) = k
    <2>1. k \in 1 .. Cardinality(D)
        BY <1>1
    <2>2. \E i \in D : Cardinality({j \in D : Before(j, i)}) = k
        BY <1>5, <1>7, <2>1
    <2> HIDE DEF Before
    <2>3. Place(k) \in D /\ Cardinality({j \in D : Before(j, Place(k))}) = k
        BY <2>2
    <2> QED
        BY <1>5, <2>3
<1> HIDE DEF Before, Place
<1>9. ASSUME NEW i \in D PROVE PlaceOf(R, D, i) \in D /\ Place(PlaceOf(R, D, i)) = i
    <2>1. PICK k \in D : k = PlaceOf(R, D, i)
        BY <1>1, <1>7
    <2>2. Place(k) \in D /\ PlaceOf(R, D, Place(k)) = k
        BY <1>8
    <2>3. <<i, Place(k)>> \in R \/ <<Place(k), i>> \in R
        BY <1>4, <2>2 DEF Orders
    <2>4. ~(k < k)
        BY <1>1
    <2> QED
        BY <1>7, <2>1, <2>2, <2>3, <2>4
<1>10. ASSUME NEW i \in D, NEW j \in D, i < j PROVE Score(Place(i)) >= Score(Place(j))
    <2>1. Place(i) \in D /\ Place(j) \in D /\ PlaceOf(R, D, Place(i)) = i /\ PlaceOf(R, D, Place(j)) = j
        BY <1>8
    <2>2. Place(i) # Place(j) /\ ~(j < i)
        BY <1>1, <1>10, <2>1
    <2>3. <<Place(j), Place(i)>> \notin R
        BY <1>7, <2>1, <2>2
    <2>4. <<Place(i), Place(j)>> \in R
        BY <1>4, <2>1, <2>3 DEF Orders
    <2> QED
        BY <1>6, <2>1, <2>4
<1>11. t \in Seq(Video) /\ Len(t) = Len(l) /\ DOMAIN t = D
    <2>1. \A k \in D : l[Place(k)] \in Video
        BY <1>2, <1>8
    <2>2. t \in [1 .. Len(l) -> Video]
        BY <1>1, <2>1
    <2> HIDE DEF t
    <2> QED
        BY <1>1, <2>2
<1>12. Once(t)
    <2> SUFFICES ASSUME NEW i \in D, NEW j \in D, l[Place(i)] = l[Place(j)] PROVE i = j
        BY <1>11 DEF Once
    <2>1. Place(i) = Place(j)
        BY <1>8 DEF Once, D
    <2> QED
        BY <1>8, <2>1
<1>13. ToSet(t) = ToSet(l)
    <2>1. ASSUME NEW k \in D PROVE t[k] \in ToSet(l)
        BY <1>8 DEF ToSet, D
    <2>2. ASSUME NEW i \in D PROVE l[i] \in ToSet(t)
        <3>1. PICK k \in D : Place(k) = i
            BY <1>9
        <3>2. t[k] = l[i]
            BY <3>1
        <3> QED
            BY <1>11, <3>2 DEF ToSet
    <2> QED
        BY <1>11, <2>1, <2>2 DEF ToSet, D
<1>14. \A i, j \in DOMAIN t : i < j => Scores[u][t[i]] >= Scores[u][t[j]]
    BY <1>10, <1>11 DEF Score
<1> HIDE DEF t
<1> QED
    BY <1>3, <1>11, <1>12, <1>13, <1>14

LEMMA RankedBest ==
    ASSUME NEW u \in DOMAIN User, NEW l \in Seq(Video), Once(l), NEW n \in Int
    PROVE  Best(u, ToSet(l), n, rankVideos(u, l, n))
<1>1. PICK t \in Seq(Video) :
            /\ rankVideos(u, l, n) = Truncate(t, n) /\ Len(t) = Len(l)
            /\ Once(t) /\ ToSet(t) = ToSet(l)
            /\ \A i, j \in DOMAIN t : i < j => Scores[u][t[i]] >= Scores[u][t[j]]
    BY RankedOrder
<1>2. PICK N \in Nat : N = Len(t)
    OBVIOUS
<1>3. Cardinality(ToSet(l)) = N
    BY <1>1, <1>2, OnceCount
<1>4. PICK K \in Nat : K = (IF n \in 1 .. N THEN n ELSE N)
    OBVIOUS
<1>5. PICK vs : vs = rankVideos(u, l, n)
    OBVIOUS
<1>6. vs \in Seq(Video) /\ Len(vs) = K /\ \A k \in 1 .. K : vs[k] = t[k]
    <2>1. CASE n \in 1 .. N
        <3>1. vs = SubSeq(t, 1, n)
            BY <1>1, <1>2, <1>5, <2>1 DEF Truncate
        <3>2. SubSeq(t, 1, n) \in Seq(Video) /\ Len(SubSeq(t, 1, n)) = n /\ K = n
            BY <1>2, <1>4, <2>1
        <3>3. \A k \in 1 .. n : SubSeq(t, 1, n)[k] = t[k]
            BY <1>2, <2>1
        <3> QED
            BY <3>1, <3>2, <3>3
    <2>2. CASE n \notin 1 .. N
        <3>1. vs = t /\ K = N
            BY <1>1, <1>2, <1>4, <1>5, <2>2 DEF Truncate
        <3> QED
            BY <1>2, <3>1
    <2> QED
        BY <2>1, <2>2
<1>7. K <= N /\ DOMAIN vs = 1 .. K /\ DOMAIN t = 1 .. N
    BY <1>2, <1>4, <1>6
<1>8. Once(vs)
    BY <1>1, <1>6, <1>7 DEF Once
<1>9. Cardinality(ToSet(vs)) = Len(vs)
    BY <1>6, <1>8, OnceCount
<1>10. \A i, j \in DOMAIN vs : i < j => Scores[u][vs[i]] >= Scores[u][vs[j]]
    BY <1>1, <1>6, <1>7
<1>11. ASSUME NEW v \in ToSet(l) \ ToSet(vs), NEW i \in DOMAIN vs PROVE Scores[u][vs[i]] >= Scores[u][v]
    <2>1. PICK k \in 1 .. N : t[k] = v
        BY <1>1, <1>7 DEF ToSet
    <2>2. k \notin 1 .. K
        BY <1>6, <1>7, <1>11, <2>1 DEF ToSet
    <2>3. i < k /\ i \in DOMAIN t /\ k \in DOMAIN t
        BY <1>7, <2>2
    <2> QED
        BY <1>1, <1>6, <1>7, <2>1, <2>3
<1>12. vs \in Seq(ToSet(l))
    <2>1. ASSUME NEW k \in 1 .. K PROVE vs[k] \in ToSet(l)
        <3>1. k \in DOMAIN t /\ vs[k] = t[k]
            BY <1>6, <1>7
        <3>2. t[k] \in ToSet(t)
            BY <3>1 DEF ToSet
        <3> QED
            BY <1>1, <3>1, <3>2
    <2>2. vs \in [1 .. K -> ToSet(l)]
        BY <1>6, <1>7, <2>1
    <2> QED
        BY <2>2
<1> QED
    BY <1>3, <1>4, <1>5, <1>6, <1>8, <1>9, <1>10, <1>11, <1>12 DEF Best
-------------------------------------------------------------------------------------
(* What a request gathers. As long as no goroutine gave up, those that are through have *)
(* brought the ids of their batches, and the next stage starts from all of them.       *)

WantedBy(u) == UNION {ToSet(User[x].likedVideos) : x \in ToSet(User[u].subscribedTo)}
Through(w) == {i \in DOMAIN w : w[i] = "exit"}

Whole(f) ==
    ~f.gaveUp =>
        /\ \A i \in DOMAIN f.worker : f.worker[i] \in {"call", "again", "exit"}
        /\ ToSet(f.got) = UNION {ToSet(Slice(f.ids, f.size, i)) : i \in Through(f.worker)}
        /\ f.svc = "video" => Once(f.ids) /\ Once(f.got)

AfterUsers == {"dialVideo", "dialVideoAgain", "fanOut"}
Leads(q, f) ==
    /\ q.pc \in AfterUsers \cup {"users"} => f.ids = User[q.user].subscribedTo
    /\ q.pc \in AfterUsers \cup {"users", "videos"} => DOMAIN f.worker # {}
    /\ q.pc \in AfterUsers => Busy(f.worker) = {}
    /\ ~f.gaveUp =>
        /\ q.pc = "videos" => ToSet(f.ids) = WantedBy(q.user)
        /\ q.pc = "fall" /\ q.how.instead = "fresh" => WantedBy(q.user) = {}
        /\ q.resp.kind = "fresh" => Best(q.user, WantedBy(q.user), q.limit, q.resp.videos)

GatherInv == \A r \in Request : Whole(fan[r]) /\ Leads(req[r], fan[r])
Gathers(r) == Whole(fan'[r]) /\ Leads(req'[r], fan'[r])

LEMMA WholeStarts ==
    ASSUME NEW f, f.got = <<>>, \A i \in DOMAIN f.worker : f.worker[i] = "call",
           f.svc = "video" => Once(f.ids)
    PROVE  Whole(f)
<1>1. ToSet(f.got) = {} /\ Once(f.got)
    BY DEF ToSet, Once
<1>2. Through(f.worker) = {}
    BY DEF Through
<1> QED
    BY <1>1, <1>2 DEF Whole

\* A goroutine that succeeds brings its batch, which nobody else has brought.
LEMMA WholeExit ==
    ASSUME NEW lim, NEW f, Fan(lim, f), Whole(f),
           NEW i \in DOMAIN f.worker, f.worker[i] # "exit",
           NEW g, g.svc = f.svc, g.ids = f.ids, g.size = f.size, g.gaveUp = f.gaveUp,
           g.worker = [f.worker EXCEPT ![i] = "exit"],
           g.got = f.got \o Slice(f.ids, f.size, i)
    PROVE  Whole(g)
<1> SUFFICES ASSUME ~f.gaveUp PROVE Whole(g)
    BY DEF Whole
<1> DEFINE B(k) == ToSet(Slice(f.ids, f.size, k))
           T == Through(f.worker)
           b == Slice(f.ids, f.size, i)
           K == IdsOf(f.svc)
<1>1. /\ \A k \in DOMAIN f.worker : f.worker[k] \in {"call", "again", "exit"}
      /\ ToSet(f.got) = UNION {B(k) : k \in T}
      /\ f.svc = "video" => Once(f.ids) /\ Once(f.got)
    BY DEF Whole
<1>2. /\ f.ids \in Seq(K) /\ f.got \in Seq(K) /\ f.size \in Nat \ {0}
      /\ DOMAIN f.worker = 0 .. Len(f.ids) \div f.size
    BY DEF Fan
<1>3. Through(g.worker) = T \cup {i} /\ i \notin T /\ DOMAIN g.worker = DOMAIN f.worker
    BY DEF Through
<1>4. \A k \in DOMAIN g.worker : g.worker[k] \in {"call", "again", "exit"}
    BY <1>1
<1>5. b \in Seq(K) /\ i \in 0 .. Len(f.ids) \div f.size
    BY <1>2, SliceSound
<1>6. ToSet(g.got) = ToSet(f.got) \cup B(i)
    BY <1>2, <1>5, JoinedIs
<1>7. ToSet(g.got) = UNION {B(k) : k \in T \cup {i}}
    <2> HIDE DEF B, T
    <2> QED
        BY <1>1, <1>6
<1>8. ASSUME f.svc = "video" PROVE Once(g.got)
    <2>1. Once(f.ids) /\ Once(f.got)
        BY <1>1, <1>8
    <2>2. Once(b)
        BY <1>2, <1>5, <2>1, SliceMembers
    <2>3. ASSUME NEW k \in T PROVE B(k) \cap B(i) = {}
        <3>1. k # i /\ k \in 0 .. Len(f.ids) \div f.size
            BY <1>2, <1>3 DEF Through
        <3> QED
            BY <1>2, <1>5, <2>1, <3>1, SlicesApart
    <2>4. ToSet(f.got) \cap ToSet(b) = {}
        <3>1. ToSet(b) = B(i)
            OBVIOUS
        <3> HIDE DEF B, T, b
        <3> QED
            BY <1>1, <2>3, <3>1
    <2> HIDE DEF b
    <2>5. Once(f.got \o b)
        BY <1>2, <1>5, <2>1, <2>2, <2>4, JoinedOnce
    <2> QED
        BY <2>5 DEF b
<1> QED
    BY <1>1, <1>3, <1>4, <1>7, <1>8 DEF Whole

\* All are through: everything is there.
LEMMA WholeDone ==
    ASSUME NEW lim, NEW f, Fan(lim, f), Whole(f), ~f.gaveUp, Busy(f.worker) = {}, DOMAIN f.worker # {}
    PROVE  ToSet(f.got) = ToSet(f.ids) /\ (f.svc = "video" => Once(f.got))
<1>1. /\ ToSet(f.got) = UNION {ToSet(Slice(f.ids, f.size, i)) : i \in Through(f.worker)}
      /\ f.svc = "video" => Once(f.got)
    BY DEF Whole
<1>2. f.ids \in Seq(IdsOf(f.svc)) /\ f.size \in Nat \ {0} /\ DOMAIN f.worker = 0 .. Len(f.ids) \div f.size
    BY DEF Fan
<1>3. Through(f.worker) = 0 .. Len(f.ids) \div f.size
    BY <1>2 DEF Through, Busy
<1>4. ToSet(f.ids) = UNION {ToSet(Slice(f.ids, f.size, i)) : i \in 0 .. Len(f.ids) \div f.size}
    BY <1>2, SlicesAre
<1> QED
    BY <1>1, <1>3, <1>4

\* What the creators like, of all of them, each video once.
LEMMA LikedAre ==
    ASSUME ServiceInv, NEW r \in Request, fan[r].svc = "user"
    PROVE  /\ Once(LikedVideos(r))
           /\ ToSet(LikedVideos(r)) = UNION {ToSet(User[x].likedVideos) : x \in ToSet(fan[r].got)}
<1> DEFINE got == fan[r].got
           g == [k \in DOMAIN got |-> User[got[k]].likedVideos]
<1>1. got \in Seq(DOMAIN User)
    BY DEF ServiceInv, RequestInv, Fan, IdsOf
<1>2. LikedVideos(r) = deduplicateIds(FlattenSeq(g))
    BY DEF LikedVideos
<1> HIDE DEF got
<1>3. Len(got) \in Nat /\ DOMAIN got = 1 .. Len(got) /\ \A k \in 1 .. Len(got) : got[k] \in DOMAIN User
    BY <1>1
<1>4. \A k \in 1 .. Len(got) : User[got[k]].likedVideos \in Seq(Video)
    BY <1>3, BackendAssumption
<1>5. g \in Seq(Seq(Video)) /\ DOMAIN g = DOMAIN got
    <2>1. g \in [1 .. Len(got) -> Seq(Video)]
        BY <1>3, <1>4
    <2> QED
        BY <1>3, <2>1
<1>6. UNION {ToSet(g[k]) : k \in DOMAIN g} = UNION {ToSet(User[x].likedVideos) : x \in ToSet(got)}
    BY DEF ToSet
<1> HIDE DEF g
<1>7. FlattenSeq(g) \in Seq(Video) /\ ToSet(FlattenSeq(g)) = UNION {ToSet(g[k]) : k \in DOMAIN g}
    BY <1>5, Flattened, FlattenedIs
<1>8. Once(deduplicateIds(FlattenSeq(g))) /\ ToSet(deduplicateIds(FlattenSeq(g))) = ToSet(FlattenSeq(g))
    BY <1>7, DeduplicatedAll
<1> QED
    BY <1>2, <1>6, <1>7, <1>8 DEF got

\* The creators of whom all were asked.
LEMMA WantedAre ==
    ASSUME ServiceInv, GatherInv, NEW r \in Request, req[r].pc \in AfterUsers \cup {"users"},
           AllDone(r), ~fan[r].gaveUp
    PROVE  ToSet(LikedVideos(r)) = WantedBy(req[r].user)
<1>1. Fan(MaxBatchSize, fan[r]) /\ Course(req[r], fan[r]) /\ Whole(fan[r]) /\ Leads(req[r], fan[r])
    BY DEF ServiceInv, RequestInv, GatherInv
<1>2. fan[r].svc = "user" /\ fan[r].ids = User[req[r].user].subscribedTo /\ DOMAIN fan[r].worker # {}
    BY <1>1 DEF Course, Leads, AfterUsers
<1>3. Busy(fan[r].worker) = {}
    BY DEF AllDone, Busy
<1>4. ToSet(fan[r].got) = ToSet(fan[r].ids)
    BY <1>1, <1>2, <1>3, WholeDone
<1> QED
    BY <1>2, <1>4, LikedAre DEF WantedBy
\* A request that is elsewhere, and has no fresh response, has nothing to show.
LEMMA LeadsQuiet ==
    ASSUME NEW q, NEW f, q.resp.kind # "fresh", q.pc \notin AfterUsers \cup {"users", "videos"},
           q.pc = "fall" => q.how.instead # "fresh"
    PROVE  Leads(q, f)
BY DEF Leads

LEMMA FinishedFields ==
    ASSUME req \in [Request -> Requests], NEW r \in Request, NEW names, NEW x, Finish(r, names, x)
    PROVE  /\ req'[r].pc = "done" /\ req'[r].resp = x
           /\ req'[r].user = req[r].user /\ req'[r].limit = req[r].limit
BY DEF Finish, Requests

LEMMA FallenFields ==
    ASSUME req \in [Request -> Requests], NEW r \in Request, NEW instead, NEW ranked, NEW late,
           FallTo(r, instead, ranked, late)
    PROVE  /\ req'[r].pc = "fall" /\ req'[r].how.instead = instead
           /\ req'[r].user = req[r].user /\ req'[r].limit = req[r].limit /\ req'[r].resp = req[r].resp
<1>1. PICK h : h = [instead |-> instead, ranked |-> ranked, late |-> late]
    OBVIOUS
<1>2. h.instead = instead
    BY <1>1
<1>3. req' = [req EXCEPT ![r].pc = "fall", ![r].how = h]
    BY <1>1 DEF FallTo
<1> QED
    BY <1>2, <1>3 DEF Requests

LEMMA GoneFields ==
    ASSUME req \in [Request -> Requests], NEW r \in Request, NEW x, Goto(r, x)
    PROVE  /\ req'[r].pc = x /\ req'[r].user = req[r].user /\ req'[r].limit = req[r].limit
           /\ req'[r].how = req[r].how /\ req'[r].resp = req[r].resp
BY DEF Goto, Requests

\* What is known of a request that moves.
LEMMA GatheringNow ==
    ASSUME ServiceInv, GatherInv, NEW r \in Request
    PROVE  /\ req \in [Request -> Requests] /\ req[r] \in Requests /\ DOMAIN fan = Request
           /\ Fan(MaxBatchSize, fan[r]) /\ Course(req[r], fan[r])
           /\ Whole(fan[r]) /\ Leads(req[r], fan[r])
           /\ req[r].pc # "done" => req[r].resp.kind = "none"
BY DEF ServiceInv, RequestInv, GatherInv, Course

LEMMA FallsQuiet ==
    ASSUME ServiceInv, GatherInv, NEW r \in Request, req[r].pc # "done", UNCHANGED fan,
           NEW ranked, NEW late, FallTo(r, "error", ranked, late)
    PROVE  Gathers(r)
BY GatheringNow, FallenFields, LeadsQuiet DEF Gathers, AfterUsers

LEMMA GoesQuiet ==
    ASSUME ServiceInv, GatherInv, NEW r \in Request, req[r].pc # "done", UNCHANGED fan,
           NEW x \in {"dialUserAgain", "user", "userAgain"}, Goto(r, x)
    PROVE  Gathers(r)
BY GatheringNow, GoneFields, LeadsQuiet DEF Gathers, AfterUsers

LEMMA EndsQuiet ==
    ASSUME ServiceInv, GatherInv, NEW r \in Request, NEW names, NEW kind, NEW videos, kind # "fresh",
           Whole(fan'[r]), Finish(r, names, Response(kind, videos))
    PROVE  Gathers(r)
<1>1. PICK x : x = Response(kind, videos) /\ x.kind = kind
    BY DEF Response
<1>2. Finish(r, names, x)
    BY <1>1
<1>3. req'[r].pc = "done" /\ req'[r].resp = x
    BY <1>2, GatheringNow, FinishedFields
<1> QED
    BY <1>1, <1>3, LeadsQuiet DEF Gathers, AfterUsers

LEMMA GatherFirst ==
    ASSUME ServiceInv, GatherInv, NEW r \in Request,
           DialUser(r) \/ NoSuchUser(r) \/ SubscriberFails(r)
    PROVE  Gathers(r)
<1>1. CASE DialUser(r)
    <2>1. req[r].pc # "done" /\ UNCHANGED fan
        BY <1>1 DEF DialUser
    <2>2. \/ \E x \in {"dialUserAgain", "user"} : Goto(r, x)
          \/ \E late \in BOOLEAN : FallTo(r, "error", FALSE, late)
        BY <1>1 DEF DialUser, FallToError
    <2> QED
        BY <2>1, <2>2, GoesQuiet, FallsQuiet
<1>2. CASE NoSuchUser(r)
    <2>1. req[r].pc # "done" /\ UNCHANGED fan /\ FallTo(r, "error", FALSE, FALSE)
        BY <1>2 DEF NoSuchUser, FallToError
    <2> QED
        BY <2>1, FallsQuiet
<1>3. CASE SubscriberFails(r)
    <2>1. req[r].pc # "done" /\ UNCHANGED fan
        BY <1>3 DEF SubscriberFails
    <2>2. Goto(r, "userAgain") \/ FallTo(r, "error", FALSE, FALSE)
        BY <1>3 DEF SubscriberFails, FallToError
    <2> QED
        BY <2>1, <2>2, GoesQuiet, FallsQuiet
<1> QED
    BY <1>1, <1>2, <1>3

\* The fields of a fan-out that begins.
LEMMA StartedFields ==
    ASSUME ServiceInv, NEW r \in Request, NEW s \in Service, NEW l \in Seq(IdsOf(s)), FanOut(r, s, l)
    PROVE  /\ fan'[r].svc = s /\ fan'[r].ids = l /\ fan'[r].got = <<>>
           /\ fan'[r].gaveUp = fan[r].gaveUp /\ DOMAIN fan'[r].worker # {}
           /\ \A i \in DOMAIN fan'[r].worker : fan'[r].worker[i] = "call"
<1>1. PICK w : w = [i \in 0 .. Len(l) \div batch[s] |-> "call"]
    OBVIOUS
<1>2. PICK q \in Nat : q = Len(l) \div batch[s]
    BY SliceSound DEF ServiceInv, StaticInv
<1>3. DOMAIN w # {} /\ \A i \in DOMAIN w : w[i] = "call"
    <2>1. 0 \in 0 .. q
        OBVIOUS
    <2> QED
        BY <1>1, <1>2, <2>1
<1>4. PICK f : f = [svc |-> s, ids |-> l, size |-> batch[s], got |-> <<>>, worker |-> w,
                    errorChan |-> <<>>, returnChanCache |-> <<>>, closed |-> FALSE,
                    gaveUp |-> fan[r].gaveUp]
    OBVIOUS
<1>5. fan'[r] = f
    <2>1. fan' = [fan EXCEPT ![r] = f]
        BY <1>1, <1>4 DEF FanOut
    <2> QED
        BY <2>1 DEF ServiceInv, RequestInv
<1>6. f.svc = s /\ f.ids = l /\ f.got = <<>> /\ f.gaveUp = fan[r].gaveUp /\ f.worker = w
    BY <1>4
<1> QED
    BY <1>3, <1>5, <1>6

LEMMA GatherSubscriber ==
    ASSUME ServiceInv, GatherInv, NEW r \in Request, Subscriber(r)
    PROVE  Gathers(r)
<1>1. PICK l : l = User[req[r].user].subscribedTo
    OBVIOUS
<1>2. req[r].user \in DOMAIN User /\ req[r].pc # "done"
    BY FoundUser DEF Subscriber
<1>3. l \in Seq(IdsOf("user")) /\ "user" \in Service
    <2>1. l \in Seq(DOMAIN User \ {req[r].user})
        BY <1>1, <1>2, BackendAssumption
    <2>2. l \in Seq(DOMAIN User)
        BY <2>1
    <2> QED
        BY <2>2 DEF IdsOf, Service
<1>4. CASE l = <<>> /\ FallToEmpty(r) /\ UNCHANGED fan
    <2>1. req'[r].pc = "fall" /\ req'[r].user = req[r].user /\ req'[r].resp.kind = "none"
        BY <1>2, <1>4, GatheringNow, FallenFields DEF FallToEmpty
    <2>2. WantedBy(req'[r].user) = {}
        <3>1. ToSet(<<>>) = {}
            BY DEF ToSet
        <3> QED
            BY <1>1, <1>4, <2>1, <3>1 DEF WantedBy
    <2>3. Leads(req'[r], fan'[r])
        BY <2>1, <2>2 DEF Leads, AfterUsers
    <2> QED
        BY <1>4, <2>3, GatheringNow DEF Gathers
<1>5. CASE Goto(r, "users") /\ FanOut(r, "user", l)
    <2>1. req'[r].pc = "users" /\ req'[r].user = req[r].user /\ req'[r].resp.kind = "none"
        BY <1>2, <1>5, GatheringNow, GoneFields
    <2>2. /\ fan'[r].svc = "user" /\ fan'[r].ids = l /\ fan'[r].got = <<>> /\ DOMAIN fan'[r].worker # {}
          /\ \A i \in DOMAIN fan'[r].worker : fan'[r].worker[i] = "call"
        BY <1>3, <1>5, StartedFields
    <2>3. Whole(fan'[r])
        BY <2>2, WholeStarts
    <2>4. Leads(req'[r], fan'[r])
        BY <1>1, <2>1, <2>2 DEF Leads, AfterUsers
    <2> QED
        BY <2>3, <2>4 DEF Gathers
<1> QED
    BY <1>1, <1>4, <1>5 DEF Subscriber
LEMMA BestOfNone ==
    ASSUME NEW u, NEW n
    PROVE  Best(u, {}, n, <<>>)
<1>1. ToSet(<<>>) = {} /\ Cardinality({}) = 0 /\ Len(<<>>) = 0 /\ DOMAIN <<>> = {}
    BY FS_EmptySet DEF ToSet
<1>2. n \notin 1 .. 0
    OBVIOUS
<1>3. <<>> \in Seq({}) /\ Once(<<>>)
    BY <1>1 DEF Once
<1> QED
    BY <1>1, <1>2, <1>3 DEF Best

LEMMA GatherFallBack ==
    ASSUME ServiceInv, GatherInv, NEW r \in Request, FallBack(r)
    PROVE  Gathers(r)
<1>1. req[r].pc = "fall" /\ UNCHANGED fan
    BY DEF FallBack
<1>2. Whole(fan'[r]) /\ Leads(req[r], fan[r]) /\ req \in [Request -> Requests]
    BY <1>1, GatheringNow
<1>3. \/ \E names, videos : Finish(r, names, Response("stale", videos))
      \/ \E names : Finish(r, names, Response(req[r].how.instead, <<>>))
    BY DEF FallBack
<1>4. ASSUME NEW names, NEW videos, Finish(r, names, Response("stale", videos)) PROVE Gathers(r)
    BY <1>2, <1>4, EndsQuiet
<1>5. ASSUME NEW names, Finish(r, names, Response(req[r].how.instead, <<>>)) PROVE Gathers(r)
    <2>1. CASE req[r].how.instead # "fresh"
        BY <1>2, <1>5, <2>1, EndsQuiet
    <2>2. CASE req[r].how.instead = "fresh"
        <3>0. Response(req[r].how.instead, <<>>).videos = <<>>
            BY DEF Response
        <3>1. PICK x : x = Response(req[r].how.instead, <<>>) /\ x.videos = <<>>
            BY <3>0
        <3>2. Finish(r, names, x)
            BY <1>5, <3>1
        <3>3. /\ req'[r].pc = "done" /\ req'[r].resp = x
              /\ req'[r].user = req[r].user /\ req'[r].limit = req[r].limit
            BY <1>2, <3>2, FinishedFields
        <3>4. ~fan[r].gaveUp => WantedBy(req[r].user) = {}
            BY <1>1, <1>2, <2>2 DEF Leads
        <3>5. ~fan[r].gaveUp => Best(req[r].user, WantedBy(req[r].user), req[r].limit, <<>>)
            BY <3>4, BestOfNone
        <3>6. Leads(req'[r], fan'[r])
            BY <1>1, <3>1, <3>3, <3>5 DEF Leads, AfterUsers
        <3> QED
            BY <1>2, <3>6 DEF Gathers
    <2> QED
        BY <2>1, <2>2
<1> QED
    BY <1>3, <1>4, <1>5

LEMMA GatherStale ==
    ASSUME ServiceInv, GatherInv, NEW r \in Request, AnswerStale(r)
    PROVE  Gathers(r)
<1>1. Whole(fan'[r])
    BY GatheringNow DEF AnswerStale
<1>2. \E names, videos : Finish(r, names, Response("stale", videos))
    BY DEF AnswerStale
<1> QED
    BY <1>1, <1>2, EndsQuiet

\* Closing the channels changes nothing about what was gathered.
LEMMA ClosedFields ==
    ASSUME ServiceInv, NEW r \in Request, fan' = [fan EXCEPT ![r].closed = TRUE]
    PROVE  /\ fan'[r].svc = fan[r].svc /\ fan'[r].ids = fan[r].ids /\ fan'[r].size = fan[r].size
           /\ fan'[r].got = fan[r].got /\ fan'[r].worker = fan[r].worker /\ fan'[r].gaveUp = fan[r].gaveUp
           /\ Whole(fan[r]) => Whole(fan'[r])
<1>1. PICK f, g : f = fan[r] /\ g = fan'[r]
    OBVIOUS
<1>2. DOMAIN fan = Request /\ DOMAIN f = FanFields
    BY <1>1 DEF ServiceInv, RequestInv, Fan
<1>3. g = [f EXCEPT !.closed = TRUE]
    BY <1>1, <1>2
<1>4. /\ g.svc = f.svc /\ g.ids = f.ids /\ g.size = f.size /\ g.got = f.got
      /\ g.worker = f.worker /\ g.gaveUp = f.gaveUp
    BY <1>2, <1>3 DEF FanFields
<1>5. Whole(f) => Whole(g)
    BY <1>4 DEF Whole
<1> QED
    BY <1>1, <1>4, <1>5

LEMMA GatherUsers ==
    ASSUME ServiceInv, GatherInv, NEW r \in Request, UsersDone(r)
    PROVE  Gathers(r)
<1>1. req[r].pc = "users" /\ AllDone(r)
    BY DEF UsersDone
<1>2. /\ req \in [Request -> Requests] /\ Whole(fan[r]) /\ Leads(req[r], fan[r]) /\ req[r].resp.kind = "none"
    BY <1>1, GatheringNow
<1>3. CASE Finish(r, <<"TotalErrors">>, Response("error", <<>>)) /\ UNCHANGED fan
    BY <1>2, <1>3, EndsQuiet
<1>4. CASE fan' = [fan EXCEPT ![r].closed = TRUE] /\ LikedVideos(r) = <<>> /\ FallToEmpty(r)
    <2>1. req'[r].pc = "fall" /\ req'[r].user = req[r].user /\ req'[r].resp = req[r].resp
        BY <1>2, <1>4, FallenFields DEF FallToEmpty
    <2>2. Whole(fan'[r]) /\ fan'[r].gaveUp = fan[r].gaveUp
        BY <1>2, <1>4, ClosedFields
    <2>3. ~fan[r].gaveUp => WantedBy(req[r].user) = {}
        <3>1. ToSet(<<>>) = {}
            BY DEF ToSet
        <3> QED
            BY <1>1, <1>4, <3>1, WantedAre
    <2>4. Leads(req'[r], fan'[r])
        BY <1>2, <2>1, <2>2, <2>3 DEF Leads, AfterUsers
    <2> QED
        BY <2>2, <2>4 DEF Gathers
<1>5. ASSUME fan' = [fan EXCEPT ![r].closed = TRUE], NEW x \in {"fanOut", "dialVideo"}, Goto(r, x)
      PROVE  Gathers(r)
    <2>1. req'[r].pc = x /\ req'[r].user = req[r].user /\ req'[r].resp = req[r].resp
        BY <1>2, <1>5, GoneFields
    <2>2. /\ Whole(fan'[r]) /\ fan'[r].ids = fan[r].ids /\ fan'[r].worker = fan[r].worker
        BY <1>2, <1>5, ClosedFields
    <2>3. Busy(fan[r].worker) = {}
        BY <1>1 DEF AllDone, Busy
    <2>4. Leads(req'[r], fan'[r])
        BY <1>1, <1>2, <2>1, <2>2, <2>3 DEF Leads, AfterUsers
    <2> QED
        BY <2>2, <2>4 DEF Gathers
<1>6. PICK x \in {"fanOut", "dialVideo"} : x = IF opt.isMock THEN "fanOut" ELSE "dialVideo"
    OBVIOUS
<1> QED
    BY <1>3, <1>4, <1>5, <1>6 DEF UsersDone

LEMMA GatherDial ==
    ASSUME ServiceInv, GatherInv, NEW r \in Request, DialVideo(r)
    PROVE  Gathers(r)
<1>1. req[r].pc \in {"dialVideo", "dialVideoAgain"} /\ UNCHANGED fan
    BY DEF DialVideo
<1>2. /\ req \in [Request -> Requests] /\ Whole(fan'[r]) /\ Leads(req[r], fan[r])
      /\ req[r].resp.kind = "none"
    BY <1>1, GatheringNow
<1>3. ASSUME NEW x \in {"fanOut", "dialVideoAgain"}, Goto(r, x) PROVE Gathers(r)
    <2>1. req'[r].pc = x /\ req'[r].user = req[r].user /\ req'[r].resp = req[r].resp
        BY <1>2, <1>3, GoneFields
    <2>2. Leads(req'[r], fan'[r])
        BY <1>1, <1>2, <2>1 DEF Leads, AfterUsers
    <2> QED
        BY <1>2, <2>2 DEF Gathers
<1>4. CASE FallTo(r, "error", TRUE, FALSE)
    BY <1>1, <1>4, FallsQuiet
<1> QED
    BY <1>3, <1>4 DEF DialVideo

LEMMA GatherAsk ==
    ASSUME ServiceInv, GatherInv, NEW r \in Request, AskForVideos(r)
    PROVE  Gathers(r)
<1>1. req[r].pc = "fanOut" /\ Goto(r, "videos") /\ FanOut(r, "video", LikedVideos(r))
    BY DEF AskForVideos
<1>2. /\ req \in [Request -> Requests] /\ Whole(fan[r]) /\ Leads(req[r], fan[r])
      /\ req[r].resp.kind = "none" /\ fan[r].svc = "user"
    BY <1>1, GatheringNow DEF Course
<1>3. LikedVideos(r) \in Seq(IdsOf("video")) /\ "video" \in Service
    BY <1>2, LikedOnes DEF IdsOf, Service
<1>4. Once(LikedVideos(r))
    BY <1>2, LikedAre
<1>5. ~fan[r].gaveUp => ToSet(LikedVideos(r)) = WantedBy(req[r].user)
    <2>1. AllDone(r)
        BY <1>1, <1>2 DEF Leads, AfterUsers, AllDone, Busy
    <2> QED
        BY <1>1, <2>1, WantedAre DEF AfterUsers
<1>6. PICK l : l = LikedVideos(r)
    OBVIOUS
<1>7. /\ fan'[r].svc = "video" /\ fan'[r].ids = l /\ fan'[r].got = <<>>
      /\ fan'[r].gaveUp = fan[r].gaveUp /\ DOMAIN fan'[r].worker # {}
      /\ \A i \in DOMAIN fan'[r].worker : fan'[r].worker[i] = "call"
    BY <1>1, <1>3, <1>6, StartedFields
<1>8. Whole(fan'[r])
    BY <1>4, <1>6, <1>7, WholeStarts
<1>9. req'[r].pc = "videos" /\ req'[r].user = req[r].user /\ req'[r].resp = req[r].resp
    BY <1>1, <1>2, GoneFields
<1>10. Leads(req'[r], fan'[r])
    BY <1>2, <1>5, <1>6, <1>7, <1>9 DEF Leads, AfterUsers
<1> QED
    BY <1>8, <1>10 DEF Gathers

LEMMA GatherVideos ==
    ASSUME ServiceInv, GatherInv, NEW r \in Request, VideosDone(r)
    PROVE  Gathers(r)
<1>1. req[r].pc = "videos" /\ AllDone(r) /\ fan' = [fan EXCEPT ![r].closed = TRUE]
    BY DEF VideosDone
<1>2. /\ req \in [Request -> Requests] /\ req[r] \in Requests /\ Fan(MaxBatchSize, fan[r])
      /\ Course(req[r], fan[r]) /\ Whole(fan[r]) /\ Leads(req[r], fan[r])
    BY GatheringNow
<1>3. Whole(fan'[r]) /\ fan'[r].gaveUp = fan[r].gaveUp
    BY <1>1, <1>2, ClosedFields
<1>4. CASE Finish(r, <<"TotalErrors">>, Response("error", <<>>))
    BY <1>3, <1>4, EndsQuiet
<1>5. ASSUME NEW served, served = rankVideos(req[r].user, fan[r].got, req[r].limit),
             Finish(r, <<>>, Response("fresh", served))
      PROVE  Gathers(r)
    <2>0. Response("fresh", served).videos = served
        BY DEF Response
    <2>1. PICK x : x = Response("fresh", served) /\ x.videos = served
        BY <2>0
    <2>2. Finish(r, <<>>, x)
        BY <1>5, <2>1
    <2>3. /\ req'[r].pc = "done" /\ req'[r].resp = x
          /\ req'[r].user = req[r].user /\ req'[r].limit = req[r].limit
        BY <1>2, <2>2, FinishedFields
    <2>4. req[r].user \in DOMAIN User /\ fan[r].svc = "video" /\ req[r].limit \in Int
        BY <1>1, <1>2 DEF Course, Requests
    <2>5. fan[r].got \in Seq(Video)
        BY <1>2, <2>4 DEF Fan, IdsOf
    <2>6. ASSUME ~fan[r].gaveUp PROVE Best(req[r].user, WantedBy(req[r].user), req[r].limit, served)
        <3>1. Busy(fan[r].worker) = {} /\ DOMAIN fan[r].worker # {} /\ ToSet(fan[r].ids) = WantedBy(req[r].user)
            BY <1>1, <1>2, <2>6 DEF AllDone, Busy, Leads
        <3>2. ToSet(fan[r].got) = WantedBy(req[r].user) /\ Once(fan[r].got)
            BY <1>2, <2>4, <2>6, <3>1, WholeDone
        <3> QED
            BY <1>5, <2>4, <2>5, <3>2, RankedBest
    <2>7. Leads(req'[r], fan'[r])
        BY <1>3, <2>1, <2>3, <2>6 DEF Leads, AfterUsers
    <2> QED
        BY <1>3, <2>7 DEF Gathers
<1> QED
    BY <1>4, <1>5 DEF VideosDone
LEMMA GatherContext ==
    ASSUME ServiceInv, GatherInv, NEW r \in Request, ContextEnds(r)
    PROVE  Gathers(r)
<1>1. req \in [Request -> Requests] /\ Whole(fan[r]) /\ Leads(req[r], fan[r]) /\ UNCHANGED fan
    BY GatheringNow DEF ContextEnds
<1>2. PICK how : req' = [req EXCEPT ![r].ctx = how]
    BY DEF ContextEnds
<1>3. /\ req'[r].pc = req[r].pc /\ req'[r].user = req[r].user /\ req'[r].limit = req[r].limit
      /\ req'[r].how = req[r].how /\ req'[r].resp = req[r].resp
    BY <1>1, <1>2 DEF Requests
<1>4. Leads(req'[r], fan'[r])
    BY <1>1, <1>3 DEF Leads
<1> QED
    BY <1>1, <1>4 DEF Gathers

LEMMA GatherArrive ==
    ASSUME ServiceInv, GatherInv, NEW r \in Request, Arrives(r)
    PROVE  Gathers(r)
<1>1. PICK u \in AnyUser, n \in Int : Arrive(r, u, n)
    BY DEF Arrives
<1>2. req \in [Request -> Requests] /\ Whole(fan[r]) /\ UNCHANGED fan /\ req[r] = NewRequest
    BY <1>1, GatheringNow DEF Arrive, Course
<1>3. req[r].resp.kind = "none" /\ req[r].how.instead = "error"
    BY <1>2 DEF NewRequest, Response
<1>4. CASE req' = [req EXCEPT ![r].pc = "done", ![r].resp = Response("refused", <<>>)]
    <2>1. Response("refused", <<>>).kind = "refused"
        BY DEF Response
    <2>2. PICK x : x = Response("refused", <<>>) /\ x.kind = "refused"
        BY <2>1
    <2>3. req' = [req EXCEPT ![r].pc = "done", ![r].resp = x]
        BY <1>4, <2>2
    <2>4. req'[r].pc = "done" /\ req'[r].resp = x
        BY <1>2, <2>3 DEF Requests
    <2> QED
        BY <1>2, <2>2, <2>4, LeadsQuiet DEF Gathers, AfterUsers
<1>5. ASSUME NEW pc \in {"user", "dialUser"}, req' = [req EXCEPT ![r].pc = pc, ![r].user = u, ![r].limit = n]
      PROVE  Gathers(r)
    <2>1. req'[r].pc = pc /\ req'[r].resp = req[r].resp
        BY <1>2, <1>5 DEF Requests
    <2> QED
        BY <1>2, <1>3, <2>1, LeadsQuiet DEF Gathers, AfterUsers
<1>6. CASE req' = [req EXCEPT ![r].pc = "fall", ![r].user = u, ![r].limit = n, ![r].ctx = "expired"]
    <2>1. req'[r].pc = "fall" /\ req'[r].resp = req[r].resp /\ req'[r].how = req[r].how
        BY <1>2, <1>6 DEF Requests
    <2> QED
        BY <1>2, <1>3, <2>1, LeadsQuiet DEF Gathers, AfterUsers
<1>7. PICK pc \in {"user", "dialUser"} : pc = IF opt.isMock THEN "user" ELSE "dialUser"
    OBVIOUS
<1> QED
    BY <1>1, <1>4, <1>5, <1>6, <1>7 DEF Arrive

\* A goroutine that gives up spoils the request for good, and only then may it end
\* without its batch.
LEMMA LeadsWork ==
    ASSUME NEW q, NEW f, NEW g, Leads(q, f), g.ids = f.ids, DOMAIN g.worker = DOMAIN f.worker,
           Busy(f.worker) # {}, ~g.gaveUp => ~f.gaveUp
    PROVE  Leads(q, g)
BY DEF Leads

LEMMA GatherWorker ==
    ASSUME ServiceInv, GatherInv, NEW r \in Request, NEW i \in DOMAIN fan[r].worker, Worker(r, i)
    PROVE  Gathers(r)
<1>1. /\ UNCHANGED req /\ DOMAIN fan = Request /\ Fan(MaxBatchSize, fan[r])
      /\ Whole(fan[r]) /\ Leads(req[r], fan[r])
    BY GatheringNow DEF Worker
<1>2. PICK f, g, q : f = fan[r] /\ g = fan'[r] /\ q = req[r]
    OBVIOUS
<1>3. DOMAIN f = FanFields /\ Fan(MaxBatchSize, f) /\ Whole(f) /\ Leads(q, f) /\ i \in DOMAIN f.worker
    BY <1>1, <1>2 DEF Fan
<1>4. f.worker[i] # "exit"
    BY <1>2 DEF Worker, WorkerSucceeds, WorkerIsLate, TimesOut, WorkerFails, WorkerReports,
                WorkerFallsBack, WorkerAnswersLate
<1>5. Busy(f.worker) # {}
    BY <1>3, <1>4 DEF Busy
<1>6. ASSUME NEW errors, NEW caches, NEW got, Exit(r, i, errors, caches, got)
      PROVE  /\ g.svc = f.svc /\ g.ids = f.ids /\ g.size = f.size /\ g.gaveUp = f.gaveUp
             /\ g.worker = [f.worker EXCEPT ![i] = "exit"] /\ g.got = f.got \o got
    <2>1. fan' = [fan EXCEPT ![r].worker[i] = "exit", ![r].errorChan = @ \o errors,
                             ![r].returnChanCache = @ \o caches, ![r].got = @ \o got]
        BY <1>6 DEF Exit
    <2>2. PICK v, e, c, b : /\ v = [f.worker EXCEPT ![i] = "exit"] /\ e = f.errorChan \o errors
                            /\ c = f.returnChanCache \o caches /\ b = f.got \o got
        OBVIOUS
    <2>3. g = [f EXCEPT !.worker = v, !.errorChan = e, !.returnChanCache = c, !.got = b]
        BY <1>1, <1>2, <1>3, <2>1, <2>2 DEF FanFields
    <2> QED
        BY <1>3, <2>2, <2>3 DEF FanFields
<1>7. ASSUME NEW x,
             \/ fan' = [fan EXCEPT ![r].worker[i] = x, ![r].gaveUp = TRUE]
             \/ fan' = [fan EXCEPT ![r].gaveUp = TRUE, ![r].worker[i] = x]
      PROVE  Gathers(r)
    <2>1. PICK v : v = [f.worker EXCEPT ![i] = x]
        OBVIOUS
    <2>2. \/ g = [f EXCEPT !.worker = v, !.gaveUp = TRUE]
          \/ g = [f EXCEPT !.gaveUp = TRUE, !.worker = v]
        BY <1>1, <1>2, <1>3, <1>7, <2>1 DEF FanFields
    <2>3. g.gaveUp = TRUE /\ g.ids = f.ids /\ g.worker = v
        BY <1>3, <2>2 DEF FanFields
    <2>4. DOMAIN g.worker = DOMAIN f.worker
        BY <2>1, <2>3
    <2>5. Leads(q, g)
        BY <1>3, <1>5, <2>3, <2>4, LeadsWork
    <2>6. Whole(g)
        BY <2>3 DEF Whole
    <2> QED
        BY <1>1, <1>2, <2>5, <2>6 DEF Gathers
<1>8. CASE WorkerSucceeds(r, i)
    <2>1. Exit(r, i, <<"nil">>, <<>>, Slice(f.ids, f.size, i))
        BY <1>2, <1>8 DEF WorkerSucceeds, Ids
    <2>2. /\ g.svc = f.svc /\ g.ids = f.ids /\ g.size = f.size /\ g.gaveUp = f.gaveUp
          /\ g.worker = [f.worker EXCEPT ![i] = "exit"] /\ g.got = f.got \o Slice(f.ids, f.size, i)
        BY <1>6, <2>1
    <2>3. Whole(g)
        BY <1>3, <1>4, <2>2, WholeExit
    <2>4. DOMAIN g.worker = DOMAIN f.worker
        BY <2>2
    <2>5. Leads(q, g)
        BY <1>3, <1>5, <2>2, <2>4, LeadsWork
    <2> QED
        BY <1>1, <1>2, <2>3, <2>5 DEF Gathers
<1>9. CASE WorkerIsLate(r, i)
    BY <1>7, <1>9 DEF WorkerIsLate
<1>10. CASE WorkerFails(r, i)
    <2>1. CASE fan' = [fan EXCEPT ![r].worker[i] = "again"]
        <3>1. PICK v : v = [f.worker EXCEPT ![i] = "again"]
            OBVIOUS
        <3>2. g = [f EXCEPT !.worker = v]
            BY <1>1, <1>2, <1>3, <2>1, <3>1 DEF FanFields
        <3>3. /\ g.gaveUp = f.gaveUp /\ g.ids = f.ids /\ g.worker = v /\ g.size = f.size
              /\ g.got = f.got /\ g.svc = f.svc
            BY <1>3, <3>2 DEF FanFields
        <3>4. DOMAIN g.worker = DOMAIN f.worker /\ Through(g.worker) = Through(f.worker)
            BY <1>4, <3>1, <3>3 DEF Through
        <3>5. \A k \in DOMAIN g.worker : g.worker[k] = f.worker[k] \/ g.worker[k] = "again"
            BY <3>1, <3>3
        <3>6. Whole(g)
            BY <1>3, <3>3, <3>4, <3>5 DEF Whole
        <3>7. Leads(q, g)
            BY <1>3, <1>5, <3>3, <3>4, LeadsWork
        <3> QED
            BY <1>1, <1>2, <3>6, <3>7 DEF Gathers
    <2>2. ASSUME NEW x, fan' = [fan EXCEPT ![r].gaveUp = TRUE, ![r].worker[i] = x] PROVE Gathers(r)
        BY <1>7, <2>2
    <2>3. PICK x : x = IF opt.fallback THEN "fall" ELSE "report"
        OBVIOUS
    <2> QED
        BY <1>10, <2>1, <2>2, <2>3 DEF WorkerFails
<1>11. CASE WorkerReports(r, i) \/ WorkerFallsBack(r, i) \/ WorkerAnswersLate(r, i)
    <2>1. f.worker[i] \in {"report", "fall", "late"}
        BY <1>2, <1>11 DEF WorkerReports, WorkerFallsBack, WorkerAnswersLate
    <2>2. f.gaveUp
        BY <1>3, <2>1 DEF Whole
    <2>3. PICK errors, caches : Exit(r, i, errors, caches, <<>>)
        BY <1>11 DEF WorkerReports, WorkerFallsBack, WorkerAnswersLate
    <2>4. g.ids = f.ids /\ g.gaveUp = f.gaveUp /\ g.worker = [f.worker EXCEPT ![i] = "exit"]
        BY <1>6, <2>3
    <2>5. Whole(g) /\ DOMAIN g.worker = DOMAIN f.worker
        BY <2>2, <2>4 DEF Whole
    <2>6. Leads(q, g)
        BY <1>3, <1>5, <2>4, <2>5, LeadsWork
    <2> QED
        BY <1>1, <1>2, <2>5, <2>6 DEF Gathers
<1> QED
    BY <1>8, <1>9, <1>10, <1>11 DEF Worker

\* A new call starts from nothing.
LEMMA GatherNew == Whole(NewFan) /\ Leads(NewRequest, NewFan)
<1>1. PICK f : f = NewFan
    OBVIOUS
<1>2. PICK w : w = [i \in {} |-> "exit"]
    OBVIOUS
<1>3. f.svc = "user" /\ f.got = <<>> /\ f.worker = w /\ DOMAIN w = {}
    BY <1>1, <1>2 DEF NewFan
<1>4. Whole(f)
    BY <1>3, WholeStarts
<1>5. NewRequest.pc = "idle" /\ NewRequest.resp.kind = "none"
    BY DEF NewRequest, Response
<1> QED
    BY <1>1, <1>4, <1>5, LeadsQuiet DEF AfterUsers

LEMMA GatherStep ==
    ASSUME CallType, ServiceInv, GatherInv, [ClientsNext]_allVars
    PROVE  GatherInv'
<1>1. ASSUME NEW r \in Request, Only(r), Gathers(r) PROVE GatherInv'
    BY <1>1 DEF GatherInv, Only, Gathers
<1>2. ASSUME UNCHANGED <<req, fan>> PROVE GatherInv'
    BY <1>2 DEF GatherInv
<1>3. ASSUME NEW r \in Request, RequestMoves(r) PROVE GatherInv'
    <2>1. Only(r)
        BY <1>3, MoveStep DEF Sound
    <2>2. CASE Handler(r)
        <3>1. Gathers(r)
            BY <2>2, GatherFirst, GatherSubscriber, GatherFallBack, GatherStale, GatherUsers,
               GatherDial, GatherAsk, GatherVideos DEF Handler
        <3> QED
            BY <1>1, <2>1, <3>1
    <2>3. CASE ContextEnds(r)
        BY <1>1, <2>1, <2>3, GatherContext
    <2>4. ASSUME NEW i \in DOMAIN fan[r].worker, Worker(r, i) PROVE GatherInv'
        BY <1>1, <2>1, <2>4, GatherWorker
    <2> QED
        BY <1>3, <2>2, <2>3, <2>4 DEF RequestMoves
<1>4. ASSUME NEW r \in Request, Arrives(r) PROVE GatherInv'
    <2>1. Only(r)
        BY <1>4, ArriveStep DEF Arrives, Sound
    <2> QED
        BY <1>1, <1>4, <2>1, GatherArrive
<1>5. ASSUME NEW r \in Request, CallBegins(r) PROVE GatherInv'
    <2>1. Only(r) /\ req'[r] = NewRequest /\ fan'[r] = NewFan
        BY <1>5, CallBeginsStep
    <2>2. Gathers(r)
        BY <2>1, GatherNew DEF Gathers
    <2> QED
        BY <1>1, <2>1, <2>2
<1>6. CASE Background
    BY <1>2, <1>6, BackgroundFrame DEF RequestVars
<1>7. ASSUME NEW s \in Service, Probes(s) PROVE GatherInv'
    BY <1>2, <1>7, ProbesFrame
<1>8. CASE UNCHANGED vars
    BY <1>2, <1>8 DEF vars
<1> QED
    BY <1>3, <1>4, <1>5, <1>6, <1>7, <1>8, ServiceSteps

LEMMA GatherInit ==
    ASSUME ClientsInit
    PROVE  GatherInv
<1>1. req = [r \in Request |-> NewRequest] /\ fan = [r \in Request |-> NewFan]
    BY DEF ClientsInit, Init
<1> QED
    BY <1>1, GatherNew DEF GatherInv

\* A fresh response none of whose batches failed for good is the best of all that the user's
\* creators like, in descending order, without duplicates and cut at the limit: however the
\* users and the videos were cut into batches, and in whichever order these came back.
THEOREM OnlyTheBest == ClientsSpec => []BestAreServed
<1>1. ClientsInit => GatherInv
    BY GatherInit
<1>2. Inv /\ GatherInv /\ [ClientsNext]_allVars => GatherInv'
    BY GatherStep DEF Inv, ServiceInv, ClientInv
<1>3. GatherInv => BestAreServed
    <2> SUFFICES ASSUME GatherInv, NEW r \in Request, req[r].resp.kind = "fresh", ~fan[r].gaveUp
                 PROVE  /\ Best(req[r].user, WantedBy(req[r].user), req[r].limit, req[r].resp.videos)
                        /\ ToSet(req[r].resp.videos) \subseteq WantedBy(req[r].user)
        BY DEF BestAreServed, Best, Candidates, WantedBy
    <2>1. Best(req[r].user, WantedBy(req[r].user), req[r].limit, req[r].resp.videos)
        BY DEF GatherInv, Leads
    <2>2. req[r].resp.videos \in Seq(WantedBy(req[r].user))
        BY <2>1 DEF Best
    <2> QED
        BY <2>1, <2>2 DEF ToSet
<1> QED
    BY <1>1, <1>2, <1>3, InvHolds, PTL DEF ClientsSpec
-------------------------------------------------------------------------------------
(* The verdict of the front end. What a test expects is the one list of the best, if no *)
(* two candidates have the same score.                                                 *)

\* The length best of all, each the best of those that are left.
Top(u, all, length, vs) ==
    /\ vs \in [1 .. length -> all]
    /\ \A i \in 1 .. length :
        /\ vs[i] \in all \ {vs[j] : j \in 1 .. (i - 1)}
        /\ \A v \in all \ {vs[j] : j \in 1 .. (i - 1)} : Scores[u][vs[i]] >= Scores[u][v]
Distinct(u, all) == \A v, w \in all : Scores[u][v] = Scores[u][w] => v = w
Shorter(n, m) == IF m < n THEN m ELSE n

LEMMA TopIsOne ==
    ASSUME NEW u, NEW all, NEW n \in Nat, NEW vs, NEW ws, Top(u, all, n, vs), Top(u, all, n, ws),
           Distinct(u, all), \A v \in all : Scores[u][v] \in Nat
    PROVE  vs = ws
<1> DEFINE P == {k \in 1 .. n : \A j \in 1 .. k : vs[j] = ws[j]}
<1>1. ASSUME NEW k \in 1 .. n, \A j \in 1 .. (k - 1) : vs[j] = ws[j] PROVE vs[k] = ws[k]
    <2>1. PICK L : L = all \ {vs[j] : j \in 1 .. (k - 1)}
        OBVIOUS
    <2>2. L = all \ {ws[j] : j \in 1 .. (k - 1)}
        BY <1>1, <2>1
    <2>3. vs[k] \in L /\ \A v \in L : Scores[u][vs[k]] >= Scores[u][v]
        BY <2>1 DEF Top
    <2>4. ws[k] \in L /\ \A v \in L : Scores[u][ws[k]] >= Scores[u][v]
        BY <2>2 DEF Top
    <2>5. vs[k] \in all /\ ws[k] \in all
        BY <2>1, <2>3, <2>4
    <2>6. Scores[u][vs[k]] = Scores[u][ws[k]]
        <3>1. PICK a, b : a = Scores[u][vs[k]] /\ b = Scores[u][ws[k]]
            OBVIOUS
        <3>2. a \in Nat /\ b \in Nat /\ a >= b /\ b >= a
            BY <2>3, <2>4, <2>5, <3>1
        <3> QED
            BY <3>1, <3>2
    <2> QED
        BY <2>5, <2>6 DEF Distinct
<1>2. n = 0 \/ 1 \in P
    <2> SUFFICES ASSUME n # 0 PROVE 1 \in P
        OBVIOUS
    <2>1. 1 \in 1 .. n /\ 1 .. (1 - 1) = {} /\ 1 .. 1 = {1}
        OBVIOUS
    <2>2. vs[1] = ws[1]
        BY <1>1, <2>1
    <2> QED
        BY <2>1, <2>2
<1>3. ASSUME NEW k \in 1 .. n, k # 1, k - 1 \in P PROVE k \in P
    <2>1. \A j \in 1 .. (k - 1) : vs[j] = ws[j]
        BY <1>3
    <2>2. vs[k] = ws[k]
        BY <1>1, <2>1
    <2>3. \A j \in 1 .. k : j = k \/ j \in 1 .. (k - 1)
        OBVIOUS
    <2> QED
        BY <2>1, <2>2, <2>3
<1>4. 1 .. n \subseteq P
    <2> HIDE DEF P
    <2> QED
        BY <1>2, <1>3, UpTo
<1>5. \A k \in 1 .. n : vs[k] = ws[k]
    BY <1>4
<1> QED
    BY <1>5 DEF Top

LEMMA BestIsTop ==
    ASSUME NEW u, NEW all, IsFiniteSet(all), NEW n \in Nat \ {0}, NEW vs, Best(u, all, n, vs),
           \A v \in all : Scores[u][v] \in Nat
    PROVE  Top(u, all, Shorter(n, Cardinality(all)), vs)
<1>1. PICK m \in Nat : m = Cardinality(all)
    BY FS_CardinalityType
<1>2. PICK K \in Nat : K = Shorter(n, m)
    BY DEF Shorter
<1>3. vs \in Seq(all) /\ Len(vs) = K
    BY <1>1, <1>2 DEF Best, Shorter
<1>4. DOMAIN vs = 1 .. K /\ vs \in [1 .. K -> all]
    BY <1>3
<1>5. ASSUME NEW i \in 1 .. K
      PROVE  /\ vs[i] \in all \ {vs[j] : j \in 1 .. (i - 1)}
             /\ \A v \in all \ {vs[j] : j \in 1 .. (i - 1)} : Scores[u][vs[i]] >= Scores[u][v]
    <2>1. vs[i] \in all
        BY <1>4
    <2>2. \A j \in 1 .. (i - 1) : j \in DOMAIN vs /\ j # i
        BY <1>4
    <2>3. \A j \in 1 .. (i - 1) : vs[j] # vs[i]
        BY <1>4, <2>2 DEF Best, Once
    <2>4. ASSUME NEW v \in all, v \notin {vs[j] : j \in 1 .. (i - 1)} PROVE Scores[u][vs[i]] >= Scores[u][v]
        <3>1. CASE v \notin ToSet(vs)
            BY <1>4, <2>4, <3>1 DEF Best
        <3>2. CASE v \in ToSet(vs)
            <4>1. PICK k \in 1 .. K : v = vs[k]
                BY <1>4, <3>2 DEF ToSet
            <4>2. k = i \/ i < k
                BY <2>4, <4>1
            <4>3. CASE k = i
                BY <2>1, <4>1, <4>3, Scores[u][v] \in Nat
            <4>4. CASE i < k
                BY <1>4, <4>1, <4>4 DEF Best
            <4> QED
                BY <4>2, <4>3, <4>4
        <3> QED
            BY <3>1, <3>2
    <2> QED
        BY <2>1, <2>3, <2>4
<1> QED
    BY <1>1, <1>2, <1>4, <1>5 DEF Top

\* A list has finitely many members, and so has a finite set of lists.
LEMMA MembersFinite ==
    ASSUME NEW S, NEW l \in Seq(S)
    PROVE  IsFiniteSet(ToSet(l))
<1>1. IsFiniteSet(DOMAIN l)
    BY DomainOf
<1>2. l \in Surjection(DOMAIN l, ToSet(l))
    BY DEF ToSet, Surjection
<1> QED
    BY <1>1, <1>2, FS_Surjection

LEMMA WantedFinite ==
    ASSUME NEW u \in DOMAIN User
    PROVE  IsFiniteSet(WantedBy(u)) /\ WantedBy(u) \subseteq Video
<1>1. User[u].subscribedTo \in Seq(DOMAIN User \ {u})
    BY BackendAssumption
<1>2. PICK C : C = ToSet(User[u].subscribedTo)
    OBVIOUS
<1>3. IsFiniteSet(C) /\ C \subseteq DOMAIN User
    BY <1>1, <1>2, MembersFinite DEF ToSet
<1> DEFINE Likes(x) == ToSet(User[x].likedVideos)
           T == {Likes(x) : x \in C}
           f == [x \in C |-> Likes(x)]
<1>4. \A x \in C : User[x].likedVideos \in Seq(Video)
    BY <1>3, BackendAssumption
<1>5. \A x \in C : IsFiniteSet(Likes(x)) /\ Likes(x) \subseteq Video
    BY <1>4, MembersFinite DEF ToSet
<1>6. WantedBy(u) = UNION T
    BY <1>2 DEF WantedBy
<1> HIDE DEF Likes
<1>7. f \in Surjection(C, T)
    BY DEF Surjection
<1>8. IsFiniteSet(T)
    BY <1>3, <1>7, FS_Surjection
<1>9. \A t \in T : IsFiniteSet(t) /\ t \subseteq Video
    BY <1>5
<1> HIDE DEF T
<1>10. IsFiniteSet(UNION T)
    BY <1>8, <1>9, FS_UNION
<1> QED
    BY <1>6, <1>9, <1>10

\* The best of the candidates are what a test expects.
LEMMA ExpectedIsBest ==
    ASSUME NEW u \in DOMAIN User, Distinct(u, WantedBy(u)), NEW vs, Best(u, WantedBy(u), TestLimit, vs)
    PROVE  vs = Expected(u)
<1>1. PICK all : all = WantedBy(u)
    OBVIOUS
<1>2. IsFiniteSet(all) /\ \A v \in all : Scores[u][v] \in Nat
    BY <1>1, WantedFinite, ScoreAssumption
<1>3. PICK n : n = Shorter(TestLimit, Cardinality(all))
    OBVIOUS
<1>4. n \in Nat
    BY <1>2, <1>3, FS_CardinalityType, ClientsAssumption DEF Shorter
<1>5. Top(u, all, n, vs)
    BY <1>1, <1>2, <1>3, BestIsTop, ClientsAssumption
<1> DEFINE E == CHOOSE ws \in [1 .. n -> all] : Top(u, all, n, ws)
<1>6. Expected(u) = E
    <2> DEFINE C(ws) == \A i \in DOMAIN ws :
                            /\ ws[i] \in all \ {ws[j] : j \in 1 .. (i - 1)}
                            /\ \A v \in all \ {ws[j] : j \in 1 .. (i - 1)} : Scores[u][ws[i]] >= Scores[u][v]
    <2>1. Expected(u) = CHOOSE ws \in [1 .. n -> all] : C(ws)
        BY <1>1, <1>3 DEF Expected, WantedBy, Shorter
    <2>2. ASSUME NEW ws \in [1 .. n -> all] PROVE C(ws) <=> Top(u, all, n, ws)
        BY DEF Top
    <2> HIDE DEF C
    <2> QED
        BY ONLY <2>1, <2>2, Zenon DEF E
<1>7. Top(u, all, n, E)
    <2>1. vs \in [1 .. n -> all]
        BY <1>5 DEF Top
    <2> QED
        BY <1>5, <2>1
<1> HIDE DEF E
<1> QED
    BY <1>1, <1>2, <1>4, <1>5, <1>6, <1>7, TopIsOne
\* What a request was asked for does not change, and a batch that was lost stays lost.
Keeps(r) ==
    /\ req'[r].user = req[r].user /\ req'[r].limit = req[r].limit
    /\ fan[r].gaveUp => fan'[r].gaveUp

LEMMA HandlerKeeps ==
    ASSUME ServiceInv, NEW r \in Request, Handler(r)
    PROVE  Keeps(r)
<1>1. req \in [Request -> Requests] /\ DOMAIN fan = Request /\ DOMAIN fan[r] = FanFields
    BY DEF ServiceInv, RequestInv, Fan
<1>2. \/ \E x : Goto(r, x)
      \/ \E instead, ranked, late : FallTo(r, instead, ranked, late)
      \/ \E names, x : Finish(r, names, x)
    BY DEF Handler, DialUser, NoSuchUser, Subscriber, SubscriberFails, FallBack, AnswerStale, UsersDone,
           DialVideo, AskForVideos, VideosDone, FallToError, FallToEmpty
<1>3. req'[r].user = req[r].user /\ req'[r].limit = req[r].limit
    BY <1>1, <1>2, GoneFields, FallenFields, FinishedFields
<1>4. \/ UNCHANGED fan \/ fan' = [fan EXCEPT ![r].closed = TRUE]
      \/ \E s, l : FanOut(r, s, l)
    BY DEF Handler, DialUser, NoSuchUser, Subscriber, SubscriberFails, FallBack, AnswerStale, UsersDone,
           DialVideo, AskForVideos, VideosDone
<1>5. CASE fan' = [fan EXCEPT ![r].closed = TRUE]
    BY <1>3, <1>5, ClosedFields DEF Keeps
<1>6. ASSUME NEW s, NEW l, FanOut(r, s, l) PROVE fan'[r].gaveUp = fan[r].gaveUp
    BY <1>1, <1>6 DEF FanOut
<1> QED
    BY <1>3, <1>4, <1>5, <1>6 DEF Keeps

LEMMA WorkerKeeps ==
    ASSUME ServiceInv, NEW r \in Request, NEW i \in DOMAIN fan[r].worker, Worker(r, i)
    PROVE  Keeps(r)
<1>1. UNCHANGED req /\ DOMAIN fan = Request /\ DOMAIN fan[r] = FanFields
    BY DEF Worker, ServiceInv, RequestInv, Fan
<1>2. \/ \E errors, caches, got : Exit(r, i, errors, caches, got)
      \/ \E x : fan' = [fan EXCEPT ![r].worker[i] = x]
      \/ \E x : \/ fan' = [fan EXCEPT ![r].worker[i] = x, ![r].gaveUp = TRUE]
                \/ fan' = [fan EXCEPT ![r].gaveUp = TRUE, ![r].worker[i] = x]
    BY DEF Worker, WorkerSucceeds, WorkerIsLate, WorkerFails, WorkerReports, WorkerFallsBack,
           WorkerAnswersLate
<1>3. ASSUME NEW errors, NEW caches, NEW got, Exit(r, i, errors, caches, got)
      PROVE  fan'[r].gaveUp = fan[r].gaveUp
    BY <1>1, <1>3 DEF Exit, FanFields
<1>4. ASSUME NEW x, fan' = [fan EXCEPT ![r].worker[i] = x] PROVE fan'[r].gaveUp = fan[r].gaveUp
    BY <1>1, <1>4 DEF FanFields
<1>5. ASSUME NEW x,
             \/ fan' = [fan EXCEPT ![r].worker[i] = x, ![r].gaveUp = TRUE]
             \/ fan' = [fan EXCEPT ![r].gaveUp = TRUE, ![r].worker[i] = x]
      PROVE  fan'[r].gaveUp = TRUE
    BY <1>1, <1>5 DEF FanFields
<1> QED
    BY <1>1, <1>2, <1>3, <1>4, <1>5 DEF Keeps

LEMMA MovesKeep ==
    ASSUME ServiceInv, NEW r \in Request, RequestMoves(r)
    PROVE  Keeps(r)
<1>1. CASE ContextEnds(r)
    <2>1. req \in [Request -> Requests] /\ UNCHANGED fan
        BY <1>1 DEF ContextEnds, ServiceInv, RequestInv
    <2>2. PICK how : req' = [req EXCEPT ![r].ctx = how]
        BY <1>1 DEF ContextEnds
    <2> QED
        BY <2>1, <2>2 DEF Keeps, Requests
<1> QED
    BY <1>1, HandlerKeeps, WorkerKeeps DEF RequestMoves

\* The front end's call is the one that its test makes, and the service works on that.
Asked(r) ==
    call[r].client # "none" =>
        /\ call[r].user = UserOf(front) /\ call[r].limit = TestLimit
        /\ call[r].server # "none" => req[r].user = call[r].user /\ req[r].limit = call[r].limit
\* A request that has ended has a response; a call that succeeded has got no error.
Answered(r) ==
    /\ req[r].pc = "done" => req[r].resp.kind # "none"
    /\ call[r].client = "success" => ~IsError(r)
\* The answer came from the cache, or lacks a batch.
Spoilt(r) == req[r].pc = "done" /\ (req[r].resp.kind = "stale" \/ fan[r].gaveUp)

FrontendInv ==
    /\ \A r \in Request : Asked(r) /\ Answered(r)
    /\ front = "wrong" => \E r \in Request : Spoilt(r)
VerdictInv ==
    /\ front # "fetch" => Program("frontend")
    /\ Program("frontend") => FrontendInv

\* The service by itself.
LEMMA FrontServed ==
    ASSUME ServiceInv, ClientInv, Program("frontend"), [ClientsNext]_allVars, UNCHANGED clientVars
    PROVE  UNCHANGED <<req, fan>> \/ \E r \in Request : RequestMoves(r)
<1>1. UNCHANGED call /\ CallType /\ ProgramType
    BY DEF clientVars, ClientInv
<1>2. ASSUME UNCHANGED vars PROVE UNCHANGED <<req, fan>>
    BY <1>2 DEF vars
<1>3. ASSUME NEW r \in Request, Returned(r) PROVE UNCHANGED <<req, fan>>
    BY <1>1, <1>2, <1>3, ReturnedFields
<1>4. ASSUME NEW r \in Request, VideoRecService_GetTopVideos_Handler(r) PROVE FALSE
    <2>1. call[r].server = "none" /\ call'[r].server = "handling"
        BY <1>1, <1>4, ArrivalFields
    <2> QED
        BY <1>1, <2>1
<1>5. ASSUME NEW r \in Request, Begins(r) PROVE FALSE
    <2>1. CallBegins(r) /\ call'[r].client = "waiting"
        BY <1>1, <1>5, BeginsFields
    <2>2. call[r].client = "none"
        BY <2>1, CallBeginsStep
    <2> QED
        BY <1>1, <2>1, <2>2
<1>6. ASSUME Reads PROVE UNCHANGED <<req, fan>>
    BY <1>2, <1>6 DEF Reads, reportStats, gatherStats, GetStats, fetchUser
<1>7. ASSUME Background PROVE UNCHANGED <<req, fan>>
    BY <1>7, BackgroundFrame DEF RequestVars
<1>8. ASSUME NEW s \in Service, Probes(s) PROVE UNCHANGED <<req, fan>>
    BY <1>8, ProbesFrame
<1>9. CASE Serve
    <2>1. \/ \E r \in Request : RequestMoves(r)
          \/ Background
          \/ \E s \in Service : Probes(s)
        BY <1>9 DEF Serve, RequestMoves, Background, Probes
    <2> QED
        BY <1>7, <1>8, <2>1
<1>10. ~Program("tests")
    BY DEF Program
<1> QED
    BY <1>2, <1>3, <1>4, <1>5, <1>6, <1>9, <1>10
    DEF ClientsNext, ServiceNext, Client, Returned, Begins, Reads, allVars
\* A step of the service: an answer stays, and what spoilt it, too.
LEMMA VerdictServed ==
    ASSUME ServiceInv, ClientInv, FrontendInv, UNCHANGED clientVars, NEW r \in Request, RequestMoves(r)
    PROVE  FrontendInv'
<1>1. UNCHANGED <<call, front>>
    BY DEF clientVars
<1>2. Sound(r) /\ Keeps(r)
    BY MoveStep, MovesKeep
<1>3. PICK d : Moves(r, d)
    BY <1>2 DEF Sound
<1>4. \A x \in Request \ {r} : req'[x] = req[x] /\ fan'[x] = fan[x]
    BY <1>2 DEF Sound, Only
<1>5. req[r].pc = "done" => req'[r] = req[r]
    BY <1>3, MovesResp
<1>6. req'[r].pc = "done" => req[r].pc = "done" \/ req'[r].resp.kind # "none"
    BY <1>3 DEF Moves, Enters, Refuses, Goes, Ends, Works, Under
<1>7. call[r].client = "success" => req[r].pc = "done"
    BY DEF ClientInv, CallCourse
<1>8. Asked(r)' /\ Answered(r)'
    <2>1. Asked(r) /\ Answered(r)
        BY DEF FrontendInv
    <2>2. Asked(r)'
        BY <1>1, <1>2, <2>1 DEF Asked, Keeps, UserOf
    <2>3. Answered(r)'
        BY <1>1, <1>5, <1>6, <1>7, <2>1 DEF Answered, IsError
    <2> QED
        BY <2>2, <2>3
<1>9. ASSUME NEW x \in Request \ {r} PROVE Asked(x)' /\ Answered(x)'
    <2>1. Asked(x) /\ Answered(x) /\ req'[x] = req[x] /\ call'[x] = call[x]
        BY <1>1, <1>4 DEF FrontendInv
    <2>2. Asked(x)'
        BY <1>1, <2>1 DEF Asked, UserOf
    <2>3. Answered(x)'
        BY <2>1 DEF Answered, IsError
    <2> QED
        BY <2>2, <2>3
<1>10. ASSUME NEW x \in Request, Spoilt(x) PROVE Spoilt(x)'
    BY <1>2, <1>4, <1>5, <1>10 DEF Spoilt, Keeps
<1> QED
    BY <1>1, <1>8, <1>9, <1>10 DEF FrontendInv

\* What a client does with its answer leaves the service alone.
LEMMA VerdictRests ==
    ASSUME FrontendInv, UNCHANGED <<req, fan, call, front>>
    PROVE  FrontendInv'
<1>1. \A r \in Request : Asked(r) => Asked(r)'
    BY DEF Asked, UserOf
<1>2. \A r \in Request : Answered(r) => Answered(r)'
    BY DEF Answered, IsError
<1>3. \A r \in Request : Spoilt(r) => Spoilt(r)'
    BY DEF Spoilt
<1> QED
    BY <1>1, <1>2, <1>3 DEF FrontendInv

LEMMA VerdictReturned ==
    ASSUME ServiceInv, ClientInv, FrontendInv, NEW r \in Request, Returned(r), ~Judge(r)
    PROVE  FrontendInv'
<1>1. CallType /\ UNCHANGED <<req, fan, front>>
    BY ReturnedFields DEF ClientInv, vars, Returned, MakeMiddleware, CallReturns, CountStale,
                          CountResponse, CountSuccess
<1>2. /\ \A y \in Request \ {r} : call'[y] = call[y]
      /\ call'[r].limit = call[r].limit
      /\ call'[r].server # call[r].server => call[r].server = "handling"
      /\ call'[r].client # "none" => call[r].client # "none"
    BY <1>1, ReturnedFields
<1>3. call'[r].user = call[r].user
    BY <1>1 DEF CallType, Returned, MakeMiddleware, CallReturns, CountStale, CountResponse, CountSuccess
<1>4. call'[r].client = "success" => call[r].client = "success" \/ ~IsError(r)
    <2>1. CASE MakeMiddleware(r)
        BY <1>1, <2>1 DEF MakeMiddleware, CallType
    <2>2. CASE ~MakeMiddleware(r)
        BY <1>1, <2>2, AnswerFields DEF Returned
    <2> QED
        BY <2>1, <2>2
<1>5. Asked(r)' /\ Answered(r)'
    <2>1. Asked(r) /\ Answered(r)
        BY DEF FrontendInv
    <2>2. Asked(r)'
        BY <1>1, <1>2, <1>3, <2>1 DEF Asked, UserOf
    <2>3. Answered(r)'
        BY <1>1, <1>4, <2>1 DEF Answered, IsError
    <2> QED
        BY <2>2, <2>3
<1>6. ASSUME NEW x \in Request \ {r} PROVE Asked(x)' /\ Answered(x)'
    <2>1. Asked(x) /\ Answered(x) /\ call'[x] = call[x]
        BY <1>2 DEF FrontendInv
    <2>2. Asked(x)'
        BY <1>1, <2>1 DEF Asked, UserOf
    <2>3. Answered(x)'
        BY <1>1, <2>1 DEF Answered, IsError
    <2> QED
        BY <2>2, <2>3
<1>7. \A x \in Request : Spoilt(x) => Spoilt(x)'
    BY <1>1 DEF Spoilt
<1> QED
    BY <1>1, <1>5, <1>6, <1>7 DEF FrontendInv

\* No two candidates of a test have the same score.
NoTies == \A k \in DOMAIN TestUsers : Distinct(TestUsers[k], WantedBy(TestUsers[k]))

\* A comparison that fails was one with an answer that is stale or not complete.
LEMMA VerdictJudged ==
    ASSUME NoTies, ServiceInv, ClientInv, GatherInv, FrontendInv, Program("frontend"), NEW r \in Request,
           Judge(r)
    PROVE  FrontendInv'
<1>1. /\ CallType /\ FrontInv /\ UNCHANGED <<req, fan>> /\ call[r].client \in {"success", "failure"}
      /\ call' = [call EXCEPT ![r].client = "none"]
    BY DEF ClientInv, Judge, vars
<1>2. front \in {"ask", "test1", "test2"} /\ \A x \in Request \ {r} : call[x].client = "none"
    BY <1>1 DEF FrontInv
<1>3. \A x \in Request : call'[x].client = "none"
    BY <1>1, <1>2 DEF CallType
<1>4. ASSUME NEW x \in Request PROVE Asked(x)' /\ Answered(x)'
    <2>1. Asked(x)'
        BY <1>3 DEF Asked
    <2>2. Answered(x)'
        BY <1>1, <1>3 DEF FrontendInv, Answered
    <2> QED
        BY <2>1, <2>2
<1>5. ASSUME front' = "wrong" PROVE Spoilt(r)'
    <2>1. call[r].client = "success" /\ front # "ask" /\ req[r].resp.videos # Expected(UserOf(front))
        BY <1>1, <1>2, <1>5 DEF Judge, NextStep
    <2>2. Asked(r) /\ Answered(r) /\ CallCourse(r)
        BY DEF FrontendInv, ClientInv
    <2>3. req[r].pc = "done" /\ req[r].user = UserOf(front) /\ req[r].limit = TestLimit
        BY <2>1, <2>2 DEF Asked, CallCourse
    <2>4. req[r].resp.kind \in {"fresh", "stale"}
        <3>1. req[r].resp.kind \in Kinds
            BY DEF ServiceInv, RequestInv, Requests, Responses
        <3> QED
            BY <2>1, <2>2, <2>3, <3>1 DEF Answered, IsError, Kinds
    <2>5. PICK k \in DOMAIN TestUsers : UserOf(front) = TestUsers[k]
        <3>1. 1 \in DOMAIN TestUsers /\ 2 \in DOMAIN TestUsers
            BY ClientsAssumption
        <3> QED
            BY <1>2, <2>1, <3>1 DEF UserOf
    <2>6. TestUsers[k] \in DOMAIN User
        <3>1. PICK T, D : T = TestUsers /\ D = DOMAIN User
            OBVIOUS
        <3>2. T \in Seq(D) /\ k \in DOMAIN T
            BY <3>1, ClientsAssumption
        <3>3. T[k] \in D
            BY ONLY <3>2
        <3> QED
            BY <3>1, <3>3
    <2>7. ASSUME req[r].resp.kind = "fresh", ~fan[r].gaveUp PROVE FALSE
        <3>1. Best(req[r].user, WantedBy(req[r].user), req[r].limit, req[r].resp.videos)
            BY <2>7 DEF GatherInv, Leads
        <3>2. PICK u, vs : u = TestUsers[k] /\ vs = req[r].resp.videos
            OBVIOUS
        <3>3. u \in DOMAIN User /\ Best(u, WantedBy(u), TestLimit, vs) /\ Distinct(u, WantedBy(u))
            BY <2>3, <2>5, <2>6, <3>1, <3>2 DEF NoTies
        <3>4. vs = Expected(u)
            BY <3>3, ExpectedIsBest
        <3> QED
            BY <2>1, <2>5, <3>2, <3>4
    <2> QED
        BY <1>1, <2>3, <2>4, <2>7 DEF Spoilt
<1> QED
    BY <1>4, <1>5 DEF FrontendInv
\* A call arrives at the service with the user and the limit of the test.
LEMMA VerdictArrives ==
    ASSUME ServiceInv, ClientInv, FrontendInv, Program("frontend"), NEW r \in Request,
           VideoRecService_GetTopVideos_Handler(r)
    PROVE  FrontendInv'
<1>1. CallType /\ FrontInv
    BY DEF ClientInv
<1>2. /\ \A y \in Request \ {r} : call'[y] = call[y]
      /\ call[r].client \in {"waiting", "failure"} /\ call'[r].client = call[r].client
      /\ call'[r].limit = call[r].limit
      /\ UNCHANGED front /\ Arrive(r, call[r].user, call[r].limit) /\ call[r].limit \in Int
    BY <1>1, ArrivalFields
<1>3. call'[r].user = call[r].user
    BY <1>1 DEF CallType, VideoRecService_GetTopVideos_Handler
<1>4. call[r].user = UserOf(front) /\ call[r].limit = TestLimit
    BY <1>2 DEF FrontendInv, Asked
<1>5. front # "wrong"
    BY <1>1, <1>2 DEF FrontInv
<1>6. Sound(r)
    BY ArrivalStep
<1>7. \A x \in Request \ {r} : req'[x] = req[x] /\ fan'[x] = fan[x]
    BY <1>6 DEF Sound, Only
<1>8. req'[r].user = call[r].user /\ req'[r].limit = call[r].limit /\ req'[r].pc # "done"
    <2>1. req \in [Request -> Requests]
        BY DEF ServiceInv, RequestInv
    <2>2. ~(call[r].limit < 0)
        BY <1>4, ClientsAssumption
    <2>3. PICK u, n : u = call[r].user /\ n = call[r].limit
        OBVIOUS
    <2>4. \/ req' = [req EXCEPT ![r].pc = IF opt.isMock THEN "user" ELSE "dialUser", ![r].user = u, ![r].limit = n]
          \/ req' = [req EXCEPT ![r].pc = "fall", ![r].user = u, ![r].limit = n, ![r].ctx = "expired"]
        BY <1>2, <2>2, <2>3 DEF Arrive
    <2>5. PICK pc : pc = (IF opt.isMock THEN "user" ELSE "dialUser") /\ pc # "done"
        OBVIOUS
    <2>6. req'[r].user = u /\ req'[r].limit = n /\ req'[r].pc \in {pc, "fall"}
        BY <2>1, <2>4, <2>5 DEF Requests
    <2> QED
        BY <2>3, <2>5, <2>6
<1>9. Asked(r)' /\ Answered(r)'
    <2>1. Asked(r)'
        BY <1>2, <1>3, <1>4, <1>8 DEF Asked, UserOf
    <2>2. Answered(r)'
        BY <1>2, <1>8 DEF Answered
    <2> QED
        BY <2>1, <2>2
<1>10. ASSUME NEW x \in Request \ {r} PROVE Asked(x)' /\ Answered(x)'
    <2>1. Asked(x) /\ Answered(x) /\ req'[x] = req[x] /\ call'[x] = call[x]
        BY <1>2, <1>7 DEF FrontendInv
    <2>2. Asked(x)'
        BY <1>2, <2>1 DEF Asked, UserOf
    <2>3. Answered(x)'
        BY <2>1 DEF Answered, IsError
    <2> QED
        BY <2>2, <2>3
<1> QED
    BY <1>2, <1>5, <1>9, <1>10 DEF FrontendInv

\* A test sends its call.
LEMMA VerdictBegins ==
    ASSUME ServiceInv, ClientInv, FrontendInv, Program("frontend"), NEW r \in Request, Begins(r)
    PROVE  FrontendInv'
<1>1. CallType /\ ProgramType
    BY DEF ClientInv
<1>2. sendSingleTestRequest(r)
    BY DEF Begins, sendRequest, Program
<1>3. CallBegins(r) /\ (\A y \in Request \ {r} : call'[y] = call[y]) /\ UNCHANGED front
    BY <1>1, BeginsFields
<1>4. Only(r) /\ req'[r] = NewRequest
    BY <1>3, CallBeginsStep
<1>5. front # "wrong"
    BY <1>2 DEF sendSingleTestRequest, NextStep
<1>6. /\ call'[r].user = UserOf(front) /\ call'[r].limit = TestLimit
      /\ call'[r].server = "none" /\ call'[r].client = "waiting"
    <2>1. videoRecServiceClient(r, UserOf(front), TestLimit)
        BY <1>2 DEF sendSingleTestRequest
    <2>2. PICK u, n : u = UserOf(front) /\ n = TestLimit
        OBVIOUS
    <2>3. call' = [call EXCEPT ![r] = [client |-> "waiting", server |-> "none", user |-> u, limit |-> n]]
        BY <2>1, <2>2 DEF videoRecServiceClient
    <2> QED
        BY <1>1, <2>2, <2>3 DEF CallType
<1>7. Asked(r)' /\ Answered(r)'
    <2>1. req'[r].pc = "idle"
        BY <1>4 DEF NewRequest
    <2>2. Asked(r)'
        BY <1>3, <1>6 DEF Asked, UserOf
    <2>3. Answered(r)'
        BY <1>6, <2>1 DEF Answered
    <2> QED
        BY <2>2, <2>3
<1>8. ASSUME NEW x \in Request \ {r} PROVE Asked(x)' /\ Answered(x)'
    <2>1. Asked(x) /\ Answered(x) /\ req'[x] = req[x] /\ call'[x] = call[x]
        BY <1>3, <1>4 DEF FrontendInv, Only
    <2>2. Asked(x)'
        BY <1>3, <2>1 DEF Asked, UserOf
    <2>3. Answered(x)'
        BY <2>1 DEF Answered, IsError
    <2> QED
        BY <2>2, <2>3
<1> QED
    BY <1>3, <1>5, <1>7, <1>8 DEF FrontendInv

\* Before the tests, the front end asks for a user.
LEMMA VerdictReads ==
    ASSUME ClientInv, FrontendInv, Program("frontend"), Reads
    PROVE  FrontendInv'
<1>1. UNCHANGED <<req, fan, call>>
    BY DEF Reads, reportStats, gatherStats, GetStats, fetchUser, vars
<1>2. CASE UNCHANGED front
    BY <1>1, <1>2, VerdictRests
<1>3. CASE front = "fetch" /\ front' \in {"ask", "fatal"}
    <2>1. \A r \in Request : call[r].client = "none"
        BY <1>3 DEF ClientInv, FrontInv
    <2>2. ASSUME NEW r \in Request PROVE Asked(r)' /\ Answered(r)'
        <3>1. Answered(r) /\ call'[r].client = "none"
            BY <1>1, <2>1 DEF FrontendInv
        <3>2. Asked(r)'
            BY <3>1 DEF Asked
        <3>3. Answered(r)'
            BY <1>1, <3>1 DEF Answered
        <3> QED
            BY <3>2, <3>3
    <2> QED
        BY <1>3, <2>2 DEF FrontendInv
<1> QED
    BY <1>2, <1>3 DEF Reads, reportStats, gatherStats, GetStats, fetchUser

LEMMA VerdictStep ==
    ASSUME NoTies, ServiceInv, ClientInv, GatherInv, VerdictInv, [ClientsNext]_allVars
    PROVE  VerdictInv'
<1>1. CallType /\ StaticInv /\ UNCHANGED scene
    BY StaticStep DEF ClientInv, ServiceInv
<1>2. Program("frontend")' <=> Program("frontend")
    BY <1>1 DEF Program
<1>3. ASSUME ~Program("frontend") PROVE front' = front
    <2>1. ASSUME NEW r \in Request, Returned(r) PROVE front' = front
        BY <1>3, <2>1 DEF Returned, MakeMiddleware, CallReturns, CountStale, CountResponse, CountSuccess, Judge
    <2>2. ASSUME NEW r \in Request, Begins(r) PROVE front' = front
        BY <2>2 DEF Begins, sendSingleTestRequest, sendRequest
    <2>3. ASSUME NEW r \in Request, VideoRecService_GetTopVideos_Handler(r) PROVE front' = front
        BY <2>3 DEF VideoRecService_GetTopVideos_Handler
    <2>4. ASSUME Reads PROVE front' = front
        BY <1>3, <2>4 DEF Reads, reportStats, gatherStats, GetStats, fetchUser
    <2>5. ASSUME UNCHANGED clientVars PROVE front' = front
        BY <2>5 DEF clientVars
    <2> QED
        BY <2>1, <2>2, <2>3, <2>4, <2>5, ClientSteps
<1>4. ASSUME Program("frontend") PROVE FrontendInv'
    <2>1. FrontendInv
        BY <1>4 DEF VerdictInv
    <2>2. CASE UNCHANGED clientVars
        <3>1. ASSUME UNCHANGED <<req, fan>> PROVE FrontendInv'
            BY <2>1, <2>2, <3>1, VerdictRests DEF clientVars
        <3> QED
            BY <1>4, <2>1, <2>2, <3>1, FrontServed, VerdictServed
    <2>3. ASSUME NEW r \in Request, Returned(r) PROVE FrontendInv'
        BY <1>4, <2>1, <2>3, VerdictReturned, VerdictJudged
    <2> QED
        BY <1>4, <2>1, <2>2, <2>3, VerdictArrives, VerdictBegins, VerdictReads, ClientSteps
<1> QED
    BY <1>2, <1>3, <1>4 DEF VerdictInv

\* If no two candidates of a test have the same score, the front end finds fault with an
\* answer (sendSingleTestRequest) only if it came from the cache or a batch of it was lost
\* for good: the batches, their order, the retries and the other programs do not matter.
THEOREM TestsAreJust ==
    ASSUME NoTies
    PROVE  ClientsSpec => []VerdictIsJust
<1>1. ClientsInit => GatherInv
    BY GatherInit
<1>2. ClientsInit => VerdictInv
    <2> SUFFICES ASSUME ClientsInit PROVE VerdictInv
        OBVIOUS
    <2>1. /\ front = "fetch" /\ \A r \in Request : req[r] = NewRequest /\ call[r] = NoCall
        BY DEF ClientsInit, Init
    <2>2. NewRequest.pc = "idle" /\ NoCall.client = "none"
        BY DEF NewRequest, NoCall
    <2>3. ASSUME NEW r \in Request PROVE Asked(r) /\ Answered(r)
        <3>1. call[r].client = "none" /\ req[r].pc = "idle"
            BY <2>1, <2>2
        <3> QED
            BY <3>1 DEF Asked, Answered
    <2> QED
        BY <2>1, <2>3 DEF VerdictInv, FrontendInv
<1>3. Inv /\ GatherInv /\ [ClientsNext]_allVars => GatherInv'
    BY GatherStep DEF Inv, ServiceInv, ClientInv
<1>4. Inv /\ GatherInv /\ VerdictInv /\ [ClientsNext]_allVars => VerdictInv'
    BY VerdictStep DEF Inv
<1>5. VerdictInv => VerdictIsJust
    BY DEF VerdictInv, FrontendInv, VerdictIsJust, Spoilt
<1> QED
    BY <1>1, <1>2, <1>3, <1>4, <1>5, InvHolds, PTL DEF ClientsSpec
=====================================================================================
