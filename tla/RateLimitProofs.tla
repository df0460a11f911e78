--------------------------- MODULE RateLimitProofs ---------------------------
(***************************************************************************)
(* Proofs about RateLimit, for any callers, limit, window and table size:  *)
(* its type invariant, that no window has more than Limit requests, that   *)
(* Retry-After is long enough, what the table's size says, and that the    *)
(* pruned table answers as Budget does, which forgets nothing.             *)
(***************************************************************************)
EXTENDS RateLimit, FoldProofs

(* The last Len(h) entries of g are those of h. *)
EndOf(h, g) ==
    /\ Len(h) <= Len(g)
    /\ \A i \in 1..Len(h) : h[i] = g[(Len(g) - Len(h)) + i]

(* h is what is left of g when only expired entries were dropped. *)
Pruned(h, g) ==
    /\ EndOf(h, g)
    /\ \A i \in 1..(Len(g) - Len(h)) : Expired(g[i])

Ordered(g) ==
    /\ \A i \in 1..Len(g) : g[i] <= now
    /\ \A i, j \in 1..Len(g) : i <= j => g[i] <= g[j]

(* A refused caller was told to come back after its oldest hit is over.      *)
Told(c) == until[c] > 0 /\ hits[c] # <<>> => until[c] > hits[c][1] + Window

IInv ==
    /\ TypeOK
    /\ \A c \in Caller : Pruned(hits[c], log[c]) /\ Ordered(log[c])
    /\ \A c \in Caller : Len(hits[c]) <= Limit /\ Told(c)
    /\ WindowHolds
    /\ TableIsBounded

(* What the loop of popleft leaves: the end of the deque from its first hit  *)
(* that has not expired.                                                     *)
LEMMA LiveIsPruned ==
    ASSUME NEW s \in Seq(Nat), now \in Nat
    PROVE  /\ Live(s) \in Seq(Nat)
           /\ Pruned(Live(s), s)
           /\ Len(Live(s)) > 0 => ~Expired(Live(s)[1])
<1> DEFINE Stops(k) == /\ \A i \in 1..k : Expired(s[i])
                       /\ k < Len(s) => ~Expired(s[k + 1])
           T == {k \in 0..Len(s) : k < Len(s) => ~Expired(s[k + 1])}
           K == CHOOSE k \in 0..Len(s) : Stops(k)
<1>1. \E k \in 0..Len(s) : Stops(k)
  <2>1. Len(s) \in T /\ T \in SUBSET Nat
    OBVIOUS
  <2> HIDE DEF T
  <2>2. PICK k \in T : \A y \in T : k <= y
    BY <2>1, LeastExists
  <2> USE DEF T
  <2>3. ASSUME NEW i \in 1..k PROVE Expired(s[i])
    <3>1. i - 1 \in 0..Len(s) /\ ~(k <= i - 1)
      BY <2>2
    <3>2. i - 1 \notin T
      BY <3>1, <2>2
    <3> QED
      BY <3>1, <3>2
  <2> QED
    BY <2>2, <2>3
<1>2. K \in 0..Len(s) /\ Stops(K)
  <2> HIDE DEF Stops
  <2> QED
    BY <1>1
<1>3. Live(s) = SubSeq(s, K + 1, Len(s))
  BY DEF Live
<1> HIDE DEF K
<1>4. /\ Live(s) \in Seq(Nat)
      /\ Len(Live(s)) = Len(s) - K
      /\ \A i \in 1..(Len(s) - K) : Live(s)[i] = s[K + i]
  BY <1>2, <1>3
<1>5. K \in Nat /\ Len(s) \in Nat /\ K <= Len(s) /\ Len(s) - Len(Live(s)) = K
  BY <1>2, <1>4
<1>6. EndOf(Live(s), s)
  <2>1. Len(Live(s)) <= Len(s)
    BY <1>4, <1>5
  <2>2. ASSUME NEW i \in 1..Len(Live(s))
        PROVE  Live(s)[i] = s[(Len(s) - Len(Live(s))) + i]
    BY <1>4, <1>5
  <2> QED
    BY <2>1, <2>2 DEF EndOf
<1>7. \A i \in 1..(Len(s) - Len(Live(s))) : Expired(s[i])
  BY <1>2, <1>5
<1>8. ASSUME Len(Live(s)) > 0 PROVE ~Expired(Live(s)[1])
  <2>1. K < Len(s) /\ 1 \in 1..(Len(s) - K)
    BY <1>4, <1>5, <1>8
  <2>2. Live(s)[1] = s[K + 1] /\ ~Expired(s[K + 1])
    BY <1>2, <1>4, <2>1
  <2> QED
    BY <2>2
<1> QED
  BY <1>4, <1>6, <1>7, <1>8 DEF Pruned

(* The rest of a window in whole seconds, plus one, is longer than the rest. *)
LEMMA RetryIsLonger ==
    ASSUME NEW r \in Nat
    PROVE  /\ ((r \div Second) + 1) * Second \in Nat
           /\ ((r \div Second) + 1) * Second > r
<1> DEFINE q == r \div Second
<1>1. Second \in Nat /\ Second > 0
  BY LimitAssumption
<1>2. q \in Nat /\ r = Second * q + (r % Second) /\ r % Second \in 0..(Second - 1)
  BY <1>1
<1> HIDE DEF q
<1>3. (q + 1) * Second = Second * q + Second /\ Second * q \in Nat
  BY <1>1, <1>2
<1> QED
  BY <1>1, <1>2, <1>3 DEF q

(* Pruning twice is pruning. *)
LEMMA PrunedTwice ==
    ASSUME NEW f \in Seq(Nat), NEW h \in Seq(Nat), NEW g \in Seq(Nat),
           Pruned(f, h), Pruned(h, g)
    PROVE  Pruned(f, g)
<1> DEFINE a == Len(f)
           b == Len(h)
           n == Len(g)
<1>1. a \in Nat /\ b \in Nat /\ n \in Nat /\ a <= b /\ b <= n
  BY DEF Pruned, EndOf
<1>2. ASSUME NEW i \in 1..a PROVE f[i] = g[(n - a) + i]
  <2>1. (b - a) + i \in 1..b /\ f[i] = h[(b - a) + i]
    BY <1>1 DEF Pruned, EndOf
  <2>2. h[(b - a) + i] = g[(n - b) + ((b - a) + i)]
    BY <2>1 DEF Pruned, EndOf
  <2>3. (n - b) + ((b - a) + i) = (n - a) + i
    BY <1>1
  <2> QED
    BY <2>1, <2>2, <2>3
<1>3. ASSUME NEW i \in 1..(n - a) PROVE Expired(g[i])
  <2>1. CASE i <= n - b
    BY <1>1, <2>1 DEF Pruned
  <2>2. CASE i > n - b
    <3>1. i - (n - b) \in 1..(b - a) /\ i - (n - b) \in 1..b
      BY <1>1, <2>2
    <3>2. Expired(h[i - (n - b)]) /\ h[i - (n - b)] = g[(n - b) + (i - (n - b))]
      BY <3>1 DEF Pruned, EndOf
    <3>3. (n - b) + (i - (n - b)) = i
      BY <1>1
    <3> QED
      BY <3>2, <3>3
  <2> QED
    BY <1>1, <2>1, <2>2
<1> QED
  BY <1>1, <1>2, <1>3 DEF Pruned, EndOf

(* The test of rate_limit, len(seen) >= RATE_LIMIT after the popleft loop,   *)
(* says whether all admissions together have spent the budget.               *)
LEMMA TestIsSpent ==
    ASSUME IInv, NEW c \in Caller
    PROVE  /\ Pruned(Live(hits[c]), log[c])
           /\ Len(Live(hits[c])) <= Limit
           /\ Len(Live(hits[c])) >= Limit <=> B!Spent(c)
<1> DEFINE g == log[c]
           s == Live(hits[c])
           n == Len(g)
           m == Len(s)
<1>1. hits[c] \in Seq(Nat) /\ g \in Seq(Nat) /\ now \in Nat
  BY DEF IInv, TypeOK
<1>2. s \in Seq(Nat) /\ Pruned(s, hits[c]) /\ (m > 0 => ~Expired(s[1]))
  BY <1>1, LiveIsPruned
<1>3. Pruned(s, g)
  BY <1>1, <1>2, PrunedTwice DEF IInv
<1>4. Limit \in Nat /\ Limit > 0 /\ Window \in Nat
  BY LimitAssumption
<1>5. m \in Nat /\ n \in Nat /\ m <= n /\ m <= Limit
  BY <1>1, <1>2, <1>3, <1>4 DEF IInv, Pruned, EndOf
<1>6. CASE m >= Limit
  <2>1. m = Limit /\ 1 \in 1..m /\ n - Limit + 1 \in 1..n
    BY <1>4, <1>5, <1>6
  <2>2. s[1] = g[n - Limit + 1]
    BY <1>3, <1>5, <2>1 DEF Pruned, EndOf
  <2>3. s[1] \in Nat /\ ~Expired(s[1])
    BY <1>2, <1>4, <1>6, <2>1
  <2>4. n >= Limit /\ now - g[n - Limit + 1] <= Window
    BY <1>1, <1>4, <1>5, <2>1, <2>2, <2>3 DEF Expired
  <2> QED
    BY <1>3, <1>5, <1>6, <2>4 DEF B!Spent
<1>7. CASE ~(m >= Limit)
  <2>1. ASSUME n >= Limit PROVE ~(now - g[n - Limit + 1] <= Window)
    <3>1. n - Limit + 1 \in 1..(n - m)
      <4> HIDE DEF m, n
      <4> QED
        BY <1>4, <1>5, <1>7, <2>1
    <3>2. n - Limit + 1 \in 1..n
      <4> HIDE DEF m, n
      <4> QED
        BY <1>4, <1>5, <2>1
    <3>3. g[n - Limit + 1] \in Nat
      BY <1>1, <3>2
    <3>4. Expired(g[n - Limit + 1])
      BY <1>3, <3>1 DEF Pruned
    <3> QED
      BY <1>1, <1>4, <3>3, <3>4 DEF Expired
  <2> QED
    BY <1>3, <1>5, <1>7, <2>1 DEF B!Spent
<1> QED
  BY <1>6, <1>7

-----------------------------------------------------------------------------
(* The initial state satisfies the invariant, and every step keeps it.       *)

LEMMA InitHolds == ASSUME Init PROVE IInv
<1>1. Limit \in Nat /\ Window \in Nat
  BY LimitAssumption
<1>2. TypeOK
  BY DEF Init, TypeOK
<1>3. \A c \in Caller : Pruned(hits[c], log[c]) /\ Ordered(log[c])
  BY DEF Init, Pruned, EndOf, Ordered
<1>4. \A c \in Caller : Len(hits[c]) <= Limit /\ Told(c)
  BY <1>1 DEF Init, Told
<1>5. WindowHolds
  BY <1>1 DEF Init, WindowHolds
<1>6. TableIsBounded
  BY BoundAssumption, FS_EmptySet DEF Init, TableIsBounded
<1> QED
  BY <1>2, <1>3, <1>4, <1>5, <1>6 DEF IInv

LEMMA TickKeeps == ASSUME IInv, Tick PROVE IInv'
<1>1. now \in Nat /\ now' = now + 1 /\ table' = table /\ hits' = hits
      /\ log' = log /\ answer' = answer /\ until' = until
  BY DEF IInv, Tick, TypeOK
<1>2. TypeOK'
  BY <1>1 DEF IInv, TypeOK
<1>3. ASSUME NEW c \in Caller PROVE (Pruned(hits[c], log[c]) /\ Ordered(log[c]))'
  <2> DEFINE g == log[c]
             k == Len(log[c]) - Len(hits[c])
  <2>1. g \in Seq(Nat) /\ hits[c] \in Seq(Nat) /\ Window \in Nat
    BY LimitAssumption DEF IInv, TypeOK
  <2>2. Pruned(hits[c], g) /\ Ordered(g)
    BY DEF IInv
  <2>3. EndOf(hits[c], log[c])'
    BY <1>1, <2>2 DEF Pruned, EndOf
  <2>4. ASSUME NEW i \in 1..k PROVE now' - g[i] > Window
    <3>1. i \in 1..Len(g)
      <4>1. Len(hits[c]) \in Nat /\ Len(g) \in Nat
        BY <2>1
      <4> QED
        BY <4>1
    <3>2. Expired(g[i])
      BY <2>2 DEF Pruned
    <3>3. g[i] \in Nat
      BY <2>1, <3>1
    <3> QED
      BY <1>1, <2>1, <3>2, <3>3 DEF Expired
  <2>5. Ordered(log[c])'
    <3>1. \A i \in 1..Len(g) : g[i] <= now'
      BY <1>1, <2>1, <2>2 DEF Ordered
    <3> QED
      BY <1>1, <2>2, <3>1 DEF Ordered
  <2> QED
    BY <1>1, <2>3, <2>4, <2>5 DEF Pruned, Expired
<1>4. (\A c \in Caller : Len(hits[c]) <= Limit /\ Told(c))'
  BY <1>1 DEF IInv, Told
<1>5. WindowHolds' /\ TableIsBounded'
  BY <1>1 DEF IInv, WindowHolds, TableIsBounded
<1> QED
  BY <1>2, <1>3, <1>4, <1>5 DEF IInv

LEMMA RefuseKeeps == ASSUME IInv, NEW c \in Caller, Refuse(c) PROVE IInv'
<1> DEFINE seen == Live(hits[c])
<1>1. now \in Nat /\ hits \in [Caller -> Seq(Nat)] /\ log \in [Caller -> Seq(Nat)]
      /\ until \in [Caller -> Nat] /\ table \subseteq Caller
  BY DEF IInv, TypeOK
<1>2. Limit \in Nat /\ Limit > 0 /\ Window \in Nat /\ Second \in Nat
  BY LimitAssumption
<1>3. seen \in Seq(Nat) /\ (Len(seen) > 0 => ~Expired(seen[1]))
  BY <1>1, LiveIsPruned
<1>4. Pruned(seen, log[c]) /\ Len(seen) <= Limit
  BY TestIsSpent
<1> HIDE DEF seen
<1>5. /\ Len(seen) >= Limit /\ now' = now /\ log' = log
      /\ table' = table \cup {c} /\ hits' = [hits EXCEPT ![c] = seen]
      /\ answer' = <<c, "refused">>
      /\ until' = [until EXCEPT ![c] = now + retry(seen[1]) * Second]
  BY DEF Refuse, seen
<1>6. Len(seen) > 0 /\ seen[1] \in Nat
  BY <1>2, <1>3, <1>5
<1>7. Window - (now - seen[1]) \in Nat
  BY <1>1, <1>2, <1>3, <1>6 DEF Expired
<1>8. /\ retry(seen[1]) * Second \in Nat
      /\ retry(seen[1]) * Second > Window - (now - seen[1])
  BY <1>7, RetryIsLonger DEF retry
<1>9. TypeOK'
  <2>1. until' \in [Caller -> Nat]
    BY <1>1, <1>5, <1>8
  <2>2. hits' \in [Caller -> Seq(Nat)] /\ \A d \in Caller \ table' : hits'[d] = <<>>
    BY <1>1, <1>3, <1>5 DEF IInv, TypeOK
  <2> QED
    BY <1>1, <1>5, <2>1, <2>2 DEF TypeOK
<1>10. ASSUME NEW d \in Caller PROVE (Pruned(hits[d], log[d]) /\ Ordered(log[d]))'
  <2>1. Pruned(hits'[d], log[d]) /\ Ordered(log[d])
    BY <1>1, <1>4, <1>5 DEF IInv
  <2> QED
    BY <1>5, <2>1 DEF Pruned, EndOf, Ordered, Expired
<1>11. ASSUME NEW d \in Caller PROVE (Len(hits[d]) <= Limit /\ Told(d))'
  <2>1. CASE d = c
    <3>1. hits'[d] = seen /\ until'[d] = now + retry(seen[1]) * Second
      BY <1>1, <1>5, <2>1
    <3>2. now + retry(seen[1]) * Second > seen[1] + Window
      <4> DEFINE p == retry(seen[1]) * Second
      <4>1. p \in Nat /\ p > Window - (now - seen[1])
        BY <1>8
      <4> HIDE DEF p
      <4>2. now + p > seen[1] + Window
        BY <1>1, <1>2, <1>6, <4>1
      <4> QED
        BY <4>2 DEF p
    <3> QED
      BY <1>4, <3>1, <3>2 DEF Told
  <2>2. CASE d # c
    BY <1>1, <1>5, <2>2 DEF IInv, Told
  <2> QED
    BY <2>1, <2>2
<1>12. WindowHolds'
  BY <1>5 DEF IInv, WindowHolds
<1>13. TableIsBounded'
  <2>1. hits[c] # <<>>
    <3>1. Len(seen) <= Len(hits[c])
      BY <1>1, LiveIsPruned DEF Pruned, EndOf, seen
    <3> QED
      BY <1>1, <1>3, <1>6, <3>1
  <2>2. table' = table
    BY <1>5, <2>1 DEF IInv, TypeOK
  <2> QED
    BY <1>5, <2>2 DEF IInv, TableIsBounded
<1> QED
  BY <1>9, <1>10, <1>11, <1>12, <1>13 DEF IInv

(* Appending the same time to both keeps one the end of the other.           *)
LEMMA PrunedAppend ==
    ASSUME NEW h \in Seq(Nat), NEW g \in Seq(Nat), now \in Nat,
           Pruned(h, g), Ordered(g)
    PROVE  Pruned(Append(h, now), Append(g, now)) /\ Ordered(Append(g, now))
<1> DEFINE h1 == Append(h, now)
           g1 == Append(g, now)
           m == Len(h)
           n == Len(g)
<1>1. /\ m \in Nat /\ n \in Nat /\ m <= n
      /\ Len(h1) = m + 1 /\ Len(g1) = n + 1
      /\ (\A i \in 1..m : h1[i] = h[i]) /\ h1[m + 1] = now
      /\ (\A i \in 1..n : g1[i] = g[i]) /\ g1[n + 1] = now
  BY DEF Pruned, EndOf
<1>2. /\ \A i \in 1..m : h[i] = g[(n - m) + i]
      /\ \A i \in 1..(n - m) : Expired(g[i])
  BY DEF Pruned, EndOf
<1>3. /\ \A i \in 1..n : g[i] <= now
      /\ \A i, j \in 1..n : i <= j => g[i] <= g[j]
  BY DEF Ordered
<1> HIDE DEF h1, g1, m, n
<1>4. ASSUME NEW i \in 1..(m + 1) PROVE h1[i] = g1[((n + 1) - (m + 1)) + i]
  <2>1. CASE i = m + 1
    <3>1. ((n + 1) - (m + 1)) + i = n + 1
      BY <1>1, <2>1
    <3> QED
      BY <1>1, <2>1, <3>1
  <2>2. CASE i # m + 1
    <3>1. i \in 1..m /\ (n - m) + i \in 1..n /\ ((n + 1) - (m + 1)) + i = (n - m) + i
      BY <1>1, <2>2
    <3> QED
      BY <1>1, <1>2, <3>1
  <2> QED
    BY <2>1, <2>2
<1>5. ASSUME NEW i \in 1..((n + 1) - (m + 1)) PROVE Expired(g1[i])
  <2>1. i \in 1..(n - m) /\ i \in 1..n
    BY <1>1
  <2> QED
    BY <1>1, <1>2, <2>1
<1>6. ASSUME NEW i \in 1..(n + 1) PROVE g1[i] <= now
  <2>1. CASE i = n + 1
    <3>1. g1[i] = now
      BY <1>1, <2>1
    <3> QED
      BY <3>1
  <2>2. CASE i # n + 1
    <3>1. i \in 1..n
      BY <1>1, <2>2
    <3> QED
      BY <1>1, <1>3, <3>1
  <2> QED
    BY <2>1, <2>2
<1>7. ASSUME NEW i \in 1..(n + 1), NEW j \in 1..(n + 1), i <= j PROVE g1[i] <= g1[j]
  <2>1. CASE j = n + 1
    <3>1. g1[j] = now
      BY <1>1, <2>1
    <3> QED
      BY <1>6, <3>1
  <2>2. CASE j # n + 1
    <3>1. i \in 1..n /\ j \in 1..n
      BY <1>1, <1>7, <2>2
    <3> QED
      BY <1>1, <1>3, <1>7, <3>1
  <2> QED
    BY <2>1, <2>2
<1>8. Len(h1) <= Len(g1)
  BY <1>1
<1>9. EndOf(h1, g1)
  BY <1>1, <1>4, <1>8 DEF EndOf
<1>10. Pruned(h1, g1)
  BY <1>1, <1>5, <1>9 DEF Pruned
<1>11. Ordered(g1)
  BY <1>1, <1>6, <1>7 DEF Ordered
<1> QED
  BY <1>10, <1>11 DEF h1, g1

(* What the sweep forgets of a caller has expired to the last hit.           *)
LEMMA GoneIsExpired ==
    ASSUME NEW h \in Seq(Nat), NEW g \in Seq(Nat), now \in Nat,
           Pruned(h, g), Ordered(g),
           h = <<>> \/ Expired(h[Len(h)])
    PROVE  Pruned(<<>>, g)
<1> DEFINE m == Len(h)
           n == Len(g)
<1>1. m \in Nat /\ n \in Nat /\ m <= n /\ Window \in Nat
  BY LimitAssumption DEF Pruned, EndOf
<1>2. ASSUME NEW i \in 1..n PROVE Expired(g[i])
  <2>1. CASE m = 0
    BY <1>1, <2>1 DEF Pruned
  <2>2. CASE m > 0
    <3>1. Expired(h[m]) /\ m \in 1..m /\ n \in 1..n
      BY <1>1, <2>2
    <3>2. h[m] = g[(n - m) + m] /\ (n - m) + m = n
      BY <1>1, <3>1 DEF Pruned, EndOf
    <3>3. Expired(g[n])
      BY <3>1, <3>2
    <3>4. g[i] \in Nat /\ g[n] \in Nat /\ g[i] <= g[n]
      BY <1>1, <3>1 DEF Ordered
    <3> HIDE DEF n
    <3> QED
      BY <1>1, <3>3, <3>4 DEF Expired
  <2> QED
    BY <1>1, <2>1, <2>2
<1> QED
  BY <1>1, <1>2 DEF Pruned, EndOf

LEMMA AdmitKeeps == ASSUME IInv, NEW c \in Caller, Admit(c) PROVE IInv'
<1> DEFINE seen == Live(hits[c])
           t == table \cup {c}
           h == [hits EXCEPT ![c] = Append(seen, now)]
           G == Gone(t, h)
           last(d) == h[d][Len(h[d])]
<1>1. now \in Nat /\ hits \in [Caller -> Seq(Nat)] /\ log \in [Caller -> Seq(Nat)]
      /\ until \in [Caller -> Nat] /\ table \subseteq Caller
      /\ \A d \in Caller \ table : hits[d] = <<>>
  BY DEF IInv, TypeOK
<1>2. Limit \in Nat /\ Limit > 0 /\ Window \in Nat
  BY LimitAssumption
<1>3. seen \in Seq(Nat) /\ Pruned(seen, log[c])
  BY <1>1, LiveIsPruned, TestIsSpent
<1>4. /\ Len(seen) < Limit /\ now' = now
      /\ table' = t \ G
      /\ hits' = [d \in Caller |-> IF d \in G THEN <<>> ELSE h[d]]
      /\ log' = [log EXCEPT ![c] = Append(@, now)]
      /\ answer' = <<c, "admitted">>
      /\ until' = [until EXCEPT ![c] = 0]
  BY DEF Admit
<1>5. ASSUME NEW d \in G
      PROVE  d \in t /\ (h[d] = <<>> \/ Expired(last(d))) /\ Cardinality(t) > Known
  BY DEF Gone
<1>6. ASSUME Cardinality(t) > Known, NEW d \in t \ G
      PROVE  h[d] # <<>> /\ ~Expired(last(d))
  BY <1>6 DEF Gone
<1>7. G # {} => Cardinality(t) > Known
  BY <1>5
<1> HIDE DEF seen, G
<1>8. h \in [Caller -> Seq(Nat)] /\ h[c] = Append(seen, now)
      /\ \A d \in Caller : d # c => h[d] = hits[d]
  BY <1>1, <1>3
<1>9. log' \in [Caller -> Seq(Nat)] /\ log'[c] = Append(log[c], now)
      /\ \A d \in Caller : d # c => log'[d] = log[d]
  BY <1>1, <1>4
<1> HIDE DEF h
<1>10. ASSUME NEW d \in Caller PROVE Pruned(h[d], log'[d]) /\ Ordered(log'[d])
  <2>1. CASE d = c
    <3>1. Ordered(log[c]) /\ log[c] \in Seq(Nat)
      BY <1>1 DEF IInv
    <3> QED
      BY <1>1, <1>3, <1>8, <1>9, <2>1, <3>1, PrunedAppend
  <2>2. CASE d # c
    BY <1>8, <1>9, <2>2 DEF IInv
  <2> QED
    BY <2>1, <2>2
<1>11. ASSUME NEW d \in Caller PROVE Pruned(hits'[d], log'[d])
  <2>1. h[d] \in Seq(Nat) /\ log'[d] \in Seq(Nat)
    BY <1>8, <1>9
  <2>2. CASE d \in G
    <3>1. Pruned(<<>>, log'[d])
      BY <1>1, <1>5, <1>10, <2>1, <2>2, GoneIsExpired
    <3> QED
      BY <1>4, <2>2, <3>1
  <2>3. CASE d \notin G
    BY <1>4, <1>10, <2>3
  <2> QED
    BY <2>2, <2>3
<1>12. (\A d \in Caller : Pruned(hits[d], log[d]) /\ Ordered(log[d]))'
  BY <1>4, <1>10, <1>11 DEF Pruned, EndOf, Ordered, Expired
<1>13. TypeOK'
  <2>1. table' \subseteq Caller /\ until' \in [Caller -> Nat]
    BY <1>1, <1>4
  <2>2. ASSUME NEW d \in Caller \ table' PROVE hits'[d] = <<>>
    BY <1>1, <1>4, <1>8, <2>2
  <2>3. \A d \in Caller : (IF d \in G THEN <<>> ELSE h[d]) \in Seq(Nat)
    BY <1>8
  <2>4. hits' \in [Caller -> Seq(Nat)]
    BY <1>4, <2>3
  <2> QED
    BY <1>1, <1>4, <1>9, <2>1, <2>2, <2>4 DEF TypeOK
<1>14. ASSUME NEW d \in Caller PROVE (Len(hits[d]) <= Limit /\ Told(d))'
  <2>1. CASE d \in G
    BY <1>2, <1>4, <2>1 DEF Told
  <2>2. CASE d \notin G /\ d = c
    <3>1. hits'[d] = Append(seen, now) /\ until'[d] = 0
      BY <1>1, <1>4, <1>8, <2>2
    <3> QED
      BY <1>1, <1>2, <1>3, <1>4, <3>1 DEF Told
  <2>3. CASE d \notin G /\ d # c
    <3>1. hits'[d] = hits[d] /\ until'[d] = until[d]
      BY <1>1, <1>4, <1>8, <2>3
    <3> QED
      BY <3>1 DEF IInv, Told
  <2> QED
    BY <2>1, <2>2, <2>3
<1>15. WindowHolds'
  <2> DEFINE g == log[c]
             n == Len(log[c])
  <2>1. ASSUME NEW i \in 1..((n + 1) - Limit)
        PROVE  Append(g, now)[i + Limit] - Append(g, now)[i] > Window
    <3>1. g \in Seq(Nat) /\ n \in Nat /\ i \in Nat /\ i >= 1 /\ i + Limit <= n + 1
      BY <1>1, <1>2
    <3>2. CASE i + Limit <= n
      <4>1. i \in 1..(n - Limit) /\ i \in 1..n /\ i + Limit \in 1..n
        BY <1>2, <3>1, <3>2
      <4>2. g[i + Limit] - g[i] > Window
        BY <4>1 DEF IInv, WindowHolds
      <4> QED
        BY <1>1, <3>1, <4>1, <4>2
    <3>3. CASE i + Limit = n + 1
      <4>1. n >= Limit /\ i = n - Limit + 1 /\ i \in 1..n
        BY <1>2, <3>1, <3>3
      <4>2. ~B!Spent(c)
        BY <1>2, <1>3, <1>4, TestIsSpent DEF seen
      <4>3. g[i] \in Nat /\ now - g[i] > Window
        BY <1>1, <1>2, <3>1, <4>1, <4>2 DEF B!Spent
      <4>4. Append(g, now)[i + Limit] = now /\ Append(g, now)[i] = g[i]
        BY <1>1, <3>1, <3>3, <4>1
      <4> QED
        BY <4>3, <4>4
    <3> QED
      BY <1>2, <3>1, <3>2, <3>3
  <2>2. Len(log'[c]) = n + 1
    BY <1>1, <1>9
  <2>3. \A i \in 1..(Len(log'[c]) - Limit) : log'[c][i + Limit] - log'[c][i] > Window
    BY <1>9, <2>1, <2>2
  <2>4. \A d \in Caller : d # c =>
            \A i \in 1..(Len(log'[d]) - Limit) : log'[d][i + Limit] - log'[d][i] > Window
    BY <1>9 DEF IInv, WindowHolds
  <2> QED
    BY <2>3, <2>4 DEF WindowHolds
<1>16. TableIsBounded'
  <2>1. SUFFICES ASSUME Cardinality(table') > Known
                 PROVE  \E d \in table' : \A e \in table' :
                            log'[d][Len(log'[d])] - log'[e][Len(log'[e])] \in 0..Window
    BY DEF TableIsBounded
  <2>2. Cardinality(t) > Known
    <3>1. CASE G = {}
      BY <1>4, <2>1, <3>1
    <3>2. CASE G # {}
      BY <1>7, <3>2
    <3> QED
      BY <3>1, <3>2
  <2>3. ASSUME NEW e \in table'
        PROVE  now - log'[e][Len(log'[e])] \in 0..Window
    <3>1. e \in Caller /\ h[e] # <<>> /\ ~Expired(last(e))
      BY <1>1, <1>4, <1>6, <2>2
    <3>2. h[e] \in Seq(Nat) /\ log'[e] \in Seq(Nat) /\ Len(h[e]) \in Nat /\ Len(h[e]) > 0
      BY <1>8, <1>9, <3>1
    <3>3. Pruned(h[e], log'[e]) /\ Ordered(log'[e])
      BY <1>10, <3>1
    <3>4. Len(log'[e]) \in Nat /\ Len(h[e]) <= Len(log'[e]) /\ Len(h[e]) \in 1..Len(h[e])
      BY <3>2, <3>3 DEF Pruned, EndOf
    <3>5. last(e) = log'[e][(Len(log'[e]) - Len(h[e])) + Len(h[e])]
      BY <3>3, <3>4 DEF Pruned, EndOf
    <3>6. (Len(log'[e]) - Len(h[e])) + Len(h[e]) = Len(log'[e])
          /\ Len(log'[e]) \in 1..Len(log'[e])
      BY <3>2, <3>4
    <3>7. last(e) = log'[e][Len(log'[e])] /\ last(e) \in Nat /\ last(e) <= now
      BY <3>2, <3>3, <3>5, <3>6 DEF Ordered
    <3> HIDE DEF last
    <3> QED
      BY <1>1, <1>2, <3>1, <3>7 DEF Expired
  <2>4. log'[c][Len(log'[c])] = now
    BY <1>1, <1>9
  <2>5. c \in table'
    <3>1. h[c] # <<>> /\ last(c) = now
      <4>1. Append(seen, now)[Len(Append(seen, now))] = now /\ Append(seen, now) # <<>>
        <5>1. Len(Append(seen, now)) = Len(seen) + 1 /\ Len(seen) \in Nat
          BY <1>1, <1>3
        <5>2. Append(seen, now)[Len(seen) + 1] = now
          BY <1>1, <1>3
        <5>3. Append(seen, now) # <<>>
          BY <5>1
        <5> QED
          BY <5>1, <5>2, <5>3
      <4> QED
        BY <1>8, <4>1
    <3>2. ~Expired(now)
      BY <1>1, <1>2 DEF Expired
    <3>3. c \notin G
      BY <1>5, <3>1, <3>2
    <3> QED
      BY <1>4, <3>3
  <2> QED
    BY <2>3, <2>4, <2>5
<1> QED
  BY <1>12, <1>13, <1>14, <1>15, <1>16 DEF IInv

LEMMA NextKeeps == ASSUME IInv, [Next]_vars PROVE IInv'
<1>1. CASE Tick
  BY <1>1, TickKeeps
<1>2. ASSUME NEW c \in Caller, Admit(c) \/ Refuse(c) PROVE IInv'
  BY <1>2, AdmitKeeps, RefuseKeeps
<1>3. CASE UNCHANGED vars
  BY <1>3 DEF vars, IInv, TypeOK, Pruned, EndOf, Ordered, Expired, Told, WindowHolds, TableIsBounded
<1> QED
  BY <1>1, <1>2, <1>3 DEF Next

LEMMA Invariant == Spec => []IInv
<1>1. Init => IInv
  BY InitHolds
<1>2. IInv /\ [Next]_vars => IInv'
  BY NextKeeps
<1> QED
  BY <1>1, <1>2, PTL DEF Spec

-----------------------------------------------------------------------------
(* The clock, the deques and the table of callers keep their types: in       *)
(* particular no Retry-After is negative (rate_limit).                       *)
THEOREM TypeCorrect == Spec => []TypeOK
<1>1. IInv => TypeOK
  BY DEF IInv
<1> QED
  BY <1>1, Invariant, PTL

(* No window of time holds more than Limit requests of a caller, though      *)
(* rate_limit drops hits and its sweep drops callers.                        *)
THEOREM WindowsHold == Spec => []WindowHolds
<1>1. IInv => WindowHolds
  BY DEF IInv
<1> QED
  BY <1>1, Invariant, PTL

(* A caller who waits as long as the last Retry-After said is admitted.      *)
THEOREM WaitingIsEnough == Spec => []RetryIsEnough
<1>1. ASSUME IInv, NEW c \in Caller, until[c] > 0, now >= until[c]
      PROVE  Len(Live(hits[c])) < Limit
  <2> DEFINE s == Live(hits[c])
             q == hits[c]
  <2>1. q \in Seq(Nat) /\ now \in Nat /\ until[c] \in Nat
        /\ Window \in Nat /\ Limit \in Nat /\ Limit > 0
    BY <1>1, LimitAssumption DEF IInv, TypeOK
  <2>2. s \in Seq(Nat) /\ Pruned(s, q) /\ (Len(s) > 0 => ~Expired(s[1]))
    BY <2>1, LiveIsPruned
  <2>3. Len(q) <= Limit /\ Told(c)
    BY <1>1 DEF IInv
  <2>4. SUFFICES ASSUME Len(s) >= Limit PROVE FALSE
    BY <2>1, <2>2
  <2> HIDE DEF s
  <2>5. Len(s) = Len(q) /\ Len(s) > 0 /\ 1 \in 1..Len(s) /\ (Len(q) - Len(s)) + 1 = 1
    BY <2>1, <2>2, <2>3, <2>4 DEF Pruned, EndOf
  <2>6. s[1] = q[1] /\ q # <<>> /\ q[1] \in Nat /\ ~Expired(q[1])
    BY <2>1, <2>2, <2>5 DEF Pruned, EndOf
  <2>7. until[c] > q[1] + Window
    BY <1>1, <2>3, <2>6 DEF Told
  <2> QED
    BY <1>1, <2>1, <2>6, <2>7 DEF Expired
<1>2. IInv => RetryIsEnough
  BY <1>1 DEF RetryIsEnough
<1> QED
  BY <1>2, Invariant, PTL

(* The table outgrows its cap only with callers of the current window.       *)
THEOREM TableBounded == Spec => []TableIsBounded
<1>1. IInv => TableIsBounded
  BY DEF IInv
<1> QED
  BY <1>1, Invariant, PTL

(* Every answer of rate_limit is the one Budget gives, which forgets no      *)
(* request: each step of one is a step of the other, or changes nothing.     *)
THEOREM AnswersAsPromised == Spec => Promise
<1>1. Init => B!Init
  BY DEF Init, B!Init
<1>2. ASSUME IInv, [Next]_vars PROVE [B!Next]_<<now, log, answer>>
  <2>1. CASE Tick
    BY <2>1 DEF Tick, B!Next, B!Tick
  <2>2. ASSUME NEW c \in Caller, Admit(c) PROVE B!Next
    <3>1. Len(Live(hits[c])) \in Nat /\ Limit \in Nat
      BY <1>2, LiveIsPruned, LimitAssumption DEF IInv, TypeOK
    <3>2. ~B!Spent(c)
      BY <1>2, <2>2, <3>1, TestIsSpent DEF Admit
    <3>3. B!Admit(c)
      BY <2>2, <3>2 DEF Admit, B!Admit
    <3> QED
      BY <3>3 DEF B!Next
  <2>3. ASSUME NEW c \in Caller, Refuse(c) PROVE B!Next
    <3>1. B!Spent(c)
      BY <1>2, <2>3, TestIsSpent DEF Refuse
    <3>2. B!Refuse(c)
      BY <2>3, <3>1 DEF Refuse, B!Refuse
    <3> QED
      BY <3>2 DEF B!Next
  <2>4. CASE UNCHANGED vars
    BY <2>4 DEF vars
  <2> QED
    BY <1>2, <2>1, <2>2, <2>3, <2>4 DEF Next
<1> QED
  BY <1>1, <1>2, Invariant, PTL DEF Spec, Promise, B!Spec
=============================================================================
