---------------------------- MODULE ApiClientProofs ----------------------------
(***************************************************************************)
(* Proofs about ApiClient, for any retry policy, passes and durations: its *)
(* types, that no call takes longer than LongestCall says, that a pass     *)
(* with that much time left cuts no attempt short, and that a call reports *)
(* the last verdict of the server and the number of its attempts.          *)
(***************************************************************************)
EXTENDS ApiClient, WellFoundedInduction, TLAPS

-----------------------------------------------------------------------------
(* Sums *)

(* A set of numbers has a least one: what the inductions below are made of. *)
LEMMA LeastNumber ==
    ASSUME NEW T, T \subseteq Nat, T # {}
    PROVE  \E x \in T : \A y \in T : x <= y
<1> DEFINE R == {ss \in Nat \X Nat : ss[1] < ss[2]}
<1>1. IsWellFoundedOn(R, Nat)
  BY NatLessThanWellFounded DEF OpToRel
<1>2. \A a, b \in Nat : a < b => <<a, b>> \in R
  OBVIOUS
<1> HIDE DEF R
<1>3. PICK x \in T : \A y \in T : ~ (<<y, x>> \in R)
  BY <1>1, WFMin
<1>4. ASSUME NEW y \in T PROVE x <= y
  <2>1. x \in Nat /\ y \in Nat /\ ~ (y < x)
    BY <1>2, <1>3
  <2> QED
    BY <2>1
<1> QED
  BY <1>3, <1>4

(* The maximum is what is not smaller than the others. *)
LEMMA Maximum ==
    ASSUME NEW S, S \subseteq Int, NEW m \in S, \A y \in S : m >= y
    PROVE  Max(S) = m
<1>1. PICK x \in S : x = Max(S) /\ \A y \in S : x >= y
  BY DEF Max
<1>2. x >= m /\ m >= x /\ x \in Int /\ m \in Int
  BY <1>1
<1> QED
  BY <1>1, <1>2

(* The function by which the sum of d's first values over sets is defined. *)
SumsOver(iter, d, n) ==
    iter = [s \in SUBSET (1..n) |->
              IF s = {} THEN 0 ELSE iter[s \ {Max(s)}] + d[Max(s)]]

(* It exists for one more value if it does without it. *)
LEMMA SumExtends ==
    ASSUME NEW n \in Nat, NEW d, NEW f, SumsOver(f, d, n)
    PROVE  \E g : SumsOver(g, d, n + 1)
<1> DEFINE g == [s \in SUBSET (1..(n + 1)) |->
                   IF n + 1 \in s THEN f[s \ {n + 1}] + d[n + 1] ELSE f[s]]
<1>1. \A s \in SUBSET (1..n) : s \in SUBSET (1..(n + 1)) /\ n + 1 \notin s
  OBVIOUS
<1>2. \A s \in SUBSET (1..n) : g[s] = f[s]
  BY <1>1
<1>3. ASSUME NEW s \in SUBSET (1..n)
      PROVE  f[s] = IF s = {} THEN 0 ELSE f[s \ {Max(s)}] + d[Max(s)]
  BY DEF SumsOver
<1>4. ASSUME NEW s \in SUBSET (1..(n + 1))
      PROVE  g[s] = IF s = {} THEN 0 ELSE g[s \ {Max(s)}] + d[Max(s)]
  <2>1. CASE n + 1 \in s
    <3>1. Max(s) = n + 1
      <4>1. s \subseteq Int /\ \A y \in s : n + 1 >= y
        OBVIOUS
      <4> QED
        BY <2>1, <4>1, Maximum
    <3>2. s \ {n + 1} \in SUBSET (1..n)
      OBVIOUS
    <3>3. g[s] = f[s \ {n + 1}] + d[n + 1]
      BY <2>1
    <3> HIDE DEF g
    <3> QED
      BY <1>2, <2>1, <3>1, <3>2, <3>3
  <2>2. CASE n + 1 \notin s
    <3>1. s \in SUBSET (1..n)
      BY <2>2
    <3> HIDE DEF g
    <3>2. \A m : s \ {m} \in SUBSET (1..n)
      BY <3>1
    <3> QED
      BY <1>2, <1>3, <3>1, <3>2
  <2> QED
    BY <2>1, <2>2
<1>5. SumsOver(g, d, n + 1)
  <2>1. g = [s \in SUBSET (1..(n + 1)) |-> g[s]]
    OBVIOUS
  <2> HIDE DEF g
  <2> QED
    BY <1>4, <2>1 DEF SumsOver
<1> QED
  BY <1>5

(* By induction it exists for any number of values. *)
LEMMA SumExists == ASSUME NEW d PROVE \A n \in Nat : \E f : SumsOver(f, d, n)
<1> DEFINE T == {n \in Nat : ~ \E f : SumsOver(f, d, n)}
<1> SUFFICES ASSUME T # {} PROVE FALSE
  OBVIOUS
<1>1. PICK n \in T : \A m \in T : n <= m
  <2>1. T \subseteq Nat
    OBVIOUS
  <2> HIDE DEF T
  <2> QED
    BY <2>1, LeastNumber
<1>2. n # 0
  <2>1. SumsOver([s \in SUBSET (1..0) |-> 0], d, 0)
    BY DEF SumsOver
  <2> QED
    BY <2>1
<1>3. n - 1 \in Nat /\ n - 1 \notin T
  BY <1>1, <1>2
<1>4. PICK f : SumsOver(f, d, n - 1)
  BY <1>3
<1>5. \E g : SumsOver(g, d, (n - 1) + 1)
  BY <1>3, <1>4, SumExtends
<1> QED
  BY <1>5

(* FoldLeft adds up the values of d one after the other. *)
LEMMA FoldSums ==
    ASSUME NEW n \in Nat, NEW d \in [1..n -> Nat]
    PROVE  \E t \in [0..n -> Nat] :
             /\ t[0] = 0
             /\ \A i \in 1..n : t[i] = t[i - 1] + d[i]
             /\ FoldLeft(+, 0, d) = t[n]
<1> DEFINE f == CHOOSE iter : SumsOver(iter, d, n)
           t == [i \in 0..n |-> f[1..i]]
<1>1. SumsOver(f, d, n)
  BY SumExists
<1>2. FoldLeft(+, 0, d) = f[1..n]
  <2>1. DOMAIN d = 1..n
    OBVIOUS
  <2>2. FoldLeft(+, 0, d) =
          LET iter == CHOOSE iter : iter = [s \in SUBSET DOMAIN d |->
                        IF s = {} THEN 0 ELSE iter[s \ {Max(s)}] + d[Max(s)]]
          IN  iter[DOMAIN d]
    BY Zenon DEF FoldLeft, MapThenFoldSet
  <2> QED
    BY <2>1, <2>2, Zenon DEF SumsOver
<1> HIDE DEF f
<1>3. t[0] = 0
  BY <1>1 DEF SumsOver
<1>4. ASSUME NEW i \in 1..n PROVE t[i] = t[i - 1] + d[i]
  <2>1. Max(1..i) = i
    BY Maximum
  <2>2. (1..i) \ {i} = 1..(i - 1) /\ 1..i # {} /\ 1..i \in SUBSET (1..n)
    OBVIOUS
  <2>3. f[1..i] = f[1..(i - 1)] + d[i]
    BY <1>1, <2>1, <2>2 DEF SumsOver
  <2> QED
    BY <2>3
<1>e. t[n] = f[1..n]
  OBVIOUS
<1>d. t = [i \in 0..n |-> t[i]]
  OBVIOUS
<1> HIDE DEF t
<1>5. t \in [0..n -> Nat]
  <2> DEFINE T == {i \in 0..n : t[i] \notin Nat}
  <2>1. T = {}
    <3> SUFFICES ASSUME T # {} PROVE FALSE
      OBVIOUS
    <3>1. PICK i \in T : \A j \in T : i <= j
      <4>1. T \subseteq Nat
        OBVIOUS
      <4> HIDE DEF T
      <4> QED
        BY <4>1, LeastNumber
    <3>2. i # 0 /\ i - 1 \notin T
      BY <1>3, <3>1
    <3> QED
      BY <1>4, <3>2
  <2> QED
    BY <1>d, <2>1
<1> QED
  BY <1>2, <1>3, <1>4, <1>5, <1>e

-----------------------------------------------------------------------------
(* The schedule of a call *)

(* The smaller of two numbers *)
LEMMA MinPair ==
    ASSUME NEW a \in Int, NEW b \in Int
    PROVE  Min({a, b}) = IF a <= b THEN a ELSE b
<1>1. PICK x \in {a, b} : x = Min({a, b}) /\ \A y \in {a, b} : x <= y
  <2>1. \E x \in {a, b} : \A y \in {a, b} : x <= y
    <3>1. CASE a <= b
      BY <3>1
    <3>2. CASE ~ (a <= b)
      BY <3>2
    <3> QED
      BY <3>1, <3>2
  <2> QED
    BY <2>1 DEF Min
<1> QED
  BY <1>1

(* The longest delay after attempt number i *)
MaxDelay(p, i) ==
    IF p.backoff = <<>> THEN 0 ELSE (p.backoff[Min({i, Len(p.backoff)})] * (100 + p.jitter)) \div 100

(* No delay is longer than that, whatever the jitter. *)
LEMMA Delays ==
    ASSUME NEW p \in Policies, NEW i \in Nat \ {0}
    PROVE  /\ MaxDelay(p, i) \in Nat
           /\ \A delay \in BackoffFor(p, i) : delay \in Nat /\ delay <= MaxDelay(p, i)
<1> DEFINE base == BackoffBase(p, i)
<1>1. p.jitter \in 0..100 /\ p.backoff \in Seq(Nat)
  BY ClientAssumption
<1>2. base \in Nat
  <2>1. CASE p.backoff = <<>>
    BY <2>1 DEF BackoffBase
  <2>2. CASE p.backoff # <<>>
    <3>1. Len(p.backoff) \in Nat \ {0}
      BY <1>1, <2>2
    <3>2. Min({i, Len(p.backoff)}) \in 1..Len(p.backoff)
      BY <3>1, MinPair
    <3>3. \A k \in 1..Len(p.backoff) : p.backoff[k] \in Nat
      BY <1>1
    <3> QED
      BY <2>2, <3>2, <3>3 DEF BackoffBase
  <2> QED
    BY <2>1, <2>2
<1>3. MaxDelay(p, i) = (base * (100 + p.jitter)) \div 100
  <2>1. CASE p.backoff = <<>>
    <3>1. base = 0 /\ MaxDelay(p, i) = 0
      BY <2>1 DEF BackoffBase, MaxDelay
    <3>2. 0 * (100 + p.jitter) = 0
      <4>1. \A a \in Int : 0 * a = 0
        OBVIOUS
      <4>2. 100 + p.jitter \in Int
        <5> DEFINE j == p.jitter
        <5>1. j \in 0..100
          BY <1>1
        <5> HIDE DEF j
        <5>2. 100 + j \in Int
          BY <5>1
        <5> QED
          BY <5>2 DEF j
      <4> QED
        BY ONLY <4>1, <4>2
    <3> QED
      BY <3>1, <3>2
  <2>2. CASE p.backoff # <<>>
    BY <2>2 DEF BackoffBase, MaxDelay
  <2> QED
    BY <2>1, <2>2
<1>4. \A delay \in BackoffFor(p, i) :
         \E m \in {100 - p.jitter, 100, 100 + p.jitter} : delay = (base * m) \div 100
  BY DEF BackoffFor
<1> HIDE DEF base
<1>5. ASSUME NEW m \in {100 - p.jitter, 100, 100 + p.jitter}
      PROVE  /\ (base * m) \div 100 \in Nat
             /\ (base * m) \div 100 <= (base * (100 + p.jitter)) \div 100
  <2>1. m \in Nat /\ 100 + p.jitter \in Nat /\ m <= 100 + p.jitter
    <3> DEFINE j == p.jitter
    <3>1. j \in 0..100 /\ m \in {100 - j, 100, 100 + j}
      BY <1>1
    <3> HIDE DEF j
    <3>2. m \in Nat /\ 100 + j \in Nat /\ m <= 100 + j
      BY <3>1
    <3> QED
      BY <3>2 DEF j
  <2> DEFINE a == base * m
             b == base * (100 + p.jitter)
  <2>2. a \in Nat /\ b \in Nat /\ a <= b
    BY ONLY <1>2, <2>1
  <2> HIDE DEF a, b
  <2>3. a \div 100 \in Nat /\ a \div 100 <= b \div 100
    BY <2>2
  <2> QED
    BY <2>3 DEF a, b
<1> QED
  BY <1>3, <1>4, <1>5

(* LongestCall, with the attempt that is made in any case counted *)
Longest(p) == IF p.max < 1 THEN RequestTimeout ELSE LongestCall(p)

(* What a call may have taken after its first k attempts and their delays, *)
(* and that Longest leaves room for one attempt more than it has delays.   *)
Schedule(p, u) ==
    /\ u \in [0..(MaxAttempts(p) - 1) -> Nat]
    /\ u[0] = 0
    /\ \A i \in 1..(MaxAttempts(p) - 1) : u[i] = u[i - 1] + RequestTimeout + MaxDelay(p, i)
    /\ \A i \in 0..(MaxAttempts(p) - 1) : u[i] <= u[MaxAttempts(p) - 1]
    /\ Longest(p) = u[MaxAttempts(p) - 1] + RequestTimeout

Budget(p) == CHOOSE u : Schedule(p, u)

(* How many attempts a call may make *)
LEMMA OneAttempt ==
    ASSUME NEW p \in Policies
    PROVE  /\ MaxAttempts(p) \in Nat \ {0}
           /\ p.max >= 1 => MaxAttempts(p) = p.max /\ Longest(p) = LongestCall(p)
           /\ ~ (p.max >= 1) => MaxAttempts(p) = 1 /\ Longest(p) = RequestTimeout
  BY ClientAssumption DEF MaxAttempts, Longest

(* Longest is such a schedule's end, for every policy. *)
LEMMA Budgeted == ASSUME NEW p \in Policies PROVE Schedule(p, Budget(p))
<1> DEFINE n == MaxAttempts(p) - 1
           d == [i \in 1..n |-> MaxDelay(p, i)]
<1>1. n \in Nat /\ MaxAttempts(p) = n + 1 /\ RequestTimeout \in Nat
  BY OneAttempt, ClientAssumption
<1>2. d \in [1..n -> Nat]
  BY <1>1, Delays
<1>3. p.max >= 1 => Longest(p) = (n + 1) * RequestTimeout + FoldLeft(+, 0, d)
  <2> SUFFICES ASSUME p.max >= 1
               PROVE  Longest(p) = (n + 1) * RequestTimeout + FoldLeft(+, 0, d)
    OBVIOUS
  <2>1. p.max = MaxAttempts(p) /\ n = p.max - 1 /\ Longest(p) = LongestCall(p)
    BY OneAttempt
  <2>2. LongestCall(p) = p.max * RequestTimeout +
                               FoldLeft(+, 0, [i \in 1..(p.max - 1) |-> MaxDelay(p, i)])
    BY DEF LongestCall, MaxDelay
  <2> QED
    BY <1>1, <2>1, <2>2
<1> HIDE DEF d
<1>4. PICK t \in [0..n -> Nat] :
        /\ t[0] = 0
        /\ \A i \in 1..n : t[i] = t[i - 1] + d[i]
        /\ FoldLeft(+, 0, d) = t[n]
  BY <1>1, <1>2, FoldSums
<1> DEFINE u == [i \in 0..n |-> i * RequestTimeout + t[i]]
<1>5. u[0] = 0
  <2>1. u[0] = 0 * RequestTimeout + t[0]
    BY <1>1
  <2>2. 0 * RequestTimeout = 0
    BY <1>1
  <2>3. t[0] = 0
    BY <1>4
  <2> HIDE DEF u
  <2> QED
    BY <2>1, <2>2, <2>3
<1>6. u \in [0..n -> Nat]
  <2>1. \A i \in 0..n : i * RequestTimeout \in Nat
    BY <1>1
  <2> QED
    BY <2>1
<1>7. ASSUME NEW i \in 1..n PROVE u[i] = u[i - 1] + RequestTimeout + MaxDelay(p, i)
  <2>1. u[i] = i * RequestTimeout + t[i] /\ u[i - 1] = (i - 1) * RequestTimeout + t[i - 1]
    BY <1>1
  <2>2. i * RequestTimeout = (i - 1) * RequestTimeout + RequestTimeout
    BY <1>1
  <2>3. t[i] = t[i - 1] + MaxDelay(p, i) /\ t[i - 1] \in Nat /\ t[i] \in Nat
    <3>1. d[i] = MaxDelay(p, i)
      BY DEF d
    <3>2. i - 1 \in 0..n /\ i \in 0..n
      BY <1>1
    <3> HIDE DEF n
    <3> QED
      BY <1>4, <3>1, <3>2
  <2>4. i * RequestTimeout \in Int /\ (i - 1) * RequestTimeout \in Int
    BY <1>1
  <2>5. MaxDelay(p, i) \in Nat
    BY Delays
  <2> HIDE DEF u
  <2> QED
    BY <1>1, <2>1, <2>2, <2>3, <2>4, <2>5
<1>8. Longest(p) = u[n] + RequestTimeout
  <2>1. u[n] = n * RequestTimeout + t[n] /\ n * RequestTimeout \in Int /\ t[n] \in Nat
    BY <1>1
  <2>2. CASE p.max >= 1
    <3>1. (n + 1) * RequestTimeout = n * RequestTimeout + RequestTimeout
      BY <1>1
    <3>2. Longest(p) = (n + 1) * RequestTimeout + t[n]
      BY <1>3, <1>4, <2>2
    <3> HIDE DEF u, n
    <3> QED
      BY <1>1, <2>1, <3>1, <3>2
  <2>3. CASE ~ (p.max >= 1)
    <3>1. n = 0 /\ Longest(p) = RequestTimeout
      BY <2>3, OneAttempt
    <3> HIDE DEF u, n
    <3> QED
      BY <1>1, <1>5, <3>1
  <2> QED
    BY <2>2, <2>3
<1> HIDE DEF u
<1>9. \A i \in 0..n : u[i] <= u[n]
  <2> DEFINE T == {j \in 0..n : ~ (u[n - j] <= u[n])}
  <2>1. T = {}
    <3> SUFFICES ASSUME T # {} PROVE FALSE
      OBVIOUS
    <3>1. PICK j \in T : \A k \in T : j <= k
      <4>1. T \subseteq Nat
        OBVIOUS
      <4> HIDE DEF T
      <4> QED
        BY <4>1, LeastNumber
    <3>2. j \in Nat /\ j <= n /\ ~ (u[n - j] <= u[n]) /\ n \in Nat
      BY <1>1, <3>1
    <3>2a. j # 0
      <4>1. n - 0 = n /\ u[n] \in Nat
        BY <1>1, <1>6
      <4> HIDE DEF n
      <4>2. u[n] <= u[n]
        BY <4>1
      <4> QED
        BY <3>2, <4>1, <4>2
    <3>2b. j - 1 \in 0..n /\ j - 1 \notin T
      <4> HIDE DEF n, T
      <4> QED
        BY ONLY <3>1, <3>2, <3>2a
    <3> DEFINE i == n - j + 1
    <3>3. i \in 1..n /\ i \in Nat \ {0} /\ i - 1 = n - j /\ i = n - (j - 1)
      <4> HIDE DEF n
      <4> QED
        BY ONLY <3>2, <3>2a DEF i
    <3>4. u[i] <= u[n] /\ ~ (u[i - 1] <= u[n])
      <4> HIDE DEF n, i
      <4> QED
        BY <3>2, <3>2b, <3>3
    <3> HIDE DEF i
    <3>5. u[i] = u[i - 1] + RequestTimeout + MaxDelay(p, i)
      BY <1>7, <3>3
    <3>6. MaxDelay(p, i) \in Nat
      BY <3>3, Delays
    <3>7. u[i - 1] \in Nat /\ u[i] \in Nat /\ u[n] \in Nat
      <4> HIDE DEF n
      <4>1. i - 1 \in 0..n /\ i \in 0..n /\ n \in 0..n
        BY ONLY <3>2, <3>3
      <4> QED
        BY <1>6, <4>1
    <3> DEFINE a == u[i - 1]
               b == u[i]
               c == u[n]
               m == MaxDelay(p, i)
    <3>8. a \in Nat /\ b \in Nat /\ c \in Nat /\ m \in Nat /\ RequestTimeout \in Nat
      BY <1>1, <3>6, <3>7
    <3>9. b = a + RequestTimeout + m /\ b <= c /\ ~ (a <= c)
      BY <3>4, <3>5
    <3> HIDE DEF a, b, c, m
    <3> QED
      BY ONLY <3>8, <3>9
  <2>2. ASSUME NEW i \in 0..n PROVE u[i] <= u[n]
    <3>1. n - i \in 0..n /\ n - i \notin T /\ n - (n - i) = i
      BY <1>1, <2>1
    <3> QED
      BY <3>1
  <2> QED
    BY <2>2
<1>10. Schedule(p, u)
  BY <1>5, <1>6, <1>7, <1>8, <1>9 DEF Schedule
<1> QED
  BY <1>10 DEF Budget

-----------------------------------------------------------------------------
(* The inductive invariant *)

(* WithinLongestCall, of a call that is made in any case, too *)
WithinLongest == elapsed - began <= Longest(policy)

(* A call is within its schedule and its deadline; only one that began with *)
(* less than Longest to go returns the context's error.                     *)
OnSchedule ==
    /\ elapsed <= Deadline
    /\ pc = "wait" => attempt < MaxAttempts(policy)
    /\ pc \in {"check", "send"} => elapsed <= began + Budget(policy)[attempt - 1]
    /\ pc = "wait" => elapsed <= began + Budget(policy)[attempt - 1] + RequestTimeout
    /\ WithinLongest
    /\ result.err = "context" => pc = "done" /\ Deadline < began + Longest(policy)

(* Until a call ends there are no verdicts, and no more answers than attempts. *)
NoVerdictYet ==
    /\ pc # "done" => \A i \in 1..Len(answers) : answers[i] = "api5xx"
    /\ pc \in {"check", "send"} => Len(answers) < attempt
    /\ pc = "wait" => Len(answers) <= attempt
    /\ VerdictIsFinal
    /\ AttemptsReported

ClientInv == TypeOK /\ OnSchedule /\ NoVerdictYet

(* The schedule, as the steps need it *)
LEMMA Room ==
    ASSUME policy \in Policies
    PROVE  /\ MaxAttempts(policy) \in Nat \ {0} /\ RequestTimeout \in Nat \ {0}
           /\ Longest(policy) \in Nat
           /\ Budget(policy)[0] = 0
           /\ \A k \in 0..(MaxAttempts(policy) - 1) :
                /\ Budget(policy)[k] \in Nat
                /\ Budget(policy)[k] + RequestTimeout <= Longest(policy)
           /\ \A k \in 1..(MaxAttempts(policy) - 1) : \A delay \in BackoffFor(policy, k) :
                /\ delay \in Nat
                /\ Budget(policy)[k - 1] + RequestTimeout + delay <= Budget(policy)[k]
<1> DEFINE n == MaxAttempts(policy) - 1
           u == Budget(policy)
<1>1. MaxAttempts(policy) \in Nat \ {0} /\ RequestTimeout \in Nat \ {0} /\ n \in Nat
  BY OneAttempt, ClientAssumption
<1>2. Schedule(policy, u)
  BY Budgeted
<1> HIDE DEF u
<1>3. /\ u \in [0..n -> Nat] /\ u[0] = 0 /\ u[n] \in Nat
      /\ \A k \in 1..n : u[k] = u[k - 1] + RequestTimeout + MaxDelay(policy, k)
      /\ \A k \in 0..n : u[k] <= u[n]
      /\ Longest(policy) = u[n] + RequestTimeout
  BY <1>1, <1>2 DEF Schedule
<1>4. \A k \in 0..n : u[k] \in Nat /\ u[k] + RequestTimeout <= Longest(policy)
  <2> SUFFICES ASSUME NEW k \in 0..n
               PROVE  u[k] \in Nat /\ u[k] + RequestTimeout <= Longest(policy)
    OBVIOUS
  <2> HIDE DEF n
  <2>1. u[k] \in Nat /\ u[k] <= u[n]
    BY <1>3
  <2> QED
    BY <1>1, <1>3, <2>1
<1>5. ASSUME NEW k \in 1..n, NEW delay \in BackoffFor(policy, k)
      PROVE  delay \in Nat /\ u[k - 1] + RequestTimeout + delay <= u[k]
  <2>1. k \in Nat \ {0} /\ k - 1 \in 0..n
    BY <1>1
  <2>2. delay \in Nat /\ delay <= MaxDelay(policy, k) /\ MaxDelay(policy, k) \in Nat
    BY <2>1, Delays
  <2>3. u[k - 1] \in Nat /\ u[k] = u[k - 1] + RequestTimeout + MaxDelay(policy, k)
    BY <1>3, <2>1
  <2> QED
    BY <1>1, <2>2, <2>3
<1>6. Longest(policy) \in Nat
  BY <1>1, <1>3
<1> QED
  BY <1>1, <1>3, <1>4, <1>5, <1>6 DEF u

(* The deadline of a call and of the next *)
LEMMA Deadlines ==
    ASSUME timeout \in Nat, began \in Nat, timeout' \in Nat, began' \in Nat
    PROVE  /\ Deadline \in Nat /\ Deadline <= timeout
           /\ began <= timeout => began <= Deadline
           /\ Deadline' \in Nat /\ Deadline' <= timeout'
           /\ began' <= timeout' => began' <= Deadline'
<1>1. ProbeTimeout \in Nat /\ began + ProbeTimeout \in Int /\ began' + ProbeTimeout \in Int
  BY ClientAssumption
<1>2. /\ Deadline \in {timeout, began + ProbeTimeout}
      /\ Deadline <= timeout
  BY <1>1, MinPair DEF Deadline
<1>3. /\ Deadline' \in {timeout', began' + ProbeTimeout}
      /\ Deadline' <= timeout'
  BY <1>1, MinPair DEF Deadline
<1>4. ASSUME NEW t \in Nat, NEW b \in Nat, NEW x \in {t, b + ProbeTimeout}
      PROVE  x \in Nat /\ (b <= t => b <= x)
  BY <1>1
<1> QED
  BY <1>2, <1>3, <1>4

(* A pass begins with a schedule it has used nothing of. *)
LEMMA InitClientInv == Init => ClientInv
<1> SUFFICES ASSUME Init PROVE ClientInv
  OBVIOUS
<1>1. policy \in Policies /\ timeout \in Nat /\ timeout \in ReconcileTimeouts
  BY ClientAssumption DEF Init
<1>2. TypeOK
  BY <1>1, Room, ClientAssumption DEF Init, TypeOK, ErrorKinds
<1>3. elapsed <= Deadline
  <2>1. Deadline \in {timeout, began + ProbeTimeout}
    BY <1>1, MinPair, ClientAssumption DEF Init, Deadline
  <2> QED
    BY <1>1, <2>1, ClientAssumption DEF Init
<1>4. OnSchedule
  BY <1>1, <1>3, Room DEF Init, OnSchedule, WithinLongest
<1>5. NoVerdictYet
  BY DEF Init, NoVerdictYet, VerdictIsFinal, AttemptsReported
<1> QED
  BY <1>2, <1>4, <1>5 DEF ClientInv

(* What doWithRetry's return does to the pass *)
LEMMA Returns ==
    ASSUME NEW e, NEW n, Return(e, n)
    PROVE  /\ result'.err = e /\ result'.attempts = n
           /\ \/ /\ e = "ok" /\ Len(todo) > 1 /\ todo' = Tail(todo)
                 /\ pc' = "check" /\ attempt' = 1 /\ began' = elapsed' /\ answers' = <<>>
              \/ /\ ~ (e = "ok" /\ Len(todo) > 1)
                 /\ pc' = "done" /\ UNCHANGED <<todo, attempt, began>>
  BY DEF Return

(* What the types say of the numbers *)
LEMMA Numbers ==
    ASSUME TypeOK
    PROVE  /\ policy \in Policies /\ timeout \in Nat /\ began \in Nat /\ elapsed \in Nat
           /\ elapsed <= timeout /\ began <= elapsed
           /\ attempt \in Nat /\ 1 <= attempt /\ attempt <= MaxAttempts(policy)
           /\ MaxAttempts(policy) \in Nat /\ attempt - 1 \in 0..(MaxAttempts(policy) - 1)
           /\ RequestTimeout \in Nat /\ 0 < RequestTimeout
           /\ Deadline \in Nat /\ Deadline <= timeout
<1>1. policy \in Policies /\ timeout \in Nat /\ MaxAttempts(policy) \in Nat \ {0}
  BY OneAttempt, ClientAssumption DEF TypeOK
<1>2. began \in Nat /\ elapsed \in Nat /\ elapsed <= timeout /\ began <= elapsed
  BY <1>1 DEF TypeOK
<1>3. attempt \in Nat /\ 1 <= attempt /\ attempt <= MaxAttempts(policy)
  BY <1>1 DEF TypeOK
<1>4. Deadline \in {timeout, began + ProbeTimeout} /\ Deadline <= timeout
  BY <1>1, <1>2, MinPair, ClientAssumption DEF Deadline
<1> QED
  BY <1>1, <1>2, <1>3, <1>4, ClientAssumption

(* The context's error ends a call that had less than Longest to go. *)
LEMMA CheckContextInv == ClientInv /\ CheckContext => ClientInv'
<1> SUFFICES ASSUME ClientInv, CheckContext PROVE ClientInv'
  OBVIOUS
<1> USE DEF config
<1>t. TypeOK /\ OnSchedule /\ NoVerdictYet
  BY DEF ClientInv
<1>0. /\ pc = "check" /\ UNCHANGED <<policy, timeout, todo, attempt, err, elapsed, began, answers>>
      /\ \/ pc' = "send" /\ elapsed # Deadline /\ UNCHANGED result
         \/ /\ pc' = "done" /\ elapsed = Deadline
            /\ result'.err = "context" /\ result'.attempts = 0
  BY Returns DEF CheckContext
<1>1. TypeOK'
  BY <1>t, <1>0, Numbers DEF TypeOK
<1>2. Deadline' = Deadline
  BY <1>0 DEF Deadline
<1>3. elapsed < began + Longest(policy)
  BY <1>t, <1>0, Numbers, Room DEF OnSchedule
<1>4. OnSchedule'
  BY <1>t, <1>0, <1>2, <1>3 DEF OnSchedule, WithinLongest
<1>5. NoVerdictYet'
  <2>1. \A i \in 1..Len(answers) : answers[i] = "api5xx"
    BY <1>t, <1>0 DEF NoVerdictYet
  <2> QED
    BY <1>t, <1>0, <2>1 DEF NoVerdictYet, VerdictIsFinal, AttemptsReported
<1> QED
  BY <1>1, <1>4, <1>5 DEF ClientInv

(* Judging an attempt keeps the call on its schedule, or ends it there. *)
LEMMA Judged ==
    ASSUME ClientInv, pc = "send", NEW e \in ErrorKinds, Judge(e), err' = e, UNCHANGED config,
           elapsed' \in Nat, elapsed <= elapsed', elapsed' <= Deadline,
           elapsed' <= elapsed + RequestTimeout, answers' \in Seq(ErrorKinds)
    PROVE  TypeOK' /\ OnSchedule'
<1> USE DEF config
<1>t. TypeOK /\ OnSchedule
  BY DEF ClientInv
<1>c. result.err # "context"
  BY <1>t DEF OnSchedule
<1>1. elapsed' <= began + Budget(policy)[attempt - 1] + RequestTimeout
  <2> DEFINE u == Budget(policy)[attempt - 1]
  <2>1. u \in Nat /\ began \in Nat /\ elapsed \in Nat /\ RequestTimeout \in Nat
    BY <1>t, Numbers, Room
  <2>2. elapsed <= began + u
    BY <1>t DEF OnSchedule
  <2> HIDE DEF u
  <2>3. elapsed' <= began + u + RequestTimeout
    BY <2>1, <2>2
  <2> QED
    BY <2>3 DEF u
<1>2. elapsed' <= began + Longest(policy)
  <2> DEFINE u == Budget(policy)[attempt - 1]
             l == Longest(policy)
  <2>1. /\ u \in Nat /\ l \in Nat /\ u + RequestTimeout <= l
        /\ began \in Nat /\ elapsed' \in Nat /\ RequestTimeout \in Nat
    BY <1>t, Numbers, Room
  <2>2. elapsed' <= began + u + RequestTimeout
    BY <1>1
  <2> HIDE DEF u, l
  <2>3. elapsed' <= began + l
    BY ONLY <2>1, <2>2
  <2> QED
    BY <2>3 DEF l
<1>3. Annotated(e, attempt) \in 0..MaxAttempts(policy)
  BY <1>t, Numbers DEF Annotated
<1>4. CASE pc' = "wait" /\ attempt # MaxAttempts(policy) /\ UNCHANGED <<todo, attempt, began, result>>
  <2>1. Deadline' = Deadline
    BY <1>4 DEF Deadline
  <2>2. TypeOK'
    BY <1>t, <1>4, Numbers DEF TypeOK
  <2>3. attempt < MaxAttempts(policy)
    BY <1>t, <1>4, Numbers
  <2>4. OnSchedule'
    <3>1. elapsed' <= Deadline' /\ result'.err # "context"
      BY <1>c, <1>4, <2>1
    <3>2. elapsed' - began' <= Longest(policy')
      BY <1>t, <1>2, <1>4, Numbers, Room
    <3> QED
      BY <1>1, <1>4, <2>3, <3>1, <3>2 DEF OnSchedule, WithinLongest
  <2> QED
    BY <2>2, <2>4
<1>5. CASE Return(e, Annotated(e, attempt))
  <2>1. result'.err = e /\ result'.attempts = Annotated(e, attempt) /\ e # "context"
    BY <1>5, Returns DEF ErrorKinds
  <2>2. CASE pc' = "done" /\ UNCHANGED <<todo, attempt, began>>
    <3>1. Deadline' = Deadline
      BY <2>2 DEF Deadline
    <3>2. TypeOK'
      BY <1>t, <1>3, <2>1, <2>2, Numbers DEF TypeOK
    <3>3. elapsed' - began' <= Longest(policy')
      BY <1>t, <1>2, <2>2, Numbers, Room
    <3>4. OnSchedule'
      BY <2>1, <2>2, <3>1, <3>3 DEF OnSchedule, WithinLongest
    <3> QED
      BY <3>2, <3>4
  <2>3. CASE /\ Len(todo) > 1 /\ todo' = Tail(todo)
             /\ pc' = "check" /\ attempt' = 1 /\ began' = elapsed'
    <3>1. todo' \in Seq(Endpoints)
      BY <1>t, <2>3 DEF TypeOK
    <3>2. elapsed' <= timeout
      BY <1>t, Numbers
    <3>3. TypeOK'
      BY <1>t, <1>3, <2>1, <2>3, <3>1, <3>2, Numbers DEF TypeOK
    <3>4. elapsed' <= Deadline'
      BY <1>t, <2>3, <3>2, Numbers, Deadlines
    <3>5. elapsed' <= began' + Budget(policy')[attempt' - 1]
      <4>1. elapsed' \in Nat /\ began' = elapsed' /\ policy' = policy /\ attempt' - 1 = 0
        BY <2>3
      <4>2. Budget(policy)[0] = 0
        BY <1>t, Numbers, Room
      <4> QED
        BY <4>1, <4>2
    <3>6. elapsed' - began' <= Longest(policy')
      <4>1. elapsed' \in Nat /\ began' = elapsed' /\ policy' = policy
        BY <2>3
      <4>2. Longest(policy) \in Nat
        BY <1>t, Numbers, Room
      <4> QED
        BY <4>1, <4>2
    <3> QED
      BY <2>1, <2>3, <3>3, <3>4, <3>5, <3>6 DEF OnSchedule, WithinLongest
  <2> QED
    BY <1>5, <2>2, <2>3, Returns
<1> QED
  BY <1>4, <1>5 DEF Judge

(* How long an attempt may take *)
LEMMA Patient ==
    ASSUME TypeOK, elapsed <= Deadline,
           NEW d \in {x \in Durations : x < Patience} \cup {Patience}
    PROVE  d \in Nat /\ d <= RequestTimeout /\ elapsed + d <= Deadline
<1>1. elapsed \in Nat /\ Deadline \in Nat /\ RequestTimeout \in Nat
  BY Numbers
<1>2. Patience \in {RequestTimeout, Deadline - elapsed}
      /\ Patience <= RequestTimeout /\ Patience <= Deadline - elapsed
  BY <1>1, MinPair DEF Patience
<1>3. d \in Int /\ 0 <= d /\ d <= Patience /\ Patience \in Int
  BY <1>1, <1>2, ClientAssumption
<1> QED
  BY <1>1, <1>2, <1>3

(* No history, and one that ends with the error of the last attempt: the *)
(* two that an attempt leaves.                                           *)
LEMMA Verdicts ==
    ASSUME NEW s \in Seq(ErrorKinds), NEW e \in ErrorKinds,
           \A i \in 1..Len(s) : s[i] = "api5xx"
    PROVE  /\ Append(s, e) \in Seq(ErrorKinds)
           /\ Len(s) \in Nat /\ Len(Append(s, e)) = Len(s) + 1
           /\ Append(s, e)[Len(s) + 1] = e
           /\ e = "api5xx" => \A i \in 1..(Len(s) + 1) : Append(s, e)[i] = "api5xx"
           /\ e # "api5xx" =>
                {i \in 1..(Len(s) + 1) : Append(s, e)[i] # "api5xx"} = {Len(s) + 1}
<1>1. /\ Append(s, e) \in Seq(ErrorKinds)
      /\ Len(s) \in Nat /\ Len(Append(s, e)) = Len(s) + 1
      /\ Append(s, e)[Len(s) + 1] = e
      /\ \A i \in 1..Len(s) : Append(s, e)[i] = "api5xx"
  OBVIOUS
<1>2. \A i \in 1..(Len(s) + 1) : i = Len(s) + 1 \/ Append(s, e)[i] = "api5xx"
  BY <1>1
<1> QED
  BY <1>1, <1>2

(* A server that answers is heard, and a verdict ends the call with it. *)
LEMMA AnsweredInv == ClientInv /\ Answered => ClientInv'
<1> SUFFICES ASSUME ClientInv, Answered PROVE ClientInv'
  OBVIOUS
<1> USE DEF config
<1>t. TypeOK /\ OnSchedule /\ NoVerdictYet
  BY DEF ClientInv
<1> DEFINE e == err'
<1>1. PICK status \in Statuses, decodes \in BOOLEAN, d \in Durations :
         /\ d < Patience
         /\ elapsed' = elapsed + d
         /\ e = Classify(Head(todo), status, decodes)
         /\ Judge(e)
         /\ answers' = IF e = "ok" /\ Len(todo) > 1 THEN <<>> ELSE Append(answers, e)
  BY DEF Answered
<1>2. pc = "send" /\ UNCHANGED config
  BY DEF Answered
<1>3. e \in ErrorKinds /\ e # "transport"
  BY <1>1 DEF Classify, ErrorKinds
<1>4. d \in Nat /\ d <= RequestTimeout /\ elapsed + d <= Deadline
  BY <1>t, <1>1, Patient DEF OnSchedule
<1>5. /\ answers \in Seq(ErrorKinds) /\ Len(answers) < attempt /\ attempt \in Nat
      /\ \A i \in 1..Len(answers) : answers[i] = "api5xx"
  BY <1>t, <1>2, Numbers DEF TypeOK, NoVerdictYet
<1>6. answers' \in Seq(ErrorKinds)
  BY <1>1, <1>3, <1>5, Verdicts
<1>7. TypeOK' /\ OnSchedule'
  <2>1. elapsed' \in Nat /\ elapsed <= elapsed' /\ elapsed' <= Deadline
        /\ elapsed' <= elapsed + RequestTimeout
    <3>1. elapsed \in Nat /\ RequestTimeout \in Nat /\ elapsed' = elapsed + d
      BY <1>t, <1>1, Numbers
    <3>2. Deadline \in Int
      BY <1>t, Numbers
    <3> QED
      BY <1>4, <3>1, <3>2
  <2> HIDE DEF e
  <2>2. err' = e
    BY DEF e
  <2> QED
    BY <1>1, <1>2, <1>3, <1>6, <2>1, <2>2, Judged
<1>8. NoVerdictYet'
  <2> HIDE DEF e
  <2>1. CASE pc' = "wait" /\ e = "api5xx" /\ UNCHANGED attempt
    <3>1. answers' = Append(answers, e)
      BY <1>1, <2>1
    <3>2. Len(answers') <= attempt /\ \A i \in 1..Len(answers') : answers'[i] = "api5xx"
      BY <1>3, <1>5, <2>1, <3>1, Verdicts
    <3> QED
      BY <2>1, <3>2 DEF NoVerdictYet, VerdictIsFinal, AttemptsReported
  <2>2. CASE Return(e, Annotated(e, attempt)) /\ e = "ok" /\ Len(todo) > 1
    <3>1. answers' = <<>> /\ pc' = "check" /\ attempt' = 1
      BY <2>2, Returns
    <3> QED
      BY <3>1 DEF NoVerdictYet, VerdictIsFinal, AttemptsReported
  <2>3. CASE Return(e, Annotated(e, attempt)) /\ ~ (e = "ok" /\ Len(todo) > 1)
    <3>1. /\ answers' = Append(answers, e) /\ pc' = "done" /\ attempt' = attempt
          /\ result'.err = e /\ result'.attempts = Annotated(e, attempt)
      BY <1>1, <2>3, Returns
    <3>2. /\ Len(answers') = Len(answers) + 1 /\ Len(answers) \in Nat
          /\ answers'[Len(answers')] = e
          /\ e = "api5xx" => \A i \in 1..Len(answers') : answers'[i] = "api5xx"
          /\ e # "api5xx" =>
               {i \in 1..Len(answers') : answers'[i] # "api5xx"} = {Len(answers')}
      BY <1>3, <1>5, <3>1, Verdicts
    <3>3. VerdictIsFinal'
      BY <3>1, <3>2 DEF VerdictIsFinal, Last
    <3>4. AttemptsReported'
      BY <1>5, <3>1, <3>2 DEF AttemptsReported, Annotated
    <3> QED
      BY <3>1, <3>3, <3>4 DEF NoVerdictYet
  <2> QED
    BY <1>1, <1>3, <2>1, <2>2, <2>3 DEF Judge, IsRetriable
<1> QED
  BY <1>7, <1>8 DEF ClientInv

(* A request that is refused or cut off leaves nothing but its attempt. *)
LEMMA UnansweredInv == ClientInv /\ Unanswered => ClientInv'
<1> SUFFICES ASSUME ClientInv, Unanswered PROVE ClientInv'
  OBVIOUS
<1> USE DEF config
<1>t. TypeOK /\ OnSchedule /\ NoVerdictYet
  BY DEF ClientInv
<1>1. PICK d \in {x \in Durations : x < Patience} \cup {Patience} : elapsed' = elapsed + d
  BY DEF Unanswered
<1>2. /\ pc = "send" /\ err' = "transport" /\ Judge("transport")
      /\ UNCHANGED config /\ UNCHANGED answers
  BY DEF Unanswered
<1>3. d \in Nat /\ d <= RequestTimeout /\ elapsed + d <= Deadline
  BY <1>t, Patient DEF OnSchedule
<1>4. /\ answers \in Seq(ErrorKinds) /\ Len(answers) < attempt /\ attempt \in Nat
      /\ \A i \in 1..Len(answers) : answers[i] = "api5xx"
  BY <1>t, <1>2, Numbers DEF TypeOK, NoVerdictYet
<1>5. TypeOK' /\ OnSchedule'
  <2>1. elapsed' \in Nat /\ elapsed <= elapsed' /\ elapsed' <= Deadline
        /\ elapsed' <= elapsed + RequestTimeout
    BY <1>t, <1>1, <1>3, Numbers
  <2>2. "transport" \in ErrorKinds
    BY DEF ErrorKinds
  <2> QED
    BY <1>2, <1>4, <2>1, <2>2, Judged
<1>6. /\ attempt' = attempt
      /\ \/ pc' = "wait"
         \/ pc' = "done" /\ result'.err = "transport" /\ result'.attempts = attempt
  BY <1>2, Returns DEF Judge, Annotated
<1>7. NoVerdictYet'
  <2>1. \A i \in 1..Len(answers') : answers'[i] = "api5xx"
    BY <1>2, <1>4
  <2>2. Len(answers') \in Nat /\ Len(answers') <= attempt'
    BY <1>2, <1>4, <1>6
  <2> QED
    BY <1>6, <2>1, <2>2 DEF NoVerdictYet, VerdictIsFinal, AttemptsReported
<1> QED
  BY <1>5, <1>7 DEF ClientInv

(* The delay before the next attempt is in the schedule; when the deadline *)
(* cuts it short, the call had less than Longest from its start.           *)
LEMMA WaitInv == ClientInv /\ Wait => ClientInv'
<1> SUFFICES ASSUME ClientInv, Wait PROVE ClientInv'
  OBVIOUS
<1> USE DEF config
<1>t. TypeOK /\ OnSchedule /\ NoVerdictYet
  BY DEF ClientInv
<1>1. PICK delay \in BackoffFor(policy, attempt) :
         \/ /\ delay = 0 \/ elapsed + delay <= Deadline
            /\ elapsed' = elapsed + delay
            /\ attempt' = attempt + 1
            /\ pc' = "check"
            /\ UNCHANGED <<todo, began, result>>
         \/ /\ delay > 0 /\ elapsed + delay >= Deadline
            /\ elapsed' = Deadline
            /\ Return("context", 0)
  BY DEF Wait
<1>2. pc = "wait" /\ UNCHANGED <<policy, timeout, err, answers>>
  BY DEF Wait
<1>3. /\ MaxAttempts(policy) \in Nat /\ attempt \in Nat /\ 1 <= attempt /\ attempt < MaxAttempts(policy)
      /\ attempt \in 1..(MaxAttempts(policy) - 1) /\ attempt \in 0..(MaxAttempts(policy) - 1)
  BY <1>t, <1>2, Numbers DEF OnSchedule
<1> DEFINE used   == Budget(policy)[attempt - 1]
           budget == Budget(policy)[attempt]
<1>4. /\ delay \in Nat /\ used \in Nat /\ budget \in Nat
      /\ used + RequestTimeout + delay <= budget
      /\ budget + RequestTimeout <= Longest(policy) /\ Longest(policy) \in Nat
  <2>1. policy \in Policies /\ attempt - 1 \in 0..(MaxAttempts(policy) - 1)
    BY <1>t, <1>3 DEF TypeOK
  <2> QED
    BY <1>3, <2>1, Room
<1>5. elapsed <= began + used + RequestTimeout
  BY <1>t, <1>2 DEF OnSchedule
<1> HIDE DEF used, budget
<1>6. elapsed + delay <= began + budget
  BY <1>t, <1>4, <1>5, Numbers
<1>7. CASE /\ delay = 0 \/ elapsed + delay <= Deadline
           /\ elapsed' = elapsed + delay
           /\ attempt' = attempt + 1
           /\ pc' = "check"
           /\ UNCHANGED <<todo, began, result>>
  <2>1. Deadline' = Deadline
    BY <1>2, <1>7 DEF Deadline
  <2>2. elapsed' \in Nat /\ elapsed <= elapsed' /\ elapsed' <= Deadline
    BY <1>t, <1>4, <1>7, Numbers DEF OnSchedule
  <2>3. attempt' \in 1..MaxAttempts(policy) /\ attempt' - 1 = attempt
    BY <1>3, <1>7
  <2>4. TypeOK'
    BY <1>t, <1>2, <1>7, <2>2, <2>3, Numbers DEF TypeOK
  <2>5. OnSchedule'
    <3>1. elapsed' - began' <= Longest(policy')
      BY <1>t, <1>2, <1>4, <1>6, <1>7, Numbers
    <3>2. elapsed' <= began' + Budget(policy')[attempt' - 1]
      BY <1>2, <1>6, <1>7, <2>3 DEF budget
    <3>3. elapsed' <= Deadline' /\ result'.err # "context"
      BY <1>t, <1>2, <1>7, <2>1, <2>2 DEF OnSchedule
    <3> QED
      BY <1>7, <3>1, <3>2, <3>3 DEF OnSchedule, WithinLongest
  <2>6. NoVerdictYet'
    <3>1. \A i \in 1..Len(answers') : answers'[i] = "api5xx"
      BY <1>t, <1>2 DEF NoVerdictYet
    <3>2. Len(answers') < attempt'
      <4>1. Len(answers) \in Nat /\ Len(answers) <= attempt
        BY <1>t, <1>2 DEF TypeOK, NoVerdictYet
      <4> QED
        BY <1>2, <1>3, <1>7, <4>1
    <3> QED
      BY <1>7, <3>1, <3>2 DEF NoVerdictYet, VerdictIsFinal, AttemptsReported
  <2> QED
    BY <2>4, <2>5, <2>6 DEF ClientInv
<1>8. CASE /\ delay > 0 /\ elapsed + delay >= Deadline
           /\ elapsed' = Deadline
           /\ Return("context", 0)
  <2>1. /\ pc' = "done" /\ UNCHANGED <<todo, attempt, began>>
        /\ result'.err = "context" /\ result'.attempts = 0
    BY <1>8, Returns
  <2>2. Deadline' = Deadline
    BY <1>2, <2>1 DEF Deadline
  <2>3. elapsed' \in Nat /\ elapsed <= elapsed' /\ elapsed' <= timeout
    BY <1>t, <1>8, Numbers DEF OnSchedule
  <2>4. TypeOK'
    BY <1>t, <1>2, <2>1, <2>3, Numbers DEF TypeOK
  <2>5. Deadline < began + Longest(policy)
    BY <1>t, <1>4, <1>6, <1>8, Numbers
  <2>6. OnSchedule'
    <3>1. elapsed' - began' <= Longest(policy')
      BY <1>t, <1>2, <1>4, <1>8, <2>1, <2>5, Numbers
    <3>2. elapsed' <= Deadline' /\ Deadline' < began' + Longest(policy')
      BY <1>t, <1>2, <1>8, <2>1, <2>2, <2>5, Numbers
    <3> QED
      BY <2>1, <3>1, <3>2 DEF OnSchedule, WithinLongest
  <2>7. NoVerdictYet'
    <3>1. \A i \in 1..Len(answers') : answers'[i] = "api5xx"
      BY <1>t, <1>2 DEF NoVerdictYet
    <3> QED
      BY <2>1, <3>1 DEF NoVerdictYet, VerdictIsFinal, AttemptsReported
  <2> QED
    BY <2>4, <2>6, <2>7 DEF ClientInv
<1> QED
  BY <1>1, <1>7, <1>8

(* Nothing but the client's steps moves the pass. *)
LEMMA NextClientInv == ClientInv /\ [Next]_vars => ClientInv'
<1> SUFFICES ASSUME ClientInv, [Next]_vars PROVE ClientInv'
  OBVIOUS
<1>1. CASE Next
  BY <1>1, CheckContextInv, AnsweredInv, UnansweredInv, WaitInv DEF Next
<1>2. CASE UNCHANGED vars
  <2>1. TypeOK' = TypeOK
    BY <1>2 DEF vars, config, TypeOK
  <2>2. OnSchedule' = OnSchedule
    BY <1>2 DEF vars, config, OnSchedule, WithinLongest, Deadline
  <2>3. NoVerdictYet' = NoVerdictYet
    BY <1>2 DEF vars, config, NoVerdictYet, VerdictIsFinal, AttemptsReported
  <2> QED
    BY <2>1, <2>2, <2>3 DEF ClientInv
<1> QED
  BY <1>1, <1>2

-----------------------------------------------------------------------------
(* Theorems *)

(***************************************************************************)
(* Every pass of every client keeps its types: no call is numbered past    *)
(* its policy's cap, and no pass outlives its deadline.                    *)
(***************************************************************************)
THEOREM TypeCorrect == Spec => []TypeOK
<1>1. ClientInv => TypeOK
  BY DEF ClientInv
<1> QED
  BY <1>1, InitClientInv, NextClientInv, PTL DEF Spec

(***************************************************************************)
(* LongestCall is what its comment says, of every retry policy that asks   *)
(* for an attempt: however the answers, refusals and jittered delays of    *)
(* doWithRetry fall, a call takes no longer.                               *)
(***************************************************************************)
THEOREM CallsWithinLongest == Spec => []WithinLongestCall
<1>1. ClientInv => WithinLongestCall
  BY OneAttempt DEF ClientInv, TypeOK, OnSchedule, WithinLongest, WithinLongestCall
<1> QED
  BY <1>1, InitClientInv, NextClientInv, PTL DEF Spec

(***************************************************************************)
(* A deadline that validateReconcileTimeout accepts spares the calls that  *)
(* begin with LongestCall to go: every attempt has http.Client's timeout   *)
(* in full, and none of them returns the context's error.                  *)
(***************************************************************************)
THEOREM DeadlineSpares == Spec => []DeadlineSparesCalls
<1>1. ClientInv => DeadlineSparesCalls
  <2> SUFFICES ASSUME ClientInv, policy.max >= 1, began + LongestCall(policy) <= Deadline
               PROVE  /\ pc = "send" => Deadline - elapsed >= RequestTimeout
                      /\ result.err # "context"
    BY DEF DeadlineSparesCalls
  <2>1. TypeOK /\ OnSchedule
    BY DEF ClientInv
  <2>1a. LongestCall(policy) = Longest(policy)
    BY <2>1, OneAttempt DEF TypeOK
  <2>2. /\ LongestCall(policy) \in Nat /\ Budget(policy)[attempt - 1] \in Nat
        /\ Budget(policy)[attempt - 1] + RequestTimeout <= LongestCall(policy)
    BY <2>1, <2>1a, Numbers, Room
  <2>3. result.err # "context"
    BY <2>1, <2>1a, <2>2, Numbers DEF OnSchedule
  <2>4. ASSUME pc = "send" PROVE Deadline - elapsed >= RequestTimeout
    <3>1. elapsed <= began + Budget(policy)[attempt - 1]
      BY <2>1, <2>4 DEF OnSchedule
    <3> QED
      BY <2>1, <2>2, <3>1, Numbers
  <2> QED
    BY <2>3, <2>4
<1> QED
  BY <1>1, InitClientInv, NextClientInv, PTL DEF Spec

(***************************************************************************)
(* What the server said last is what the call returns: doWithRetry loses   *)
(* no verdict to a retry or to the deadline.                               *)
(***************************************************************************)
THEOREM VerdictsFinal == Spec => []VerdictIsFinal
<1>1. ClientInv => VerdictIsFinal
  BY DEF ClientInv, NoVerdictYet
<1> QED
  BY <1>1, InitClientInv, NextClientInv, PTL DEF Spec

(***************************************************************************)
(* annotateAttempts counts the requests that were sent, and an API error   *)
(* was the answer to one of them.                                          *)
(***************************************************************************)
THEOREM AttemptsCounted == Spec => []AttemptsReported
<1>1. ClientInv => AttemptsReported
  BY DEF ClientInv, NoVerdictYet
<1> QED
  BY <1>1, InitClientInv, NextClientInv, PTL DEF Spec
=============================================================================
