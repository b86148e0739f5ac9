--------------------------- MODULE TransformsProofs ---------------------------
(***************************************************************************)
(* Proofs about Transforms: that entries stay entries, that no entry is    *)
(* lost to another, that of the leaves with one flat name the last is      *)
(* stored, and the lemmas about keys, the order of names and flattening    *)
(* that these need.                                                        *)
(***************************************************************************)
EXTENDS Transforms, SequenceTheorems, FiniteSetTheorems, WellFoundedInduction, TLAPS

-----------------------------------------------------------------------------
(* Keys *)

(* A set of numbers that is not empty has a least element. *)
LEMMA LeastNumber ==
    ASSUME NEW T, T \subseteq Nat, T # {}
    PROVE  \E x \in T : \A y \in T : x <= y
<1> DEFINE R == {ss \in Nat \X Nat : ss[1] < ss[2]}
<1>1. IsWellFoundedOn(R, Nat)
  BY NatLessThanWellFounded DEF OpToRel
<1>2. \A a, b \in Nat : a < b => <<a, b>> \in R
  OBVIOUS
<1> HIDE DEF R
<1>3. PICK x \in T : \A y \in T : ~ (<<y, x>> \in R)
  BY <1>1, WFMin
<1>4. ASSUME NEW y \in T PROVE x <= y
  <2>1. x \in Nat /\ y \in Nat /\ ~ (y < x)
    BY <1>2, <1>3
  <2> QED
    BY <2>1
<1> QED
  BY <1>3, <1>4

(* Upper case keys are keys. *)
LEMMA Upper == ASSUME NEW key \in Keys PROVE ToUpper(key) \in Keys
<1>1. /\ Len(key) \in Nat
      /\ \A i \in 1..Len(key) : key[i] \in Alphabet
  BY DEF Keys
<1>2. \A c \in Alphabet : Capital[c] \in Alphabet
  BY DEF Alphabet, Capital
<1>3. ToUpper(key) \in [1..Len(key) -> Alphabet]
  BY <1>1, <1>2 DEF ToUpper
<1> QED
  BY <1>1, <1>3 DEF Keys

(* Keys with an affix are keys, and they differ if the keys do. *)
LEMMA Affixes ==
    ASSUME NEW t, t.value \in Keys, NEW j \in Keys, NEW k \in Keys
    PROVE  /\ Affixed(k, t) \in Keys
           /\ Affixed(j, t) = Affixed(k, t) => j = k
<1>1. Affixed(k, t) \in Keys
  BY ConcatProperties DEF Affixed, Keys
<1>2. \A s, u, v \in Keys : (s \o u = s \o v => u = v) /\ (u \o s = v \o s => u = v)
  BY ONLY ConcatSimplifications, Zenon DEF Keys
<1> QED
  BY <1>1, <1>2 DEF Affixed

(* What an affix makes of entries *)
LEMMA AffixIs ==
    ASSUME NEW t, t.value \in Keys, NEW in, IsEntries(in)
    PROVE  /\ IsEntries(Affix(in, t))
           /\ DOMAIN Affix(in, t) = {Affixed(k, t) : k \in DOMAIN in}
           /\ \A k \in DOMAIN in : Affix(in, t)[Affixed(k, t)] = in[k]
<1>1. /\ DOMAIN in \subseteq Keys /\ \A k \in DOMAIN in : in[k] \in Texts
  BY DEF IsEntries
<1> DEFINE D == {Affixed(k, t) : k \in DOMAIN in}
           Of(a) == CHOOSE k \in DOMAIN in : Affixed(k, t) = a
<1>2. D \subseteq Keys
  BY <1>1, Affixes
<1>3. ASSUME NEW k \in DOMAIN in PROVE Of(Affixed(k, t)) = k
  <2>1. Of(Affixed(k, t)) \in DOMAIN in /\ Affixed(Of(Affixed(k, t)), t) = Affixed(k, t)
    BY Zenon
  <2> QED
    BY <1>1, <2>1, Affixes
<1>4. Affix(in, t) = [a \in D |-> in[Of(a)]]
  BY DEF Affix
<1> HIDE DEF Of
<1>5. \A a \in D : in[Of(a)] \in Texts
  BY <1>1, <1>3
<1> QED
  BY <1>2, <1>3, <1>4, <1>5 DEF IsEntries

-----------------------------------------------------------------------------
(* The order of names *)

(* Letters are told apart by their codes. *)
LEMMA Codes ==
    \A c, d \in Alphabet : Code(c) \in Nat /\ (Code(c) = Code(d) => c = d)
<1>1. \A c \in Alphabet : \E i \in DOMAIN Letters : Letters[i] = c
  <2>1. /\ DOMAIN Letters = 1..5
        /\ Letters[1] = "A" /\ Letters[2] = "B" /\ Letters[3] = "_"
        /\ Letters[4] = "a" /\ Letters[5] = "b"
    BY DEF Letters
  <2>2. 1 \in 1..5 /\ 2 \in 1..5 /\ 3 \in 1..5 /\ 4 \in 1..5 /\ 5 \in 1..5
    OBVIOUS
  <2> QED
    BY <2>1, <2>2 DEF Alphabet
<1>2. \A c \in Alphabet : Code(c) \in DOMAIN Letters /\ Letters[Code(c)] = c
  BY <1>1, Zenon DEF Code
<1>3. DOMAIN Letters \subseteq Nat
  BY DEF Letters
<1> QED
  BY <1>2, <1>3

(* Of two names one comes before the other. *)
LEMMA BeforeTotal ==
    ASSUME NEW s \in Keys, NEW t \in Keys, s # t
    PROVE  Before(s, t) \/ Before(t, s)
<1>1. /\ Len(s) \in Nat /\ Len(t) \in Nat
      /\ \A i \in 1..Len(s) : s[i] \in Alphabet
      /\ \A i \in 1..Len(t) : t[i] \in Alphabet
  BY DEF Keys
<1> DEFINE D == {i \in Nat : /\ 1 <= i /\ i <= Len(s) + 1 /\ i <= Len(t) + 1
                             /\ i <= Len(s) /\ i <= Len(t) => s[i] # t[i]}
<1>2. PICK i \in D : \A j \in D : i <= j
  <2>1. D # {}
    <3>1. CASE Len(s) <= Len(t)
      <4>1. Len(s) + 1 \in D
        BY <1>1, <3>1
      <4> QED
        BY <4>1
    <3>2. CASE Len(t) <= Len(s)
      <4>1. Len(t) + 1 \in D
        BY <1>1, <3>2
      <4> QED
        BY <4>1
    <3> QED
      BY <1>1, <3>1, <3>2
  <2>2. D \subseteq Nat
    OBVIOUS
  <2> HIDE DEF D
  <2> QED
    BY <2>1, <2>2, LeastNumber
<1>3. /\ i \in Nat /\ 1 <= i /\ i <= Len(s) + 1 /\ i <= Len(t) + 1
      /\ i <= Len(s) /\ i <= Len(t) => s[i] # t[i]
  BY <1>2
<1>4. \A j \in 1..(i - 1) : s[j] = t[j] /\ t[j] = s[j]
  <2> SUFFICES ASSUME NEW j \in 1..(i - 1) PROVE s[j] = t[j]
    OBVIOUS
  <2>1. j \in Nat /\ 1 <= j /\ j < i /\ j \notin D
    BY <1>2, <1>3
  <2> QED
    BY <1>1, <1>3, <2>1
<1> HIDE DEF D
<1>5. CASE i <= Len(s) /\ i <= Len(t)
  <2>1. Code(s[i]) \in Nat /\ Code(t[i]) \in Nat /\ Code(s[i]) # Code(t[i])
    BY <1>1, <1>3, <1>5, Codes
  <2>2. i \in (1..Len(t)) \cap (1..(Len(s) + 1)) /\ i \in (1..Len(s)) \cap (1..(Len(t) + 1))
    BY <1>1, <1>3, <1>5
  <2>3. Code(s[i]) < Code(t[i]) \/ Code(t[i]) < Code(s[i])
    BY <2>1
  <2> QED
    BY <1>4, <2>2, <2>3, Zenon DEF Before
<1>6. CASE i = Len(s) + 1 /\ i <= Len(t)
  <2>1. i \in (1..Len(t)) \cap (1..(Len(s) + 1)) /\ ~ (i <= Len(s))
    BY <1>1, <1>3, <1>6
  <2> QED
    BY <1>4, <2>1, Zenon DEF Before
<1>7. CASE i = Len(t) + 1 /\ i <= Len(s)
  <2>1. i \in (1..Len(s)) \cap (1..(Len(t) + 1)) /\ ~ (i <= Len(t))
    BY <1>1, <1>3, <1>7
  <2> QED
    BY <1>4, <2>1, Zenon DEF Before
<1>8. CASE i = Len(s) + 1 /\ i = Len(t) + 1
  <2>1. Len(s) = Len(t) /\ i - 1 = Len(s)
    BY <1>1, <1>8
  <2>2. s = t
    BY <1>4, <2>1, SeqEqual DEF Keys
  <2> QED
    BY <2>2
<1> QED
  BY <1>1, <1>3, <1>5, <1>6, <1>7, <1>8

(* What comes before a name comes before all that come after that. *)
LEMMA BeforeTransitive ==
    ASSUME NEW s \in Keys, NEW t \in Keys, NEW u \in Keys, Before(s, t), Before(t, u)
    PROVE  Before(s, u)
<1>1. /\ Len(s) \in Nat /\ Len(t) \in Nat /\ Len(u) \in Nat
      /\ \A i \in 1..Len(s) : s[i] \in Alphabet
      /\ \A i \in 1..Len(t) : t[i] \in Alphabet
      /\ \A i \in 1..Len(u) : u[i] \in Alphabet
  BY DEF Keys
<1>2. PICK i \in (1..Len(t)) \cap (1..(Len(s) + 1)) :
        /\ i <= Len(s) => Code(s[i]) < Code(t[i])
        /\ \A j \in 1..(i - 1) : s[j] = t[j]
  BY Zenon DEF Before
<1>3. PICK k \in (1..Len(u)) \cap (1..(Len(t) + 1)) :
        /\ k <= Len(t) => Code(t[k]) < Code(u[k])
        /\ \A j \in 1..(k - 1) : t[j] = u[j]
  BY Zenon DEF Before
<1>4. CASE i < k
  <2>1. /\ i \in (1..Len(u)) \cap (1..(Len(s) + 1)) /\ t[i] = u[i]
        /\ \A j \in 1..(i - 1) : s[j] = u[j]
    BY <1>1, <1>2, <1>3, <1>4
  <2> QED
    BY <1>2, <2>1, Zenon DEF Before
<1>5. CASE k < i
  <2>1. /\ k \in (1..Len(u)) \cap (1..(Len(s) + 1)) /\ s[k] = t[k] /\ k <= Len(t)
        /\ \A j \in 1..(k - 1) : s[j] = u[j]
    BY <1>1, <1>2, <1>3, <1>5
  <2> QED
    BY <1>3, <2>1, Zenon DEF Before
<1>6. CASE i = k
  <2>1. /\ i \in (1..Len(u)) \cap (1..(Len(s) + 1)) /\ i <= Len(t)
        /\ \A j \in 1..(i - 1) : s[j] = u[j]
    BY <1>1, <1>2, <1>3, <1>6
  <2>2. i <= Len(s) => Code(s[i]) < Code(u[i])
    <3> SUFFICES ASSUME i <= Len(s) PROVE Code(s[i]) < Code(u[i])
      OBVIOUS
    <3>1. s[i] \in Alphabet /\ t[i] \in Alphabet /\ u[i] \in Alphabet
      BY <1>1, <2>1
    <3>2. Code(s[i]) \in Nat /\ Code(t[i]) \in Nat /\ Code(u[i]) \in Nat
      BY <3>1, Codes
    <3>3. Code(s[i]) < Code(t[i]) /\ Code(t[i]) < Code(u[i])
      BY <1>2, <1>3, <1>6, <2>1
    <3> QED
      BY <3>2, <3>3
  <2> QED
    BY <2>1, <2>2, Zenon DEF Before
<1> QED
  BY <1>1, <1>4, <1>5, <1>6

(* No name comes before one that comes before it. *)
LEMMA BeforeAsymmetric ==
    ASSUME NEW s \in Keys, NEW t \in Keys, Before(s, t)
    PROVE  ~Before(t, s)
<1>1. ASSUME Before(s, s) PROVE FALSE
  <2>1. PICK i \in (1..Len(s)) \cap (1..(Len(s) + 1)) : i <= Len(s) => Code(s[i]) < Code(s[i])
    BY <1>1 DEF Before
  <2>2. i \in 1..Len(s) /\ Len(s) \in Nat /\ s[i] \in Alphabet
    BY <2>1 DEF Keys
  <2>3. Code(s[i]) \in Nat
    BY <2>2, Codes
  <2> QED
    BY <2>1, <2>2, <2>3
<1> QED
  BY <1>1, BeforeTransitive

(* Finitely many names have a last one. *)
LEMMA LastOne ==
    ASSUME NEW names \in SUBSET Keys, names # {}, IsFiniteSet(names)
    PROVE  /\ LastName(names) \in names
           /\ \A n \in names \ {LastName(names)} : Before(n, LastName(names))
<1> DEFINE HasLast(X) == \E name \in X : \A n \in X \ {name} : Before(n, name)
           Bad == {c \in Nat : \E X \in SUBSET names :
                                  X # {} /\ Cardinality(X) = c /\ ~HasLast(X)}
<1>1. Bad = {}
  <2> SUFFICES ASSUME Bad # {} PROVE FALSE
    OBVIOUS
  <2>1. PICK c \in Bad : \A d \in Bad : c <= d
    <3>1. Bad \subseteq Nat
      OBVIOUS
    <3> HIDE DEF Bad
    <3> QED
      BY <3>1, LeastNumber
  <2>2. PICK X \in SUBSET names : X # {} /\ Cardinality(X) = c /\ ~HasLast(X)
    BY <2>1
  <2>3. PICK x : x \in X
    BY <2>2
  <2> DEFINE Y == X \ {x}
  <2>4. IsFiniteSet(X) /\ c \in Nat /\ Cardinality(Y) = c - 1 /\ Cardinality(Y) \in Nat
    <3>1. IsFiniteSet(X)
      BY FS_Subset
    <3>2. IsFiniteSet(Y) /\ Cardinality(Y) = Cardinality(X) - 1
      BY <2>3, <3>1, FS_RemoveElement
    <3> QED
      BY <2>1, <2>2, <3>1, <3>2, FS_CardinalityType
  <2>5. CASE Y = {}
    <3>1. \A n \in X \ {x} : Before(n, x)
      BY <2>5
    <3> QED
      BY <2>2, <2>3, <3>1
  <2>6. CASE Y # {}
    <3>1. HasLast(Y)
      <4>1. c - 1 \notin Bad
        <5> HIDE DEF Bad
        <5> QED
          BY <2>1, <2>4
      <4>2. Y \in SUBSET names
        OBVIOUS
      <4> HIDE DEF Y, HasLast
      <4> QED
        BY <2>4, <2>6, <4>1, <4>2
    <3>2. PICK y \in Y : \A n \in Y \ {y} : Before(n, y)
      BY <3>1
    <3>3. x \in Keys /\ y \in Keys /\ x # y /\ X \subseteq Keys
      BY <2>2, <2>3, <3>2
    <3>4. CASE Before(x, y)
      <4>1. \A n \in X \ {y} : Before(n, y)
        BY <3>2, <3>4
      <4> QED
        BY <2>2, <3>2, <4>1
    <3>5. CASE Before(y, x)
      <4>1. \A n \in X \ {x} : Before(n, x)
        <5> SUFFICES ASSUME NEW n \in X \ {x} PROVE Before(n, x)
          OBVIOUS
        <5>1. n = y \/ Before(n, y)
          BY <3>2
        <5> QED
          BY <3>3, <3>5, <5>1, BeforeTransitive
      <4> QED
        BY <2>2, <2>3, <4>1
    <3> QED
      BY <3>3, <3>4, <3>5, BeforeTotal
  <2> QED
    BY <2>5, <2>6
<1>2. HasLast(names)
  <2>1. Cardinality(names) \in Nat /\ Cardinality(names) \notin Bad
    BY <1>1, FS_CardinalityType
  <2> HIDE DEF HasLast
  <2> QED
    BY <2>1
<1> QED
  BY <1>2, Zenon DEF LastName

-----------------------------------------------------------------------------
(* Flattening *)

(* What Flat is of v if it is f of the parts of v *)
FlatMember(f, v, name) == Prefixed(f[v.members[name]], <<"_">> \o ToUpper(name))

Sharing(f, v, key) == {name \in DOMAIN v.members : key \in DOMAIN FlatMember(f, v, name)}

FlatOf(f, v) ==
    IF v.kind = "leaf" THEN [key \in {<<>>} |-> v.text]
    ELSE [key \in UNION {DOMAIN FlatMember(f, v, name) : name \in DOMAIN v.members} |->
            FlatMember(f, v, LastName(Sharing(f, v, key)))[key]]

(* An object has finitely many members, nested less deep than itself. *)
LEMMA Members ==
    ASSUME NEW v \in Values, v.kind # "leaf"
    PROVE  /\ DOMAIN v.members \subseteq Keys /\ IsFiniteSet(DOMAIN v.members)
           /\ \A name \in DOMAIN v.members :
                /\ v.members[name] \in Values
                /\ Nesting[v.members[name]] \in Nat /\ Nesting[v] \in Nat
                /\ Nesting[v.members[name]] < Nesting[v]
<1>1. IsValue(v) /\ Nesting \in [Values -> 0..MaxNesting] /\ MaxNesting \in Nat
  BY TransformsAssumption
<1> QED
  BY <1>1 DEF IsValue

(* The member a flat name is taken from is the last one that has it. *)
LEMMA TakenFrom ==
    ASSUME NEW f, NEW v \in Values, v.kind # "leaf",
           NEW key \in UNION {DOMAIN FlatMember(f, v, name) : name \in DOMAIN v.members}
    PROVE  /\ LastName(Sharing(f, v, key)) \in DOMAIN v.members
           /\ key \in DOMAIN FlatMember(f, v, LastName(Sharing(f, v, key)))
           /\ \A n \in DOMAIN v.members :
                key \in DOMAIN FlatMember(f, v, n) /\ n # LastName(Sharing(f, v, key))
                => Before(n, LastName(Sharing(f, v, key)))
<1>1. Sharing(f, v, key) # {} /\ Sharing(f, v, key) \subseteq DOMAIN v.members
  BY DEF Sharing
<1>2. IsFiniteSet(Sharing(f, v, key)) /\ Sharing(f, v, key) \in SUBSET Keys
  BY <1>1, Members, FS_Subset
<1>3. /\ LastName(Sharing(f, v, key)) \in Sharing(f, v, key)
      /\ \A n \in Sharing(f, v, key) \ {LastName(Sharing(f, v, key))} :
           Before(n, LastName(Sharing(f, v, key)))
  BY <1>1, <1>2, LastOne
<1> QED
  BY <1>3 DEF Sharing

(* It depends on the parts of v only. *)
LEMMA FlatOfParts ==
    ASSUME NEW v \in Values, NEW f, NEW g,
           v.kind # "leaf" =>
               \A name \in DOMAIN v.members : f[v.members[name]] = g[v.members[name]]
    PROVE  FlatOf(f, v) = FlatOf(g, v)
<1>1. CASE v.kind = "leaf"
  BY <1>1 DEF FlatOf
<1>2. CASE v.kind # "leaf"
  <2> DEFINE F == UNION {DOMAIN FlatMember(f, v, name) : name \in DOMAIN v.members}
             G == UNION {DOMAIN FlatMember(g, v, name) : name \in DOMAIN v.members}
  <2>1. \A name \in DOMAIN v.members : FlatMember(f, v, name) = FlatMember(g, v, name)
    BY <1>2, Zenon DEF FlatMember
  <2>2. F = G
    BY <2>1
  <2>3. ASSUME NEW key \in F
        PROVE  FlatMember(f, v, LastName(Sharing(f, v, key)))
                 = FlatMember(g, v, LastName(Sharing(g, v, key)))
    <3>1. Sharing(f, v, key) = Sharing(g, v, key)
      BY <2>1 DEF Sharing
    <3>2. LastName(Sharing(f, v, key)) \in DOMAIN v.members
      BY <1>2, TakenFrom
    <3> QED
      BY <2>1, <3>1, <3>2, Zenon
  <2> DEFINE f1(key) == FlatMember(f, v, LastName(Sharing(f, v, key)))[key]
             g1(key) == FlatMember(g, v, LastName(Sharing(g, v, key)))[key]
  <2>4. \A key \in F : f1(key) = g1(key)
    BY <2>3, Zenon
  <2>5. FlatOf(f, v) = [key \in F |-> f1(key)] /\ FlatOf(g, v) = [key \in G |-> g1(key)]
    BY <1>2, Zenon DEF FlatOf
  <2> HIDE DEF F, G, f1, g1
  <2> QED
    BY <2>2, <2>4, <2>5
<1> QED
  BY <1>1, <1>2

(* There is a function that does what Flat is to do. *)
LEMMA FlatExists == \E f : f = [v \in Values |-> FlatOf(f, v)]
<1> DEFINE Fits(f, n) == \A v \in Values : Nesting[v] < n => f[v] = FlatOf(f, v)
           Bad == {n \in Nat : ~ \E f : Fits(f, n)}
           Level(f) == [v \in Values |-> FlatOf(f, v)]
<1>1. ASSUME NEW n \in Nat, NEW f, Fits(f, n), NEW v \in Values, Nesting[v] < n + 1
      PROVE  Level(f)[v] = FlatOf(Level(f), v)
  <2>1. v.kind # "leaf" =>
            \A name \in DOMAIN v.members : f[v.members[name]] = Level(f)[v.members[name]]
    <3> SUFFICES ASSUME v.kind # "leaf", NEW name \in DOMAIN v.members
                 PROVE  f[v.members[name]] = Level(f)[v.members[name]]
      OBVIOUS
    <3> DEFINE u == v.members[name]
    <3>1. u \in Values /\ Nesting[u] \in Nat /\ Nesting[v] \in Nat /\ Nesting[u] < Nesting[v]
      BY Members
    <3> HIDE DEF u
    <3>2. Nesting[u] < n
      BY <1>1, <3>1
    <3>3. f[u] = FlatOf(f, u)
      BY <1>1, <3>1, <3>2
    <3>4. f[u] = Level(f)[u]
      BY <3>1, <3>3, Zenon
    <3> HIDE DEF Level
    <3> QED
      BY <3>4, Zenon DEF u
  <2> DEFINE g == Level(f)
  <2>2. g[v] = FlatOf(f, v)
    BY Zenon
  <2> HIDE DEF g
  <2>3. FlatOf(f, v) = FlatOf(g, v)
    <3>1. v.kind # "leaf" =>
              \A name \in DOMAIN v.members : f[v.members[name]] = g[v.members[name]]
      BY <2>1, Zenon DEF g
    <3> QED
      BY ONLY <3>1, v \in Values, FlatOfParts
  <2> QED
    BY <2>2, <2>3, Zenon DEF g
<1>2. Bad = {}
  <2> SUFFICES ASSUME Bad # {} PROVE FALSE
    OBVIOUS
  <2>1. PICK n \in Bad : \A m \in Bad : n <= m
    <3>1. Bad \subseteq Nat
      OBVIOUS
    <3> HIDE DEF Bad
    <3> QED
      BY <3>1, LeastNumber
  <2>2. CASE n = 0
    <3>1. \A v \in Values : ~ (Nesting[v] < 0)
      BY TransformsAssumption
    <3>2. Fits(<<>>, 0)
      BY <3>1
    <3> QED
      BY <2>1, <2>2, <3>2
  <2>3. CASE n # 0
    <3>1. n \in Nat /\ n - 1 \in Nat /\ ~ (n <= n - 1) /\ n - 1 + 1 = n
      BY <2>1, <2>3
    <3>2. n - 1 \notin Bad
      <4> HIDE DEF Bad
      <4> QED
        BY <2>1, <3>1
    <3>3. PICK f : Fits(f, n - 1)
      <4> HIDE DEF Fits
      <4> QED
        BY <3>1, <3>2
    <3>4. Fits(Level(f), n)
      <4> HIDE DEF Level
      <4> QED
        BY <1>1, <3>1, <3>3
    <3> HIDE DEF Fits, Level
    <3> QED
      BY <2>1, <3>4
  <2> QED
    BY <2>2, <2>3
<1>3. PICK f : Fits(f, MaxNesting + 1)
  <2>1. MaxNesting + 1 \in Nat
    BY TransformsAssumption
  <2> HIDE DEF Fits
  <2> QED
    BY <1>2, <2>1
<1>4. \A v \in Values : Nesting[v] < MaxNesting + 1 /\ Nesting[v] < (MaxNesting + 1) + 1
  BY TransformsAssumption
<1> DEFINE g == Level(f)
<1>5. \A v \in Values : g[v] = FlatOf(g, v)
  <2>1. MaxNesting + 1 \in Nat
    BY TransformsAssumption
  <2> HIDE DEF Level, Fits
  <2> QED
    BY <1>1, <1>3, <1>4, <2>1
<1>6. g = [v \in Values |-> g[v]]
  OBVIOUS
<1> HIDE DEF g
<1>7. g = [v \in Values |-> FlatOf(g, v)]
  BY <1>5, <1>6
<1> QED
  BY <1>7

(* Flat is this function. *)
LEMMA FlatIs == \A v \in Values : Flat[v] = FlatOf(Flat, v)
<1>1. Flat = CHOOSE f : f = [v \in Values |-> FlatOf(f, v)]
  BY DEF Flat, FlatOf, FlatMember, Sharing
<1>2. Flat = [v \in Values |-> FlatOf(Flat, v)]
  BY <1>1, FlatExists, Zenon
<1> QED
  BY <1>2, Zenon

(* The empty key is one, and so is a name in upper case after a "_". *)
LEMMA FlatNames ==
    /\ <<>> \in Keys
    /\ \A name \in Keys : <<"_">> \o ToUpper(name) \in Keys
<1>1. <<"_">> \in Keys
  BY DEF Keys, Alphabet
<1>2. ASSUME NEW name \in Keys PROVE <<"_">> \o ToUpper(name) \in Keys
  BY <1>1, Upper, ConcatProperties DEF Keys
<1>3. <<>> \in Keys
  BY DEF Keys
<1> QED
  BY <1>2, <1>3

(* With a prefix that is a key entries are entries. *)
LEMMA PrefixedIs ==
    ASSUME NEW prefix \in Keys, NEW in, IsEntries(in)
    PROVE  IsEntries(Prefixed(in, prefix))
<1> DEFINE t == [type |-> "prefix", value |-> prefix]
<1>1. t.value \in Keys
  OBVIOUS
<1>2. Prefixed(in, prefix) = Affix(in, t)
  BY DEF Prefixed
<1> HIDE DEF t
<1> QED
  BY <1>1, <1>2, AffixIs

(* A JSON value is flattened into entries. *)
LEMMA FlatEntries == \A v \in Values : IsEntries(Flat[v])
<1> DEFINE Bad == {n \in Nat : \E v \in Values : Nesting[v] = n /\ ~IsEntries(Flat[v])}
<1>1. Bad = {}
  <2> SUFFICES ASSUME Bad # {} PROVE FALSE
    OBVIOUS
  <2>1. PICK n \in Bad : \A m \in Bad : n <= m
    <3>1. Bad \subseteq Nat
      OBVIOUS
    <3> HIDE DEF Bad
    <3> QED
      BY <3>1, LeastNumber
  <2>2. PICK v \in Values : Nesting[v] = n /\ ~IsEntries(Flat[v])
    BY <2>1
  <2>3. Flat[v] = FlatOf(Flat, v)
    BY FlatIs
  <2>4. CASE v.kind = "leaf"
    <3>1. v.text \in Texts
      <4>1. IsValue(v)
        BY TransformsAssumption
      <4> QED
        BY <2>4, <4>1 DEF IsValue
    <3>2. Flat[v] = [key \in {<<>>} |-> v.text]
      BY <2>3, <2>4 DEF FlatOf
    <3>3. DOMAIN Flat[v] = {<<>>} /\ Flat[v] \in [{<<>>} -> Texts]
      BY <3>1, <3>2
    <3> QED
      BY <2>2, <3>3, FlatNames DEF IsEntries
  <2>5. CASE v.kind # "leaf"
    <3> DEFINE Member(name) == FlatMember(Flat, v, name)
               D == UNION {DOMAIN Member(name) : name \in DOMAIN v.members}
    <3>1. ASSUME NEW name \in DOMAIN v.members PROVE IsEntries(Member(name))
      <4>1. /\ name \in Keys /\ v.members[name] \in Values
            /\ Nesting[v.members[name]] \in Nat /\ n \in Nat /\ Nesting[v.members[name]] < n
        BY <2>1, <2>2, <2>5, Members
      <4>2. ~ (n <= Nesting[v.members[name]])
        BY <4>1
      <4>3. Nesting[v.members[name]] \notin Bad
        <5> HIDE DEF Bad
        <5> QED
          BY <2>1, <4>2
      <4>4. IsEntries(Flat[v.members[name]])
        BY <4>1, <4>3
      <4> QED
        BY <4>1, <4>4, FlatNames, PrefixedIs DEF FlatMember
    <3>2. D \subseteq Keys
      BY <3>1 DEF IsEntries
    <3>3. ASSUME NEW key \in D
          PROVE  Member(LastName(Sharing(Flat, v, key)))[key] \in Texts
      <4>1. /\ LastName(Sharing(Flat, v, key)) \in DOMAIN v.members
            /\ key \in DOMAIN Member(LastName(Sharing(Flat, v, key)))
        BY <2>5, TakenFrom
      <4> QED
        BY <3>1, <4>1 DEF IsEntries
    <3>4. Flat[v] = [key \in D |-> Member(LastName(Sharing(Flat, v, key)))[key]]
      BY <2>3, <2>5 DEF FlatOf
    <3> HIDE DEF Member, D
    <3>5. DOMAIN Flat[v] = D /\ Flat[v] \in [D -> Texts]
      BY <3>3, <3>4
    <3> QED
      BY <2>2, <3>2, <3>5 DEF IsEntries
  <2> QED
    BY <2>4, <2>5
<1>2. ASSUME NEW v \in Values PROVE IsEntries(Flat[v])
  <2>1. Nesting[v] \in Nat
    BY TransformsAssumption
  <2> QED
    BY <1>1, <2>1
<1> QED
  BY <1>2

-----------------------------------------------------------------------------
(* Leaves *)

(* What Leaves is of v if it is f of the parts of v *)
LeavesOf(f, v) ==
    IF v.kind = "leaf" THEN {[path |-> <<>>, name |-> <<>>, text |-> v.text]}
    ELSE UNION {{Below(name, l) : l \in f[v.members[name]]} : name \in DOMAIN v.members}

(* It depends on the parts of v only. *)
LEMMA LeavesOfParts ==
    ASSUME NEW v \in Values, NEW f, NEW g,
           v.kind # "leaf" =>
               \A name \in DOMAIN v.members : f[v.members[name]] = g[v.members[name]]
    PROVE  LeavesOf(f, v) = LeavesOf(g, v)
<1>1. CASE v.kind = "leaf"
  BY <1>1 DEF LeavesOf
<1>2. CASE v.kind # "leaf"
  <2> DEFINE f1(name) == {Below(name, l) : l \in f[v.members[name]]}
             g1(name) == {Below(name, l) : l \in g[v.members[name]]}
  <2>1. \A name \in DOMAIN v.members : f1(name) = g1(name)
    BY <1>2, Zenon
  <2>2. /\ LeavesOf(f, v) = UNION {f1(name) : name \in DOMAIN v.members}
        /\ LeavesOf(g, v) = UNION {g1(name) : name \in DOMAIN v.members}
    BY <1>2, Zenon DEF LeavesOf
  <2> HIDE DEF f1, g1
  <2> QED
    BY <2>1, <2>2
<1> QED
  BY <1>1, <1>2

(* There is a function that does what Leaves is to do. *)
LEMMA LeavesExist == \E f : f = [v \in Values |-> LeavesOf(f, v)]
<1> DEFINE Fits(f, n) == \A v \in Values : Nesting[v] < n => f[v] = LeavesOf(f, v)
           Bad == {n \in Nat : ~ \E f : Fits(f, n)}
           Level(f) == [v \in Values |-> LeavesOf(f, v)]
<1>1. ASSUME NEW n \in Nat, NEW f, Fits(f, n), NEW v \in Values, Nesting[v] < n + 1
      PROVE  Level(f)[v] = LeavesOf(Level(f), v)
  <2>1. v.kind # "leaf" =>
            \A name \in DOMAIN v.members : f[v.members[name]] = Level(f)[v.members[name]]
    <3> SUFFICES ASSUME v.kind # "leaf", NEW name \in DOMAIN v.members
                 PROVE  f[v.members[name]] = Level(f)[v.members[name]]
      OBVIOUS
    <3> DEFINE u == v.members[name]
    <3>1. u \in Values /\ Nesting[u] \in Nat /\ Nesting[v] \in Nat /\ Nesting[u] < Nesting[v]
      BY Members
    <3> HIDE DEF u
    <3>2. Nesting[u] < n
      BY <1>1, <3>1
    <3>3. f[u] = LeavesOf(f, u)
      BY <1>1, <3>1, <3>2
    <3>4. f[u] = Level(f)[u]
      BY <3>1, <3>3, Zenon
    <3> HIDE DEF Level
    <3> QED
      BY <3>4, Zenon DEF u
  <2> DEFINE g == Level(f)
  <2>2. g[v] = LeavesOf(f, v)
    BY Zenon
  <2> HIDE DEF g
  <2>3. LeavesOf(f, v) = LeavesOf(g, v)
    <3>1. v.kind # "leaf" =>
              \A name \in DOMAIN v.members : f[v.members[name]] = g[v.members[name]]
      BY <2>1, Zenon DEF g
    <3> QED
      BY ONLY <3>1, v \in Values, LeavesOfParts
  <2> QED
    BY <2>2, <2>3, Zenon DEF g
<1>2. Bad = {}
  <2> SUFFICES ASSUME Bad # {} PROVE FALSE
    OBVIOUS
  <2>1. PICK n \in Bad : \A m \in Bad : n <= m
    <3>1. Bad \subseteq Nat
      OBVIOUS
    <3> HIDE DEF Bad
    <3> QED
      BY <3>1, LeastNumber
  <2>2. CASE n = 0
    <3>1. \A v \in Values : ~ (Nesting[v] < 0)
      BY TransformsAssumption
    <3>2. Fits(<<>>, 0)
      BY <3>1
    <3> QED
      BY <2>1, <2>2, <3>2
  <2>3. CASE n # 0
    <3>1. n \in Nat /\ n - 1 \in Nat /\ ~ (n <= n - 1) /\ n - 1 + 1 = n
      BY <2>1, <2>3
    <3>2. n - 1 \notin Bad
      <4> HIDE DEF Bad
      <4> QED
        BY <2>1, <3>1
    <3>3. PICK f : Fits(f, n - 1)
      <4> HIDE DEF Fits
      <4> QED
        BY <3>1, <3>2
    <3>4. Fits(Level(f), n)
      <4> HIDE DEF Level
      <4> QED
        BY <1>1, <3>1, <3>3
    <3> HIDE DEF Fits, Level
    <3> QED
      BY <2>1, <3>4
  <2> QED
    BY <2>2, <2>3
<1>3. PICK f : Fits(f, MaxNesting + 1)
  <2>1. MaxNesting + 1 \in Nat
    BY TransformsAssumption
  <2> HIDE DEF Fits
  <2> QED
    BY <1>2, <2>1
<1>4. \A v \in Values : Nesting[v] < MaxNesting + 1 /\ Nesting[v] < (MaxNesting + 1) + 1
  BY TransformsAssumption
<1> DEFINE g == Level(f)
<1>5. \A v \in Values : g[v] = LeavesOf(g, v)
  <2>1. MaxNesting + 1 \in Nat
    BY TransformsAssumption
  <2> HIDE DEF Level, Fits
  <2> QED
    BY <1>1, <1>3, <1>4, <2>1
<1>6. g = [v \in Values |-> g[v]]
  OBVIOUS
<1> HIDE DEF g
<1>7. g = [v \in Values |-> LeavesOf(g, v)]
  BY <1>5, <1>6
<1> QED
  BY <1>7

(* Leaves is this function. *)
LEMMA LeavesIs == \A v \in Values : Leaves[v] = LeavesOf(Leaves, v)
<1>1. Leaves = CHOOSE f : f = [v \in Values |-> LeavesOf(f, v)]
  BY DEF Leaves, LeavesOf
<1>2. Leaves = [v \in Values |-> LeavesOf(Leaves, v)]
  BY <1>1, LeavesExist, Zenon
<1> QED
  BY <1>2, Zenon

(* Paths are sequences of names, names are keys. *)
IsLeaf(l) == l.path \in Seq(Keys) /\ l.name \in Keys

(* Leaves of members are leaves of the object; they differ if the members do. *)
LEMMA BelowIs ==
    ASSUME NEW name \in Keys, NEW l, IsLeaf(l)
    PROVE  /\ IsLeaf(Below(name, l))
           /\ Below(name, l).path = <<name>> \o l.path
           /\ Below(name, l).name = (<<"_">> \o ToUpper(name)) \o l.name
           /\ Below(name, l).text = l.text
<1>1. /\ Below(name, l).path = <<name>> \o l.path
      /\ Below(name, l).name = (<<"_">> \o ToUpper(name)) \o l.name
      /\ Below(name, l).text = l.text
  BY DEF Below
<1>2. <<name>> \in Seq(Keys)
  OBVIOUS
<1>3. <<name>> \o l.path \in Seq(Keys)
  BY <1>2, ConcatProperties DEF IsLeaf
<1>4. (<<"_">> \o ToUpper(name)) \o l.name \in Keys
  BY FlatNames, ConcatProperties DEF IsLeaf, Keys
<1> QED
  BY <1>1, <1>3, <1>4 DEF IsLeaf

(* Paths through different members are in the order of these. *)
LEMMA LaterByMember ==
    ASSUME NEW m \in Keys, NEW n \in Keys, Before(m, n),
           NEW p \in Seq(Keys), NEW q \in Seq(Keys)
    PROVE  Later(<<n>> \o p, <<m>> \o q)
<1> DEFINE pp == <<n>> \o p
           qq == <<m>> \o q
<1>1. /\ Len(pp) = 1 + Len(p) /\ Len(qq) = 1 + Len(q) /\ pp \in Seq(Keys) /\ qq \in Seq(Keys)
      /\ pp[1] = n /\ qq[1] = m
  BY ConcatProperties
<1>2. 1 \in DOMAIN pp \cap DOMAIN qq
  BY <1>1
<1> HIDE DEF pp, qq
<1>3. Later(pp, qq)
  BY <1>1, <1>2 DEF Later
<1> QED
  BY <1>3 DEF pp, qq

(* Paths through one member are in the order of what they are from there. *)
LEMMA LaterInMember ==
    ASSUME NEW m \in Keys, NEW p \in Seq(Keys), NEW q \in Seq(Keys), Later(p, q)
    PROVE  Later(<<m>> \o p, <<m>> \o q)
<1> DEFINE pp == <<m>> \o p
           qq == <<m>> \o q
<1>1. /\ Len(pp) = 1 + Len(p) /\ Len(qq) = 1 + Len(q) /\ pp \in Seq(Keys) /\ qq \in Seq(Keys)
      /\ pp[1] = m /\ qq[1] = m
      /\ \A i \in 1..Len(p) : pp[i + 1] = p[i]
      /\ \A i \in 1..Len(q) : qq[i + 1] = q[i]
  BY ConcatProperties
<1> HIDE DEF pp, qq
<1>2. PICK i \in DOMAIN p \cap DOMAIN q :
        Before(q[i], p[i]) /\ \A j \in 1..(i - 1) : p[j] = q[j]
  BY DEF Later
<1>3. i \in 1..Len(p) /\ i \in 1..Len(q) /\ Len(p) \in Nat /\ Len(q) \in Nat
  BY <1>2
<1>4. i + 1 \in DOMAIN pp \cap DOMAIN qq /\ Before(qq[i + 1], pp[i + 1])
  BY <1>1, <1>2, <1>3
<1>5. ASSUME NEW j \in 1..((i + 1) - 1) PROVE pp[j] = qq[j]
  <2>1. CASE j = 1
    BY <1>1, <2>1
  <2>2. CASE j # 1
    <3>1. j - 1 \in 1..(i - 1) /\ j - 1 \in 1..Len(p) /\ j - 1 \in 1..Len(q) /\ (j - 1) + 1 = j
      BY <1>3, <2>2
    <3> QED
      BY <1>1, <1>2, <3>1
  <2> QED
    BY <2>1, <2>2
<1>6. Later(pp, qq)
  BY <1>4, <1>5 DEF Later
<1> QED
  BY <1>6 DEF pp, qq

(* And no other ways. *)
LEMMA LaterOnly ==
    ASSUME NEW m \in Keys, NEW n \in Keys, NEW p \in Seq(Keys), NEW q \in Seq(Keys),
           Later(<<n>> \o p, <<m>> \o q)
    PROVE  Before(m, n) \/ (m = n /\ Later(p, q))
<1> DEFINE pp == <<n>> \o p
           qq == <<m>> \o q
<1>1. /\ Len(pp) = 1 + Len(p) /\ Len(qq) = 1 + Len(q) /\ pp \in Seq(Keys) /\ qq \in Seq(Keys)
      /\ pp[1] = n /\ qq[1] = m
      /\ \A i \in 1..Len(p) : pp[i + 1] = p[i]
      /\ \A i \in 1..Len(q) : qq[i + 1] = q[i]
  BY ConcatProperties
<1>2. Later(pp, qq)
  OBVIOUS
<1> HIDE DEF pp, qq
<1>3. PICK i \in DOMAIN pp \cap DOMAIN qq :
        Before(qq[i], pp[i]) /\ \A j \in 1..(i - 1) : pp[j] = qq[j]
  BY <1>2 DEF Later
<1>4. CASE i = 1
  BY <1>1, <1>3, <1>4
<1>5. CASE i # 1
  <2>1. /\ i - 1 \in 1..Len(p) /\ i - 1 \in 1..Len(q) /\ (i - 1) + 1 = i /\ 1 \in 1..(i - 1)
        /\ Len(p) \in Nat /\ Len(q) \in Nat
    BY <1>1, <1>3, <1>5
  <2>2. m = n
    BY <1>1, <1>3, <2>1
  <2>3. Before(q[i - 1], p[i - 1])
    BY <1>1, <1>3, <2>1
  <2>4. ASSUME NEW j \in 1..((i - 1) - 1) PROVE p[j] = q[j]
    <3>1. j + 1 \in 1..(i - 1) /\ j \in 1..Len(p) /\ j \in 1..Len(q)
      BY <2>1
    <3> QED
      BY <1>1, <1>3, <3>1
  <2>5. i - 1 \in DOMAIN p \cap DOMAIN q
    BY <2>1
  <2> QED
    BY <2>2, <2>3, <2>4, <2>5 DEF Later
<1> QED
  BY <1>4, <1>5

(* The leaves of v, and that Flat has stored the last ones under their names *)
Stored(v) ==
    /\ \A l \in Leaves[v] : IsLeaf(l)
    /\ \A key : key \in DOMAIN Flat[v] <=> \E l \in Leaves[v] : l.name = key
    /\ \A l \in Leaves[v] : IsLast(l, Leaves[v]) => Flat[v][l.name] = l.text
    /\ \A l \in Leaves[v] : \E m \in Leaves[v] : m.name = l.name /\ IsLast(m, Leaves[v])

(* What a prefix makes of the names of what is stored *)
LEMMA StoredPrefixed ==
    ASSUME NEW w \in Values, Stored(w), NEW prefix \in Keys
    PROVE  /\ \A key : key \in DOMAIN Prefixed(Flat[w], prefix)
                         <=> \E l \in Leaves[w] : prefix \o l.name = key
           /\ \A l \in Leaves[w] : IsLast(l, Leaves[w]) =>
                Prefixed(Flat[w], prefix)[prefix \o l.name] = l.text
<1> DEFINE t == [type |-> "prefix", value |-> prefix]
<1>1. Prefixed(Flat[w], prefix) = Affix(Flat[w], t)
  BY DEF Prefixed
<1>2. t.value \in Keys /\ \A k : Affixed(k, t) = prefix \o k
  BY DEF Affixed
<1> HIDE DEF t
<1> DEFINE M == Affix(Flat[w], t)
<1>3. /\ DOMAIN M = {Affixed(k, t) : k \in DOMAIN Flat[w]}
      /\ \A k \in DOMAIN Flat[w] : M[Affixed(k, t)] = Flat[w][k]
  BY <1>2, FlatEntries, AffixIs
<1> HIDE DEF M
<1>4. ASSUME NEW l \in Leaves[w], IsLast(l, Leaves[w]) PROVE M[prefix \o l.name] = l.text
  <2>1. l.name \in DOMAIN Flat[w] /\ Flat[w][l.name] = l.text
    BY <1>4 DEF Stored
  <2> QED
    BY <1>2, <1>3, <2>1
<1>5. ASSUME NEW key
      PROVE  key \in DOMAIN M <=> \E l \in Leaves[w] : prefix \o l.name = key
  <2>1. key \in DOMAIN M <=> \E k \in DOMAIN Flat[w] : prefix \o k = key
    BY <1>2, <1>3
  <2>2. \A k : k \in DOMAIN Flat[w] <=> \E l \in Leaves[w] : l.name = k
    BY DEF Stored
  <2> QED
    BY <2>1, <2>2, Zenon
<1> QED
  BY <1>1, <1>4, <1>5, Zenon DEF M

(* Flat stores the last leaves of an object if it does so with its members. *)
LEMMA StoredObject ==
    ASSUME NEW v \in Values, v.kind # "leaf",
           \A name \in DOMAIN v.members : Stored(v.members[name])
    PROVE  Stored(v)
<1> DEFINE M(name) == FlatMember(Flat, v, name)
           In(name) == Leaves[v.members[name]]
           From(key) == LastName(Sharing(Flat, v, key))
<1>1. \A name \in DOMAIN v.members : name \in Keys /\ v.members[name] \in Values
  BY Members
<1>2. ASSUME NEW name \in DOMAIN v.members
      PROVE  /\ \A key : key \in DOMAIN M(name) <=> \E l \in In(name) : Below(name, l).name = key
             /\ \A l \in In(name) :
                  /\ IsLeaf(l)
                  /\ IsLast(l, In(name)) => M(name)[Below(name, l).name] = l.text
                  /\ \E m \in In(name) : m.name = l.name /\ IsLast(m, In(name))
  <2> DEFINE w == v.members[name]
             prefix == <<"_">> \o ToUpper(name)
  <2>1. w \in Values /\ name \in Keys /\ prefix \in Keys /\ Stored(w)
    BY <1>1, FlatNames
  <2>2. M(name) = Prefixed(Flat[w], prefix)
    BY DEF FlatMember
  <2> HIDE DEF w, prefix
  <2>3. \A l \in Leaves[w] :
          IsLeaf(l) /\ \E m \in Leaves[w] : m.name = l.name /\ IsLast(m, Leaves[w])
    BY <2>1 DEF Stored
  <2>4. \A l \in Leaves[w] : Below(name, l).name = prefix \o l.name
    BY <2>1, <2>3, BelowIs DEF prefix
  <2> HIDE DEF M
  <2>5. /\ \A key : key \in DOMAIN M(name) <=> \E l \in Leaves[w] : prefix \o l.name = key
        /\ \A l \in Leaves[w] : IsLast(l, Leaves[w]) => M(name)[prefix \o l.name] = l.text
    <3> DEFINE g == Prefixed(Flat[w], prefix)
    <3>1. /\ \A key : key \in DOMAIN g <=> \E l \in Leaves[w] : prefix \o l.name = key
          /\ \A l \in Leaves[w] : IsLast(l, Leaves[w]) => g[prefix \o l.name] = l.text
      BY ONLY <2>1, StoredPrefixed
    <3>2. M(name) = g
      BY <2>2
    <3> HIDE DEF g
    <3> QED
      BY <3>1, <3>2, Zenon
  <2>6. \A key : key \in DOMAIN M(name) <=> \E l \in Leaves[w] : Below(name, l).name = key
    BY <2>4, <2>5, Zenon
  <2>7. \A l \in Leaves[w] : IsLast(l, Leaves[w]) => M(name)[Below(name, l).name] = l.text
    BY <2>4, <2>5, Zenon
  <2> QED
    BY <2>3, <2>6, <2>7, Zenon DEF w
<1> HIDE DEF M, In
<1>3. \A l : l \in Leaves[v] <=>
              \E name \in DOMAIN v.members : \E k \in In(name) : l = Below(name, k)
  <2>1. Leaves[v] = UNION {{Below(name, k) : k \in In(name)} : name \in DOMAIN v.members}
    BY LeavesIs, Zenon DEF LeavesOf, In
  <2> QED
    BY <2>1
<1>4. ASSUME NEW l \in Leaves[v] PROVE IsLeaf(l)
  <2>1. PICK name \in DOMAIN v.members : \E k \in In(name) : l = Below(name, k)
    BY <1>3
  <2>2. PICK k \in In(name) : l = Below(name, k)
    BY <2>1
  <2>3. IsLeaf(k) /\ name \in Keys
    BY <1>1, <1>2
  <2> QED
    BY <2>2, <2>3, BelowIs
<1>5. /\ DOMAIN Flat[v] = UNION {DOMAIN M(name) : name \in DOMAIN v.members}
      /\ \A key \in DOMAIN Flat[v] : Flat[v][key] = M(From(key))[key]
  <2>1. Flat[v] = [key \in UNION {DOMAIN M(name) : name \in DOMAIN v.members} |-> M(From(key))[key]]
    BY FlatIs DEF FlatOf, M
  <2> HIDE DEF From
  <2> QED
    BY <2>1
<1>6. ASSUME NEW key
      PROVE  key \in DOMAIN Flat[v] <=> \E l \in Leaves[v] : l.name = key
  <2>1. key \in DOMAIN Flat[v] <=> \E name \in DOMAIN v.members : key \in DOMAIN M(name)
    BY <1>5
  <2> QED
    BY <1>2, <1>3, <2>1
<1>7. ASSUME NEW l \in Leaves[v], IsLast(l, Leaves[v]) PROVE Flat[v][l.name] = l.text
  <2> PICK m \in DOMAIN v.members : \E k \in In(m) : l = Below(m, k)
    BY <1>3
  <2>1. PICK k \in In(m) : l = Below(m, k)
    OBVIOUS
  <2>2. l.name \in DOMAIN Flat[v] /\ l.name \in DOMAIN M(m)
    BY <1>2, <1>6, <2>1
  <2> DEFINE n == From(l.name)
  <2>3. /\ n \in DOMAIN v.members /\ l.name \in DOMAIN M(n)
        /\ m # n => Before(m, n)
    BY <1>5, <2>2, TakenFrom DEF M
  <2> HIDE DEF n
  <2>4. \A a \in DOMAIN v.members : \A b \in In(a) : IsLeaf(b) /\ Below(a, b) \in Leaves[v]
    BY <1>2, <1>3
  <2>5. m = n
    <3> SUFFICES ASSUME m # n PROVE FALSE
      OBVIOUS
    <3>1. PICK b \in In(n) : Below(n, b).name = l.name
      BY <1>2, <2>3
    <3>2. b.path \in Seq(Keys) /\ k.path \in Seq(Keys) /\ m \in Keys /\ n \in Keys
      BY <1>1, <2>1, <2>3, <2>4, <3>1 DEF IsLeaf
    <3>3. Later(<<n>> \o b.path, <<m>> \o k.path)
      BY <2>3, <3>2, LaterByMember
    <3>4. Below(n, b).path = <<n>> \o b.path /\ l.path = <<m>> \o k.path
      BY <2>1 DEF Below
    <3> QED
      BY <1>7, <2>3, <2>4, <3>1, <3>3, <3>4 DEF IsLast
  <2>6. IsLast(k, In(m))
    <3> SUFFICES ASSUME NEW b \in In(m), b.name = k.name, Later(b.path, k.path) PROVE FALSE
      BY DEF IsLast
    <3>1. b.path \in Seq(Keys) /\ k.path \in Seq(Keys) /\ m \in Keys
      BY <1>1, <2>1, <2>4 DEF IsLeaf
    <3>2. Later(<<m>> \o b.path, <<m>> \o k.path)
      BY <3>1, LaterInMember
    <3>3. /\ Below(m, b).path = <<m>> \o b.path /\ l.path = <<m>> \o k.path
          /\ Below(m, b).name = l.name
      BY <2>1 DEF Below
    <3> QED
      BY <1>7, <2>4, <3>2, <3>3 DEF IsLast
  <2>7. l.text = k.text
    BY <2>1 DEF Below
  <2>8. M(m)[l.name] = k.text
    BY <1>2, <2>1, <2>6
  <2>9. Flat[v][l.name] = M(n)[l.name]
    BY <1>5, <2>2 DEF n
  <2> QED
    BY <2>5, <2>7, <2>8, <2>9
<1>8. ASSUME NEW l \in Leaves[v]
      PROVE  \E m \in Leaves[v] : m.name = l.name /\ IsLast(m, Leaves[v])
  <2> DEFINE n == From(l.name)
  <2>1. l.name \in DOMAIN Flat[v]
    BY <1>6
  <2>2. /\ n \in DOMAIN v.members /\ l.name \in DOMAIN M(n)
        /\ \A a \in DOMAIN v.members : l.name \in DOMAIN M(a) /\ a # n => Before(a, n)
    BY <1>5, <2>1, TakenFrom DEF M
  <2> HIDE DEF n
  <2>3. PICK b \in In(n) : Below(n, b).name = l.name
    BY <1>2, <2>2
  <2>4. PICK m \in In(n) : m.name = b.name /\ IsLast(m, In(n))
    BY <1>2, <2>2
  <2>5. Below(n, m) \in Leaves[v] /\ Below(n, m).name = l.name
    BY <1>3, <2>2, <2>3, <2>4 DEF Below
  <2>6. ASSUME NEW c \in Leaves[v], c.name = l.name, Later(c.path, Below(n, m).path)
        PROVE  FALSE
    <3> PICK a \in DOMAIN v.members : \E k \in In(a) : c = Below(a, k)
      BY <1>3
    <3>1. PICK k \in In(a) : c = Below(a, k)
      OBVIOUS
    <3>2. a \in Keys /\ n \in Keys /\ k.path \in Seq(Keys) /\ m.path \in Seq(Keys)
      BY <1>1, <1>2, <2>2, <2>4 DEF IsLeaf
    <3>3. c.path = <<a>> \o k.path /\ Below(n, m).path = <<n>> \o m.path
      BY <3>1 DEF Below
    <3>4. Before(n, a) \/ (n = a /\ Later(k.path, m.path))
      BY <2>6, <3>2, <3>3, LaterOnly
    <3>5. a = n \/ Before(a, n)
      BY <1>2, <2>2, <2>6, <3>1
    <3>6. ~ (Before(n, a) /\ (a = n \/ Before(a, n)))
      BY <3>2, BeforeAsymmetric
    <3>7. n = a /\ Later(k.path, m.path)
      BY <3>4, <3>5, <3>6
    <3>8. k \in In(n) /\ k.name = m.name
      <4>1. Below(n, k).name = Below(n, m).name
        BY <2>5, <2>6, <3>1, <3>7
      <4> DEFINE prefix == <<"_">> \o ToUpper(n)
      <4>2. prefix \o k.name = prefix \o m.name
        BY <4>1 DEF Below
      <4>3. prefix \in Keys /\ k.name \in Keys /\ m.name \in Keys
        BY <1>2, <2>2, <2>4, <3>2, <3>7, FlatNames DEF IsLeaf
      <4> HIDE DEF prefix
      <4>4. k.name = m.name
        BY ONLY <4>2, <4>3, ConcatSimplifications, Zenon DEF Keys
      <4> QED
        BY <3>7, <4>4
    <3> QED
      BY <2>4, <3>7, <3>8 DEF IsLast
  <2> QED
    BY <2>5, <2>6 DEF IsLast
<1> QED
  BY <1>4, <1>6, <1>7, <1>8 DEF Stored

(* flattenJSON stores the last leaves of any value. *)
LEMMA FlatLeaves == \A v \in Values : Stored(v)
<1> DEFINE Bad == {n \in Nat : \E v \in Values : Nesting[v] = n /\ ~Stored(v)}
<1>1. Bad = {}
  <2> SUFFICES ASSUME Bad # {} PROVE FALSE
    OBVIOUS
  <2>1. PICK n \in Bad : \A m \in Bad : n <= m
    <3>1. Bad \subseteq Nat
      OBVIOUS
    <3> HIDE DEF Bad
    <3> QED
      BY <3>1, LeastNumber
  <2>2. PICK v \in Values : Nesting[v] = n /\ ~Stored(v)
    BY <2>1
  <2>3. CASE v.kind = "leaf"
    <3>1. Leaves[v] = {[path |-> <<>>, name |-> <<>>, text |-> v.text]}
      BY <2>3, LeavesIs DEF LeavesOf
    <3>2. DOMAIN Flat[v] = {<<>>} /\ Flat[v][<<>>] = v.text
      BY <2>3, FlatIs DEF FlatOf
    <3>3. ASSUME NEW l \in Leaves[v] PROVE IsLeaf(l)
      <4>1. l.path = <<>> /\ l.name = <<>> /\ <<>> \in Seq(Keys)
        BY <3>1
      <4> QED
        BY <4>1, FlatNames DEF IsLeaf
    <3>4. \A l \in Leaves[v] : IsLast(l, Leaves[v])
      <4>1. \A l \in Leaves[v] : l.path = <<>>
        BY <3>1
      <4> QED
        BY <4>1 DEF IsLast, Later
    <3> QED
      BY <2>2, <3>1, <3>2, <3>3, <3>4 DEF Stored
  <2>4. CASE v.kind # "leaf"
    <3>1. ASSUME NEW name \in DOMAIN v.members PROVE Stored(v.members[name])
      <4>1. /\ v.members[name] \in Values
            /\ Nesting[v.members[name]] \in Nat /\ n \in Nat /\ Nesting[v.members[name]] < n
        BY <2>1, <2>2, <2>4, Members
      <4>2. ~ (n <= Nesting[v.members[name]])
        BY <4>1
      <4>3. Nesting[v.members[name]] \notin Bad
        <5> HIDE DEF Bad
        <5> QED
          BY <2>1, <4>2
      <4> QED
        BY <4>1, <4>3
    <3> QED
      BY <2>2, <2>4, <3>1, StoredObject
  <2> QED
    BY <2>3, <2>4
<1>2. ASSUME NEW v \in Values PROVE Stored(v)
  <2>1. Nesting[v] \in Nat
    BY TransformsAssumption
  <2> QED
    BY <1>1, <2>1
<1> QED
  BY <1>2

-----------------------------------------------------------------------------
(* The transforms *)

(* What is expanded is entries. *)
LEMMA ExpandedIs ==
    ASSUME NEW t, t.key \in Keys, NEW in, t.key \in DOMAIN in, in[t.key].of \in Values
    PROVE  IsEntries(Expanded(in, t))
  BY Upper, FlatEntries, PrefixedIs DEF Expanded

(* What is left, and what is in either of two *)
LEMMA WithIs ==
    ASSUME NEW entries, IsEntries(entries), NEW in, IsEntries(in), NEW key
    PROVE  IsEntries(With(entries, Without(in, key)))
<1> DEFINE W == Without(in, key)
<1>1. DOMAIN W = DOMAIN in \ {key} /\ \A k \in DOMAIN W : W[k] = in[k]
  BY DEF Without
<1>2. DOMAIN W \subseteq Keys /\ \A k \in DOMAIN W : W[k] \in Texts
  BY <1>1 DEF IsEntries
<1>3. DOMAIN entries \subseteq Keys /\ \A k \in DOMAIN entries : entries[k] \in Texts
  BY DEF IsEntries
<1> HIDE DEF W
<1> DEFINE B == With(entries, W)
<1>4. /\ B \in [DOMAIN entries \cup DOMAIN W -> Texts]
  BY <1>2, <1>3 DEF With
<1>5. DOMAIN B = DOMAIN entries \cup DOMAIN W
  BY DEF With
<1> HIDE DEF B
<1>6. IsEntries(B)
  BY <1>2, <1>3, <1>4, <1>5 DEF IsEntries
<1> QED
  BY <1>6 DEF B, W

(* Entries stay entries, under any transform that can be applied. *)
LEMMA ApplyIs ==
    ASSUME NEW t, IsTransform(t), NEW in, IsEntries(in), CanApply(in, t)
    PROVE  IsEntries(ApplyOne(in, t))
<1>1. CASE t.type \in {"prefix", "suffix"}
  <2>1. ApplyOne(in, t) = Affix(in, t)
    BY <1>1 DEF ApplyOne
  <2> QED
    BY <1>1, <2>1, AffixIs DEF IsTransform
<1>2. CASE t.type = "rename"
  <2>1. ApplyOne(in, t) = Rename(in, t)
    BY <1>2 DEF ApplyOne
  <2>2. CASE t.from = t.to \/ t.from \notin DOMAIN in
    BY <2>1, <2>2 DEF Rename
  <2>3. CASE ~ (t.from = t.to \/ t.from \notin DOMAIN in)
    <3> DEFINE e == [k \in {t.to} |-> in[t.from]]
    <3>1. in[t.from] \in Texts /\ t.to \in Keys
      BY <1>2, <2>3 DEF IsEntries, IsTransform
    <3>2. IsEntries(e)
      BY <3>1 DEF IsEntries
    <3>3. Rename(in, t) = With(e, Without(in, t.from))
      BY <2>3 DEF Rename
    <3> HIDE DEF e
    <3> QED
      BY <2>1, <3>2, <3>3, WithIs
  <2> QED
    BY <2>2, <2>3
<1>3. CASE t.type = "base64Decode"
  <2>1. ApplyOne(in, t) = Base64Decode(in, t)
    BY <1>3 DEF ApplyOne
  <2>2. ASSUME NEW k \in DOMAIN in
        PROVE  [in[k] EXCEPT !.base64 = @ - Decodings(k, t)] \in Texts
    <3>1. in[k] \in Texts
      BY DEF IsEntries
    <3>2. Decodings(k, t) \in Nat
      <4>1. t.keys \in Seq(Keys)
        BY <1>3 DEF IsTransform
      <4>2. IsFiniteSet({i \in DOMAIN t.keys : t.keys[i] = k})
        <5>1. DOMAIN t.keys = 1..Len(t.keys) /\ Len(t.keys) \in Nat
          BY <4>1
        <5>2. IsFiniteSet(1..Len(t.keys))
          BY <5>1, FS_Interval
        <5>3. {i \in DOMAIN t.keys : t.keys[i] = k} \in SUBSET (1..Len(t.keys))
          BY <5>1
        <5> QED
          BY <5>2, <5>3, FS_Subset
      <4> QED
        BY <4>2, FS_CardinalityType DEF Decodings
    <3>3. Decodings(k, t) <= in[k].base64
      BY <1>3 DEF CanApply, CanDecode
    <3>4. in[k].base64 \in Nat /\ in[k].base64 - Decodings(k, t) \in Nat
      BY <3>1, <3>2, <3>3 DEF Texts
    <3> QED
      BY <3>1, <3>4 DEF Texts
  <2>3. Base64Decode(in, t) \in [DOMAIN in -> Texts]
    BY <2>2 DEF Base64Decode
  <2>4. DOMAIN Base64Decode(in, t) = DOMAIN in
    BY DEF Base64Decode
  <2> QED
    BY <2>1, <2>3, <2>4 DEF IsEntries
<1>4. CASE t.type = "jsonExpand"
  <2>1. ApplyOne(in, t) = JSONExpand(in, t)
    BY <1>4 DEF ApplyOne
  <2>2. CASE t.key \notin DOMAIN in
    BY <2>1, <2>2 DEF JSONExpand
  <2>3. CASE t.key \in DOMAIN in
    <3>1. in[t.key].of \in Values /\ t.key \in Keys
      BY <1>4, <2>3 DEF CanApply, CanExpand, IsTransform
    <3>2. IsEntries(Expanded(in, t))
      BY <2>3, <3>1, ExpandedIs
    <3>3. JSONExpand(in, t) = With(Expanded(in, t), Without(in, t.key))
      BY <2>3 DEF JSONExpand
    <3> QED
      BY <2>1, <3>2, <3>3, WithIs
  <2> QED
    BY <2>2, <2>3
<1> QED
  BY <1>1, <1>2, <1>3, <1>4 DEF CanApply, TransformTypes

-----------------------------------------------------------------------------
(* Entries by themselves and together *)

(* No two of the e[k] have a key in common. *)
Disjoint(e) == \A j, k \in DOMAIN e : j # k => DOMAIN e[j] \cap DOMAIN e[k] = {}

(* What the e[k] are together is g, and none is lost to another. *)
Covers(g, e) ==
    /\ IsEntries(g) /\ \A k \in DOMAIN e : IsEntries(e[k])
    /\ \A key \in DOMAIN g : \E k \in DOMAIN e : key \in DOMAIN e[k]
    /\ \A k \in DOMAIN e : \A key \in DOMAIN e[k] : key \in DOMAIN g /\ g[key] = e[k][key]
    /\ Disjoint(e)

(* What With and Without make of entries *)
LEMMA WithHas ==
    ASSUME NEW x, NEW in, NEW key, NEW w, w = With(x, Without(in, key))
    PROVE  /\ \A k : k \in DOMAIN w <=> k \in DOMAIN x \/ (k \in DOMAIN in /\ k # key)
           /\ \A k \in DOMAIN x : w[k] = x[k]
           /\ \A k \in DOMAIN in : k # key /\ k \notin DOMAIN x => w[k] = in[k]
<1> DEFINE W == Without(in, key)
<1>1. DOMAIN W = DOMAIN in \ {key} /\ \A k \in DOMAIN W : W[k] = in[k]
  BY DEF Without
<1> HIDE DEF W
<1>2. /\ DOMAIN With(x, W) = DOMAIN x \cup DOMAIN W
      /\ \A k \in DOMAIN x : With(x, W)[k] = x[k]
      /\ \A k \in DOMAIN W \ DOMAIN x : With(x, W)[k] = W[k]
  BY DEF With
<1>3. w = With(x, W)
  BY DEF W
<1> QED
  BY <1>1, <1>2, <1>3

(* What an expansion stores: the last leaves, under their names *)
LEMMA ExpandedLeaves ==
    ASSUME NEW key \in Keys, NEW in, key \in DOMAIN in, in[key].of \in Values,
           NEW t, t.key = key,
           NEW y, y = JSONExpand(in, t), NEW leaves, leaves = Leaves[in[key].of]
    PROVE  /\ \A k : k \in DOMAIN y <=>
                \/ k \in DOMAIN in \ {key}
                \/ \E l \in leaves : FlatName(key, l) = k
           /\ \A l \in leaves : IsLast(l, leaves) => y[FlatName(key, l)] = l.text
<1> DEFINE v == in[key].of
           x == Expanded(in, t)
           name == ToUpper(key)
<1>1. v \in Values /\ Stored(v) /\ name \in Keys
  BY FlatLeaves, Upper
<1>2. x = Prefixed(Flat[v], name)
  BY DEF Expanded
<1>3. y = With(x, Without(in, key)) /\ leaves = Leaves[v]
  BY DEF JSONExpand
<1> HIDE DEF v, x, name
<1>4. /\ \A k : k \in DOMAIN x <=> \E l \in leaves : name \o l.name = k
      /\ \A l \in leaves : IsLast(l, leaves) => x[name \o l.name] = l.text
  <2> DEFINE g == Prefixed(Flat[v], name)
  <2>1. /\ \A k : k \in DOMAIN g <=> \E l \in Leaves[v] : name \o l.name = k
        /\ \A l \in Leaves[v] : IsLast(l, Leaves[v]) => g[name \o l.name] = l.text
    BY ONLY <1>1, StoredPrefixed
  <2>2. x = g
    BY <1>2
  <2> HIDE DEF g
  <2> QED
    BY <1>3, <2>1, <2>2, Zenon
<1>5. /\ \A k : k \in DOMAIN y <=> k \in DOMAIN x \/ (k \in DOMAIN in /\ k # key)
      /\ \A k \in DOMAIN x : y[k] = x[k]
  BY <1>3, WithHas
<1>6. /\ \A k : k \in DOMAIN y <=>
           \/ k \in DOMAIN in \ {key}
           \/ \E l \in leaves : name \o l.name = k
      /\ \A l \in leaves : IsLast(l, leaves) => y[name \o l.name] = l.text
  BY <1>4, <1>5
<1> QED
  BY <1>6, Zenon DEF name, FlatName

(* An affix keeps them together. *)
LEMMA AffixCovers ==
    ASSUME NEW t, t.value \in Keys, NEW g, NEW e, Covers(g, e),
           NEW f, DOMAIN f = DOMAIN e, \A k \in DOMAIN e : f[k] = Affix(e[k], t)
    PROVE  Covers(Affix(g, t), f)
<1>1. /\ IsEntries(g) /\ \A k \in DOMAIN e : IsEntries(e[k])
      /\ \A key \in DOMAIN g : \E k \in DOMAIN e : key \in DOMAIN e[k]
      /\ \A k \in DOMAIN e : \A key \in DOMAIN e[k] : key \in DOMAIN g /\ g[key] = e[k][key]
      /\ Disjoint(e)
  BY DEF Covers
<1>2. /\ IsEntries(Affix(g, t))
      /\ DOMAIN Affix(g, t) = {Affixed(key, t) : key \in DOMAIN g}
      /\ \A key \in DOMAIN g : Affix(g, t)[Affixed(key, t)] = g[key]
  <2>1. IsEntries(g)
    BY <1>1
  <2> QED
    BY ONLY <2>1, t.value \in Keys, AffixIs, Zenon
<1>3. ASSUME NEW k \in DOMAIN e
      PROVE  /\ IsEntries(f[k])
             /\ DOMAIN f[k] = {Affixed(key, t) : key \in DOMAIN e[k]}
             /\ \A key \in DOMAIN e[k] : f[k][Affixed(key, t)] = e[k][key]
  <2>1. IsEntries(e[k])
    BY <1>1
  <2>2. /\ IsEntries(Affix(e[k], t))
        /\ DOMAIN Affix(e[k], t) = {Affixed(key, t) : key \in DOMAIN e[k]}
        /\ \A key \in DOMAIN e[k] : Affix(e[k], t)[Affixed(key, t)] = e[k][key]
    BY ONLY <2>1, t.value \in Keys, AffixIs, Zenon
  <2>3. f[k] = Affix(e[k], t)
    OBVIOUS
  <2> QED
    BY ONLY <2>2, <2>3, Zenon
<1>4. ASSUME NEW a \in DOMAIN Affix(g, t) PROVE \E k \in DOMAIN f : a \in DOMAIN f[k]
  <2>1. PICK key \in DOMAIN g : a = Affixed(key, t)
    BY <1>2
  <2>2. PICK k \in DOMAIN e : key \in DOMAIN e[k]
    BY <1>1
  <2> QED
    BY <1>3, <2>1, <2>2
<1>5. ASSUME NEW k \in DOMAIN f, NEW a \in DOMAIN f[k]
      PROVE  a \in DOMAIN Affix(g, t) /\ Affix(g, t)[a] = f[k][a]
  <2>1. PICK key \in DOMAIN e[k] : a = Affixed(key, t)
    BY <1>3
  <2>2. key \in DOMAIN g /\ g[key] = e[k][key]
    BY <1>1, <2>1
  <2> QED
    BY <1>2, <1>3, <2>1, <2>2
<1>6. ASSUME NEW j \in DOMAIN f, NEW k \in DOMAIN f, j # k, NEW a \in DOMAIN f[j]
      PROVE  a \notin DOMAIN f[k]
  <2> SUFFICES ASSUME a \in DOMAIN f[k] PROVE FALSE
    OBVIOUS
  <2>1. PICK x \in DOMAIN e[j] : a = Affixed(x, t)
    BY <1>3
  <2>2. PICK y \in DOMAIN e[k] : a = Affixed(y, t)
    BY <1>3
  <2>3. x \in Keys /\ y \in Keys
    BY <1>1 DEF IsEntries
  <2>4. x = y
    BY <2>1, <2>2, <2>3, Affixes
  <2> QED
    BY <1>1, <1>6, <2>4 DEF Disjoint
<1>7. Disjoint(f)
  BY <1>6 DEF Disjoint
<1> QED
  BY <1>2, <1>3, <1>4, <1>5, <1>7 DEF Covers

(* So does what gives way, in one of them, to entries that collide with none. *)
LEMMA ReplacedCovers ==
    ASSUME NEW g, NEW e, Covers(g, e), NEW o \in DOMAIN e, NEW key \in DOMAIN e[o],
           NEW x, IsEntries(x), DOMAIN x \cap (DOMAIN g \ {key}) = {},
           NEW f, DOMAIN f = DOMAIN e, f[o] = With(x, Without(e[o], key)),
           \A k \in DOMAIN e \ {o} : f[k] = e[k]
    PROVE  Covers(With(x, Without(g, key)), f)
<1> DEFINE G == With(x, Without(g, key))
<1>1. /\ IsEntries(g) /\ \A k \in DOMAIN e : IsEntries(e[k])
      /\ \A a \in DOMAIN g : \E k \in DOMAIN e : a \in DOMAIN e[k]
      /\ \A k \in DOMAIN e : \A a \in DOMAIN e[k] : a \in DOMAIN g /\ g[a] = e[k][a]
      /\ Disjoint(e)
  BY DEF Covers
<1>2. /\ IsEntries(G)
      /\ \A k : k \in DOMAIN G <=> k \in DOMAIN x \/ (k \in DOMAIN g /\ k # key)
      /\ \A k \in DOMAIN x : G[k] = x[k]
      /\ \A k \in DOMAIN g : k # key /\ k \notin DOMAIN x => G[k] = g[k]
  <2>1. IsEntries(g)
    BY <1>1
  <2>2. IsEntries(G)
    BY ONLY <2>1, IsEntries(x), WithIs, Zenon
  <2>3. G = With(x, Without(g, key))
    OBVIOUS
  <2> HIDE DEF G
  <2> QED
    BY ONLY <2>2, <2>3, WithHas
<1>3. /\ IsEntries(f[o])
      /\ \A k : k \in DOMAIN f[o] <=> k \in DOMAIN x \/ (k \in DOMAIN e[o] /\ k # key)
      /\ \A k \in DOMAIN x : f[o][k] = x[k]
      /\ \A k \in DOMAIN e[o] : k # key /\ k \notin DOMAIN x => f[o][k] = e[o][k]
  <2>1. IsEntries(e[o])
    BY <1>1
  <2>2. f[o] = With(x, Without(e[o], key))
    OBVIOUS
  <2>3. IsEntries(f[o])
    BY ONLY <2>1, <2>2, IsEntries(x), WithIs, Zenon
  <2> QED
    BY ONLY <2>2, <2>3, WithHas
<1> HIDE DEF G
<1>4. \A k \in DOMAIN f : IsEntries(f[k])
  BY <1>1, <1>3
<1>5. ASSUME NEW k \in DOMAIN e \ {o} PROVE key \notin DOMAIN e[k]
  BY <1>1, <1>5 DEF Disjoint
<1>6. ASSUME NEW a \in DOMAIN G PROVE \E k \in DOMAIN f : a \in DOMAIN f[k]
  <2>1. CASE a \in DOMAIN x
    BY <1>3, <2>1
  <2>2. CASE a \in DOMAIN g \ {key}
    <3>1. PICK k \in DOMAIN e : a \in DOMAIN e[k]
      BY <1>1, <2>2
    <3> QED
      BY <1>3, <2>2, <3>1
  <2> QED
    BY <1>2, <2>1, <2>2
<1>7. ASSUME NEW k \in DOMAIN f, NEW a \in DOMAIN f[k]
      PROVE  a \in DOMAIN G /\ G[a] = f[k][a]
  <2>1. CASE k = o
    BY <1>1, <1>2, <1>3, <2>1
  <2>2. CASE k # o
    <3>1. a \in DOMAIN e[k] /\ f[k] = e[k] /\ a # key
      BY <1>5, <2>2
    <3>2. a \in DOMAIN g \ {key} /\ a \notin DOMAIN x /\ g[a] = e[k][a]
      BY <1>1, <3>1
    <3> QED
      BY <1>2, <3>1, <3>2
  <2> QED
    BY <2>1, <2>2
<1>8. ASSUME NEW k \in DOMAIN e \ {o} PROVE DOMAIN f[o] \cap DOMAIN f[k] = {}
  <2>1. f[k] = e[k] /\ DOMAIN e[o] \cap DOMAIN e[k] = {}
    BY <1>1 DEF Disjoint
  <2>2. DOMAIN e[k] \subseteq DOMAIN g \ {key}
    BY <1>1, <1>5
  <2> QED
    BY <1>3, <2>1, <2>2
<1>9. Disjoint(f)
  <2> SUFFICES ASSUME NEW j \in DOMAIN f, NEW k \in DOMAIN f, j # k
               PROVE  DOMAIN f[j] \cap DOMAIN f[k] = {}
    BY DEF Disjoint
  <2>1. CASE j = o
    BY <1>8, <2>1
  <2>2. CASE k = o
    BY <1>8, <2>2
  <2>3. CASE j # o /\ k # o
    BY <1>1, <2>3 DEF Disjoint
  <2> QED
    BY <2>1, <2>2, <2>3
<1>10. Covers(G, f)
  BY <1>2, <1>4, <1>6, <1>7, <1>9 DEF Covers
<1> QED
  BY <1>10 DEF G

(* Otherwise the collision shows between two of them, or in the one. *)
LEMMA ReplacedCollides ==
    ASSUME NEW g, NEW e, Covers(g, e), NEW o \in DOMAIN e, NEW key \in DOMAIN e[o],
           NEW x, DOMAIN x \cap (DOMAIN e[o] \ {key}) = {},
           NEW f, DOMAIN f = DOMAIN e, f[o] = With(x, Without(e[o], key)),
           \A k \in DOMAIN e \ {o} : f[k] = e[k], Disjoint(f)
    PROVE  DOMAIN x \cap (DOMAIN g \ {key}) = {}
<1> SUFFICES ASSUME NEW a \in DOMAIN x, a \in DOMAIN g, a # key PROVE FALSE
  OBVIOUS
<1>1. PICK k \in DOMAIN e : a \in DOMAIN e[k]
  BY DEF Covers
<1>2. \A b : b \in DOMAIN f[o] <=> b \in DOMAIN x \/ (b \in DOMAIN e[o] /\ b # key)
  BY WithHas
<1>3. CASE k = o
  BY <1>1, <1>3
<1>4. CASE k # o
  <2>1. a \in DOMAIN f[o] /\ a \in DOMAIN f[k]
    BY <1>1, <1>2, <1>4
  <2> QED
    BY <1>4, <2>1 DEF Disjoint
<1> QED
  BY <1>3, <1>4

(* A transform that can be applied to all can be applied to each. *)
LEMMA CanEach ==
    ASSUME NEW g, NEW e, Covers(g, e), NEW t, CanApply(g, t), NEW k \in DOMAIN e
    PROVE  CanApply(e[k], t)
<1>1. \A key \in DOMAIN e[k] : key \in DOMAIN g /\ g[key] = e[k][key]
  BY DEF Covers
<1>2. CASE t.type = "rename"
  BY <1>1, <1>2 DEF CanApply, CanRename
<1>3. CASE t.type = "base64Decode"
  BY <1>1, <1>3 DEF CanApply, CanDecode
<1>4. CASE t.type = "jsonExpand"
  <2>1. t.key # <<>> /\ t.type \in TransformTypes
    BY <1>4 DEF CanApply, CanExpand
  <2>2. ASSUME t.key \in DOMAIN e[k]
        PROVE  /\ e[k][t.key].base64 = 0 /\ e[k][t.key].of \in Values
               /\ e[k][t.key].of.kind = "object"
               /\ DOMAIN Expanded(e[k], t) \cap DOMAIN Without(e[k], t.key) = {}
    <3>1. t.key \in DOMAIN g /\ g[t.key] = e[k][t.key]
      BY <1>1, <2>2
    <3>2. /\ g[t.key].base64 = 0 /\ g[t.key].of \in Values /\ g[t.key].of.kind = "object"
          /\ DOMAIN Expanded(g, t) \cap DOMAIN Without(g, t.key) = {}
      BY <1>4, <3>1 DEF CanApply, CanExpand
    <3>3. Expanded(e[k], t) = Expanded(g, t)
      BY <3>1 DEF Expanded
    <3>4. DOMAIN Without(e[k], t.key) \subseteq DOMAIN Without(g, t.key)
      BY <1>1 DEF Without
    <3> QED
      BY <3>1, <3>2, <3>3, <3>4
  <2>3. CanExpand(e[k], t)
    BY <2>1, <2>2 DEF CanExpand
  <2> QED
    BY <1>4, <2>1, <2>3 DEF CanApply
<1> QED
  BY <1>2, <1>3, <1>4 DEF CanApply

(* What it makes of all is what it makes of each. *)
LEMMA ApplyCovers ==
    ASSUME NEW g, NEW e, Covers(g, e), NEW t, IsTransform(t), CanApply(g, t),
           NEW f, DOMAIN f = DOMAIN e, \A k \in DOMAIN e : f[k] = ApplyOne(e[k], t)
    PROVE  Covers(ApplyOne(g, t), f)
<1>1. /\ IsEntries(g) /\ \A k \in DOMAIN e : IsEntries(e[k])
      /\ \A key \in DOMAIN g : \E k \in DOMAIN e : key \in DOMAIN e[k]
      /\ \A k \in DOMAIN e : \A key \in DOMAIN e[k] : key \in DOMAIN g /\ g[key] = e[k][key]
      /\ Disjoint(e)
  BY DEF Covers
<1>2. \A k \in DOMAIN e : IsEntries(f[k])
  BY <1>1, CanEach, ApplyIs
<1>3. IsEntries(ApplyOne(g, t))
  BY <1>1, ApplyIs
<1>4. CASE t.type \in {"prefix", "suffix"}
  <2>1. t.value \in Keys
    BY <1>4 DEF IsTransform
  <2>2. \A in : ApplyOne(in, t) = Affix(in, t)
    BY <1>4 DEF ApplyOne
  <2> QED
    BY <2>1, <2>2, AffixCovers
<1>5. ASSUME ApplyOne(g, t) = g, \A k \in DOMAIN e : f[k] = e[k]
      PROVE  Covers(ApplyOne(g, t), f)
  BY <1>1, <1>5 DEF Covers, Disjoint
<1>6. CASE t.type = "rename"
  <2>1. \A in : ApplyOne(in, t) = Rename(in, t)
    BY <1>6 DEF ApplyOne
  <2>2. CASE t.from = t.to \/ t.from \notin DOMAIN g
    <3>1. \A k \in DOMAIN e : t.from = t.to \/ t.from \notin DOMAIN e[k]
      BY <1>1, <2>2
    <3> QED
      BY <1>5, <2>1, <2>2, <3>1 DEF Rename
  <2>3. CASE t.from # t.to /\ t.from \in DOMAIN g
    <3>1. PICK o \in DOMAIN e : t.from \in DOMAIN e[o]
      BY <1>1, <2>3
    <3>2. g[t.from] = e[o][t.from] /\ g[t.from] \in Texts
      BY <1>1, <2>3, <3>1 DEF IsEntries
    <3>3. PICK x : x = [key \in {t.to} |-> g[t.from]]
      OBVIOUS
    <3>4. IsEntries(x) /\ DOMAIN x = {t.to}
      <4>1. t.to \in Keys
        BY <1>6 DEF IsTransform
      <4> QED
        BY <3>2, <3>3, <4>1 DEF IsEntries
    <3>5. DOMAIN x \cap (DOMAIN g \ {t.from}) = {}
      BY <1>6, <2>3, <3>4 DEF CanApply, CanRename
    <3>6. f[o] = With(x, Without(e[o], t.from))
      BY <2>1, <2>3, <3>1, <3>2, <3>3 DEF Rename
    <3>7. ASSUME NEW k \in DOMAIN e \ {o} PROVE f[k] = e[k]
      <4>1. t.from \notin DOMAIN e[k]
        BY <1>1, <3>1 DEF Disjoint
      <4> QED
        BY <2>1, <4>1 DEF Rename
    <3>8. ApplyOne(g, t) = With(x, Without(g, t.from))
      BY <2>1, <2>3, <3>3 DEF Rename
    <3>9. Covers(With(x, Without(g, t.from)), f)
      BY <3>1, <3>4, <3>5, <3>6, <3>7, ReplacedCovers
    <3> QED
      BY <3>8, <3>9
  <2> QED
    BY <2>2, <2>3
<1>7. CASE t.type = "base64Decode"
  <2>1. \A in : ApplyOne(in, t) = Base64Decode(in, t)
    BY <1>7 DEF ApplyOne
  <2>2. \A in : /\ DOMAIN Base64Decode(in, t) = DOMAIN in
                /\ \A k \in DOMAIN in :
                     Base64Decode(in, t)[k] = [in[k] EXCEPT !.base64 = @ - Decodings(k, t)]
    BY DEF Base64Decode
  <2>3. /\ DOMAIN ApplyOne(g, t) = DOMAIN g
        /\ \A k \in DOMAIN g :
             ApplyOne(g, t)[k] = [g[k] EXCEPT !.base64 = @ - Decodings(k, t)]
    BY <2>1, <2>2
  <2>4. \A k \in DOMAIN e :
          /\ DOMAIN f[k] = DOMAIN e[k]
          /\ \A key \in DOMAIN e[k] :
               f[k][key] = [e[k][key] EXCEPT !.base64 = @ - Decodings(key, t)]
    BY <2>1, <2>2
  <2>5. ASSUME NEW k \in DOMAIN f, NEW key \in DOMAIN f[k]
        PROVE  key \in DOMAIN ApplyOne(g, t) /\ ApplyOne(g, t)[key] = f[k][key]
    <3>1. key \in DOMAIN g /\ g[key] = e[k][key] /\ key \in DOMAIN e[k]
      BY <1>1, <2>4
    <3>2. ApplyOne(g, t)[key] = [g[key] EXCEPT !.base64 = @ - Decodings(key, t)]
      BY <2>3, <3>1, Zenon
    <3>3. f[k][key] = [e[k][key] EXCEPT !.base64 = @ - Decodings(key, t)]
      BY <2>4, <3>1, Zenon
    <3>4. ApplyOne(g, t)[key] = f[k][key]
      BY ONLY <3>1, <3>2, <3>3, Zenon
    <3> QED
      BY <2>3, <3>1, <3>4
  <2>6. Disjoint(f)
    BY <1>1, <2>4 DEF Disjoint
  <2>7. \A key \in DOMAIN ApplyOne(g, t) : \E k \in DOMAIN f : key \in DOMAIN f[k]
    BY <1>1, <2>3, <2>4
  <2> QED
    BY <1>2, <1>3, <2>5, <2>6, <2>7 DEF Covers
<1>8. CASE t.type = "jsonExpand"
  <2>1. \A in : ApplyOne(in, t) = JSONExpand(in, t)
    BY <1>8 DEF ApplyOne
  <2>2. CASE t.key \notin DOMAIN g
    <3>1. \A k \in DOMAIN e : t.key \notin DOMAIN e[k]
      BY <1>1, <2>2
    <3> QED
      BY <1>5, <2>1, <2>2, <3>1 DEF JSONExpand
  <2>3. CASE t.key \in DOMAIN g
    <3>1. PICK o \in DOMAIN e : t.key \in DOMAIN e[o]
      BY <1>1, <2>3
    <3>2. PICK x : x = Expanded(g, t)
      OBVIOUS
    <3>3. x = Expanded(e[o], t)
      BY <1>1, <3>1, <3>2 DEF Expanded
    <3>4. /\ g[t.key].of \in Values /\ t.key \in Keys
          /\ DOMAIN Expanded(g, t) \cap DOMAIN Without(g, t.key) = {}
      BY <1>8, <2>3 DEF CanApply, CanExpand, IsTransform
    <3>5. IsEntries(x)
      BY <2>3, <3>2, <3>4, ExpandedIs
    <3>6. DOMAIN x \cap (DOMAIN g \ {t.key}) = {}
      BY <3>2, <3>4 DEF Without
    <3>7. f[o] = With(x, Without(e[o], t.key))
      BY <2>1, <3>1, <3>3 DEF JSONExpand
    <3>8. ASSUME NEW k \in DOMAIN e \ {o} PROVE f[k] = e[k]
      <4>1. t.key \notin DOMAIN e[k]
        BY <1>1, <3>1 DEF Disjoint
      <4> QED
        BY <2>1, <4>1 DEF JSONExpand
    <3>9. ApplyOne(g, t) = With(x, Without(g, t.key))
      BY <2>1, <2>3, <3>2 DEF JSONExpand
    <3>10. Covers(With(x, Without(g, t.key)), f)
      BY <3>1, <3>5, <3>6, <3>7, <3>8, ReplacedCovers
    <3> QED
      BY <3>9, <3>10
  <2> QED
    BY <2>2, <2>3
<1> QED
  BY <1>4, <1>6, <1>7, <1>8 DEF CanApply, TransformTypes

(* One that can be applied to each, and makes none collide, can be to all. *)
LEMMA CanTogether ==
    ASSUME NEW g, NEW e, Covers(g, e), NEW t, CanApply(<<>>, t),
           \A k \in DOMAIN e : CanApply(e[k], t),
           NEW f, DOMAIN f = DOMAIN e, \A k \in DOMAIN e : f[k] = ApplyOne(e[k], t),
           Disjoint(f)
    PROVE  CanApply(g, t)
<1>1. /\ \A key \in DOMAIN g : \E k \in DOMAIN e : key \in DOMAIN e[k]
      /\ \A k \in DOMAIN e : \A key \in DOMAIN e[k] : key \in DOMAIN g /\ g[key] = e[k][key]
      /\ Disjoint(e)
  BY DEF Covers
<1>2. t.type \in TransformTypes
  BY DEF CanApply
<1>3. CASE t.type = "rename"
  <2>1. t.from # <<>> /\ t.to # <<>>
    BY <1>3 DEF CanApply, CanRename
  <2>2. ASSUME t.from # t.to, t.from \in DOMAIN g PROVE t.to \notin DOMAIN g
    <3>1. PICK o \in DOMAIN e : t.from \in DOMAIN e[o]
      BY <1>1, <2>2
    <3>2. PICK x : x = [key \in {t.to} |-> e[o][t.from]]
      OBVIOUS
    <3>3. DOMAIN x = {t.to}
      BY <3>2
    <3>4. \A in : ApplyOne(in, t) = Rename(in, t)
      BY <1>3 DEF ApplyOne
    <3>5. f[o] = With(x, Without(e[o], t.from))
      BY <2>2, <3>1, <3>2, <3>4 DEF Rename
    <3>6. ASSUME NEW k \in DOMAIN e \ {o} PROVE f[k] = e[k]
      <4>1. t.from \notin DOMAIN e[k]
        BY <1>1, <3>1 DEF Disjoint
      <4> QED
        BY <3>4, <4>1 DEF Rename
    <3>7. DOMAIN x \cap (DOMAIN e[o] \ {t.from}) = {}
      BY <1>3, <2>2, <3>1, <3>3 DEF CanApply, CanRename
    <3>8. DOMAIN x \cap (DOMAIN g \ {t.from}) = {}
      BY <3>1, <3>5, <3>6, <3>7, ReplacedCollides
    <3> QED
      BY <2>2, <3>3, <3>8
  <2>3. CanRename(g, t)
    BY <2>1, <2>2 DEF CanRename
  <2> QED
    BY <1>2, <1>3, <2>3 DEF CanApply
<1>4. CASE t.type = "base64Decode"
  <2>1. ASSUME NEW key \in DOMAIN g PROVE Decodings(key, t) <= g[key].base64
    <3>1. PICK k \in DOMAIN e : key \in DOMAIN e[k]
      BY <1>1
    <3>2. Decodings(key, t) <= e[k][key].base64
      BY <1>4, <3>1 DEF CanApply, CanDecode
    <3> QED
      BY <1>1, <3>1, <3>2
  <2> QED
    BY <1>2, <1>4, <2>1 DEF CanApply, CanDecode
<1>5. CASE t.type = "jsonExpand"
  <2>1. t.key # <<>>
    BY <1>5 DEF CanApply, CanExpand
  <2>2. ASSUME t.key \in DOMAIN g
        PROVE  /\ g[t.key].base64 = 0 /\ g[t.key].of \in Values
               /\ g[t.key].of.kind = "object"
               /\ DOMAIN Expanded(g, t) \cap DOMAIN Without(g, t.key) = {}
    <3>1. PICK o \in DOMAIN e : t.key \in DOMAIN e[o]
      BY <1>1, <2>2
    <3>2. g[t.key] = e[o][t.key] /\ Expanded(g, t) = Expanded(e[o], t)
      BY <1>1, <3>1 DEF Expanded
    <3>3. /\ e[o][t.key].base64 = 0 /\ e[o][t.key].of \in Values
          /\ e[o][t.key].of.kind = "object"
          /\ DOMAIN Expanded(e[o], t) \cap DOMAIN Without(e[o], t.key) = {}
      BY <1>5, <3>1 DEF CanApply, CanExpand
    <3>4. PICK x : x = Expanded(e[o], t)
      OBVIOUS
    <3>5. \A in : ApplyOne(in, t) = JSONExpand(in, t)
      BY <1>5 DEF ApplyOne
    <3>6. f[o] = With(x, Without(e[o], t.key))
      BY <3>1, <3>4, <3>5 DEF JSONExpand
    <3>7. ASSUME NEW k \in DOMAIN e \ {o} PROVE f[k] = e[k]
      <4>1. t.key \notin DOMAIN e[k]
        BY <1>1, <3>1 DEF Disjoint
      <4> QED
        BY <3>5, <4>1 DEF JSONExpand
    <3>8. DOMAIN x \cap (DOMAIN e[o] \ {t.key}) = {}
      BY <3>3, <3>4 DEF Without
    <3>9. DOMAIN x \cap (DOMAIN g \ {t.key}) = {}
      BY <3>1, <3>6, <3>7, <3>8, ReplacedCollides
    <3>10. DOMAIN Expanded(g, t) \cap DOMAIN Without(g, t.key) = {}
      BY <3>2, <3>4, <3>9 DEF Without
    <3> QED
      BY <3>2, <3>3, <3>10
  <2>3. CanExpand(g, t)
    BY <2>1, <2>2 DEF CanExpand
  <2> QED
    BY <1>2, <1>5, <2>3 DEF CanApply
<1> QED
  BY <1>2, <1>3, <1>4, <1>5 DEF CanApply

-----------------------------------------------------------------------------
(* The inductive invariant *)

(* What has become of each entry by itself *)
Parts == [k \in DOMAIN alone |-> alone[k].entries]

(* A transform that failed does so on nothing, on an entry, or by a collision. *)
FailsForAReason ==
    failed => \/ ~CanApply(<<>>, list[index])
              \/ \E k \in DOMAIN alone : ~Each(list[index])[k].ok
              \/ ~Apart(Each(list[index]))

TransformsInv ==
    /\ TypeOK /\ list \in Lists
    /\ \A k \in DOMAIN alone : alone[k].ok
    /\ Covers(out, Parts)
    /\ FailsForAReason

(* The parts are apart, and together what is there. *)
LEMMA PartsTogether ==
    ASSUME Covers(out, Parts)
    PROVE  Apart(alone) /\ out = Together(alone)
<1>1. DOMAIN Parts = DOMAIN alone /\ \A k \in DOMAIN alone : Parts[k] = alone[k].entries
  BY DEF Parts
<1>2. /\ out \in [DOMAIN out -> Texts]
      /\ \A key \in DOMAIN out : \E k \in DOMAIN alone : key \in DOMAIN alone[k].entries
      /\ \A k \in DOMAIN alone : \A key \in DOMAIN alone[k].entries :
           key \in DOMAIN out /\ out[key] = alone[k].entries[key]
      /\ \A j, k \in DOMAIN alone :
           j # k => DOMAIN alone[j].entries \cap DOMAIN alone[k].entries = {}
  BY <1>1 DEF Covers, Disjoint, IsEntries
<1>3. DOMAIN out = UNION {DOMAIN alone[k].entries : k \in DOMAIN alone}
  <2>1. \A key : key \in DOMAIN out <=> \E k \in DOMAIN alone : key \in DOMAIN alone[k].entries
    BY <1>2, Zenon
  <2> QED
    BY <2>1, Zenon
<1> DEFINE Owner(key) == CHOOSE k \in DOMAIN alone : key \in DOMAIN alone[k].entries
<1>4. ASSUME NEW key \in DOMAIN out PROVE out[key] = alone[Owner(key)].entries[key]
  <2>1. Owner(key) \in DOMAIN alone /\ key \in DOMAIN alone[Owner(key)].entries
    BY <1>2, Zenon
  <2> QED
    BY <1>2, <2>1
<1>5. Together(alone) = [key \in DOMAIN out |-> alone[Owner(key)].entries[key]]
  BY <1>3, Zenon DEF Together
<1> HIDE DEF Owner
<1>6. out = [key \in DOMAIN out |-> alone[Owner(key)].entries[key]]
  <2>1. out = [key \in DOMAIN out |-> out[key]]
    BY <1>2
  <2> QED
    BY <1>4, <2>1
<1> QED
  BY <1>2, <1>5, <1>6 DEF Apart

(* What a transform makes of an entry by itself *)
LEMMA EachIs ==
    ASSUME NEW t, NEW k \in DOMAIN alone, alone[k].ok
    PROVE  /\ DOMAIN Each(t) = DOMAIN alone
           /\ CanApply(alone[k].entries, t) =>
                Each(t)[k].ok /\ Each(t)[k].entries = ApplyOne(alone[k].entries, t)
           /\ ~CanApply(alone[k].entries, t) => ~Each(t)[k].ok
<1>1. DOMAIN Each(t) = DOMAIN alone
  BY DEF Each
<1>2. Each(t)[k] = IF alone[k].ok /\ CanApply(alone[k].entries, t)
                   THEN [ok |-> TRUE, entries |-> ApplyOne(alone[k].entries, t)]
                   ELSE [ok |-> FALSE, entries |-> alone[k].entries]
  BY Zenon DEF Each
<1>3. ASSUME CanApply(alone[k].entries, t)
      PROVE  Each(t)[k].ok /\ Each(t)[k].entries = ApplyOne(alone[k].entries, t)
  <2>1. Each(t)[k] = [ok |-> TRUE, entries |-> ApplyOne(alone[k].entries, t)]
    BY <1>2, <1>3, Zenon
  <2> QED
    BY ONLY <2>1
<1>4. ASSUME ~CanApply(alone[k].entries, t) PROVE ~Each(t)[k].ok
  <2>1. Each(t)[k] = [ok |-> FALSE, entries |-> alone[k].entries]
    BY <1>2, <1>4, Zenon
  <2> QED
    BY ONLY <2>1
<1> QED
  BY <1>1, <1>3, <1>4

(* The transform that is to be applied next is one. *)
LEMMA NextOne ==
    ASSUME TypeOK, list \in Lists, index <= Len(list)
    PROVE  IsTransform(list[index]) /\ index \in Nat /\ Len(list) \in Nat
<1>1. Len(list) \in Nat /\ \A i \in 1..Len(list) : IsTransform(list[i])
  BY TransformsAssumption
<1>2. index \in 1..Len(list) /\ index \in Nat
  BY <1>1 DEF TypeOK
<1> QED
  BY <1>1, <1>2

(* Each entry is all there is of itself. *)
LEMMA InitTransformsInv == Init => TransformsInv
<1> SUFFICES ASSUME Init PROVE TransformsInv
  OBVIOUS
<1>1. /\ input \in Inputs /\ list \in Lists /\ index = 1 /\ out = input /\ ~failed
      /\ failed \in BOOLEAN
      /\ alone = [k \in DOMAIN input |-> [ok |-> TRUE, entries |-> [j \in {k} |-> input[k]]]]
  BY DEF Init
<1>2. IsEntries(out) /\ Len(list) \in Nat
  BY <1>1, TransformsAssumption
<1>3. TypeOK
  BY <1>1, <1>2 DEF TypeOK
<1>4. DOMAIN alone = DOMAIN out
  BY <1>1
<1>5. ASSUME NEW k \in DOMAIN alone
      PROVE  alone[k].ok /\ alone[k].entries = [j \in {k} |-> out[k]]
  <2>1. alone[k] = [ok |-> TRUE, entries |-> [j \in {k} |-> out[k]]]
    BY <1>1, Zenon
  <2> QED
    BY ONLY <2>1
<1>6. ASSUME NEW k \in DOMAIN alone
      PROVE  IsEntries(Parts[k]) /\ DOMAIN Parts[k] = {k} /\ Parts[k][k] = out[k]
  <2>1. Parts[k] = [j \in {k} |-> out[k]]
    BY <1>5 DEF Parts
  <2>2. k \in Keys /\ out[k] \in Texts
    BY <1>2, <1>4 DEF IsEntries
  <2> QED
    BY <2>1, <2>2 DEF IsEntries
<1>7. DOMAIN Parts = DOMAIN out
  BY <1>4 DEF Parts
<1>8. Covers(out, Parts)
  BY <1>2, <1>4, <1>6, <1>7 DEF Covers, Disjoint
<1> QED
  BY <1>1, <1>3, <1>5, <1>8 DEF TransformsInv, FailsForAReason

(* Applying a transform keeps it. *)
LEMMA ApplyInv == TransformsInv /\ Apply => TransformsInv'
<1> SUFFICES ASSUME TransformsInv, Apply PROVE TransformsInv'
  OBVIOUS
<1> DEFINE t == list[index]
<1>1. /\ TypeOK /\ list \in Lists /\ Covers(out, Parts)
      /\ \A k \in DOMAIN alone : alone[k].ok
  BY DEF TransformsInv
<1>2. /\ ~failed /\ index <= Len(list) /\ CanApply(out, t)
      /\ out' = ApplyOne(out, t) /\ alone' = Each(t) /\ index' = index + 1
      /\ UNCHANGED <<input, list, failed>>
  BY DEF Apply
<1>3. IsTransform(t) /\ index \in Nat /\ Len(list) \in Nat
  BY <1>1, <1>2, NextOne
<1> HIDE DEF t
<1>4. DOMAIN Parts = DOMAIN alone /\ \A k \in DOMAIN alone : Parts[k] = alone[k].entries
  BY DEF Parts
<1>5. \A k \in DOMAIN alone : CanApply(Parts[k], t)
  BY <1>1, <1>2, <1>4, CanEach
<1>6. DOMAIN alone' = DOMAIN alone
  BY <1>2 DEF Each
<1>7. \A k \in DOMAIN alone : alone'[k].ok /\ alone'[k].entries = ApplyOne(Parts[k], t)
  BY <1>1, <1>2, <1>4, <1>5, EachIs
<1>8. DOMAIN Parts' = DOMAIN Parts /\ \A k \in DOMAIN Parts : Parts'[k] = ApplyOne(Parts[k], t)
  BY <1>4, <1>6, <1>7 DEF Parts
<1>9. Covers(out', Parts')
  BY <1>1, <1>2, <1>3, <1>8, ApplyCovers
<1>10. TypeOK'
  <2>1. IsEntries(out')
    BY <1>9 DEF Covers
  <2>2. index' \in 1..(Len(list') + 1)
    BY <1>1, <1>2, <1>3 DEF TypeOK
  <2> QED
    BY <1>1, <1>2, <2>1, <2>2 DEF TypeOK
<1> QED
  BY <1>1, <1>2, <1>6, <1>7, <1>9, <1>10 DEF TransformsInv, FailsForAReason

(* A transform that cannot be applied has one of the reasons. *)
LEMMA FailInv == TransformsInv /\ Fail => TransformsInv'
<1> SUFFICES ASSUME TransformsInv, Fail PROVE TransformsInv'
  OBVIOUS
<1> DEFINE t == list[index]
<1>1. /\ TypeOK /\ list \in Lists /\ Covers(out, Parts)
      /\ \A k \in DOMAIN alone : alone[k].ok
  BY DEF TransformsInv
<1>2. /\ index <= Len(list) /\ ~CanApply(out, t) /\ failed' = TRUE
      /\ UNCHANGED <<input, list, index, out, alone>>
  BY DEF Fail
<1>3. t' = t
  BY <1>2
<1> HIDE DEF t
<1>4. DOMAIN Parts = DOMAIN alone /\ \A k \in DOMAIN alone : Parts[k] = alone[k].entries
  BY DEF Parts
<1>5. \/ ~CanApply(<<>>, t) \/ (\E k \in DOMAIN alone : ~Each(t)[k].ok) \/ ~Apart(Each(t))
  <2> SUFFICES ASSUME CanApply(<<>>, t), \A k \in DOMAIN alone : Each(t)[k].ok, Apart(Each(t))
               PROVE  FALSE
    OBVIOUS
  <2>1. \A k \in DOMAIN alone :
          CanApply(Parts[k], t) /\ Each(t)[k].entries = ApplyOne(Parts[k], t)
    BY <1>1, <1>4, EachIs
  <2>2. PICK f : f = [k \in DOMAIN alone |-> Each(t)[k].entries]
    OBVIOUS
  <2>3. DOMAIN f = DOMAIN Parts /\ \A k \in DOMAIN Parts : f[k] = ApplyOne(Parts[k], t)
    BY <1>4, <2>1, <2>2
  <2>4. DOMAIN Each(t) = DOMAIN alone
    BY DEF Each
  <2>5. Disjoint(f)
    BY <2>2, <2>4 DEF Apart, Disjoint
  <2>6. CanApply(out, t)
    BY <1>1, <1>4, <2>1, <2>3, <2>5, CanTogether
  <2> QED
    BY <1>2, <2>6
<1>6. TypeOK'
  BY <1>1, <1>2 DEF TypeOK, IsEntries
<1>7. Covers(out, Parts)'
  BY <1>1, <1>2 DEF Covers, Parts, IsEntries, Disjoint
<1>8. FailsForAReason'
  BY <1>2, <1>5 DEF FailsForAReason, t, Each, Apart
<1> QED
  BY <1>1, <1>2, <1>6, <1>7, <1>8 DEF TransformsInv

(* Nothing breaks it. *)
LEMMA NextTransformsInv == TransformsInv /\ [Next]_vars => TransformsInv'
<1>1. ASSUME TransformsInv, UNCHANGED vars PROVE TransformsInv'
  <2>1. TypeOK' /\ (list \in Lists)' /\ (\A k \in DOMAIN alone : alone[k].ok)'
    BY <1>1 DEF vars, TransformsInv, TypeOK, IsEntries
  <2>2. Covers(out, Parts)'
    BY <1>1 DEF vars, TransformsInv, IsEntries, Covers, Disjoint, Parts
  <2>3. FailsForAReason'
    BY <1>1 DEF vars, TransformsInv, FailsForAReason, Each, Apart
  <2> QED
    BY <2>1, <2>2, <2>3 DEF TransformsInv
<1> QED
  BY <1>1, ApplyInv, FailInv DEF Next

(* The conjuncts together *)
THEOREM TransformsInvariant == Spec => []TransformsInv
  BY InitTransformsInv, NextTransformsInv, PTL DEF Spec

(***************************************************************************)
(* applyOne: whatever the transforms and the JSON that is expanded, what   *)
(* comes out are texts under keys; nothing is decoded that is not base64,  *)
(* and no step is past the end of the list.                                *)
(***************************************************************************)
THEOREM TypeCorrect == Spec => []TypeOK
<1>1. TransformsInv => TypeOK
  BY DEF TransformsInv
<1> QED
  BY <1>1, TransformsInvariant, PTL

(***************************************************************************)
(* ApplyTransforms: for any entries, JSON values and lists of transforms,  *)
(* no entry is lost to another or changed by it, and a transform fails     *)
(* only for a reason of its own, of one entry alone, or of a collision.    *)
(***************************************************************************)
THEOREM NoneIsLost == Spec => []EntriesIndependent
<1>1. TransformsInv => EntriesIndependent
  BY PartsTogether DEF TransformsInv, EntriesIndependent, FailsForAReason
<1> QED
  BY <1>1, TransformsInvariant, PTL

(***************************************************************************)
(* flattenJSON: of the leaves with one flat name there always is a last    *)
(* one, so that what LastIsStored says to be stored is never left open.    *)
(***************************************************************************)
THEOREM NamesHaveLast ==
    \A v \in Values : \A l \in Leaves[v] :
        \E m \in Leaves[v] : m.name = l.name /\ IsLast(m, Leaves[v])
  BY FlatLeaves DEF Stored

(***************************************************************************)
(* jsonExpand: for any JSON value, however deep, what is stored are its    *)
(* leaves under their flat names, and of those with one name the last in   *)
(* the order of the paths.  No map's order of iteration shows.             *)
(***************************************************************************)
THEOREM LastIsStored == Spec => ExpansionTakesLast
<1> DEFINE TakesLast(key, leaves) ==
             /\ DOMAIN out' = (DOMAIN out \ {key}) \cup {FlatName(key, l) : l \in leaves}
             /\ \A l \in leaves : IsLast(l, leaves) => out'[FlatName(key, l)] = l.text
<1>1. ASSUME TransformsInv, [Next]_vars, NEW key \in BeingExpanded, index' # index
      PROVE  TakesLast(key, Leaves[out[key].of])
  <2>1. Apply
    BY <1>1 DEF Next, Fail, vars
  <2> DEFINE t == list[index]
  <2>2. t.type = "jsonExpand" /\ t.key = key /\ key \in DOMAIN out
    BY <1>1 DEF BeingExpanded
  <2>3. CanApply(out, t) /\ out' = ApplyOne(out, t) /\ index <= Len(list)
    BY <2>1 DEF Apply
  <2>4. IsTransform(t)
    BY <1>1, <2>3, NextOne DEF TransformsInv
  <2> HIDE DEF t
  <2>5. key \in Keys
    BY <2>2, <2>4 DEF IsTransform
  <2>6. CanExpand(out, t)
    BY <2>2, <2>3 DEF CanApply
  <2>7. out[key].of \in Values
    BY <2>2, <2>6 DEF CanExpand
  <2>8. out' = JSONExpand(out, t)
    BY <2>2, <2>3 DEF ApplyOne
  <2> DEFINE leaves == Leaves[out[key].of]
  <2>9. leaves = Leaves[out[key].of]
    OBVIOUS
  <2> HIDE DEF leaves
  <2>10. /\ \A k : k \in DOMAIN out' <=>
              \/ k \in DOMAIN out \ {key}
              \/ \E l \in leaves : FlatName(key, l) = k
         /\ \A l \in leaves : IsLast(l, leaves) => out'[FlatName(key, l)] = l.text
    BY <2>2, <2>5, <2>7, <2>8, <2>9, ExpandedLeaves
  <2>11. TakesLast(key, leaves)
    BY <2>10
  <2> QED
    BY <2>9, <2>11
<1>2. TransformsInv /\ [Next]_vars =>
        [\A key \in BeingExpanded : index' # index => TakesLast(key, Leaves[out[key].of])]_vars
  <2> HIDE DEF TakesLast
  <2> QED
    BY <1>1
<1> QED
  BY <1>2, TransformsInvariant, PTL DEF Spec, ExpansionTakesLast
===============================================================================
