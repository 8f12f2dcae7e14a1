--------------------------- MODULE FilteringProofs ---------------------------
(***************************************************************************)
(* What Without leaves of a sequence of any length.  The induction goes    *)
(* over a set of lengths, by its least counterexample, since the provers   *)
(* cannot instantiate an induction over predicates.                        *)
(***************************************************************************)
EXTENDS Filtering, TLAPS, WellFoundedInduction

\* A set of natural numbers that is not empty has a least element.
LEMMA LeastNatural ==
  ASSUME NEW S, S \subseteq Nat, S # {}
  PROVE  \E n \in S : \A m \in S : n <= m
<1> DEFINE R == {ss \in Nat \X Nat : ss[1] < ss[2]}
<1>1. IsWellFoundedOn(R, Nat)
  BY NatLessThanWellFounded, Zenon DEF OpToRel
<1>2. \E x \in S : \A y \in S : ~ (<<y, x>> \in R)
  BY <1>1, WFMin, Zenon
<1>3. \A x, y \in S : ~ (<<y, x>> \in R) => x <= y
  BY DEF R
<1> HIDE DEF R
<1> QED
  BY <1>2, <1>3

\* Induction up to n, over a set instead of a predicate.
LEMMA InductionUpTo ==
  ASSUME NEW n \in Nat, NEW X, 0 \in X, \A i \in 1..n : i - 1 \in X => i \in X
  PROVE  \A i \in 0..n : i \in X
<1> DEFINE Bad == {i \in 0..n : i \notin X}
<1> SUFFICES ASSUME Bad # {}
             PROVE  FALSE
  OBVIOUS
<1>1. PICK m \in Bad : \A i \in Bad : m <= i
  <2>1. Bad \subseteq Nat
    OBVIOUS
  <2> HIDE DEF Bad
  <2> QED
    BY <2>1, LeastNatural
<1>2. m \in 1..n /\ m - 1 \notin Bad /\ m - 1 \in 0..n
  BY <1>1
<1> QED
  BY <1>1, <1>2

\* One unfolding of the recursion that defines Without.
Unfold(f, s, S) ==
  [i \in 0..Len(s) |->
     IF i = 0 THEN <<>>
     ELSE IF s[i] \in S THEN f[i - 1] ELSE Append(f[i - 1], s[i])]

\* f[i] is what Without leaves of the first i elements, for i up to n.
IsKept(f, s, S, n) ==
  /\ f[0] = <<>>
  /\ \A i \in 1..n : f[i] = IF s[i] \in S THEN f[i - 1] ELSE Append(f[i - 1], s[i])

\* The recursion can be solved up to any length.
LEMMA KeptUpTo ==
  ASSUME NEW s, NEW S, NEW n \in Nat
  PROVE  \E f : IsKept(f, s, S, n)
<1> DEFINE X == {i \in 0..n : \E f : IsKept(f, s, S, i)}
<1>1. 0 \in X
  <2> DEFINE f == [i \in {0} |-> <<>>]
  <2>1. IsKept(f, s, S, 0)
    BY DEF IsKept
  <2> QED
    BY <2>1
<1>2. ASSUME NEW i \in 1..n, i - 1 \in X
      PROVE  i \in X
  <2>1. PICK f : IsKept(f, s, S, i - 1)
    BY <1>2
  <2> DEFINE g == [j \in 0..i |-> IF j = i
                                    THEN IF s[i] \in S THEN f[i - 1] ELSE Append(f[i - 1], s[i])
                                    ELSE f[j]]
  <2>2. IsKept(g, s, S, i)
    <3>1. \A j \in 0..(i - 1) : g[j] = f[j]
      OBVIOUS
    <3>2. g[i] = IF s[i] \in S THEN f[i - 1] ELSE Append(f[i - 1], s[i])
      OBVIOUS
    <3> HIDE DEF g
    <3> QED
      BY <2>1, <3>1, <3>2 DEF IsKept
  <2> QED
    BY <2>2
<1>3. \A i \in 0..n : i \in X
  <2> HIDE DEF X
  <2> QED
    BY <1>1, <1>2, InductionUpTo
<1> QED
  BY <1>3

\* What the recursion computes.
LEMMA KeptOf ==
  ASSUME NEW s, NEW S, Len(s) \in Nat
  PROVE  \E f : IsKept(f, s, S, Len(s)) /\ Without(s, S) = f[Len(s)]
<1>1. PICK f : IsKept(f, s, S, Len(s))
  BY KeptUpTo
<1> DEFINE g == [i \in 0..Len(s) |-> f[i]]
           k == CHOOSE h : h = Unfold(h, s, S)
<1>2. g = Unfold(g, s, S)
  BY <1>1 DEF IsKept, Unfold
<1>3. k = Unfold(k, s, S)
  <2> HIDE DEF g
  <2> QED
    BY <1>2
<1>4. Without(s, S) = k[Len(s)]
  BY DEF Without, Unfold
<1>5. IsKept(k, s, S, Len(s))
  <2> HIDE DEF k
  <2>1. \A i : k[i] = Unfold(k, s, S)[i]
    BY <1>3
  <2>2. Unfold(k, s, S)[0] = <<>>
    BY DEF Unfold
  <2>3. \A i \in 1..Len(s) :
          Unfold(k, s, S)[i] = IF s[i] \in S THEN k[i - 1] ELSE Append(k[i - 1], s[i])
    BY DEF Unfold
  <2> QED
    BY <2>1, <2>2, <2>3 DEF IsKept
<1> QED
  BY <1>4, <1>5

\* f sends the places of w to those of the first k places of s that hold no element
\* of S, in their order.
Embeds(f, w, s, S, k) ==
  /\ f \in [1..Len(w) -> 1..k]
  /\ \A i, j \in 1..Len(w) : i < j => f[i] < f[j]
  /\ \A i \in 1..Len(w) : w[i] = s[f[i]] /\ s[f[i]] \notin S
  /\ \A l \in 1..k : s[l] \notin S => \E i \in 1..Len(w) : f[i] = l

\* One more element is kept or left out.
LEMMA EmbedsNext ==
  ASSUME NEW T, NEW s, NEW S, NEW w \in Seq(T), NEW k \in Nat \ {0}, NEW f,
         Embeds(f, w, s, S, k - 1), NEW x \in T, x = s[k]
  PROVE  /\ x \in S => Embeds(f, w, s, S, k)
         /\ x \notin S => \E g : Embeds(g, Append(w, x), s, S, k)
<1> DEFINE m == Len(w)
<1>1. m \in Nat /\ f \in [1..m -> 1..(k - 1)]
  BY DEF Embeds
<1>2. CASE x \in S
  <2>1. \A l \in 1..k : s[l] \notin S => l \in 1..(k - 1)
    BY <1>2
  <2> QED
    BY <1>1, <1>2, <2>1 DEF Embeds
<1>3. CASE x \notin S
  <2> DEFINE v == Append(w, x)
             g == [i \in 1..(m + 1) |-> IF i = m + 1 THEN k ELSE f[i]]
  <2>1. Len(v) = m + 1 /\ v[m + 1] = x /\ \A i \in 1..m : v[i] = w[i]
    BY <1>1
  <2>2. /\ g \in [1..(m + 1) -> 1..k] /\ g[m + 1] = k
        /\ \A i \in 1..m : g[i] = f[i] /\ f[i] \in 1..(k - 1)
    BY <1>1, SMTT(60)
  <2>3. 1..(m + 1) = 1..m \cup {m + 1}
    BY <1>1
  <2> HIDE DEF g, v, m
  <2>4. \A i, j \in 1..(m + 1) : i < j => g[i] < g[j]
    <3> SUFFICES ASSUME NEW i \in 1..(m + 1), NEW j \in 1..(m + 1), i < j
                 PROVE  g[i] < g[j]
      OBVIOUS
    <3>1. i \in 1..m
      BY <1>1
    <3>2. CASE j \in 1..m
      BY <2>2, <3>1, <3>2 DEF Embeds, m
    <3>3. CASE j = m + 1
      BY <2>2, <3>1, <3>3
    <3> QED
      BY <2>3, <3>2, <3>3
  <2>5. \A i \in 1..(m + 1) : v[i] = s[g[i]] /\ s[g[i]] \notin S
    BY <1>3, <2>1, <2>2, <2>3 DEF Embeds, m
  <2>6. ASSUME NEW l \in 1..k, s[l] \notin S
        PROVE  \E i \in 1..(m + 1) : g[i] = l
    <3>1. CASE l = k
      BY <1>1, <2>2, <2>3, <3>1
    <3>2. CASE l \in 1..(k - 1)
      <4>1. PICK i \in 1..m : f[i] = l
        BY <2>6, <3>2 DEF Embeds, m
      <4> QED
        BY <2>2, <2>3, <4>1
    <3> QED
      BY <3>1, <3>2
  <2>7. Embeds(g, v, s, S, k)
    <3>1. Len(v) = m + 1 /\ g \in [1..(m + 1) -> 1..k]
      BY <2>1, <2>2
    <3> QED
      BY <2>4, <2>5, <2>6, <3>1 DEF Embeds
  <2> QED
    BY <1>3, <2>7 DEF v
<1> QED
  BY <1>2, <1>3

\* Without takes the elements of S out, and keeps the others and their order.
LEMMA WithoutPlaces ==
  ASSUME NEW T, NEW s \in Seq(T), NEW S
  PROVE  Without(s, S) \in Seq(T) /\ \E f : Embeds(f, Without(s, S), s, S, Len(s))
<1> DEFINE n == Len(s)
<1>0. n \in Nat /\ \A i \in 1..n : s[i] \in T
  OBVIOUS
<1>1. PICK h : IsKept(h, s, S, n) /\ Without(s, S) = h[n]
  BY <1>0, KeptOf
<1> DEFINE X == {i \in 0..n : h[i] \in Seq(T) /\ \E f : Embeds(f, h[i], s, S, i)}
<1>2. 0 \in X
  <2> DEFINE f == [i \in 1..0 |-> i]
  <2>1. h[0] = <<>>
    BY <1>1 DEF IsKept
  <2>2. h[0] \in Seq(T) /\ Len(h[0]) = 0 /\ 1..0 = {}
    BY <2>1
  <2>3. Embeds(f, h[0], s, S, 0)
    BY <2>2 DEF Embeds
  <2> QED
    BY <1>0, <2>2, <2>3
<1>3. ASSUME NEW k \in 1..n, k - 1 \in X
      PROVE  k \in X
  <2>1. PICK f : Embeds(f, h[k - 1], s, S, k - 1)
    BY <1>3
  <2>2. /\ h[k - 1] \in Seq(T) /\ s[k] \in T /\ k \in Nat \ {0}
        /\ h[k] = IF s[k] \in S THEN h[k - 1] ELSE Append(h[k - 1], s[k])
    BY <1>0, <1>1, <1>3 DEF IsKept
  <2>3. h[k] \in Seq(T)
    BY <2>2
  <2>4. \E g : Embeds(g, h[k], s, S, k)
    BY <2>1, <2>2, EmbedsNext
  <2> QED
    BY <2>3, <2>4
<1>4. \A i \in 0..n : i \in X
  <2> HIDE DEF X, n
  <2> QED
    BY <1>0, <1>2, <1>3, InductionUpTo
<1>5. n \in X
  BY <1>0, <1>4
<1> QED
  BY <1>1, <1>5

\* The elements that are left.
LEMMA WithoutElems ==
  ASSUME NEW T, NEW s \in Seq(T), NEW S
  PROVE  Without(s, S) \in Seq(T) /\ Elems(Without(s, S)) = Elems(s) \ S
<1> DEFINE w == Without(s, S)
<1>1. w \in Seq(T) /\ \E f : Embeds(f, w, s, S, Len(s))
  BY WithoutPlaces
<1>2. PICK f : Embeds(f, w, s, S, Len(s))
  BY <1>1
<1>3. DOMAIN w = 1..Len(w) /\ DOMAIN s = 1..Len(s)
  BY <1>1
<1> HIDE DEF w
<1>4. \A i \in 1..Len(w) : f[i] \in 1..Len(s) /\ w[i] = s[f[i]] /\ s[f[i]] \notin S
  BY <1>2 DEF Embeds
<1>5. \A l \in 1..Len(s) : s[l] \notin S => \E i \in 1..Len(w) : f[i] = l
  BY <1>2 DEF Embeds
<1>6. Elems(w) = Elems(s) \ S
  BY <1>3, <1>4, <1>5, SMTT(60) DEF Elems
<1> QED
  BY <1>1, <1>6 DEF w

\* What is left ascends, when it did so in the sequence.
LEMMA WithoutRises ==
  ASSUME NEW T, NEW s \in Seq(T), NEW S,
         \A i, j \in DOMAIN s : i < j /\ s[i] \notin S /\ s[j] \notin S => s[i] < s[j]
  PROVE  \A i, j \in DOMAIN Without(s, S) : i < j => Without(s, S)[i] < Without(s, S)[j]
<1>0. PICK w : w = Without(s, S)
  OBVIOUS
<1>1. w \in Seq(T) /\ \E f : Embeds(f, w, s, S, Len(s))
  BY <1>0, WithoutPlaces
<1>2. PICK f : Embeds(f, w, s, S, Len(s))
  BY <1>1
<1>3. DOMAIN w = 1..Len(w) /\ DOMAIN s = 1..Len(s)
  BY <1>1
<1>4. \A i, j \in DOMAIN w : i < j => w[i] < w[j]
  BY <1>2, <1>3 DEF Embeds
<1> QED
  BY <1>0, <1>4

\* An ascending sequence stays ascending.
LEMMA WithoutAscends ==
  ASSUME NEW s \in Seq(Nat), NEW S, \A i, j \in DOMAIN s : i < j => s[i] < s[j]
  PROVE  LET w == Without(s, S) IN \A i, j \in DOMAIN w : i < j => w[i] < w[j]
<1> DEFINE w == Without(s, S)
<1>1. w \in Seq(Nat) /\ \E f : Embeds(f, w, s, S, Len(s))
  BY WithoutPlaces
<1>2. PICK f : Embeds(f, w, s, S, Len(s))
  BY <1>1
<1>3. DOMAIN w = 1..Len(w) /\ DOMAIN s = 1..Len(s)
  BY <1>1
<1> HIDE DEF w
<1>4. \A i, j \in DOMAIN w : i < j => w[i] < w[j]
  BY <1>2, <1>3 DEF Embeds
<1> QED
  BY <1>4 DEF w

\* What shift() leaves of a sequence whose elements ascend.
LEMMA TailAscends ==
  ASSUME NEW s \in Seq(Nat), s # <<>>, \A i, j \in 1..Len(s) : i < j => s[i] < s[j]
  PROVE  /\ Elems(Tail(s)) = Elems(s) \ {Head(s)}
         /\ \A x \in Elems(Tail(s)) : Head(s) < x
<1>1. /\ Len(s) \in Nat /\ Len(s) >= 1 /\ DOMAIN s = 1..Len(s) /\ Head(s) = s[1]
      /\ DOMAIN Tail(s) = 1..(Len(s) - 1) /\ \A i \in 1..(Len(s) - 1) : Tail(s)[i] = s[i + 1]
      /\ \A i \in 1..Len(s) : s[i] \in Nat
  OBVIOUS
<1>2. ASSUME NEW x \in Elems(Tail(s))
      PROVE  x \in Elems(s) /\ Head(s) < x /\ x # Head(s)
  <2>1. PICK i \in 1..(Len(s) - 1) : x = Tail(s)[i]
    BY <1>1 DEF Elems
  <2>2. PICK k \in 1..Len(s) : k = i + 1
    BY <1>1
  <2>3. x = s[k] /\ 1 < k
    BY <1>1, <2>1, <2>2
  <2>4. s[1] < s[k] /\ s[1] \in Nat /\ s[k] \in Nat
    BY <1>1, <2>3
  <2> QED
    BY <1>1, <2>2, <2>3, <2>4 DEF Elems
<1>3. ASSUME NEW x \in Elems(s), x # Head(s)
      PROVE  x \in Elems(Tail(s))
  <2>1. PICK k \in 1..Len(s) : x = s[k]
    BY <1>1 DEF Elems
  <2>2. PICK i \in 1..(Len(s) - 1) : i + 1 = k
    BY <1>1, <1>3, <2>1
  <2>3. x = Tail(s)[i]
    BY <1>1, <2>1, <2>2
  <2> QED
    BY <1>1, <2>3 DEF Elems
<1> QED
  BY <1>2, <1>3

\* What concat() yields.
LEMMA ConcatElems ==
  ASSUME NEW T, NEW s \in Seq(T), NEW t \in Seq(T)
  PROVE  Elems(s \o t) = Elems(s) \cup Elems(t)
<1>1. PICK m \in Nat, n \in Nat : m = Len(s) /\ n = Len(t)
  OBVIOUS
<1>2. PICK u : u = s \o t
  OBVIOUS
<1>3. /\ DOMAIN s = 1..m /\ DOMAIN t = 1..n /\ DOMAIN u = 1..(m + n)
      /\ \A i \in 1..m : u[i] = s[i]
      /\ \A i \in (m + 1)..(m + n) : u[i] = t[i - m] /\ i - m \in 1..n
      /\ \A i \in 1..n : u[m + i] = t[i] /\ m + i \in 1..(m + n)
  BY <1>1, <1>2
<1>4. \A i \in 1..(m + n) : i \in 1..m \/ i \in (m + 1)..(m + n)
  OBVIOUS
<1>5. \A i \in 1..(m + n) : u[i] \in Elems(s) \cup Elems(t)
  BY <1>3, <1>4 DEF Elems
<1>6. \A i \in 1..m : s[i] \in Elems(u)
  BY <1>3 DEF Elems
<1>7. \A i \in 1..n : t[i] \in Elems(u)
  BY <1>3 DEF Elems
<1>8. Elems(u) = Elems(s) \cup Elems(t)
  <2>1. Elems(u) \subseteq Elems(s) \cup Elems(t)
    BY <1>3, <1>5 DEF Elems
  <2>2. Elems(s) \subseteq Elems(u) /\ Elems(t) \subseteq Elems(u)
    BY <1>3, <1>6, <1>7 DEF Elems
  <2> QED
    BY <2>1, <2>2
<1> QED
  BY <1>2, <1>8

\* What push() adds to a sequence.
LEMMA AppendElems ==
  ASSUME NEW T, NEW s \in Seq(T), NEW x \in T
  PROVE  Elems(Append(s, x)) = Elems(s) \cup {x}
<1>0. PICK n \in Nat : n = Len(s)
  OBVIOUS
<1>1. PICK u : u = Append(s, x)
  OBVIOUS
<1>2. DOMAIN s = 1..n /\ DOMAIN u = 1..(n + 1) /\ u[n + 1] = x /\ \A i \in 1..n : u[i] = s[i]
  BY <1>0, <1>1
<1>3. \A i \in 1..(n + 1) : i \in 1..n \/ i = n + 1
  OBVIOUS
<1>4. \A i \in 1..(n + 1) : u[i] \in Elems(s) \cup {x}
  BY <1>2, <1>3 DEF Elems
<1>5. x \in Elems(u) /\ \A i \in 1..n : s[i] \in Elems(u)
  BY <1>2 DEF Elems
<1> QED
  BY <1>1, <1>2, <1>4, <1>5 DEF Elems

\* What is left of a sequence without its first element.
LEMMA TailElems ==
  ASSUME NEW T, NEW s \in Seq(T), s # <<>>
  PROVE  /\ Tail(s) \in Seq(T) /\ Head(s) \in Elems(s) /\ Head(s) \in T
         /\ Elems(s) = Elems(Tail(s)) \cup {Head(s)}
<1>1. PICK n \in Nat : n = Len(s)
  OBVIOUS
<1>2. PICK u : u = Tail(s)
  OBVIOUS
<1>3. /\ n >= 1 /\ DOMAIN s = 1..n /\ Head(s) = s[1] /\ u \in Seq(T)
      /\ DOMAIN u = 1..(n - 1) /\ \A i \in 1..(n - 1) : u[i] = s[i + 1] /\ i + 1 \in 1..n
  BY <1>1, <1>2
<1>4. \A i \in 1..n : i = 1 \/ (i - 1 \in 1..(n - 1) /\ u[i - 1] = s[i])
  BY <1>3
<1>5. Elems(u) \subseteq Elems(s)
  BY <1>3 DEF Elems
<1>6. Elems(s) \subseteq Elems(u) \cup {s[1]}
  <2> SUFFICES ASSUME NEW i \in 1..n, i # 1
               PROVE  s[i] \in Elems(u)
    BY <1>3 DEF Elems
  <2>1. i - 1 \in DOMAIN u /\ u[i - 1] = s[i]
    BY <1>3, <1>4
  <2> QED
    BY <2>1 DEF Elems
<1>7. s[1] \in Elems(s) /\ s[1] \in T
  BY <1>3 DEF Elems
<1> QED
  BY <1>2, <1>3, <1>5, <1>6, <1>7

\* Nothing but the empty sequence has no elements.
LEMMA EmptyElems ==
  ASSUME NEW T, NEW s \in Seq(T), Elems(s) = {}
  PROVE  s = <<>>
<1>1. Len(s) \in Nat /\ DOMAIN s = 1..Len(s)
  OBVIOUS
<1>2. CASE Len(s) > 0
  <2>1. 1 \in DOMAIN s
    BY <1>1, <1>2
  <2>2. s[1] \in Elems(s)
    BY <2>1 DEF Elems
  <2> QED
    BY <2>2
<1>3. CASE Len(s) = 0
  BY <1>3
<1> QED
  BY <1>1, <1>2, <1>3

\* a stands before b in s.
Precedes(s, a, b) == \E i, j \in DOMAIN s : i < j /\ s[i] = a /\ s[j] = b

\* Only elements stand before one another.
LEMMA PrecedesElems ==
  ASSUME NEW s, NEW a, NEW b, Precedes(s, a, b)
  PROVE  a \in Elems(s) /\ b \in Elems(s)
BY DEF Precedes, Elems

\* The order concat() yields.
LEMMA ConcatPrecedes ==
  ASSUME NEW T, NEW s \in Seq(T), NEW t \in Seq(T), NEW a, NEW b
  PROVE  Precedes(s \o t, a, b) <=> \/ Precedes(s, a, b) \/ Precedes(t, a, b)
                                    \/ a \in Elems(s) /\ b \in Elems(t)
<1>1. PICK m \in Nat, n \in Nat : m = Len(s) /\ n = Len(t)
  OBVIOUS
<1>2. PICK u : u = s \o t
  OBVIOUS
<1>3. /\ DOMAIN s = 1..m /\ DOMAIN t = 1..n /\ DOMAIN u = 1..(m + n)
      /\ \A i \in 1..m : u[i] = s[i] /\ i \in 1..(m + n)
      /\ \A i \in 1..n : u[m + i] = t[i] /\ m + i \in 1..(m + n)
  BY <1>1, <1>2
<1>4. \A i \in 1..(m + n) : i \in 1..m \/ \E k \in 1..n : i = m + k
  <2>1. \A i \in 1..(m + n) : i \in 1..m \/ (i - m \in 1..n /\ i = m + (i - m))
    BY <1>1
  <2> QED
    BY <2>1
<1>5. ASSUME NEW i \in 1..(m + n), NEW j \in 1..(m + n), i < j, u[i] = a, u[j] = b
      PROVE  Precedes(s, a, b) \/ Precedes(t, a, b) \/ (a \in Elems(s) /\ b \in Elems(t))
  <2>1. CASE i \in 1..m /\ j \in 1..m
    BY <1>3, <1>5, <2>1 DEF Precedes
  <2>2. CASE i \in 1..m /\ \E k \in 1..n : j = m + k
    BY <1>3, <1>5, <2>2 DEF Elems
  <2>3. CASE \E k, l \in 1..n : i = m + k /\ j = m + l
    <3>1. PICK k \in 1..n, l \in 1..n : i = m + k /\ j = m + l
      BY <2>3
    <3>2. k < l
      BY <1>1, <1>5, <3>1
    <3> QED
      BY <1>3, <1>5, <3>1, <3>2 DEF Precedes
  <2>4. ~ (i \notin 1..m /\ j \in 1..m)
    BY <1>1, <1>5
  <2> QED
    BY <1>4, <2>1, <2>2, <2>3, <2>4
<1>6. ASSUME Precedes(s, a, b)
      PROVE  Precedes(u, a, b)
  BY <1>3, <1>6 DEF Precedes
<1>7. ASSUME Precedes(t, a, b)
      PROVE  Precedes(u, a, b)
  <2>1. PICK k \in 1..n, l \in 1..n : k < l /\ t[k] = a /\ t[l] = b
    BY <1>3, <1>7 DEF Precedes
  <2>2. m + k < m + l
    BY <1>1, <2>1
  <2> QED
    BY <1>3, <2>1, <2>2 DEF Precedes
<1>8. ASSUME a \in Elems(s), b \in Elems(t)
      PROVE  Precedes(u, a, b)
  <2>1. PICK k \in 1..m, l \in 1..n : s[k] = a /\ t[l] = b
    BY <1>3, <1>8 DEF Elems
  <2>2. k < m + l
    BY <1>1, <2>1
  <2> QED
    BY <1>3, <2>1, <2>2 DEF Precedes
<1>9. Precedes(u, a, b) => \E i, j \in 1..(m + n) : i < j /\ u[i] = a /\ u[j] = b
  BY <1>3 DEF Precedes
<1> QED
  BY <1>2, <1>5, <1>6, <1>7, <1>8, <1>9

\* The order push() yields.
LEMMA AppendPrecedes ==
  ASSUME NEW T, NEW s \in Seq(T), NEW x \in T, NEW a, NEW b
  PROVE  Precedes(Append(s, x), a, b) <=> Precedes(s, a, b) \/ (a \in Elems(s) /\ b = x)
<1>1. PICK n \in Nat : n = Len(s)
  OBVIOUS
<1>2. PICK u : u = Append(s, x)
  OBVIOUS
<1>3. /\ DOMAIN s = 1..n /\ DOMAIN u = 1..(n + 1) /\ u[n + 1] = x
      /\ \A i \in 1..n : u[i] = s[i] /\ i \in 1..(n + 1) /\ i < n + 1
      /\ n + 1 \in 1..(n + 1)
  BY <1>1, <1>2
<1>4. \A i, j \in 1..(n + 1) : i < j => i \in 1..n /\ (j \in 1..n \/ j = n + 1)
  BY <1>1
<1>5. Precedes(u, a, b) => Precedes(s, a, b) \/ (a \in Elems(s) /\ b = x)
  BY <1>3, <1>4 DEF Precedes, Elems
<1>6. Precedes(s, a, b) => Precedes(u, a, b)
  BY <1>3 DEF Precedes
<1>7. a \in Elems(s) /\ b = x => Precedes(u, a, b)
  BY <1>3 DEF Precedes, Elems
<1> QED
  BY <1>2, <1>5, <1>6, <1>7

\* The order of what filter() leaves.
LEMMA WithoutPrecedes ==
  ASSUME NEW T, NEW s \in Seq(T), NEW S, NEW a, NEW b
  PROVE  Precedes(Without(s, S), a, b) <=> Precedes(s, a, b) /\ a \notin S /\ b \notin S
<1>0. PICK w : w = Without(s, S)
  OBVIOUS
<1>1. w \in Seq(T) /\ \E f : Embeds(f, w, s, S, Len(s))
  BY <1>0, WithoutPlaces
<1>2. PICK f : Embeds(f, w, s, S, Len(s))
  BY <1>1
<1>3. PICK m \in Nat, n \in Nat : m = Len(w) /\ n = Len(s)
  BY <1>1
<1>4. /\ DOMAIN w = 1..m /\ DOMAIN s = 1..n
      /\ \A i \in 1..m : f[i] \in 1..n /\ w[i] = s[f[i]] /\ s[f[i]] \notin S
      /\ \A i, j \in 1..m : i < j => f[i] < f[j]
      /\ \A l \in 1..n : s[l] \notin S => \E i \in 1..m : f[i] = l
  <2>1. DOMAIN w = 1..m /\ DOMAIN s = 1..n
    BY <1>1, <1>3
  <2>2. Embeds(f, w, s, S, Len(s)) /\ Len(w) = m /\ Len(s) = n
    BY <1>2, <1>3
  <2> QED
    BY <2>1, <2>2 DEF Embeds
<1>5. Precedes(w, a, b) => Precedes(s, a, b) /\ a \notin S /\ b \notin S
  BY <1>4 DEF Precedes
<1>6. ASSUME Precedes(s, a, b), a \notin S, b \notin S
      PROVE  Precedes(w, a, b)
  <2>1. PICK k \in 1..n, l \in 1..n : k < l /\ s[k] = a /\ s[l] = b
    BY <1>4, <1>6 DEF Precedes
  <2>2. PICK i \in 1..m, j \in 1..m : f[i] = k /\ f[j] = l
    <3>1. s[k] \notin S /\ s[l] \notin S
      BY <1>6, <2>1
    <3>2. \A q \in 1..n : s[q] \notin S => \E i \in 1..m : f[i] = q
      BY <1>4
    <3>3. PICK i \in 1..m : f[i] = k
      BY <3>1, <3>2, Zenon
    <3>4. PICK j \in 1..m : f[j] = l
      BY <3>1, <3>2, Zenon
    <3> QED
      BY <3>3, <3>4, Zenon
  <2>3. i < j
    <3>1. i # j /\ ~ (j < i)
      <4>1. \A p, q \in 1..n : ~ (p < q /\ q < p) /\ (p < q => p # q)
        OBVIOUS
      <4> QED
        BY <1>4, <2>1, <2>2, <4>1
    <3> QED
      BY <3>1
  <2> QED
    BY <1>4, <2>1, <2>2, <2>3 DEF Precedes
<1> QED
  BY <1>0, <1>5, <1>6

\* An element that occurs once is replaced.
LEMMA PutElems ==
  ASSUME NEW T, NEW s \in Seq(T), NEW i \in DOMAIN s, ~ Precedes(s, s[i], s[i]), NEW v \in T
  PROVE  /\ [s EXCEPT ![i] = v] \in Seq(T)
         /\ Elems([s EXCEPT ![i] = v]) = (Elems(s) \ {s[i]}) \cup {v}
<1>1. PICK u : u = [s EXCEPT ![i] = v]
  OBVIOUS
<1>2. PICK n \in Nat : n = Len(s)
  OBVIOUS
<1>3. DOMAIN s = 1..n /\ i \in 1..n
  BY <1>2
<1>4. DOMAIN u = 1..n /\ u[i] = v /\ \A j \in 1..n : j # i => u[j] = s[j]
  BY <1>1, <1>3
<1>5. u \in Seq(T)
  BY <1>1
<1>6. \A j \in 1..n : s[j] = s[i] => j = i
  <2> SUFFICES ASSUME NEW j \in 1..n, s[j] = s[i], j # i
               PROVE  FALSE
    OBVIOUS
  <2>1. j < i \/ i < j
    BY <1>3
  <2> QED
    BY <1>3, <2>1 DEF Precedes
<1>7. Elems(u) = (Elems(s) \ {s[i]}) \cup {v}
  BY <1>3, <1>4, <1>6 DEF Elems
<1> QED
  BY <1>1, <1>5, <1>7

\* The replacement stands where the element stood.
LEMMA PutPrecedes ==
  ASSUME NEW T, NEW s \in Seq(T), NEW i \in DOMAIN s, ~ Precedes(s, s[i], s[i]), NEW v \in T,
         NEW a, NEW b
  PROVE  Precedes([s EXCEPT ![i] = v], a, b) <=>
           \E x, y : /\ Precedes(s, x, y)
                     /\ a = (IF x = s[i] THEN v ELSE x) /\ b = (IF y = s[i] THEN v ELSE y)
<1>1. PICK u : u = [s EXCEPT ![i] = v]
  OBVIOUS
<1>2. PICK n \in Nat : n = Len(s)
  OBVIOUS
<1>3. DOMAIN s = 1..n /\ i \in 1..n
  BY <1>2
<1>4. DOMAIN u = 1..n /\ u[i] = v /\ \A j \in 1..n : j # i => u[j] = s[j]
  BY <1>1, <1>3
<1>6. \A j \in 1..n : s[j] = s[i] => j = i
  <2> SUFFICES ASSUME NEW j \in 1..n, s[j] = s[i], j # i
               PROVE  FALSE
    OBVIOUS
  <2>1. j < i \/ i < j
    BY <1>3
  <2> QED
    BY <1>3, <2>1 DEF Precedes
<1>7. \A j \in 1..n : u[j] = (IF s[j] = s[i] THEN v ELSE s[j])
  BY <1>4, <1>6
<1>8. ASSUME Precedes(u, a, b)
      PROVE  \E x, y : /\ Precedes(s, x, y)
                       /\ a = (IF x = s[i] THEN v ELSE x) /\ b = (IF y = s[i] THEN v ELSE y)
  <2>1. PICK k \in 1..n, l \in 1..n : k < l /\ u[k] = a /\ u[l] = b
    BY <1>4, <1>8 DEF Precedes
  <2>2. Precedes(s, s[k], s[l])
    BY <1>3, <2>1 DEF Precedes
  <2> QED
    BY <1>7, <2>1, <2>2
<1>9. ASSUME NEW x, NEW y, Precedes(s, x, y)
      PROVE  Precedes(u, IF x = s[i] THEN v ELSE x, IF y = s[i] THEN v ELSE y)
  <2>1. PICK k \in 1..n, l \in 1..n : k < l /\ s[k] = x /\ s[l] = y
    BY <1>3, <1>9 DEF Precedes
  <2> QED
    BY <1>4, <1>7, <2>1 DEF Precedes
<1> QED
  BY <1>1, <1>8, <1>9
=============================================================================
