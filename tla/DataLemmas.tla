------------------------------ MODULE DataLemmas ------------------------------
(***************************************************************************)
(* Lemmas on numbers, sets and sequences that the proofs about several     *)
(* components need.  An induction is an appeal to the least number of a    *)
(* set of counterexamples.                                                 *)
(***************************************************************************)
EXTENDS Integers, Sequences, FiniteSets, SequencesExt, SequenceTheorems,
        WellFoundedInduction, TLAPS

-----------------------------------------------------------------------------
(* Numbers *)

\* A nonempty set of numbers has a least one.
LEMMA LeastExists ==
  ASSUME NEW T \in SUBSET Nat, T # {}
  PROVE  \E x \in T : \A y \in T : x <= y
  <1> DEFINE R == OpToRel(<, Nat)
  <1>1. IsWellFoundedOn(R, Nat)
    BY NatLessThanWellFounded DEF OpToRel
  <1>2. \A x, y \in Nat : <<y, x>> \in R <=> y < x
    BY DEF OpToRel
  <1> HIDE DEF R
  <1>3. PICK x \in T : \A y \in T : ~ (<<y, x>> \in R)
    BY <1>1, WFMin
  <1>4. ASSUME NEW y \in T PROVE x <= y
    <2>1. x \in Nat /\ y \in Nat /\ ~ y < x
      BY <1>2, <1>3
    <2> QED
      BY <2>1
  <1> QED
    BY <1>4

\* A nonempty set of numbers up to a bound has a greatest one.
LEMMA GreatestExists ==
  ASSUME NEW n \in Nat, NEW T \in SUBSET (1..n), T # {}
  PROVE  \E x \in T : \A y \in T : y <= x
  <1> DEFINE below == {n - x : x \in T}
  <1>1. below \in SUBSET Nat /\ below # {}
    <2>1. \A x \in T : x \in Int /\ 1 <= x /\ x <= n
      OBVIOUS
    <2>2. \A x \in T : n - x \in Nat
      BY <2>1
    <2> QED
      BY <2>2
  <1>2. PICK m \in below : \A y \in below : m <= y
    BY <1>1, LeastExists
  <1>3. PICK x \in T : m = n - x
    BY <1>2
  <1>4. ASSUME NEW y \in T PROVE y <= x
    <2>1. n - y \in below /\ x \in Nat /\ y \in Nat
      OBVIOUS
    <2>2. n - x <= n - y
      BY <1>2, <1>3, <2>1
    <2> QED
      BY <2>1, <2>2
  <1> QED
    BY <1>4

\* A number is a multiple of another one and a rest.
LEMMA DivBounds ==
  ASSUME NEW x \in Nat, NEW d \in Nat \ {0}
  PROVE  /\ x \div d \in Nat /\ x % d \in 0..d - 1
         /\ x = d * (x \div d) + (x % d)
<1>1. x % d \in 0..d-1
  OBVIOUS
<1>2. x \div d \in Int
  OBVIOUS
<1>3. x = d * (x \div d) + (x % d)
  OBVIOUS
<1>. QED BY <1>1, <1>2, <1>3

\* The quotient and the rest are the only ones.
LEMMA DivIs ==
  ASSUME NEW q \in Nat, NEW d \in Nat \ {0}, NEW r \in 0..d - 1
  PROVE  (d * q + r) \div d = q /\ (d * q + r) % d = r
<1> DEFINE x == d * q + r
<1>1. x \in Nat
  OBVIOUS
<1> HIDE DEF x
<1>2. /\ x \div d \in Nat /\ x % d \in 0..d - 1
      /\ x = d * (x \div d) + (x % d)
  BY <1>1, DivBounds
<1>3. PICK a \in Nat : a = x \div d
  BY <1>2
<1>4. PICK b \in 0..d-1 : b = x % d
  BY <1>2
<1>5. d * q + r = d * a + b
  BY <1>2, <1>3, <1>4 DEF x
<1>6. d * (q - a) = b - r
  BY <1>5
<1>7. q = a
  <2>1. CASE q > a
    <3>1. d * (q - a) >= d
      <4>1. PICK k \in Nat : q - a = k + 1
        BY <2>1
      <4>2. d * (k + 1) = d * k + d /\ d * k >= 0
        OBVIOUS
      <4>. QED BY <4>1, <4>2
    <3>. QED BY <3>1, <1>6
  <2>2. CASE q < a
    <3>1. d * (q - a) <= -d
      <4>1. PICK k \in Nat : a - q = k + 1
        BY <2>2
      <4>2. d * (k + 1) = d * k + d /\ d * k >= 0
        OBVIOUS
      <4>3. d * (q - a) = - (d * (a - q))
        OBVIOUS
      <4>. QED BY <4>1, <4>2, <4>3
    <3>. QED BY <3>1, <1>6
  <2>. QED BY <2>1, <2>2
<1>8. r = b
  BY <1>5, <1>7
<1>. QED BY <1>3, <1>4, <1>7, <1>8 DEF x

\* From one position to the next, the number of whole steps goes up by one at its
\* multiples and stays elsewhere.
LEMMA DivNext ==
  ASSUME NEW p \in Nat, NEW d \in Nat \ {0}
  PROVE  \/ (p + 1) \div d = p \div d
         \/ (p + 1) \div d = (p \div d) + 1 /\ p + 1 = d * ((p \div d) + 1)
<1> DEFINE q == p \div d
           r == p % d
<1>1. q \in Nat /\ r \in 0..d - 1 /\ p = d * q + r
  BY DivBounds
<1> HIDE DEF q, r
<1>2. CASE r < d - 1
  <2>1. r + 1 \in 0..d - 1 /\ p + 1 = d * q + (r + 1)
    BY <1>1, <1>2
  <2>2. (p + 1) \div d = q
    BY <1>1, <2>1, DivIs
  <2>. QED  BY <2>2 DEF q
<1>3. CASE r = d - 1
  <2>1. p + 1 = d * (q + 1) /\ 0 \in 0..d - 1 /\ q + 1 \in Nat
    BY <1>1, <1>3
  <2>2. (d * (q + 1) + 0) \div d = q + 1
    BY <2>1, DivIs
  <2>3. d * (q + 1) + 0 = d * (q + 1)
    BY <1>1
  <2>4. (p + 1) \div d = q + 1
    BY <2>1, <2>2, <2>3
  <2>. QED  BY <2>1, <2>4 DEF q
<1>. QED  BY <1>1, <1>2, <1>3

\* A greater number has no smaller quotient.
LEMMA DivMonotone ==
  ASSUME NEW x \in Nat, NEW y \in Nat, x <= y, NEW d \in Nat \ {0}
  PROVE  x \div d <= y \div d
<1> DEFINE a == x \div d
           b == y \div d
<1>1. /\ a \in Nat /\ x % d \in 0..d - 1 /\ x = d * a + (x % d)
      /\ b \in Nat /\ y % d \in 0..d - 1 /\ y = d * b + (y % d)
  BY DivBounds
<1> HIDE DEF a, b
<1>2. CASE a > b
  <2>1. PICK k \in Nat : a = b + 1 + k
    <3>1. a - b - 1 \in Nat /\ a = b + 1 + (a - b - 1)
      BY <1>1, <1>2
    <3>. QED  BY <3>1
  <2>2. d * a = d * b + d + d * k /\ d * k \in Nat
    BY <1>1, <2>1
  <2>. QED  BY <1>1, <2>2
<1>. QED  BY <1>1, <1>2 DEF a, b

\* A part of an interval that is closed downwards is an interval.
LEMMA CutIs ==
  ASSUME NEW a \in Nat \ {0}, NEW b \in Nat, a <= b + 1, NEW T \in SUBSET (a..b),
         \A i, j \in a..b : i < j /\ j \in T => i \in T
  PROVE  \E m \in Nat : a <= m + 1 /\ m <= b /\ T = a..m /\ (a..b) \ T = m + 1..b
<1>1. CASE T = {}
  <2>1. a - 1 \in Nat /\ a <= (a - 1) + 1 /\ a - 1 <= b /\ T = a..a - 1
        /\ (a..b) \ T = (a - 1) + 1..b
    BY <1>1
  <2>. QED  BY <2>1
<1>2. CASE T # {}
  <2>1. T \in SUBSET (1..b)
    OBVIOUS
  <2>2. PICK m \in T : \A y \in T : y <= m
    BY <1>2, <2>1, GreatestExists
  <2>3. m \in Nat /\ a <= m /\ m <= b
    OBVIOUS
  <2>4. \A i \in a..b : i \in T <=> i <= m
    BY <2>2, <2>3
  <2>5. T = a..m
    <3>1. \A i \in T : i \in a..m
      BY <2>3, <2>4
    <3>2. \A i \in a..m : i \in a..b /\ i <= m
      BY <2>3
    <3>3. \A i \in a..m : i \in T
      BY <2>4, <3>2
    <3>. QED  BY <3>1, <3>3
  <2>6. (a..b) \ T = m + 1..b
    <3>1. \A i \in (a..b) \ T : i \in m + 1..b
      BY <2>3, <2>4
    <3>2. \A i \in m + 1..b : i \in a..b /\ ~ (i <= m)
      BY <2>3
    <3>3. \A i \in m + 1..b : i \in (a..b) \ T
      BY <2>4, <3>2
    <3>. QED  BY <3>1, <3>3
  <2>. QED  BY <2>3, <2>5, <2>6
<1>. QED  BY <1>1, <1>2

-----------------------------------------------------------------------------
(* Sequences *)

\* A vector without its element i: what was behind i moves down by one.
LEMMA RemoveAtProperties ==
  ASSUME NEW S, NEW s \in Seq(S), NEW i \in 1..Len(s)
  PROVE  /\ RemoveAt(s, i) \in Seq(S)
         /\ Len(RemoveAt(s, i)) = Len(s) - 1
         /\ \A k \in 1..Len(s) - 1 :
              RemoveAt(s, i)[k] = IF k < i THEN s[k] ELSE s[k + 1]
  <1> DEFINE a == SubSeq(s, 1, i - 1)
             b == SubSeq(s, i + 1, Len(s))
  <1>1. /\ Len(s) \in Nat /\ i \in Nat
        /\ \A k \in 1..Len(s) : s[k] \in S
    BY LenProperties
  <1>2. /\ a \in Seq(S) /\ Len(a) = i - 1
        /\ \A k \in 1..i - 1 : a[k] = s[k]
    <2>1. \A k \in 1..i - 1 : s[k] \in S
      BY <1>1
    <2> QED
      BY <1>1, <2>1, SubSeqProperties
  <1>3. /\ b \in Seq(S) /\ Len(b) = Len(s) - i
        /\ \A k \in 1..Len(s) - i : b[k] = s[i + k]
    <2>1. \A k \in i + 1..Len(s) : s[k] \in S
      BY <1>1
    <2> QED
      BY <1>1, <2>1, SubSeqProperties
  <1>4. RemoveAt(s, i) = a \o b
    BY DEF RemoveAt
  <1> HIDE DEF a, b
  <1>5. /\ a \o b \in Seq(S)
        /\ Len(a \o b) = Len(a) + Len(b)
        /\ \A k \in 1..Len(a) + Len(b) :
             (a \o b)[k] = IF k <= Len(a) THEN a[k] ELSE b[k - Len(a)]
    BY <1>2, <1>3, ConcatProperties
  <1>6. ASSUME NEW k \in 1..Len(s) - 1
        PROVE  RemoveAt(s, i)[k] = IF k < i THEN s[k] ELSE s[k + 1]
    <2>1. CASE k < i
      BY <1>1, <1>2, <1>3, <1>4, <1>5, <2>1
    <2>2. CASE ~ k < i
      <3>1. k - (i - 1) \in 1..Len(s) - i /\ i + (k - (i - 1)) = k + 1
        BY <1>1, <2>2
      <3>2. /\ k \in 1..Len(a) + Len(b) /\ ~ k <= Len(a) /\ k - Len(a) = k - (i - 1)
        BY <1>1, <1>2, <1>3, <2>2
      <3>3. (a \o b)[k] = b[k - (i - 1)]
        BY <1>5, <3>2
      <3> QED
        BY <1>3, <1>4, <2>2, <3>1, <3>3
    <2> QED
      BY <2>1, <2>2
  <1> QED
    BY <1>1, <1>2, <1>3, <1>4, <1>5, <1>6

LEMMA FunctionIsSeq ==
  ASSUME NEW S, NEW n \in Nat, NEW f \in [1..n -> S]
  PROVE  f \in Seq(S) /\ Len(f) = n
  <1>1. f \in Seq(S)
    OBVIOUS
  <1> QED
    BY <1>1, LenProperties

\* A stack is a sequence whose last element is its top.
LEMMA FrontLast ==
  ASSUME NEW S, NEW s \in Seq(S), s # << >>
  PROVE  /\ Len(s) \in Nat \ {0}
         /\ Last(s) \in S /\ Last(s) = s[Len(s)]
         /\ Front(s) \in Seq(S) /\ Len(Front(s)) = Len(s) - 1
         /\ \A i \in 1..Len(s) - 1 : Front(s)[i] = s[i]
  <1>1. Len(s) \in Nat \ {0} /\ \A i \in 1..Len(s) : s[i] \in S
    BY EmptySeq, LenProperties
  <1> DEFINE n == Len(s) - 1
             r == SubSeq(s, 1, n)
  <1>2. n \in Nat /\ \A i \in 1..n : s[i] \in S
    BY <1>1
  <1>3. Front(s) = r
    BY DEF Front
  <1> HIDE DEF n
  <1>4. /\ r \in Seq(S) /\ Len(r) = IF 1 <= n THEN n - 1 + 1 ELSE 0
        /\ \A i \in 1..n - 1 + 1 : r[i] = s[1 + i - 1]
    BY <1>2, SubSeqProperties
  <1> HIDE DEF r
  <1>5. Len(r) = n /\ \A i \in 1..n : r[i] = s[i]
    BY <1>2, <1>4
  <1>6. /\ Front(s) \in Seq(S) /\ Len(Front(s)) = Len(s) - 1
        /\ \A i \in 1..Len(s) - 1 : Front(s)[i] = s[i]
    BY <1>3, <1>4, <1>5 DEF n
  <1> QED
    BY <1>1, <1>6 DEF Last

\* The top is replaced.
LEMMA ReplaceLast ==
  ASSUME NEW S, NEW s \in Seq(S), s # << >>, NEW e \in S
  PROVE  /\ Append(Front(s), e) \in Seq(S)
         /\ Len(Append(Front(s), e)) = Len(s)
         /\ \A i \in 1..Len(s) : Append(Front(s), e)[i] = IF i = Len(s) THEN e ELSE s[i]
  <1> DEFINE r == Front(s)
  <1>1. /\ Len(s) \in Nat \ {0}
        /\ r \in Seq(S) /\ Len(r) = Len(s) - 1
        /\ \A i \in 1..Len(s) - 1 : r[i] = s[i]
    BY FrontLast
  <1> HIDE DEF r
  <1>2. /\ Append(r, e) \in Seq(S) /\ Len(Append(r, e)) = Len(s)
        /\ \A i \in 1..Len(r) : Append(r, e)[i] = r[i]
        /\ Append(r, e)[Len(s)] = e
    BY <1>1, AppendProperties
  <1>3. \A i \in 1..Len(s) : i # Len(s) => i \in 1..Len(r) /\ i \in 1..Len(s) - 1
    BY <1>1
  <1>4. \A i \in 1..Len(s) : Append(r, e)[i] = IF i = Len(s) THEN e ELSE s[i]
    BY <1>1, <1>2, <1>3
  <1> QED
    BY <1>2, <1>4 DEF r

\* The top is replaced, and a new one put upon it.
LEMMA ReplaceAndPush ==
  ASSUME NEW S, NEW s \in Seq(S), s # << >>, NEW e \in S, NEW c \in S
  PROVE  Front(s) \o <<e, c>> = Append(Append(Front(s), e), c)
  <1>1. Front(s) \in Seq(S)
    BY FrontLast
  <1> DEFINE r == Front(s)
             x == r \o <<e, c>>
             y == Append(Append(r, e), c)
  <1> HIDE DEF r
  <1>2. <<e, c>> \in Seq(S) /\ Len(<<e, c>>) = 2 /\ <<e, c>>[1] = e /\ <<e, c>>[2] = c
    OBVIOUS
  <1>3. r \in Seq(S) /\ Len(r) \in Nat
    BY <1>1, LenProperties DEF r
  <1>4. /\ x \in Seq(S) /\ Len(x) = Len(r) + 2
        /\ \A i \in 1..Len(r) : x[i] = r[i]
        /\ x[Len(r) + 1] = e /\ x[Len(r) + 2] = c
    BY <1>2, <1>3, ConcatProperties
  <1>5. /\ Append(r, e) \in Seq(S) /\ Len(Append(r, e)) = Len(r) + 1
        /\ \A i \in 1..Len(r) : Append(r, e)[i] = r[i]
        /\ Append(r, e)[Len(r) + 1] = e
    BY <1>3, AppendProperties
  <1>6. /\ y \in Seq(S) /\ Len(y) = Len(r) + 2
        /\ \A i \in 1..Len(r) + 1 : y[i] = Append(r, e)[i]
        /\ y[Len(r) + 2] = c
    BY <1>3, <1>5, AppendProperties
  <1>7. ASSUME NEW i \in 1..Len(x) PROVE x[i] = y[i]
    <2>1. i \in 1..Len(r) \/ i = Len(r) + 1 \/ i = Len(r) + 2
      BY <1>3, <1>4
    <2>2. CASE i \in 1..Len(r)
      <3>1. i \in 1..Len(r) + 1
        BY <1>3, <2>2
      <3> QED
        BY <1>4, <1>5, <1>6, <2>2, <3>1
    <2>3. CASE i = Len(r) + 1
      <3>1. i \in 1..Len(r) + 1
        BY <1>3, <2>3
      <3> QED
        BY <1>4, <1>5, <1>6, <2>3, <3>1
    <2>4. CASE i = Len(r) + 2
      BY <1>4, <1>6, <2>4
    <2> QED
      BY <2>1, <2>2, <2>3, <2>4
  <1> HIDE DEF x, y
  <1>8. x = y
    BY <1>4, <1>6, <1>7, SeqEqual
  <1> QED
    BY <1>8 DEF x, y, r

\* Two sequences one after the other hold what each of them holds.
LEMMA RangeOfConcat ==
  ASSUME NEW S, NEW s \in Seq(S), NEW t \in Seq(S)
  PROVE  Range(s \o t) = Range(s) \cup Range(t)
<1> DEFINE u == s \o t
<1>1. /\ Len(s) \in Nat /\ DOMAIN s = 1..Len(s) /\ Len(t) \in Nat /\ DOMAIN t = 1..Len(t)
      /\ DOMAIN u = 1..Len(s) + Len(t)
      /\ \A i \in 1..Len(s) + Len(t) : u[i] = IF i <= Len(s) THEN s[i] ELSE t[i - Len(s)]
  BY ConcatProperties, LenProperties
<1> HIDE DEF u
<1>2. ASSUME NEW i \in DOMAIN u PROVE u[i] \in Range(s) \cup Range(t)
  <2>1. CASE i <= Len(s)
    <3>1. i \in DOMAIN s /\ u[i] = s[i]
      BY <1>1, <2>1
    <3>. QED  BY <3>1 DEF Range
  <2>2. CASE ~ i <= Len(s)
    <3>1. i - Len(s) \in DOMAIN t /\ u[i] = t[i - Len(s)]
      BY <1>1, <2>2
    <3>. QED  BY <3>1 DEF Range
  <2>. QED  BY <2>1, <2>2
<1>3. ASSUME NEW i \in DOMAIN s PROVE s[i] \in Range(u)
  <2>1. i \in DOMAIN u /\ u[i] = s[i]
    BY <1>1
  <2>. QED  BY <2>1 DEF Range
<1>4. ASSUME NEW i \in DOMAIN t PROVE t[i] \in Range(u)
  <2>1. i + Len(s) \in DOMAIN u /\ u[i + Len(s)] = t[i]
    <3>1. /\ i + Len(s) \in 1..Len(s) + Len(t) /\ ~ (i + Len(s) <= Len(s))
          /\ (i + Len(s)) - Len(s) = i
      BY <1>1
    <3>. QED  BY <1>1, <3>1
  <2>2. \A k \in DOMAIN u : u[k] \in Range(u)
    BY DEF Range
  <2>. QED  BY <2>1, <2>2
<1>5. Range(u) \subseteq Range(s) \cup Range(t)
  BY <1>2 DEF Range
<1>6. Range(s) \subseteq Range(u) /\ Range(t) \subseteq Range(u)
  BY <1>3, <1>4 DEF Range
<1>. QED  BY <1>5, <1>6 DEF u

\* Two sequences one after the other, element by element.
LEMMA ConcatIs ==
  ASSUME NEW S, NEW s \in Seq(S), NEW t \in Seq(S)
  PROVE  /\ s \o t \in Seq(S) /\ Len(s) \in Nat /\ Len(t) \in Nat
         /\ DOMAIN s = 1..Len(s) /\ DOMAIN t = 1..Len(t)
         /\ Len(s \o t) = Len(s) + Len(t) /\ DOMAIN (s \o t) = 1..Len(s) + Len(t)
         /\ \A i \in 1..Len(s) : (s \o t)[i] = s[i]
         /\ \A j \in 1..Len(t) : (s \o t)[Len(s) + j] = t[j]
         /\ \A i \in 1..Len(s) + Len(t) :
              i \in 1..Len(s) \/ \E j \in 1..Len(t) : i = Len(s) + j
<1> DEFINE u == s \o t
<1>1. /\ Len(s) \in Nat /\ DOMAIN s = 1..Len(s) /\ Len(t) \in Nat /\ DOMAIN t = 1..Len(t)
      /\ u \in Seq(S) /\ Len(u) = Len(s) + Len(t)
      /\ \A i \in 1..Len(s) + Len(t) : u[i] = IF i <= Len(s) THEN s[i] ELSE t[i - Len(s)]
  BY ConcatProperties, LenProperties
<1>2. DOMAIN u = 1..Len(s) + Len(t)
  BY <1>1, LenProperties
<1> HIDE DEF u
<1>3. \A i \in 1..Len(s) : u[i] = s[i]
  BY <1>1
<1>4. ASSUME NEW j \in 1..Len(t) PROVE u[Len(s) + j] = t[j]
  <2>1. /\ Len(s) + j \in 1..Len(s) + Len(t) /\ ~ (Len(s) + j <= Len(s))
        /\ (Len(s) + j) - Len(s) = j
    BY <1>1
  <2>. QED  BY <1>1, <2>1
<1>5. ASSUME NEW i \in 1..Len(s) + Len(t), i \notin 1..Len(s)
      PROVE  \E j \in 1..Len(t) : i = Len(s) + j
  <2>1. i - Len(s) \in 1..Len(t) /\ i = Len(s) + (i - Len(s))
    BY <1>1, <1>5
  <2>. QED  BY <2>1
<1>. QED  BY <1>1, <1>2, <1>3, <1>4, <1>5 DEF u
-----------------------------------------------------------------------------
(* Recursive functions on an interval *)

\* Induction on the indices 0 to n: what holds of 0 and goes from each index to the next holds of all.
LEMMA IndexInduction ==
  ASSUME NEW n \in Nat, NEW T \in SUBSET (0..n), 0 \in T, \A k \in 1..n : k - 1 \in T => k \in T
  PROVE  T = 0..n
  <1> SUFFICES ASSUME T # 0..n PROVE FALSE
    OBVIOUS
  <1> DEFINE R == (0..n) \ T
  <1>1. R \in SUBSET Nat /\ R # {}
    <2>1. 0..n \in SUBSET Nat
      OBVIOUS
    <2> QED
      BY <2>1
  <1>2. PICK x \in R : \A y \in R : x <= y
    BY <1>1, LeastExists
  <1>3. x \in 0..n /\ x \notin T
    BY <1>2
  <1>4. x \in 1..n /\ x - 1 \in 0..n
    BY <1>3
  <1>5. x - 1 \notin R
    BY <1>2, <1>4
  <1> QED
    BY <1>3, <1>4, <1>5

\* The step F[k] leads from D to D; f starts at c and takes one step after the other.
StaysWithin(F, n, D) == \A k \in 1..n : \A x \in D : F[k][x] \in D
Iterates(f, F, c, n, D) ==
    /\ f = [k \in 0..n |-> f[k]] /\ \A k \in 0..n : f[k] \in D
    /\ f[0] = c /\ \A k \in 1..n : f[k] = F[k][f[k - 1]]

\* A recursion whose steps stay within a set defines a function on the indices 0 to n.
LEMMA RecursionExists ==
  ASSUME NEW D, NEW c \in D, NEW n \in Nat, NEW F, StaysWithin(F, n, D)
  PROVE  \E f : Iterates(f, F, c, n, D)
  <1> DEFINE Def(m, f) == f = [k \in 0..m |-> IF k = 0 THEN c ELSE F[k][f[k - 1]]]
             T == {m \in 0..n : \E f \in [0..m -> D] : Def(m, f)}
  <1>1. 0 \in T
    <2> DEFINE f == [k \in 0..0 |-> c]
    <2>1. f \in [0..0 -> D] /\ Def(0, f)
      OBVIOUS
    <2>2. 0 \in 0..n
      OBVIOUS
    <2> HIDE DEF f, Def
    <2> QED
      BY <2>1, <2>2
  <1>2. ASSUME NEW m \in 1..n, m - 1 \in T PROVE m \in T
    <2>1. PICK f \in [0..m - 1 -> D] : Def(m - 1, f)
      BY <1>2
    <2> DEFINE x == F[m][f[m - 1]]
               h == [k \in 0..m |-> IF k = m THEN x ELSE f[k]]
    <2>2. m - 1 \in 0..m - 1 /\ m # 0
      OBVIOUS
    <2>3. f[m - 1] \in D
      BY <2>2
    <2>4. x \in D
      BY <2>3 DEF StaysWithin
    <2> HIDE DEF x
    <2>5. h \in [0..m -> D]
      <3> SUFFICES ASSUME NEW k \in 0..m PROVE (IF k = m THEN x ELSE f[k]) \in D
        OBVIOUS
      <3>1. k = m \/ k \in 0..m - 1
        OBVIOUS
      <3> QED
        BY <2>4, <3>1
    <2>6. ASSUME NEW k \in 0..m PROVE h[k] = IF k = 0 THEN c ELSE F[k][h[k - 1]]
      <3>1. CASE k = m
        <4>1. k - 1 \in 0..m /\ k - 1 # m /\ k # 0
          BY <3>1
        <4>2. h[k - 1] = f[m - 1]
          BY <3>1, <4>1
        <4>3. h[k] = x
          BY <3>1
        <4> QED
          BY <3>1, <4>1, <4>2, <4>3 DEF x
      <3>2. CASE k # m
        <4>1. k \in 0..m - 1
          BY <3>2
        <4>2. f[k] = IF k = 0 THEN c ELSE F[k][f[k - 1]]
          BY <2>1, <4>1
        <4>3. h[k] = f[k]
          BY <3>2
        <4>4. k # 0 => k - 1 \in 0..m /\ k - 1 # m
          BY <4>1
        <4>5. k # 0 => h[k - 1] = f[k - 1]
          BY <4>4
        <4> QED
          BY <4>2, <4>3, <4>5
      <3> QED
        BY <3>1, <3>2
    <2>7. Def(m, h)
      <3> DEFINE b == [k \in 0..m |-> IF k = 0 THEN c ELSE F[k][h[k - 1]]]
      <3>1. DOMAIN h = 0..m /\ DOMAIN b = 0..m /\ h = [k \in 0..m |-> h[k]]
        OBVIOUS
      <3> HIDE DEF h
      <3> QED
        BY <2>6, <3>1
    <2>8. m \in 0..n
      OBVIOUS
    <2> HIDE DEF h, Def
    <2> QED
      BY <2>5, <2>7, <2>8
  <1> HIDE DEF Def
  <1>3. T \in SUBSET (0..n) /\ \A m \in 1..n : m - 1 \in T => m \in T
    BY <1>2
  <1> HIDE DEF T
  <1>4. T = 0..n
    BY <1>1, <1>3, IndexInduction
  <1>5. n \in T
    BY <1>4
  <1>6. PICK f \in [0..n -> D] : Def(n, f)
    BY <1>5 DEF T
  <1>7. 0 \in 0..n /\ \A k \in 1..n : k \in 0..n /\ k # 0
    OBVIOUS
  <1>8. f[0] = c /\ \A k \in 1..n : f[k] = F[k][f[k - 1]]
    BY <1>6, <1>7 DEF Def
  <1>9. Iterates(f, F, c, n, D)
    BY <1>8 DEF Iterates
  <1> QED
    BY <1>9
=============================================================================
