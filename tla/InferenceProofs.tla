---------------------------- MODULE InferenceProofs ----------------------------
(* Proofs about what becomes of a video until its translation: which frames  *)
(* are selected and who accepts the receipt, for every clip and every rate;  *)
(* how their landmarks are mapped, for every set of distances, both          *)
(* thresholds and any number of frames; and what the decoders write, for     *)
(* every network, batch, width and number of positions.                      *)
(*                                                                           *)
(* The frames: how the three copies of the code round and divide, that a     *)
(* finite set of numbers has one ascending sequence and a nearest frame (by  *)
(* their least elements), and an inductive invariant that says what each     *)
(* stage has computed.  The mapping: the assignment of the hands is the      *)
(* reference's, by cases over what a frame shows, and every frame and        *)
(* counter says what happened, by an inductive invariant.  The decoders:     *)
(* sorting is by rank in a strict order, a token keeps a string well formed  *)
(* exactly when it is not banned, and a beam that a row has dropped has      *)
(* enough better ones in the same row; so an inductive invariant says that   *)
(* the beams kept are the best.                                              *)
EXTENDS FrameSelection, LandmarkMapping, Decoding,
        FiniteSetTheorems, SequenceTheorems, WellFoundedInduction, TLAPS



-----------------------------------------------------------------------------
(* Rounding *)

LEMMA DivMod ==
  ASSUME NEW a \in Int, NEW b \in Nat \ {0}
  PROVE  a \div b \in Int /\ a % b \in 0..(b - 1) /\ a = b * (a \div b) + (a % b)
OBVIOUS

LEMMA DivUnique ==
  ASSUME NEW a \in Int, NEW b \in Nat \ {0}, NEW q \in Int, b * q <= a, a < b * q + b
  PROVE  a \div b = q
<1>1. a = b * q + (a - b * q) /\ a - b * q \in 0..(b - 1)
      OBVIOUS
<1>. QED  BY <1>1

LEMMA Cancel ==
  ASSUME NEW a \in Int, NEW b \in Int, NEW c \in Nat \ {0}, c * a < c * b
  PROVE  a < b
OBVIOUS

LEMMA Times ==
  ASSUME NEW a \in Int, NEW b \in Int, NEW c \in Nat, a <= b
  PROVE  c * a <= c * b
OBVIOUS

\* The nearest microsecond, halves down.
LEMMA Rounded ==
  ASSUME NEW a \in Int, NEW b \in Nat \ {0}
  PROVE  /\ ToMicroseconds(a, b) \in Int
         /\ 2 * a <= 2 * (b * ToMicroseconds(a, b)) + b
         /\ 2 * (b * ToMicroseconds(a, b)) < 2 * a + b
<1> DEFINE q == a \div b
           r == a % b
<1>1. q \in Int /\ r \in Int /\ 0 <= r /\ r < b /\ a = b * q + r
      BY DivMod
<1>2. ToMicroseconds(a, b) = q + (IF 2 * r > b THEN 1 ELSE 0)
      BY DEF ToMicroseconds
<1> HIDE DEF q, r
<1>3. CASE 2 * r > b
  <2>1. ToMicroseconds(a, b) = q + 1 /\ b * (q + 1) = b * q + b
        BY <1>1, <1>2, <1>3
  <2>. QED  BY <1>1, <1>3, <2>1
<1>4. CASE ~(2 * r > b)
  <2>1. ToMicroseconds(a, b) = q
        BY <1>1, <1>2, <1>4
  <2>. QED  BY <1>1, <1>4, <2>1
<1>. QED  BY <1>3, <1>4

LEMMA RoundedAtLeast ==
  ASSUME NEW a \in Int, NEW b \in Nat \ {0}, NEW k \in Int, b * k <= a
  PROVE  k <= ToMicroseconds(a, b)
<1> DEFINE q == ToMicroseconds(a, b)
<1>1. q \in Int /\ 2 * a <= 2 * (b * q) + b
      BY Rounded
<1> HIDE DEF q
<1>2. b * k < b * (q + 1)
  <2>1. b * (q + 1) = b * q + b /\ b * k \in Int /\ b * q \in Int
        BY <1>1
  <2>. QED  BY <1>1, <2>1
<1>. QED  BY <1>1, <1>2, Cancel DEF q

LEMMA RoundedBelow ==
  ASSUME NEW a \in Int, NEW b \in Nat \ {0}, NEW k \in Int, 2 * a + b <= 2 * (b * k)
  PROVE  ToMicroseconds(a, b) < k
<1> DEFINE q == ToMicroseconds(a, b)
<1>1. q \in Int /\ 2 * (b * q) < 2 * a + b
      BY Rounded
<1> HIDE DEF q
<1>2. b * q < b * k
  <2>1. b * k \in Int /\ b * q \in Int
        BY <1>1
  <2>. QED  BY <1>1, <2>1
<1>. QED  BY <1>1, <1>2, Cancel DEF q

LEMMA RoundedMonotone ==
  ASSUME NEW a \in Int, NEW c \in Int, NEW b \in Nat \ {0}, a <= c
  PROVE  ToMicroseconds(a, b) <= ToMicroseconds(c, b)
<1> DEFINE p == ToMicroseconds(a, b)
           q == ToMicroseconds(c, b)
<1>1. p \in Int /\ q \in Int /\ 2 * (b * p) < 2 * a + b /\ 2 * c <= 2 * (b * q) + b
      BY Rounded
<1> HIDE DEF p, q
<1>2. b * p < b * (q + 1)
  <2>1. b * (q + 1) = b * q + b /\ b * p \in Int /\ b * q \in Int
        BY <1>1
  <2>. QED  BY <1>1, <2>1
<1>3. p < q + 1
      BY <1>1, <1>2, Cancel
<1>. QED  BY <1>1, <1>3 DEF p, q

\* The host rounds as the worker does.
LEMMA HostRounds ==
  ASSUME NEW a \in Int, NEW b \in Nat \ {0}
  PROVE  HostMicroseconds(a, b) = ToMicroseconds(a, b)
<1> DEFINE q == a \div b
           r == a % b
<1>1. q \in Int /\ r \in Int /\ a = b * q + r
      BY DivMod
<1>2. a - q * b = r
  <2>1. q * b = b * q /\ b * q \in Int
        BY <1>1
  <2> HIDE DEF q, r
  <2>. QED  BY <1>1, <2>1
<1>. QED  BY <1>1, <1>2 DEF HostMicroseconds, ToMicroseconds

\* The upper quotient, and both ways in which the host computes it.
LEMMA CeilIs ==
  ASSUME NEW a \in Int, NEW b \in Nat \ {0}
  PROVE  /\ CeilDiv(a, b) \in Int
         /\ b * (CeilDiv(a, b) - 1) < a /\ a <= b * CeilDiv(a, b)
<1>0. PICK m \in Int : m = -a
      OBVIOUS
<1> DEFINE q == m \div b
           r == m % b
<1>1. q \in Int /\ r \in Int /\ 0 <= r /\ r < b /\ m = b * q + r
      BY DivMod
<1>2. CeilDiv(a, b) = -q
      BY <1>0 DEF CeilDiv
<1> HIDE DEF q, r
<1>3. b * (-q) = -(b * q) /\ b * (-q - 1) = -(b * q) - b /\ b * q \in Int
      BY <1>1
<1>. QED  BY <1>0, <1>1, <1>2, <1>3

LEMMA HostCount ==
  ASSUME NEW a \in Int, NEW b \in Nat \ {0}
  PROVE  (a + b - 1) \div b = CeilDiv(a, b)
<1> DEFINE c == CeilDiv(a, b)
<1>1. c \in Int /\ b * (c - 1) < a /\ a <= b * c
      BY CeilIs
<1> HIDE DEF c
<1>2. b * (c - 1) = b * c - b /\ b * c \in Int
      BY <1>1
<1>3. b * c <= a + b - 1 /\ a + b - 1 < b * c + b
      BY <1>1, <1>2
<1>. QED  BY <1>1, <1>3, DivUnique DEF c

LEMMA HostCeil ==
  ASSUME NEW a \in Int, NEW b \in Nat \ {0}
  PROVE  (a \div b) + (IF a % b # 0 THEN 1 ELSE 0) = CeilDiv(a, b)
<1> DEFINE q == a \div b
           r == a % b
           c == CeilDiv(a, b)
<1>1. q \in Int /\ r \in Int /\ 0 <= r /\ r < b /\ a = b * q + r
      BY DivMod
<1>2. c \in Int /\ b * (c - 1) < a /\ a <= b * c
      BY CeilIs
<1> HIDE DEF q, r, c
<1>3. b * (q + 1) = b * q + b /\ b * q \in Int
      BY <1>1
<1>4. CASE r = 0
  <2>1. b * (c - 1) < b * q /\ b * q < b * (c + 1)
    <3>1. b * (c + 1) = b * c + b /\ b * c \in Int
          BY <1>2
    <3>. QED  BY <1>1, <1>2, <1>4, <3>1
  <2>2. c - 1 < q /\ q < c + 1
        BY <1>1, <1>2, <2>1, Cancel
  <2>. QED  BY <1>1, <1>2, <1>4, <2>2 DEF q, r, c
<1>5. CASE r # 0
  <2>1. b * (c - 1) < b * (q + 1) /\ b * q < b * c
        BY <1>1, <1>2, <1>3, <1>5
  <2>2. c - 1 < q + 1 /\ q < c
        BY <1>1, <1>2, <2>1, Cancel
  <2>. QED  BY <1>1, <1>2, <1>5, <2>2 DEF q, r, c
<1>. QED  BY <1>4, <1>5

-----------------------------------------------------------------------------
(* Order *)

LEMMA SmallestOf ==
  ASSUME NEW T \in SUBSET Nat, T # {}
  PROVE  \E x \in T : \A y \in T : x <= y
<1> DEFINE R == {ss \in Nat \X Nat : ss[1] < ss[2]}
<1>1. IsWellFoundedOn(R, Nat)
      BY NatLessThanWellFounded DEF OpToRel
<1>2. \A x, y \in Nat : <<y, x>> \in R <=> y < x
      OBVIOUS
<1> HIDE DEF R
<1>3. PICK x \in T : \A y \in T : ~ (<<y, x>> \in R)
      BY <1>1, WFMin
<1>4. ASSUME NEW y \in T PROVE x <= y
  <2>1. x \in Nat /\ y \in Nat
        OBVIOUS
  <2>2. ~(<<y, x>> \in R)
        BY <1>3
  <2>3. ~(y < x)
        BY <1>2, <2>1, <2>2
  <2>. QED  BY <2>1, <2>3
<1>. QED  BY <1>4

\* A sequence that increases from each element to the next increases.
LEMMA IncreasingPairs ==
  ASSUME NEW n \in Nat, NEW s \in [1..n -> Int], \A i \in 1..(n - 1) : s[i] < s[i + 1]
  PROVE  \A i, j \in 1..n : i < j => s[i] < s[j]
<1> DEFINE Bad == {j \in 1..n : \E i \in 1..n : i < j /\ ~(s[i] < s[j])}
<1>1. SUFFICES ASSUME Bad # {} PROVE FALSE
      OBVIOUS
<1>2. PICK j \in Bad : \A k \in Bad : j <= k
  <2>1. Bad \in SUBSET Nat
        OBVIOUS
  <2> HIDE DEF Bad
  <2>. QED  BY <1>1, <2>1, SmallestOf
<1>3. PICK i \in 1..n : i < j /\ ~(s[i] < s[j])
      OBVIOUS
<1>4. j - 1 \in 1..(n - 1) /\ j - 1 \in 1..n /\ j - 1 \notin Bad
      BY <1>2, <1>3
<1>5. s[j - 1] < s[j] /\ s[i] \in Int /\ s[j] \in Int /\ s[j - 1] \in Int
      BY <1>4
<1>6. i = j - 1 \/ s[i] < s[j - 1]
  <2>1. i < j - 1 => s[i] < s[j - 1]
        BY <1>4
  <2>. QED  BY <1>3, <2>1
<1>7. s[i] < s[j]
  <2>1. CASE i = j - 1
        BY <1>5, <2>1
  <2>2. CASE s[i] < s[j - 1]
        BY <1>5, <2>2
  <2>. QED  BY <1>6, <2>1, <2>2
<1>. QED  BY <1>3, <1>7

LEMMA OrderedPairs ==
  ASSUME NEW n \in Nat, NEW s \in [1..n -> Int], \A i \in 1..(n - 1) : s[i] <= s[i + 1]
  PROVE  \A i, j \in 1..n : i <= j => s[i] <= s[j]
<1> DEFINE Bad == {j \in 1..n : \E i \in 1..n : i <= j /\ ~(s[i] <= s[j])}
<1>1. SUFFICES ASSUME Bad # {} PROVE FALSE
      OBVIOUS
<1>2. PICK j \in Bad : \A k \in Bad : j <= k
  <2>1. Bad \in SUBSET Nat
        OBVIOUS
  <2> HIDE DEF Bad
  <2>. QED  BY <1>1, <2>1, SmallestOf
<1>3. PICK i \in 1..n : i <= j /\ ~(s[i] <= s[j])
      OBVIOUS
<1>4. i # j /\ s[i] \in Int /\ s[j] \in Int
      BY <1>3
<1>5. j - 1 \in 1..(n - 1) /\ j - 1 \in 1..n /\ j - 1 \notin Bad /\ i <= j - 1
      BY <1>2, <1>3, <1>4
<1>6. s[j - 1] <= s[j] /\ s[j - 1] \in Int
      BY <1>5
<1>7. s[i] <= s[j - 1]
      BY <1>5
<1>. QED  BY <1>3, <1>4, <1>6, <1>7

\* A function on 1..n is a sequence.
LEMMA FunctionIsSeq ==
  ASSUME NEW n \in Nat, NEW S, NEW s \in [1..n -> S]
  PROVE  s \in Seq(S) /\ Len(s) = n /\ DOMAIN s = 1..n
<1>1. s \in Seq(S)
      BY SeqDef
<1>2. Len(s) \in Nat /\ DOMAIN s = 1..Len(s) /\ DOMAIN s = 1..n
      BY <1>1, LenProperties
<1>. QED  BY <1>1, <1>2

\* n numbers have an ascending order.
Sortable(n) ==
  \A S \in SUBSET Nat : IsFiniteSet(S) /\ Cardinality(S) = n =>
    \E s \in [1..n -> S] : \A i, j \in 1..n : i < j => s[i] < s[j]

LEMMA OneMore ==
  ASSUME NEW n \in Nat, Sortable(n) PROVE Sortable(n + 1)
<1>1. SUFFICES ASSUME NEW S \in SUBSET Nat, IsFiniteSet(S), Cardinality(S) = n + 1
               PROVE  \E s \in [1..(n + 1) -> S] : \A i, j \in 1..(n + 1) : i < j => s[i] < s[j]
      BY DEF Sortable
<1>2. S # {}
      BY <1>1, FS_EmptySet
<1>3. PICK a \in S : \A y \in S : a <= y
      BY <1>2, SmallestOf
<1>4. S \ {a} \in SUBSET Nat /\ IsFiniteSet(S \ {a}) /\ Cardinality(S \ {a}) = n
  <2>1. IsFiniteSet(S \ {a}) /\ Cardinality(S \ {a}) = Cardinality(S) - 1
        BY <1>1, FS_RemoveElement
  <2>. QED  BY <1>1, <2>1
<1>5. PICK t \in [1..n -> S \ {a}] : \A i, j \in 1..n : i < j => t[i] < t[j]
      BY <1>4 DEF Sortable
<1> DEFINE s == [i \in 1..(n + 1) |-> IF i = 1 THEN a ELSE t[i - 1]]
<1>6. \A i \in 1..(n + 1) : i # 1 => i - 1 \in 1..n /\ s[i] = t[i - 1] /\ s[i] \in S \ {a}
      OBVIOUS
<1>7. s \in [1..(n + 1) -> S]
      BY <1>6
<1>8. ASSUME NEW i \in 1..(n + 1), NEW j \in 1..(n + 1), i < j PROVE s[i] < s[j]
  <2>1. j # 1 /\ s[j] = t[j - 1] /\ j - 1 \in 1..n /\ s[j] \in S \ {a}
        BY <1>6, <1>8
  <2>2. CASE i = 1
    <3>1. s[i] = a /\ a <= s[j] /\ a # s[j] /\ a \in Nat /\ s[j] \in Nat
          BY <1>3, <2>1, <2>2
    <3>. QED  BY <3>1
  <2>3. CASE i # 1
    <3>1. s[i] = t[i - 1] /\ i - 1 \in 1..n /\ i - 1 < j - 1
          BY <1>6, <1>8, <2>3
    <3>2. t[i - 1] < t[j - 1]
          BY <1>5, <2>1, <3>1
    <3>. QED  BY <2>1, <3>1, <3>2
  <2>. QED  BY <2>2, <2>3
<1>. QED  BY <1>7, <1>8

LEMMA AllSortable == \A n \in Nat : Sortable(n)
<1> DEFINE Bad == {n \in Nat : ~Sortable(n)}
<1>1. SUFFICES ASSUME Bad # {} PROVE FALSE
      OBVIOUS
<1>2. PICK n \in Bad : \A k \in Bad : n <= k
  <2>1. Bad \in SUBSET Nat
        OBVIOUS
  <2> HIDE DEF Bad
  <2>. QED  BY <1>1, <2>1, SmallestOf
<1>3. Sortable(0)
  <2>1. ASSUME NEW S \in SUBSET Nat, IsFiniteSet(S), Cardinality(S) = 0
        PROVE  \E s \in [1..0 -> S] : \A i, j \in 1..0 : i < j => s[i] < s[j]
    <3>1. S = {}
          BY <2>1, FS_EmptySet
    <3>2. \A i \in 1..0 : FALSE
          OBVIOUS
    <3>3. [i \in 1..0 |-> 0] \in [1..0 -> S]
          BY <3>2
    <3>. QED  BY <3>2, <3>3
  <2>. QED  BY <2>1 DEF Sortable
<1>4. n \in Nat /\ ~Sortable(n) /\ n # 0
      BY <1>3
<1>5. n - 1 \in Nat /\ n - 1 \notin Bad
      BY <1>2, <1>4
<1>6. Sortable(n - 1)
      BY <1>5
<1>7. Sortable((n - 1) + 1)
      BY <1>5, <1>6, OneMore
<1>8. (n - 1) + 1 = n
      BY <1>4
<1>. QED  BY <1>4, <1>7, <1>8

\* Ascending gives all the elements, each once and in order.
LEMMA AscendingIs ==
  ASSUME NEW S \in SUBSET Nat, IsFiniteSet(S)
  PROVE  /\ Ascending(S) \in Seq(Nat) /\ Len(Ascending(S)) = Cardinality(S)
         /\ \A i, j \in 1..Len(Ascending(S)) : i < j => Ascending(S)[i] < Ascending(S)[j]
         /\ {Ascending(S)[i] : i \in 1..Len(Ascending(S))} = S
<1> DEFINE n == Cardinality(S)
           s == Ascending(S)
<1>1. n \in Nat
      BY FS_CardinalityType
<1>2. PICK t \in [1..n -> S] : \A i, j \in 1..n : i < j => t[i] < t[j]
      BY <1>1, AllSortable DEF Sortable
<1>3. Len(t) = n
      BY <1>1, FunctionIsSeq
<1>4. \A i, j \in 1..n : i # j => t[i] # t[j]
  <2>1. \A i \in 1..n : t[i] \in Nat
        OBVIOUS
  <2>. QED  BY <1>1, <1>2, <2>1
<1>5. t \in SetToSeqs(S)
      BY <1>4 DEF SetToSeqs
<1>6. Increasing(t)
      BY <1>1, <1>2, <1>3 DEF Increasing
<1>7. s \in SetToSeqs(S) /\ Increasing(s)
      BY <1>5, <1>6 DEF Ascending
<1> HIDE DEF s
<1>8. s \in [1..n -> S] /\ \A i, j \in 1..n : i # j => s[i] # s[j]
      BY <1>7 DEF SetToSeqs
<1>9. s \in [1..n -> Nat] /\ s \in [1..n -> Int]
  <2>1. \A i \in 1..n : s[i] \in Nat
        BY <1>8
  <2>. QED  BY <1>8, <2>1
<1>10. s \in Seq(Nat) /\ Len(s) = n
      BY <1>1, <1>9, FunctionIsSeq
<1>11. \A i, j \in 1..n : i < j => s[i] < s[j]
  <2>1. \A i \in 1..(n - 1) : s[i] < s[i + 1]
        BY <1>7, <1>10 DEF Increasing
  <2>. QED  BY <1>1, <1>9, <2>1, IncreasingPairs
<1>12. {s[i] : i \in 1..n} = S
  <2>1. s \in Injection(1..n, S)
        BY <1>8 DEF Injection, IsInjective
  <2>2. Cardinality(1..n) = n
        BY <1>1, FS_Interval
  <2>3. s \in Surjection(1..n, S)
        BY <2>1, <2>2, FS_Injection
  <2>4. \A x \in S : \E i \in 1..n : s[i] = x
        BY <2>3 DEF Surjection
  <2>5. \A x \in {s[i] : i \in 1..n} : x \in S
        BY <1>8
  <2>6. \A x \in S : x \in {s[i] : i \in 1..n}
        BY <2>4
  <2>. QED  BY <2>5, <2>6
<1>. QED  BY <1>10, <1>11, <1>12 DEF s

-----------------------------------------------------------------------------
(* The clip *)

Gap(v, i, p) ==
  LET d == 2 * Count(v) * Time(v, p) - Tick * Centre(v, i) IN IF d < 0 THEN -d ELSE d
Clip(v) == {p \in v.pts : InClip(v, Time(v, p))}
Clips == {v \in Videos : Duration(v) \in MinimumClip..MaximumClip}

LEMMA VideoTypes ==
  ASSUME NEW v \in Videos
  PROVE  /\ v.from \in Nat /\ v.to \in Nat /\ v.from < v.to /\ Duration(v) \in Nat \ {0}
         /\ v.to = v.from + Duration(v)
         /\ v.offset \in Nat /\ v.gap \in Nat \ {0} /\ v.depth \in Nat
         /\ v.pts \in SUBSET Nat /\ IsFiniteSet(v.pts)
BY VideosAreVideos DEF Duration

LEMMA UnitTypes ==
  /\ Tick \in Nat \ {0} /\ Second \in Nat \ {0} /\ Milli \in Nat \ {0} /\ TargetRate \in Nat \ {0}
  /\ MaximumRate \in Nat /\ MaximumCandidates \in Nat /\ MinimumFrames \in Nat /\ MaximumFrames \in Nat
  /\ TargetRate <= Second
BY Units, RateLimits, SlowerThanTicks

\* There is an output, and not more of them than microseconds.
LEMMA CountIs ==
  ASSUME NEW v \in Videos
  PROVE  Count(v) \in Nat /\ 1 <= Count(v) /\ Count(v) <= Duration(v)
<1> DEFINE D == Duration(v)
           c == Count(v)
<1>1. D \in Nat \ {0} /\ TargetRate \in Nat \ {0} /\ Second \in Nat \ {0} /\ TargetRate <= Second
      BY VideoTypes, UnitTypes
<1> HIDE DEF D
<1>2. D * TargetRate \in Int /\ 0 < D * TargetRate /\ D * TargetRate <= Second * D
  <2>1. D * TargetRate <= D * Second
        BY <1>1, Times
  <2>2. D * 0 < D * TargetRate
        BY <1>1
  <2>. QED  BY <1>1, <2>1, <2>2
<1>3. c \in Int /\ Second * (c - 1) < D * TargetRate /\ D * TargetRate <= Second * c
      BY <1>1, <1>2, CeilIs DEF Count, D
<1> HIDE DEF c
<1>4. Second * 0 < Second * c /\ Second * (c - 1) < Second * D
      BY <1>1, <1>2, <1>3
<1>5. 0 < c /\ c - 1 < D
      BY <1>1, <1>3, <1>4, Cancel
<1>. QED  BY <1>1, <1>3, <1>5 DEF c, D

LEMMA CentreIs ==
  ASSUME NEW v \in Videos, NEW i \in Outputs(v)
  PROVE  /\ Centre(v, i) \in Int /\ (2 * Count(v)) * v.from <= Centre(v, i)
         /\ Centre(v, i) <= (2 * Count(v)) * v.to - Duration(v)
<1> DEFINE D == Duration(v)
           n == Count(v)
<1>1. D \in Nat /\ n \in Nat /\ i \in 1..n /\ v.from \in Nat /\ v.to = v.from + D
      BY VideoTypes, CountIs DEF Outputs
<1>2. Centre(v, i) = 2 * n * v.from + (2 * i - 1) * D
      BY DEF Centre
<1> HIDE DEF D, n
<1>3. 0 <= (2 * i - 1) * D /\ (2 * i - 1) * D <= (2 * n - 1) * D
  <2>1. D * 0 <= D * (2 * i - 1) /\ D * (2 * i - 1) <= D * (2 * n - 1)
        BY <1>1, Times
  <2>. QED  BY <1>1, <2>1
<1>4. (2 * n) * v.to = 2 * n * v.from + (2 * n - 1) * D + D
      BY <1>1
<1>. QED  BY <1>1, <1>2, <1>3, <1>4 DEF D, n

LEMMA RequestedIs ==
  ASSUME NEW v \in Videos, NEW i \in Outputs(v)
  PROVE  Requested(v, i) \in Int /\ v.from <= Requested(v, i) /\ Requested(v, i) < v.to
<1> DEFINE n == Count(v)
           D == Duration(v)
           c == Centre(v, i)
<1>1. n \in Nat /\ 1 <= n /\ n <= D /\ D \in Nat /\ v.from \in Nat /\ v.to \in Nat
      BY VideoTypes, CountIs
<1>2. c \in Int /\ (2 * n) * v.from <= c /\ c <= (2 * n) * v.to - D
      BY CentreIs
<1>3. Requested(v, i) = ToMicroseconds(c, 2 * n)
      BY DEF Requested
<1> HIDE DEF n, D, c
<1>4. 2 * n \in Nat \ {0}
      BY <1>1
<1>5. ToMicroseconds(c, 2 * n) \in Int
      BY <1>2, <1>4, Rounded
<1>6. v.from <= ToMicroseconds(c, 2 * n)
      BY <1>1, <1>2, <1>4, RoundedAtLeast
<1>7. 2 * c + 2 * n <= 2 * ((2 * n) * v.to)
  <2>1. (2 * n) * v.to \in Int
        BY <1>1
  <2>. QED  BY <1>1, <1>2, <2>1
<1>8. ToMicroseconds(c, 2 * n) < v.to
      BY <1>1, <1>2, <1>4, <1>7, RoundedBelow
<1>. QED  BY <1>3, <1>5, <1>6, <1>8

\* A frame of the clip shows within it, its time rounded to the end at most.
LEMMA FrameTime ==
  ASSUME NEW v \in Videos, NEW p \in Clip(v)
  PROVE  /\ p \in Nat /\ Time(v, p) \in Int /\ ToMicroseconds(Time(v, p), Tick) \in Int
         /\ v.from <= ToMicroseconds(Time(v, p), Tick)
<1>1. p \in Nat /\ v.offset \in Nat /\ v.from \in Nat /\ Tick \in Nat \ {0}
      BY VideoTypes, UnitTypes DEF Clip
<1>2. Time(v, p) \in Int
      BY <1>1 DEF Time
<1>3. Tick * v.from <= Time(v, p)
      BY DEF Clip, InClip
<1>. QED  BY <1>1, <1>2, <1>3, Rounded, RoundedAtLeast

\* The guards outweigh the rounding of the interval's ends.
LEMMA ProbeCovers ==
  ASSUME NEW v \in Videos
  PROVE  LET i == ProbeInterval(v) IN
         /\ i[1] \in Int /\ i[2] \in Int /\ i[1] < i[2]
         /\ \A p \in Clip(v) : Tick * i[1] <= p /\ p <= Tick * i[2]
<1> DEFINE o == v.offset
           e == (v.depth + 1) * v.gap
           start == o + Tick * (v.from - v.gap)
           end == o + Tick * (v.to + (v.depth + 1) * v.gap)
           a == ProbeInterval(v)[1]
           b == ProbeInterval(v)[2]
<1>1. /\ Tick \in Nat \ {0} /\ o \in Nat /\ v.from \in Nat /\ v.to \in Nat /\ v.from < v.to
      /\ v.gap \in Nat \ {0} /\ v.depth \in Nat
      BY VideoTypes, UnitTypes
<1>2. e \in Nat /\ 1 <= e
  <2>1. v.gap * 1 <= v.gap * (v.depth + 1)
        BY <1>1, Times
  <2>. QED  BY <1>1, <2>1
<1>3. Tick * v.from \in Nat /\ Tick * v.to \in Nat /\ Tick * v.gap \in Nat /\ Tick * e \in Nat
      BY <1>1, <1>2
<1>4. Tick * v.from + Tick <= Tick * v.to /\ Tick <= Tick * v.gap /\ Tick <= Tick * e
  <2>1. Tick * (v.from + 1) <= Tick * v.to /\ Tick * 1 <= Tick * v.gap /\ Tick * 1 <= Tick * e
        BY <1>1, <1>2, Times
  <2>2. Tick * (v.from + 1) = Tick * v.from + Tick /\ Tick * 1 = Tick
        BY <1>1
  <2>. QED  BY <2>1, <2>2
<1>5. start = o + Tick * v.from - Tick * v.gap /\ end = o + Tick * v.to + Tick * e
  <2>1. Tick * (v.from - v.gap) = Tick * v.from - Tick * v.gap /\ Tick * (v.to + e) = Tick * v.to + Tick * e
        BY <1>1, <1>2
  <2>. QED  BY <1>1, <1>3, <2>1
<1>6. a = (IF start < 0 THEN 0 ELSE ToMicroseconds(start, Tick)) /\ b = ToMicroseconds(end, Tick)
      BY DEF ProbeInterval
<1> HIDE DEF e, start, end, o, a, b
<1>7. start \in Int /\ end \in Int
      BY <1>1, <1>3, <1>5
<1>8. b \in Int /\ 2 * end <= 2 * (Tick * b) + Tick
      BY <1>1, <1>6, <1>7, Rounded
<1>9. a \in Int /\ (a = 0 \/ 2 * (Tick * a) < 2 * start + Tick)
  <2>1. CASE start < 0
        BY <1>6, <2>1
  <2>2. CASE ~(start < 0)
    <3>1. a = ToMicroseconds(start, Tick)
          BY <1>6, <2>2
    <3>. QED  BY <1>1, <1>7, <3>1, Rounded
  <2>. QED  BY <2>1, <2>2
<1>10. Tick * a \in Int /\ Tick * b \in Int /\ Tick * 0 = 0
      BY <1>1, <1>8, <1>9
<1>11. o + Tick * v.to <= Tick * b
      BY <1>1, <1>3, <1>4, <1>5, <1>8, <1>10
<1>12. a = 0 \/ Tick * a <= o + Tick * v.from
      BY <1>1, <1>3, <1>4, <1>5, <1>9, <1>10
<1>13. a < b
  <2>1. Tick * a < Tick * b
        BY <1>1, <1>3, <1>4, <1>10, <1>11, <1>12
  <2>. QED  BY <1>1, <1>8, <1>9, <2>1, Cancel
<1>14. ASSUME NEW p \in Clip(v) PROVE Tick * a <= p /\ p <= Tick * b
  <2>1. p \in Nat /\ Tick * v.from <= p - o /\ p - o < Tick * v.to
        BY FrameTime DEF Clip, InClip, Time, o
  <2>. QED  BY <1>1, <1>3, <1>10, <1>11, <1>12, <2>1
<1>. QED  BY <1>8, <1>9, <1>13, <1>14 DEF a, b

\* The host probes the same interval.
LEMMA HostProbes ==
  ASSUME NEW v \in Videos PROVE HostProbe(v) = ProbeInterval(v)
<1> DEFINE start == v.offset + Tick * (v.from - v.gap)
           end == v.offset + Tick * (v.to + (v.depth + 1) * v.gap)
           guarded == v.offset + Tick * v.from - Tick * v.gap
           hostEnd == v.offset + Tick * v.to + Tick * v.gap * (v.depth + 1)
<1>1. /\ Tick \in Nat \ {0} /\ v.offset \in Nat /\ v.from \in Nat /\ v.to \in Nat
      /\ v.gap \in Nat \ {0} /\ v.depth \in Nat
      BY VideoTypes, UnitTypes
<1>2. guarded = start /\ hostEnd = end /\ start \in Int /\ end \in Int
      BY <1>1
<1>3. HostProbe(v) = <<HostMicroseconds(IF guarded > 0 THEN guarded ELSE 0, Tick),
                       HostMicroseconds(hostEnd, Tick)>>
      BY DEF HostProbe
<1>4. ProbeInterval(v) = <<IF start < 0 THEN 0 ELSE ToMicroseconds(start, Tick),
                           ToMicroseconds(end, Tick)>>
      BY DEF ProbeInterval
<1> HIDE DEF start, end, guarded, hostEnd
<1>5. HostMicroseconds(hostEnd, Tick) = ToMicroseconds(end, Tick)
      BY <1>1, <1>2, HostRounds
<1>6. HostMicroseconds(IF guarded > 0 THEN guarded ELSE 0, Tick)
        = IF start < 0 THEN 0 ELSE ToMicroseconds(start, Tick)
  <2>1. ToMicroseconds(0, Tick) = 0
    <3>1. 0 <= ToMicroseconds(0, Tick)
          BY <1>1, RoundedAtLeast
    <3>2. ToMicroseconds(0, Tick) < 1
          BY <1>1, RoundedBelow
    <3>3. ToMicroseconds(0, Tick) \in Int
          BY <1>1, Rounded
    <3>. QED  BY <3>1, <3>2, <3>3
  <2>2. CASE start > 0
    <3>1. HostMicroseconds(start, Tick) = ToMicroseconds(start, Tick)
          BY <1>1, <1>2, HostRounds
    <3>. QED  BY <1>2, <2>2, <3>1
  <2>3. CASE ~(start > 0)
    <3>1. HostMicroseconds(0, Tick) = 0
          BY <1>1, <2>1, HostRounds
    <3>2. start < 0 \/ start = 0
          BY <1>2, <2>3
    <3>. QED  BY <1>2, <2>1, <2>3, <3>1, <3>2
  <2>. QED  BY <2>2, <2>3
<1>. QED  BY <1>3, <1>4, <1>5, <1>6

LEMMA HostLimits ==
  ASSUME NEW v \in Videos PROVE HostLimit(v.to - v.from) = CandidateLimit(v)
<1> DEFINE a == Duration(v) * MaximumRate
<1>1. a \in Int /\ Second \in Nat \ {0}
      BY VideoTypes, UnitTypes
<1>2. HostLimit(Duration(v)) = LET n == a \div Second + (IF a % Second # 0 THEN 1 ELSE 0) + 2
                               IN  IF n < MaximumCandidates THEN n ELSE MaximumCandidates
      BY DEF HostLimit
<1>3. CandidateLimit(v) = LET n == CeilDiv(a, Second) + 2
                          IN  IF n < MaximumCandidates THEN n ELSE MaximumCandidates
      BY DEF CandidateLimit
<1>4. Duration(v) = v.to - v.from
      BY DEF Duration
<1> HIDE DEF a
<1>5. (a \div Second) + (IF a % Second # 0 THEN 1 ELSE 0) = CeilDiv(a, Second)
      BY <1>1, HostCeil
<1>. QED  BY <1>2, <1>3, <1>4, <1>5

-----------------------------------------------------------------------------
(* The selection *)

\* Frames in the order of their times, at least one.
Frames(v, s) ==
  /\ s \in Seq(Nat) /\ Len(s) >= 1 /\ \A k \in 1..Len(s) : s[k] \in Clip(v)
  /\ \A j, k \in 1..Len(s) : j < k => s[j] < s[k]

LEMMA GapIs ==
  ASSUME NEW v \in Videos, NEW i \in Outputs(v), NEW p \in Clip(v) PROVE Gap(v, i, p) \in Nat
<1> DEFINE d == 2 * Count(v) * Time(v, p) - Tick * Centre(v, i)
<1>1. Count(v) \in Nat /\ Time(v, p) \in Int /\ Tick \in Nat /\ Centre(v, i) \in Int
      BY CountIs, FrameTime, UnitTypes, CentreIs
<1>2. d \in Int
      BY <1>1
<1>3. Gap(v, i, p) = IF d < 0 THEN -d ELSE d
      BY DEF Gap
<1> HIDE DEF d
<1>. QED  BY <1>2, <1>3

LEMMA DistanceIs ==
  ASSUME NEW v, NEW s, NEW i, NEW j PROVE Distance(v, s, i, j) = Gap(v, i, s[j])
BY DEF Distance, Gap

\* There is a nearest frame, the earliest of the equally near ones.
LEMMA NearestIs ==
  ASSUME NEW v \in Videos, NEW i \in Outputs(v), NEW s, Frames(v, s)
  PROVE  /\ Nearest(v, s, i) \in 1..Len(s)
         /\ \A k \in 1..Len(s) :
              \/ Gap(v, i, s[Nearest(v, s, i)]) < Gap(v, i, s[k])
              \/ Gap(v, i, s[Nearest(v, s, i)]) = Gap(v, i, s[k]) /\ Nearest(v, s, i) <= k
<1> DEFINE n == Len(s)
           gaps == {Gap(v, i, s[k]) : k \in 1..n}
           Best(j) == \A k \in DOMAIN s \ {j} :
             \/ Distance(v, s, i, j) < Distance(v, s, i, k)
             \/ Distance(v, s, i, j) = Distance(v, s, i, k) /\ (s[j] < s[k] \/ (s[j] = s[k] /\ j < k))
<1>1. n \in Nat /\ 1 \in 1..n /\ DOMAIN s = 1..n /\ \A k \in 1..n : s[k] \in Clip(v) /\ s[k] \in Nat
      BY LenProperties DEF Frames
<1>2. \A k \in 1..n : Gap(v, i, s[k]) \in Nat
      BY <1>1, GapIs
<1>3. gaps \in SUBSET Nat /\ gaps # {}
      BY <1>1, <1>2
<1>4. PICK d \in gaps : \A e \in gaps : d <= e
  <2> HIDE DEF gaps
  <2>. QED  BY <1>3, SmallestOf
<1> DEFINE those == {k \in 1..n : Gap(v, i, s[k]) = d}
<1>5. those \in SUBSET Nat /\ those # {}
      BY <1>4
<1>6. PICK j \in those : \A k \in those : j <= k
  <2> HIDE DEF those
  <2>. QED  BY <1>5, SmallestOf
<1>7. j \in 1..n /\ Gap(v, i, s[j]) = d
      OBVIOUS
<1>8. ASSUME NEW k \in 1..n, k # j
      PROVE  d < Gap(v, i, s[k]) \/ (d = Gap(v, i, s[k]) /\ j < k /\ s[j] < s[k])
  <2>1. d <= Gap(v, i, s[k]) /\ d \in Nat /\ Gap(v, i, s[k]) \in Nat
        BY <1>2, <1>3, <1>4
  <2>2. ASSUME d = Gap(v, i, s[k]) PROVE j < k /\ s[j] < s[k]
    <3>1. j <= k
          BY <1>6, <2>2
    <3>2. j < k
          BY <1>7, <1>8, <3>1
    <3>. QED  BY <1>7, <3>2 DEF Frames
  <2>. QED  BY <2>1, <2>2
<1>9. j \in DOMAIN s /\ Best(j)
      BY <1>1, <1>7, <1>8, DistanceIs
<1>10. Nearest(v, s, i) \in DOMAIN s /\ Best(Nearest(v, s, i))
  <2>1. Nearest(v, s, i) = CHOOSE x \in DOMAIN s : Best(x)
        BY DEF Nearest
  <2> HIDE DEF Best
  <2>. QED  BY <1>9, <2>1
<1> DEFINE m == Nearest(v, s, i)
<1>11. ASSUME NEW k \in 1..n, k # m
       PROVE  Gap(v, i, s[m]) < Gap(v, i, s[k]) \/ (Gap(v, i, s[m]) = Gap(v, i, s[k]) /\ m <= k)
  <2>1. m \in 1..n /\ s[m] \in Nat /\ s[k] \in Nat
        BY <1>1, <1>10, <1>11
  <2>2. ASSUME s[m] < s[k] PROVE m < k
    <3>1. ~(k < m)
          BY <2>1, <2>2 DEF Frames
    <3>. QED  BY <1>11, <2>1, <3>1
  <2>3. \/ Gap(v, i, s[m]) < Gap(v, i, s[k])
        \/ Gap(v, i, s[m]) = Gap(v, i, s[k]) /\ (s[m] < s[k] \/ (s[m] = s[k] /\ m < k))
        BY <1>1, <1>10, <1>11, DistanceIs
  <2>. QED  BY <2>1, <2>2, <2>3
<1>. QED  BY <1>1, <1>10, <1>11

-----------------------------------------------------------------------------
(* The invariant *)

Milliseconds(v) == [i \in Outputs(v) |-> Requested(v, i) \div Milli]

SelectionInv ==
  /\ video \in Clips
  /\ stage \in {"probe", "select", "refused", "decode", "receipt", "published", "done"}
  /\ stage # "probe" =>
       /\ cand \in Seq(Nat) /\ \A j, k \in 1..Len(cand) : j < k => cand[j] < cand[k]
       /\ {cand[k] : k \in 1..Len(cand)} = Clip(video)
  /\ stage \notin {"probe", "refused"} => Frames(video, cand) /\ Len(cand) <= CandidateLimit(video)
  /\ stage \in {"decode", "receipt", "published", "done"} =>
       /\ chosen = [i \in Outputs(video) |-> Nearest(video, cand, i)]
       /\ Count(video) \in MinimumFrames..MaximumFrames
       /\ Ordered(chosen) /\ Increasing(Milliseconds(video))
  /\ stage \in {"receipt", "published", "done"} =>
       /\ shown = [i \in Outputs(video) |-> cand[chosen[i]]]
       /\ Increasing(calls) /\ Len(calls) = Count(video)
  /\ stage = "done" => converted = Convertible(Receipt)

LEMMA MillisecondsAre ==
  ASSUME NEW v \in Videos
  PROVE  /\ Milliseconds(v) \in [1..Count(v) -> Int] /\ Len(Milliseconds(v)) = Count(v)
         /\ \A i \in 1..Count(v) : Milliseconds(v)[i] = Requested(v, i) \div Milli
<1>1. \A i \in Outputs(v) : Requested(v, i) \div Milli \in Int
  <2>1. ASSUME NEW i \in Outputs(v) PROVE Requested(v, i) \div Milli \in Int
    <3>1. Requested(v, i) \in Int /\ Milli \in Nat \ {0}
          BY RequestedIs, UnitTypes
    <3>. QED  BY <3>1, DivMod
  <2>. QED  BY <2>1
<1>2. Milliseconds(v) \in [1..Count(v) -> Int]
      BY <1>1 DEF Milliseconds, Outputs
<1>3. Count(v) \in Nat
      BY CountIs
<1>. QED  BY <1>2, <1>3, FunctionIsSeq DEF Milliseconds, Outputs

\* What has been selected: frames in their order.
LEMMA SelectedIs ==
  ASSUME SelectionInv, stage \in {"decode", "receipt", "published", "done"}
  PROVE  LET n == Count(video) IN
         /\ n \in Nat /\ 1 <= n /\ video \in Videos
         /\ chosen \in [1..n -> 1..Len(cand)] /\ Len(chosen) = n
         /\ \A i \in 1..n : cand[chosen[i]] \in Clip(video) /\ cand[chosen[i]] \in Nat
         /\ \A i, j \in 1..n : i <= j => chosen[i] <= chosen[j] /\ cand[chosen[i]] <= cand[chosen[j]]
<1> DEFINE n == Count(video)
<1>1. video \in Videos /\ Frames(video, cand) /\ Ordered(chosen)
      /\ chosen = [i \in Outputs(video) |-> Nearest(video, cand, i)]
      BY DEF SelectionInv, Clips
<1>2. n \in Nat /\ 1 <= n
      BY <1>1, CountIs
<1>3. Outputs(video) = 1..n
      BY DEF Outputs
<1>4. Len(cand) \in Nat /\ \A k \in 1..Len(cand) : cand[k] \in Clip(video) /\ cand[k] \in Nat
      BY <1>1, LenProperties DEF Frames
<1> HIDE DEF n
<1>5. chosen \in [1..n -> 1..Len(cand)]
  <2>1. \A i \in 1..n : Nearest(video, cand, i) \in 1..Len(cand)
        BY <1>1, <1>3, NearestIs
  <2>. QED  BY <1>1, <1>3, <2>1
<1>6. Len(chosen) = n
      BY <1>2, <1>5, FunctionIsSeq
<1>7. \A i, j \in 1..n : i <= j => chosen[i] <= chosen[j]
  <2>1. chosen \in [1..n -> Int]
    <3>1. \A i \in 1..n : chosen[i] \in Int
          BY <1>4, <1>5
    <3>. QED  BY <1>5, <3>1
  <2>2. \A i \in 1..(n - 1) : chosen[i] <= chosen[i + 1]
        BY <1>1, <1>6 DEF Ordered
  <2>. QED  BY <1>2, <2>1, <2>2, OrderedPairs
<1>8. ASSUME NEW i \in 1..n, NEW j \in 1..n, i <= j PROVE cand[chosen[i]] <= cand[chosen[j]]
  <2>1. chosen[i] \in 1..Len(cand) /\ chosen[j] \in 1..Len(cand) /\ chosen[i] <= chosen[j]
        BY <1>5, <1>7, <1>8
  <2>2. CASE chosen[i] = chosen[j]
        BY <1>4, <2>1, <2>2
  <2>3. CASE chosen[i] < chosen[j]
    <3>1. cand[chosen[i]] < cand[chosen[j]] /\ cand[chosen[i]] \in Nat /\ cand[chosen[j]] \in Nat
          BY <1>1, <1>4, <2>1, <2>3 DEF Frames
    <3>. QED  BY <3>1
  <2>. QED  BY <1>4, <2>1, <2>2, <2>3
<1>. QED  BY <1>1, <1>2, <1>4, <1>5, <1>6, <1>7, <1>8 DEF n

\* The probe finds the clip.
LEMMA ProbeKeeps == ASSUME SelectionInv, Probe PROVE SelectionInv'
<1> DEFINE i == ProbeInterval(video)
           found == {p \in video.pts : Tick * i[1] <= p /\ p <= Tick * i[2]}
<1>1. /\ video \in Clips /\ video \in Videos /\ video' = video /\ stage = "probe"
      /\ cand' = Ascending({p \in found : InClip(video, Time(video, p))})
      /\ \/ stage' = "refused"
         \/ stage' = "select" /\ cand' # <<>> /\ Len(cand') <= CandidateLimit(video)
      BY DEF SelectionInv, Probe, Stay, Clips
<1>2. \A p \in Clip(video) : Tick * i[1] <= p /\ p <= Tick * i[2]
      BY <1>1, ProbeCovers
<1>3. {p \in found : InClip(video, Time(video, p))} = Clip(video)
      BY <1>2 DEF Clip
<1>4. cand' = Ascending(Clip(video)) /\ Clip(video) \in SUBSET Nat /\ IsFiniteSet(Clip(video))
  <2>1. video.pts \in SUBSET Nat /\ IsFiniteSet(video.pts) /\ Clip(video) \in SUBSET video.pts
        BY <1>1, VideoTypes DEF Clip
  <2>2. IsFiniteSet(Clip(video))
        BY <2>1, FS_Subset
  <2>. QED  BY <1>1, <1>3, <2>1, <2>2
<1> HIDE DEF i, found
<1>5. /\ cand' \in Seq(Nat) /\ \A j, k \in 1..Len(cand') : j < k => cand'[j] < cand'[k]
      /\ {cand'[k] : k \in 1..Len(cand')} = Clip(video)
      BY <1>4, AscendingIs
<1>6. cand' # <<>> => Frames(video, cand')
  <2>1. cand' # <<>> => Len(cand') >= 1
        BY <1>5, EmptySeq, LenProperties
  <2>2. \A k \in 1..Len(cand') : cand'[k] \in Clip(video)
        BY <1>5
  <2>. QED  BY <1>5, <2>1, <2>2 DEF Frames
<1>. QED  BY <1>1, <1>5, <1>6 DEF SelectionInv, Clip

LEMMA SelectKeeps == ASSUME SelectionInv, Select PROVE SelectionInv'
<1>1. /\ stage = "select" /\ UNCHANGED <<video, cand>>
      /\ chosen' = [j \in Outputs(video) |-> Nearest(video, cand, j)]
      /\ \/ stage' = "refused"
         \/ /\ stage' = "decode" /\ Count(video) \in MinimumFrames..MaximumFrames
            /\ Ordered(chosen') /\ Increasing(Milliseconds(video))
      BY DEF Select, Stay, Milliseconds
<1>. QED  BY <1>1 DEF SelectionInv

\* Frames in their order and outputs in theirs are the outputs in their order.
LEMMA DetectKeeps == ASSUME SelectionInv, Detect PROVE SelectionInv'
<1> DEFINE n == Count(video)
           before(i, j) == \/ cand[chosen[i]] < cand[chosen[j]]
                           \/ cand[chosen[i]] = cand[chosen[j]] /\ i < j
           Good(s) == \A k \in 1..(n - 1) : before(s[k], s[k + 1])
           order == CHOOSE s \in SetToSeqs(Outputs(video)) : Good(s)
           ms == Milliseconds(video)
<1>1. /\ stage = "decode" /\ stage' = "receipt" /\ UNCHANGED <<video, cand, chosen>>
      /\ shown' = [i \in Outputs(video) |-> cand[chosen[i]]]
      /\ calls' = [k \in DOMAIN order |-> Requested(video, order[k]) \div Milli]
      BY DEF Detect, Stay
<1>2. /\ n \in Nat /\ 1 <= n /\ video \in Videos
      /\ \A i \in 1..n : cand[chosen[i]] \in Nat
      /\ \A i, j \in 1..n : i <= j => cand[chosen[i]] <= cand[chosen[j]]
      BY <1>1, SelectedIs
<1>3. Outputs(video) = 1..n /\ Cardinality(1..n) = n
      BY <1>2, FS_Interval DEF Outputs
<1>4. ms \in [1..n -> Int] /\ Len(ms) = n /\ \A i \in 1..n : ms[i] = Requested(video, i) \div Milli
      BY <1>2, MillisecondsAre
<1>5. Increasing(ms)
      BY <1>1 DEF SelectionInv
<1> HIDE DEF n, ms
<1>6. \A i, j \in 1..n : before(i, j) <=> i < j
  <2>1. ASSUME NEW i \in 1..n, NEW j \in 1..n PROVE before(i, j) <=> i < j
    <3>1. i <= j => cand[chosen[i]] <= cand[chosen[j]]
          BY <1>2
    <3>2. j <= i => cand[chosen[j]] <= cand[chosen[i]]
          BY <1>2
    <3>3. cand[chosen[i]] \in Nat /\ cand[chosen[j]] \in Nat
          BY <1>2
    <3>. QED  BY <1>2, <3>1, <3>2, <3>3
  <2>. QED  BY <2>1
<1>7. \E s \in SetToSeqs(Outputs(video)) : Good(s)
  <2> DEFINE s == [k \in 1..n |-> k]
  <2>1. s \in SetToSeqs(Outputs(video))
        BY <1>3 DEF SetToSeqs
  <2>2. ASSUME NEW k \in 1..(n - 1) PROVE before(s[k], s[k + 1])
    <3>1. k \in 1..n /\ k + 1 \in 1..n /\ k < k + 1 /\ s[k] = k /\ s[k + 1] = k + 1
          BY <1>2
    <3>2. before(k, k + 1)
          BY <1>6, <3>1
    <3>. QED  BY <3>1, <3>2
  <2>. QED  BY <2>1, <2>2
<1>8. order \in SetToSeqs(Outputs(video)) /\ Good(order)
  <2> HIDE DEF Good
  <2>. QED  BY <1>7
<1> HIDE DEF order
<1>9. order \in [1..n -> 1..n] /\ DOMAIN order = 1..n
      BY <1>3, <1>8 DEF SetToSeqs
<1>10. \A k \in 1..(n - 1) : order[k] < order[k + 1]
  <2>1. ASSUME NEW k \in 1..(n - 1) PROVE order[k] < order[k + 1]
    <3>1. order[k] \in 1..n /\ order[k + 1] \in 1..n
          BY <1>2, <1>9
    <3>2. before(order[k], order[k + 1])
          BY <1>8
    <3> HIDE DEF before
    <3>. QED  BY <1>6, <3>1, <3>2
  <2>. QED  BY <2>1
<1>11. \A i, j \in 1..n : i < j => ms[i] < ms[j]
  <2>1. \A i \in 1..(n - 1) : ms[i] < ms[i + 1]
        BY <1>4, <1>5 DEF Increasing
  <2>. QED  BY <1>2, <1>4, <2>1, IncreasingPairs
<1>12. calls' \in [1..n -> Int] /\ \A k \in 1..n : calls'[k] = ms[order[k]]
  <2>1. \A k \in 1..n : order[k] \in 1..n /\ Requested(video, order[k]) \div Milli = ms[order[k]]
        BY <1>4, <1>9
  <2>2. \A k \in 1..n : ms[order[k]] \in Int
        BY <1>4, <1>9
  <2>. QED  BY <1>1, <1>9, <2>1, <2>2
<1>13. Len(calls') = n
      BY <1>2, <1>12, FunctionIsSeq
<1>14. Increasing(calls')
  <2>1. ASSUME NEW k \in 1..(n - 1) PROVE calls'[k] < calls'[k + 1]
    <3>1. k \in 1..n /\ k + 1 \in 1..n /\ order[k] \in 1..n /\ order[k + 1] \in 1..n
          BY <1>2, <1>9
    <3>. QED  BY <1>10, <1>11, <1>12, <3>1
  <2>. QED  BY <1>13, <2>1 DEF Increasing
<1>. QED  BY <1>1, <1>13, <1>14 DEF SelectionInv, n

-----------------------------------------------------------------------------
(* The receipt *)

\* What the host computes of the receipt again is what the worker did.
LEMMA HostAgrees == ASSUME SelectionInv, stage = "receipt" PROVE HostAccepts(video, Receipt)
<1> DEFINE v == video
           r == Receipt
           duration == v.to - v.from
           n == (duration * TargetRate + Second - 1) \div Second
           centre(i) == 2 * n * v.from + (2 * i - 1) * duration
           time(p) == p - v.offset
           gap(i, k) == LET d == 2 * n * time(r.pts[k]) - Tick * centre(i) IN IF d >= 0 THEN d ELSE -d
<1>1. /\ r.from = v.from /\ r.to = v.to /\ r.pts = cand /\ r.index = chosen
      /\ r.source = [i \in Outputs(v) |-> cand[chosen[i]]]
      /\ r.requested = [i \in Outputs(v) |-> Requested(v, i)]
      /\ r.time = [i \in Outputs(v) |-> ToMicroseconds(Time(v, cand[chosen[i]]), Tick)]
      /\ r.probe = ProbeInterval(v) /\ r.limit = CandidateLimit(v) /\ r.hash = shown
      BY DEF Receipt
<1>2. /\ Count(v) \in Nat /\ 1 <= Count(v) /\ v \in Videos
      /\ chosen \in [1..Count(v) -> 1..Len(cand)] /\ Len(chosen) = Count(v)
      /\ \A i \in 1..Count(v) : cand[chosen[i]] \in Clip(v) /\ cand[chosen[i]] \in Nat
      /\ \A i, j \in 1..Count(v) : i <= j => chosen[i] <= chosen[j] /\ cand[chosen[i]] <= cand[chosen[j]]
      BY SelectedIs
<1>3. /\ Frames(v, cand) /\ Len(cand) <= CandidateLimit(v)
      /\ Count(v) \in MinimumFrames..MaximumFrames
      /\ chosen = [i \in Outputs(v) |-> Nearest(v, cand, i)]
      /\ Ordered(chosen) /\ shown = [i \in Outputs(v) |-> cand[chosen[i]]]
      BY DEF SelectionInv
<1>4. duration = Duration(v) /\ Outputs(v) = 1..Count(v) /\ n = Count(v)
  <2>1. Duration(v) \in Nat /\ TargetRate \in Nat /\ Second \in Nat \ {0}
        BY <1>2, VideoTypes, UnitTypes
  <2>2. Duration(v) * TargetRate \in Int
        BY <2>1
  <2>3. (Duration(v) * TargetRate + Second - 1) \div Second = CeilDiv(Duration(v) * TargetRate, Second)
        BY <2>1, <2>2, HostCount
  <2>. QED  BY <2>3 DEF Duration, Count, Outputs
<1>5. Len(cand) \in Nat /\ DOMAIN cand = 1..Len(cand) /\ Len(cand) >= 1
      /\ \A k \in 1..Len(cand) : cand[k] \in Clip(v) /\ cand[k] \in Nat
      BY <1>3, LenProperties DEF Frames
<1>6. \A i : centre(i) = Centre(v, i)
      BY <1>4 DEF Centre
<1>7. \A p : time(p) = Time(v, p)
      BY DEF Time
<1>8. ASSUME NEW i \in 1..n, NEW k \in 1..Len(cand) PROVE gap(i, k) = Gap(v, i, cand[k])
  <2> DEFINE d == 2 * Count(v) * Time(v, cand[k]) - Tick * Centre(v, i)
  <2>1. gap(i, k) = IF d >= 0 THEN d ELSE -d
        BY <1>1, <1>4, <1>6, <1>7
  <2>2. Gap(v, i, cand[k]) = IF d < 0 THEN -d ELSE d
        BY DEF Gap
  <2>3. d \in Int
    <3>1. Count(v) \in Nat /\ Time(v, cand[k]) \in Int /\ Tick \in Nat /\ Centre(v, i) \in Int
          BY <1>2, <1>4, <1>5, FrameTime, UnitTypes, CentreIs
    <3>. QED  BY <3>1
  <2> HIDE DEF d, gap
  <2>. QED  BY <2>1, <2>2, <2>3
<1>9. r.limit = HostLimit(duration) /\ Len(r.pts) \in 1..r.limit
  <2>1. HostLimit(duration) = CandidateLimit(v)
        BY <1>2, HostLimits
  <2>2. CandidateLimit(v) \in Int
    <3>1. Duration(v) * MaximumRate \in Int /\ Second \in Nat \ {0} /\ MaximumCandidates \in Nat
          BY <1>2, VideoTypes, UnitTypes
    <3>2. CeilDiv(Duration(v) * MaximumRate, Second) \in Int
          BY <3>1, CeilIs
    <3>. QED  BY <3>1, <3>2 DEF CandidateLimit
  <2>. QED  BY <1>1, <1>3, <1>5, <2>1, <2>2
<1>10. r.probe = HostProbe(v) /\ r.probe[1] < r.probe[2]
      BY <1>1, <1>2, HostProbes, ProbeCovers
<1>11. Increasing(r.pts) /\ \A k \in DOMAIN r.pts : InClip(v, time(r.pts[k]))
  <2>1. Increasing(cand)
    <3>1. \A k \in 1..(Len(cand) - 1) : k \in 1..Len(cand) /\ k + 1 \in 1..Len(cand) /\ k < k + 1
          BY <1>5
    <3>. QED  BY <1>3, <3>1 DEF Frames, Increasing
  <2>. QED  BY <1>1, <1>5, <1>7, <2>1 DEF Clip
<1>12. n \in MinimumFrames..MaximumFrames /\ Len(r.requested) = n
  <2>1. r.requested \in [1..n -> {Requested(v, i) : i \in 1..n}]
        BY <1>1, <1>4
  <2>2. Len(r.requested) = n
        BY <1>2, <1>4, <2>1, FunctionIsSeq
  <2>. QED  BY <1>3, <1>4, <2>2
<1>13. ASSUME NEW i \in 1..n
       PROVE  /\ r.requested[i] = HostMicroseconds(centre(i), 2 * n)
              /\ r.index[i] \in DOMAIN r.pts /\ r.source[i] = r.pts[r.index[i]]
              /\ \A k \in DOMAIN r.pts :
                   \/ gap(i, r.index[i]) < gap(i, k)
                   \/ (gap(i, r.index[i]) = gap(i, k) /\ r.index[i] <= k)
              /\ r.time[i] = HostMicroseconds(time(r.source[i]), Tick)
  <2>1. r.requested[i] = HostMicroseconds(centre(i), 2 * n)
    <3>1. Centre(v, i) \in Int /\ 2 * Count(v) \in Nat \ {0}
          BY <1>2, <1>4, CentreIs
    <3>2. HostMicroseconds(Centre(v, i), 2 * Count(v)) = ToMicroseconds(Centre(v, i), 2 * Count(v))
          BY <3>1, HostRounds
    <3>. QED  BY <1>1, <1>4, <1>6, <3>2 DEF Requested
  <2>2. r.index[i] \in DOMAIN r.pts /\ r.source[i] = r.pts[r.index[i]]
        BY <1>1, <1>2, <1>4, <1>5
  <2>3. ASSUME NEW k \in DOMAIN r.pts
        PROVE  \/ gap(i, r.index[i]) < gap(i, k)
               \/ (gap(i, r.index[i]) = gap(i, k) /\ r.index[i] <= k)
    <3>1. chosen[i] = Nearest(v, cand, i) /\ i \in Outputs(v) /\ k \in 1..Len(cand)
          BY <1>1, <1>3, <1>4, <1>5
    <3>2. \/ Gap(v, i, cand[chosen[i]]) < Gap(v, i, cand[k])
          \/ Gap(v, i, cand[chosen[i]]) = Gap(v, i, cand[k]) /\ chosen[i] <= k
          BY <1>2, <1>3, <3>1, NearestIs
    <3>3. chosen[i] \in 1..Len(cand)
          BY <1>2, <1>4
    <3>4. gap(i, chosen[i]) = Gap(v, i, cand[chosen[i]]) /\ gap(i, k) = Gap(v, i, cand[k])
          BY <1>8, <3>1, <3>3
    <3> HIDE DEF gap
    <3>. QED  BY <1>1, <3>2, <3>4
  <2>4. r.time[i] = HostMicroseconds(time(r.source[i]), Tick)
    <3>1. Time(v, cand[chosen[i]]) \in Int /\ Tick \in Nat \ {0}
          BY <1>2, <1>4, FrameTime, UnitTypes
    <3>2. HostMicroseconds(Time(v, cand[chosen[i]]), Tick) = ToMicroseconds(Time(v, cand[chosen[i]]), Tick)
          BY <3>1, HostRounds
    <3>. QED  BY <1>1, <1>4, <1>7, <3>2
  <2>. QED  BY <2>1, <2>2, <2>3, <2>4
<1>14. Ordered(r.index) /\ Ordered(r.source)
  <2>1. r.source \in [1..n -> Nat] /\ \A i \in 1..n : r.source[i] = cand[chosen[i]]
        BY <1>1, <1>2, <1>4
  <2>2. Len(r.source) = n
        BY <1>2, <1>4, <2>1, FunctionIsSeq
  <2>3. \A i \in 1..(n - 1) : i \in 1..n /\ i + 1 \in 1..n /\ i <= i + 1
        BY <1>2, <1>4
  <2>. QED  BY <1>1, <1>2, <1>3, <1>4, <2>1, <2>2, <2>3 DEF Ordered
<1>15. \A i \in 2..n : r.source[i] = r.source[i - 1] => r.hash[i] = r.hash[i - 1]
      BY <1>1, <1>3
<1> HIDE DEF gap, r
<1>. QED  BY <1>1, <1>9, <1>10, <1>11, <1>12, <1>13, <1>14, <1>15 DEF HostAccepts, gap, r

LEMMA HostChecksKeeps == ASSUME SelectionInv, HostChecks PROVE SelectionInv'
<1>1. /\ stage = "receipt" /\ approved' = HostAccepts(video, Receipt)
      /\ stage' = (IF approved' THEN "published" ELSE "rejected")
      /\ UNCHANGED <<video, cand, chosen, shown, calls>>
      BY DEF HostChecks, Stay
<1>2. HostAccepts(video, Receipt)
      BY <1>1, HostAgrees
<1>3. stage' = "published"
      BY <1>1, <1>2
<1>. QED  BY <1>1, <1>3 DEF SelectionInv

LEMMA ConvertKeeps == ASSUME SelectionInv, Convert PROVE SelectionInv'
<1>1. /\ stage = "published" /\ stage' = "done" /\ converted' = Convertible(Receipt)
      /\ UNCHANGED <<video, cand, chosen, shown, calls>>
      BY DEF Convert, Stay
<1>2. converted' = Convertible(Receipt)'
      BY <1>1 DEF Receipt
<1>. QED  BY <1>1, <1>2 DEF SelectionInv

\* SelectionInv is inductive: a receipt the host would refuse is never written.
THEOREM SelectionInductive == SelectionSpec => []SelectionInv
<1>1. SelectionInit => SelectionInv
      BY DEF SelectionInit, SelectionInv, Clips
<1>2. SelectionInv /\ [SelectionNext]_selectionVars => SelectionInv'
  <2> SUFFICES ASSUME SelectionInv, [SelectionNext]_selectionVars PROVE SelectionInv'
      OBVIOUS
  <2>1. CASE Probe
        BY <2>1, ProbeKeeps
  <2>2. CASE Select
        BY <2>2, SelectKeeps
  <2>3. CASE Detect
        BY <2>3, DetectKeeps
  <2>4. CASE HostChecks
        BY <2>4, HostChecksKeeps
  <2>5. CASE Convert
        BY <2>5, ConvertKeeps
  <2>6. CASE UNCHANGED selectionVars
    <3>1. UNCHANGED <<video, stage, cand, chosen, shown, calls, converted>>
          BY <2>6 DEF selectionVars
    <3>2. Convertible(Receipt)' = Convertible(Receipt)
          BY <3>1 DEF Receipt
    <3>. QED  BY <3>1, <3>2 DEF SelectionInv
  <2>. QED  BY <2>1, <2>2, <2>3, <2>4, <2>5, <2>6 DEF SelectionNext
<1>. QED  BY <1>1, <1>2, PTL DEF SelectionSpec

\* DetectorOrdered, for every clip: no frame of it is missed, the detector's
\* timestamps grow from call to call, and each output is of the nearest frame
\* of the whole clip.
THEOREM DetectorOrderedHolds == SelectionSpec => []DetectorOrdered
<1>1. ASSUME SelectionInv PROVE DetectorOrdered
  <2>1. NoFrameMissed
    <3>1. ASSUME stage # "probe"
          PROVE  {cand[i] : i \in DOMAIN cand} = {p \in video.pts : InClip(video, Time(video, p))}
      <4>1. cand \in Seq(Nat) /\ {cand[k] : k \in 1..Len(cand)} = Clip(video)
            BY <1>1, <3>1 DEF SelectionInv
      <4>2. DOMAIN cand = 1..Len(cand)
            BY <4>1, LenProperties
      <4>. QED  BY <4>1, <4>2 DEF Clip
    <3>. QED  BY <3>1 DEF NoFrameMissed
  <2>2. ASSUME stage \in {"receipt", "published", "done"},
               NEW i \in Outputs(video), NEW p \in video.pts, InClip(video, Time(video, p))
        PROVE  Distance(video, shown, i, i) <= Distance(video, [shown EXCEPT ![i] = p], i, i)
    <3>1. /\ cand \in Seq(Nat) /\ {cand[k] : k \in 1..Len(cand)} = Clip(video) /\ Frames(video, cand)
          /\ chosen = [j \in Outputs(video) |-> Nearest(video, cand, j)]
          /\ shown = [j \in Outputs(video) |-> cand[chosen[j]]] /\ video \in Videos
          BY <1>1, <2>2 DEF SelectionInv, Clips
    <3>2. PICK k \in 1..Len(cand) : cand[k] = p
      <4>1. p \in Clip(video)
            BY <2>2 DEF Clip
      <4>. QED  BY <3>1, <4>1
    <3>3. shown[i] = cand[Nearest(video, cand, i)] /\ [shown EXCEPT ![i] = p][i] = p
          BY <3>1
    <3>4. Gap(video, i, cand[Nearest(video, cand, i)]) <= Gap(video, i, cand[k])
      <4>1. Nearest(video, cand, i) \in 1..Len(cand)
            BY <3>1, NearestIs
      <4>2. \/ Gap(video, i, cand[Nearest(video, cand, i)]) < Gap(video, i, cand[k])
            \/ Gap(video, i, cand[Nearest(video, cand, i)]) = Gap(video, i, cand[k])
            BY <3>1, NearestIs
      <4>3. cand[Nearest(video, cand, i)] \in Clip(video) /\ cand[k] \in Clip(video)
            BY <3>1, <4>1
      <4>4. Gap(video, i, cand[Nearest(video, cand, i)]) \in Nat /\ Gap(video, i, cand[k]) \in Nat
            BY <3>1, <4>3, GapIs
      <4>. QED  BY <4>2, <4>4
    <3>. QED  BY <3>2, <3>3, <3>4, DistanceIs
  <2>3. stage \in {"receipt", "published", "done"} =>
          /\ Increasing(calls) /\ Len(calls) = Count(video)
          /\ shown = [i \in Outputs(video) |-> cand[chosen[i]]]
        BY <1>1 DEF SelectionInv
  <2>. QED  BY <2>1, <2>2, <2>3 DEF DetectorOrdered
<1>. QED  BY <1>1, SelectionInductive, PTL

\* Numbers whose quotients increase, increase.
LEMMA QuotientOrder ==
  ASSUME NEW a \in Int, NEW c \in Int, NEW b \in Nat \ {0}, a \div b < c \div b
  PROVE  a < c
<1> DEFINE p == a \div b
           q == c \div b
<1>1. /\ p \in Int /\ a % b \in 0..(b - 1) /\ a = b * p + (a % b)
      /\ q \in Int /\ c % b \in 0..(b - 1) /\ c = b * q + (c % b)
      BY DivMod
<1>2. PICK r \in 0..(b - 1), s \in 0..(b - 1) : a = b * p + r /\ c = b * q + s
      BY <1>1
<1>3. p < q
      OBVIOUS
<1> HIDE DEF p, q
<1>4. b * (p + 1) <= b * q
      BY <1>1, <1>3, Times
<1>5. b * (p + 1) = b * p + b /\ b * p \in Int /\ b * q \in Int
      BY <1>1
<1>. QED  BY <1>2, <1>4, <1>5

\* What the worker writes the conversion takes, unless the last frame's time
\* rounds to the end of the clip.
LEMMA ConversionAgrees ==
  ASSUME SelectionInv, stage \in {"published", "done"}
  PROVE  Convertible(Receipt) <=> Receipt.time[Count(video)] < video.to
<1> DEFINE v == video
           n == Count(v)
           r == Receipt
<1>1. /\ r.from = v.from /\ r.to = v.to /\ r.index = chosen
      /\ r.source = [i \in Outputs(v) |-> cand[chosen[i]]]
      /\ r.requested = [i \in Outputs(v) |-> Requested(v, i)]
      /\ r.time = [i \in Outputs(v) |-> ToMicroseconds(Time(v, cand[chosen[i]]), Tick)]
      BY DEF Receipt
<1>2. /\ n \in Nat /\ 1 <= n /\ v \in Videos /\ Outputs(v) = 1..n
      /\ \A i \in 1..n : cand[chosen[i]] \in Clip(v) /\ cand[chosen[i]] \in Nat
      /\ \A i, j \in 1..n : i <= j => cand[chosen[i]] <= cand[chosen[j]]
      BY SelectedIs DEF Outputs
<1>3. Ordered(chosen) /\ Increasing(Milliseconds(v)) /\ v \in Clips
      BY DEF SelectionInv
<1>4. \A i \in 1..n : Requested(v, i) \in Int /\ v.from <= Requested(v, i) /\ Requested(v, i) < v.to
      BY <1>2, RequestedIs
<1>5. \A i \in 1..n : /\ Time(v, cand[chosen[i]]) \in Int
                      /\ ToMicroseconds(Time(v, cand[chosen[i]]), Tick) \in Int
                      /\ v.from <= ToMicroseconds(Time(v, cand[chosen[i]]), Tick)
      BY <1>2, FrameTime
<1>6. Milli \in Nat \ {0} /\ Tick \in Nat \ {0}
      BY UnitTypes
<1> HIDE DEF n, r
<1>7. Len(r.requested) = n /\ Len(r.source) = n /\ Len(r.time) = n
  <2>1. r.requested \in [1..n -> Int] /\ r.source \in [1..n -> Nat] /\ r.time \in [1..n -> Int]
        BY <1>1, <1>2, <1>4, <1>5
  <2>. QED  BY <1>2, <2>1, FunctionIsSeq
<1>8. \A i \in 1..(n - 1) : i \in 1..n /\ i + 1 \in 1..n /\ i <= i + 1
      BY <1>2
<1>9. Increasing(r.requested)
  <2>1. ASSUME NEW i \in 1..(n - 1) PROVE r.requested[i] < r.requested[i + 1]
    <3>1. /\ Len(Milliseconds(v)) = n /\ Milliseconds(v)[i] = Requested(v, i) \div Milli
          /\ Milliseconds(v)[i + 1] = Requested(v, i + 1) \div Milli
          BY <1>2, <1>8, MillisecondsAre DEF n
    <3>2. Requested(v, i) \div Milli < Requested(v, i + 1) \div Milli
          BY <1>3, <3>1 DEF Increasing
    <3>3. Requested(v, i) < Requested(v, i + 1)
          BY <1>4, <1>6, <1>8, <3>2, QuotientOrder
    <3>. QED  BY <1>1, <1>2, <1>8, <3>3
  <2>. QED  BY <1>7, <2>1 DEF Increasing
<1>10. Ordered(r.time)
  <2>1. ASSUME NEW i \in 1..(n - 1) PROVE r.time[i] <= r.time[i + 1]
    <3>1. cand[chosen[i]] <= cand[chosen[i + 1]] /\ cand[chosen[i]] \in Nat /\ cand[chosen[i + 1]] \in Nat
          BY <1>2, <1>8
    <3>2. Time(v, cand[chosen[i]]) <= Time(v, cand[chosen[i + 1]])
      <4>1. v.offset \in Nat
            BY <1>2, VideoTypes
      <4>. QED  BY <3>1, <4>1 DEF Time
    <3>3. Time(v, cand[chosen[i]]) \in Int /\ Time(v, cand[chosen[i + 1]]) \in Int
          BY <1>5, <1>8
    <3>4. ToMicroseconds(Time(v, cand[chosen[i]]), Tick) <= ToMicroseconds(Time(v, cand[chosen[i + 1]]), Tick)
          BY <1>6, <3>2, <3>3, RoundedMonotone
    <3>. QED  BY <1>1, <1>2, <1>8, <3>4
  <2>. QED  BY <1>7, <2>1 DEF Ordered
<1>11. Ordered(r.source) /\ Ordered(r.index)
      BY <1>1, <1>2, <1>3, <1>7, <1>8 DEF Ordered
<1>12. (r.to - r.from) \in MinimumClip..MaximumClip
      BY <1>1, <1>3 DEF Clips, Duration
<1>13. r.from <= r.requested[1] /\ r.requested[n] < r.to /\ r.from <= r.time[1]
  <2>1. 1 \in 1..n /\ n \in 1..n
        BY <1>2
  <2>. QED  BY <1>1, <1>2, <1>4, <1>5, <2>1
<1>. QED  BY <1>1, <1>7, <1>9, <1>10, <1>11, <1>12, <1>13 DEF Convertible, n, r

\* ReceiptAgrees, for every clip: the worker, the host and the conversion
\* agree on what it writes, but for a last frame at the very end.
THEOREM ReceiptAgreesHolds == SelectionSpec => []ReceiptAgrees
<1>1. ASSUME SelectionInv PROVE ReceiptAgrees
  <2>1. stage # "rejected"
        BY <1>1 DEF SelectionInv
  <2>2. ASSUME stage = "done" PROVE converted <=> Receipt.time[Count(video)] < video.to
    <3>1. converted = Convertible(Receipt)
          BY <1>1, <2>2 DEF SelectionInv
    <3>2. Convertible(Receipt) <=> Receipt.time[Count(video)] < video.to
          BY <1>1, <2>2, ConversionAgrees
    <3>. QED  BY <3>1, <3>2
  <2>. QED  BY <2>1, <2>2 DEF ReceiptAgrees
<1>. QED  BY <1>1, SelectionInductive, PTL
-----------------------------------------------------------------------------
(* The mapping *)

USE Thresholds

-----------------------------------------------------------------------------
(* Which hand is which *)

Raws == [usable : SUBSET Slots, wrists : BOOLEAN, dist : [Slots -> [Sides -> Distances]]]

\* What AssignmentBest says of a frame's hands, and that slots and sides agree.
Best(r, sl, st) ==
  \/ /\ \E f \in Pairings(r) : Clear(r, f) /\ \A d \in Sides, s \in Slots :
           sl[d] = s <=> s \in r.usable /\ f[s] = d
     /\ \A d \in Sides : sl[d] # 0 => st[sl[d]] = d
  \/ /\ \A f \in Pairings(r) : ~Clear(r, f)
     /\ \A d \in Sides : sl[d] = 0
     /\ \A s \in Slots : st[s] \notin Sides

Agree(sl, st) ==
  /\ sl \in [Sides -> Slots \cup {0}]
  /\ \A d \in Sides, s \in Slots : sl[d] = s <=> st[s] = d

\* The assignments of two hands to two sides, and of one hand to one.
Direct == [s \in Slots |-> IF s = 1 THEN "left" ELSE "right"]
Swapped == [s \in Slots |-> IF s = 1 THEN "right" ELSE "left"]

LEMMA TwoChoices ==
  ASSUME NEW r, r.usable = Slots
  PROVE  Pairings(r) = {Direct, Swapped}
<1>1. Direct \in Pairings(r) /\ Swapped \in Pairings(r)
      BY DEF Pairings, Direct, Swapped, Slots, Sides
<1>2. ASSUME NEW f \in Pairings(r) PROVE f = Direct \/ f = Swapped
  <2>1. f \in [Slots -> Sides] /\ f[1] # f[2]
        BY <1>2 DEF Pairings, Slots
  <2>. QED  BY <2>1 DEF Direct, Swapped, Slots, Sides
<1>. QED  BY <1>1, <1>2

LEMMA OneChoice ==
  ASSUME NEW r, NEW s \in Slots, r.usable = {s}
  PROVE  Pairings(r) = {[t \in {s} |-> "left"], [t \in {s} |-> "right"]}
<1>1. \A d \in Sides : [t \in {s} |-> d] \in Pairings(r)
      BY DEF Pairings
<1>2. ASSUME NEW f \in Pairings(r) PROVE f = [t \in {s} |-> "left"] \/ f = [t \in {s} |-> "right"]
  <2>1. f \in [{s} -> Sides]
        BY DEF Pairings
  <2>. QED  BY <2>1 DEF Sides
<1>. QED  BY <1>1, <1>2 DEF Sides

\* Nobody is assigned: all states are the same word, which is no side.
LEMMA SameIsBest ==
  ASSUME NEW r, NEW w, w \notin Sides, "missing" \notin Sides, \A f \in Pairings(r) : ~Clear(r, f)
  PROVE  Best(r, Same(r, w).slot, Same(r, w).states) /\ Agree(Same(r, w).slot, Same(r, w).states)
BY DEF Best, Agree, Same, Sides, Slots

\* The sides and the slots of an injective assignment agree.
LEMMA AssignedAgree ==
  ASSUME NEW r, NEW sl \in [Sides -> Slots \cup {0}],
         sl["left"] = sl["right"] => sl["left"] = 0
  PROVE  /\ Assigned(r, sl).slot = sl
         /\ Agree(sl, Assigned(r, sl).states)
<1> DEFINE st == Assigned(r, sl).states
<1>1. Assigned(r, sl).slot = sl /\ st = [s \in Slots |-> IF \E d \in Sides : sl[d] = s
                                  THEN CHOOSE d \in Sides : sl[d] = s ELSE "missing"]
      BY DEF Assigned
<1>2. ASSUME NEW d \in Sides, NEW s \in Slots PROVE sl[d] = s <=> st[s] = d
  <2>1. CASE sl[d] = s
    <3>1. \A e \in Sides : sl[e] = s => e = d
          BY <2>1 DEF Sides, Slots
    <3>2. st[s] = d
          BY <1>1, <2>1, <3>1
    <3>. QED  BY <2>1, <3>2
  <2>2. CASE sl[d] # s /\ \E e \in Sides : sl[e] = s
    <3>1. PICK e \in Sides : sl[e] = s  BY <2>2
    <3>2. st[s] \in Sides /\ sl[st[s]] = s
          BY <1>1, <3>1
    <3>. QED  BY <2>2, <3>2
  <2>3. CASE ~\E e \in Sides : sl[e] = s
        BY <1>1, <2>3 DEF Sides
  <2>. QED  BY <2>1, <2>2, <2>3
<1>. QED  BY <1>1, <1>2 DEF Agree

LEMMA DistancesAreNaturals ==
  ASSUME NEW r \in Raws, NEW s \in Slots, NEW d \in Sides PROVE r.dist[s][d] \in Nat
<1>1. r.dist \in [Slots -> [Sides -> Distances]]
      BY DEF Raws
<1>2. r.dist[s] \in [Sides -> Distances]
      BY <1>1
<1>. QED  BY <1>2

\* One usable hand: the two choices are its two sides.
LEMMA OneHandBest ==
  ASSUME NEW r \in Raws, NEW s \in Slots, r.usable = {s}, r.wrists
  PROVE  LET a == HandAssignment(r) IN Best(r, a.slot, a.states) /\ Agree(a.slot, a.states)
<1> DEFINE dl == r.dist[s]["left"]
           dr == r.dist[s]["right"]
           side == IF dl < dr THEN "left" ELSE "right"
           toLeft == [t \in {s} |-> "left"]
           toRight == [t \in {s} |-> "right"]
           sl == [d \in Sides |-> IF d = side THEN s ELSE 0]
           a == HandAssignment(r)
<1>1. dl \in Nat /\ dr \in Nat /\ side \in Sides
      BY DistancesAreNaturals DEF Sides
<1>2. (CHOOSE t \in r.usable : TRUE) = s /\ Cardinality(r.usable) = 1
      BY FS_Singleton
<1>3. a = IF Far(dl, dr) <= Ambiguity THEN Same(r, "ambiguous")
          ELSE IF r.dist[s][side] > Maximum THEN Same(r, "rejected-distance")
          ELSE Assigned(r, sl)
      BY <1>2 DEF HandAssignment
<1>4. Pairings(r) = {toLeft, toRight} /\ toLeft # toRight
      BY OneChoice
<1>5. Cost(r, toLeft) = dl /\ Cost(r, toRight) = dr
      BY <1>1 DEF Cost, Slots
<1>6. /\ Clear(r, toLeft) <=> dl + Ambiguity < dr /\ dl <= Maximum
      /\ Clear(r, toRight) <=> dr + Ambiguity < dl /\ dr <= Maximum
      BY <1>4, <1>5 DEF Clear
<1> HIDE DEF dl, dr, a
<1>7. Far(dl, dr) <= Ambiguity <=> ~(dl + Ambiguity < dr) /\ ~(dr + Ambiguity < dl)
      BY <1>1 DEF Far
<1>8. r.dist[s][side] = IF side = "left" THEN dl ELSE dr
      BY DEF dl, dr
<1>9. CASE Far(dl, dr) <= Ambiguity \/ r.dist[s][side] > Maximum
  <2>1. \A f \in Pairings(r) : ~Clear(r, f)
        BY <1>1, <1>4, <1>6, <1>7, <1>8, <1>9
  <2>2. PICK w \in {"ambiguous", "rejected-distance"} : a = Same(r, w)
        BY <1>3, <1>9
  <2>. QED  BY <2>1, <2>2, SameIsBest DEF Sides, a
<1>10. CASE ~(Far(dl, dr) <= Ambiguity) /\ ~(r.dist[s][side] > Maximum)
  <2>1. a = Assigned(r, sl)
        BY <1>3, <1>10
  <2>2. sl \in [Sides -> Slots \cup {0}] /\ (sl["left"] = sl["right"] => sl["left"] = 0)
        BY <1>1 DEF Sides, Slots
  <2>3. a.slot = sl /\ Agree(sl, a.states)
        BY <2>1, <2>2, AssignedAgree
  <2> DEFINE f == [t \in {s} |-> side]
  <2>4. f \in Pairings(r) /\ Clear(r, f)
        BY <1>1, <1>4, <1>6, <1>7, <1>8, <1>10
  <2>5. \A d \in Sides, t \in Slots : sl[d] = t <=> t \in r.usable /\ f[t] = d
        BY <1>1 DEF Slots
  <2>6. \A d \in Sides : sl[d] # 0 => a.states[sl[d]] = d
        BY <2>2, <2>3 DEF Agree
  <2>. QED  BY <2>3, <2>4, <2>5, <2>6 DEF Best, a
<1>. QED  BY <1>9, <1>10

\* Two usable hands: the two choices are the direct and the swapped one.
LEMMA TwoHandsBest ==
  ASSUME NEW r \in Raws, r.usable = Slots, r.wrists
  PROVE  LET a == HandAssignment(r) IN Best(r, a.slot, a.states) /\ Agree(a.slot, a.states)
<1> DEFINE direct  == r.dist[1]["left"] + r.dist[2]["right"]
           swapped == r.dist[1]["right"] + r.dist[2]["left"]
           both == IF direct < swapped THEN [d \in Sides |-> IF d = "left" THEN 1 ELSE 2]
                                       ELSE [d \in Sides |-> IF d = "left" THEN 2 ELSE 1]
           a == HandAssignment(r)
<1>1. \A s \in Slots, d \in Sides : r.dist[s][d] \in Nat
      BY DistancesAreNaturals
<1>2. direct \in Nat /\ swapped \in Nat
      BY <1>1 DEF Slots, Sides
<1>3. Cardinality(r.usable) # 1 /\ r.usable # {}
  <2>1. Slots # {} /\ ~\E x : Slots = {x}
        BY DEF Slots
  <2>2. IsFiniteSet(Slots)
    <3>1. IsFiniteSet({1} \cup {2})
          BY FS_Singleton, FS_AddElement
    <3>2. Slots = {1} \cup {2}
          BY DEF Slots
    <3>. QED  BY <3>1, <3>2
  <2>. QED  BY <2>1, <2>2, FS_Singleton
<1>4. a = IF Far(direct, swapped) <= Ambiguity THEN Same(r, "ambiguous")
          ELSE IF \E d \in Sides : r.dist[both[d]][d] > Maximum THEN Same(r, "rejected-distance")
          ELSE Assigned(r, both)
      BY <1>3 DEF HandAssignment
<1>5. Pairings(r) = {Direct, Swapped} /\ Direct # Swapped
      BY TwoChoices DEF Direct, Swapped, Slots
<1>6. Cost(r, Direct) = direct /\ Cost(r, Swapped) = swapped
      BY DEF Cost, Direct, Swapped, Slots
<1>7. /\ Clear(r, Direct) <=> /\ direct + Ambiguity < swapped
                             /\ r.dist[1]["left"] <= Maximum /\ r.dist[2]["right"] <= Maximum
      /\ Clear(r, Swapped) <=> /\ swapped + Ambiguity < direct
                              /\ r.dist[1]["right"] <= Maximum /\ r.dist[2]["left"] <= Maximum
  <2>1. Direct[1] = "left" /\ Direct[2] = "right" /\ Swapped[1] = "right" /\ Swapped[2] = "left"
        BY DEF Direct, Swapped, Slots
  <2>. QED  BY <1>3, <1>5, <1>6, <2>1 DEF Clear, Slots
<1> HIDE DEF direct, swapped, a
<1>8. Far(direct, swapped) <= Ambiguity
        <=> ~(direct + Ambiguity < swapped) /\ ~(swapped + Ambiguity < direct)
      BY <1>2 DEF Far
<1>9. (\E d \in Sides : r.dist[both[d]][d] > Maximum)
        <=> IF direct < swapped THEN r.dist[1]["left"] > Maximum \/ r.dist[2]["right"] > Maximum
            ELSE r.dist[2]["left"] > Maximum \/ r.dist[1]["right"] > Maximum
      BY DEF Sides
<1>10. CASE Far(direct, swapped) <= Ambiguity \/ \E d \in Sides : r.dist[both[d]][d] > Maximum
  <2>1. \A f \in Pairings(r) : ~Clear(r, f)
        BY <1>1, <1>2, <1>5, <1>7, <1>8, <1>9, <1>10 DEF Slots, Sides
  <2>2. PICK w \in {"ambiguous", "rejected-distance"} : a = Same(r, w)
        BY <1>4, <1>10
  <2>. QED  BY <2>1, <2>2, SameIsBest DEF Sides, a
<1>11. CASE ~(Far(direct, swapped) <= Ambiguity) /\ ~\E d \in Sides : r.dist[both[d]][d] > Maximum
  <2>1. a = Assigned(r, both)
        BY <1>4, <1>11
  <2>2. both \in [Sides -> Slots \cup {0}] /\ (both["left"] = both["right"] => both["left"] = 0)
        BY DEF Sides, Slots
  <2>3. a.slot = both /\ Agree(both, a.states)
        BY <2>1, <2>2, AssignedAgree
  <2> DEFINE f == IF direct < swapped THEN Direct ELSE Swapped
  <2>4. f \in Pairings(r) /\ Clear(r, f)
        BY <1>1, <1>2, <1>5, <1>7, <1>8, <1>9, <1>11 DEF Slots, Sides
  <2>5. \A d \in Sides, t \in Slots : both[d] = t <=> t \in r.usable /\ f[t] = d
        BY DEF Slots, Sides, Direct, Swapped
  <2>6. \A d \in Sides : both[d] # 0 => a.states[both[d]] = d
        BY <2>2, <2>3 DEF Agree
  <2>. QED  BY <2>3, <2>4, <2>5, <2>6 DEF Best, a
<1>. QED  BY <1>10, <1>11

LEMMA AssignmentIsBest ==
  ASSUME NEW r \in Raws
  PROVE  LET a == HandAssignment(r) IN Best(r, a.slot, a.states) /\ Agree(a.slot, a.states)
<1>1. CASE r.usable = {} \/ ~r.wrists
  <2>1. \A f \in Pairings(r) : ~Clear(r, f)
        BY <1>1 DEF Clear
  <2>2. PICK w \in {"missing", "unassignable-pose-wrists"} : HandAssignment(r) = Same(r, w)
        BY <1>1 DEF HandAssignment
  <2>. QED  BY <2>1, <2>2, SameIsBest DEF Sides
<1>2. CASE r.wrists /\ r.usable # {}
  <2>1. r.usable = Slots \/ \E s \in Slots : r.usable = {s}
        BY <1>2 DEF Raws, Slots
  <2>. QED  BY <1>2, <2>1, OneHandBest, TwoHandsBest
<1>. QED  BY <1>1, <1>2

-----------------------------------------------------------------------------
(* What is said of the frames: of the finished ones and, as if it were the   *)
(* next one, of the current frame                                            *)

ReasonsOf(fs, rs, k) == IF k = Len(fs) + 1 THEN rs ELSE fs[k].reasons
Sayings(fs, rs, who, why) ==
  {e \in (1..Len(fs) + 1) \X who \X why : <<e[2], e[3]>> \in ReasonsOf(fs, rs, e[1])}

Who == Tracks \cup {"torso", "hands"}
Why == {Obstacles[i] : i \in DOMAIN Obstacles} \cup Rejections \cup FaceRejections
       \cup {"missing-fit-anchors", "ambiguous", "missing-or-degenerate-shoulders"}
StateNames == Sides \cup {"missing", "unassignable-pose-wrists", "ambiguous", "rejected-distance",
                         "unmapped-torso"}
Records == [valid : BOOLEAN, states : [Slots -> StateNames], reasons : SUBSET (Who \X Why),
            present : [Tracks -> {0, 1, 2}]]

\* A reason that is new and of the kind is one saying more.
LEMMA SayingAdded ==
  ASSUME NEW fs \in Seq(Records), NEW rs, NEW who, NEW why, NEW p \in who, NEW q \in why,
         <<p, q>> \notin rs, IsFiniteSet(Sayings(fs, rs, who, why))
  PROVE  /\ IsFiniteSet(Sayings(fs, rs \cup {<<p, q>>}, who, why))
         /\ Cardinality(Sayings(fs, rs \cup {<<p, q>>}, who, why))
              = Cardinality(Sayings(fs, rs, who, why)) + 1
<1> DEFINE old == Sayings(fs, rs, who, why)
           new == Sayings(fs, rs \cup {<<p, q>>}, who, why)
           n == Len(fs) + 1
<1>1. Len(fs) \in Nat /\ n \in 1..n
      OBVIOUS
<1>2. new = old \cup {<<n, p, q>>}
  <2>1. ASSUME NEW e \in new PROVE e \in old \cup {<<n, p, q>>}
        BY <1>1, <2>1 DEF Sayings, ReasonsOf
  <2>2. ASSUME NEW e \in old PROVE e \in new
        BY <1>1, <2>2 DEF Sayings, ReasonsOf
  <2>3. <<n, p, q>> \in new
        BY <1>1 DEF Sayings, ReasonsOf
  <2>. QED  BY <2>1, <2>2, <2>3
<1>3. <<n, p, q>> \notin old
      BY <1>1 DEF Sayings, ReasonsOf
<1> HIDE DEF old, new
<1>. QED  BY <1>2, <1>3, FS_AddElement DEF old, new

\* Closing a frame says nothing new.
LEMMA SayingsClosed ==
  ASSUME NEW fs \in Seq(Records), NEW f \in Records, NEW who, NEW why
  PROVE  Sayings(Append(fs, f), {}, who, why) = Sayings(fs, f.reasons, who, why)
<1> DEFINE gs == Append(fs, f)
<1>1. /\ Len(fs) \in Nat /\ Len(gs) = Len(fs) + 1 /\ gs[Len(fs) + 1] = f
      /\ \A k \in 1..Len(fs) : gs[k] = fs[k]
      OBVIOUS
<1> HIDE DEF gs
<1>2. ASSUME NEW k \in 1..Len(fs) + 1
      PROVE  k \in 1..Len(gs) + 1 /\ ReasonsOf(gs, {}, k) = ReasonsOf(fs, f.reasons, k)
      BY <1>1 DEF ReasonsOf
<1>3. \A k \in 1..Len(gs) + 1 : k \in 1..Len(fs) + 1 \/ ReasonsOf(gs, {}, k) = {}
      BY <1>1 DEF ReasonsOf
<1>. QED  BY <1>2, <1>3 DEF Sayings, gs

\* While a frame has no reason yet, all sayings are of the finished ones.
LEMMA SayingsTold ==
  ASSUME frames \in Seq(Records), NEW who, NEW why
  PROVE  Cardinality(Sayings(frames, {}, who, why)) = Told(who, why)
<1> DEFINE told == {e \in (1..Len(frames)) \X who \X why : <<e[2], e[3]>> \in frames[e[1]].reasons}
<1>1. Len(frames) \in Nat
      OBVIOUS
<1>2. Sayings(frames, {}, who, why) = told
      BY <1>1 DEF Sayings, ReasonsOf
<1>. QED  BY <1>2 DEF Told

\* The states that an assignment gives are words of the diagnostic.
LEMMA AssignedStates ==
  ASSUME NEW r \in Raws PROVE HandAssignment(r).states \in [Slots -> StateNames]
<1>1. \A w \in StateNames : Same(r, w).states \in [Slots -> StateNames]
      BY DEF Same, StateNames
<1>2. ASSUME NEW sl PROVE Assigned(r, sl).states \in [Slots -> StateNames]
  <2>1. \A s \in Slots : (\E d \in Sides : sl[d] = s) => (CHOOSE d \in Sides : sl[d] = s) \in Sides
        OBVIOUS
  <2>. QED  BY <2>1 DEF Assigned, StateNames
<1>3. (\E w \in StateNames : HandAssignment(r) = Same(r, w)) \/ \E sl : HandAssignment(r) = Assigned(r, sl)
      BY DEF HandAssignment, StateNames
<1>. QED  BY <1>1, <1>2, <1>3

-----------------------------------------------------------------------------
(* The invariant *)

MappingTypes ==
  /\ step \in {"torso", "left", "right", "face", "done"}
  /\ states \in [Slots -> StateNames] /\ reasons \in SUBSET (Who \X Why)
  /\ present \in [Tracks -> {0, 1, 2}] /\ frames \in Seq(Records)

\* The sides whose hands are still to be fitted, and those that are done.
Ahead == CASE step = "left" -> Sides [] step = "right" -> {"right"} [] OTHER -> {}
Behind == CASE step = "right" -> {"left"} [] step = "face" -> Sides [] OTHER -> {}
Silent(who) == \A w \in reasons : w[1] # who

\* The current frame: its hands are the best, and a hand that was fitted has
\* its slot's coordinates or a reason.
CurrentFrame ==
  /\ step \in {"torso", "done"} => reasons = {} /\ present = Blank
  /\ step \in Sides \cup {"face"} =>
       Best(raw, slot, states) /\ Agree(slot, states) /\ Silent("face")
  /\ \A d \in Ahead : present[d] = 0 /\ Silent(d)
  /\ \A d \in Behind : /\ present[d] # 0 <=> slot[d] # 0 /\ Silent(d)
                      /\ present[d] \in {0, slot[d]}

Explained(f) ==
  \A d \in Sides :
    LET of == {s \in Slots : f.states[s] = d}
    IN  /\ Cardinality(of) <= 1
        /\ f.present[d] # 0 <=> of # {} /\ \A w \in f.reasons : w[1] # d
        /\ f.present[d] \in of \cup {0}

\* A counter counts what is said of its kind.
Counts(n, who, why) ==
  IsFiniteSet(Sayings(frames, reasons, who, why)) /\ n = Cardinality(Sayings(frames, reasons, who, why))
Counters ==
  /\ Counts(handsRejected, Sides, Rejections)
  /\ Counts(facesRejected, {"face"}, FaceRejections)
  /\ Counts(ambiguous, {"hands"}, {"ambiguous"})
  /\ Counts(invalid, {"torso"}, {"missing-or-degenerate-shoulders"})

MappingInv ==
  /\ MappingTypes /\ CurrentFrame /\ Counters
  /\ \A k \in 1..Len(frames) : Explained(frames[k])

\* A step says something of the current frame, or closes it with that or
\* without; the counter of a kind after it.
Says(p, q) ==
  \/ frames' = frames /\ reasons' = reasons \cup {<<p, q>>}
  \/ reasons' = {} /\ \E f \in Records : frames' = Append(frames, f) /\ f.reasons = reasons \cup {<<p, q>>}
SaysNothing ==
  \/ frames' = frames /\ reasons' = reasons
  \/ reasons' = {} /\ \E f \in Records : frames' = Append(frames, f) /\ f.reasons = reasons
CountsNext(n, who, why) ==
  /\ IsFiniteSet(Sayings(frames', reasons', who, why))
  /\ n = Cardinality(Sayings(frames', reasons', who, why))

\* What is said moves the counter of its kind, and leaves the others alone.
LEMMA CountsMove ==
  ASSUME MappingTypes, NEW n, NEW who, NEW why, Counts(n, who, why), NEW p, NEW q, Says(p, q)
  PROVE  /\ ~(p \in who /\ q \in why) => CountsNext(n, who, why)
         /\ p \in who /\ q \in why /\ <<p, q>> \notin reasons => CountsNext(n + 1, who, why)
<1>1. Sayings(frames', reasons', who, why) = Sayings(frames, reasons \cup {<<p, q>>}, who, why)
  <2>1. CASE frames' = frames /\ reasons' = reasons \cup {<<p, q>>}
        BY <2>1
  <2>2. ASSUME reasons' = {}, NEW f \in Records, frames' = Append(frames, f),
               f.reasons = reasons \cup {<<p, q>>}
        PROVE  Sayings(frames', reasons', who, why) = Sayings(frames, reasons \cup {<<p, q>>}, who, why)
    <3>1. Sayings(Append(frames, f), {}, who, why) = Sayings(frames, f.reasons, who, why)
          BY SayingsClosed DEF MappingTypes
    <3>. QED  BY <2>2, <3>1
  <2>. QED  BY <2>1, <2>2 DEF Says
<1>2. IsFiniteSet(Sayings(frames, reasons, who, why)) /\ frames \in Seq(Records)
      BY DEF Counts, MappingTypes
<1>3. CASE ~(p \in who /\ q \in why)
  <2>1. Sayings(frames, reasons \cup {<<p, q>>}, who, why) = Sayings(frames, reasons, who, why)
        BY <1>2, <1>3 DEF Sayings, ReasonsOf
  <2>. QED  BY <1>1, <1>3, <2>1 DEF Counts, CountsNext
<1>4. CASE p \in who /\ q \in why /\ <<p, q>> \notin reasons
  <2>1. /\ IsFiniteSet(Sayings(frames, reasons \cup {<<p, q>>}, who, why))
        /\ Cardinality(Sayings(frames, reasons \cup {<<p, q>>}, who, why))
             = Cardinality(Sayings(frames, reasons, who, why)) + 1
        BY <1>2, <1>4, SayingAdded
  <2>. QED  BY <1>1, <1>4, <2>1 DEF Counts, CountsNext
<1>. QED  BY <1>3, <1>4

\* Nothing is said: every counter stays.
LEMMA CountsStay ==
  ASSUME MappingTypes, NEW n, NEW who, NEW why, Counts(n, who, why), SaysNothing
  PROVE  CountsNext(n, who, why)
<1>1. Sayings(frames', reasons', who, why) = Sayings(frames, reasons, who, why)
  <2>1. CASE frames' = frames /\ reasons' = reasons
        BY <2>1
  <2>2. ASSUME reasons' = {}, NEW f \in Records, frames' = Append(frames, f), f.reasons = reasons
        PROVE  Sayings(frames', reasons', who, why) = Sayings(frames, reasons, who, why)
    <3>1. Sayings(Append(frames, f), {}, who, why) = Sayings(frames, f.reasons, who, why)
          BY SayingsClosed DEF MappingTypes
    <3>. QED  BY <2>2, <3>1
  <2>. QED  BY <2>1, <2>2 DEF SaysNothing
<1>. QED  BY <1>1 DEF Counts, CountsNext

\* The counters after a step, when each is the old one and one more for what
\* was said of its kind.
LEMMA CountersKeep ==
  ASSUME MappingInv, NEW p, NEW q, Says(p, q), <<p, q>> \notin reasons,
         handsRejected' = IF p \in Sides /\ q \in Rejections THEN handsRejected + 1 ELSE handsRejected,
         facesRejected' = IF p = "face" /\ q \in FaceRejections THEN facesRejected + 1 ELSE facesRejected,
         ambiguous' = IF p = "hands" /\ q = "ambiguous" THEN ambiguous + 1 ELSE ambiguous,
         invalid' = IF p = "torso" /\ q = "missing-or-degenerate-shoulders" THEN invalid + 1 ELSE invalid
  PROVE  Counters'
<1>. MappingTypes /\ Counters
     BY DEF MappingInv
<1>1. CountsNext(handsRejected', Sides, Rejections)
  <2>1. Counts(handsRejected, Sides, Rejections)
        BY DEF Counters
  <2>. QED  BY <2>1, CountsMove
<1>2. CountsNext(facesRejected', {"face"}, FaceRejections)
  <2>1. Counts(facesRejected, {"face"}, FaceRejections)
        BY DEF Counters
  <2>. QED  BY <2>1, CountsMove
<1>3. CountsNext(ambiguous', {"hands"}, {"ambiguous"})
  <2>1. Counts(ambiguous, {"hands"}, {"ambiguous"})
        BY DEF Counters
  <2>. QED  BY <2>1, CountsMove
<1>4. CountsNext(invalid', {"torso"}, {"missing-or-degenerate-shoulders"})
  <2>1. Counts(invalid, {"torso"}, {"missing-or-degenerate-shoulders"})
        BY DEF Counters
  <2>. QED  BY <2>1, CountsMove
<1>. QED  BY <1>1, <1>2, <1>3, <1>4 DEF Counters, Counts, CountsNext

LEMMA CountersStay ==
  ASSUME MappingInv, SaysNothing, UNCHANGED counters PROVE Counters'
<1>. MappingTypes /\ Counters
     BY DEF MappingInv
<1>1. CountsNext(handsRejected, Sides, Rejections)
      BY CountsStay DEF Counters
<1>2. CountsNext(facesRejected, {"face"}, FaceRejections)
      BY CountsStay DEF Counters
<1>3. CountsNext(ambiguous, {"hands"}, {"ambiguous"})
      BY CountsStay DEF Counters
<1>4. CountsNext(invalid, {"torso"}, {"missing-or-degenerate-shoulders"})
      BY CountsStay DEF Counters
<1>. QED  BY <1>1, <1>2, <1>3, <1>4 DEF Counters, Counts, CountsNext, counters

-----------------------------------------------------------------------------
(* Its steps *)

LEMMA InitInvariant == MappingInit => MappingInv
<1> SUFFICES ASSUME MappingInit PROVE MappingInv
    OBVIOUS
<1>1. MappingTypes
      BY DEF MappingInit, MappingTypes, StateNames, Blank
<1>2. CurrentFrame
      BY DEF MappingInit, CurrentFrame, Ahead, Behind, Sides
<1>3. \A who, why : Sayings(frames, reasons, who, why) = {}
      BY DEF MappingInit, Sayings, ReasonsOf
<1>4. Counters
      BY <1>3, FS_EmptySet DEF MappingInit, Counters, Counts
<1>. QED  BY <1>1, <1>2, <1>4 DEF MappingInit, MappingInv

\* A frame's record, with what was said of it.
LEMMA CloseKeeps ==
  ASSUME MappingInv, NEW valid \in BOOLEAN, NEW st \in [Slots -> StateNames],
         NEW why \in SUBSET (Who \X Why), NEW has \in [Tracks -> {0, 1, 2}],
         Close(valid, st, why, has),
         Explained([valid |-> valid, states |-> st, reasons |-> why, present |-> has])
  PROVE  /\ MappingTypes' /\ CurrentFrame'
         /\ \A k \in 1..Len(frames') : Explained(frames'[k])
<1> DEFINE f == [valid |-> valid, states |-> st, reasons |-> why, present |-> has]
<1>1. f \in Records /\ frames \in Seq(Records) /\ frames' = Append(frames, f)
      BY DEF Records, MappingInv, MappingTypes, Close
<1>2. /\ frames' \in Seq(Records) /\ Len(frames) \in Nat /\ Len(frames') = Len(frames) + 1
      /\ frames'[Len(frames) + 1] = f /\ \A k \in 1..Len(frames) : frames'[k] = frames[k]
      BY <1>1
<1>3. step' \in {"torso", "done"} /\ reasons' = {} /\ present' = Blank
      /\ states' = [s \in Slots |-> "missing"]
      BY DEF Close
<1>4. MappingTypes'
      BY <1>2, <1>3 DEF MappingTypes, StateNames, Blank
<1>5. CurrentFrame'
      BY <1>3 DEF CurrentFrame, Ahead, Behind, Sides
<1>6. \A k \in 1..Len(frames') : Explained(frames'[k])
      BY <1>2 DEF MappingInv
<1>. QED  BY <1>4, <1>5, <1>6

LEMMA SkipFrameKeeps == MappingInv /\ SkipFrame => MappingInv'
<1> SUFFICES ASSUME MappingInv, SkipFrame PROVE MappingInv'
    OBVIOUS
<1> DEFINE st == [s \in Slots |-> "unmapped-torso"]
           why == {<<"torso", "missing-or-degenerate-shoulders">>}
           f == [valid |-> FALSE, states |-> st, reasons |-> why, present |-> Blank]
<1>1. Close(FALSE, st, why, Blank) /\ step = "torso" /\ reasons = {}
      BY DEF SkipFrame, MappingInv, CurrentFrame
<1>2. st \in [Slots -> StateNames] /\ why \in SUBSET (Who \X Why) /\ Blank \in [Tracks -> {0, 1, 2}]
      BY DEF StateNames, Who, Why, Blank
<1>3. Explained(f)
  <2>1. \A d \in Sides : {s \in Slots : st[s] = d} = {}
        BY DEF Sides
  <2>2. \A d \in Sides : Blank[d] = 0
        BY DEF Blank, Tracks
  <2>. QED  BY <2>1, <2>2, FS_EmptySet DEF Explained
<1>4. f \in Records /\ frames' = Append(frames, f) /\ f.reasons = reasons \cup why /\ reasons' = {}
      BY <1>1, <1>2 DEF Close, Records
<1>5. Counters'
  <2>1. Says("torso", "missing-or-degenerate-shoulders")
        BY <1>4 DEF Says
  <2>2. "torso" \notin Sides /\ <<"torso", "missing-or-degenerate-shoulders">> \notin reasons
        BY <1>1 DEF Sides
  <2>. QED  BY <2>1, <2>2, CountersKeep DEF SkipFrame
<1>6. MappingTypes' /\ CurrentFrame' /\ \A k \in 1..Len(frames') : Explained(frames'[k])
      BY <1>1, <1>2, <1>3, CloseKeeps
<1>. QED  BY <1>5, <1>6 DEF MappingInv

LEMMA AssignHandsKeeps == MappingInv /\ AssignHands => MappingInv'
<1> SUFFICES ASSUME MappingInv, AssignHands PROVE MappingInv'
    OBVIOUS
<1>1. PICK r \in Raws :
        LET a == HandAssignment(r)
        IN  /\ raw' = r /\ states' = a.states /\ slot' = a.slot
            /\ IF \E s \in Slots : a.states[s] = "ambiguous"
                  THEN ambiguous' = ambiguous + 1 /\ reasons' = {<<"hands", "ambiguous">>}
                  ELSE UNCHANGED <<ambiguous, reasons>>
      BY DEF AssignHands, Raws
<1>2. /\ step = "torso" /\ step' = "left" /\ present' = [present EXCEPT !["pose"] = 1]
      /\ UNCHANGED <<handsRejected, facesRejected, invalid, frames>>
      BY DEF AssignHands
<1>3. reasons = {} /\ present = Blank
      BY <1>2 DEF MappingInv, CurrentFrame
<1>4. Best(raw', slot', states') /\ Agree(slot', states')
      BY <1>1, AssignmentIsBest
<1>5. states' \in [Slots -> StateNames]
      BY <1>1, AssignedStates
<1>6. /\ reasons' \in {{}, {<<"hands", "ambiguous">>}}
      /\ (reasons' = {} => ambiguous' = ambiguous)
      /\ (reasons' # {} => ambiguous' = ambiguous + 1)
      BY <1>1, <1>3
<1>7. present' \in [Tracks -> {0, 1, 2}] /\ \A d \in Sides : present'[d] = 0
      BY <1>2, <1>3 DEF Blank, Tracks, Sides
<1>8. MappingTypes'
  <2>1. <<"hands", "ambiguous">> \in Who \X Why
        BY DEF Who, Why
  <2>. QED  BY <1>2, <1>5, <1>6, <1>7, <2>1 DEF MappingTypes, MappingInv
<1>9. CurrentFrame'
  <2>1. \A who \in Sides \cup {"face"} : Silent(who)'
        BY <1>6 DEF Silent, Sides
  <2>. QED  BY <1>2, <1>4, <1>7, <2>1 DEF CurrentFrame, Ahead, Behind, Sides
<1>10. Counters'
  <2>1. CASE reasons' = {}
    <3>1. SaysNothing /\ UNCHANGED counters
          BY <1>2, <1>3, <1>6, <2>1 DEF SaysNothing, counters
    <3>. QED  BY <3>1, CountersStay
  <2>2. CASE reasons' # {}
    <3>1. Says("hands", "ambiguous") /\ <<"hands", "ambiguous">> \notin reasons
          BY <1>2, <1>3, <1>6, <2>2 DEF Says
    <3>2. "hands" \notin Sides /\ ambiguous' = ambiguous + 1
          BY <1>6, <2>2 DEF Sides
    <3>. QED  BY <1>2, <3>1, <3>2, CountersKeep
  <2>. QED  BY <2>1, <2>2
<1>11. (\A k \in 1..Len(frames) : Explained(frames[k]))'
  <2>1. frames' = frames
        BY <1>2
  <2>. QED  BY <2>1 DEF MappingInv
<1>. QED  BY <1>8, <1>9, <1>10, <1>11 DEF MappingInv

LEMMA NoHandKeeps == ASSUME NEW d \in Sides, MappingInv, NoHand(d) PROVE MappingInv'
<1>1. step = d /\ slot[d] = 0 /\ step' = After[d]
      /\ UNCHANGED <<raw, slot, states, reasons, present, counters, frames>>
      BY DEF NoHand
<1>2. step' \in {"right", "face"} /\ (d = "left" => step' = "right") /\ (d = "right" => step' = "face")
      BY <1>1 DEF After, Sides
<1>3. MappingTypes'
      BY <1>1, <1>2 DEF MappingTypes, MappingInv
<1>4. CurrentFrame'
  <2>1. \A who : Silent(who)' <=> Silent(who)
        BY <1>1 DEF Silent
  <2>2. Best(raw, slot, states)' /\ Agree(slot, states)' /\ Silent("face")'
        BY <1>1, <2>1 DEF MappingInv, CurrentFrame, Sides
  <2>3. present[d] = 0
        BY <1>1 DEF MappingInv, CurrentFrame, Ahead, Sides
  <2>4. ASSUME NEW e \in Ahead' PROVE present'[e] = 0 /\ Silent(e)'
        BY <1>1, <1>2, <2>1, <2>4 DEF MappingInv, CurrentFrame, Ahead, Sides
  <2>5. ASSUME NEW e \in Behind'
        PROVE  (present'[e] # 0 <=> slot'[e] # 0 /\ Silent(e)') /\ present'[e] \in {0, slot'[e]}
    <3>1. e = d \/ e \in Behind
          BY <1>1, <1>2, <2>5 DEF Behind, Sides
    <3>. QED  BY <1>1, <2>1, <2>3, <3>1 DEF MappingInv, CurrentFrame
  <2>. QED  BY <1>2, <2>2, <2>4, <2>5 DEF CurrentFrame
<1>5. Counters'
      BY <1>1 DEF MappingInv, Counters, Counts, counters
<1>6. (\A k \in 1..Len(frames) : Explained(frames[k]))'
  <2>1. frames' = frames
        BY <1>1
  <2>. QED  BY <2>1 DEF MappingInv
<1>. QED  BY <1>3, <1>4, <1>5, <1>6 DEF MappingInv

\* A hand's fit: its coordinates, or the reason that it has none.
LEMMA FitHandKeeps == ASSUME NEW d \in Sides, MappingInv, FitHand(d) PROVE MappingInv'
<1> DEFINE Fits == present' = [present EXCEPT ![d] = slot[d]] /\ UNCHANGED <<reasons, handsRejected>>
           Stops(i) == /\ reasons' = reasons \cup {<<d, Obstacles[i]>>}
                       /\ handsRejected' = handsRejected + (IF Obstacles[i] \in Rejections THEN 1 ELSE 0)
                       /\ UNCHANGED present
<1>1. /\ step = d /\ slot[d] # 0 /\ step' = After[d]
      /\ UNCHANGED <<raw, slot, states, ambiguous, facesRejected, invalid, frames>>
      /\ Fits \/ \E i \in DOMAIN Obstacles : Stops(i)
      BY DEF FitHand
<1>2. step' \in {"right", "face"} /\ (d = "left" => step' = "right") /\ (d = "right" => step' = "face")
      BY <1>1 DEF After, Sides
<1>3. present[d] = 0 /\ Silent(d) /\ slot[d] \in Slots
      BY <1>1 DEF MappingInv, CurrentFrame, Ahead, Agree, Sides
<1>4. d \in Who /\ d \in Tracks /\ d # "face" /\ \A i \in DOMAIN Obstacles : Obstacles[i] \in Why
      BY DEF Who, Why, Tracks, Sides
<1>5. reasons' = reasons \/ \E i \in DOMAIN Obstacles : reasons' = reasons \cup {<<d, Obstacles[i]>>}
      BY <1>1
<1>6. present' \in [Tracks -> {0, 1, 2}] /\ \A e \in Sides \ {d} : present'[e] = present[e]
      BY <1>1, <1>3, <1>4 DEF MappingInv, MappingTypes, Slots, Tracks, Sides
<1>7. MappingTypes'
  <2>1. reasons' \in SUBSET (Who \X Why)
        BY <1>4, <1>5 DEF MappingInv, MappingTypes
  <2>. QED  BY <1>1, <1>2, <1>6, <2>1 DEF MappingInv, MappingTypes
<1>8. \A who : who # d => (Silent(who)' <=> Silent(who))
      BY <1>5 DEF Silent
<1>9. (present'[d] # 0 <=> slot[d] # 0 /\ Silent(d)') /\ present'[d] \in {0, slot[d]}
  <2>1. CASE Fits
    <3>1. present'[d] = slot[d]
          BY <1>4, <2>1 DEF MappingInv, MappingTypes
    <3>2. Silent(d)'
          BY <1>3, <2>1 DEF Silent
    <3>. QED  BY <1>1, <3>1, <3>2
  <2>2. CASE \E i \in DOMAIN Obstacles : Stops(i)
    <3>1. present'[d] = 0
          BY <1>3, <2>2
    <3>2. ~Silent(d)'
      <4>1. PICK i \in DOMAIN Obstacles : reasons' = reasons \cup {<<d, Obstacles[i]>>}
            BY <2>2
      <4>2. <<d, Obstacles[i]>> \in reasons' /\ <<d, Obstacles[i]>>[1] = d
            BY <4>1
      <4>. QED  BY <4>2 DEF Silent
    <3>. QED  BY <3>1, <3>2
  <2>. QED  BY <1>1, <2>1, <2>2
<1>10. CurrentFrame'
  <2>1. Best(raw, slot, states)' /\ Agree(slot, states)' /\ Silent("face")'
        BY <1>1, <1>4, <1>8 DEF MappingInv, CurrentFrame, Sides
  <2>2. ASSUME NEW e \in Ahead' PROVE present'[e] = 0 /\ Silent(e)'
    <3>1. e \in Sides \ {d} /\ e \in Ahead
          BY <1>1, <1>2, <2>2 DEF Ahead, Sides
    <3>. QED  BY <1>6, <1>8, <3>1 DEF MappingInv, CurrentFrame
  <2>3. ASSUME NEW e \in Behind'
        PROVE  (present'[e] # 0 <=> slot'[e] # 0 /\ Silent(e)') /\ present'[e] \in {0, slot'[e]}
    <3>1. e = d \/ (e \in Behind /\ e \in Sides \ {d})
          BY <1>1, <1>2, <2>3 DEF Behind, Sides
    <3>2. CASE e = d
          BY <1>1, <1>9, <3>2
    <3>3. CASE e \in Behind /\ e \in Sides \ {d}
          BY <1>1, <1>6, <1>8, <3>3 DEF MappingInv, CurrentFrame
    <3>. QED  BY <3>1, <3>2, <3>3
  <2>. QED  BY <1>2, <2>1, <2>2, <2>3 DEF CurrentFrame
<1>11. Counters'
  <2>1. CASE Fits
    <3>1. SaysNothing /\ UNCHANGED counters
          BY <1>1, <2>1 DEF SaysNothing, counters
    <3>. QED  BY <3>1, CountersStay
  <2>2. ASSUME NEW i \in DOMAIN Obstacles, Stops(i) PROVE Counters'
    <3>1. Says(d, Obstacles[i]) /\ <<d, Obstacles[i]>> \notin reasons
          BY <1>1, <1>3, <2>2 DEF Says, Silent
    <3>2. handsRejected \in Nat
          BY FS_CardinalityType DEF MappingInv, Counters, Counts
    <3>3. handsRejected' = IF d \in Sides /\ Obstacles[i] \in Rejections
                           THEN handsRejected + 1 ELSE handsRejected
          BY <2>2, <3>2
    <3>4. d \notin {"face", "hands", "torso"}
          BY DEF Sides
    <3>. QED  BY <1>1, <3>1, <3>3, <3>4, CountersKeep
  <2>. QED  BY <1>1, <2>1, <2>2
<1>12. (\A k \in 1..Len(frames) : Explained(frames[k]))'
  <2>1. frames' = frames
        BY <1>1
  <2>. QED  BY <2>1 DEF MappingInv
<1>. QED  BY <1>7, <1>10, <1>11, <1>12 DEF MappingInv

\* The frame that the face ends says what happened to its hands, whatever is
\* said of the face.
LEMMA FrameExplained ==
  ASSUME MappingInv, step = "face", NEW why, \A w \in why \ reasons : w[1] = "face", reasons \subseteq why,
         NEW has, \A d \in Sides : has[d] = present[d], NEW valid
  PROVE  Explained([valid |-> valid, states |-> states, reasons |-> why, present |-> has])
<1> DEFINE f == [valid |-> valid, states |-> states, reasons |-> why, present |-> has]
<1>1. /\ Agree(slot, states)
      /\ \A d \in Sides : /\ present[d] # 0 <=> slot[d] # 0 /\ Silent(d)
                          /\ present[d] \in {0, slot[d]}
      BY DEF MappingInv, CurrentFrame, Behind
<1>2. ASSUME NEW d \in Sides
      PROVE  LET of == {s \in Slots : f.states[s] = d}
             IN  /\ Cardinality(of) <= 1
                 /\ f.present[d] # 0 <=> of # {} /\ \A w \in f.reasons : w[1] # d
                 /\ f.present[d] \in of \cup {0}
  <2> DEFINE of == {s \in Slots : f.states[s] = d}
  <2>1. of = IF slot[d] = 0 THEN {} ELSE {slot[d]}
        BY <1>1 DEF Agree, Slots
  <2>2. Cardinality(of) <= 1 /\ (of # {} <=> slot[d] # 0)
    <3>1. CASE slot[d] = 0
          BY <2>1, <3>1, FS_EmptySet
    <3>2. CASE slot[d] # 0
      <4>1. of = {slot[d]}
            BY <2>1, <3>2
      <4>2. Cardinality({slot[d]}) = 1
            BY FS_Singleton
      <4> HIDE DEF of
      <4>3. Cardinality(of) = 1 /\ of # {}
            BY <4>1, <4>2
      <4>. QED  BY <3>2, <4>3
    <3>. QED  BY <3>1, <3>2
  <2>3. (\A w \in why : w[1] # d) <=> Silent(d)
        BY DEF Silent, Sides
  <2>. QED  BY <1>1, <2>1, <2>2, <2>3
<1>. QED  BY <1>2 DEF Explained

LEMMA FitFaceKeeps == MappingInv /\ FitFace => MappingInv'
<1> SUFFICES ASSUME MappingInv, FitFace PROVE MappingInv'
    OBVIOUS
<1>1. step = "face" /\ UNCHANGED <<ambiguous, handsRejected, invalid>> /\ Silent("face")
      BY DEF FitFace, MappingInv, CurrentFrame
<1>2. states \in [Slots -> StateNames] /\ reasons \in SUBSET (Who \X Why)
      /\ present \in [Tracks -> {0, 1, 2}]
      BY DEF MappingInv, MappingTypes
<1>3. ASSUME NEW here \in {0, 1}, Close(TRUE, states, reasons, [present EXCEPT !["face"] = here]),
             UNCHANGED facesRejected
      PROVE  MappingInv'
  <2> DEFINE has == [present EXCEPT !["face"] = here]
             f == [valid |-> TRUE, states |-> states, reasons |-> reasons, present |-> has]
  <2>1. has \in [Tracks -> {0, 1, 2}] /\ \A d \in Sides : has[d] = present[d]
        BY <1>2 DEF Tracks, Sides
  <2>2. Explained(f)
        BY <1>1, <2>1, FrameExplained
  <2>3. f \in Records /\ frames' = Append(frames, f) /\ f.reasons = reasons /\ reasons' = {}
        BY <1>2, <1>3, <2>1 DEF Close, Records
  <2>4. MappingTypes' /\ CurrentFrame' /\ \A k \in 1..Len(frames') : Explained(frames'[k])
        BY <1>2, <1>3, <2>1, <2>2, CloseKeeps
  <2>5. Counters'
    <3>1. SaysNothing /\ UNCHANGED counters
          BY <1>1, <1>3, <2>3 DEF SaysNothing, counters
    <3>. QED  BY <3>1, CountersStay
  <2>. QED  BY <2>4, <2>5 DEF MappingInv
<1>4. ASSUME NEW w \in FaceRejections \cup {"missing-fit-anchors"},
             Close(TRUE, states, reasons \cup {<<"face", w>>}, present),
             facesRejected' = IF w \in FaceRejections THEN facesRejected + 1 ELSE facesRejected
      PROVE  MappingInv'
  <2> DEFINE why == reasons \cup {<<"face", w>>}
             f == [valid |-> TRUE, states |-> states, reasons |-> why, present |-> present]
  <2>1. why \in SUBSET (Who \X Why)
        BY <1>2 DEF Who, Why, Tracks
  <2>2. Explained(f)
        BY <1>1, FrameExplained
  <2>3. f \in Records /\ frames' = Append(frames, f) /\ f.reasons = why /\ reasons' = {}
        BY <1>2, <1>4, <2>1 DEF Close, Records
  <2>4. MappingTypes' /\ CurrentFrame' /\ \A k \in 1..Len(frames') : Explained(frames'[k])
        BY <1>2, <1>4, <2>1, <2>2, CloseKeeps
  <2>5. Counters'
    <3>1. Says("face", w)
          BY <2>3 DEF Says
    <3>2. "face" \notin Sides /\ <<"face", w>> \notin reasons
          BY <1>1 DEF Silent, Sides
    <3>. QED  BY <1>1, <1>4, <3>1, <3>2, CountersKeep
  <2>. QED  BY <2>4, <2>5 DEF MappingInv
<1>5. "missing-fit-anchors" \notin FaceRejections
      BY DEF FaceRejections
<1>. QED  BY <1>3, <1>4, <1>5 DEF FitFace

-----------------------------------------------------------------------------
(* The theorems *)

\* The inductive invariant of the mapping.
THEOREM MappingInductive == MappingSpec => []MappingInv
<1>1. MappingInit => MappingInv
      BY InitInvariant
<1>2. MappingInv /\ [MappingNext]_mappingVars => MappingInv'
  <2> SUFFICES ASSUME MappingInv, [MappingNext]_mappingVars PROVE MappingInv'
      OBVIOUS
  <2>1. CASE SkipFrame
        BY <2>1, SkipFrameKeeps
  <2>2. CASE AssignHands
        BY <2>2, AssignHandsKeeps
  <2>3. CASE FitFace
        BY <2>3, FitFaceKeeps
  <2>4. ASSUME NEW d \in Sides, NoHand(d) PROVE MappingInv'
        BY <2>4, NoHandKeeps
  <2>5. ASSUME NEW d \in Sides, FitHand(d) PROVE MappingInv'
        BY <2>5, FitHandKeeps
  <2>6. CASE UNCHANGED mappingVars
    <3> USE <2>6 DEF mappingVars
    <3>1. MappingTypes'
          BY DEF MappingInv, MappingTypes
    <3>2. CurrentFrame'
          BY DEF MappingInv, CurrentFrame, Ahead, Behind, Silent
    <3>3. Counters'
          BY DEF MappingInv, Counters, Counts
    <3>4. (\A k \in 1..Len(frames) : Explained(frames[k]))'
          BY DEF MappingInv, Explained
    <3>. QED  BY <3>1, <3>2, <3>3, <3>4 DEF MappingInv
  <2>. QED  BY <2>1, <2>2, <2>3, <2>4, <2>5, <2>6 DEF MappingNext
<1>. QED  BY <1>1, <1>2, PTL DEF MappingSpec

\* HandsAssigned, for any distances and thresholds and any number of frames: a
\* frame's hands are those of the one clearly cheapest assignment within the
\* maximum, and every finished frame and counter of the artifact says what
\* happened (mediapipe_mapping.py: 519-587 and 641-922).
THEOREM HandsAssignedHolds == MappingSpec => []HandsAssigned
<1>1. MappingInv => AssignmentBest
      BY DEF MappingInv, CurrentFrame, Best, AssignmentBest
<1>2. MappingInv => MappingExplained
  <2> SUFFICES ASSUME MappingInv PROVE MappingExplained
      OBVIOUS
  <2>1. \A k \in 1..Len(frames) : Explained(frames[k])
        BY DEF MappingInv
  <2>2. ASSUME step \in {"torso", "done"}, NEW n, NEW who, NEW why, Counts(n, who, why)
        PROVE  n = Told(who, why)
    <3>1. reasons = {} /\ frames \in Seq(Records)
          BY <2>2 DEF MappingInv, CurrentFrame, MappingTypes
    <3>. QED  BY <2>2, <3>1, SayingsTold DEF Counts
  <2>3. step \in {"torso", "done"} =>
          /\ handsRejected = Told(Sides, Rejections)
          /\ facesRejected = Told({"face"}, FaceRejections)
          /\ ambiguous = Told({"hands"}, {"ambiguous"})
          /\ invalid = Told({"torso"}, {"missing-or-degenerate-shoulders"})
        BY <2>2 DEF MappingInv, Counters
  <2>. QED  BY <2>1, <2>3 DEF MappingExplained, Explained
<1>. QED  BY <1>1, <1>2, MappingInductive, PTL DEF HandsAssigned

-----------------------------------------------------------------------------
(* Ranks, and sorting *)

Rank(S, order, x) == Cardinality({y \in S : <<y, x>> \in order})
StrictOrder(S, order) ==
  /\ \A x \in S : <<x, x>> \notin order
  /\ \A x, y \in S : x # y => <<x, y>> \in order \/ <<y, x>> \in order
  /\ \A x, y, z \in S : <<x, y>> \in order /\ <<y, z>> \in order => <<x, z>> \in order

LEMMA RankIs ==
  ASSUME NEW S, IsFiniteSet(S), NEW order, StrictOrder(S, order), NEW x \in S
  PROVE  /\ Cardinality(S) \in Nat /\ Rank(S, order, x) \in 0..(Cardinality(S) - 1)
         /\ \A y \in S : <<y, x>> \in order => Rank(S, order, y) < Rank(S, order, x)
<1> DEFINE below(z) == {y \in S : <<y, z>> \in order}
<1>1. \A z \in S : below(z) \in SUBSET S /\ z \notin below(z)
      BY DEF StrictOrder
<1>2. \A z \in S : IsFiniteSet(below(z)) /\ Cardinality(below(z)) \in Nat
      BY <1>1, FS_Subset, FS_CardinalityType
<1>3. Cardinality(S) \in Nat /\ Cardinality(below(x)) <= Cardinality(S) /\ Cardinality(below(x)) # Cardinality(S)
  <2>1. below(x) # S
        BY <1>1
  <2>. QED  BY <1>1, <2>1, FS_Subset, FS_CardinalityType
<1>4. ASSUME NEW y \in S, <<y, x>> \in order PROVE Cardinality(below(y)) < Cardinality(below(x))
  <2>1. below(y) \in SUBSET below(x) /\ y \in below(x) /\ y \notin below(y)
        BY <1>4 DEF StrictOrder
  <2>2. Cardinality(below(y)) <= Cardinality(below(x)) /\ Cardinality(below(y)) # Cardinality(below(x))
    <3>1. below(y) # below(x)
          BY <2>1
    <3> HIDE DEF below
    <3>. QED  BY <1>2, <2>1, <3>1, FS_Subset
  <2>. QED  BY <1>2, <2>2
<1>5. Cardinality(below(x)) \in 0..(Cardinality(S) - 1)
  <2>1. Cardinality(below(x)) \in Nat
        BY <1>2
  <2> HIDE DEF below
  <2>. QED  BY <1>3, <2>1
<1>6. \A z \in S : Rank(S, order, z) = Cardinality(below(z))
      BY DEF Rank
<1> HIDE DEF below
<1>. QED  BY <1>3, <1>4, <1>5, <1>6

\* Each place is somebody's.
LEMMA RankOf ==
  ASSUME NEW S, IsFiniteSet(S), NEW order, StrictOrder(S, order),
         NEW k \in 0..(Cardinality(S) - 1)
  PROVE  \E x \in S : Rank(S, order, x) = k
<1> DEFINE T == 0..(Cardinality(S) - 1)
           f == [x \in S |-> Rank(S, order, x)]
<1>1. Cardinality(S) \in Nat
      BY FS_CardinalityType
<1>2. f \in [S -> T]
      BY RankIs
<1>3. \A x, y \in S : x # y => f[x] # f[y]
  <2>1. ASSUME NEW x \in S, NEW y \in S, x # y PROVE f[x] # f[y]
    <3>1. <<x, y>> \in order \/ <<y, x>> \in order
          BY <2>1 DEF StrictOrder
    <3>2. f[x] < f[y] \/ f[y] < f[x]
          BY <3>1, RankIs
    <3>3. f[x] \in Int /\ f[y] \in Int
          BY <1>1, <1>2
    <3>. QED  BY <3>2, <3>3
  <2>. QED  BY <2>1
<1> HIDE DEF f
<1>4. f \in Injection(S, T)
      BY <1>2, <1>3 DEF Injection, IsInjective
<1>5. IsFiniteSet(T) /\ Cardinality(T) = Cardinality(S)
      BY <1>1, FS_Interval
<1>6. f \in Surjection(S, T)
      BY <1>4, <1>5, FS_Injection
<1>7. PICK x \in S : f[x] = k
      BY <1>6 DEF Surjection
<1>. QED  BY <1>7 DEF f

LEMMA SortedIs ==
  ASSUME NEW S, IsFiniteSet(S), NEW order, StrictOrder(S, order)
  PROVE  /\ Cardinality(S) \in Nat /\ Sorted(S, order) \in [1..Cardinality(S) -> S]
         /\ \A k \in 1..Cardinality(S) : Rank(S, order, Sorted(S, order)[k]) = k - 1
<1>1. Cardinality(S) \in Nat
      BY FS_CardinalityType
<1>2. ASSUME NEW k \in 1..Cardinality(S)
      PROVE  LET x == CHOOSE x \in S : Cardinality({y \in S : <<y, x>> \in order}) = k - 1
             IN  x \in S /\ Cardinality({y \in S : <<y, x>> \in order}) = k - 1
  <2>1. k - 1 \in 0..(Cardinality(S) - 1)
        BY <1>1
  <2>2. \E x \in S : Cardinality({y \in S : <<y, x>> \in order}) = k - 1
        BY <2>1, RankOf DEF Rank
  <2>. QED  BY <2>2
<1>. QED  BY <1>1, <1>2 DEF Sorted, Rank

\* The first of the sorted are those with few before them.
LEMMA FirstSorted ==
  ASSUME NEW S, IsFiniteSet(S), NEW order, StrictOrder(S, order), NEW n \in Nat
  PROVE  /\ First(Sorted(S, order), n) \in Seq(S)
         /\ Cardinality(S) \in Nat
         /\ Len(First(Sorted(S, order), n)) = IF Cardinality(S) < n THEN Cardinality(S) ELSE n
         /\ ToSet(First(Sorted(S, order), n)) = {x \in S : Rank(S, order, x) < n}
<1> DEFINE c == Cardinality(S)
           s == Sorted(S, order)
           m == IF c < n THEN c ELSE n
           u == First(s, n)
<1>1. c \in Nat /\ s \in [1..c -> S] /\ \A k \in 1..c : Rank(S, order, s[k]) = k - 1
      BY SortedIs
<1>2. s \in Seq(S) /\ Len(s) = c /\ DOMAIN s = 1..c
  <2> HIDE DEF s
  <2>. QED  BY <1>1, FunctionIsSeq
<1>3. m \in Nat /\ m <= c /\ m <= n
      BY <1>1
<1>4. u = SubSeq(s, 1, m)
      BY <1>2 DEF First
<1> HIDE DEF c, s, u, m
<1>5. u \in Seq(S) /\ Len(u) = m /\ \A k \in 1..m : u[k] = s[k]
  <2>1. \A k \in 1..m : s[k] \in S
        BY <1>1, <1>3
  <2>. QED  BY <1>3, <1>4, <2>1, SubSeqProperties
<1>6. DOMAIN u = 1..m
      BY <1>5, LenProperties
<1>7. ASSUME NEW x \in ToSet(u) PROVE x \in S /\ Rank(S, order, x) < n
  <2>1. PICK k \in 1..m : x = s[k]
        BY <1>5, <1>6, <1>7 DEF ToSet
  <2>2. k \in 1..c /\ k - 1 < n
        BY <1>1, <1>3, <2>1
  <2>. QED  BY <1>1, <2>1, <2>2
<1>8. ASSUME NEW x \in S, Rank(S, order, x) < n PROVE x \in ToSet(u)
  <2> DEFINE k == Rank(S, order, x) + 1
  <2>1. Rank(S, order, x) \in 0..(c - 1)
        BY RankIs DEF c
  <2>2. k \in 1..c /\ k \in 1..m /\ Rank(S, order, x) = k - 1
        BY <1>1, <1>8, <2>1 DEF m
  <2> HIDE DEF k
  <2>3. s[k] \in S /\ Rank(S, order, s[k]) = Rank(S, order, x)
        BY <1>1, <2>2
  <2>4. s[k] = x
    <3>1. SUFFICES ASSUME s[k] # x PROVE FALSE
          OBVIOUS
    <3>2. <<s[k], x>> \in order \/ <<x, s[k]>> \in order
          BY <2>3, <3>1 DEF StrictOrder
    <3>3. Rank(S, order, s[k]) < Rank(S, order, x) \/ Rank(S, order, x) < Rank(S, order, s[k])
          BY <2>3, <3>2, RankIs
    <3>. QED  BY <1>1, <2>1, <2>3, <3>3
  <2>. QED  BY <1>5, <1>6, <2>2, <2>4 DEF ToSet
<1>9. ToSet(u) = {x \in S : Rank(S, order, x) < n}
      BY <1>7, <1>8
<1>. QED  BY <1>1, <1>5, <1>9 DEF c, s, u, m

\* What is dropped although enough go before it changes no place among the
\* first: C holds of S all but some that have n of C before them.
LEMMA Trimmed ==
  ASSUME NEW S, IsFiniteSet(S), NEW order, StrictOrder(S, order), NEW C \in SUBSET S, NEW n \in Nat,
         \A x \in S \ C : \E D \in SUBSET C : Cardinality(D) >= n /\ \A y \in D : <<y, x>> \in order
  PROVE  {x \in C : Rank(C, order, x) < n} = {x \in S : Rank(S, order, x) < n}
<1> DEFINE inC(x) == {y \in C : <<y, x>> \in order}
           inS(x) == {y \in S : <<y, x>> \in order}
<1>1. \A x : /\ IsFiniteSet(inC(x)) /\ IsFiniteSet(inS(x)) /\ inC(x) \in SUBSET inS(x)
             /\ Cardinality(inC(x)) \in Nat /\ Cardinality(inS(x)) \in Nat
             /\ Cardinality(inC(x)) <= Cardinality(inS(x))
  <2>1. \A x : inC(x) \in SUBSET inS(x) /\ inS(x) \in SUBSET S /\ inC(x) \in SUBSET S
        OBVIOUS
  <2> HIDE DEF inC, inS
  <2>. QED  BY <2>1, FS_Subset, FS_CardinalityType
\* The n before a dropped one are n before whatever it is before.
<1>2. ASSUME NEW x \in S, NEW y \in S \ C, y = x \/ <<y, x>> \in order
      PROVE  ~(Cardinality(inC(x)) < n)
  <2>1. PICK D \in SUBSET C : Cardinality(D) >= n /\ \A z \in D : <<z, y>> \in order
        OBVIOUS
  <2>2. D \in SUBSET inC(x)
        BY <1>2, <2>1 DEF StrictOrder
  <2> HIDE DEF inC, inS
  <2>3. IsFiniteSet(inC(x)) /\ Cardinality(inC(x)) \in Nat
        BY <1>1
  <2>4. Cardinality(D) <= Cardinality(inC(x)) /\ Cardinality(D) \in Nat
        BY <2>2, <2>3, FS_Subset, FS_CardinalityType
  <2>5. Cardinality(D) >= n
        BY <2>1
  <2>. QED  BY <2>3, <2>4, <2>5
<1>3. ASSUME NEW x \in C, Cardinality(inC(x)) < n PROVE Cardinality(inS(x)) < n
  <2>1. \A y \in S \ C : ~(<<y, x>> \in order)
    <3>1. x \in S
          OBVIOUS
    <3> HIDE DEF inC, inS
    <3>. QED  BY <1>2, <1>3, <3>1
  <2>2. inS(x) = inC(x)
        BY <2>1
  <2>. QED  BY <1>3, <2>2
<1>4. ASSUME NEW x \in S, Cardinality(inS(x)) < n PROVE x \in C /\ Cardinality(inC(x)) < n
  <2>1. Cardinality(inC(x)) < n
    <3> HIDE DEF inC, inS
    <3>. QED  BY <1>1, <1>4
  <2>. QED  BY <1>2, <2>1
<1>. QED  BY <1>3, <1>4 DEF Rank

-----------------------------------------------------------------------------
(* The order of strings *)

LEMMA BeforeIsStrict == ASSUME NEW s \in Seq(Nat) PROVE ~Before(s, s)
<1>1. SUFFICES ASSUME NEW i \in DOMAIN s, i <= Len(s) => s[i] < s[i] PROVE FALSE
      BY DEF Before
<1>2. i \in 1..Len(s) /\ Len(s) \in Nat
      BY LenProperties
<1>3. s[i] \in Nat
      BY <1>2, ElementOfSeq
<1>. QED  BY <1>1, <1>2, <1>3

LEMMA BeforeIsTransitive ==
  ASSUME NEW s \in Seq(Nat), NEW t \in Seq(Nat), NEW u \in Seq(Nat), Before(s, t), Before(t, u)
  PROVE  Before(s, u)
<1>1. PICK i \in DOMAIN t : /\ i <= Len(s) + 1 /\ \A j \in 1..(i - 1) : s[j] = t[j]
                            /\ i <= Len(s) => s[i] < t[i]
      BY DEF Before
<1>2. PICK k \in DOMAIN u : /\ k <= Len(t) + 1 /\ \A j \in 1..(k - 1) : t[j] = u[j]
                            /\ k <= Len(t) => t[k] < u[k]
      BY DEF Before
<1>3. /\ Len(s) \in Nat /\ Len(t) \in Nat /\ Len(u) \in Nat
      /\ DOMAIN u = 1..Len(u) /\ i \in 1..Len(t) /\ k \in 1..Len(u)
      BY LenProperties
<1>4. /\ \A j \in 1..Len(s) : s[j] \in Nat
      /\ \A j \in 1..Len(t) : t[j] \in Nat
      /\ \A j \in 1..Len(u) : u[j] \in Nat
      BY ElementOfSeq
<1>5. CASE i < k
  <2>1. i \in 1..Len(u) /\ i \in 1..(k - 1) /\ \A j \in 1..(i - 1) : j \in 1..(k - 1)
        BY <1>3, <1>5
  <2>2. t[i] = u[i] /\ \A j \in 1..(i - 1) : s[j] = u[j]
        BY <1>1, <1>2, <2>1
  <2>3. i <= Len(s) => s[i] < u[i]
        BY <1>1, <2>2
  <2>. QED  BY <1>1, <1>3, <2>1, <2>2, <2>3 DEF Before
<1>6. CASE i = k
  <2>1. t[i] < u[i] /\ \A j \in 1..(i - 1) : s[j] = u[j]
        BY <1>1, <1>2, <1>3, <1>6
  <2>2. ASSUME i <= Len(s) PROVE s[i] < u[i]
    <3>1. s[i] < t[i] /\ s[i] \in Nat /\ t[i] \in Nat /\ u[i] \in Nat
          BY <1>1, <1>2, <1>3, <1>4, <1>6, <2>2
    <3>. QED  BY <2>1, <3>1
  <2>. QED  BY <1>1, <1>2, <1>6, <2>1, <2>2 DEF Before
<1>7. CASE k < i
  <2>1. i <= Len(s) + 1 /\ i \in Nat /\ k \in Nat /\ 1 <= k /\ i <= Len(t) /\ Len(s) \in Nat /\ Len(t) \in Nat
        BY <1>1, <1>3
  <2>2. k <= Len(t) /\ k <= Len(s) /\ k \in 1..(i - 1) /\ \A j \in 1..(k - 1) : j \in 1..(i - 1)
    <3>1. \A a, b, c, d \in Nat : 1 <= a /\ a < b /\ b <= c + 1 /\ b <= d =>
            a <= d /\ a <= c /\ a \in 1..(b - 1) /\ \A j \in 1..(a - 1) : j \in 1..(b - 1)
          OBVIOUS
    <3>. QED  BY <1>7, <2>1, <3>1
  <2>3. s[k] = t[k] /\ t[k] < u[k] /\ \A j \in 1..(k - 1) : s[j] = u[j]
        BY <1>1, <1>2, <2>2
  <2>4. s[k] < u[k] /\ k <= Len(s) + 1
        BY <1>3, <2>2, <2>3
  <2>. QED  BY <2>3, <2>4 DEF Before
<1>. QED  BY <1>3, <1>5, <1>6, <1>7

\* The first place in which two strings differ decides.
LEMMA BeforeIsTotal ==
  ASSUME NEW s \in Seq(Nat), NEW t \in Seq(Nat), s # t
  PROVE  Before(s, t) \/ Before(t, s)
<1> DEFINE Differ == {i \in (1..Len(s)) \cup (1..Len(t)) : ~(i <= Len(s) /\ i <= Len(t) /\ s[i] = t[i])}
<1>1. /\ Len(s) \in Nat /\ Len(t) \in Nat
      /\ DOMAIN s = 1..Len(s) /\ DOMAIN t = 1..Len(t)
      BY LenProperties
<1>2. Differ # {}
  <2>1. SUFFICES ASSUME Differ = {} PROVE FALSE
        OBVIOUS
  <2>2. Len(s) = Len(t)
    <3>1. ~(Len(s) < Len(t))
      <4>1. SUFFICES ASSUME Len(s) < Len(t) PROVE FALSE
            OBVIOUS
      <4>2. Len(t) \in Differ
            BY <1>1, <4>1
      <4>. QED  BY <2>1, <4>2
    <3>2. ~(Len(t) < Len(s))
      <4>1. SUFFICES ASSUME Len(t) < Len(s) PROVE FALSE
            OBVIOUS
      <4>2. Len(s) \in Differ
            BY <1>1, <4>1
      <4>. QED  BY <2>1, <4>2
    <3>3. \A a, b \in Nat : ~(a < b) /\ ~(b < a) => a = b
          OBVIOUS
    <3> HIDE DEF Differ
    <3>. QED  BY <1>1, <3>1, <3>2, <3>3
  <2>3. \A i \in 1..Len(s) : s[i] = t[i]
        BY <2>1
  <2>. QED  BY <2>2, <2>3, SeqEqual
<1>3. PICK i \in Differ : \A j \in Differ : i <= j
  <2>1. Differ \in SUBSET Nat
        BY <1>1
  <2> HIDE DEF Differ
  <2>. QED  BY <1>2, <2>1, SmallestOf
<1>4. \A j \in 1..(i - 1) : j <= Len(s) /\ j <= Len(t) /\ s[j] = t[j]
  <2>1. ASSUME NEW j \in 1..(i - 1) PROVE j <= Len(s) /\ j <= Len(t) /\ s[j] = t[j]
    <3>1. j \in (1..Len(s)) \cup (1..Len(t)) /\ j \notin Differ
          BY <1>1, <1>3
    <3>. QED  BY <3>1
  <2>. QED  BY <2>1
<1>5. i \in Nat /\ i >= 1 /\ i <= Len(s) + 1 /\ i <= Len(t) + 1
  <2>1. i \in Nat /\ i >= 1
        BY <1>1
  <2>2. i > 1 => i - 1 \in 1..(i - 1)
        BY <2>1
  <2>. QED  BY <1>1, <1>4, <2>1, <2>2
<1>6. CASE i > Len(s)
  <2>1. i \in DOMAIN t
        BY <1>1, <1>5, <1>6
  <2>. QED  BY <1>1, <1>4, <1>5, <1>6, <2>1 DEF Before
<1>7. CASE i > Len(t)
  <2>1. i \in DOMAIN s
        BY <1>1, <1>5, <1>7
  <2>. QED  BY <1>1, <1>4, <1>5, <1>7, <2>1 DEF Before
<1>8. CASE i <= Len(s) /\ i <= Len(t)
  <2>1. s[i] # t[i] /\ i \in DOMAIN s /\ i \in DOMAIN t
        BY <1>1, <1>5, <1>8
  <2>2. s[i] \in Nat /\ t[i] \in Nat
        BY <1>5, <1>8, ElementOfSeq
  <2>3. s[i] < t[i] \/ t[i] < s[i]
        BY <2>1, <2>2
  <2>. QED  BY <1>4, <1>5, <2>1, <2>3 DEF Before
<1>. QED  BY <1>1, <1>5, <1>6, <1>7, <1>8

LEMMA BeforeByLast ==
  ASSUME NEW s \in Seq(Nat), NEW t \in Nat, NEW u \in Nat
  PROVE  Before(Append(s, t), Append(s, u)) <=> t < u
<1> DEFINE a == Append(s, t)
           b == Append(s, u)
           n == Len(s)
<1>1. /\ n \in Nat /\ Len(a) = n + 1 /\ Len(b) = n + 1 /\ DOMAIN b = 1..(n + 1)
      /\ a[n + 1] = t /\ b[n + 1] = u
      /\ \A i \in 1..n : a[i] = s[i] /\ b[i] = s[i] /\ s[i] \in Nat
      BY LenProperties, AppendProperties, ElementOfSeq
<1> HIDE DEF a, b, n
<1>2. ASSUME t < u PROVE Before(a, b)
  <2>1. n + 1 \in DOMAIN b /\ n + 1 <= Len(a) + 1 /\ a[n + 1] < b[n + 1]
        BY <1>1, <1>2
  <2>2. \A j \in 1..((n + 1) - 1) : a[j] = b[j]
        BY <1>1
  <2>. QED  BY <2>1, <2>2 DEF Before
<1>3. ASSUME Before(a, b) PROVE t < u
  <2>1. PICK i \in DOMAIN b : i <= Len(a) => a[i] < b[i]
        BY <1>3 DEF Before
  <2>2. a[i] < b[i] /\ i \in 1..(n + 1)
        BY <1>1, <2>1
  <2>3. i = n + 1
    <3>1. SUFFICES ASSUME i \in 1..n PROVE FALSE
          BY <1>1, <2>2
    <3>2. a[i] = s[i] /\ b[i] = s[i] /\ s[i] \in Nat
          BY <1>1, <3>1
    <3>. QED  BY <2>2, <3>2
  <2>. QED  BY <1>1, <2>2, <2>3
<1>. QED  BY <1>2, <1>3 DEF a, b

-----------------------------------------------------------------------------
(* The orders of tokens and of beams *)

LEMMA LikelierIsStrict ==
  ASSUME NEW m, NEW tokens, NEW S \in SUBSET Nat, \A t \in S : Network(m, tokens, t) \in Int
  PROVE  StrictOrder(S, {p \in S \X S : Likelier(m, tokens, p[1], p[2])})
<1> DEFINE R == {p \in S \X S : Likelier(m, tokens, p[1], p[2])}
           f == [t \in S |-> Network(m, tokens, t)]
<1>1. \A t, u \in S : <<t, u>> \in R <=> Likelier(m, tokens, t, u)
      OBVIOUS
<1>2. \A t, u \in S : Likelier(m, tokens, t, u) <=> (f[t] > f[u] \/ (f[t] = f[u] /\ t < u))
      BY DEF Likelier
<1>3. \A t \in S : f[t] \in Int /\ t \in Nat
      OBVIOUS
<1> HIDE DEF R, f
<1>4. \A t, u \in S : <<t, u>> \in R <=> (f[t] > f[u] \/ (f[t] = f[u] /\ t < u))
      BY <1>1, <1>2
<1>5. StrictOrder(S, R)
  <2>1. \A t \in S : <<t, t>> \notin R
        BY <1>3, <1>4
  <2>2. \A t, u \in S : t # u => <<t, u>> \in R \/ <<u, t>> \in R
        BY <1>3, <1>4
  <2>3. \A t, u, v \in S : <<t, u>> \in R /\ <<u, v>> \in R => <<t, v>> \in R
    <3>1. ASSUME NEW t \in S, NEW u \in S, NEW v \in S, <<t, u>> \in R, <<u, v>> \in R PROVE <<t, v>> \in R
          BY <1>3, <1>4, <3>1
    <3>. QED  BY <3>1
  <2>. QED  BY <2>1, <2>2, <2>3 DEF StrictOrder
<1>. QED  BY <1>5 DEF R

\* Beams that their strings determine.
LEMMA BetterIsStrict ==
  ASSUME NEW S, \A a \in S : a.score \in Int /\ a.tokens \in Seq(Nat),
         \A a, b \in S : a.tokens = b.tokens => a = b
  PROVE  StrictOrder(S, {p \in S \X S : Better(p[1], p[2])})
<1> DEFINE R == {p \in S \X S : Better(p[1], p[2])}
<1>1. \A a, b \in S : <<a, b>> \in R <=> Better(a, b)
      OBVIOUS
<1> HIDE DEF R
<1>2. \A a \in S : <<a, a>> \notin R
      BY <1>1, BeforeIsStrict DEF Better
<1>3. ASSUME NEW a \in S, NEW b \in S, a # b PROVE <<a, b>> \in R \/ <<b, a>> \in R
  <2>1. a.tokens # b.tokens
        BY <1>3
  <2>2. Before(a.tokens, b.tokens) \/ Before(b.tokens, a.tokens)
        BY <2>1, BeforeIsTotal
  <2>3. a.score > b.score \/ b.score > a.score \/ a.score = b.score
        OBVIOUS
  <2>. QED  BY <1>1, <2>2, <2>3 DEF Better
<1>4. ASSUME NEW a \in S, NEW b \in S, NEW c \in S, <<a, b>> \in R, <<b, c>> \in R PROVE <<a, c>> \in R
  <2>1. Better(a, b) /\ Better(b, c)
        BY <1>1, <1>4
  <2>2. a.score \in Int /\ b.score \in Int /\ c.score \in Int
        OBVIOUS
  <2>3. CASE a.score > b.score \/ b.score > c.score
    <3>1. a.score > c.score
          BY <2>1, <2>2, <2>3 DEF Better
    <3>. QED  BY <1>1, <3>1 DEF Better
  <2>4. CASE ~(a.score > b.score) /\ ~(b.score > c.score)
    <3>1. a.score = b.score /\ b.score = c.score /\ Before(a.tokens, b.tokens) /\ Before(b.tokens, c.tokens)
          BY <2>1, <2>4 DEF Better
    <3>2. Before(a.tokens, c.tokens)
          BY <3>1, BeforeIsTransitive
    <3>. QED  BY <1>1, <3>1, <3>2 DEF Better
  <2>. QED  BY <2>3, <2>4
<1>. QED  BY <1>2, <1>3, <1>4 DEF R, StrictOrder

-----------------------------------------------------------------------------
(* One token more *)

LEMMA AppendIs ==
  ASSUME NEW S, NEW s \in Seq(S), NEW t \in S
  PROVE  /\ Len(s) \in Nat /\ Append(s, t) \in Seq(S) /\ Len(Append(s, t)) = Len(s) + 1
         /\ DOMAIN s = 1..Len(s) /\ DOMAIN Append(s, t) = 1..(Len(s) + 1)
         /\ \A i \in 1..Len(s) : Append(s, t)[i] = s[i] /\ s[i] \in S
         /\ Append(s, t)[Len(s) + 1] = t
         /\ \A k \in 1..(Len(s) + 1) : SubSeq(Append(s, t), 1, k - 1) = SubSeq(s, 1, k - 1)
<1> DEFINE a == Append(s, t)
           n == Len(s)
<1>1. /\ n \in Nat /\ a \in Seq(S) /\ Len(a) = n + 1 /\ DOMAIN s = 1..n /\ a[n + 1] = t
      /\ \A i \in 1..n : a[i] = s[i] /\ s[i] \in S
      BY LenProperties, AppendProperties, ElementOfSeq
<1>2. DOMAIN a = 1..(n + 1)
  <2> HIDE DEF a, n
  <2>. QED  BY <1>1, LenProperties
<1> HIDE DEF a, n
<1>3. ASSUME NEW k \in 1..(n + 1) PROVE SubSeq(a, 1, k - 1) = SubSeq(s, 1, k - 1)
  <2>1. /\ k \in Int /\ k - 1 \in Int /\ (k - 1) - 1 + 1 = k - 1 /\ (1 <= k - 1 <=> k # 1)
        /\ \A i \in 1..(k - 1) : i \in 1..n /\ 1 + i - 1 = i /\ a[i] = s[i] /\ s[i] \in S /\ a[i] \in S
        BY <1>1, <1>3
  <2>2. /\ SubSeq(a, 1, k - 1) \in Seq(S) /\ SubSeq(s, 1, k - 1) \in Seq(S)
        /\ Len(SubSeq(a, 1, k - 1)) = (IF 1 <= k - 1 THEN (k - 1) - 1 + 1 ELSE 0)
        /\ Len(SubSeq(s, 1, k - 1)) = (IF 1 <= k - 1 THEN (k - 1) - 1 + 1 ELSE 0)
        /\ \A i \in 1..((k - 1) - 1 + 1) : /\ SubSeq(a, 1, k - 1)[i] = a[1 + i - 1]
                                           /\ SubSeq(s, 1, k - 1)[i] = s[1 + i - 1]
    <3>1. 1 \in Int
          OBVIOUS
    <3>. QED  BY <2>1, <3>1, SubSeqProperties
  <2>3. Len(SubSeq(a, 1, k - 1)) = Len(SubSeq(s, 1, k - 1))
        BY <2>2
  <2>4. \A i \in 1..Len(SubSeq(a, 1, k - 1)) : SubSeq(a, 1, k - 1)[i] = SubSeq(s, 1, k - 1)[i]
    <3>1. \A i \in 1..Len(SubSeq(a, 1, k - 1)) : i \in 1..(k - 1)
          BY <2>1, <2>2
    <3>. QED  BY <2>1, <2>2, <3>1
  <2>. QED  BY <2>2, <2>3, <2>4, SeqEqual
<1>. QED  BY <1>1, <1>2, <1>3 DEF a, n

\* The same m elements in two places.
Twice(m, x, j, k) == \A d \in 0..(m - 1) : x[j + d] = x[k + d]

LEMMA SamePiece ==
  ASSUME NEW S, NEW s \in Seq(S), NEW j \in Nat, NEW k \in Nat, NEW m \in Nat,
         1 <= j, 1 <= k, j + m - 1 <= Len(s), k + m - 1 <= Len(s)
  PROVE  SubSeq(s, j, j + m - 1) = SubSeq(s, k, k + m - 1) <=> Twice(m, s, j, k)
<1> DEFINE a == SubSeq(s, j, j + m - 1)
           b == SubSeq(s, k, k + m - 1)
<1>1. ASSUME NEW p \in {j, k}
      PROVE  /\ SubSeq(s, p, p + m - 1) \in Seq(S) /\ Len(SubSeq(s, p, p + m - 1)) = m
             /\ \A d \in 0..(m - 1) : SubSeq(s, p, p + m - 1)[d + 1] = s[p + d]
  <2>1. p \in Nat /\ 1 <= p /\ p + m - 1 <= Len(s) /\ Len(s) \in Nat
        BY LenProperties
  <2>2. \A i \in p..(p + m - 1) : i \in 1..Len(s) /\ s[i] \in S
        BY <2>1, ElementOfSeq
  <2>3. p \in Int /\ p + m - 1 \in Int
        BY <2>1
  <2>4. /\ SubSeq(s, p, p + m - 1) \in Seq(S)
        /\ Len(SubSeq(s, p, p + m - 1)) = IF p <= p + m - 1 THEN (p + m - 1) - p + 1 ELSE 0
        /\ \A i \in 1..((p + m - 1) - p + 1) : SubSeq(s, p, p + m - 1)[i] = s[p + i - 1]
        BY <2>2, <2>3, SubSeqProperties
  <2>5. ASSUME NEW d \in 0..(m - 1) PROVE SubSeq(s, p, p + m - 1)[d + 1] = s[p + d]
    <3>1. d + 1 \in 1..((p + m - 1) - p + 1) /\ p + (d + 1) - 1 = p + d
          BY <2>1
    <3>2. SubSeq(s, p, p + m - 1)[d + 1] = s[p + (d + 1) - 1]
          BY <2>4, <3>1
    <3>. QED  BY <3>1, <3>2
  <2>6. (IF p <= p + m - 1 THEN (p + m - 1) - p + 1 ELSE 0) = m
        BY <2>1
  <2>. QED  BY <2>4, <2>5, <2>6
<1>2. /\ a \in Seq(S) /\ Len(a) = m /\ \A d \in 0..(m - 1) : a[d + 1] = s[j + d]
      /\ b \in Seq(S) /\ Len(b) = m /\ \A d \in 0..(m - 1) : b[d + 1] = s[k + d]
      BY <1>1
<1> HIDE DEF a, b
<1>3. ASSUME \A d \in 0..(m - 1) : s[j + d] = s[k + d] PROVE a = b
  <2>1. ASSUME NEW i \in 1..m PROVE a[i] = b[i]
    <3>1. i - 1 \in 0..(m - 1) /\ (i - 1) + 1 = i
          OBVIOUS
    <3>2. a[(i - 1) + 1] = s[j + (i - 1)] /\ b[(i - 1) + 1] = s[k + (i - 1)]
          BY <1>2, <3>1
    <3>. QED  BY <1>3, <3>1, <3>2
  <2>. QED  BY <1>2, <2>1, SeqEqual
<1>4. ASSUME a = b PROVE \A d \in 0..(m - 1) : s[j + d] = s[k + d]
      BY <1>2, <1>4
<1>. QED  BY <1>3, <1>4 DEF a, b, Twice

-----------------------------------------------------------------------------
(* Well-formed strings *)

LEMMA WellFormedIs ==
  ASSUME NEW n \in Nat \ {0, 1}, NEW x \in Seq(Tokens)
  PROVE  WellFormed(n, x) <=>
           /\ \A k \in 1..Len(x) : x[k] \notin {PAD_TOKEN_ID, BOS_TOKEN_ID} /\ (x[k] = EOS_TOKEN_ID => k = Len(x))
           /\ \A j, k \in 1..(Len(x) - n + 1) : Twice(n, x, j, k) => j = k
<1>1. DOMAIN x = 1..Len(x) /\ Len(x) \in Nat
      BY LenProperties
<1>2. ASSUME NEW j \in 1..(Len(x) - n + 1), NEW k \in 1..(Len(x) - n + 1)
      PROVE  SubSeq(x, j, j + n - 1) = SubSeq(x, k, k + n - 1) <=> Twice(n, x, j, k)
  <2>1. /\ j \in Nat /\ k \in Nat /\ n \in Nat /\ 1 <= j /\ 1 <= k
        /\ j + n - 1 <= Len(x) /\ k + n - 1 <= Len(x)
        BY <1>1
  <2>. QED  BY <2>1, SamePiece
<1>. QED  BY <1>1, <1>2 DEF WellFormed

LEMMA BannedIs ==
  ASSUME NEW n \in Nat \ {0, 1}, NEW s \in Seq(Tokens), NEW t \in Tokens
  PROVE  t \in Banned(n, s) <=>
           \/ t \in {PAD_TOKEN_ID, BOS_TOKEN_ID}
           \/ \E j \in 1..(Len(s) - n + 1) : Twice(n, Append(s, t), j, Len(s) - n + 2)
<1> DEFINE L == Len(s)
           a == Append(s, t)
<1>1. L \in Nat /\ a[L + 1] = t /\ \A i \in 1..L : a[i] = s[i]
      BY AppendIs
<1> HIDE DEF L, a
<1>2. ASSUME NEW j \in 1..(L - n + 1)
      PROVE  /\ SubSeq(s, j, j + n - 2) = SubSeq(s, L - n + 2, L) /\ t = s[j + n - 1]
                 <=> Twice(n, a, j, L - n + 2)
             /\ j + n - 1 \in 1..L
  <2> DEFINE m == n - 1
             k == L - n + 2
  <2>1. /\ j \in Nat /\ k \in Nat /\ m \in Nat /\ 1 <= j /\ 1 <= k /\ j + m - 1 <= L /\ k + m - 1 <= L
        /\ j + n - 2 = j + m - 1 /\ k + m - 1 = L
    <3>1. L \in Nat
          BY <1>1
    <3>2. j \in Nat /\ 1 <= j /\ j <= L - n + 1 /\ n \in Nat /\ 2 <= n
          BY <3>1
    <3>. QED  BY <3>1, <3>2
  <2>2. SubSeq(s, j, j + m - 1) = SubSeq(s, k, k + m - 1) <=> Twice(m, s, j, k)
    <3> HIDE DEF m, k
    <3>. QED  BY <2>1, SamePiece DEF L
  <2>3. \A d \in 0..(m - 1) : /\ j + d \in 1..L /\ k + d \in 1..L
                              /\ a[j + d] = s[j + d] /\ a[k + d] = s[k + d]
        BY <1>1
  <2>4. j + m \in 1..L /\ a[j + m] = s[j + m] /\ k + m = L + 1 /\ a[k + m] = t
        BY <1>1
  <2>5. 0..(n - 1) = 0..(m - 1) \cup {m} /\ j + n - 1 = j + m
        OBVIOUS
  <2> HIDE DEF m, k
  <2>6. Twice(n, a, j, k) <=> Twice(m, s, j, k) /\ s[j + m] = t
    <3>1. Twice(n, a, j, k) <=> (\A d \in 0..(m - 1) : a[j + d] = a[k + d]) /\ a[j + m] = a[k + m]
          BY <2>5 DEF Twice
    <3>. QED  BY <2>3, <2>4, <3>1 DEF Twice
  <2>. QED  BY <2>1, <2>2, <2>4, <2>5, <2>6 DEF k
<1>3. t \in Banned(n, s) <=>
        \/ t \in {PAD_TOKEN_ID, BOS_TOKEN_ID}
        \/ \E j \in 1..(L - n + 1) : SubSeq(s, j, j + n - 2) = SubSeq(s, L - n + 2, L) /\ t = s[j + n - 1]
      BY DEF Banned, L
<1>. QED  BY <1>2, <1>3 DEF L, a

\* A token more is well formed when it is not banned.
LEMMA WellFormedMore ==
  ASSUME NEW n \in Nat \ {0, 1}, NEW s \in Seq(Tokens), NEW t \in Tokens,
         WellFormed(n, s), \A k \in DOMAIN s : s[k] # EOS_TOKEN_ID
  PROVE  WellFormed(n, Append(s, t)) <=> t \notin Banned(n, s)
<1> DEFINE L == Len(s)
           a == Append(s, t)
           p == L - n + 2
<1>1. /\ L \in Nat /\ a \in Seq(Tokens) /\ Len(a) = L + 1 /\ DOMAIN s = 1..L
      /\ a[L + 1] = t /\ \A i \in 1..L : a[i] = s[i]
      BY AppendIs
<1>2. /\ \A k \in 1..L : s[k] \notin {PAD_TOKEN_ID, BOS_TOKEN_ID}
      /\ \A j, k \in 1..(L - n + 1) : Twice(n, s, j, k) => j = k
      BY WellFormedIs
<1>3. t \in Banned(n, s) <=>
        \/ t \in {PAD_TOKEN_ID, BOS_TOKEN_ID}
        \/ \E j \in 1..(L - n + 1) : Twice(n, a, j, p)
      BY BannedIs
<1>4. p \in Int /\ p = (L + 1) - n + 1 /\ p = (L - n + 1) + 1 /\ L - n + 1 = p - 1
      BY <1>1
<1> HIDE DEF L, a, p
<1>5. WellFormed(n, a) <=>
        /\ \A k \in 1..(L + 1) : a[k] \notin {PAD_TOKEN_ID, BOS_TOKEN_ID} /\ (a[k] = EOS_TOKEN_ID => k = L + 1)
        /\ \A j, k \in 1..p : Twice(n, a, j, k) => j = k
      BY <1>1, <1>4, WellFormedIs
<1>6. (\A k \in 1..(L + 1) : a[k] \notin {PAD_TOKEN_ID, BOS_TOKEN_ID} /\ (a[k] = EOS_TOKEN_ID => k = L + 1))
        <=> t \notin {PAD_TOKEN_ID, BOS_TOKEN_ID}
  <2>1. \A k \in 1..(L + 1) : k \in 1..L \/ k = L + 1
        BY <1>1
  <2>2. L + 1 \in 1..(L + 1)
        BY <1>1
  <2>3. \A k \in 1..L : a[k] = s[k] /\ s[k] \notin {PAD_TOKEN_ID, BOS_TOKEN_ID} /\ s[k] # EOS_TOKEN_ID
        BY <1>1, <1>2
  <2>. QED  BY <1>1, <2>1, <2>2, <2>3
<1>7. ASSUME NEW j \in 1..(p - 1), NEW k \in 1..(p - 1), Twice(n, a, j, k) PROVE j = k
  <2>1. \A d \in 0..(n - 1) : /\ j + d \in 1..L /\ k + d \in 1..L
                              /\ a[j + d] = s[j + d] /\ a[k + d] = s[k + d]
        BY <1>1, <1>4
  <2>2. Twice(n, s, j, k)
        BY <1>7, <2>1 DEF Twice
  <2>. QED  BY <1>2, <1>4, <2>2
<1>8. \A j, k : Twice(n, a, j, k) => Twice(n, a, k, j)
      BY DEF Twice
<1>9. (\A j, k \in 1..p : Twice(n, a, j, k) => j = k) <=> ~ \E j \in 1..(p - 1) : Twice(n, a, j, p)
  <2>1. ASSUME NEW j \in 1..(p - 1), Twice(n, a, j, p) PROVE j \in 1..p /\ p \in 1..p /\ j # p
        BY <1>4
  <2>2. ASSUME NEW j \in 1..p, NEW k \in 1..p, Twice(n, a, j, k), j # k
        PROVE  \E i \in 1..(p - 1) : Twice(n, a, i, p)
    <3>1. j = p \/ j \in 1..(p - 1)
          BY <1>4
    <3>2. k = p \/ k \in 1..(p - 1)
          BY <1>4
    <3>. QED  BY <1>7, <1>8, <2>2, <3>1, <3>2
  <2>. QED  BY <2>1, <2>2
<1>. QED  BY <1>3, <1>4, <1>5, <1>6, <1>9 DEF a

\* A piece of a well-formed string is well formed.
LEMMA WellFormedLess ==
  ASSUME NEW n \in Nat \ {0, 1}, NEW s \in Seq(Tokens), NEW t \in Tokens, WellFormed(n, Append(s, t))
  PROVE  WellFormed(n, s) /\ \A k \in DOMAIN s : s[k] # EOS_TOKEN_ID
<1> DEFINE L == Len(s)
           a == Append(s, t)
<1>1. /\ L \in Nat /\ a \in Seq(Tokens) /\ Len(a) = L + 1 /\ DOMAIN s = 1..L
      /\ \A i \in 1..L : a[i] = s[i]
      BY AppendIs
<1>2. /\ \A k \in 1..(L + 1) : a[k] \notin {PAD_TOKEN_ID, BOS_TOKEN_ID} /\ (a[k] = EOS_TOKEN_ID => k = L + 1)
      /\ \A j, k \in 1..((L + 1) - n + 1) : Twice(n, a, j, k) => j = k
      BY <1>1, WellFormedIs
<1> HIDE DEF L, a
<1>3. \A k \in 1..L : k \in 1..(L + 1) /\ k # L + 1 /\ a[k] = s[k]
      BY <1>1
<1>4. \A k \in 1..L : s[k] \notin {PAD_TOKEN_ID, BOS_TOKEN_ID} /\ s[k] # EOS_TOKEN_ID
      BY <1>2, <1>3
<1>5. ASSUME NEW j \in 1..(L - n + 1), NEW k \in 1..(L - n + 1), Twice(n, s, j, k) PROVE j = k
  <2>1. /\ j \in 1..((L + 1) - n + 1) /\ k \in 1..((L + 1) - n + 1)
        /\ \A d \in 0..(n - 1) : /\ j + d \in 1..L /\ k + d \in 1..L
                                 /\ a[j + d] = s[j + d] /\ a[k + d] = s[k + d]
        BY <1>1
  <2>2. Twice(n, a, j, k)
        BY <1>5, <2>1 DEF Twice
  <2>. QED  BY <1>2, <2>1, <2>2
<1>. QED  BY <1>1, <1>4, <1>5, WellFormedIs DEF L

-----------------------------------------------------------------------------
(* Probabilities *)

\* f adds up the first n of g.
Sums(g, n, f) == f = [k \in 0..n |-> IF k = 0 THEN 0 ELSE f[k - 1] + g[k]]
Summable(g, n) == \E f : Sums(g, n, f)

LEMMA SumsMore ==
  ASSUME NEW g, NEW n \in Nat, Summable(g, n) PROVE Summable(g, n + 1)
<1>1. PICK f : Sums(g, n, f)
      BY DEF Summable
<1> DEFINE h == [k \in 0..(n + 1) |-> IF k <= n THEN f[k] ELSE f[n] + g[n + 1]]
<1>2. DOMAIN f = 0..n /\ \A k \in 0..n : f[k] = IF k = 0 THEN 0 ELSE f[k - 1] + g[k]
  <2>1. f = [k \in 0..n |-> IF k = 0 THEN 0 ELSE f[k - 1] + g[k]]
        BY <1>1 DEF Sums
  <2>. QED  BY <2>1
<1>3. ASSUME NEW k \in 0..(n + 1) PROVE h[k] = IF k = 0 THEN 0 ELSE h[k - 1] + g[k]
  <2>1. CASE k \in 0..n
    <3>1. h[k] = f[k] /\ (k # 0 => k - 1 \in 0..n /\ h[k - 1] = f[k - 1])
          BY <2>1
    <3>. QED  BY <1>2, <2>1, <3>1
  <2>2. CASE k = n + 1
    <3>1. h[k] = f[n] + g[n + 1] /\ k # 0 /\ k - 1 = n /\ h[k - 1] = f[n]
          BY <2>2
    <3>. QED  BY <2>2, <3>1
  <2>3. k \in 0..n \/ k = n + 1
        OBVIOUS
  <2>. QED  BY <2>1, <2>2, <2>3
<1>4. h = [k \in 0..(n + 1) |-> IF k = 0 THEN 0 ELSE h[k - 1] + g[k]]
  <2>1. h = [k \in 0..(n + 1) |-> h[k]]
        OBVIOUS
  <2> HIDE DEF h
  <2>. QED  BY <1>3, <2>1
<1>. QED  BY <1>4 DEF Sums, Summable

LEMMA AllSums == ASSUME NEW g, NEW n \in Nat PROVE Summable(g, n)
<1> DEFINE Bad == {k \in Nat : ~Summable(g, k)}
<1>1. SUFFICES ASSUME n \in Bad PROVE FALSE
      OBVIOUS
<1>2. PICK k \in Bad : \A j \in Bad : k <= j
  <2>1. Bad \in SUBSET Nat /\ Bad # {}
        BY <1>1
  <2> HIDE DEF Bad
  <2>. QED  BY <2>1, SmallestOf
<1>3. k # 0
  <2>1. Sums(g, 0, [j \in 0..0 |-> 0])
        BY DEF Sums
  <2>2. Summable(g, 0)
        BY <2>1 DEF Summable
  <2>. QED  BY <2>2
<1>4. k - 1 \in Nat /\ k - 1 \notin Bad /\ k = (k - 1) + 1
      BY <1>2, <1>3
<1>5. Summable(g, (k - 1) + 1)
      BY <1>4, SumsMore
<1>. QED  BY <1>4, <1>5

\* Sums of numbers are numbers, and depend on what they add.
LEMMA SumsAgree ==
  ASSUME NEW g, NEW h, NEW n \in Nat, NEW p \in Nat, n <= p, NEW e, NEW f, Sums(g, n, e), Sums(h, p, f),
         \A k \in 1..n : g[k] = h[k] /\ g[k] \in Int
  PROVE  e[n] = f[n] /\ e[n] \in Int
<1> DEFINE Bad == {k \in 0..n : ~(e[k] = f[k] /\ e[k] \in Int)}
<1>1. \A k \in 0..n : e[k] = IF k = 0 THEN 0 ELSE e[k - 1] + g[k]
  <2>1. e = [k \in 0..n |-> IF k = 0 THEN 0 ELSE e[k - 1] + g[k]]
        BY DEF Sums
  <2>. QED  BY <2>1
<1>2. \A k \in 0..p : f[k] = IF k = 0 THEN 0 ELSE f[k - 1] + h[k]
  <2>1. f = [k \in 0..p |-> IF k = 0 THEN 0 ELSE f[k - 1] + h[k]]
        BY DEF Sums
  <2>. QED  BY <2>1
<1>3. SUFFICES ASSUME n \in Bad PROVE FALSE
      OBVIOUS
<1>4. PICK k \in Bad : \A j \in Bad : k <= j
  <2>1. Bad \in SUBSET Nat /\ Bad # {}
        BY <1>3
  <2> HIDE DEF Bad
  <2>. QED  BY <2>1, SmallestOf
<1>5. k \in 0..n /\ k \in 0..p
      OBVIOUS
<1>6. k # 0
      BY <1>1, <1>2, <1>5
<1>7. k \in 1..n /\ k - 1 \in 0..n /\ k - 1 \notin Bad
      BY <1>4, <1>5, <1>6
<1>8. e[k] = e[k - 1] + g[k] /\ f[k] = f[k - 1] + h[k] /\ e[k - 1] = f[k - 1] /\ e[k - 1] \in Int
      BY <1>1, <1>2, <1>5, <1>6, <1>7
<1>. QED  BY <1>7, <1>8

\* The tokens' logarithms, one after the other.
Steps(m, x) == [k \in 1..Len(x) |-> Network(m, SubSeq(x, 1, k - 1), x[k])]

LEMMA ProbabilityIs ==
  ASSUME NEW m, NEW x \in Seq(Tokens)
  PROVE  \E f : Sums(Steps(m, x), Len(x), f) /\ Probability(m, x) = f[Len(x)]
<1> DEFINE P(f) == f = [k \in 0..Len(x) |-> IF k = 0 THEN 0 ELSE f[k - 1] + Network(m, SubSeq(x, 1, k - 1), x[k])]
<1>1. Len(x) \in Nat
      BY LenProperties
<1>2. \A f : P(f) <=> Sums(Steps(m, x), Len(x), f)
  <2>1. ASSUME NEW f
        PROVE  [k \in 0..Len(x) |-> IF k = 0 THEN 0 ELSE f[k - 1] + Network(m, SubSeq(x, 1, k - 1), x[k])] =
               [k \in 0..Len(x) |-> IF k = 0 THEN 0 ELSE f[k - 1] + Steps(m, x)[k]]
        BY <1>1 DEF Steps
  <2>. QED  BY <2>1 DEF Sums
<1>3. \E f : P(f)
      BY <1>1, <1>2, AllSums DEF Summable
<1>4. P(CHOOSE f : P(f))
      BY <1>3
<1>5. Probability(m, x) = (CHOOSE f : P(f))[Len(x)]
      BY DEF Probability
<1>. QED  BY <1>2, <1>4, <1>5

LEMMA ProbabilityOfNothing == ASSUME NEW m PROVE Probability(m, <<>>) = 0
<1>1. PICK f : Sums(Steps(m, <<>>), Len(<<>>), f) /\ Probability(m, <<>>) = f[Len(<<>>)]
  <2>1. <<>> \in Seq(Tokens)
        OBVIOUS
  <2>. QED  BY <2>1, ProbabilityIs
<1>2. Len(<<>>) = 0 /\ 0 \in 0..0
      OBVIOUS
<1>. QED  BY <1>1, <1>2 DEF Sums

LEMMA ProbabilityMore ==
  ASSUME NEW m, NEW s \in Seq(Tokens), NEW t \in Tokens, \A k \in 1..Len(s) : Steps(m, s)[k] \in Int
  PROVE  /\ Probability(m, s) \in Int
         /\ Probability(m, Append(s, t)) = Probability(m, s) + Network(m, s, t)
         /\ \A k \in 1..Len(s) : Steps(m, Append(s, t))[k] = Steps(m, s)[k]
         /\ Steps(m, Append(s, t))[Len(s) + 1] = Network(m, s, t)
<1> DEFINE a == Append(s, t)
           n == Len(s)
<1>1. /\ n \in Nat /\ a \in Seq(Tokens) /\ Len(a) = n + 1 /\ a[n + 1] = t
      /\ \A i \in 1..n : a[i] = s[i]
      /\ \A k \in 1..(n + 1) : SubSeq(a, 1, k - 1) = SubSeq(s, 1, k - 1)
      BY AppendIs
<1>2. SubSeq(s, 1, n) = s
      BY SubSeqFull
<1>3. PICK e : Sums(Steps(m, s), n, e) /\ Probability(m, s) = e[n]
      BY ProbabilityIs
<1>4. PICK f : Sums(Steps(m, a), n + 1, f) /\ Probability(m, a) = f[n + 1]
      BY <1>1, ProbabilityIs
<1> HIDE DEF a
<1>5. \A k \in 1..n : Steps(m, a)[k] = Steps(m, s)[k]
  <2>1. ASSUME NEW k \in 1..n PROVE Steps(m, a)[k] = Steps(m, s)[k]
    <3>1. k \in 1..(n + 1) /\ a[k] = s[k] /\ SubSeq(a, 1, k - 1) = SubSeq(s, 1, k - 1)
          BY <1>1
    <3>2. Steps(m, a)[k] = Network(m, SubSeq(a, 1, k - 1), a[k])
          BY <1>1, <3>1 DEF Steps
    <3>3. Steps(m, s)[k] = Network(m, SubSeq(s, 1, k - 1), s[k])
          BY DEF Steps
    <3>. QED  BY <3>1, <3>2, <3>3
  <2>. QED  BY <2>1
<1>6. Steps(m, a)[n + 1] = Network(m, s, t)
  <2>1. n + 1 \in 1..(n + 1) /\ (n + 1) - 1 = n
        BY <1>1
  <2>2. SubSeq(a, 1, (n + 1) - 1) = SubSeq(s, 1, (n + 1) - 1)
        BY <1>1, <2>1
  <2>3. Steps(m, a)[n + 1] = Network(m, SubSeq(a, 1, (n + 1) - 1), a[n + 1])
        BY <1>1, <2>1 DEF Steps
  <2>. QED  BY <1>1, <1>2, <2>1, <2>2, <2>3
<1>7. e[n] = f[n] /\ e[n] \in Int
  <2>1. n <= n + 1 /\ n + 1 \in Nat /\ n \in Nat
        BY <1>1
  <2> HIDE DEF n
  <2>2. \A k \in 1..n : Steps(m, s)[k] = Steps(m, a)[k] /\ Steps(m, s)[k] \in Int
        BY <1>5 DEF n
  <2>. QED  BY <1>3, <1>4, <2>1, <2>2, SumsAgree
<1>8. f[n + 1] = f[n] + Steps(m, a)[n + 1]
  <2>1. n + 1 \in 0..(n + 1) /\ n + 1 # 0 /\ (n + 1) - 1 = n
        BY <1>1
  <2>2. f = [k \in 0..(n + 1) |-> IF k = 0 THEN 0 ELSE f[k - 1] + Steps(m, a)[k]]
        BY <1>4 DEF Sums
  <2> HIDE DEF n
  <2>. QED  BY <2>1, <2>2
<1>. QED  BY <1>3, <1>4, <1>5, <1>6, <1>7, <1>8 DEF a

LEMMA PossibleMore ==
  ASSUME NEW m, NEW s \in Seq(Tokens), NEW t \in Tokens
  PROVE  Possible(m, Append(s, t)) <=> Possible(m, s) /\ Network(m, s, t) # Impossible
<1> DEFINE a == Append(s, t)
           n == Len(s)
<1>1. /\ n \in Nat /\ DOMAIN s = 1..n /\ DOMAIN a = 1..(n + 1) /\ a[n + 1] = t
      /\ \A i \in 1..n : a[i] = s[i]
      /\ \A k \in 1..(n + 1) : SubSeq(a, 1, k - 1) = SubSeq(s, 1, k - 1)
      BY AppendIs
<1>2. SubSeq(s, 1, n) = s
      BY SubSeqFull
<1> HIDE DEF a, n
<1>3. /\ n + 1 \in 1..(n + 1) /\ (n + 1) - 1 = n /\ \A k \in 1..n : k \in 1..(n + 1)
      /\ \A k \in 1..(n + 1) : k \in 1..n \/ k = n + 1
      BY <1>1
<1>4. SubSeq(a, 1, (n + 1) - 1) = s
      BY <1>1, <1>2, <1>3
<1>5. Possible(m, a) <=> \A k \in 1..(n + 1) : Network(m, SubSeq(a, 1, k - 1), a[k]) # Impossible
      BY <1>1 DEF Possible
<1>6. Possible(m, s) <=> \A k \in 1..n : Network(m, SubSeq(a, 1, k - 1), a[k]) # Impossible
      BY <1>1, <1>3 DEF Possible
<1>7. Network(m, SubSeq(a, 1, (n + 1) - 1), a[n + 1]) = Network(m, s, t)
      BY <1>1, <1>4
<1>. QED  BY <1>3, <1>5, <1>6, <1>7 DEF a

-----------------------------------------------------------------------------
(* The beams of strings *)

Networks == UNION {ToSet(c.samples) : c \in Calls}
Ended(x) == \E k \in DOMAIN x : x[k] = EOS_TOKEN_ID
BeamOf(m, x) == [score |-> Probability(m, x), tokens |-> x, finished |-> Ended(x)]
\* The strings a search may hold after n positions.
Strings(m, size, n) == {x \in Seq(Tokens) : Len(x) <= n /\ WellFormed(size, x) /\ Possible(m, x)}

LEMMA TokensAre == Tokens \in SUBSET Nat /\ IsFiniteSet(Tokens) /\ \A s \in Seq(Tokens) : s \in Seq(Nat)
<1>1. VocabularySize \in Nat
      BY Controls
<1>2. Tokens \in SUBSET Nat
      BY <1>1 DEF Tokens
<1>3. IsFiniteSet(Tokens)
  <2>1. 0 \in Int /\ VocabularySize - 1 \in Int
        BY <1>1
  <2>. QED  BY <2>1, FS_Interval DEF Tokens
<1>4. \A s \in Seq(Tokens) : s \in Seq(Nat)
      BY <1>2, SeqMonotonic
<1>. QED  BY <1>2, <1>3, <1>4

LEMMA LogarithmsAre ==
  ASSUME NEW m \in Networks, NEW x \in Seq(Tokens), Len(x) < TokenCount, NEW t \in Tokens
  PROVE  Network(m, x, t) \in Int /\ Network(m, x, t) >= Impossible /\ Impossible \in Int
<1>1. TokenCount \in Nat \ {0} /\ Len(x) \in Nat /\ x \in [1..Len(x) -> Tokens]
      BY Controls, LenProperties
<1>2. Len(x) \in 0..(TokenCount - 1)
      BY <1>1
<1>. QED  BY <1>1, <1>2, Logarithms DEF Networks

LEMMA StepsAre ==
  ASSUME NEW m \in Networks, NEW x \in Seq(Tokens), Len(x) <= TokenCount
  PROVE  (\A k \in 1..Len(x) : Steps(m, x)[k] \in Int) /\ Probability(m, x) \in Int
<1>1. TokenCount \in Nat \ {0} /\ Len(x) \in Nat
      BY Controls, LenProperties
<1>2. ASSUME NEW k \in 1..Len(x) PROVE Steps(m, x)[k] \in Int
  <2>1. x[k] \in Tokens /\ 1 \in Int /\ k - 1 \in Int /\ \A i \in 1..(k - 1) : i \in 1..Len(x)
        BY <1>1, ElementOfSeq
  <2>2. \A i \in 1..(k - 1) : x[i] \in Tokens
        BY <2>1, ElementOfSeq
  <2>3. /\ SubSeq(x, 1, k - 1) \in Seq(Tokens)
        /\ Len(SubSeq(x, 1, k - 1)) = IF 1 <= k - 1 THEN (k - 1) - 1 + 1 ELSE 0
        BY <2>1, <2>2, SubSeqProperties
  <2>4. Len(SubSeq(x, 1, k - 1)) < TokenCount
        BY <1>1, <2>3
  <2>. QED  BY <2>1, <2>3, <2>4, LogarithmsAre DEF Steps
<1>3. PICK f : Sums(Steps(m, x), Len(x), f) /\ Probability(m, x) = f[Len(x)]
      BY ProbabilityIs
<1>4. f[Len(x)] \in Int
  <2>1. Len(x) <= Len(x)
        BY <1>1
  <2>. QED  BY <1>1, <1>2, <1>3, <2>1, SumsAgree
<1>. QED  BY <1>2, <1>3, <1>4

\* A token more for a live beam.
LEMMA ExtensionIs ==
  ASSUME NEW m \in Networks, NEW x \in Seq(Tokens), Len(x) < TokenCount, ~Ended(x), NEW t \in Tokens
  PROVE  Extension(m, BeamOf(m, x), t) = BeamOf(m, Append(x, t))
<1>1. TokenCount \in Nat \ {0} /\ Len(x) \in Nat
      BY Controls, LenProperties
<1>2. Probability(m, Append(x, t)) = Probability(m, x) + Network(m, x, t)
  <2>1. Len(x) <= TokenCount
        BY <1>1
  <2>2. \A k \in 1..Len(x) : Steps(m, x)[k] \in Int
        BY <2>1, StepsAre
  <2>. QED  BY <2>2, ProbabilityMore
<1>3. Ended(Append(x, t)) <=> t = EOS_TOKEN_ID
  <2>1. /\ DOMAIN x = 1..Len(x) /\ DOMAIN Append(x, t) = 1..(Len(x) + 1)
        /\ \A i \in 1..Len(x) : Append(x, t)[i] = x[i]
        /\ Append(x, t)[Len(x) + 1] = t
        BY AppendIs
  <2>2. Len(x) + 1 \in 1..(Len(x) + 1) /\ \A k \in 1..(Len(x) + 1) : k \in 1..Len(x) \/ k = Len(x) + 1
        BY <1>1
  <2>3. \A k \in 1..Len(x) : x[k] # EOS_TOKEN_ID
        BY <2>1 DEF Ended
  <2>. QED  BY <2>1, <2>2, <2>3 DEF Ended
<1>4. Ended(Append(x, t)) = (t = EOS_TOKEN_ID)
      BY <1>3 DEF Ended
<1>. QED  BY <1>2, <1>4 DEF Extension, BeamOf

\* It stays among the strings when the token is allowed.
LEMMA StringsMore ==
  ASSUME NEW m, NEW size \in Nat \ {0, 1}, NEW n \in Nat,
         NEW x \in Strings(m, size, n), ~Ended(x), NEW t \in Tokens
  PROVE  /\ Append(x, t) \in Seq(Tokens) /\ Len(Append(x, t)) <= n + 1
         /\ WellFormed(size, Append(x, t)) /\ Possible(m, Append(x, t)) <=> t \in Allowed(m, size, x)
<1>1. x \in Seq(Tokens) /\ Len(x) <= n /\ WellFormed(size, x) /\ Possible(m, x)
      BY DEF Strings
<1>2. Append(x, t) \in Seq(Tokens) /\ Len(Append(x, t)) = Len(x) + 1 /\ Len(x) \in Nat
      BY <1>1, AppendIs
<1>3. WellFormed(size, Append(x, t)) <=> t \notin Banned(size, x)
      BY <1>1, WellFormedMore DEF Ended
<1>4. Possible(m, Append(x, t)) <=> Network(m, x, t) # Impossible
      BY <1>1, PossibleMore
<1>. QED  BY <1>1, <1>2, <1>3, <1>4 DEF Allowed

-----------------------------------------------------------------------------
(* The tokens a row gives *)

LEMMA AllowedAre ==
  ASSUME NEW m \in Networks, NEW size, NEW x \in Seq(Tokens), Len(x) < TokenCount
  PROVE  /\ Allowed(m, size, x) \in SUBSET Tokens /\ IsFiniteSet(Allowed(m, size, x))
         /\ StrictOrder(Allowed(m, size, x),
              {p \in Allowed(m, size, x) \X Allowed(m, size, x) : Likelier(m, x, p[1], p[2])})
<1> DEFINE A == Allowed(m, size, x)
<1>1. A \in SUBSET Tokens
      BY DEF Allowed
<1> HIDE DEF A
<1>2. A \in SUBSET Nat /\ IsFiniteSet(A)
      BY <1>1, TokensAre, FS_Subset
<1>3. \A t \in A : Network(m, x, t) \in Int
      BY <1>1, LogarithmsAre
<1>4. StrictOrder(A, {p \in A \X A : Likelier(m, x, p[1], p[2])})
      BY <1>2, <1>3, LikelierIsStrict
<1>. QED  BY <1>1, <1>2, <1>4 DEF A

LEMMA AcceptedAre ==
  ASSUME NEW m \in Networks, NEW size, NEW width \in Nat, NEW x \in Seq(Tokens), Len(x) < TokenCount
  PROVE  /\ Accepted(m, size, width, x) \in Seq(Allowed(m, size, x))
         /\ ToSet(Accepted(m, size, width, x)) \in SUBSET Allowed(m, size, x)
         /\ IsFiniteSet(ToSet(Accepted(m, size, width, x)))
         /\ \A t \in Allowed(m, size, x) \ ToSet(Accepted(m, size, width, x)) :
              /\ Cardinality(ToSet(Accepted(m, size, width, x))) >= width
              /\ \A u \in ToSet(Accepted(m, size, width, x)) : Likelier(m, x, u, t)
<1> DEFINE A == Allowed(m, size, x)
           R == {p \in A \X A : Likelier(m, x, p[1], p[2])}
           F == {t \in A : Rank(A, R, t) < width}
           a == Accepted(m, size, width, x)
<1>1. A \in SUBSET Tokens /\ IsFiniteSet(A) /\ StrictOrder(A, R)
      BY AllowedAre
<1>2. a = First(Sorted(A, R), width)
      BY DEF Accepted
<1> HIDE DEF A, R, a
<1>3. a \in Seq(A) /\ ToSet(a) = F
      BY <1>1, <1>2, FirstSorted
<1>4. F \in SUBSET A /\ IsFiniteSet(F)
      BY <1>1, FS_Subset
\* The places below width are as many, and each is somebody's.
<1>5. ASSUME NEW t \in A, t \notin F PROVE Cardinality(F) >= width
  <2>1. /\ Rank(A, R, t) \in 0..(Cardinality(A) - 1) /\ Cardinality(A) \in Nat
        /\ ~(Rank(A, R, t) < width)
        BY <1>1, <1>5, RankIs
  <2>2. \A k \in 0..(width - 1) : k \in 0..(Cardinality(A) - 1)
        BY <2>1
  <2> DEFINE g == [k \in 0..(width - 1) |-> CHOOSE u \in A : Rank(A, R, u) = k]
  <2>3. \A k \in 0..(width - 1) : g[k] \in A /\ Rank(A, R, g[k]) = k
    <3>1. ASSUME NEW k \in 0..(width - 1) PROVE g[k] \in A /\ Rank(A, R, g[k]) = k
      <4>1. \E u \in A : Rank(A, R, u) = k
            BY <1>1, <2>2, RankOf
      <4>. QED  BY <4>1
    <3>. QED  BY <3>1
  <2>4. g \in Injection(0..(width - 1), F)
    <3>1. g \in [0..(width - 1) -> F]
          BY <2>3
    <3>2. \A j, k \in 0..(width - 1) : g[j] = g[k] => j = k
          BY <2>3
    <3> HIDE DEF g
    <3>. QED  BY <3>1, <3>2 DEF Injection, IsInjective
  <2>5. Cardinality(0..(width - 1)) = width
    <3>1. 0 \in Int /\ width - 1 \in Int
          OBVIOUS
    <3>2. Cardinality(0..(width - 1)) = IF 0 > width - 1 THEN 0 ELSE (width - 1) - 0 + 1
          BY <3>1, FS_Interval
    <3>. QED  BY <3>2
  <2>6. Cardinality(0..(width - 1)) <= Cardinality(F)
    <3> HIDE DEF g, F
    <3>. QED  BY <1>4, <2>4, FS_Injection
  <2>7. Cardinality(F) \in Nat
        BY <1>4, FS_CardinalityType
  <2>. QED  BY <2>5, <2>6, <2>7
<1>6. ASSUME NEW t \in A, t \notin F, NEW u \in F PROVE Likelier(m, x, u, t)
  <2>1. /\ Rank(A, R, t) \in 0..(Cardinality(A) - 1) /\ Cardinality(A) \in Nat
        /\ Rank(A, R, u) \in 0..(Cardinality(A) - 1)
        BY <1>1, RankIs
  <2>2. ~(Rank(A, R, t) < width) /\ Rank(A, R, u) < width /\ u # t
        BY <1>6
  <2>3. ~(<<t, u>> \in R)
    <3>1. <<t, u>> \in R => Rank(A, R, t) < Rank(A, R, u)
          BY <1>1, RankIs
    <3>. QED  BY <2>1, <2>2, <3>1
  <2>4. <<u, t>> \in R
        BY <1>1, <2>2, <2>3 DEF StrictOrder
  <2>. QED  BY <2>4 DEF R
<1>7. \A t \in A \ F : Cardinality(F) >= width /\ \A u \in F : Likelier(m, x, u, t)
      BY <1>5, <1>6
<1>. QED  BY <1>3, <1>4, <1>7 DEF A, a

-----------------------------------------------------------------------------
(* What a position makes of the beams of a sample *)

\* The candidates of a sample with the beams bs.
CandidatesOf(m, size, width, bs) ==
  {b \in bs : b.finished} \cup
  UNION {{Extension(m, b, t) : t \in ToSet(Accepted(m, size, width, b.tokens))} : b \in {c \in bs : ~c.finished}}
BetterIn(S) == {p \in S \X S : Better(p[1], p[2])}
Beams(m, X) == {BeamOf(m, x) : x \in X}

LEMMA BeamsAre ==
  ASSUME NEW m \in Networks, NEW X \in SUBSET Seq(Tokens), \A x \in X : Len(x) <= TokenCount
  PROVE  /\ StrictOrder(Beams(m, X), BetterIn(Beams(m, X)))
         /\ \A x, y \in X : Better(BeamOf(m, y), BeamOf(m, x)) <=> Over(m, y, x)
<1>1. \A x \in X : BeamOf(m, x).score \in Int /\ BeamOf(m, x).tokens \in Seq(Nat)
      BY StepsAre, TokensAre DEF BeamOf
<1>2. \A a \in Beams(m, X) : a.score \in Int /\ a.tokens \in Seq(Nat) /\ a = BeamOf(m, a.tokens)
      BY <1>1 DEF Beams, BeamOf
<1>3. \A a, b \in Beams(m, X) : a.tokens = b.tokens => a = b
      BY <1>2
<1>4. StrictOrder(Beams(m, X), BetterIn(Beams(m, X)))
      BY <1>2, <1>3, BetterIsStrict DEF BetterIn
<1>. QED  BY <1>4 DEF Better, Over, BeamOf

LEMMA BeamsFinite == ASSUME NEW m, NEW X, IsFiniteSet(X) PROVE IsFiniteSet(Beams(m, X))
<1> DEFINE f == [y \in X |-> BeamOf(m, y)]
<1>1. f \in Surjection(X, Beams(m, X))
      BY DEF Surjection, Beams
<1> HIDE DEF f
<1>. QED  BY <1>1, FS_Surjection

\* There are as many beams as strings, and they are as many over one.
LEMMA BeamRank ==
  ASSUME NEW m \in Networks, NEW X \in SUBSET Seq(Tokens), IsFiniteSet(X), \A x \in X : Len(x) <= TokenCount,
         NEW x \in X
  PROVE  Rank(Beams(m, X), BetterIn(Beams(m, X)), BeamOf(m, x)) = Cardinality({y \in X : Over(m, y, x)})
<1> DEFINE Y == {y \in X : Over(m, y, x)}
           g == [y \in Y |-> BeamOf(m, y)]
           B == {b \in Beams(m, X) : <<b, BeamOf(m, x)>> \in BetterIn(Beams(m, X))}
<1>1. \A y \in X : <<BeamOf(m, y), BeamOf(m, x)>> \in BetterIn(Beams(m, X)) <=> Over(m, y, x)
  <2>1. \A y \in X : BeamOf(m, y) \in Beams(m, X)
        BY DEF Beams
  <2>2. \A y \in X : Better(BeamOf(m, y), BeamOf(m, x)) <=> Over(m, y, x)
        BY BeamsAre
  <2>. QED  BY <2>1, <2>2 DEF BetterIn
<1>2. g \in [Y -> B]
  <2>1. \A y \in Y : y \in X /\ BeamOf(m, y) \in Beams(m, X) /\ <<BeamOf(m, y), BeamOf(m, x)>> \in BetterIn(Beams(m, X))
        BY <1>1 DEF Beams
  <2>. QED  BY <2>1
<1>3. \A y, z \in Y : g[y] = g[z] => y = z
      BY DEF BeamOf
<1>4. \A b \in B : \E y \in Y : g[y] = b
      BY <1>1 DEF Beams
<1>5. IsFiniteSet(Y)
      BY FS_Subset
<1> HIDE DEF g, Y, B
<1>6. g \in Bijection(Y, B)
      BY <1>2, <1>3, <1>4 DEF Bijection, Injection, Surjection, IsInjective
<1>7. Cardinality(B) = Cardinality(Y)
      BY <1>5, <1>6, FS_Bijection DEF ExistsBijection
<1>. QED  BY <1>7 DEF Rank, Y, B

LEMMA ReachableIs ==
  ASSUME NEW m \in Networks, NEW size \in Nat \ {0, 1}, NEW n \in Nat, n < TokenCount,
         NEW bs \in SUBSET Beams(m, Strings(m, size, n)), IsFiniteSet(bs)
  PROVE  /\ Reachable(m, size, bs) \in SUBSET Strings(m, size, n + 1) /\ IsFiniteSet(Reachable(m, size, bs))
         /\ Reachable(m, size, bs) =
              {b.tokens : b \in {c \in bs : c.finished}} \cup
              UNION {{Append(b.tokens, t) : t \in Allowed(m, size, b.tokens)} : b \in {c \in bs : ~c.finished}}
<1> DEFINE K == {b.tokens : b \in {c \in bs : c.finished}}
           L == {c \in bs : ~c.finished}
           G == {Append(b.tokens, t) : t \in Tokens, b \in L}
           U == UNION {{Append(b.tokens, t) : t \in Allowed(m, size, b.tokens)} : b \in L}
           all == Reachable(m, size, bs)
<1>1. \A b \in bs : b.tokens \in Strings(m, size, n) /\ b = BeamOf(m, b.tokens) /\ b.finished = Ended(b.tokens)
      BY DEF Beams, BeamOf
<1>2. all = {x \in K \cup G : WellFormed(size, x) /\ Possible(m, x)}
      BY DEF Reachable
<1>3. \A x \in K : WellFormed(size, x) /\ Possible(m, x) /\ x \in Strings(m, size, n + 1)
      BY <1>1, LenProperties DEF Strings
<1>4. ASSUME NEW b \in L, NEW t \in Tokens
      PROVE  /\ Append(b.tokens, t) \in Seq(Tokens) /\ Len(Append(b.tokens, t)) <= n + 1
             /\ WellFormed(size, Append(b.tokens, t)) /\ Possible(m, Append(b.tokens, t))
                  <=> t \in Allowed(m, size, b.tokens)
  <2>1. b.tokens \in Strings(m, size, n) /\ ~Ended(b.tokens)
        BY <1>1
  <2>. QED  BY <2>1, StringsMore
<1>5. \A b \in L : Allowed(m, size, b.tokens) \in SUBSET Tokens
      BY DEF Allowed
<1>6. all = K \cup U
  <2>1. ASSUME NEW x \in all PROVE x \in K \cup U
    <3>1. CASE x \in K
          BY <3>1
    <3>2. CASE x \in G
      <4>1. PICK b \in L, t \in Tokens : x = Append(b.tokens, t)
            BY <3>2
      <4>2. t \in Allowed(m, size, b.tokens)
            BY <1>2, <1>4, <2>1, <4>1
      <4>. QED  BY <4>1, <4>2
    <3>. QED  BY <1>2, <2>1, <3>1, <3>2
  <2>2. ASSUME NEW x \in U PROVE x \in all
    <3>1. PICK b \in L : \E t \in Allowed(m, size, b.tokens) : x = Append(b.tokens, t)
          BY <2>2
    <3>2. PICK t \in Allowed(m, size, b.tokens) : x = Append(b.tokens, t)
          BY <3>1
    <3>3. t \in Tokens
          BY <1>5
    <3>4. x \in G /\ WellFormed(size, x) /\ Possible(m, x)
          BY <1>4, <3>2, <3>3
    <3>. QED  BY <1>2, <3>4
  <2>3. K \in SUBSET all
        BY <1>2, <1>3
  <2>. QED  BY <2>1, <2>2, <2>3
<1>7. ASSUME NEW x \in all PROVE x \in Strings(m, size, n + 1)
  <2>1. CASE x \in K
        BY <1>3, <2>1
  <2>2. CASE x \in G
    <3>1. PICK b \in L, t \in Tokens : x = Append(b.tokens, t)
          BY <2>2
    <3>2. x \in Seq(Tokens) /\ Len(x) <= n + 1
          BY <1>4, <3>1
    <3>. QED  BY <1>2, <1>7, <3>2 DEF Strings
  <2>. QED  BY <1>2, <1>7, <2>1, <2>2
<1>8. IsFiniteSet(all)
  <2> DEFINE fin == {c \in bs : c.finished}
             k == [b \in fin |-> b.tokens]
             g == [p \in L \X Tokens |-> Append(p[1].tokens, p[2])]
  <2>1. IsFiniteSet(L \X Tokens) /\ IsFiniteSet(fin)
    <3>1. L \in SUBSET bs /\ fin \in SUBSET bs
          OBVIOUS
    <3>2. IsFiniteSet(L) /\ IsFiniteSet(fin)
          BY <3>1, FS_Subset
    <3> HIDE DEF L, fin
    <3>. QED  BY <3>2, TokensAre, FS_Product
  <2>2. k \in Surjection(fin, K)
        BY DEF Surjection
  <2>3. g \in Surjection(L \X Tokens, G)
    <3>1. g \in [L \X Tokens -> G]
          OBVIOUS
    <3>2. \A b \in L, t \in Tokens : <<b, t>> \in L \X Tokens /\ g[<<b, t>>] = Append(b.tokens, t)
          OBVIOUS
    <3>3. \A x \in G : \E b \in L, t \in Tokens : x = Append(b.tokens, t)
          OBVIOUS
    <3> HIDE DEF g, G, L
    <3>4. ASSUME NEW x \in G PROVE \E p \in L \X Tokens : g[p] = x
      <4>1. PICK b \in L, t \in Tokens : x = Append(b.tokens, t)
            BY <3>3
      <4>2. <<b, t>> \in L \X Tokens /\ g[<<b, t>>] = x
            BY <3>2, <4>1
      <4>. QED  BY <4>2
    <3>. QED  BY <3>1, <3>4 DEF Surjection
  <2>4. all \in SUBSET (K \cup G)
        BY <1>2
  <2> HIDE DEF fin, k, g, K, G, L, all
  <2>5. IsFiniteSet(K) /\ IsFiniteSet(G)
        BY <2>1, <2>2, <2>3, FS_Surjection
  <2>6. IsFiniteSet(K \cup G)
        BY <2>5, FS_Union
  <2>. QED  BY <2>4, <2>6, FS_Subset
<1>. QED  BY <1>6, <1>7, <1>8

-----------------------------------------------------------------------------
(* Trimming each row to its width best loses nothing *)

LEMMA LikelierIsBetter ==
  ASSUME NEW m \in Networks, NEW x \in Seq(Tokens), Len(x) < TokenCount, NEW t \in Tokens, NEW u \in Tokens,
         Likelier(m, x, u, t)
  PROVE  Better(BeamOf(m, Append(x, u)), BeamOf(m, Append(x, t)))
<1>1. Len(x) <= TokenCount /\ Len(x) \in Nat
      BY Controls, LenProperties
<1>2. \A k \in 1..Len(x) : Steps(m, x)[k] \in Int
      BY <1>1, StepsAre
<1>3. /\ Probability(m, x) \in Int
      /\ Probability(m, Append(x, u)) = Probability(m, x) + Network(m, x, u)
      /\ Probability(m, Append(x, t)) = Probability(m, x) + Network(m, x, t)
      BY <1>2, ProbabilityMore
<1>4. Network(m, x, u) \in Int /\ Network(m, x, t) \in Int
      BY LogarithmsAre
<1>5. Before(Append(x, u), Append(x, t)) <=> u < t
  <2>1. x \in Seq(Nat) /\ t \in Nat /\ u \in Nat
        BY TokensAre
  <2>. QED  BY <2>1, BeforeByLast
<1>6. Network(m, x, u) > Network(m, x, t) \/ (Network(m, x, u) = Network(m, x, t) /\ u < t)
      BY DEF Likelier
<1> DEFINE p == Probability(m, x)
           q == Network(m, x, u)
           r == Network(m, x, t)
<1>7. p + q > p + r \/ (p + q = p + r /\ u < t)
  <2>1. p \in Int /\ q \in Int /\ r \in Int
        BY <1>3, <1>4
  <2>2. q > r \/ (q = r /\ u < t)
        BY <1>6
  <2> HIDE DEF p, q, r
  <2>. QED  BY <2>1, <2>2
<1>. QED  BY <1>3, <1>5, <1>7 DEF Better, BeamOf

LEMMA CandidatesAre ==
  ASSUME NEW m \in Networks, NEW size \in Nat \ {0, 1}, NEW width \in Nat, NEW n \in Nat, n < TokenCount,
         NEW bs \in SUBSET Beams(m, Strings(m, size, n)), IsFiniteSet(bs)
  PROVE  LET C == CandidatesOf(m, size, width, bs)
             S == Beams(m, Reachable(m, size, bs))
         IN  /\ C \in SUBSET S
             /\ \A x \in S \ C : \E D \in SUBSET C : Cardinality(D) >= width /\ \A y \in D : Better(y, x)
<1> DEFINE C == CandidatesOf(m, size, width, bs)
           all == Reachable(m, size, bs)
           S == Beams(m, all)
           K == {b.tokens : b \in {c \in bs : c.finished}}
           L == {c \in bs : ~c.finished}
           U == UNION {{Append(b.tokens, t) : t \in Allowed(m, size, b.tokens)} : b \in L}
           A(b) == ToSet(Accepted(m, size, width, b.tokens))
<1>1. all = K \cup U
      BY ReachableIs
<1>2. /\ \A b \in bs : b.tokens \in Strings(m, size, n) /\ b = BeamOf(m, b.tokens) /\ b.finished = Ended(b.tokens)
      BY DEF Beams, BeamOf
<1>3. ASSUME NEW b \in L
      PROVE  /\ b \in bs /\ b.tokens \in Seq(Tokens) /\ Len(b.tokens) < TokenCount /\ ~Ended(b.tokens)
             /\ A(b) \in SUBSET Allowed(m, size, b.tokens) /\ IsFiniteSet(A(b))
             /\ Allowed(m, size, b.tokens) \in SUBSET Tokens
             /\ \A t \in Tokens : Extension(m, b, t) = BeamOf(m, Append(b.tokens, t))
             /\ \A t \in Allowed(m, size, b.tokens) \ A(b) :
                  Cardinality(A(b)) >= width /\ \A u \in A(b) : Likelier(m, b.tokens, u, t)
  <2>1. b \in bs /\ b.tokens \in Seq(Tokens) /\ Len(b.tokens) <= n /\ b = BeamOf(m, b.tokens) /\ ~Ended(b.tokens)
        BY <1>2 DEF Strings
  <2>2. Len(b.tokens) < TokenCount
        BY <2>1, Controls, LenProperties
  <2>3. \A t \in Tokens : Extension(m, BeamOf(m, b.tokens), t) = BeamOf(m, Append(b.tokens, t))
        BY <2>1, <2>2, ExtensionIs
  <2>4. /\ A(b) \in SUBSET Allowed(m, size, b.tokens) /\ IsFiniteSet(A(b))
        /\ \A t \in Allowed(m, size, b.tokens) \ A(b) :
             Cardinality(A(b)) >= width /\ \A u \in A(b) : Likelier(m, b.tokens, u, t)
        BY <2>1, <2>2, AcceptedAre
  <2>5. Allowed(m, size, b.tokens) \in SUBSET Tokens
        BY <2>1, <2>2, AllowedAre
  <2>. QED  BY <2>1, <2>2, <2>3, <2>4, <2>5
<1>4. \A b \in L : \A t \in A(b) : Extension(m, b, t) \in C
      BY DEF CandidatesOf
<1>5. ASSUME NEW b \in C PROVE b \in S
  <2>1. CASE b \in bs /\ b.finished
    <3>1. b.tokens \in all /\ b = BeamOf(m, b.tokens)
          BY <1>1, <1>2, <2>1
    <3>. QED  BY <3>1 DEF Beams
  <2>2. CASE \E c \in L : \E t \in A(c) : b = Extension(m, c, t)
    <3>1. PICK c \in L : \E t \in A(c) : b = Extension(m, c, t)
          BY <2>2
    <3>2. PICK t \in A(c) : b = Extension(m, c, t)
          BY <3>1
    <3>3. t \in Allowed(m, size, c.tokens) /\ t \in Tokens
          BY <1>3
    <3>4. b = BeamOf(m, Append(c.tokens, t))
          BY <1>3, <3>2, <3>3
    <3>5. Append(c.tokens, t) \in all
          BY <1>1, <3>3
    <3>. QED  BY <3>4, <3>5 DEF Beams
  <2>. QED  BY <2>1, <2>2 DEF CandidatesOf
<1>6. ASSUME NEW x \in S, x \notin C
      PROVE  \E D \in SUBSET C : Cardinality(D) >= width /\ \A y \in D : Better(y, x)
  <2>1. PICK s \in all : x = BeamOf(m, s)
        BY DEF Beams
  <2>2. s \notin K
    <3>1. SUFFICES ASSUME s \in K PROVE FALSE
          OBVIOUS
    <3>2. PICK b \in bs : b.finished /\ s = b.tokens
          BY <3>1
    <3>. QED  BY <1>2, <1>6, <2>1, <3>2 DEF CandidatesOf
  <2>3. PICK c \in L : \E t \in Allowed(m, size, c.tokens) : s = Append(c.tokens, t)
        BY <1>1, <2>2
  <2>4. PICK t \in Allowed(m, size, c.tokens) : s = Append(c.tokens, t)
        BY <2>3
  <2>5. t \in Tokens /\ Extension(m, c, t) = x
        BY <1>3, <2>1, <2>4
  <2>6. t \notin A(c)
        BY <1>4, <1>6, <2>5
  <2>7. Cardinality(A(c)) >= width /\ \A u \in A(c) : Likelier(m, c.tokens, u, t)
        BY <1>3, <2>4, <2>6
  <2> DEFINE B == A(c)
             h == [u \in B |-> BeamOf(m, Append(c.tokens, u))]
             D == {BeamOf(m, Append(c.tokens, u)) : u \in B}
  <2>8. B \in SUBSET Tokens /\ IsFiniteSet(B)
        BY <1>3
  <2>9. D \in SUBSET C
    <3>1. \A u \in B : u \in Tokens /\ Extension(m, c, u) = BeamOf(m, Append(c.tokens, u)) /\ Extension(m, c, u) \in C
          BY <1>3, <1>4, <2>8
    <3>. QED  BY <3>1
  <2>10. Cardinality(D) = Cardinality(B)
    <3>1. \A u, v \in B : BeamOf(m, Append(c.tokens, u)) = BeamOf(m, Append(c.tokens, v)) => u = v
      <4>1. \A u \in B : u \in Tokens
            BY <2>8
      <4>2. \A u \in B : Append(c.tokens, u)[Len(c.tokens) + 1] = u
            BY <1>3, <4>1, AppendIs
      <4>. QED  BY <4>2 DEF BeamOf
    <3>2. h \in Bijection(B, D)
      <4>1. h \in [B -> D]
            OBVIOUS
      <4>2. \A u, v \in B : h[u] = h[v] => u = v
            BY <3>1
      <4>3. \A y \in D : \E u \in B : h[u] = y
            OBVIOUS
      <4> HIDE DEF h, D, B
      <4>. QED  BY <4>1, <4>2, <4>3 DEF Bijection, Injection, Surjection, IsInjective
    <3> HIDE DEF h, D, B
    <3>. QED  BY <2>8, <3>2, FS_Bijection DEF ExistsBijection
  <2>11. \A y \in D : Better(y, x)
    <3>1. ASSUME NEW u \in B PROVE Better(BeamOf(m, Append(c.tokens, u)), x)
      <4>1. u \in Tokens /\ Likelier(m, c.tokens, u, t)
            BY <2>7, <2>8
      <4>2. Better(BeamOf(m, Append(c.tokens, u)), BeamOf(m, Append(c.tokens, t)))
            BY <1>3, <2>5, <4>1, LikelierIsBetter
      <4>. QED  BY <2>1, <2>4, <4>2
    <3>. QED  BY <3>1
  <2>. QED  BY <2>7, <2>9, <2>10, <2>11
<1>. QED  BY <1>5, <1>6

\* The beams the search keeps of those a sample had; and when they are the best.
Kept(m, size, width, bs) ==
  LET all == CandidatesOf(m, size, width, bs) IN First(Sorted(all, BetterIn(all)), width)
BestOf(m, size, width, bs, kept) ==
  LET all == Reachable(m, size, bs)
  IN  {b.tokens : b \in kept} = {x \in all : Cardinality({y \in all : Over(m, y, x)}) < width}

LEMMA KeptAreBest ==
  ASSUME NEW m \in Networks, NEW size \in Nat \ {0, 1}, NEW width \in Nat, NEW n \in Nat, n < TokenCount,
         NEW bs \in SUBSET Beams(m, Strings(m, size, n)), IsFiniteSet(bs)
  PROVE  /\ Kept(m, size, width, bs) \in Seq(Beams(m, Strings(m, size, n + 1)))
         /\ Len(Kept(m, size, width, bs)) <= width
         /\ BestOf(m, size, width, bs, ToSet(Kept(m, size, width, bs)))
<1> DEFINE C == CandidatesOf(m, size, width, bs)
           new == First(Sorted(C, BetterIn(C)), width)
           all == Reachable(m, size, bs)
           S == Beams(m, all)
<1>1. all \in SUBSET Strings(m, size, n + 1) /\ IsFiniteSet(all)
      BY ReachableIs
<1>2. all \in SUBSET Seq(Tokens) /\ \A x \in all : Len(x) <= TokenCount
      BY <1>1, Controls, LenProperties DEF Strings
<1>3. C \in SUBSET S /\ \A x \in S \ C : \E D \in SUBSET C : Cardinality(D) >= width /\ \A y \in D : Better(y, x)
      BY CandidatesAre
<1>4. /\ IsFiniteSet(S) /\ StrictOrder(S, BetterIn(S))
      /\ \A x \in all : Rank(S, BetterIn(S), BeamOf(m, x)) = Cardinality({y \in all : Over(m, y, x)})
  <2> HIDE DEF all
  <2>1. IsFiniteSet(S)
        BY <1>1, BeamsFinite
  <2>2. StrictOrder(S, BetterIn(S))
        BY <1>2, BeamsAre
  <2>3. \A x \in all : Rank(S, BetterIn(S), BeamOf(m, x)) = Cardinality({y \in all : Over(m, y, x)})
        BY <1>1, <1>2, BeamRank
  <2>. QED  BY <2>1, <2>2, <2>3
<1>5. S \in SUBSET Beams(m, Strings(m, size, n + 1)) /\ \A b \in S : b.tokens \in all /\ b = BeamOf(m, b.tokens)
      BY <1>1 DEF Beams, BeamOf
<1> HIDE DEF all, C, S
<1>6. \A x \in S \ C : \E D \in SUBSET C : Cardinality(D) >= width /\ \A y \in D : <<y, x>> \in BetterIn(S)
  <2>1. \A D \in SUBSET C, x \in S \ C : \A y \in D : Better(y, x) => <<y, x>> \in BetterIn(S)
        BY <1>3 DEF BetterIn
  <2>. QED  BY <1>3, <2>1
<1>7. {x \in C : Rank(C, BetterIn(S), x) < width} = {x \in S : Rank(S, BetterIn(S), x) < width}
      BY <1>3, <1>4, <1>6, Trimmed
<1>8. \A x \in C : Rank(C, BetterIn(S), x) = Rank(C, BetterIn(C), x)
  <2>1. \A x, y \in C : <<y, x>> \in BetterIn(S) <=> <<y, x>> \in BetterIn(C)
        BY <1>3 DEF BetterIn
  <2>2. \A x \in C : {y \in C : <<y, x>> \in BetterIn(S)} = {y \in C : <<y, x>> \in BetterIn(C)}
        BY <2>1
  <2>. QED  BY <2>2 DEF Rank
<1>9. StrictOrder(C, BetterIn(C)) /\ IsFiniteSet(C)
  <2>1. \A x, y \in C : <<y, x>> \in BetterIn(S) <=> <<y, x>> \in BetterIn(C)
        BY <1>3 DEF BetterIn
  <2>2. StrictOrder(C, BetterIn(C))
        BY <1>3, <1>4, <2>1 DEF StrictOrder
  <2>. QED  BY <1>3, <1>4, <2>2, FS_Subset
<1>10. /\ new \in Seq(C) /\ Cardinality(C) \in Nat
       /\ Len(new) = IF Cardinality(C) < width THEN Cardinality(C) ELSE width
       /\ ToSet(new) = {x \in C : Rank(C, BetterIn(C), x) < width}
       BY <1>9, FirstSorted
<1>11. new \in Seq(Beams(m, Strings(m, size, n + 1))) /\ Len(new) <= width
  <2>1. C \in SUBSET Beams(m, Strings(m, size, n + 1))
        BY <1>3, <1>5
  <2>2. new \in Seq(Beams(m, Strings(m, size, n + 1)))
        BY <1>10, <2>1, SeqMonotonic
  <2>. QED  BY <1>10, <2>2
<1>12. ToSet(new) = {x \in S : Rank(S, BetterIn(S), x) < width}
  <2>1. ToSet(new) = {x \in C : Rank(C, BetterIn(S), x) < width}
        BY <1>8, <1>10
  <2>. QED  BY <1>7, <2>1
<1>13. {b.tokens : b \in ToSet(new)} = {x \in all : Cardinality({y \in all : Over(m, y, x)}) < width}
  <2> DEFINE r(x) == Cardinality({y \in all : Over(m, y, x)})
  <2>1. \A x \in all : BeamOf(m, x) \in S /\ BeamOf(m, x).tokens = x /\ Rank(S, BetterIn(S), BeamOf(m, x)) = r(x)
        BY <1>4 DEF S, Beams, BeamOf
  <2>2. \A b \in S : b.tokens \in all /\ Rank(S, BetterIn(S), b) = r(b.tokens)
        BY <1>5, <2>1
  <2> HIDE DEF r, new
  <2>3. {b.tokens : b \in ToSet(new)} = {x \in all : r(x) < width}
        BY <1>12, <2>1, <2>2
  <2>. QED  BY <2>3 DEF r
<1>14. new = Kept(m, size, width, bs)
       BY DEF Kept, C
<1>15. BestOf(m, size, width, bs, ToSet(new))
  <2> HIDE DEF new
  <2>. QED  BY <1>13 DEF BestOf, all
<1> HIDE DEF new
<1>. QED  BY <1>11, <1>14, <1>15

-----------------------------------------------------------------------------
(* A sample whose beams are all finished; texts; the greedy token *)

LEMMA SeqSet ==
  ASSUME NEW S, NEW s \in Seq(S)
  PROVE  /\ Len(s) \in Nat /\ ToSet(s) \in SUBSET S /\ IsFiniteSet(ToSet(s))
         /\ Cardinality(ToSet(s)) \in Nat /\ Cardinality(ToSet(s)) <= Len(s)
<1> DEFINE f == [k \in 1..Len(s) |-> s[k]]
<1>1. Len(s) \in Nat /\ DOMAIN s = 1..Len(s) /\ \A k \in 1..Len(s) : s[k] \in S
      BY LenProperties, ElementOfSeq
<1>2. f \in Surjection(1..Len(s), ToSet(s))
      BY <1>1 DEF Surjection, ToSet
<1>3. IsFiniteSet(1..Len(s)) /\ Cardinality(1..Len(s)) = Len(s)
  <2>1. 1 \in Int /\ Len(s) \in Int
        BY <1>1
  <2>2. IsFiniteSet(1..Len(s)) /\ Cardinality(1..Len(s)) = IF 1 > Len(s) THEN 0 ELSE Len(s) - 1 + 1
        BY <2>1, FS_Interval
  <2>. QED  BY <1>1, <2>2
<1> HIDE DEF f
<1>4. IsFiniteSet(ToSet(s)) /\ Cardinality(ToSet(s)) <= Len(s)
      BY <1>2, <1>3, FS_Surjection
<1>5. ToSet(s) \in SUBSET S
      BY <1>1 DEF ToSet
<1>. QED  BY <1>1, <1>4, <1>5, FS_CardinalityType

LEMMA FinishedAreBest ==
  ASSUME NEW m \in Networks, NEW size \in Nat \ {0, 1}, NEW width \in Nat, NEW n \in Nat, n < TokenCount,
         NEW bs \in SUBSET Beams(m, Strings(m, size, n)), IsFiniteSet(bs), Cardinality(bs) <= width,
         \A b \in bs : b.finished
  PROVE  BestOf(m, size, width, bs, bs)
<1> DEFINE all == Reachable(m, size, bs)
           T == {b.tokens : b \in bs}
<1>1. all = T /\ all \in SUBSET Strings(m, size, n + 1) /\ IsFiniteSet(all)
  <2>1. /\ all \in SUBSET Strings(m, size, n + 1) /\ IsFiniteSet(all)
        /\ all = {b.tokens : b \in {c \in bs : c.finished}} \cup
                 UNION {{Append(b.tokens, t) : t \in Allowed(m, size, b.tokens)} : b \in {c \in bs : ~c.finished}}
        BY ReachableIs
  <2>2. {c \in bs : c.finished} = bs /\ {c \in bs : ~c.finished} = {}
        OBVIOUS
  <2>3. {b.tokens : b \in {c \in bs : c.finished}} = T
        BY <2>2
  <2>4. UNION {{Append(b.tokens, t) : t \in Allowed(m, size, b.tokens)} : b \in {c \in bs : ~c.finished}} = {}
        BY <2>2
  <2> HIDE DEF all, T
  <2>. QED  BY <2>1, <2>3, <2>4
<1>2. all \in SUBSET Seq(Tokens) /\ \A x \in all : Len(x) <= TokenCount
      BY <1>1, Controls, LenProperties DEF Strings
<1>3. Beams(m, all) = bs
  <2>1. \A b \in bs : b = BeamOf(m, b.tokens)
        BY DEF Beams, BeamOf
  <2>2. \A x \in T : BeamOf(m, x) \in bs
        BY <2>1
  <2>3. \A b \in bs : b.tokens \in T
        OBVIOUS
  <2> HIDE DEF T, all
  <2>. QED  BY <1>1, <2>1, <2>2, <2>3 DEF Beams
<1>4. ASSUME NEW x \in all PROVE Cardinality({y \in all : Over(m, y, x)}) < width
  <2> HIDE DEF all
  <2>1. Rank(bs, BetterIn(bs), BeamOf(m, x)) = Cardinality({y \in all : Over(m, y, x)})
        BY <1>1, <1>2, <1>3, BeamRank
  <2>2. StrictOrder(bs, BetterIn(bs))
        BY <1>2, <1>3, BeamsAre
  <2>3. BeamOf(m, x) \in bs
        BY <1>3 DEF Beams
  <2>4. Cardinality(bs) \in Nat /\ Rank(bs, BetterIn(bs), BeamOf(m, x)) \in 0..(Cardinality(bs) - 1)
        BY <2>2, <2>3, RankIs
  <2>. QED  BY <2>1, <2>4
<1>5. T = {x \in all : Cardinality({y \in all : Over(m, y, x)}) < width}
  <2> DEFINE r(x) == Cardinality({y \in all : Over(m, y, x)})
  <2>1. \A x \in all : r(x) < width
        BY <1>4
  <2> HIDE DEF all, T, r
  <2>2. T = {x \in all : r(x) < width}
        BY <1>1, <2>1
  <2>. QED  BY <2>2 DEF r
<1>. QED  BY <1>5 DEF BestOf

\* One candidate is one beam.
LEMMA OneOfOne ==
  ASSUME NEW C, IsFiniteSet(C), NEW order, StrictOrder(C, order), NEW n \in Nat
  PROVE  Cardinality(C) = 1 /\ n # 0 => \E b \in C : First(Sorted(C, order), n) = <<b>>
<1> DEFINE s == First(Sorted(C, order), n)
<1>1. /\ s \in Seq(C) /\ Cardinality(C) \in Nat
      /\ Len(s) = IF Cardinality(C) < n THEN Cardinality(C) ELSE n
      /\ ToSet(s) = {x \in C : Rank(C, order, x) < n}
      BY FirstSorted
<1> SUFFICES ASSUME Cardinality(C) = 1, n # 0 PROVE \E b \in C : s = <<b>>
      OBVIOUS
<1>2. s \in Seq(C) /\ Len(s) = 1
      BY <1>1
<1> HIDE DEF s
<1>3. s[1] \in C
  <2>1. 1 \in 1..Len(s)
        BY <1>2
  <2>. QED  BY <1>2, <2>1, ElementOfSeq
<1>4. s = <<s[1]>>
  <2>1. s \in [1..1 -> C]
        BY <1>2, LenProperties
  <2>2. <<s[1]>> = [k \in 1..1 |-> s[1]]
        OBVIOUS
  <2>3. s = [k \in 1..1 |-> s[1]]
    <3>1. \A k \in 1..1 : s[k] = s[1]
          OBVIOUS
    <3>2. s = [k \in 1..1 |-> s[k]]
          BY <2>1
    <3>. QED  BY <3>1, <3>2
  <2>. QED  BY <2>2, <2>3
<1>. QED  BY <1>3, <1>4

LEMMA OneKept ==
  ASSUME NEW b, NEW order, <<b, b>> \notin order, NEW n \in Nat \ {0}
  PROVE  First(Sorted({b}, order), n) = <<b>>
<1>1. IsFiniteSet({b}) /\ Cardinality({b}) = 1
      BY FS_Singleton
<1>2. StrictOrder({b}, order)
      BY DEF StrictOrder
<1>3. \E x \in {b} : First(Sorted({b}, order), n) = <<x>>
      BY <1>1, <1>2, OneOfOne
<1>. QED  BY <1>3

\* A text ends with the first end.
LEMMA TextAt ==
  ASSUME NEW s \in Seq(Tokens), NEW k \in 1..Len(s), s[k] = EOS_TOKEN_ID, \A j \in 1..(k - 1) : s[j] # EOS_TOKEN_ID
  PROVE  Text(s) = SubSeq(s, 1, k)
<1> DEFINE ends == {j \in DOMAIN s : s[j] = EOS_TOKEN_ID}
<1>1. Len(s) \in Nat /\ DOMAIN s = 1..Len(s)
      BY LenProperties
<1>2. k \in ends /\ \A j \in ends : j \in Int /\ k <= j
      BY <1>1
<1>3. Min(ends) = k
  <2> HIDE DEF ends
  <2>1. \A x \in ends : (\A y \in ends : x <= y) <=> x = k
        BY <1>2
  <2>. QED  BY <1>2, <2>1 DEF Min
<1>4. ends # {}
      BY <1>2
<1>5. Text(s) = First(s, Min(ends))
  <2>1. Text(s) = IF ends = {} THEN s ELSE First(s, Min(ends))
        BY DEF Text
  <2>. QED  BY <1>4, <2>1
<1>6. (IF Len(s) < k THEN Len(s) ELSE k) = k
  <2>1. ~(Len(s) < k)
        BY <1>1
  <2>. QED  BY <2>1
<1>. QED  BY <1>3, <1>5, <1>6 DEF First

LEMMA TextIs ==
  ASSUME NEW s \in Seq(Tokens)
  PROVE  /\ Text(s) \in Seq(Tokens) /\ Len(Text(s)) <= Len(s) /\ (Ended(Text(s)) <=> Ended(s))
         /\ ~Ended(s) => Text(s) = s
         /\ \A t \in Tokens : Text(Append(s, t)) = IF Ended(s) THEN Text(s) ELSE Append(s, t)
<1>1. Len(s) \in Nat /\ DOMAIN s = 1..Len(s)
      BY LenProperties
<1>2. CASE ~Ended(s)
  <2>1. Text(s) = s
        BY <1>2 DEF Text, Ended
  <2>2. ASSUME NEW t \in Tokens PROVE Text(Append(s, t)) = Append(s, t)
    <3> DEFINE a == Append(s, t)
               n == Len(s) + 1
    <3>1. /\ a \in Seq(Tokens) /\ Len(a) = n /\ DOMAIN a = 1..n /\ a[n] = t /\ n \in 1..n
          /\ \A j \in 1..(n - 1) : a[j] # EOS_TOKEN_ID
      <4>1. /\ a \in Seq(Tokens) /\ Len(a) = n /\ DOMAIN a = 1..n /\ a[n] = t
            /\ \A j \in 1..Len(s) : a[j] = s[j]
            BY AppendIs
      <4>2. \A j \in 1..(n - 1) : j \in 1..Len(s)
            BY <1>1
      <4>3. \A j \in 1..Len(s) : s[j] # EOS_TOKEN_ID
            BY <1>1, <1>2 DEF Ended
      <4>4. n \in 1..n
            BY <1>1
      <4>. QED  BY <4>1, <4>2, <4>3, <4>4
    <3>2. CASE t = EOS_TOKEN_ID
      <4>1. Text(a) = SubSeq(a, 1, n)
            BY <3>1, <3>2, TextAt
      <4>2. SubSeq(a, 1, Len(a)) = a
            BY <3>1, SubSeqFull
      <4>. QED  BY <3>1, <4>1, <4>2
    <3>3. CASE t # EOS_TOKEN_ID
      <4>1. \A j \in 1..n : j \in 1..(n - 1) \/ j = n
            BY <1>1
      <4>2. {j \in DOMAIN a : a[j] = EOS_TOKEN_ID} = {}
            BY <3>1, <3>3, <4>1
      <4>. QED  BY <4>2 DEF Text
    <3>. QED  BY <3>2, <3>3
  <2>. QED  BY <1>1, <1>2, <2>1, <2>2
<1>3. CASE Ended(s)
  <2> DEFINE ends == {j \in 1..Len(s) : s[j] = EOS_TOKEN_ID}
  <2>1. PICK k \in ends : \A j \in ends : k <= j
    <3>1. ends \in SUBSET Nat /\ ends # {}
          BY <1>1, <1>3 DEF Ended
    <3> HIDE DEF ends
    <3>. QED  BY <3>1, SmallestOf
  <2>2. k \in 1..Len(s) /\ s[k] = EOS_TOKEN_ID /\ \A j \in 1..(k - 1) : s[j] # EOS_TOKEN_ID
    <3>1. ASSUME NEW j \in 1..(k - 1) PROVE s[j] # EOS_TOKEN_ID
          BY <1>1, <2>1
    <3>. QED  BY <3>1
  <2>3. Text(s) = SubSeq(s, 1, k)
        BY <2>2, TextAt
  <2>4. /\ Text(s) \in Seq(Tokens) /\ Len(Text(s)) = k /\ Text(s)[k] = EOS_TOKEN_ID
    <3>1. 1 \in Int /\ k \in Int /\ \A j \in 1..k : s[j] \in Tokens /\ k \in 1..k /\ 1 + k - 1 = k /\ 1 <= k
          BY <1>1, <2>2, ElementOfSeq
    <3>2. /\ SubSeq(s, 1, k) \in Seq(Tokens)
          /\ Len(SubSeq(s, 1, k)) = IF 1 <= k THEN k - 1 + 1 ELSE 0
          /\ \A j \in 1..(k - 1 + 1) : SubSeq(s, 1, k)[j] = s[1 + j - 1]
          BY <3>1, SubSeqProperties
    <3>3. k \in 1..(k - 1 + 1) /\ 1 <= k /\ 1 + k - 1 = k /\ k - 1 + 1 = k
          BY <2>2
    <3>. QED  BY <2>2, <2>3, <3>2, <3>3
  <2>5. Ended(Text(s))
    <3>1. k \in DOMAIN Text(s)
      <4>1. DOMAIN Text(s) = 1..Len(Text(s))
            BY <2>4, LenProperties
      <4>. QED  BY <2>2, <2>4, <4>1
    <3>. QED  BY <2>4, <3>1 DEF Ended
  <2>6. ASSUME NEW t \in Tokens PROVE Text(Append(s, t)) = Text(s)
    <3> DEFINE a == Append(s, t)
    <3>1. /\ a \in Seq(Tokens) /\ Len(a) = Len(s) + 1 /\ \A j \in 1..Len(s) : a[j] = s[j]
          /\ \A j \in 1..(Len(s) + 1) : SubSeq(a, 1, j - 1) = SubSeq(s, 1, j - 1)
          BY AppendIs
    <3>2. k + 1 \in 1..(Len(s) + 1) /\ (k + 1) - 1 = k /\ \A j \in 1..(k - 1) : j \in 1..Len(s)
          BY <1>1, <2>2
    <3>3. k \in 1..Len(a) /\ a[k] = EOS_TOKEN_ID /\ \A j \in 1..(k - 1) : a[j] # EOS_TOKEN_ID
      <4>1. k \in 1..Len(a)
            BY <1>1, <2>2, <3>1
      <4>. QED  BY <2>2, <3>1, <3>2, <4>1
    <3>4. Text(a) = SubSeq(a, 1, k)
          BY <3>1, <3>3, TextAt
    <3>5. SubSeq(a, 1, k) = SubSeq(s, 1, k)
          BY <3>1, <3>2
    <3>. QED  BY <2>3, <3>4, <3>5
  <2>7. Len(Text(s)) <= Len(s)
        BY <1>1, <2>2, <2>4
  <2>. QED  BY <1>3, <2>4, <2>5, <2>6, <2>7
<1>. QED  BY <1>2, <1>3

\* There is a likeliest token, the lowest of equals.
LEMMA ArgMax ==
  ASSUME NEW m \in Networks, NEW x \in Seq(Tokens), Len(x) < TokenCount
  PROVE  \E g \in Tokens : \A u \in Tokens \ {g} : Likelier(m, x, g, u)
<1> DEFINE R == {p \in Tokens \X Tokens : Likelier(m, x, p[1], p[2])}
<1>1. Tokens \in SUBSET Nat /\ IsFiniteSet(Tokens) /\ 0 \in Tokens
  <2>1. 0 \in Tokens
    <3>1. VocabularySize \in Nat /\ \A c \in Calls : c.width \in 1..(VocabularySize - 2)
          BY Controls
    <3>2. PICK c \in Calls : m \in ToSet(c.samples)
          BY DEF Networks
    <3>3. c.width \in 1..(VocabularySize - 2)
          BY <3>1
    <3>. QED  BY <3>1, <3>3 DEF Tokens
  <2>. QED  BY <2>1, TokensAre
<1>2. StrictOrder(Tokens, R)
  <2>1. \A t \in Tokens : Network(m, x, t) \in Int
        BY LogarithmsAre
  <2>. QED  BY <1>1, <2>1, LikelierIsStrict
<1>3. PICK g \in Tokens : Rank(Tokens, R, g) = 0
  <2>1. Cardinality(Tokens) \in Nat /\ Cardinality(Tokens) # 0
        BY <1>1, FS_CardinalityType, FS_EmptySet
  <2>2. 0 \in 0..(Cardinality(Tokens) - 1)
        BY <2>1
  <2> HIDE DEF R
  <2>. QED  BY <1>1, <1>2, <2>2, RankOf
<1>4. ASSUME NEW u \in Tokens, u # g PROVE Likelier(m, x, g, u)
  <2>1. <<u, g>> \notin R
    <3> HIDE DEF R
    <3>1. <<u, g>> \in R => Rank(Tokens, R, u) < Rank(Tokens, R, g)
          BY <1>1, <1>2, RankIs
    <3>2. Rank(Tokens, R, u) \in Nat
          BY <1>1, <1>2, RankIs
    <3>. QED  BY <1>3, <3>1, <3>2
  <2>2. <<g, u>> \in R
        BY <1>2, <1>4, <2>1 DEF StrictOrder
  <2>. QED  BY <2>2
<1>. QED  BY <1>4

\* A row of one beam that has a token has the likeliest, if it may come next.
LEMMA NarrowRow ==
  ASSUME NEW m \in Networks, NEW size, NEW x \in Seq(Tokens), Len(x) < TokenCount,
         NEW g \in Tokens, \A u \in Tokens \ {g} : Likelier(m, x, g, u), g \notin Banned(size, x),
         Accepted(m, size, 1, x) # <<>>
  PROVE  ToSet(Accepted(m, size, 1, x)) = {g} /\ g \in Allowed(m, size, x)
<1> DEFINE A == Allowed(m, size, x)
           R == {p \in A \X A : Likelier(m, x, p[1], p[2])}
           a == Accepted(m, size, 1, x)
<1>1. A \in SUBSET Tokens /\ IsFiniteSet(A) /\ StrictOrder(A, R)
      BY AllowedAre
<1>2. a = First(Sorted(A, R), 1)
      BY DEF Accepted
<1>3. ToSet(a) = {t \in A : Rank(A, R, t) < 1} /\ a \in Seq(A)
  <2> HIDE DEF A, R, a
  <2>. QED  BY <1>1, <1>2, FirstSorted
<1>4. PICK t \in A : TRUE
  <2>1. a[1] \in A
    <3>1. Len(a) \in Nat /\ Len(a) # 0
          BY <1>3, EmptySeq, LenProperties
    <3>2. 1 \in 1..Len(a)
          BY <3>1
    <3> HIDE DEF A, a
    <3>. QED  BY <1>3, <3>2, ElementOfSeq
  <2>. QED  BY <2>1
<1>5. g \in A
  <2>1. /\ Network(m, x, t) \in Int /\ Network(m, x, g) \in Int /\ Impossible \in Int
        /\ Network(m, x, t) >= Impossible
        BY <1>1, <1>4, LogarithmsAre
  <2>2. Network(m, x, t) # Impossible
        BY <1>4 DEF Allowed
  <2>3. t = g \/ Network(m, x, g) >= Network(m, x, t)
    <3>1. t = g \/ Likelier(m, x, g, t)
          BY <1>1, <1>4
    <3>2. Likelier(m, x, g, t) => Network(m, x, g) > Network(m, x, t) \/ Network(m, x, g) = Network(m, x, t)
          BY DEF Likelier
    <3>. QED  BY <2>1, <3>1, <3>2
  <2>4. Network(m, x, g) # Impossible
        BY <2>1, <2>2, <2>3
  <2>. QED  BY <2>4 DEF Allowed
<1>6. \A u \in A : u # g => <<g, u>> \in R
      BY <1>1, <1>5
<1> HIDE DEF A, R, a
<1>7. \A u \in A : /\ Rank(A, R, u) \in Nat
                   /\ \A v \in A : <<v, u>> \in R => Rank(A, R, v) < Rank(A, R, u)
      BY <1>1, RankIs
<1>8. \A u \in A : u # g => ~(Rank(A, R, u) < 1)
  <2>1. ASSUME NEW u \in A, u # g PROVE ~(Rank(A, R, u) < 1)
    <3>1. Rank(A, R, g) < Rank(A, R, u)
          BY <1>5, <1>6, <1>7, <2>1
    <3>2. Rank(A, R, g) \in Nat /\ Rank(A, R, u) \in Nat
          BY <1>5, <1>7
    <3>. QED  BY <3>1, <3>2
  <2>. QED  BY <2>1
<1>9. Rank(A, R, g) = 0
  <2>1. Cardinality(A) \in Nat /\ Cardinality(A) # 0
        BY <1>1, <1>4, FS_CardinalityType, FS_EmptySet
  <2>2. 0 \in 0..(Cardinality(A) - 1)
        BY <2>1
  <2>3. PICK u \in A : Rank(A, R, u) = 0
        BY <1>1, <2>2, RankOf
  <2>. QED  BY <1>8, <2>3
<1>10. ToSet(a) = {g}
       BY <1>3, <1>5, <1>8, <1>9
<1>. QED  BY <1>5, <1>10 DEF A, a

-----------------------------------------------------------------------------
(* The invariant of the decoders *)

\* What greedy decoding has written in n positions.
Written(x, e, n) ==
  /\ x \in Seq(Tokens) /\ Len(x) <= n /\ e = Ended(x)
  /\ \A k \in DOMAIN x : k > Len(Text(x)) => x[k] = PAD_TOKEN_ID
\* A search with one beam follows it as long as no n-gram is repeated.
Narrow(m, size, new, x) == WellFormed(size, Text(x)) => new = <<BeamOf(m, Text(x))>>

SearchInv ==
  /\ call \in Calls /\ at \in 1..(TokenCount + 1) /\ running \in {"search", "done", "stuck"}
  /\ DOMAIN beams = SampleIndices /\ DOMAIN previous = SampleIndices
  /\ DOMAIN row = SampleIndices /\ DOMAIN ended = SampleIndices
  /\ at = 1 => running = "search"
  /\ \A i \in SampleIndices :
       /\ beams[i] \in Seq(Beams(batch[i], Strings(batch[i], NoRepeat, at - 1))) /\ Len(beams[i]) <= BeamWidth
       /\ Written(row[i], ended[i], at - 1)
       /\ BeamWidth = 1 /\ running # "stuck" => Narrow(batch[i], NoRepeat, beams[i], row[i])
       /\ at > 1 /\ running # "stuck" => BestOf(batch[i], NoRepeat, BeamWidth, ToSet(previous[i]), ToSet(beams[i]))
       /\ running = "done" /\ at <= TokenCount => \A b \in ToSet(beams[i]) : b.finished

LEMMA CallIs ==
  ASSUME call \in Calls, NEW i \in SampleIndices
  PROVE  /\ batch[i] \in Networks /\ NoRepeat \in Nat \ {0, 1} /\ BeamWidth \in Nat \ {0}
         /\ TokenCount \in Nat \ {0}
<1>1. batch[i] \in ToSet(call.samples)
      BY DEF ToSet, SampleIndices, batch
<1>2. batch[i] \in Networks
      BY <1>1 DEF Networks
<1>3. VocabularySize \in Nat /\ TokenCount \in Nat \ {0} /\ call.width \in 1..(VocabularySize - 2) /\ call.ngram \in Nat \ {0, 1}
      BY Controls
<1>. QED  BY <1>2, <1>3 DEF NoRepeat, BeamWidth

LEMMA CandidatesIs ==
  ASSUME NEW i \in SampleIndices
  PROVE  Candidates(i) = CandidatesOf(batch[i], NoRepeat, BeamWidth, ToSet(beams[i]))
<1> DEFINE L == {c \in ToSet(beams[i]) : ~c.finished}
           rows == {l \in Live : l.sample = i}
           of(b) == {Extension(batch[i], b, t) : t \in ToSet(Accepted(batch[i], NoRepeat, BeamWidth, b.tokens))}
<1>1. \A r \in rows : r.beam \in L /\ {Extension(batch[i], r.beam, t) : t \in ToSet(AcceptedOf(r))} = of(r.beam)
      BY DEF Live, AcceptedOf
<1>2. \A b \in L : [sample |-> i, beam |-> b] \in rows
      BY DEF Live
<1>3. \A b \in L : LET r == [sample |-> i, beam |-> b]
                   IN  {Extension(batch[i], r.beam, t) : t \in ToSet(AcceptedOf(r))} = of(b)
      BY <1>2 DEF AcceptedOf
<1> DEFINE from(r) == {Extension(batch[i], r.beam, t) : t \in ToSet(AcceptedOf(r))}
<1>4. /\ \A r \in rows : r.beam \in L /\ from(r) = of(r.beam)
      /\ \A b \in L : [sample |-> i, beam |-> b] \in rows /\ from([sample |-> i, beam |-> b]) = of(b)
      BY <1>1, <1>2, <1>3
<1> HIDE DEF L, rows, of, from
<1>5. UNION {from(r) : r \in rows} = UNION {of(b) : b \in L}
      BY <1>4
<1>. QED  BY <1>5 DEF L, rows, of, from, Candidates, CandidatesOf

LEMMA LiveIs == Live = {} <=> \A i \in SampleIndices : \A b \in ToSet(beams[i]) : b.finished
<1> DEFINE rows(i) == {[sample |-> i, beam |-> b] : b \in {c \in ToSet(beams[i]) : ~c.finished}}
<1>1. Live = UNION {rows(i) : i \in SampleIndices}
      BY DEF Live
<1>2. \A i \in SampleIndices : rows(i) = {} <=> \A b \in ToSet(beams[i]) : b.finished
      OBVIOUS
<1> HIDE DEF rows
<1>3. Live = {} <=> \A i \in SampleIndices : rows(i) = {}
      BY <1>1
<1>. QED  BY <1>2, <1>3

\* What a position does to the beams of a sample.
LEMMA PositionIs ==
  ASSUME Position, NEW i \in SampleIndices
  PROVE  \/ running # "search" /\ UNCHANGED <<beams, previous, running>>
         \/ /\ running = "search" /\ previous' = beams /\ UNCHANGED beams
            /\ running' = "stuck" \/ \A b \in ToSet(beams[i]) : b.finished
         \/ /\ running = "search" /\ previous' = beams /\ (running' = "done" => at = TokenCount)
            /\ beams'[i] = Kept(batch[i], NoRepeat, BeamWidth, ToSet(beams[i]))
            /\ \A b \in ToSet(beams[i]) : ~b.finished => Accepted(batch[i], NoRepeat, BeamWidth, b.tokens) # <<>>
<1>1. CASE ~BeamPosition
      BY <1>1 DEF Position
<1>2. CASE BeamPosition /\ Live = {}
      BY <1>2, LiveIs DEF BeamPosition
<1>3. CASE BeamPosition /\ Live # {} /\ \E r \in Live : AcceptedOf(r) = <<>>
      BY <1>3 DEF BeamPosition
<1>4. CASE BeamPosition /\ Live # {} /\ ~\E r \in Live : AcceptedOf(r) = <<>>
  <2>1. /\ running = "search" /\ previous' = beams /\ (running' = "done" => at = TokenCount)
        /\ beams' = [j \in SampleIndices |->
                     LET all == Candidates(j)
                     IN  First(Sorted(all, {p \in all \X all : Better(p[1], p[2])}), BeamWidth)]
        BY <1>4 DEF BeamPosition
  <2>2. ASSUME NEW b \in ToSet(beams[i]), ~b.finished
        PROVE  Accepted(batch[i], NoRepeat, BeamWidth, b.tokens) # <<>>
    <3>1. [sample |-> i, beam |-> b] \in Live
          BY <2>2 DEF Live
    <3>2. AcceptedOf([sample |-> i, beam |-> b]) = Accepted(batch[i], NoRepeat, BeamWidth, b.tokens)
          BY DEF AcceptedOf
    <3>. QED  BY <1>4, <3>1, <3>2
  <2> DEFINE C == CandidatesOf(batch[i], NoRepeat, BeamWidth, ToSet(beams[i]))
  <2>3. beams'[i] = First(Sorted(Candidates(i), {p \in Candidates(i) \X Candidates(i) : Better(p[1], p[2])}), BeamWidth)
        BY <2>1
  <2>4. Candidates(i) = C
        BY CandidatesIs
  <2>5. {p \in C \X C : Better(p[1], p[2])} = BetterIn(C)
        BY DEF BetterIn
  <2> HIDE DEF C
  <2>6. beams'[i] = First(Sorted(C, BetterIn(C)), BeamWidth)
        BY <2>3, <2>4, <2>5
  <2>. QED  BY <2>1, <2>2, <2>6 DEF C, Kept
<1>. QED  BY <1>1, <1>2, <1>3, <1>4

\* A beam alone stays alone.
LEMMA OneBeam ==
  ASSUME NEW m \in Networks, NEW x \in Seq(Tokens), Len(x) <= TokenCount
  PROVE  First(Sorted({BeamOf(m, x)}, BetterIn({BeamOf(m, x)})), 1) = <<BeamOf(m, x)>>
<1>1. Beams(m, {x}) = {BeamOf(m, x)}
      BY DEF Beams
<1>2. StrictOrder(Beams(m, {x}), BetterIn(Beams(m, {x})))
      BY BeamsAre
<1>3. <<BeamOf(m, x), BeamOf(m, x)>> \notin BetterIn({BeamOf(m, x)})
      BY <1>1, <1>2 DEF StrictOrder
<1>. QED  BY <1>3, OneKept

\* The search with one beam: it keeps a finished one, and continues a live one
\* as greedy decoding does.
LEMMA NarrowEnded ==
  ASSUME NEW m \in Networks, NEW size, NEW x \in Seq(Tokens), Len(x) <= TokenCount, Ended(x),
         NEW old, old = <<BeamOf(m, x)>>
  PROVE  Kept(m, size, 1, ToSet(old)) = <<BeamOf(m, x)>>
<1> DEFINE C == CandidatesOf(m, size, 1, ToSet(old))
<1>1. ToSet(old) = {BeamOf(m, x)}
      BY DEF ToSet
<1>2. BeamOf(m, x).finished
      BY DEF BeamOf
<1>3. C = {BeamOf(m, x)}
      BY <1>1, <1>2 DEF CandidatesOf
<1>. QED  BY <1>3, OneBeam DEF Kept

LEMMA NarrowMore ==
  ASSUME NEW m \in Networks, NEW size \in Nat \ {0, 1}, NEW x \in Seq(Tokens), Len(x) < TokenCount, ~Ended(x),
         NEW g \in Tokens, \A u \in Tokens \ {g} : Likelier(m, x, g, u), WellFormed(size, Append(x, g)),
         Accepted(m, size, 1, x) # <<>>,
         NEW old, old = <<BeamOf(m, x)>>
  PROVE  Kept(m, size, 1, ToSet(old)) = <<BeamOf(m, Append(x, g))>>
<1> DEFINE C == CandidatesOf(m, size, 1, ToSet(old))
<1>1. ToSet(old) = {BeamOf(m, x)}
      BY DEF ToSet
<1>2. ~BeamOf(m, x).finished /\ BeamOf(m, x).tokens = x
      BY DEF BeamOf
<1>3. g \notin Banned(size, x)
  <2>1. WellFormed(size, x) /\ \A k \in DOMAIN x : x[k] # EOS_TOKEN_ID
        BY WellFormedLess
  <2>. QED  BY <2>1, WellFormedMore
<1>4. ToSet(Accepted(m, size, 1, x)) = {g}
      BY <1>3, NarrowRow
<1>5. C = {Extension(m, BeamOf(m, x), g)}
      BY <1>1, <1>2, <1>4 DEF CandidatesOf
<1>6. Extension(m, BeamOf(m, x), g) = BeamOf(m, Append(x, g))
      BY ExtensionIs
<1>7. Append(x, g) \in Seq(Tokens) /\ Len(Append(x, g)) <= TokenCount
      BY Controls, AppendIs
<1>. QED  BY <1>5, <1>6, <1>7, OneBeam DEF Kept

LEMMA WrittenMore ==
  ASSUME NEW x, NEW e, NEW n \in Nat, Written(x, e, n), NEW g \in Tokens, e => g = PAD_TOKEN_ID
  PROVE  Written(Append(x, g), e \/ g = EOS_TOKEN_ID, n + 1)
<1> DEFINE a == Append(x, g)
<1>1. x \in Seq(Tokens) /\ Len(x) <= n /\ e = Ended(x) /\ \A k \in DOMAIN x : k > Len(Text(x)) => x[k] = PAD_TOKEN_ID
      BY DEF Written
<1>2. /\ Len(x) \in Nat /\ a \in Seq(Tokens) /\ Len(a) = Len(x) + 1 /\ DOMAIN x = 1..Len(x) /\ DOMAIN a = 1..(Len(x) + 1)
      /\ \A i \in 1..Len(x) : a[i] = x[i]
      /\ a[Len(x) + 1] = g
      BY <1>1, AppendIs
<1>3. \A k \in 1..(Len(x) + 1) : k \in 1..Len(x) \/ k = Len(x) + 1
      BY <1>2
<1>4. \A k \in 1..Len(x) : k \in 1..(Len(x) + 1)
      BY <1>2
<1>5. Len(x) + 1 \in 1..(Len(x) + 1)
      BY <1>2
<1>6. Ended(a) = (e \/ g = EOS_TOKEN_ID)
  <2>1. Ended(a) <=> Ended(x) \/ g = EOS_TOKEN_ID
        BY <1>2, <1>3, <1>4, <1>5 DEF Ended
  <2>2. Ended(a) \in BOOLEAN /\ Ended(x) \in BOOLEAN
        BY DEF Ended
  <2>. QED  BY <1>1, <2>1, <2>2
<1>7. Text(a) = IF Ended(x) THEN Text(x) ELSE a
      BY <1>1, TextIs
<1>8. ASSUME NEW k \in DOMAIN a, k > Len(Text(a)) PROVE a[k] = PAD_TOKEN_ID
  <2>1. CASE Ended(x)
        BY <1>1, <1>2, <1>3, <1>7, <1>8, <2>1
  <2>2. CASE ~Ended(x)
        BY <1>2, <1>7, <1>8, <2>2
  <2>. QED  BY <2>1, <2>2
<1>9. Len(a) <= n + 1
      BY <1>1, <1>2
<1>. QED  BY <1>2, <1>6, <1>8, <1>9 DEF Written

-----------------------------------------------------------------------------
(* A position keeps the invariant *)

\* What a position makes of the beams of a sample, whatever the others do.
LEMMA BeamsNext ==
  ASSUME SearchInv, Position, NEW i \in SampleIndices
  PROVE  /\ beams'[i] \in Seq(Beams(batch[i], Strings(batch[i], NoRepeat, at))) /\ Len(beams'[i]) <= BeamWidth
         /\ running' # "stuck" => BestOf(batch[i], NoRepeat, BeamWidth, ToSet(previous'[i]), ToSet(beams'[i]))
<1> DEFINE m == batch[i]
           n == at - 1
           bs == ToSet(beams[i])
<1>1. /\ call \in Calls /\ at \in 1..(TokenCount + 1) /\ at <= TokenCount
      /\ beams[i] \in Seq(Beams(m, Strings(m, NoRepeat, n))) /\ Len(beams[i]) <= BeamWidth
      BY DEF SearchInv, Position
<1>2. m \in Networks /\ NoRepeat \in Nat \ {0, 1} /\ BeamWidth \in Nat /\ TokenCount \in Nat
      BY <1>1, CallIs
<1>3. n \in Nat /\ n < TokenCount /\ n + 1 = at
      BY <1>1, <1>2
<1>4. bs \in SUBSET Beams(m, Strings(m, NoRepeat, n)) /\ IsFiniteSet(bs) /\ Cardinality(bs) <= BeamWidth
  <2> DEFINE B == Beams(m, Strings(m, NoRepeat, n))
  <2>1. beams[i] \in Seq(B)
        BY <1>1
  <2> HIDE DEF B
  <2>2. /\ Len(beams[i]) \in Nat /\ bs \in SUBSET B /\ IsFiniteSet(bs)
        /\ Cardinality(bs) \in Nat /\ Cardinality(bs) <= Len(beams[i])
        BY <2>1, SeqSet
  <2>. QED  BY <1>1, <1>2, <2>2 DEF B
<1>5. Beams(m, Strings(m, NoRepeat, n)) \in SUBSET Beams(m, Strings(m, NoRepeat, n + 1))
  <2>1. Strings(m, NoRepeat, n) \in SUBSET Strings(m, NoRepeat, n + 1)
        BY <1>3, LenProperties DEF Strings
  <2>. QED  BY <2>1 DEF Beams
<1>6. CASE running # "search" /\ UNCHANGED <<beams, previous, running>>
  <2>1. at > 1
        BY <1>1, <1>2, <1>6 DEF SearchInv
  <2>2. running # "stuck" => BestOf(m, NoRepeat, BeamWidth, ToSet(previous[i]), ToSet(beams[i]))
        BY <2>1 DEF SearchInv
  <2>3. beams'[i] \in Seq(Beams(m, Strings(m, NoRepeat, n + 1)))
        BY <1>1, <1>5, <1>6, SeqMonotonic
  <2>. QED  BY <1>1, <1>3, <1>6, <2>2, <2>3
<1>7. CASE /\ previous' = beams /\ UNCHANGED beams
           /\ running' = "stuck" \/ \A b \in bs : b.finished
  <2>1. beams'[i] \in Seq(Beams(m, Strings(m, NoRepeat, n + 1)))
        BY <1>1, <1>5, <1>7, SeqMonotonic
  <2>2. ASSUME running' # "stuck" PROVE BestOf(m, NoRepeat, BeamWidth, bs, bs)
    <3>1. \A b \in bs : b.finished
          BY <1>7, <2>2
    <3> HIDE DEF m, n, bs
    <3>. QED  BY <1>2, <1>3, <1>4, <3>1, FinishedAreBest
  <2>. QED  BY <1>1, <1>3, <1>7, <2>1, <2>2
<1>8. CASE previous' = beams /\ beams'[i] = Kept(m, NoRepeat, BeamWidth, bs)
  <2>1. /\ Kept(m, NoRepeat, BeamWidth, bs) \in Seq(Beams(m, Strings(m, NoRepeat, n + 1)))
        /\ Len(Kept(m, NoRepeat, BeamWidth, bs)) <= BeamWidth
        /\ BestOf(m, NoRepeat, BeamWidth, bs, ToSet(Kept(m, NoRepeat, BeamWidth, bs)))
    <3> HIDE DEF m, n, bs
    <3>. QED  BY <1>2, <1>3, <1>4, KeptAreBest
  <2>. QED  BY <1>3, <1>8, <2>1
<1>. QED  BY <1>6, <1>7, <1>8, PositionIs

\* What it makes of what greedy decoding has written.
LEMMA RowNext ==
  ASSUME SearchInv, Position, NEW i \in SampleIndices
  PROVE  /\ Written(row'[i], ended'[i], at)
         /\ \/ Ended(row[i]) /\ Text(row'[i]) = Text(row[i])
            \/ /\ ~Ended(row[i]) /\ Text(row'[i]) = Append(row[i], Greedy(i))
               /\ Greedy(i) \in Tokens
               /\ \A u \in Tokens \ {Greedy(i)} : Likelier(batch[i], row[i], Greedy(i), u)
<1>1. /\ call \in Calls /\ at \in 1..(TokenCount + 1) /\ at <= TokenCount
      /\ Written(row[i], ended[i], at - 1)
      BY DEF SearchInv, Position
<1>2. batch[i] \in Networks /\ TokenCount \in Nat
      BY <1>1, CallIs
<1>3. at - 1 \in Nat /\ at - 1 < TokenCount /\ (at - 1) + 1 = at
      BY <1>1, <1>2
<1>4. /\ row[i] \in Seq(Tokens) /\ Len(row[i]) <= at - 1 /\ ended[i] = Ended(row[i]) /\ Len(row[i]) \in Nat
      /\ \A k \in DOMAIN row[i] : k > Len(Text(row[i])) => row[i][k] = PAD_TOKEN_ID
      BY <1>1, LenProperties DEF Written
<1>5. Len(row[i]) < TokenCount /\ Len(row[i]) <= at
      BY <1>2, <1>3, <1>4
<1>6. CASE UNCHANGED <<row, ended>> /\ \A j \in SampleIndices : ended[j]
  <2>1. Ended(row[i])
        BY <1>4, <1>6
  <2>2. Written(row'[i], ended'[i], at)
        BY <1>4, <1>5, <1>6 DEF Written
  <2>. QED  BY <1>6, <2>1, <2>2
<1>7. CASE /\ row' = [j \in SampleIndices |-> Append(row[j], Greedy(j))]
           /\ ended' = [j \in SampleIndices |-> ended[j] \/ Greedy(j) = EOS_TOKEN_ID]
  <2>1. row'[i] = Append(row[i], Greedy(i)) /\ ended'[i] = (ended[i] \/ Greedy(i) = EOS_TOKEN_ID)
        BY <1>7
  <2>2. /\ Greedy(i) \in Tokens /\ (ended[i] => Greedy(i) = PAD_TOKEN_ID)
        /\ ~ended[i] => \A u \in Tokens \ {Greedy(i)} : Likelier(batch[i], row[i], Greedy(i), u)
    <3>1. PAD_TOKEN_ID \in Tokens
      <4>1. VocabularySize \in Nat /\ call.width \in 1..(VocabularySize - 2)
            BY <1>1, Controls
      <4>. QED  BY <4>1 DEF PAD_TOKEN_ID, Tokens
    <3>2. \E g \in Tokens : \A u \in Tokens \ {g} : Likelier(batch[i], row[i], g, u)
          BY <1>2, <1>4, <1>5, ArgMax
    <3>3. CASE ended[i]
          BY <3>1, <3>3 DEF Greedy
    <3>4. CASE ~ended[i]
      <4>1. Greedy(i) = CHOOSE t \in Tokens : \A u \in Tokens \ {t} : Likelier(batch[i], row[i], t, u)
            BY <3>4 DEF Greedy
      <4>. QED  BY <3>2, <3>4, <4>1
    <3>. QED  BY <3>3, <3>4
  <2>3. Written(row'[i], ended'[i], at)
    <3>1. Written(Append(row[i], Greedy(i)), ended[i] \/ Greedy(i) = EOS_TOKEN_ID, (at - 1) + 1)
          BY <1>1, <1>3, <2>2, WrittenMore
    <3>. QED  BY <1>3, <2>1, <3>1
  <2>4. Text(row'[i]) = IF Ended(row[i]) THEN Text(row[i]) ELSE Append(row[i], Greedy(i))
        BY <1>4, <2>1, <2>2, TextIs
  <2>. QED  BY <1>4, <2>2, <2>3, <2>4
<1>. QED  BY <1>6, <1>7 DEF Position, GreedyPosition

\* With one beam, the search follows greedy decoding.
LEMMA NarrowNext ==
  ASSUME SearchInv, Position, NEW i \in SampleIndices, BeamWidth = 1, running' # "stuck"
  PROVE  Narrow(batch[i], NoRepeat, beams'[i], row'[i])
<1> DEFINE m == batch[i]
           x == row[i]
<1>1. /\ call \in Calls /\ at \in 1..(TokenCount + 1) /\ at <= TokenCount
      /\ Written(x, ended[i], at - 1)
      BY DEF SearchInv, Position
<1>2. m \in Networks /\ NoRepeat \in Nat \ {0, 1} /\ TokenCount \in Nat
      BY <1>1, CallIs
<1>3. x \in Seq(Tokens) /\ Len(x) < TokenCount /\ Len(x) \in Nat
  <2>1. x \in Seq(Tokens) /\ Len(x) <= at - 1 /\ Len(x) \in Nat
        BY <1>1, LenProperties DEF Written
  <2>. QED  BY <1>1, <1>2, <2>1
<1>4. Text(x) \in Seq(Tokens) /\ Len(Text(x)) <= TokenCount /\ (Ended(Text(x)) <=> Ended(x)) /\ (~Ended(x) => Text(x) = x)
  <2>1. Text(x) \in Seq(Tokens) /\ Len(Text(x)) <= Len(x) /\ (Ended(Text(x)) <=> Ended(x)) /\ (~Ended(x) => Text(x) = x)
        BY <1>3, TextIs
  <2>2. Len(Text(x)) \in Nat
        BY <2>1, LenProperties
  <2>. QED  BY <1>2, <1>3, <2>1, <2>2
<1>5. \/ UNCHANGED beams /\ \A b \in ToSet(beams[i]) : b.finished
      \/ /\ beams'[i] = Kept(m, NoRepeat, 1, ToSet(beams[i]))
         /\ \A b \in ToSet(beams[i]) : ~b.finished => Accepted(m, NoRepeat, 1, b.tokens) # <<>>
  <2>1. CASE running # "search" /\ UNCHANGED <<beams, previous, running>>
        BY <1>1, <2>1 DEF SearchInv
  <2>. QED  BY <2>1, PositionIs
<1>6. Narrow(m, NoRepeat, beams[i], x)
  <2>1. running # "stuck"
        BY PositionIs
  <2>. QED  BY <2>1 DEF SearchInv
<1>7. \/ Ended(x) /\ Text(row'[i]) = Text(x)
      \/ /\ ~Ended(x) /\ Text(row'[i]) = Append(x, Greedy(i))
         /\ Greedy(i) \in Tokens
         /\ \A u \in Tokens \ {Greedy(i)} : Likelier(m, x, Greedy(i), u)
      BY RowNext
<1> SUFFICES ASSUME WellFormed(NoRepeat, Text(row'[i])) PROVE beams'[i] = <<BeamOf(m, Text(row'[i]))>>
    BY DEF Narrow
<1>8. CASE Ended(x) /\ Text(row'[i]) = Text(x)
  <2>1. beams[i] = <<BeamOf(m, Text(x))>>
        BY <1>6, <1>8 DEF Narrow
  <2>2. CASE UNCHANGED beams
        BY <1>8, <2>1, <2>2
  <2>3. CASE beams'[i] = Kept(m, NoRepeat, 1, ToSet(beams[i]))
    <3>1. Ended(Text(x))
          BY <1>4, <1>8
    <3>2. Kept(m, NoRepeat, 1, ToSet(beams[i])) = <<BeamOf(m, Text(x))>>
      <4> HIDE DEF m, x
      <4>. QED  BY <1>2, <1>4, <2>1, <3>1, NarrowEnded
    <3>. QED  BY <1>8, <2>3, <3>2
  <2>. QED  BY <1>5, <2>2, <2>3
<1>9. CASE /\ ~Ended(x) /\ Text(row'[i]) = Append(x, Greedy(i))
           /\ Greedy(i) \in Tokens
           /\ \A u \in Tokens \ {Greedy(i)} : Likelier(m, x, Greedy(i), u)
  <2>1. WellFormed(NoRepeat, Append(x, Greedy(i))) /\ WellFormed(NoRepeat, x)
    <3>1. WellFormed(NoRepeat, Append(x, Greedy(i)))
          BY <1>9
    <3>. QED  BY <1>2, <1>3, <1>9, <3>1, WellFormedLess
  <2>2. beams[i] = <<BeamOf(m, x)>>
        BY <1>4, <1>6, <1>9, <2>1 DEF Narrow
  <2>3. BeamOf(m, x) \in ToSet(beams[i]) /\ ~BeamOf(m, x).finished /\ BeamOf(m, x).tokens = x
    <3>1. ToSet(beams[i]) = {BeamOf(m, x)}
          BY <2>2 DEF ToSet
    <3>. QED  BY <1>9, <3>1 DEF BeamOf
  <2>4. beams'[i] = Kept(m, NoRepeat, 1, ToSet(beams[i])) /\ Accepted(m, NoRepeat, 1, x) # <<>>
        BY <1>5, <2>3
  <2>5. Kept(m, NoRepeat, 1, ToSet(beams[i])) = <<BeamOf(m, Append(x, Greedy(i)))>>
    <3> HIDE DEF m, x
    <3>. QED  BY <1>2, <1>3, <1>9, <2>1, <2>2, <2>4, NarrowMore
  <2>. QED  BY <1>9, <2>4, <2>5
<1>. QED  BY <1>7, <1>8, <1>9

-----------------------------------------------------------------------------
(* The theorems of the decoders *)

LEMMA TextOfNothing == Text(<<>>) = <<>> /\ ~Ended(<<>>) /\ \A size \in Nat \ {0, 1} : WellFormed(size, <<>>)
<1>1. <<>> \in Seq(Tokens) /\ Len(<<>>) = 0 /\ DOMAIN <<>> = {}
      OBVIOUS
<1>2. ~Ended(<<>>)
      BY <1>1 DEF Ended
<1>3. Text(<<>>) = <<>>
      BY <1>1, <1>2, TextIs
<1>4. ASSUME NEW size \in Nat \ {0, 1} PROVE WellFormed(size, <<>>)
  <2>1. 1..0 = {} /\ 1..(0 - size + 1) = {}
        OBVIOUS
  <2>. QED  BY <1>1, <1>4, <2>1, WellFormedIs
<1>. QED  BY <1>2, <1>3, <1>4

LEMMA SearchStarts == SearchInit => SearchInv
<1> SUFFICES ASSUME SearchInit PROVE SearchInv
    OBVIOUS
<1>1. /\ call \in Calls /\ at = 1 /\ running = "search" /\ at - 1 = 0 /\ at \in 1..(TokenCount + 1)
      /\ DOMAIN beams = SampleIndices /\ DOMAIN previous = SampleIndices
      /\ DOMAIN row = SampleIndices /\ DOMAIN ended = SampleIndices
      BY Controls DEF SearchInit
<1>2. ASSUME NEW i \in SampleIndices
      PROVE  /\ beams[i] \in Seq(Beams(batch[i], Strings(batch[i], NoRepeat, 0))) /\ Len(beams[i]) <= BeamWidth
             /\ Written(row[i], ended[i], 0)
             /\ Narrow(batch[i], NoRepeat, beams[i], row[i])
  <2> DEFINE b == BeamOf(batch[i], <<>>)
  <2>1. batch[i] \in Networks /\ NoRepeat \in Nat \ {0, 1} /\ BeamWidth \in Nat \ {0}
        BY <1>1, CallIs
  <2>2. b = [score |-> 0, tokens |-> <<>>, finished |-> FALSE]
    <3>1. Ended(<<>>) = FALSE
          BY TextOfNothing DEF Ended
    <3>. QED  BY <3>1, ProbabilityOfNothing DEF BeamOf
  <2>3. beams[i] = <<b>> /\ row[i] = <<>> /\ ended[i] = FALSE
        BY <2>2 DEF SearchInit
  <2>4. <<>> \in Strings(batch[i], NoRepeat, 0)
    <3>1. <<>> \in Seq(Tokens) /\ Len(<<>>) <= 0 /\ Possible(batch[i], <<>>)
          BY DEF Possible
    <3>. QED  BY <2>1, <3>1, TextOfNothing DEF Strings
  <2>5. b \in Beams(batch[i], Strings(batch[i], NoRepeat, 0))
        BY <2>4 DEF Beams
  <2>6. Written(row[i], ended[i], 0)
    <3>1. Ended(<<>>) = FALSE
          BY TextOfNothing DEF Ended
    <3>2. <<>> \in Seq(Tokens) /\ Len(<<>>) <= 0 /\ DOMAIN <<>> = {}
          OBVIOUS
    <3>. QED  BY <2>3, <3>1, <3>2 DEF Written
  <2>7. Narrow(batch[i], NoRepeat, beams[i], row[i])
        BY <2>3, TextOfNothing DEF Narrow
  <2> HIDE DEF b
  <2>8. <<b>> \in Seq(Beams(batch[i], Strings(batch[i], NoRepeat, 0))) /\ Len(<<b>>) = 1
        BY <2>5
  <2>. QED  BY <2>1, <2>3, <2>6, <2>7, <2>8
<1>. QED  BY <1>1, <1>2 DEF SearchInv

LEMMA SearchNextStep == SearchInv /\ [SearchNext]_searchVars => SearchInv'
<1> SUFFICES ASSUME SearchInv, [SearchNext]_searchVars PROVE SearchInv'
    OBVIOUS
<1>1. CASE Position
  <2>1. /\ call' = call /\ batch' = batch /\ SampleIndices' = SampleIndices
        /\ NoRepeat' = NoRepeat /\ BeamWidth' = BeamWidth
        BY <1>1 DEF Position, batch, SampleIndices, NoRepeat, BeamWidth
  <2>2. /\ call \in Calls /\ at \in 1..(TokenCount + 1) /\ at <= TokenCount /\ TokenCount \in Nat
        /\ at' = at + 1 /\ running \in {"search", "done", "stuck"}
        BY <1>1, Controls DEF SearchInv, Position
  <2>3. at' \in 1..(TokenCount + 1) /\ at' - 1 = at /\ at' # 1
        BY <2>2
  <2>4. running' \in {"search", "done", "stuck"}
        BY <1>1, <2>2 DEF Position, BeamPosition
  <2>5. /\ DOMAIN beams' = SampleIndices /\ DOMAIN previous' = SampleIndices
        /\ DOMAIN row' = SampleIndices /\ DOMAIN ended' = SampleIndices
    <3>1. /\ DOMAIN beams = SampleIndices /\ DOMAIN previous = SampleIndices
          /\ DOMAIN row = SampleIndices /\ DOMAIN ended = SampleIndices
          BY DEF SearchInv
    <3>2. (beams' = beams \/ DOMAIN beams' = SampleIndices) /\ (previous' = beams \/ previous' = previous)
          BY <1>1 DEF Position, BeamPosition
    <3>3. UNCHANGED <<row, ended>> \/ (DOMAIN row' = SampleIndices /\ DOMAIN ended' = SampleIndices)
          BY <1>1 DEF Position, GreedyPosition
    <3>. QED  BY <3>1, <3>2, <3>3
  <2>6. ASSUME NEW i \in SampleIndices
        PROVE  /\ beams'[i] \in Seq(Beams(batch[i], Strings(batch[i], NoRepeat, at))) /\ Len(beams'[i]) <= BeamWidth
               /\ Written(row'[i], ended'[i], at)
               /\ BeamWidth = 1 /\ running' # "stuck" => Narrow(batch[i], NoRepeat, beams'[i], row'[i])
               /\ running' # "stuck" => BestOf(batch[i], NoRepeat, BeamWidth, ToSet(previous'[i]), ToSet(beams'[i]))
               /\ running' = "done" /\ at' <= TokenCount => \A b \in ToSet(beams'[i]) : b.finished
    <3>1. ASSUME running' = "done", at' <= TokenCount PROVE \A b \in ToSet(beams'[i]) : b.finished
      <4>1. at # TokenCount
            BY <2>2, <3>1
      <4>2. CASE running # "search" /\ UNCHANGED <<beams, previous, running>>
            BY <2>2, <3>1, <4>2 DEF SearchInv
      <4>. QED  BY <1>1, <3>1, <4>1, <4>2, PositionIs
    <3>. QED  BY <1>1, <3>1, BeamsNext, RowNext, NarrowNext
  <2>. QED  BY <2>1, <2>2, <2>3, <2>4, <2>5, <2>6 DEF SearchInv
<1>2. CASE UNCHANGED searchVars
      BY <1>2 DEF SearchInv, searchVars, batch, SampleIndices, NoRepeat, BeamWidth
<1>. QED  BY <1>1, <1>2 DEF SearchNext

\* Whatever the calls, the network and the number of positions: every beam of
\* the search is a well-formed, possible string with its probability, the
\* beams are the best of what they could have become at the last position, and
\* greedy decoding writes what a search with one beam does.
THEOREM SearchInductive == SearchSpec => []SearchInv
<1>1. SearchInit => SearchInv
      BY SearchStarts
<1>2. SearchInv /\ [SearchNext]_searchVars => SearchInv'
      BY SearchNextStep
<1>. QED  BY <1>1, <1>2, PTL DEF SearchSpec

\* The beams after a position are exactly the BeamWidth best of all strings
\* that keep a finished beam or continue a live one, and greedy decoding is
\* the search with one beam (portable_model.py:485-651).
THEOREM BeamsAreBestHolds == SearchSpec => []BeamsAreBest
<1>1. SearchInv => BeamsAreBest
  <2> SUFFICES ASSUME SearchInv PROVE BeamsAreBest
      OBVIOUS
  <2>1. SearchIsBest
        BY DEF SearchInv, SearchIsBest, BestOf
  <2>2. ASSUME NEW i \in SampleIndices
        PROVE  /\ \A k \in DOMAIN row[i] : k > Len(Text(row[i])) => row[i][k] = PAD_TOKEN_ID
               /\ BeamWidth = 1 /\ WellFormed(NoRepeat, Text(row[i])) /\ running # "stuck" => Result(i) = Text(row[i])
    <3>1. \A k \in DOMAIN row[i] : k > Len(Text(row[i])) => row[i][k] = PAD_TOKEN_ID
          BY DEF SearchInv, Written
    <3>2. ASSUME BeamWidth = 1, WellFormed(NoRepeat, Text(row[i])), running # "stuck" PROVE Result(i) = Text(row[i])
      <4>1. beams[i] = <<BeamOf(batch[i], Text(row[i]))>>
            BY <3>2 DEF SearchInv, Narrow
      <4>. QED  BY <4>1 DEF Result, BeamOf
    <3>. QED  BY <3>1, <3>2
  <2>. QED  BY <2>1, <2>2 DEF BeamsAreBest, GreedyIsNarrow
<1>. QED  BY <1>1, SearchInductive, PTL
=============================================================================
