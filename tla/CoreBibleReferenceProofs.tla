----------------------- MODULE CoreBibleReferenceProofs -----------------------
(***************************************************************************)
(* What parse() finds, for every text, every table of names that fits      *)
(* find_book() and every table of verses: the name is a whole one, each    *)
(* reading of the template is what the template means, and the result is   *)
(* the reading with fewest verses; a citation is found as it is meant.     *)
(***************************************************************************)
EXTENDS CoreBibleReference, FiniteSetTheorems, WellFoundedInduction, TLAPS

-----------------------------------------------------------------------------
(* Numbers in their order                                                    *)
(* A set of numbers that is not empty has a least one. *)
LEMMA MinOfNumbers ==
  ASSUME NEW T \in SUBSET Nat, T # {}
  PROVE  Min(T) \in T /\ \A y \in T : Min(T) <= y
<1> DEFINE R == {ss \in Nat \X Nat : ss[1] < ss[2]}
<1>1. IsWellFoundedOn(R, Nat)
  BY NatLessThanWellFounded DEF OpToRel
<1>2. PICK x \in T : \A y \in T : <<y, x>> \notin R
  <2> HIDE DEF R
  <2> QED
    BY <1>1, WFMin
<1>3. ASSUME NEW y \in T PROVE x <= y
  <2>1. <<y, x>> \in Nat \X Nat /\ <<y, x>>[1] = y /\ <<y, x>>[2] = x
    OBVIOUS
  <2>2. ~(y < x)
    BY <1>2, <2>1 DEF R
  <2>3. QED
    BY <2>2
<1>4. QED
  BY <1>3 DEF Min

(* A set of numbers up to n that is not empty has a greatest one. *)
LEMMA MaxOfNumbers ==
  ASSUME NEW n \in Nat, NEW T \in SUBSET (1 .. n), T # {}
  PROVE  Max(T) \in T /\ \A y \in T : Max(T) >= y
<1> DEFINE U == {n - y : y \in T}
<1>1. /\ \A y \in T : y \in Nat /\ y <= n /\ n - y \in Nat
      /\ U \in SUBSET Nat /\ U # {}
  <2>1. \A y \in T : y \in 1 .. n
    OBVIOUS
  <2>2. \A y \in T : y \in Nat /\ y <= n /\ n - y \in Nat
    BY <2>1
  <2>3. QED
    BY <2>2
<1>2. PICK u \in U : \A y \in U : u <= y
  BY <1>1, MinOfNumbers
<1>3. PICK x \in T : u = n - x
  OBVIOUS
<1>4. ASSUME NEW y \in T PROVE x >= y
  <2>1. u <= n - y
    BY <1>2
  <2>2. QED
    BY <1>1, <1>3, <2>1
<1>5. QED
  BY <1>4 DEF Max

\* How many of the numbers are below one of them.
Below(S, i) == {j \in S : j < i}
Rank(S, i) == Cardinality(Below(S, i))

(* The rank of a number is smaller than the size of the set, and grows with the
   number. *)
LEMMA RankGrows ==
  ASSUME NEW S \in SUBSET Nat, IsFiniteSet(S), NEW i \in S
  PROVE  /\ Rank(S, i) \in 0 .. Cardinality(S) - 1
         /\ \A j \in S : j < i => Rank(S, j) < Rank(S, i)
<1>1. /\ Below(S, i) \in SUBSET S /\ IsFiniteSet(Below(S, i)) /\ i \notin Below(S, i)
      /\ Rank(S, i) \in Nat
  BY FS_Subset, FS_CardinalityType DEF Below, Rank
<1>2. Cardinality(S) \in Nat /\ Rank(S, i) <= Cardinality(S) /\ Rank(S, i) # Cardinality(S)
  BY <1>1, FS_Subset, FS_CardinalityType DEF Rank
<1>3. ASSUME NEW j \in S, j < i PROVE Rank(S, j) < Rank(S, i)
  <2>1. Below(S, j) \in SUBSET Below(S, i) /\ j \in Below(S, i) /\ j \notin Below(S, j)
    <3>1. i \in Nat /\ j \in Nat
      OBVIOUS
    <3>2. ASSUME NEW l \in S, l < j PROVE l < i
      BY <1>3, <3>1, <3>2
    <3>3. ~(j < j)
      BY <3>1
    <3>4. QED
      BY <1>3, <3>2, <3>3 DEF Below
  <2>2. Rank(S, j) \in Nat /\ Rank(S, j) <= Rank(S, i) /\ Rank(S, j) # Rank(S, i)
    BY <1>1, <2>1, FS_Subset, FS_CardinalityType DEF Rank
  <2>3. QED
    BY <1>1, <2>2
<1>4. QED
  BY <1>1, <1>2, <1>3

(* Every rank is the rank of a number of the set. *)
LEMMA EveryRank ==
  ASSUME NEW S \in SUBSET Nat, IsFiniteSet(S), NEW n \in 1 .. Cardinality(S)
  PROVE  \E i \in S : Rank(S, i) = n - 1
<1> DEFINE N == Cardinality(S)
           f == [i \in S |-> Rank(S, i)]
<1>1. N \in Nat /\ IsFiniteSet(0 .. N - 1) /\ Cardinality(0 .. N - 1) = N
  <2>1. N \in Nat
    BY FS_CardinalityType
  <2>2. 0 \in Int /\ N - 1 \in Int
    BY <2>1
  <2>3. IsFiniteSet(0 .. N - 1) /\ Cardinality(0 .. N - 1) = IF 0 > N - 1 THEN 0 ELSE N - 1 - 0 + 1
    <3> HIDE DEF N
    <3> QED
      BY <2>2, FS_Interval
  <2>4. QED
    BY <2>1, <2>3
<1>2. f \in [S -> 0 .. N - 1]
  BY RankGrows
<1>3. ASSUME NEW i \in S, NEW j \in S, f[i] = f[j] PROVE i = j
  <2>1. i \in Nat /\ j \in Nat /\ Rank(S, i) = Rank(S, j) /\ Rank(S, i) \in Nat
    BY <1>1, <1>3, RankGrows
  <2>2. ~(i < j) /\ ~(j < i)
    BY <2>1, RankGrows
  <2>3. QED
    BY <2>1, <2>2
<1>4. f \in Injection(S, 0 .. N - 1)
  BY <1>2, <1>3 DEF Injection, IsInjective
<1>5. f \in Surjection(S, 0 .. N - 1)
  <2> HIDE DEF f
  <2> QED
    BY <1>1, <1>4, FS_Injection
<1>6. n - 1 \in 0 .. N - 1
  BY <1>1
<1>7. QED
  BY <1>5, <1>6 DEF Surjection

(* What InOrder returns. *)
LEMMA InOrderCorrect ==
  ASSUME NEW S \in SUBSET Nat, IsFiniteSet(S)
  PROVE  /\ Cardinality(S) \in Nat
         /\ InOrder(S) \in [1 .. Cardinality(S) -> S]
         /\ \A n \in 1 .. Cardinality(S) : Rank(S, InOrder(S)[n]) = n - 1
<1> DEFINE N == Cardinality(S)
           nth == [n \in 1 .. N |-> CHOOSE i \in S : Rank(S, i) = n - 1]
<1>1. N \in Nat
  BY FS_CardinalityType
<1>2. \A n \in 1 .. N : nth[n] \in S /\ Rank(S, nth[n]) = n - 1
  BY EveryRank
<1>3. InOrder(S) = SubSeq(nth, 1, N)
  BY DEF InOrder, Rank, Below
<1>4. nth \in [1 .. N -> S]
  BY <1>2
<1>5. SubSeq(nth, 1, N) = nth
  <2> HIDE DEF nth
  <2>1. nth \in Seq(S) /\ Len(nth) = N
    BY <1>1, <1>4
  <2>2. QED
    BY <1>1, <2>1
<1>6. QED
  BY <1>1, <1>2, <1>3, <1>4, <1>5

(* The sequence goes up, and has every number of the set. *)
LEMMA InOrderGrows ==
  ASSUME NEW S \in SUBSET Nat, IsFiniteSet(S)
  PROVE  /\ \A m, n \in 1 .. Cardinality(S) : m < n => InOrder(S)[m] < InOrder(S)[n]
         /\ \A i \in S : Rank(S, i) + 1 \in 1 .. Cardinality(S) /\ InOrder(S)[Rank(S, i) + 1] = i
<1>1. ASSUME NEW i \in S, NEW j \in S, Rank(S, i) <= Rank(S, j) PROVE i <= j
  <2>1. i \in Nat /\ j \in Nat /\ Rank(S, i) \in Nat /\ Rank(S, j) \in Nat
    BY InOrderCorrect, RankGrows
  <2>2. j < i => Rank(S, j) < Rank(S, i)
    BY RankGrows
  <2>3. QED
    BY <1>1, <2>1, <2>2
<1>2. PICK g : g = InOrder(S)
  OBVIOUS
<1>3. PICK N \in Nat : N = Cardinality(S)
  BY InOrderCorrect
<1>4. \A n \in 1 .. N : g[n] \in S /\ g[n] \in Nat /\ Rank(S, g[n]) = n - 1
  <2>1. g \in [1 .. N -> S] /\ \A n \in 1 .. N : Rank(S, g[n]) = n - 1
    BY <1>2, <1>3, InOrderCorrect
  <2>2. QED
    BY <2>1
<1>5. ASSUME NEW m \in 1 .. N, NEW n \in 1 .. N, m < n
      PROVE  g[m] < g[n]
  <2>1. m - 1 <= n - 1 /\ m - 1 # n - 1
    BY <1>5
  <2>2. g[m] <= g[n]
    BY <1>1, <1>4, <2>1
  <2>3. g[m] # g[n]
    BY <1>4, <2>1
  <2>4. QED
    BY <1>4, <2>2, <2>3
<1>6. ASSUME NEW i \in S
      PROVE  Rank(S, i) + 1 \in 1 .. N /\ g[Rank(S, i) + 1] = i
  <2>1. PICK r \in 0 .. N - 1 : r = Rank(S, i)
    BY <1>3, RankGrows
  <2>2. r + 1 \in 1 .. N /\ r + 1 - 1 = r
    OBVIOUS
  <2>3. PICK j \in S : j = g[r + 1] /\ Rank(S, j) = r
    BY <1>4, <2>2
  <2>4. r <= r /\ j \in Nat /\ i \in Nat
    OBVIOUS
  <2>5. i <= j /\ j <= i
    BY <1>1, <2>1, <2>3, <2>4
  <2>6. QED
    BY <2>1, <2>2, <2>3, <2>4, <2>5
<1>7. QED
  BY <1>2, <1>3, <1>5, <1>6
-----------------------------------------------------------------------------
(* Names in a text                                                           *)
LEMMA Sequence ==
  ASSUME NEW s, IsSequence(s)
  PROVE  Len(s) \in Nat /\ DOMAIN s = 1 .. Len(s)
BY DEF IsSequence

(* The characters of the normalized text are some of those of the text, in   *)
(* their order.                                                              *)
LEMMA KeptGrows ==
  ASSUME NEW t, IsSequence(t)
  PROVE  \E N \in Nat :
           /\ Kept(t) \in [1 .. N -> Nat]
           /\ \A i \in 1 .. N : Kept(t)[i] \in 1 .. Len(t)
           /\ \A i, j \in 1 .. N : i < j => Kept(t)[i] < Kept(t)[j]
           /\ DOMAIN Normalized(t) = 1 .. N /\ Len(Normalized(t)) = N
<1> DEFINE S == {i \in DOMAIN t : t[i] \notin Whitespaces \cup Lines \cup {"."}}
<1>1. S \in SUBSET Nat /\ IsFiniteSet(S)
  <2>1. Len(t) \in Nat /\ DOMAIN t = 1 .. Len(t)
    BY Sequence
  <2>2. IsFiniteSet(1 .. Len(t))
    BY <2>1, FS_Interval
  <2>3. S \in SUBSET (1 .. Len(t))
    BY <2>1
  <2>4. IsFiniteSet(S)
    BY <2>2, <2>3, FS_Subset
  <2>5. QED
    BY <2>1, <2>3, <2>4
<1>2. Kept(t) = InOrder(S)
  BY DEF Kept
<1>3. PICK N \in Nat : N = Cardinality(S)
  BY <1>1, InOrderCorrect
<1>4. /\ InOrder(S) \in [1 .. N -> S]
      /\ \A i, j \in 1 .. N : i < j => InOrder(S)[i] < InOrder(S)[j]
  <2> HIDE DEF S
  <2> QED
    BY <1>1, <1>3, InOrderCorrect, InOrderGrows
<1>5. /\ Kept(t) \in [1 .. N -> Nat] /\ \A i, j \in 1 .. N : i < j => Kept(t)[i] < Kept(t)[j]
      /\ \A i \in 1 .. N : Kept(t)[i] \in 1 .. Len(t)
  <2>1. \A i \in S : i \in 1 .. Len(t)
    BY Sequence
  <2>2. QED
    <3> HIDE DEF S
    <3> QED
      BY <1>1, <1>2, <1>4, <2>1
<1>6. DOMAIN Normalized(t) = 1 .. N /\ Len(Normalized(t)) = N
  <2>1. PICK raw : raw = Kept(t)
    OBVIOUS
  <2>2. DOMAIN raw = 1 .. N
    BY <1>5, <2>1
  <2>3. PICK f : f = [i \in DOMAIN raw |-> IF t[raw[i]] \in Letters \cup DigitChars THEN t[raw[i]] ELSE "*"]
    OBVIOUS
  <2>4. f = Normalized(t)
    BY <2>1, <2>3 DEF Normalized
  <2>5. DOMAIN f = 1 .. N
    BY <2>2, <2>3
  <2>6. f \in Seq({f[i] : i \in 1 .. N})
    <3>1. f = [i \in 1 .. N |-> f[i]]
      BY <2>2, <2>3
    <3>2. QED
      BY <3>1
  <2>7. QED
    BY <2>4, <2>5, <2>6
<1>7. QED
  BY <1>5, <1>6

(* What NamesFit says of one name. *)
LEMMA NameParts ==
  ASSUME NEW k \in DOMAIN name_variants_list
  PROVE  LET name == name_variants_list[k].name
         IN  /\ Len(name) \in Nat \ {0}
             /\ name[1] \in Letters \ number_postfix_chars \/ (Len(name) >= 2 /\ name[2] \in Letters \ number_postfix_chars)
             /\ \A i \in 2 .. Len(name) : name[i] \in Letters
<1> DEFINE name == name_variants_list[k].name
<1>1. PICK h \in 1 .. Len(name) :
        /\ h \in {1, 2} /\ name[h] \in Letters \ number_postfix_chars
        /\ \A i \in 1 .. Len(name) : name[i] \in IF i < h THEN DigitChars ELSE Letters
  BY NamesAssumption DEF NamesFit
<1>2. Len(name) \in Nat
  BY NamesAssumption, Sequence DEF NamesFit
<1>3. QED
  <2> HIDE DEF name
  <2>1. \A i \in 2 .. Len(name) : i \in 1 .. Len(name) /\ ~(i < h)
    BY <1>1, <1>2
  <2>2. Len(name) \in Nat \ {0} /\ (h = 2 => Len(name) >= 2)
    BY <1>1, <1>2
  <2>3. QED
    BY <1>1, <2>1, <2>2 DEF name

(* Where the numbers end. *)
LEMMA NumbersEndIs ==
  ASSUME NEW s, NEW N \in Nat, Len(s) = N, NEW b \in Nat
  PROVE  /\ NumbersEnd(s, b) \in Nat /\ NumbersEnd(s, b) <= N + 1
         /\ b <= N + 1 => b <= NumbersEnd(s, b)
         /\ \A i \in b .. N : s[i] \in Letters \ number_postfix_chars => NumbersEnd(s, b) <= i
<1> DEFINE T == {i \in b .. N : s[i] \in Letters \ number_postfix_chars} \cup {N + 1}
<1>1. T \in SUBSET Nat /\ T # {} /\ N + 1 \in T /\ \A i \in T : i \in b .. N \/ i = N + 1
  OBVIOUS
<1>2. NumbersEnd(s, b) = Min(T)
  BY DEF NumbersEnd, for_each_char_while
<1>3. Min(T) \in T /\ \A y \in T : Min(T) <= y
  <2> HIDE DEF T
  <2> QED
    BY <1>1, MinOfNumbers
<1>4. \A i \in b .. N : s[i] \in Letters \ number_postfix_chars => i \in T
  OBVIOUS
<1>5. QED
  <2> HIDE DEF T
  <2>1. PICK e : e = Min(T)
    OBVIOUS
  <2>2. e \in Nat /\ e <= N + 1 /\ (b <= N + 1 => b <= e)
    <3>1. e \in Nat /\ (e \in b .. N \/ e = N + 1)
      BY <1>1, <1>3, <2>1
    <3>2. QED
      BY <3>1
  <2>3. QED
    BY <1>2, <1>3, <1>4, <2>1, <2>2
(* What it is for a name to be hit. *)
LEMMA HitParts ==
  ASSUME NEW t, IsSequence(t), NEW c, NEW k, NEW p, <<k, p>> \in Hits(t, c)
  PROVE  /\ k \in DOMAIN name_variants_list /\ p \in 1 .. Len(Normalized(t))
         /\ Occurs(name_variants_list[k].name, Normalized(t), p)
         /\ NumbersFound(Normalized(t), p + Len(name_variants_list[k].name))
<1>1. PICK x \in (DOMAIN name_variants_list) \X DOMAIN Normalized(t) :
        /\ x = <<k, p>>
        /\ Occurs(name_variants_list[x[1]].name, Normalized(t), x[2])
        /\ NumbersFound(Normalized(t), x[2] + Len(name_variants_list[x[1]].name))
  BY DEF Hits
<1>2. x[1] = k /\ x[2] = p /\ k \in DOMAIN name_variants_list /\ p \in DOMAIN Normalized(t)
  BY <1>1
<1>3. QED
  BY <1>1, <1>2, KeptGrows

(* Of two names that are hit, a part of the other one is earlier in the list. *)
LEMMA PartIsEarlier ==
  ASSUME NEW t, IsSequence(t), NEW c,
         NEW k, NEW p, <<k, p>> \in Hits(t, c),
         NEW l, NEW q, <<l, q>> \in Hits(t, c),
         q <= p,
         p + Len(name_variants_list[k].name) <= q + Len(name_variants_list[l].name)
  PROVE  k < l \/ (k = l /\ p = q)
<1> DEFINE s == Normalized(t)
           short == name_variants_list[k].name
           long == name_variants_list[l].name
<1>1. /\ k \in DOMAIN name_variants_list /\ p \in 1 .. Len(s) /\ Occurs(short, s, p)
      /\ NumbersFound(s, p + Len(short))
      /\ l \in DOMAIN name_variants_list /\ q \in 1 .. Len(s) /\ Occurs(long, s, q)
  BY HitParts
<1>2. PICK N \in Nat : N = Len(s)
  BY KeptGrows
<1>3. PICK m \in Nat \ {0} : m = Len(short)
  BY <1>1, NameParts
<1>4. PICK n \in Nat \ {0} : n = Len(long) /\ \A i \in 2 .. n : long[i] \in Letters
  BY <1>1, NameParts
<1> HIDE DEF s, short, long
<1>5. p \in 1 .. N /\ q \in 1 .. N /\ q <= p /\ p + m <= q + n /\ q + n - 1 <= N
  BY <1>1, <1>2, <1>3, <1>4 DEF Occurs, short, long
<1>6. /\ \A i \in 1 .. m : s[p + i - 1] = short[i]
      /\ \A i \in 1 .. n : s[q + i - 1] = long[i]
  BY <1>1, <1>3, <1>4 DEF Occurs
<1>7. PICK d \in 1 .. n : d = p - q + 1
  <2>1. p - q + 1 \in 1 .. n
    BY <1>5
  <2>2. QED
    BY <2>1
<1>8. Occurs(short, long, d)
  <2>1. d + m - 1 <= n
    BY <1>5, <1>7
  <2>2. ASSUME NEW i \in 1 .. m PROVE long[d + i - 1] = short[i]
    <3>1. d + i - 1 \in 1 .. n /\ q + (d + i - 1) - 1 = p + i - 1
      BY <1>5, <1>7
    <3>2. QED
      BY <1>6, <3>1
  <2>3. QED
    BY <1>3, <1>4, <2>1, <2>2 DEF Occurs
<1>9. ASSUME NEW i \in d + m .. n, long[i] \notin number_postfix_chars PROVE FALSE
  <2>1. i \in 2 .. n /\ i \in 1 .. n /\ q + i - 1 \in p + m .. N
    BY <1>5, <1>7
  <2>2. s[q + i - 1] \in Letters \ number_postfix_chars
    BY <1>4, <1>6, <1>9, <2>1
  <2>3. PICK e \in Nat : e = NumbersEnd(s, p + m) /\ e <= q + i - 1
    <3>1. p + m \in Nat
      BY <1>5
    <3>2. QED
      BY <1>2, <2>1, <2>2, <3>1, NumbersEndIs
  <2>4. PICK j \in p + m .. e - 1 : s[j] \in DigitChars
    BY <1>1, <1>3, <2>3 DEF NumbersFound
  <2>5. PICK o \in 2 .. n : j = q + o - 1
    <3>1. j - q + 1 \in 2 .. n /\ j = q + (j - q + 1) - 1
      BY <1>5, <2>1, <2>3
    <3>2. QED
      BY <3>1
  <2>6. s[j] \in Letters
    <3>1. o \in 1 .. n
      OBVIOUS
    <3>2. QED
      BY <1>4, <1>6, <2>5, <3>1
  <2>7. QED
    BY <2>4, <2>6, NamesAssumption DEF NamesFit
<1>10. k # l => k < l
  <2>1. \A y \in 1 .. Len(long) :
          /\ k # l /\ Occurs(short, long, y)
          /\ \A i \in y + Len(short) .. Len(long) : long[i] \in number_postfix_chars
          => k < l
    BY <1>1, NamesAssumption DEF NamesFit, short, long
  <2>2. QED
    BY <1>3, <1>4, <1>8, <1>9, <2>1
<1>11. k = l => p = q
  <2>1. k = l => m = n
    BY <1>3, <1>4 DEF short, long
  <2>2. QED
    BY <1>5, <2>1
<1>12. QED
  BY <1>10, <1>11

(* The numbers of a name end before the next name. *)
LEMMA EndBeforeNext ==
  ASSUME NEW t, IsSequence(t), NEW c, NEW k, NEW p, <<k, p>> \in Hits(t, c),
         NEW l \in DOMAIN name_variants_list,
         NEW r \in p + Len(name_variants_list[k].name) .. Len(Normalized(t)),
         Occurs(name_variants_list[l].name, Normalized(t), r)
  PROVE  Candidate(t, k, p).numbers[2] <= Kept(t)[r] /\ Candidate(t, k, p).origin[2] <= Kept(t)[r]
<1> DEFINE s == Normalized(t)
           name == name_variants_list[l].name
<1>1. /\ k \in DOMAIN name_variants_list /\ p \in 1 .. Len(s)
      /\ NumbersFound(s, p + Len(name_variants_list[k].name))
  BY HitParts
<1>2. PICK N \in Nat :
        /\ N = Len(s) /\ Kept(t) \in [1 .. N -> Nat]
        /\ \A i, j \in 1 .. N : i < j => Kept(t)[i] < Kept(t)[j]
  BY KeptGrows
<1>3. PICK b \in Nat : b = p + Len(name_variants_list[k].name) /\ b > p
  <2>1. Len(name_variants_list[k].name) \in Nat \ {0}
    BY <1>1, NameParts
  <2>2. QED
    BY <1>1, <1>2, <2>1
<1>4. PICK n \in Nat \ {0} :
        /\ n = Len(name)
        /\ name[1] \in Letters \ number_postfix_chars \/ (n >= 2 /\ name[2] \in Letters \ number_postfix_chars)
  BY NameParts
<1>5. PICK raw \in [1 .. N -> Nat] :
        raw = Kept(t) /\ \A i, j \in 1 .. N : i < j => raw[i] < raw[j]
  BY <1>2
<1>6. Occurs(name, s, r) /\ r \in b .. N /\ r + n - 1 <= N /\ \A i \in 1 .. n : s[r + i - 1] = name[i]
  BY <1>2, <1>3, <1>4 DEF Occurs
<1> HIDE DEF s, name
<1>7. PICK e \in Nat :
        /\ e = NumbersEnd(s, b) /\ b < e
        /\ \A i \in b .. N : s[i] \in Letters \ number_postfix_chars => e <= i
  <2>1. PICK e \in Nat :
          /\ e = NumbersEnd(s, b)
          /\ \A i \in b .. N : s[i] \in Letters \ number_postfix_chars => e <= i
    BY <1>2, NumbersEndIs
  <2>2. PICK j \in b .. e - 1 : s[j] \in DigitChars
    BY <1>1, <1>3, <2>1 DEF NumbersFound
  <2>3. b < e
    BY <2>2
  <2>4. QED
    BY <2>1, <2>3
<1>8. e <= r \/ (e = r + 1 /\ r + 1 <= N)
  <2>1. CASE name[1] \in Letters \ number_postfix_chars
    <3>1. s[r] = name[1]
      <4>1. 1 \in 1 .. n /\ r + 1 - 1 = r
        BY <1>6
      <4>2. QED
        BY <1>6, <4>1
    <3>2. QED
      BY <1>6, <1>7, <2>1, <3>1
  <2>2. CASE n >= 2 /\ name[2] \in Letters \ number_postfix_chars
    <3>1. s[r + 1] = name[2] /\ r + 1 \in b .. N
      <4>1. 2 \in 1 .. n /\ r + 2 - 1 = r + 1 /\ r + 1 \in b .. N
        BY <1>6, <2>2
      <4>2. QED
        BY <1>6, <4>1
    <3>2. e <= r + 1
      BY <1>7, <2>2, <3>1
    <3>3. QED
      BY <1>6, <3>1, <3>2
  <2>3. QED
    BY <1>4, <2>1, <2>2
<1>9. PICK v \in Nat : v = ValidatedEnd(s, b) /\ b <= v /\ v <= r
  <2>1. ValidatedEnd(s, b) = e \/ ValidatedEnd(s, b) = e - 1
    BY <1>7 DEF ValidatedEnd
  <2>2. e = r + 1 /\ r + 1 <= N => ValidatedEnd(s, b) = e - 1
    <3>1. SUFFICES ASSUME e = r + 1, r + 1 <= N PROVE ValidatedEnd(s, b) = e - 1
      OBVIOUS
    <3>2. Occurs(name_variants_list[l].name, s, e - 1) /\ e <= Len(s) /\ e > b
      BY <1>2, <1>6, <1>7, <3>1 DEF name
    <3>3. QED
      BY <1>7, <3>2 DEF ValidatedEnd
  <2>3. b <= e - 1 /\ e - 1 \in Nat
    BY <1>3, <1>7
  <2>4. QED
    BY <1>6, <1>7, <1>8, <2>1, <2>2, <2>3
<1>10. raw[b] <= raw[r] /\ raw[v - 1] + 1 <= raw[r]
  <2>1. p \in 1 .. N
    BY <1>1, <1>2
  <2>2. b \in 1 .. N /\ r \in 1 .. N /\ v - 1 \in 1 .. N /\ v - 1 < r /\ (b < r \/ b = r)
    <3>1. 1 <= p /\ p \in Nat /\ 1 <= b - 1 /\ b <= r /\ r <= N
      BY <1>3, <1>6, <2>1
    <3>2. 1 <= v - 1 /\ v - 1 <= N
      BY <1>9, <3>1
    <3>3. QED
      BY <1>9, <3>1, <3>2
  <2>3. raw[b] \in Nat /\ raw[r] \in Nat /\ raw[v - 1] \in Nat
    BY <2>2
  <2>4. raw[v - 1] < raw[r] /\ (b = r \/ raw[b] < raw[r])
    BY <1>5, <2>2
  <2>5. QED
    BY <2>3, <2>4
<1>11. /\ Candidate(t, k, p).origin[2] = raw[v - 1] + 1
       /\ Candidate(t, k, p).numbers[2] \in {raw[b], raw[v - 1] + 1}
  BY <1>3, <1>5, <1>9 DEF Candidate, s
<1>12. QED
  BY <1>5, <1>10, <1>11
(* The book that is found is the last name that is hit, at the first place   *)
(* where it is.                                                              *)
LEMMA FoundParts ==
  ASSUME NEW t, IsSequence(t), NEW c, NEW f \in find_book(t, c)
  PROVE  \E k, p : /\ <<k, p>> \in Hits(t, c) /\ f = Candidate(t, k, p) /\ f.name = <<k, p>>
                   /\ \A x \in Hits(t, c) : x[1] <= k
<1>1. PICK h : h = Hits(t, c) /\ h # {}
  BY DEF find_book
<1>2. PICK M \in Nat : DOMAIN name_variants_list = 1 .. M
  BY NamesAssumption, Sequence DEF NamesFit
<1>3. PICK N \in Nat : DOMAIN Normalized(t) = 1 .. N
  BY KeptGrows
<1>4. h \subseteq (1 .. M) \X (1 .. N)
  BY <1>1, <1>2, <1>3 DEF Hits
<1> DEFINE K == {x[1] : x \in h}
<1>5. PICK k : k = Preferred(h) /\ k \in K /\ \A y \in K : k >= y
  <2>1. K \in SUBSET (1 .. M) /\ K # {}
    BY <1>1, <1>4
  <2>2. Max(K) \in K /\ \A y \in K : Max(K) >= y
    <3> HIDE DEF K
    <3> QED
      BY <2>1, MaxOfNumbers
  <2>3. Preferred(h) = Max(K)
    BY DEF Preferred
  <2>4. QED
    BY <2>2, <2>3
<1> DEFINE P == {x[2] : x \in {y \in h : y[1] = k}}
<1>6. PICK p : p = Min(P) /\ p \in P
  <2>1. P \in SUBSET Nat /\ P # {}
    BY <1>4, <1>5
  <2>2. QED
    <3> HIDE DEF P
    <3> QED
      BY <2>1, MinOfNumbers
<1>7. <<k, p>> \in h
  <2>1. PICK x \in h : x[1] = k /\ x[2] = p
    BY <1>6
  <2>2. x = <<k, p>>
    BY <1>4, <2>1
  <2>3. QED
    BY <2>1, <2>2
<1>8. f = Candidate(t, k, p)
  BY <1>1, <1>5, <1>6 DEF find_book
<1>9. f.name = <<k, p>>
  BY <1>8 DEF Candidate
<1>10. \A x \in h : x[1] <= k
  <2>1. SUFFICES ASSUME NEW x \in h PROVE x[1] <= k
    OBVIOUS
  <2>2. x[1] \in K /\ x[1] \in 1 .. M /\ k \in 1 .. M
    BY <1>4, <1>7
  <2>3. k >= x[1]
    BY <1>5, <2>2
  <2>4. QED
    BY <2>2, <2>3
<1>11. QED
  BY <1>1, <1>7, <1>8, <1>9, <1>10

\* What is found, if the call has come as far, is what find_book returns.
FoundInv == IsSequence(text) /\ found \subseteq find_book(text, cursor)

(* What has been found is one of the candidates of find_book(). *)
LEMMA FoundInductive == Spec => []FoundInv
<1>1. Init => FoundInv
  BY InputsAssumption DEF Init, FoundInv
<1>2. FoundInv /\ [Next]_vars => FoundInv'
  <2> SUFFICES ASSUME FoundInv, [Next]_vars PROVE FoundInv'
    OBVIOUS
  <2>1. CASE FindBook
    <3>1. text' = text /\ cursor' = cursor
      BY <2>1 DEF FindBook
    <3>2. PICK f \in find_book(text, cursor) : found' = {f}
      BY <2>1 DEF FindBook
    <3>3. QED
      BY <3>1, <3>2 DEF FoundInv
  <2>2. CASE UNCHANGED <<text, cursor, found>>
    BY <2>2 DEF FoundInv
  <2>3. QED
    BY <2>1, <2>2 DEF Next, NoBook, VerseToVerse, VerseToVerseOfChapter, VerseToOtherChapter,
       ChapterToVerse, Verse, VersesOfCurrent, Chapters, VerseOfCurrent, Chapter, OtherShape, Choose,
       Matching, vars
<1>3. QED
  BY <1>1, <1>2, PTL DEF Spec

(* The name that is found is no part of a longer name that would do as well, *)
(* and its numbers end before the next name, for every table of names that   *)
(* fits find_book() and every text.                                          *)
THEOREM WholeNames == Spec => []NamesWhole
<1>1. FoundInv => NamesWhole
  <2> SUFFICES ASSUME FoundInv, NEW f \in found
               PROVE  LET end(y) == y[2] + Len(name_variants_list[y[1]].name)
                          s == Normalized(text)
                      IN  /\ \A x \in Hits(text, cursor) :
                               x[2] <= f.name[2] /\ end(x) >= end(f.name) => x = f.name
                          /\ \A l \in DOMAIN name_variants_list, r \in end(f.name) .. Len(s) :
                               Occurs(name_variants_list[l].name, s, r) =>
                                 f.numbers[2] <= Kept(text)[r] /\ f.origin[2] <= Kept(text)[r]
    BY DEF NamesWhole
  <2>1. IsSequence(text) /\ f \in find_book(text, cursor)
    BY DEF FoundInv
  <2>2. PICK k, p : /\ <<k, p>> \in Hits(text, cursor) /\ f = Candidate(text, k, p) /\ f.name = <<k, p>>
                    /\ \A x \in Hits(text, cursor) : x[1] <= k
    BY <2>1, FoundParts
  <2>3. ASSUME NEW x \in Hits(text, cursor), x[2] <= p,
               x[2] + Len(name_variants_list[x[1]].name) >= p + Len(name_variants_list[k].name)
        PROVE  x = <<k, p>>
    <3>1. PICK l, q : x = <<l, q>>
      BY DEF Hits
    <3>2. /\ l \in DOMAIN name_variants_list /\ q \in 1 .. Len(Normalized(text))
          /\ k \in DOMAIN name_variants_list /\ p \in 1 .. Len(Normalized(text))
      BY <2>1, <2>2, <3>1, HitParts
    <3>3. /\ Len(name_variants_list[l].name) \in Nat /\ Len(name_variants_list[k].name) \in Nat
          /\ p \in Nat /\ q \in Nat
      BY <2>1, <3>2, NameParts, KeptGrows
    <3>4. p + Len(name_variants_list[k].name) <= q + Len(name_variants_list[l].name)
      BY <2>3, <3>1, <3>3
    <3>5. k < l \/ (k = l /\ p = q)
      BY <2>1, <2>2, <2>3, <3>1, <3>4, PartIsEarlier
    <3>6. l <= k /\ l \in Nat /\ k \in Nat
      BY <2>2, <3>1, <3>2, NamesAssumption, Sequence DEF NamesFit
    <3>7. QED
      BY <3>1, <3>5, <3>6
  <2>4. ASSUME NEW l \in DOMAIN name_variants_list,
               NEW r \in p + Len(name_variants_list[k].name) .. Len(Normalized(text)),
               Occurs(name_variants_list[l].name, Normalized(text), r)
        PROVE  f.numbers[2] <= Kept(text)[r] /\ f.origin[2] <= Kept(text)[r]
    BY <2>1, <2>2, <2>4, EndBeforeNext
  <2>5. QED
    BY <2>2, <2>3, <2>4
<1>2. QED
  BY <1>1, FoundInductive, PTL
-----------------------------------------------------------------------------
(* The template                                                              *)
(* A postfix ends inside the text. *)
LEMMA PostfixInside ==
  ASSUME NEW t, IsSequence(t), NEW i \in 1 .. Len(t)
  PROVE  PostfixLength(t, i) \in Nat /\ i + PostfixLength(t, i) <= Len(t) + 1
<1> DEFINE fits == {j \in DOMAIN number_postfixes : Occurs(number_postfixes[j], t, i)}
<1>1. PICK n \in Nat : n = Len(t)
  BY Sequence
<1>2. CASE fits = {}
  BY <1>1, <1>2 DEF PostfixLength
<1>3. CASE fits # {}
  <2>1. DOMAIN number_postfixes = 1 .. Len(number_postfixes) /\ Len(number_postfixes) \in Nat
    BY NamesAssumption, Sequence DEF NamesFit
  <2>2. fits \in SUBSET Nat
    BY <2>1
  <2>3. PICK j \in fits : j = Min(fits)
    <3> HIDE DEF fits
    <3> QED
      BY <1>3, <2>2, MinOfNumbers
  <2>4. PICK l \in Nat : l = Len(number_postfixes[j])
    BY NamesAssumption, Sequence DEF NamesFit
  <2>5. i + l - 1 <= n
    BY <1>1, <2>3, <2>4 DEF Occurs
  <2>6. PostfixLength(t, i) = l
    BY <1>3, <2>3, <2>4 DEF PostfixLength
  <2>7. QED
    BY <1>1, <2>5, <2>6
<1>4. QED
  BY <1>2, <1>3

(* The text of a passage is a text. *)
LEMMA PassageIsSequence ==
  ASSUME NEW t, IsSequence(t)
  PROVE  IsSequence(normalize_passage_text(t))
<1>1. PICK n \in Nat : n = Len(t)
  BY Sequence
<1> DEFINE C == {IF t[i] \in Lines THEN "-" ELSE t[i] : i \in 1 .. n}
           Body(g, i) ==
             IF i > Len(t) THEN << >>
             ELSE IF PostfixLength(t, i) > 0 THEN g[i + PostfixLength(t, i)]
             ELSE IF t[i] \in Letters \cup Whitespaces THEN g[i + 1]
             ELSE <<IF t[i] \in Lines THEN "-" ELSE t[i]>> \o g[i + 1]
           Whole(m, g) == g \in [m .. n + 1 -> Seq(C)] /\ \A i \in m .. n + 1 : g[i] = Body(g, i)
           rest == CHOOSE g : g = [i \in 1 .. Len(t) + 1 |-> Body(g, i)]
<1>2. normalize_passage_text(t) = rest[1]
  BY DEF normalize_passage_text
<1>3. ASSUME NEW i \in 1 .. n + 1, NEW g, NEW h, \A j \in i + 1 .. n + 1 : g[j] = h[j]
      PROVE  Body(g, i) = Body(h, i)
  <2>1. CASE i > n
    BY <1>1, <2>1
  <2>2. CASE i <= n
    <3>1. PICK l \in Nat : l = PostfixLength(t, i) /\ i + l <= n + 1
      BY <1>1, <2>2, PostfixInside
    <3>2. (l > 0 => i + l \in i + 1 .. n + 1) /\ i + 1 \in i + 1 .. n + 1
      BY <2>2, <3>1
    <3>3. QED
      BY <1>3, <3>1, <3>2
  <2>3. QED
    BY <2>1, <2>2
<1>4. ASSUME NEW i \in 1 .. n + 1, NEW g, \A j \in i + 1 .. n + 1 : g[j] \in Seq(C)
      PROVE  Body(g, i) \in Seq(C)
  <2>1. CASE i > n
    BY <1>1, <2>1
  <2>2. CASE i <= n
    <3>1. PICK l \in Nat : l = PostfixLength(t, i) /\ i + l <= n + 1
      BY <1>1, <2>2, PostfixInside
    <3>2. (l > 0 => i + l \in i + 1 .. n + 1) /\ i + 1 \in i + 1 .. n + 1
      BY <2>2, <3>1
    <3>3. <<IF t[i] \in Lines THEN "-" ELSE t[i]>> \in Seq(C)
      BY <2>2
    <3>4. g[i + 1] \in Seq(C) /\ (l > 0 => g[i + l] \in Seq(C))
      BY <1>4, <3>2
    <3>5. <<IF t[i] \in Lines THEN "-" ELSE t[i]>> \o g[i + 1] \in Seq(C)
      <4> HIDE DEF C
      <4> QED
        BY <3>3, <3>4
    <3>6. QED
      <4> HIDE DEF C
      <4> QED
        BY <1>1, <2>2, <3>1, <3>4, <3>5
  <2>3. QED
    BY <2>1, <2>2
<1> HIDE DEF C, Body
<1>5. \E g : Whole(1, g)
  <2> DEFINE M == {m \in 1 .. n + 1 : \E g : Whole(m, g)}
  <2>1. n + 1 \in M
    <3>1. Whole(n + 1, [i \in n + 1 .. n + 1 |-> Body(<< >>, i)])
      <4> DEFINE g == [i \in n + 1 .. n + 1 |-> Body(<< >>, i)]
      <4>1. n + 1 \in 1 .. n + 1 /\ n + 1 + 1 .. n + 1 = {} /\ n + 1 .. n + 1 = {n + 1}
        BY <1>1
      <4>2. Body(<< >>, n + 1) \in Seq(C) /\ Body(g, n + 1) = Body(<< >>, n + 1)
        BY <1>3, <1>4, <4>1
      <4>3. QED
        BY <4>1, <4>2
    <3>2. QED
      <4> HIDE DEF Whole
      <4>1. n + 1 \in 1 .. n + 1
        OBVIOUS
      <4>2. QED
        BY <3>1, <4>1
  <2>2. PICK m \in M : \A k \in M : m <= k
    <3>1. M \in SUBSET Nat /\ M # {}
      <4> HIDE DEF Whole
      <4> QED
        BY <2>1
    <3>2. QED
      <4> HIDE DEF M
      <4> QED
        BY <3>1, MinOfNumbers
  <2>3. m = 1
    <3>1. SUFFICES ASSUME m # 1 PROVE FALSE
      OBVIOUS
    <3>2. m \in 2 .. n + 1 /\ m - 1 \in 1 .. n + 1 /\ ~(m <= m - 1)
      BY <1>1, <3>1
    <3>3. PICK g : Whole(m, g)
      OBVIOUS
    <3> DEFINE h == [i \in m - 1 .. n + 1 |-> IF i = m - 1 THEN Body(g, m - 1) ELSE g[i]]
    <3>4. \A i \in m .. n + 1 : i \in m - 1 .. n + 1 /\ i # m - 1 /\ h[i] = g[i]
      BY <3>2
    <3>5. m - 1 + 1 = m /\ m - 1 \in m - 1 .. n + 1
          /\ \A i \in m - 1 .. n + 1 : i = m - 1 \/ i \in m .. n + 1
      BY <3>2
    <3>6. h[m - 1] = Body(g, m - 1) /\ Body(h, m - 1) = Body(g, m - 1) /\ Body(g, m - 1) \in Seq(C)
      BY <1>3, <1>4, <3>2, <3>3, <3>4, <3>5
    <3>7. ASSUME NEW i \in m .. n + 1 PROVE h[i] = Body(h, i) /\ h[i] \in Seq(C)
      <4>1. i \in 1 .. n + 1 /\ \A j \in i + 1 .. n + 1 : j \in m .. n + 1
        BY <3>2
      <4>2. Body(h, i) = Body(g, i)
        BY <1>3, <3>4, <4>1
      <4>3. QED
        BY <3>3, <3>4, <4>2
    <3>8. h \in [m - 1 .. n + 1 -> Seq(C)]
      BY <3>4, <3>5, <3>6, <3>7
    <3>9. Whole(m - 1, h)
      BY <3>5, <3>6, <3>7, <3>8
    <3>10. m - 1 \in M
      BY <3>2, <3>9
    <3>11. QED
      BY <2>2, <3>2, <3>10
  <2>4. QED
    BY <2>3
<1>6. PICK g : Whole(1, g)
  BY <1>5
<1>7. rest = [i \in 1 .. n + 1 |-> Body(rest, i)]
  <2>1. g = [i \in 1 .. n + 1 |-> Body(g, i)]
    BY <1>6
  <2>2. QED
    BY <1>1, <2>1
<1> HIDE DEF rest
<1>8. rest[1] = g[1]
  <2> DEFINE D == {i \in 1 .. n + 1 : rest[i] # g[i]}
  <2>1. SUFFICES ASSUME D # {} PROVE FALSE
    BY <1>1
  <2>2. PICK i \in D : \A j \in D : i >= j
    <3>1. D \in SUBSET (1 .. n + 1) /\ n + 1 \in Nat
      OBVIOUS
    <3>2. QED
      <4> HIDE DEF D
      <4> QED
        BY <2>1, <3>1, MaxOfNumbers
  <2>3. \A j \in i + 1 .. n + 1 : rest[j] = g[j]
    <3>1. \A j \in i + 1 .. n + 1 : j \in 1 .. n + 1 /\ ~(i >= j)
      OBVIOUS
    <3>2. QED
      BY <2>2, <3>1
  <2>4. Body(rest, i) = Body(g, i)
    BY <1>3, <2>3
  <2>5. QED
    BY <1>6, <1>7, <2>4
<1>9. g[1] \in Seq(C)
  BY <1>1, <1>6
<1>10. \A s \in Seq(C) : s \in Seq(ToSet(s))
  BY DEF ToSet
<1>11. QED
  BY <1>2, <1>8, <1>9, <1>10 DEF IsSequence

(* The range of the numbers that is found is in the text. *)
LEMMA NumbersInside ==
  ASSUME NEW t, IsSequence(t), NEW c, NEW f \in find_book(t, c)
  PROVE  IsSequence(SubSeq(t, f.numbers[1], f.numbers[2] - 1))
<1>1. PICK k, p : /\ <<k, p>> \in Hits(t, c) /\ f = Candidate(t, k, p) /\ f.name = <<k, p>>
                  /\ \A x \in Hits(t, c) : x[1] <= k
  BY FoundParts
<1> DEFINE s == Normalized(t)
<1>2. /\ k \in DOMAIN name_variants_list /\ p \in 1 .. Len(s)
      /\ NumbersFound(s, p + Len(name_variants_list[k].name))
  BY <1>1, HitParts
<1>3. PICK N \in Nat : N = Len(s) /\ \A i \in 1 .. N : Kept(t)[i] \in 1 .. Len(t)
  BY KeptGrows
<1>4. PICK d \in Nat : d = p + Len(name_variants_list[k].name) /\ 2 <= d
  <2>1. Len(name_variants_list[k].name) \in Nat \ {0}
    BY <1>2, NameParts
  <2>2. QED
    BY <1>2, <1>3, <2>1
<1> HIDE DEF s
<1>5. PICK e \in Nat : e = NumbersEnd(s, d) /\ d < e /\ e <= N + 1
  <2>1. PICK e \in Nat : e = NumbersEnd(s, d) /\ e <= N + 1
    BY <1>3, NumbersEndIs
  <2>2. PICK j \in d .. e - 1 : s[j] \in DigitChars
    BY <1>2, <1>4, <2>1 DEF NumbersFound
  <2>3. QED
    BY <2>1, <2>2
<1>6. PICK v \in 2 .. N + 1 : v = ValidatedEnd(s, d)
  <2>1. ValidatedEnd(s, d) = e \/ ValidatedEnd(s, d) = e - 1
    BY <1>5 DEF ValidatedEnd
  <2>2. e \in 2 .. N + 1 /\ e - 1 \in 2 .. N + 1
    BY <1>4, <1>5
  <2>3. QED
    BY <2>1, <2>2
<1>7. PICK begin \in 1 .. Len(t), end \in 1 .. Len(t) : begin = Kept(t)[d] /\ end = Kept(t)[v - 1]
  <2>1. d \in 1 .. N /\ v - 1 \in 1 .. N
    BY <1>4, <1>5
  <2>2. QED
    BY <1>3, <2>1
<1>8. f.numbers = IF begin <= end + 1 THEN <<begin, end + 1>> ELSE <<end + 1, begin>>
  BY <1>1, <1>4, <1>6, <1>7 DEF Candidate, s
<1>9. PICK m \in Nat, n \in Nat : m = f.numbers[1] /\ n = f.numbers[2] - 1 /\ 1 <= m /\ n <= Len(t)
  <2>1. Len(t) \in Nat
    BY Sequence
  <2>2. CASE begin <= end + 1
    <3>1. f.numbers[1] = begin /\ f.numbers[2] - 1 = end
      BY <1>8, <2>2
    <3>2. QED
      BY <2>1, <3>1
  <2>3. CASE ~(begin <= end + 1)
    <3>1. f.numbers[1] = end + 1 /\ f.numbers[2] - 1 = begin - 1
      BY <1>8, <2>3
    <3>2. QED
      BY <2>1, <3>1
  <2>4. QED
    BY <2>2, <2>3
<1>10. SubSeq(t, m, n) \in Seq(ToSet(t))
  BY <1>9 DEF IsSequence
<1>11. QED
  <2> DEFINE r == SubSeq(t, m, n)
  <2>1. r \in Seq(ToSet(r))
    <3> HIDE DEF r
    <3>1. r \in Seq(ToSet(t))
      BY <1>10 DEF r
    <3>2. QED
      BY <3>1 DEF ToSet
  <2>2. QED
    BY <1>9, <2>1 DEF IsSequence

\* There is a character between any two numbers.
WholeTemplate(t) ==
  \E L \in Nat :
    /\ IsSequence(t.numbers) /\ Len(t.numbers) = L
    /\ DOMAIN t.chars = 1 .. L - 1

(* Between every two numbers of a template there is one character. *)
LEMMA TemplateOfIsWhole ==
  ASSUME NEW s, IsSequence(s)
  PROVE  WholeTemplate(TemplateOf(s))
<1> DEFINE stop == Min({i \in DOMAIN s : s[i] \notin DigitChars \cup transition_chars} \cup {Len(s) + 1})
           first(i) == i < stop /\ s[i] \in DigitChars /\ (i = 1 \/ s[i - 1] \notin DigitChars)
           last(i) == Min({j \in i .. stop - 1 : j = stop - 1 \/ s[j + 1] \notin DigitChars})
           fits(i) == first(i) => Value(s, i, last(i)) <= UintMax
           S == {i \in DOMAIN s : first(i) /\ \A j \in 1 .. i : fits(j)}
           order == InOrder(S)
           numbers == [n \in DOMAIN order |-> Value(s, order[n], last(order[n]))]
           chars == [n \in 1 .. Len(order) - 1 |-> s[last(order[n]) + 1]]
<1>1. S \in SUBSET (DOMAIN s)
  OBVIOUS
<1>2. TemplateOf(s) = [numbers |-> numbers, chars |-> chars]
  BY DEF TemplateOf
<1> HIDE DEF first, last, fits, S, stop
<1>3. S \in SUBSET Nat /\ IsFiniteSet(S)
  <2>1. Len(s) \in Nat /\ DOMAIN s = 1 .. Len(s)
    BY Sequence
  <2>2. IsFiniteSet(1 .. Len(s))
    BY <2>1, FS_Interval
  <2>3. QED
    BY <1>1, <2>1, <2>2, FS_Subset
<1>4. PICK L \in Nat : order \in [1 .. L -> S]
  BY <1>3, InOrderCorrect
<1>5. order \in Seq(S) /\ Len(order) = L /\ DOMAIN order = 1 .. L
  <2> HIDE DEF order
  <2> QED
    BY <1>4
<1>6. DOMAIN numbers = 1 .. L /\ numbers \in Seq(ToSet(numbers)) /\ Len(numbers) = L
  <2>1. numbers = [n \in 1 .. L |-> numbers[n]] /\ DOMAIN numbers = 1 .. L
    BY <1>5
  <2> HIDE DEF numbers
  <2>2. numbers \in [1 .. L -> ToSet(numbers)]
    BY <2>1 DEF ToSet
  <2>3. QED
    BY <2>1, <2>2
<1>7. DOMAIN chars = 1 .. L - 1
  BY <1>5
<1>8. QED
  <2> HIDE DEF numbers, chars
  <2> QED
    BY <1>2, <1>6, <1>7 DEF WholeTemplate, IsSequence

(* The same of the template parse() reads. *)
LEMMA TemplateIsWhole ==
  ASSUME NEW t, IsSequence(t), NEW c, NEW f \in find_book(t, c)
  PROVE  WholeTemplate(create_passage_template(t, f.numbers))
BY NumbersInside, PassageIsSequence, TemplateOfIsWhole DEF create_passage_template

-----------------------------------------------------------------------------
(* Sections and parts                                                        *)
(* The same, of the sequence as a function. *)
LEMMA InOrderIs ==
  ASSUME NEW S \in SUBSET Nat, IsFiniteSet(S)
  PROVE  \E M \in Nat : \E g \in [1 .. M -> Nat] :
           /\ M = Cardinality(S) /\ g = InOrder(S)
           /\ \A n \in 1 .. M : g[n] \in S /\ Rank(S, g[n]) = n - 1
           /\ \A i, n \in 1 .. M : i < n => g[i] < g[n]
<1>1. PICK g : g = InOrder(S)
  OBVIOUS
<1>2. PICK M \in Nat : M = Cardinality(S)
  BY InOrderCorrect
<1>3. g \in [1 .. M -> S] /\ \A n \in 1 .. M : Rank(S, g[n]) = n - 1
  BY <1>1, <1>2, InOrderCorrect
<1>4. \A i, n \in 1 .. M : i < n => g[i] < g[n]
  BY <1>1, <1>2, InOrderGrows
<1>5. g \in [1 .. M -> Nat] /\ \A n \in 1 .. M : g[n] \in S
  BY <1>3
<1>6. QED
  BY <1>1, <1>2, <1>3, <1>4, <1>5

(* How many numbers of a set are below j, by the places of its elements. *)
LEMMA BelowCount ==
  ASSUME NEW S \in SUBSET Nat, IsFiniteSet(S), NEW j \in Nat, NEW m \in 0 .. Cardinality(S)
  PROVE  Cardinality(Below(S, j)) = m
           <=> /\ m > 0 => InOrder(S)[m] < j
               /\ m < Cardinality(S) => j <= InOrder(S)[m + 1]
<1>1. PICK M \in Nat : M = Cardinality(S)
  BY InOrderCorrect
<1>2. PICK g \in [1 .. M -> Nat] :
        /\ g = InOrder(S) /\ \A n \in 1 .. M : g[n] \in S /\ Rank(S, g[n]) = n - 1
        /\ \A i, n \in 1 .. M : i < n => g[i] < g[n]
  BY <1>1, InOrderIs
<1>3. PICK r \in 0 .. M : r = Cardinality(Below(S, j))
  <2>1. Below(S, j) \in SUBSET S
    BY DEF Below
  <2>2. Cardinality(Below(S, j)) \in Nat /\ Cardinality(Below(S, j)) <= M
    BY <1>1, <2>1, FS_Subset, FS_CardinalityType
  <2>3. QED
    BY <2>2
<1>4. r > 0 => g[r] < j
  <2>1. SUFFICES ASSUME r > 0, j <= g[r] PROVE FALSE
    <3>1. r > 0 => g[r] \in Nat
      OBVIOUS
    <3>2. QED
      BY <3>1
  <2>2. g[r] \in S /\ g[r] \in Nat /\ Rank(S, g[r]) = r - 1
    BY <1>2, <2>1
  <2>3. Below(S, j) \in SUBSET Below(S, g[r]) /\ Below(S, g[r]) \in SUBSET S
    <3>1. \A i \in S : i < j => i < g[r]
      BY <2>1, <2>2
    <3>2. QED
      BY <3>1 DEF Below
  <2>4. IsFiniteSet(Below(S, g[r]))
    BY <2>3, FS_Subset
  <2>5. r <= r - 1
    BY <1>3, <2>2, <2>3, <2>4, FS_Subset DEF Rank
  <2>6. QED
    BY <2>5
<1>5. r < M => j <= g[r + 1]
  <2>1. SUFFICES ASSUME r < M, ~(j <= g[r + 1]) PROVE FALSE
    OBVIOUS
  <2>2. PICK q \in S : q = g[r + 1] /\ q < j /\ Rank(S, q) = r
    <3>1. r + 1 \in 1 .. M /\ r + 1 - 1 = r
      BY <2>1
    <3>2. QED
      BY <1>2, <2>1, <3>1
  <2>3. Below(S, q) \in SUBSET Below(S, j) /\ q \in Below(S, j) /\ q \notin Below(S, q)
    <3>1. (\A i \in S : i < q => i < j) /\ ~(q < q)
      BY <2>2
    <3>2. QED
      BY <2>2, <3>1 DEF Below
  <2>4. IsFiniteSet(Below(S, j))
    <3>1. Below(S, j) \in SUBSET S
      BY DEF Below
    <3>2. QED
      BY <3>1, FS_Subset
  <2>5. Cardinality(Below(S, j)) # Cardinality(Below(S, q))
    BY <2>3, <2>4, FS_Subset
  <2>6. QED
    BY <1>3, <2>2, <2>5 DEF Rank
<1>6. ASSUME m > 0 => g[m] < j, m < M => j <= g[m + 1] PROVE m = r
  <2>1. m \in 0 .. M
    BY <1>1
  <2>2. ~(m < r)
    <3>1. SUFFICES ASSUME m < r PROVE FALSE
      OBVIOUS
    <3>2. m + 1 \in 1 .. M /\ r \in 1 .. M /\ (m + 1 < r \/ m + 1 = r)
      BY <2>1, <3>1
    <3>3. g[m + 1] \in Nat /\ g[r] \in Nat /\ (g[m + 1] < g[r] \/ g[m + 1] = g[r])
      BY <1>2, <3>2
    <3>4. j <= g[m + 1] /\ g[r] < j
      BY <1>4, <1>6, <2>1, <3>1
    <3>5. QED
      BY <3>3, <3>4
  <2>3. ~(r < m)
    <3>1. SUFFICES ASSUME r < m PROVE FALSE
      OBVIOUS
    <3>2. r + 1 \in 1 .. M /\ m \in 1 .. M /\ (r + 1 < m \/ r + 1 = m)
      BY <2>1, <3>1
    <3>3. g[r + 1] \in Nat /\ g[m] \in Nat /\ (g[r + 1] < g[m] \/ g[r + 1] = g[m])
      BY <1>2, <3>2
    <3>4. j <= g[r + 1] /\ g[m] < j
      BY <1>5, <1>6, <2>1, <3>1
    <3>5. QED
      BY <3>3, <3>4
  <2>4. QED
    BY <2>1, <2>2, <2>3
<1>7. QED
  BY <1>1, <1>2, <1>3, <1>4, <1>5, <1>6

\* The places where a template is cut into sections, and where the n-th begins
\* and ends.
Cuts(t, c) == {i \in DOMAIN t.chars : t.chars[i] \notin {"-", c}}
Lo(t, c, n) == IF n = 1 THEN 1 ELSE InOrder(Cuts(t, c))[n - 1] + 1
Hi(t, c, n) == IF n > Cardinality(Cuts(t, c)) THEN Len(t.numbers) ELSE InOrder(Cuts(t, c))[n]

(* The cuts of a template are as many as its sections less one, in their order. *)
LEMMA CutsOf ==
  ASSUME NEW t, WholeTemplate(t), t.numbers # << >>, NEW c
  PROVE  /\ Len(t.numbers) \in Nat \ {0} /\ DOMAIN t.numbers = 1 .. Len(t.numbers)
         /\ DOMAIN t.chars = 1 .. Len(t.numbers) - 1
         /\ Cuts(t, c) \in SUBSET (1 .. Len(t.numbers) - 1)
         /\ Cuts(t, c) \in SUBSET Nat /\ IsFiniteSet(Cuts(t, c)) /\ Cardinality(Cuts(t, c)) \in Nat
<1>1. PICK L \in Nat : /\ IsSequence(t.numbers) /\ Len(t.numbers) = L
                       /\ DOMAIN t.chars = 1 .. L - 1
  BY DEF WholeTemplate
<1>2. L # 0 /\ DOMAIN t.numbers = 1 .. L
  <2>1. DOMAIN t.numbers = 1 .. L
    BY <1>1, Sequence
  <2>2. L = 0 => t.numbers = << >>
    BY <1>1 DEF IsSequence
  <2>3. QED
    BY <2>1, <2>2
<1>3. Cuts(t, c) \in SUBSET (1 .. L - 1)
  BY <1>1 DEF Cuts
<1>4. IsFiniteSet(Cuts(t, c))
  <2>1. L - 1 \in Int /\ 1 \in Int
    OBVIOUS
  <2>2. IsFiniteSet(1 .. L - 1)
    BY <2>1, FS_Interval
  <2>3. QED
    BY <1>3, <2>2, FS_Subset
<1>5. QED
  BY <1>1, <1>2, <1>3, <1>4, FS_CardinalityType

(* The parts are the ranges of numbers between two cuts. *)
LEMMA PartIs ==
  ASSUME NEW t, WholeTemplate(t), t.numbers # << >>, NEW c, NEW n \in Parts(t, c)
  PROVE  /\ Part(t, c, n) = Lo(t, c, n) .. Hi(t, c, n)
         /\ Lo(t, c, n) \in 1 .. Len(t.numbers) /\ Hi(t, c, n) \in 1 .. Len(t.numbers)
         /\ Lo(t, c, n) <= Hi(t, c, n)
         /\ n # 1 => Lo(t, c, n) - 1 \in Cuts(t, c)
         /\ Hi(t, c, n) # Len(t.numbers) => Hi(t, c, n) \in Cuts(t, c)
         /\ \A i \in Lo(t, c, n) .. Hi(t, c, n) - 1 : i \in DOMAIN t.chars /\ i \notin Cuts(t, c)
         /\ n + 1 \in Parts(t, c) => Lo(t, c, n + 1) = Hi(t, c, n) + 1
<1> DEFINE S == Cuts(t, c)
<1>1. PICK L \in Nat \ {0} : /\ L = Len(t.numbers) /\ DOMAIN t.numbers = 1 .. L /\ DOMAIN t.chars = 1 .. L - 1
                             /\ S \in SUBSET (1 .. L - 1) /\ S \in SUBSET Nat /\ IsFiniteSet(S)
  BY CutsOf
<1>2. PICK M \in Nat : M = Cardinality(S) /\ Parts(t, c) = 1 .. M + 1
  BY CutsOf DEF Parts, Cuts
<1>3. PICK g \in [1 .. M -> Nat] :
        /\ g = InOrder(S) /\ \A i \in 1 .. M : g[i] \in S
        /\ \A i, k \in 1 .. M : i < k => g[i] < g[k]
  <2> HIDE DEF S
  <2> QED
    BY <1>1, <1>2, InOrderIs
<1>4. PICK l : l = Lo(t, c, n) /\ l = IF n = 1 THEN 1 ELSE g[n - 1] + 1
  BY <1>3 DEF Lo
<1>5. PICK h : h = Hi(t, c, n) /\ h = IF n > M THEN L ELSE g[n]
  BY <1>1, <1>2, <1>3 DEF Hi
<1>6. /\ l \in 1 .. L /\ (n # 1 => l - 1 \in S)
      /\ h \in 1 .. L /\ (h # L => h \in S) /\ l <= h
  <2>1. n # 1 => n - 1 \in 1 .. M /\ g[n - 1] \in S /\ g[n - 1] \in 1 .. L - 1
    BY <1>1, <1>2, <1>3
  <2>2. ~(n > M) => n \in 1 .. M /\ g[n] \in S /\ g[n] \in 1 .. L - 1
    BY <1>1, <1>2, <1>3
  <2>3. n # 1 /\ ~(n > M) => g[n - 1] < g[n]
    <3>1. n # 1 /\ ~(n > M) => n - 1 \in 1 .. M /\ n \in 1 .. M /\ n - 1 < n
      BY <1>2
    <3>2. QED
      BY <1>3, <3>1
  <2>4. l \in 1 .. L /\ (n # 1 => l - 1 \in S)
    BY <1>4, <2>1
  <2>5. h \in 1 .. L /\ (h # L => h \in S)
    BY <1>5, <2>2
  <2>6. l <= h
    BY <1>4, <1>5, <2>1, <2>2, <2>3, <2>4, <2>5
  <2>7. QED
    BY <2>4, <2>5, <2>6
<1>7. n \in 1 .. M + 1 /\ n - 1 \in 0 .. M /\ n - 1 + 1 = n
  BY <1>2
<1>8. ASSUME NEW j \in 1 .. L
      PROVE  Cardinality({i \in 1 .. j - 1 : t.chars[i] \notin {"-", c}}) = n - 1 <=> j \in l .. h
  <2>1. {i \in 1 .. j - 1 : t.chars[i] \notin {"-", c}} = Below(S, j)
    <3>1. \A i : i \in 1 .. j - 1 <=> i \in DOMAIN t.chars /\ i < j
      BY <1>1
    <3>2. QED
      BY <3>1 DEF Below, Cuts
  <2>2. Cardinality(Below(S, j)) = n - 1
          <=> /\ n - 1 > 0 => g[n - 1] < j
              /\ n - 1 < M => j <= g[n]
    BY <1>1, <1>2, <1>3, <1>7, BelowCount
  <2>3. (n - 1 > 0 => g[n - 1] < j) <=> l <= j
    <3>1. n - 1 > 0 => n # 1 /\ g[n - 1] \in Nat
      BY <1>7
    <3>2. n - 1 > 0 \/ n = 1
      BY <1>7
    <3>3. QED
      BY <1>4, <3>1, <3>2
  <2>4. (n - 1 < M => j <= g[n]) <=> j <= h
    <3>1. n - 1 < M <=> ~(n > M)
      BY <1>7
    <3>2. QED
      BY <1>5, <3>1
  <2>5. j \in l .. h <=> l <= j /\ j <= h
    BY <1>6
  <2>6. QED
    BY <2>1, <2>2, <2>3, <2>4, <2>5
<1>9. Part(t, c, n) = l .. h
  <2>1. Part(t, c, n) = {j \in 1 .. L : j \in l .. h}
    BY <1>1, <1>8 DEF Part
  <2>2. \A j \in l .. h : j \in 1 .. L
    BY <1>6
  <2>3. QED
    BY <2>1, <2>2
<1>10. ASSUME NEW i \in l .. h - 1 PROVE i \in DOMAIN t.chars /\ i \notin S
  <2>1. i \in 1 .. L - 1 /\ i \in 1 .. L /\ i + 1 \in 1 .. L /\ i \in l .. h /\ i + 1 \in l .. h
    BY <1>6
  <2>2. Cardinality(Below(S, i)) = n - 1 /\ Cardinality(Below(S, i + 1)) = n - 1
    <3>1. ASSUME NEW j \in 1 .. L, j \in l .. h PROVE Cardinality(Below(S, j)) = n - 1
      <4>1. {k \in 1 .. j - 1 : t.chars[k] \notin {"-", c}} = Below(S, j)
        <5>1. \A k : k \in 1 .. j - 1 <=> k \in DOMAIN t.chars /\ k < j
          BY <1>1
        <5>2. QED
          BY <5>1 DEF Below, Cuts
      <4>2. QED
        BY <1>8, <3>1, <4>1
    <3>2. QED
      BY <2>1, <3>1
  <2>3. IsFiniteSet(Below(S, i + 1)) /\ Below(S, i) \in SUBSET Below(S, i + 1)
    <3>1. Below(S, i + 1) \in SUBSET S
      BY DEF Below
    <3>2. \A k \in S : k < i => k < i + 1
      BY <1>1, <2>1
    <3>3. QED
      BY <1>1, <3>1, <3>2, FS_Subset DEF Below
  <2>4. Below(S, i) = Below(S, i + 1)
    BY <2>2, <2>3, FS_Subset
  <2>5. i \in S => i \in Below(S, i + 1) /\ i \notin Below(S, i)
    BY <2>1 DEF Below
  <2>6. QED
    BY <1>1, <2>1, <2>4, <2>5
<1>11. n + 1 \in Parts(t, c) => Lo(t, c, n + 1) = h + 1
  <2>1. SUFFICES ASSUME n + 1 \in 1 .. M + 1 PROVE Lo(t, c, n + 1) = h + 1
    BY <1>2
  <2>2. ~(n > M) /\ n + 1 # 1 /\ n + 1 - 1 = n
    BY <1>7, <2>1
  <2>3. Lo(t, c, n + 1) = g[n] + 1
    <3>1. PICK k : k = n + 1 /\ k # 1 /\ k - 1 = n
      BY <1>7, <2>2
    <3>2. Lo(t, c, k) = InOrder(Cuts(t, c))[k - 1] + 1
      BY <3>1 DEF Lo
    <3>3. QED
      BY <1>3, <3>1, <3>2
  <2>4. QED
    BY <1>5, <2>2, <2>3
<1>12. QED
  BY <1>1, <1>4, <1>5, <1>6, <1>9, <1>10, <1>11

(* The n-th section is the n-th part: its numbers, and an "X" for each of    *)
(* them that is a chapter of a verse.                                        *)
LEMMA SectionIs ==
  ASSUME NEW t, WholeTemplate(t), t.numbers # << >>, NEW c, c # "-", NEW n \in Parts(t, c)
  PROVE  LET sec == Sections(t, c)[n]
             l == Lo(t, c, n)
             h == Hi(t, c, n)
         IN  /\ \A i \in 1 .. h - l + 1 : sec.numbers[i] = t.numbers[l + i - 1]
             /\ sec.shape \in Seq({"X", "-"}) /\ Len(sec.shape) = h - l
             /\ \A i \in 1 .. h - l : sec.shape[i] = IF Heading(t, c, l + i - 1) THEN "X" ELSE "-"
             /\ ~Heading(t, c, h)
             /\ n # 1 => ~Heading(t, c, l - 1)
             /\ n = Len(Sections(t, c)) <=> n + 1 \notin Parts(t, c)
<1> DEFINE S == Cuts(t, c)
           cuts == InOrder(S)
           lo(k) == IF k = 1 THEN 1 ELSE cuts[k - 1] + 1
           hi(k) == IF k > Len(cuts) THEN Len(t.numbers) ELSE cuts[k]
           sect(k) == [numbers |-> SubSeq(t.numbers, lo(k), hi(k)),
                          shape |-> [i \in 1 .. hi(k) - lo(k) |-> IF t.chars[lo(k) + i - 1] = "-" THEN "-" ELSE "X"]]
<1>1. Sections(t, c) = [k \in 1 .. Len(cuts) + 1 |-> sect(k)]
  BY DEF Sections, Cuts
<1>2. PICK M \in Nat : M = Cardinality(S) /\ Parts(t, c) = 1 .. M + 1
  BY CutsOf DEF Parts, Cuts
<1>3. Len(cuts) = M
  <2>1. S \in SUBSET Nat /\ IsFiniteSet(S)
    BY CutsOf
  <2>2. InOrder(S) \in [1 .. M -> S]
    <3> HIDE DEF S
    <3> QED
      BY <1>2, <2>1, InOrderCorrect
  <2>3. InOrder(S) \in Seq(S) /\ Len(InOrder(S)) = M
    <3> HIDE DEF S
    <3> QED
      BY <2>2
  <2>4. QED
    BY <2>3
<1>4. PICK L \in Nat \ {0} : L = Len(t.numbers) /\ t.numbers \in Seq(ToSet(t.numbers))
  BY CutsOf DEF WholeTemplate, IsSequence
<1>5. PICK l \in 1 .. L, h \in 1 .. L :
        /\ l = Lo(t, c, n) /\ h = Hi(t, c, n) /\ l <= h
        /\ n # 1 => l - 1 \in S
        /\ h # L => h \in S
        /\ \A i \in l .. h - 1 : i \in DOMAIN t.chars /\ i \notin S
  BY <1>4, PartIs
<1>6. lo(n) = l /\ hi(n) = h
  BY <1>2, <1>3, <1>5 DEF Lo, Hi
<1>7. Sections(t, c)[n] = sect(n)
  <2> HIDE DEF sect, cuts
  <2> QED
    BY <1>1, <1>2, <1>3
<1>8. n = Len(Sections(t, c)) <=> n + 1 \notin Parts(t, c)
  <2>1. Len(Sections(t, c)) = M + 1
    <3> HIDE DEF cuts, sect
    <3>1. Sections(t, c) = [k \in 1 .. M + 1 |-> sect(k)]
      BY <1>1, <1>3
    <3>2. Sections(t, c) \in Seq({sect(k) : k \in 1 .. M + 1})
      BY <3>1
    <3>3. QED
      BY <3>1, <3>2
  <2>2. n \in 1 .. M + 1
    BY <1>2
  <2>3. QED
    BY <1>2, <2>1, <2>2
<1> DEFINE shape == [i \in 1 .. h - l |-> IF t.chars[l + i - 1] = "-" THEN "-" ELSE "X"]
<1>9. Sections(t, c)[n].numbers = SubSeq(t.numbers, l, h) /\ Sections(t, c)[n].shape = shape
  <2> HIDE DEF lo, hi, cuts
  <2> QED
    BY <1>6, <1>7
<1>10. \A i \in 1 .. h - l + 1 : SubSeq(t.numbers, l, h)[i] = t.numbers[l + i - 1]
  BY <1>4
<1>11. ASSUME NEW i \in 1 .. h - l
       PROVE  shape[i] = IF Heading(t, c, l + i - 1) THEN "X" ELSE "-"
  <2>1. l + i - 1 \in l .. h - 1
    OBVIOUS
  <2>2. l + i - 1 \in DOMAIN t.chars /\ t.chars[l + i - 1] \in {"-", c}
    BY <1>5, <2>1 DEF Cuts
  <2>3. QED
    BY <2>2 DEF Heading
<1>12. shape \in Seq({"X", "-"}) /\ Len(shape) = h - l
  <2>1. h - l \in Nat
    BY <1>5
  <2>2. QED
    BY <2>1
<1>13. \A i \in S : ~Heading(t, c, i)
  BY DEF Cuts, Heading
<1>14. ~Heading(t, c, h)
  <2>1. L \notin DOMAIN t.chars
    <3>1. DOMAIN t.chars = 1 .. L - 1
      BY <1>4, CutsOf
    <3>2. QED
      BY <3>1
  <2>2. QED
    BY <1>5, <1>13, <2>1 DEF Heading
<1>15. n # 1 => ~Heading(t, c, l - 1)
  BY <1>5, <1>13
<1>16. QED
  <2> HIDE DEF shape, S
  <2> QED
    BY <1>5, <1>8, <1>9, <1>10, <1>11, <1>12, <1>14, <1>15

\* A verse number at j belongs to the chapter that is carried along.
Carried(t, c, j, level, chapter) ==
  IF Headings(t, c, j) = {} THEN level = "chapter"
  ELSE level = "verse" /\ chapter = t.numbers[Max(Headings(t, c, j))]

(* The last chapter before j. *)
LEMMA HeadingAt ==
  ASSUME NEW t, NEW c, NEW j \in Nat, NEW m \in 1 .. j - 1, Heading(t, c, m),
         \A i \in m + 1 .. j - 1 : ~Heading(t, c, i)
  PROVE  Headings(t, c, j) # {} /\ Max(Headings(t, c, j)) = m
<1> DEFINE H == Headings(t, c, j)
<1>1. m \in H /\ H \in SUBSET (1 .. j)
  BY DEF Headings
<1>2. \A i \in H : i <= m
  <2>1. SUFFICES ASSUME NEW i \in H, m < i PROVE FALSE
    BY <1>1
  <2>2. i \in m + 1 .. j - 1 /\ Heading(t, c, i)
    BY <2>1 DEF Headings
  <2>3. QED
    BY <2>2
<1>3. Max(H) \in H /\ Max(H) >= m
  <2> HIDE DEF H
  <2> QED
    BY <1>1, MaxOfNumbers
<1>4. PICK x \in H : x = Max(H)
  BY <1>3
<1>5. x \in 1 .. j /\ x <= m /\ x >= m
  BY <1>1, <1>2, <1>3, <1>4
<1>6. QED
  BY <1>1, <1>4, <1>5

(* No chapter between l and j. *)
LEMMA SameHeadings ==
  ASSUME NEW t, NEW c, NEW l \in Nat \ {0}, NEW j \in Nat, l <= j, \A i \in l .. j - 1 : ~Heading(t, c, i)
  PROVE  Headings(t, c, j) = Headings(t, c, l)
<1>1. ASSUME NEW i PROVE i \in Headings(t, c, j) <=> i \in Headings(t, c, l)
  <2>1. i \in 1 .. j - 1 /\ i \notin 1 .. l - 1 => i \in l .. j - 1
    OBVIOUS
  <2>2. i \in 1 .. l - 1 => i \in 1 .. j - 1
    OBVIOUS
  <2>3. QED
    BY <2>1, <2>2 DEF Headings
<1>2. QED
  BY <1>1

\* From l to h the points are x and y, and there is at most one chapter to each.
Spans(t, c, l, h, x, y) ==
  /\ x \in l .. h /\ y \in l .. h /\ x <= y
  /\ ~Heading(t, c, x) /\ ~Heading(t, c, y)
  /\ \A j \in l .. h : ~Heading(t, c, j) => j = x \/ j = y
  /\ \A j \in l .. h : ~(Heading(t, c, j) /\ Heading(t, c, j + 1))

(* A part of which x and y are the points goes from x to y. *)
LEMMA FromTo ==
  ASSUME NEW t, WholeTemplate(t), t.numbers # << >>, NEW b, NEW c, NEW n \in Parts(t, c),
         NEW x, NEW y, Spans(t, c, Lo(t, c, n), Hi(t, c, n), x, y)
  PROVE  /\ From(t, c, n) = Begins(t, c, x) /\ To(t, b, c, n) = Ends(t, b, c, y)
         /\ PartReadable(t, b, c, n)
              <=> /\ Creatable(b, From(t, c, n)[1], From(t, c, n)[2])
                  /\ Creatable(b, To(t, b, c, n)[1], To(t, b, c, n)[2])
<1>1. PICK L \in Nat : L = Len(t.numbers)
  BY CutsOf
<1>2. /\ Part(t, c, n) = Lo(t, c, n) .. Hi(t, c, n)
      /\ Lo(t, c, n) \in 1 .. L /\ Hi(t, c, n) \in 1 .. L
  BY <1>1, PartIs
<1>3. Points(t, c, n) = {x, y}
  BY <1>2 DEF Points, Spans
<1>4. x \in 1 .. L /\ y \in 1 .. L /\ x <= y
  BY <1>2 DEF Spans
<1>5. Min({x, y}) = x
  <2>1. Min({x, y}) \in {x, y} /\ Min({x, y}) <= x
    BY <1>4, MinOfNumbers
  <2>2. QED
    BY <1>4, <2>1
<1>6. Max({x, y}) = y
  <2>1. Max({x, y}) \in {x, y} /\ Max({x, y}) >= y
    BY <1>4, MaxOfNumbers
  <2>2. QED
    BY <1>4, <2>1
<1>7. Cardinality({x, y}) <= 2
  <2>1. PICK S : S = {x}
    OBVIOUS
  <2>2. IsFiniteSet(S) /\ Cardinality(S) = 1
    BY <2>1, FS_Singleton
  <2>3. PICK T : T = S \cup {y}
    OBVIOUS
  <2>4. Cardinality(T) = IF y \in S THEN Cardinality(S) ELSE Cardinality(S) + 1
    BY <2>2, <2>3, FS_AddElement
  <2>5. T = {x, y}
    BY <2>1, <2>3
  <2>6. Cardinality(T) <= 2
    BY <2>2, <2>4
  <2>7. QED
    BY <2>5, <2>6
<1>8. QED
  BY <1>2, <1>3, <1>5, <1>6, <1>7 DEF From, To, PartReadable, Spans

\* The n-th part goes from p to q, and level and chapter are carried on.
ReadsTo(t, b, c, n, p, q, level, chapter) ==
  /\ From(t, c, n) = p /\ To(t, b, c, n) = q
  /\ PartReadable(t, b, c, n) <=> Creatable(b, p[1], p[2]) /\ Creatable(b, q[1], q[2])
  /\ n + 1 \in Parts(t, c) => Carried(t, c, Lo(t, c, n + 1), level, chapter)

\* The n-th section has d + 1 numbers, from the l-th on.
Shaped(t, c, n, d, l) ==
  /\ Lo(t, c, n) = l /\ Hi(t, c, n) = l + d
  /\ \A i \in 1 .. d : Heading(t, c, l + i - 1) <=> Sections(t, c)[n].shape[i] = "X"
  /\ \A i \in 1 .. d + 1 : Sections(t, c)[n].numbers[i] = t.numbers[l + i - 1]
  /\ ~Heading(t, c, l + d)
  /\ n + 1 \in Parts(t, c) => Lo(t, c, n + 1) = l + d + 1

(* Where the chapters of a section with a shape are. *)
LEMMA ShapePlaces ==
  ASSUME NEW t, WholeTemplate(t), t.numbers # << >>, NEW c, c # "-", NEW n \in Parts(t, c),
         NEW d \in Nat, Len(Sections(t, c)[n].shape) = d
  PROVE  \E l \in Nat \ {0} : Shaped(t, c, n, d, l)
<1>1. PICK L \in Nat : L = Len(t.numbers)
  BY CutsOf
<1>2. PICK l : l = Lo(t, c, n)
  OBVIOUS
<1>3. PICK h : h = Hi(t, c, n)
  OBVIOUS
<1>4. /\ l \in 1 .. L /\ h \in 1 .. L /\ l <= h
      /\ n + 1 \in Parts(t, c) => Lo(t, c, n + 1) = h + 1
  BY <1>1, <1>2, <1>3, PartIs
<1>5. /\ \A i \in 1 .. h - l + 1 : Sections(t, c)[n].numbers[i] = t.numbers[l + i - 1]
      /\ d = h - l
      /\ \A i \in 1 .. h - l : Sections(t, c)[n].shape[i] = IF Heading(t, c, l + i - 1) THEN "X" ELSE "-"
      /\ ~Heading(t, c, h)
  BY <1>2, <1>3, SectionIs
<1>6. h = l + d /\ h - l = d /\ l \in Nat \ {0}
  BY <1>4, <1>5
<1>7. /\ \A i \in 1 .. d + 1 : Sections(t, c)[n].numbers[i] = t.numbers[l + i - 1]
      /\ \A i \in 1 .. d : Heading(t, c, l + i - 1) <=> Sections(t, c)[n].shape[i] = "X"
  BY <1>5, <1>6
<1>8. QED
  BY <1>2, <1>3, <1>4, <1>5, <1>6, <1>7 DEF Shaped

(* Chapter, verse - chapter, verse. *)
LEMMA ReadVerseToVerse ==
  ASSUME NEW t, WholeTemplate(t), t.numbers # << >>, NEW b, NEW c, c # "-", NEW n \in Parts(t, c),
         NEW level, NEW chapter, Carried(t, c, Lo(t, c, n), level, chapter),
         Sections(t, c)[n].shape = <<"X", "-", "X">>
  PROVE  LET m == Sections(t, c)[n].numbers
         IN  ReadsTo(t, b, c, n, <<m[1], m[2]>>, <<m[3], m[4]>>, "verse", m[3])
<1> DEFINE m == Sections(t, c)[n].numbers
<1>1. PICK l \in Nat \ {0} :
        /\ Lo(t, c, n) = l /\ Hi(t, c, n) = l + 3
        /\ \A i \in 1 .. 3 : Heading(t, c, l + i - 1) <=> Sections(t, c)[n].shape[i] = "X"
        /\ \A i \in 1 .. 3 + 1 : m[i] = t.numbers[l + i - 1]
        /\ ~Heading(t, c, l + 3)
        /\ n + 1 \in Parts(t, c) => Lo(t, c, n + 1) = l + 3 + 1
  <2>1. Len(Sections(t, c)[n].shape) = 3 /\ 3 \in Nat
    OBVIOUS
  <2>2. QED
    <3>1. PICK l \in Nat \ {0} : Shaped(t, c, n, 3, l)
      BY <2>1, ShapePlaces
    <3>2. QED
      BY <3>1 DEF Shaped
<1>2. Heading(t, c, l) /\ ~Heading(t, c, l + 1) /\ Heading(t, c, l + 2) /\ ~Heading(t, c, l + 3)
  <2>1. 1 \in 1 .. 3 /\ l + 1 - 1 = l /\ 2 \in 1 .. 3 /\ l + 2 - 1 = l + 1 /\ 3 \in 1 .. 3 /\ l + 3 - 1 = l + 2
    OBVIOUS
  <2>2. QED
    BY <1>1, <2>1
<1>3. m[1] = t.numbers[l] /\ m[2] = t.numbers[l + 1] /\ m[3] = t.numbers[l + 2] /\ m[4] = t.numbers[l + 3]
  <2>1. 1 \in 1 .. 3 + 1 /\ l + 1 - 1 = l /\ 2 \in 1 .. 3 + 1 /\ l + 2 - 1 = l + 1 /\ 3 \in 1 .. 3 + 1 /\ l + 3 - 1 = l + 2 /\ 4 \in 1 .. 3 + 1 /\ l + 4 - 1 = l + 3
    OBVIOUS
  <2>2. QED
    BY <1>1, <2>1
<1> HIDE DEF m
<1>4. /\ From(t, c, n) = Begins(t, c, l + 1) /\ To(t, b, c, n) = Ends(t, b, c, l + 3)
      /\ PartReadable(t, b, c, n)
           <=> /\ Creatable(b, From(t, c, n)[1], From(t, c, n)[2])
               /\ Creatable(b, To(t, b, c, n)[1], To(t, b, c, n)[2])
  <2>1. \A j \in l .. l + 3 : j = l \/ j = l + 1 \/ j = l + 2 \/ j = l + 3
    OBVIOUS
  <2>2. l + 1 \in l .. l + 3 /\ l + 3 \in l .. l + 3 /\ l + 1 <= l + 3
    OBVIOUS
  <2>3. \A j \in l .. l + 3 : ~(Heading(t, c, j) /\ Heading(t, c, j + 1))
    <3>1. l + 1 = l + 1 /\ l + 2 + 1 = l + 3
      OBVIOUS
    <3>2. QED
      BY <1>2, <2>1, <3>1
  <2>4. \A j \in l .. l + 3 : ~Heading(t, c, j) => j = l + 1 \/ j = l + 3
    BY <1>2, <2>1
  <2>5. Spans(t, c, l, l + 3, l + 1, l + 3)
    BY <1>2, <2>2, <2>3, <2>4 DEF Spans
  <2>6. QED
    BY <1>1, <2>5, FromTo
<1>5. Headings(t, c, l + 1) # {} /\ Max(Headings(t, c, l + 1)) = l
  <2>1. l + 1 \in Nat /\ l \in 1 .. l + 1 - 1
    OBVIOUS
  <2>2. \A i \in l + 1 .. l + 1 - 1 : FALSE
    OBVIOUS
  <2>3. \A i \in l + 1 .. l + 1 - 1 : ~Heading(t, c, i)
    BY <1>2, <2>2
  <2>4. QED
    BY <1>2, <2>1, <2>3, HeadingAt
<1>6. Headings(t, c, l + 3) # {} /\ Max(Headings(t, c, l + 3)) = l + 2
  <2>1. l + 3 \in Nat /\ l + 2 \in 1 .. l + 3 - 1
    OBVIOUS
  <2>2. \A i \in l + 2 + 1 .. l + 3 - 1 : FALSE
    OBVIOUS
  <2>3. \A i \in l + 2 + 1 .. l + 3 - 1 : ~Heading(t, c, i)
    BY <1>2, <2>2
  <2>4. QED
    BY <1>2, <2>1, <2>3, HeadingAt
<1>7. Headings(t, c, l + 4) # {} /\ Max(Headings(t, c, l + 4)) = l + 2
  <2>1. l + 4 \in Nat /\ l + 2 \in 1 .. l + 4 - 1
    OBVIOUS
  <2>2. \A i \in l + 2 + 1 .. l + 4 - 1 : i = l + 3
    OBVIOUS
  <2>3. \A i \in l + 2 + 1 .. l + 4 - 1 : ~Heading(t, c, i)
    BY <1>2, <2>2
  <2>4. QED
    BY <1>2, <2>1, <2>3, HeadingAt
<1>8. Carried(t, c, l + 3 + 1, "verse", m[3])
  <2>1. l + 3 + 1 = l + 4
    OBVIOUS
  <2>2. QED
    BY <1>1, <1>3, <1>4, <1>5, <1>6, <1>7, <2>1 DEF Carried
<1>9. Begins(t, c, l + 1) = <<m[1], m[2]>> /\ Ends(t, b, c, l + 3) = <<m[3], m[4]>>
  BY <1>1, <1>3, <1>4, <1>5, <1>6, <1>7, <1>8 DEF Begins, Ends, Carried
<1>10. QED
  BY <1>1, <1>4, <1>8, <1>9 DEF ReadsTo, m

(* Chapter, verse - verse. *)
LEMMA ReadVerseToVerseOfChapter ==
  ASSUME NEW t, WholeTemplate(t), t.numbers # << >>, NEW b, NEW c, c # "-", NEW n \in Parts(t, c),
         NEW level, NEW chapter, Carried(t, c, Lo(t, c, n), level, chapter),
         Sections(t, c)[n].shape = <<"X", "-">>
  PROVE  LET m == Sections(t, c)[n].numbers
         IN  ReadsTo(t, b, c, n, <<m[1], m[2]>>, <<m[1], m[3]>>, "verse", m[1])
<1> DEFINE m == Sections(t, c)[n].numbers
<1>1. PICK l \in Nat \ {0} :
        /\ Lo(t, c, n) = l /\ Hi(t, c, n) = l + 2
        /\ \A i \in 1 .. 2 : Heading(t, c, l + i - 1) <=> Sections(t, c)[n].shape[i] = "X"
        /\ \A i \in 1 .. 2 + 1 : m[i] = t.numbers[l + i - 1]
        /\ ~Heading(t, c, l + 2)
        /\ n + 1 \in Parts(t, c) => Lo(t, c, n + 1) = l + 2 + 1
  <2>1. Len(Sections(t, c)[n].shape) = 2 /\ 2 \in Nat
    OBVIOUS
  <2>2. QED
    <3>1. PICK l \in Nat \ {0} : Shaped(t, c, n, 2, l)
      BY <2>1, ShapePlaces
    <3>2. QED
      BY <3>1 DEF Shaped
<1>2. Heading(t, c, l) /\ ~Heading(t, c, l + 1) /\ ~Heading(t, c, l + 2)
  <2>1. 1 \in 1 .. 2 /\ l + 1 - 1 = l /\ 2 \in 1 .. 2 /\ l + 2 - 1 = l + 1
    OBVIOUS
  <2>2. QED
    BY <1>1, <2>1
<1>3. m[1] = t.numbers[l] /\ m[2] = t.numbers[l + 1] /\ m[3] = t.numbers[l + 2]
  <2>1. 1 \in 1 .. 2 + 1 /\ l + 1 - 1 = l /\ 2 \in 1 .. 2 + 1 /\ l + 2 - 1 = l + 1 /\ 3 \in 1 .. 2 + 1 /\ l + 3 - 1 = l + 2
    OBVIOUS
  <2>2. QED
    BY <1>1, <2>1
<1> HIDE DEF m
<1>4. /\ From(t, c, n) = Begins(t, c, l + 1) /\ To(t, b, c, n) = Ends(t, b, c, l + 2)
      /\ PartReadable(t, b, c, n)
           <=> /\ Creatable(b, From(t, c, n)[1], From(t, c, n)[2])
               /\ Creatable(b, To(t, b, c, n)[1], To(t, b, c, n)[2])
  <2>1. \A j \in l .. l + 2 : j = l \/ j = l + 1 \/ j = l + 2
    OBVIOUS
  <2>2. l + 1 \in l .. l + 2 /\ l + 2 \in l .. l + 2 /\ l + 1 <= l + 2
    OBVIOUS
  <2>3. \A j \in l .. l + 2 : ~(Heading(t, c, j) /\ Heading(t, c, j + 1))
    <3>1. l + 1 = l + 1
      OBVIOUS
    <3>2. QED
      BY <1>2, <2>1, <3>1
  <2>4. \A j \in l .. l + 2 : ~Heading(t, c, j) => j = l + 1 \/ j = l + 2
    BY <1>2, <2>1
  <2>5. Spans(t, c, l, l + 2, l + 1, l + 2)
    BY <1>2, <2>2, <2>3, <2>4 DEF Spans
  <2>6. QED
    BY <1>1, <2>5, FromTo
<1>5. Headings(t, c, l + 1) # {} /\ Max(Headings(t, c, l + 1)) = l
  <2>1. l + 1 \in Nat /\ l \in 1 .. l + 1 - 1
    OBVIOUS
  <2>2. \A i \in l + 1 .. l + 1 - 1 : FALSE
    OBVIOUS
  <2>3. \A i \in l + 1 .. l + 1 - 1 : ~Heading(t, c, i)
    BY <1>2, <2>2
  <2>4. QED
    BY <1>2, <2>1, <2>3, HeadingAt
<1>6. Headings(t, c, l + 2) # {} /\ Max(Headings(t, c, l + 2)) = l
  <2>1. l + 2 \in Nat /\ l \in 1 .. l + 2 - 1
    OBVIOUS
  <2>2. \A i \in l + 1 .. l + 2 - 1 : i = l + 1
    OBVIOUS
  <2>3. \A i \in l + 1 .. l + 2 - 1 : ~Heading(t, c, i)
    BY <1>2, <2>2
  <2>4. QED
    BY <1>2, <2>1, <2>3, HeadingAt
<1>7. Headings(t, c, l + 3) # {} /\ Max(Headings(t, c, l + 3)) = l
  <2>1. l + 3 \in Nat /\ l \in 1 .. l + 3 - 1
    OBVIOUS
  <2>2. \A i \in l + 1 .. l + 3 - 1 : i = l + 1 \/ i = l + 2
    OBVIOUS
  <2>3. \A i \in l + 1 .. l + 3 - 1 : ~Heading(t, c, i)
    BY <1>2, <2>2
  <2>4. QED
    BY <1>2, <2>1, <2>3, HeadingAt
<1>8. Carried(t, c, l + 2 + 1, "verse", m[1])
  <2>1. l + 2 + 1 = l + 3
    OBVIOUS
  <2>2. QED
    BY <1>1, <1>3, <1>4, <1>5, <1>6, <1>7, <2>1 DEF Carried
<1>9. Begins(t, c, l + 1) = <<m[1], m[2]>> /\ Ends(t, b, c, l + 2) = <<m[1], m[3]>>
  BY <1>1, <1>3, <1>4, <1>5, <1>6, <1>7, <1>8 DEF Begins, Ends, Carried
<1>10. QED
  BY <1>1, <1>4, <1>8, <1>9 DEF ReadsTo, m

(* Verse - chapter, verse. *)
LEMMA ReadVerseToOtherChapter ==
  ASSUME NEW t, WholeTemplate(t), t.numbers # << >>, NEW b, NEW c, c # "-", NEW n \in Parts(t, c),
         NEW level, NEW chapter, Carried(t, c, Lo(t, c, n), level, chapter),
         Sections(t, c)[n].shape = <<"-", "X">>,
         level = "verse"
  PROVE  LET m == Sections(t, c)[n].numbers
         IN  ReadsTo(t, b, c, n, <<chapter, m[1]>>, <<m[2], m[3]>>, "verse", m[2])
<1> DEFINE m == Sections(t, c)[n].numbers
<1>1. PICK l \in Nat \ {0} :
        /\ Lo(t, c, n) = l /\ Hi(t, c, n) = l + 2
        /\ \A i \in 1 .. 2 : Heading(t, c, l + i - 1) <=> Sections(t, c)[n].shape[i] = "X"
        /\ \A i \in 1 .. 2 + 1 : m[i] = t.numbers[l + i - 1]
        /\ ~Heading(t, c, l + 2)
        /\ n + 1 \in Parts(t, c) => Lo(t, c, n + 1) = l + 2 + 1
  <2>1. Len(Sections(t, c)[n].shape) = 2 /\ 2 \in Nat
    OBVIOUS
  <2>2. QED
    <3>1. PICK l \in Nat \ {0} : Shaped(t, c, n, 2, l)
      BY <2>1, ShapePlaces
    <3>2. QED
      BY <3>1 DEF Shaped
<1>2. ~Heading(t, c, l) /\ Heading(t, c, l + 1) /\ ~Heading(t, c, l + 2)
  <2>1. 1 \in 1 .. 2 /\ l + 1 - 1 = l /\ 2 \in 1 .. 2 /\ l + 2 - 1 = l + 1
    OBVIOUS
  <2>2. QED
    BY <1>1, <2>1
<1>3. m[1] = t.numbers[l] /\ m[2] = t.numbers[l + 1] /\ m[3] = t.numbers[l + 2]
  <2>1. 1 \in 1 .. 2 + 1 /\ l + 1 - 1 = l /\ 2 \in 1 .. 2 + 1 /\ l + 2 - 1 = l + 1 /\ 3 \in 1 .. 2 + 1 /\ l + 3 - 1 = l + 2
    OBVIOUS
  <2>2. QED
    BY <1>1, <2>1
<1> HIDE DEF m
<1>4. /\ From(t, c, n) = Begins(t, c, l) /\ To(t, b, c, n) = Ends(t, b, c, l + 2)
      /\ PartReadable(t, b, c, n)
           <=> /\ Creatable(b, From(t, c, n)[1], From(t, c, n)[2])
               /\ Creatable(b, To(t, b, c, n)[1], To(t, b, c, n)[2])
  <2>1. \A j \in l .. l + 2 : j = l \/ j = l + 1 \/ j = l + 2
    OBVIOUS
  <2>2. l \in l .. l + 2 /\ l + 2 \in l .. l + 2 /\ l <= l + 2
    OBVIOUS
  <2>3. \A j \in l .. l + 2 : ~(Heading(t, c, j) /\ Heading(t, c, j + 1))
    <3>1. l + 1 + 1 = l + 2
      OBVIOUS
    <3>2. QED
      BY <1>2, <2>1, <3>1
  <2>4. \A j \in l .. l + 2 : ~Heading(t, c, j) => j = l \/ j = l + 2
    BY <1>2, <2>1
  <2>5. Spans(t, c, l, l + 2, l, l + 2)
    BY <1>2, <2>2, <2>3, <2>4 DEF Spans
  <2>6. QED
    BY <1>1, <2>5, FromTo
<1>5. Headings(t, c, l + 2) # {} /\ Max(Headings(t, c, l + 2)) = l + 1
  <2>1. l + 2 \in Nat /\ l + 1 \in 1 .. l + 2 - 1
    OBVIOUS
  <2>2. \A i \in l + 1 + 1 .. l + 2 - 1 : FALSE
    OBVIOUS
  <2>3. \A i \in l + 1 + 1 .. l + 2 - 1 : ~Heading(t, c, i)
    BY <1>2, <2>2
  <2>4. QED
    BY <1>2, <2>1, <2>3, HeadingAt
<1>6. Headings(t, c, l + 3) # {} /\ Max(Headings(t, c, l + 3)) = l + 1
  <2>1. l + 3 \in Nat /\ l + 1 \in 1 .. l + 3 - 1
    OBVIOUS
  <2>2. \A i \in l + 1 + 1 .. l + 3 - 1 : i = l + 2
    OBVIOUS
  <2>3. \A i \in l + 1 + 1 .. l + 3 - 1 : ~Heading(t, c, i)
    BY <1>2, <2>2
  <2>4. QED
    BY <1>2, <2>1, <2>3, HeadingAt
<1>7. Carried(t, c, l + 2 + 1, "verse", m[2])
  <2>1. l + 2 + 1 = l + 3
    OBVIOUS
  <2>2. QED
    BY <1>1, <1>3, <1>4, <1>5, <1>6, <2>1 DEF Carried
<1>8. Begins(t, c, l) = <<chapter, m[1]>> /\ Ends(t, b, c, l + 2) = <<m[2], m[3]>>
  BY <1>1, <1>3, <1>4, <1>5, <1>6, <1>7 DEF Begins, Ends, Carried
<1>9. QED
  BY <1>1, <1>4, <1>7, <1>8 DEF ReadsTo, m

(* Chapter - chapter, verse. *)
LEMMA ReadChapterToVerse ==
  ASSUME NEW t, WholeTemplate(t), t.numbers # << >>, NEW b, NEW c, c # "-", NEW n \in Parts(t, c),
         NEW level, NEW chapter, Carried(t, c, Lo(t, c, n), level, chapter),
         Sections(t, c)[n].shape = <<"-", "X">>,
         level = "chapter"
  PROVE  LET m == Sections(t, c)[n].numbers
         IN  ReadsTo(t, b, c, n, <<m[1], 1>>, <<m[2], m[3]>>, "verse", m[2])
<1> DEFINE m == Sections(t, c)[n].numbers
<1>1. PICK l \in Nat \ {0} :
        /\ Lo(t, c, n) = l /\ Hi(t, c, n) = l + 2
        /\ \A i \in 1 .. 2 : Heading(t, c, l + i - 1) <=> Sections(t, c)[n].shape[i] = "X"
        /\ \A i \in 1 .. 2 + 1 : m[i] = t.numbers[l + i - 1]
        /\ ~Heading(t, c, l + 2)
        /\ n + 1 \in Parts(t, c) => Lo(t, c, n + 1) = l + 2 + 1
  <2>1. Len(Sections(t, c)[n].shape) = 2 /\ 2 \in Nat
    OBVIOUS
  <2>2. QED
    <3>1. PICK l \in Nat \ {0} : Shaped(t, c, n, 2, l)
      BY <2>1, ShapePlaces
    <3>2. QED
      BY <3>1 DEF Shaped
<1>2. ~Heading(t, c, l) /\ Heading(t, c, l + 1) /\ ~Heading(t, c, l + 2)
  <2>1. 1 \in 1 .. 2 /\ l + 1 - 1 = l /\ 2 \in 1 .. 2 /\ l + 2 - 1 = l + 1
    OBVIOUS
  <2>2. QED
    BY <1>1, <2>1
<1>3. m[1] = t.numbers[l] /\ m[2] = t.numbers[l + 1] /\ m[3] = t.numbers[l + 2]
  <2>1. 1 \in 1 .. 2 + 1 /\ l + 1 - 1 = l /\ 2 \in 1 .. 2 + 1 /\ l + 2 - 1 = l + 1 /\ 3 \in 1 .. 2 + 1 /\ l + 3 - 1 = l + 2
    OBVIOUS
  <2>2. QED
    BY <1>1, <2>1
<1> HIDE DEF m
<1>4. /\ From(t, c, n) = Begins(t, c, l) /\ To(t, b, c, n) = Ends(t, b, c, l + 2)
      /\ PartReadable(t, b, c, n)
           <=> /\ Creatable(b, From(t, c, n)[1], From(t, c, n)[2])
               /\ Creatable(b, To(t, b, c, n)[1], To(t, b, c, n)[2])
  <2>1. \A j \in l .. l + 2 : j = l \/ j = l + 1 \/ j = l + 2
    OBVIOUS
  <2>2. l \in l .. l + 2 /\ l + 2 \in l .. l + 2 /\ l <= l + 2
    OBVIOUS
  <2>3. \A j \in l .. l + 2 : ~(Heading(t, c, j) /\ Heading(t, c, j + 1))
    <3>1. l + 1 + 1 = l + 2
      OBVIOUS
    <3>2. QED
      BY <1>2, <2>1, <3>1
  <2>4. \A j \in l .. l + 2 : ~Heading(t, c, j) => j = l \/ j = l + 2
    BY <1>2, <2>1
  <2>5. Spans(t, c, l, l + 2, l, l + 2)
    BY <1>2, <2>2, <2>3, <2>4 DEF Spans
  <2>6. QED
    BY <1>1, <2>5, FromTo
<1>5. Headings(t, c, l + 2) # {} /\ Max(Headings(t, c, l + 2)) = l + 1
  <2>1. l + 2 \in Nat /\ l + 1 \in 1 .. l + 2 - 1
    OBVIOUS
  <2>2. \A i \in l + 1 + 1 .. l + 2 - 1 : FALSE
    OBVIOUS
  <2>3. \A i \in l + 1 + 1 .. l + 2 - 1 : ~Heading(t, c, i)
    BY <1>2, <2>2
  <2>4. QED
    BY <1>2, <2>1, <2>3, HeadingAt
<1>6. Headings(t, c, l + 3) # {} /\ Max(Headings(t, c, l + 3)) = l + 1
  <2>1. l + 3 \in Nat /\ l + 1 \in 1 .. l + 3 - 1
    OBVIOUS
  <2>2. \A i \in l + 1 + 1 .. l + 3 - 1 : i = l + 2
    OBVIOUS
  <2>3. \A i \in l + 1 + 1 .. l + 3 - 1 : ~Heading(t, c, i)
    BY <1>2, <2>2
  <2>4. QED
    BY <1>2, <2>1, <2>3, HeadingAt
<1>7. Carried(t, c, l + 2 + 1, "verse", m[2])
  <2>1. l + 2 + 1 = l + 3
    OBVIOUS
  <2>2. QED
    BY <1>1, <1>3, <1>4, <1>5, <1>6, <2>1 DEF Carried
<1>8. Begins(t, c, l) = <<m[1], 1>> /\ Ends(t, b, c, l + 2) = <<m[2], m[3]>>
  BY <1>1, <1>3, <1>4, <1>5, <1>6, <1>7 DEF Begins, Ends, Carried
<1>9. QED
  BY <1>1, <1>4, <1>7, <1>8 DEF ReadsTo, m

(* Chapter, verse. *)
LEMMA ReadVerse ==
  ASSUME NEW t, WholeTemplate(t), t.numbers # << >>, NEW b, NEW c, c # "-", NEW n \in Parts(t, c),
         NEW level, NEW chapter, Carried(t, c, Lo(t, c, n), level, chapter),
         Sections(t, c)[n].shape = <<"X">>
  PROVE  LET m == Sections(t, c)[n].numbers
         IN  ReadsTo(t, b, c, n, <<m[1], m[2]>>, <<m[1], m[2]>>, "verse", m[1])
<1> DEFINE m == Sections(t, c)[n].numbers
<1>1. PICK l \in Nat \ {0} :
        /\ Lo(t, c, n) = l /\ Hi(t, c, n) = l + 1
        /\ \A i \in 1 .. 1 : Heading(t, c, l + i - 1) <=> Sections(t, c)[n].shape[i] = "X"
        /\ \A i \in 1 .. 1 + 1 : m[i] = t.numbers[l + i - 1]
        /\ ~Heading(t, c, l + 1)
        /\ n + 1 \in Parts(t, c) => Lo(t, c, n + 1) = l + 1 + 1
  <2>1. Len(Sections(t, c)[n].shape) = 1 /\ 1 \in Nat
    OBVIOUS
  <2>2. QED
    <3>1. PICK l \in Nat \ {0} : Shaped(t, c, n, 1, l)
      BY <2>1, ShapePlaces
    <3>2. QED
      BY <3>1 DEF Shaped
<1>2. Heading(t, c, l) /\ ~Heading(t, c, l + 1)
  <2>1. 1 \in 1 .. 1 /\ l + 1 - 1 = l
    OBVIOUS
  <2>2. QED
    BY <1>1, <2>1
<1>3. m[1] = t.numbers[l] /\ m[2] = t.numbers[l + 1]
  <2>1. 1 \in 1 .. 1 + 1 /\ l + 1 - 1 = l /\ 2 \in 1 .. 1 + 1 /\ l + 2 - 1 = l + 1
    OBVIOUS
  <2>2. QED
    BY <1>1, <2>1
<1> HIDE DEF m
<1>4. /\ From(t, c, n) = Begins(t, c, l + 1) /\ To(t, b, c, n) = Ends(t, b, c, l + 1)
      /\ PartReadable(t, b, c, n)
           <=> /\ Creatable(b, From(t, c, n)[1], From(t, c, n)[2])
               /\ Creatable(b, To(t, b, c, n)[1], To(t, b, c, n)[2])
  <2>1. \A j \in l .. l + 1 : j = l \/ j = l + 1
    OBVIOUS
  <2>2. l + 1 \in l .. l + 1 /\ l + 1 \in l .. l + 1 /\ l + 1 <= l + 1
    OBVIOUS
  <2>3. \A j \in l .. l + 1 : ~(Heading(t, c, j) /\ Heading(t, c, j + 1))
    <3>1. l + 1 = l + 1
      OBVIOUS
    <3>2. QED
      BY <1>2, <2>1, <3>1
  <2>4. \A j \in l .. l + 1 : ~Heading(t, c, j) => j = l + 1 \/ j = l + 1
    BY <1>2, <2>1
  <2>5. Spans(t, c, l, l + 1, l + 1, l + 1)
    BY <1>2, <2>2, <2>3, <2>4 DEF Spans
  <2>6. QED
    BY <1>1, <2>5, FromTo
<1>5. Headings(t, c, l + 1) # {} /\ Max(Headings(t, c, l + 1)) = l
  <2>1. l + 1 \in Nat /\ l \in 1 .. l + 1 - 1
    OBVIOUS
  <2>2. \A i \in l + 1 .. l + 1 - 1 : FALSE
    OBVIOUS
  <2>3. \A i \in l + 1 .. l + 1 - 1 : ~Heading(t, c, i)
    BY <1>2, <2>2
  <2>4. QED
    BY <1>2, <2>1, <2>3, HeadingAt
<1>6. Headings(t, c, l + 2) # {} /\ Max(Headings(t, c, l + 2)) = l
  <2>1. l + 2 \in Nat /\ l \in 1 .. l + 2 - 1
    OBVIOUS
  <2>2. \A i \in l + 1 .. l + 2 - 1 : i = l + 1
    OBVIOUS
  <2>3. \A i \in l + 1 .. l + 2 - 1 : ~Heading(t, c, i)
    BY <1>2, <2>2
  <2>4. QED
    BY <1>2, <2>1, <2>3, HeadingAt
<1>7. Carried(t, c, l + 1 + 1, "verse", m[1])
  <2>1. l + 1 + 1 = l + 2
    OBVIOUS
  <2>2. QED
    BY <1>1, <1>3, <1>4, <1>5, <1>6, <2>1 DEF Carried
<1>8. Begins(t, c, l + 1) = <<m[1], m[2]>> /\ Ends(t, b, c, l + 1) = <<m[1], m[2]>>
  BY <1>1, <1>3, <1>4, <1>5, <1>6, <1>7 DEF Begins, Ends, Carried
<1>9. QED
  BY <1>1, <1>4, <1>7, <1>8 DEF ReadsTo, m

(* Verse - verse. *)
LEMMA ReadVersesOfCurrent ==
  ASSUME NEW t, WholeTemplate(t), t.numbers # << >>, NEW b, NEW c, c # "-", NEW n \in Parts(t, c),
         NEW level, NEW chapter, Carried(t, c, Lo(t, c, n), level, chapter),
         Sections(t, c)[n].shape = <<"-">>,
         level = "verse"
  PROVE  LET m == Sections(t, c)[n].numbers
         IN  ReadsTo(t, b, c, n, <<chapter, m[1]>>, <<chapter, m[2]>>, "verse", chapter)
<1> DEFINE m == Sections(t, c)[n].numbers
<1>1. PICK l \in Nat \ {0} :
        /\ Lo(t, c, n) = l /\ Hi(t, c, n) = l + 1
        /\ \A i \in 1 .. 1 : Heading(t, c, l + i - 1) <=> Sections(t, c)[n].shape[i] = "X"
        /\ \A i \in 1 .. 1 + 1 : m[i] = t.numbers[l + i - 1]
        /\ ~Heading(t, c, l + 1)
        /\ n + 1 \in Parts(t, c) => Lo(t, c, n + 1) = l + 1 + 1
  <2>1. Len(Sections(t, c)[n].shape) = 1 /\ 1 \in Nat
    OBVIOUS
  <2>2. QED
    <3>1. PICK l \in Nat \ {0} : Shaped(t, c, n, 1, l)
      BY <2>1, ShapePlaces
    <3>2. QED
      BY <3>1 DEF Shaped
<1>2. ~Heading(t, c, l) /\ ~Heading(t, c, l + 1)
  <2>1. 1 \in 1 .. 1 /\ l + 1 - 1 = l
    OBVIOUS
  <2>2. QED
    BY <1>1, <2>1
<1>3. m[1] = t.numbers[l] /\ m[2] = t.numbers[l + 1]
  <2>1. 1 \in 1 .. 1 + 1 /\ l + 1 - 1 = l /\ 2 \in 1 .. 1 + 1 /\ l + 2 - 1 = l + 1
    OBVIOUS
  <2>2. QED
    BY <1>1, <2>1
<1> HIDE DEF m
<1>4. /\ From(t, c, n) = Begins(t, c, l) /\ To(t, b, c, n) = Ends(t, b, c, l + 1)
      /\ PartReadable(t, b, c, n)
           <=> /\ Creatable(b, From(t, c, n)[1], From(t, c, n)[2])
               /\ Creatable(b, To(t, b, c, n)[1], To(t, b, c, n)[2])
  <2>1. \A j \in l .. l + 1 : j = l \/ j = l + 1
    OBVIOUS
  <2>2. l \in l .. l + 1 /\ l + 1 \in l .. l + 1 /\ l <= l + 1
    OBVIOUS
  <2>3. \A j \in l .. l + 1 : ~(Heading(t, c, j) /\ Heading(t, c, j + 1))
    BY <1>2, <2>1
  <2>4. \A j \in l .. l + 1 : ~Heading(t, c, j) => j = l \/ j = l + 1
    BY <1>2, <2>1
  <2>5. Spans(t, c, l, l + 1, l, l + 1)
    BY <1>2, <2>2, <2>3, <2>4 DEF Spans
  <2>6. QED
    BY <1>1, <2>5, FromTo
<1>5. Headings(t, c, l + 1) = Headings(t, c, l)
  <2>1. \A i \in l .. l + 1 - 1 : i = l
    OBVIOUS
  <2>2. \A i \in l .. l + 1 - 1 : ~Heading(t, c, i)
    BY <1>2, <2>1
  <2>3. l <= l + 1 /\ l + 1 \in Nat
    OBVIOUS
  <2>4. QED
    BY <2>2, <2>3, SameHeadings
<1>6. Headings(t, c, l + 2) = Headings(t, c, l)
  <2>1. \A i \in l .. l + 2 - 1 : i = l \/ i = l + 1
    OBVIOUS
  <2>2. \A i \in l .. l + 2 - 1 : ~Heading(t, c, i)
    BY <1>2, <2>1
  <2>3. l <= l + 2 /\ l + 2 \in Nat
    OBVIOUS
  <2>4. QED
    BY <2>2, <2>3, SameHeadings
<1>7. Carried(t, c, l + 1 + 1, "verse", chapter)
  <2>1. l + 1 + 1 = l + 2
    OBVIOUS
  <2>2. QED
    BY <1>1, <1>3, <1>4, <1>5, <1>6, <2>1 DEF Carried
<1>8. Begins(t, c, l) = <<chapter, m[1]>> /\ Ends(t, b, c, l + 1) = <<chapter, m[2]>>
  BY <1>1, <1>3, <1>4, <1>5, <1>6, <1>7 DEF Begins, Ends, Carried
<1>9. QED
  BY <1>1, <1>4, <1>7, <1>8 DEF ReadsTo, m

(* Chapter - chapter. *)
LEMMA ReadChapters ==
  ASSUME NEW t, WholeTemplate(t), t.numbers # << >>, NEW b, NEW c, c # "-", NEW n \in Parts(t, c),
         NEW level, NEW chapter, Carried(t, c, Lo(t, c, n), level, chapter),
         Sections(t, c)[n].shape = <<"-">>,
         level = "chapter"
  PROVE  LET m == Sections(t, c)[n].numbers
         IN  ReadsTo(t, b, c, n, <<m[1], 1>>, <<m[2], verse_count(b, m[2])>>, "chapter", m[2])
<1> DEFINE m == Sections(t, c)[n].numbers
<1>1. PICK l \in Nat \ {0} :
        /\ Lo(t, c, n) = l /\ Hi(t, c, n) = l + 1
        /\ \A i \in 1 .. 1 : Heading(t, c, l + i - 1) <=> Sections(t, c)[n].shape[i] = "X"
        /\ \A i \in 1 .. 1 + 1 : m[i] = t.numbers[l + i - 1]
        /\ ~Heading(t, c, l + 1)
        /\ n + 1 \in Parts(t, c) => Lo(t, c, n + 1) = l + 1 + 1
  <2>1. Len(Sections(t, c)[n].shape) = 1 /\ 1 \in Nat
    OBVIOUS
  <2>2. QED
    <3>1. PICK l \in Nat \ {0} : Shaped(t, c, n, 1, l)
      BY <2>1, ShapePlaces
    <3>2. QED
      BY <3>1 DEF Shaped
<1>2. ~Heading(t, c, l) /\ ~Heading(t, c, l + 1)
  <2>1. 1 \in 1 .. 1 /\ l + 1 - 1 = l
    OBVIOUS
  <2>2. QED
    BY <1>1, <2>1
<1>3. m[1] = t.numbers[l] /\ m[2] = t.numbers[l + 1]
  <2>1. 1 \in 1 .. 1 + 1 /\ l + 1 - 1 = l /\ 2 \in 1 .. 1 + 1 /\ l + 2 - 1 = l + 1
    OBVIOUS
  <2>2. QED
    BY <1>1, <2>1
<1> HIDE DEF m
<1>4. /\ From(t, c, n) = Begins(t, c, l) /\ To(t, b, c, n) = Ends(t, b, c, l + 1)
      /\ PartReadable(t, b, c, n)
           <=> /\ Creatable(b, From(t, c, n)[1], From(t, c, n)[2])
               /\ Creatable(b, To(t, b, c, n)[1], To(t, b, c, n)[2])
  <2>1. \A j \in l .. l + 1 : j = l \/ j = l + 1
    OBVIOUS
  <2>2. l \in l .. l + 1 /\ l + 1 \in l .. l + 1 /\ l <= l + 1
    OBVIOUS
  <2>3. \A j \in l .. l + 1 : ~(Heading(t, c, j) /\ Heading(t, c, j + 1))
    BY <1>2, <2>1
  <2>4. \A j \in l .. l + 1 : ~Heading(t, c, j) => j = l \/ j = l + 1
    BY <1>2, <2>1
  <2>5. Spans(t, c, l, l + 1, l, l + 1)
    BY <1>2, <2>2, <2>3, <2>4 DEF Spans
  <2>6. QED
    BY <1>1, <2>5, FromTo
<1>5. Headings(t, c, l + 1) = Headings(t, c, l)
  <2>1. \A i \in l .. l + 1 - 1 : i = l
    OBVIOUS
  <2>2. \A i \in l .. l + 1 - 1 : ~Heading(t, c, i)
    BY <1>2, <2>1
  <2>3. l <= l + 1 /\ l + 1 \in Nat
    OBVIOUS
  <2>4. QED
    BY <2>2, <2>3, SameHeadings
<1>6. Headings(t, c, l + 2) = Headings(t, c, l)
  <2>1. \A i \in l .. l + 2 - 1 : i = l \/ i = l + 1
    OBVIOUS
  <2>2. \A i \in l .. l + 2 - 1 : ~Heading(t, c, i)
    BY <1>2, <2>1
  <2>3. l <= l + 2 /\ l + 2 \in Nat
    OBVIOUS
  <2>4. QED
    BY <2>2, <2>3, SameHeadings
<1>7. Carried(t, c, l + 1 + 1, "chapter", m[2])
  <2>1. l + 1 + 1 = l + 2
    OBVIOUS
  <2>2. QED
    BY <1>1, <1>3, <1>4, <1>5, <1>6, <2>1 DEF Carried
<1>8. Begins(t, c, l) = <<m[1], 1>> /\ Ends(t, b, c, l + 1) = <<m[2], verse_count(b, m[2])>>
  BY <1>1, <1>3, <1>4, <1>5, <1>6, <1>7 DEF Begins, Ends, Carried
<1>9. QED
  BY <1>1, <1>4, <1>7, <1>8 DEF ReadsTo, m

(* Verse. *)
LEMMA ReadVerseOfCurrent ==
  ASSUME NEW t, WholeTemplate(t), t.numbers # << >>, NEW b, NEW c, c # "-", NEW n \in Parts(t, c),
         NEW level, NEW chapter, Carried(t, c, Lo(t, c, n), level, chapter),
         Sections(t, c)[n].shape = << >>,
         level = "verse"
  PROVE  LET m == Sections(t, c)[n].numbers
         IN  ReadsTo(t, b, c, n, <<chapter, m[1]>>, <<chapter, m[1]>>, "verse", chapter)
<1> DEFINE m == Sections(t, c)[n].numbers
<1>1. PICK l \in Nat \ {0} :
        /\ Lo(t, c, n) = l /\ Hi(t, c, n) = l + 0
        /\ \A i \in 1 .. 0 : Heading(t, c, l + i - 1) <=> Sections(t, c)[n].shape[i] = "X"
        /\ \A i \in 1 .. 0 + 1 : m[i] = t.numbers[l + i - 1]
        /\ ~Heading(t, c, l + 0)
        /\ n + 1 \in Parts(t, c) => Lo(t, c, n + 1) = l + 0 + 1
  <2>1. Len(Sections(t, c)[n].shape) = 0 /\ 0 \in Nat
    OBVIOUS
  <2>2. QED
    <3>1. PICK l \in Nat \ {0} : Shaped(t, c, n, 0, l)
      BY <2>1, ShapePlaces
    <3>2. QED
      BY <3>1 DEF Shaped
<1>2. ~Heading(t, c, l)
  BY <1>1
<1>3. m[1] = t.numbers[l]
  <2>1. 1 \in 1 .. 0 + 1 /\ l + 1 - 1 = l
    OBVIOUS
  <2>2. QED
    BY <1>1, <2>1
<1> HIDE DEF m
<1>4. /\ From(t, c, n) = Begins(t, c, l) /\ To(t, b, c, n) = Ends(t, b, c, l)
      /\ PartReadable(t, b, c, n)
           <=> /\ Creatable(b, From(t, c, n)[1], From(t, c, n)[2])
               /\ Creatable(b, To(t, b, c, n)[1], To(t, b, c, n)[2])
  <2>1. \A j \in l .. l + 0 : j = l
    OBVIOUS
  <2>2. l \in l .. l + 0 /\ l \in l .. l + 0 /\ l <= l
    OBVIOUS
  <2>3. \A j \in l .. l + 0 : ~(Heading(t, c, j) /\ Heading(t, c, j + 1))
    BY <1>2, <2>1
  <2>4. \A j \in l .. l + 0 : ~Heading(t, c, j) => j = l \/ j = l
    BY <1>2, <2>1
  <2>5. Spans(t, c, l, l + 0, l, l)
    BY <1>2, <2>2, <2>3, <2>4 DEF Spans
  <2>6. QED
    BY <1>1, <2>5, FromTo
<1>5. Headings(t, c, l + 1) = Headings(t, c, l)
  <2>1. \A i \in l .. l + 1 - 1 : i = l
    OBVIOUS
  <2>2. \A i \in l .. l + 1 - 1 : ~Heading(t, c, i)
    BY <1>2, <2>1
  <2>3. l <= l + 1 /\ l + 1 \in Nat
    OBVIOUS
  <2>4. QED
    BY <2>2, <2>3, SameHeadings
<1>6. Carried(t, c, l + 0 + 1, "verse", chapter)
  <2>1. l + 0 + 1 = l + 1
    OBVIOUS
  <2>2. QED
    BY <1>1, <1>3, <1>4, <1>5, <2>1 DEF Carried
<1>7. Begins(t, c, l) = <<chapter, m[1]>> /\ Ends(t, b, c, l) = <<chapter, m[1]>>
  BY <1>1, <1>3, <1>4, <1>5, <1>6 DEF Begins, Ends, Carried
<1>8. QED
  BY <1>1, <1>4, <1>6, <1>7 DEF ReadsTo, m

(* Chapter. *)
LEMMA ReadChapter ==
  ASSUME NEW t, WholeTemplate(t), t.numbers # << >>, NEW b, NEW c, c # "-", NEW n \in Parts(t, c),
         NEW level, NEW chapter, Carried(t, c, Lo(t, c, n), level, chapter),
         Sections(t, c)[n].shape = << >>,
         level = "chapter"
  PROVE  LET m == Sections(t, c)[n].numbers
         IN  ReadsTo(t, b, c, n, <<m[1], 1>>, <<m[1], verse_count(b, m[1])>>, "chapter", m[1])
<1> DEFINE m == Sections(t, c)[n].numbers
<1>1. PICK l \in Nat \ {0} :
        /\ Lo(t, c, n) = l /\ Hi(t, c, n) = l + 0
        /\ \A i \in 1 .. 0 : Heading(t, c, l + i - 1) <=> Sections(t, c)[n].shape[i] = "X"
        /\ \A i \in 1 .. 0 + 1 : m[i] = t.numbers[l + i - 1]
        /\ ~Heading(t, c, l + 0)
        /\ n + 1 \in Parts(t, c) => Lo(t, c, n + 1) = l + 0 + 1
  <2>1. Len(Sections(t, c)[n].shape) = 0 /\ 0 \in Nat
    OBVIOUS
  <2>2. QED
    <3>1. PICK l \in Nat \ {0} : Shaped(t, c, n, 0, l)
      BY <2>1, ShapePlaces
    <3>2. QED
      BY <3>1 DEF Shaped
<1>2. ~Heading(t, c, l)
  BY <1>1
<1>3. m[1] = t.numbers[l]
  <2>1. 1 \in 1 .. 0 + 1 /\ l + 1 - 1 = l
    OBVIOUS
  <2>2. QED
    BY <1>1, <2>1
<1> HIDE DEF m
<1>4. /\ From(t, c, n) = Begins(t, c, l) /\ To(t, b, c, n) = Ends(t, b, c, l)
      /\ PartReadable(t, b, c, n)
           <=> /\ Creatable(b, From(t, c, n)[1], From(t, c, n)[2])
               /\ Creatable(b, To(t, b, c, n)[1], To(t, b, c, n)[2])
  <2>1. \A j \in l .. l + 0 : j = l
    OBVIOUS
  <2>2. l \in l .. l + 0 /\ l \in l .. l + 0 /\ l <= l
    OBVIOUS
  <2>3. \A j \in l .. l + 0 : ~(Heading(t, c, j) /\ Heading(t, c, j + 1))
    BY <1>2, <2>1
  <2>4. \A j \in l .. l + 0 : ~Heading(t, c, j) => j = l \/ j = l
    BY <1>2, <2>1
  <2>5. Spans(t, c, l, l + 0, l, l)
    BY <1>2, <2>2, <2>3, <2>4 DEF Spans
  <2>6. QED
    BY <1>1, <2>5, FromTo
<1>5. Headings(t, c, l + 1) = Headings(t, c, l)
  <2>1. \A i \in l .. l + 1 - 1 : i = l
    OBVIOUS
  <2>2. \A i \in l .. l + 1 - 1 : ~Heading(t, c, i)
    BY <1>2, <2>1
  <2>3. l <= l + 1 /\ l + 1 \in Nat
    OBVIOUS
  <2>4. QED
    BY <2>2, <2>3, SameHeadings
<1>6. Carried(t, c, l + 0 + 1, "chapter", m[1])
  <2>1. l + 0 + 1 = l + 1
    OBVIOUS
  <2>2. QED
    BY <1>1, <1>3, <1>4, <1>5, <2>1 DEF Carried
<1>7. Begins(t, c, l) = <<m[1], 1>> /\ Ends(t, b, c, l) = <<m[1], verse_count(b, m[1])>>
  BY <1>1, <1>3, <1>4, <1>5, <1>6 DEF Begins, Ends, Carried
<1>8. QED
  BY <1>1, <1>4, <1>6, <1>7 DEF ReadsTo, m

(* Short sequences. *)
LEMMA ShortSequences ==
  ASSUME NEW S, NEW s \in Seq(S)
  PROVE  /\ Len(s) = 0 => s = << >>
         /\ Len(s) = 1 => s = <<s[1]>>
         /\ Len(s) = 2 => s = <<s[1], s[2]>>
         /\ Len(s) = 3 => s = <<s[1], s[2], s[3]>>
OBVIOUS

(* Two sets with one element more. *)
LEMMA CountThree ==
  ASSUME NEW x, NEW y, NEW z, x # y, y # z, x # z
  PROVE  Cardinality({x, y, z}) = 3
<1>1. PICK S : S = {x}
  OBVIOUS
<1>2. IsFiniteSet(S) /\ Cardinality(S) = 1 /\ y \notin S /\ z \notin S
  BY <1>1, FS_Singleton
<1>3. PICK T : T = S \cup {y}
  OBVIOUS
<1>4. IsFiniteSet(T) /\ Cardinality(T) = 2 /\ z \notin T
  <2>1. IsFiniteSet(T) /\ Cardinality(T) = Cardinality(S) + 1
    BY <1>2, <1>3, FS_AddElement
  <2>2. QED
    BY <1>2, <1>3, <2>1
<1>5. PICK U : U = T \cup {z}
  OBVIOUS
<1>6. Cardinality(U) = Cardinality(T) + 1
  BY <1>4, <1>5, FS_AddElement
<1>7. U = {x, y, z}
  BY <1>1, <1>3, <1>5
<1>8. Cardinality(U) = 3
  BY <1>4, <1>6
<1>9. QED
  BY <1>7, <1>8

(* Three points are too many for a part. *)
LEMMA ThreePoints ==
  ASSUME NEW t, WholeTemplate(t), t.numbers # << >>, NEW b, NEW c, NEW n \in Parts(t, c),
         NEW x \in Part(t, c, n), NEW y \in Part(t, c, n), NEW z \in Part(t, c, n), x < y, y < z,
         ~Heading(t, c, x), ~Heading(t, c, y), ~Heading(t, c, z)
  PROVE  ~PartReadable(t, b, c, n)
<1>1. PICK L \in Nat : L = Len(t.numbers) /\ Part(t, c, n) \in SUBSET (1 .. L)
  <2>1. PICK L \in Nat : L = Len(t.numbers) /\ DOMAIN t.numbers = 1 .. L
    BY CutsOf
  <2>2. QED
    BY <2>1 DEF Part
<1>2. IsFiniteSet(Points(t, c, n))
  <2>1. IsFiniteSet(1 .. L)
    BY FS_Interval
  <2>2. QED
    BY <1>1, <2>1, FS_Subset DEF Points
<1>3. {x, y, z} \in SUBSET Points(t, c, n)
  BY DEF Points
<1>4. x # y /\ y # z /\ x # z
  BY <1>1
<1>5. Cardinality({x, y, z}) = 3
  BY <1>4, CountThree
<1>6. Cardinality(Points(t, c, n)) \in Nat /\ 3 <= Cardinality(Points(t, c, n))
  BY <1>2, <1>3, <1>5, FS_Subset, FS_CardinalityType
<1>7. QED
  BY <1>6 DEF PartReadable

(* A section of any other shape cannot be read. *)
LEMMA OtherUnreadable ==
  ASSUME NEW t, WholeTemplate(t), t.numbers # << >>, NEW b, NEW c, c # "-", NEW n \in Parts(t, c),
         Sections(t, c)[n].shape \notin Shapes
  PROVE  ~PartReadable(t, b, c, n)
<1>1. SUFFICES ASSUME PartReadable(t, b, c, n) PROVE FALSE
  OBVIOUS
<1>2. PICK shape \in Seq({"X", "-"}) : shape = Sections(t, c)[n].shape
  BY SectionIs
<1>3. PICK d \in Nat : d = Len(shape)
  OBVIOUS
<1>4. PICK l \in Nat \ {0} : Shaped(t, c, n, d, l)
  BY <1>2, <1>3, ShapePlaces
<1> DEFINE H(k) == Heading(t, c, l + k)
<1>5. Part(t, c, n) = l .. l + d
  BY <1>4, PartIs DEF Shaped
<1>6. ~H(d)
  BY <1>4 DEF Shaped
<1>7. ASSUME NEW k \in 0 .. d - 1 PROVE H(k) <=> shape[k + 1] = "X"
  <2>1. k + 1 \in 1 .. d /\ l + (k + 1) - 1 = l + k
    OBVIOUS
  <2>2. QED
    BY <1>2, <1>4, <2>1 DEF Shaped
<1>8. ASSUME NEW k \in 0 .. d - 1 PROVE ~(H(k) /\ H(k + 1))
  <2>1. l + k \in l .. l + d /\ l + k + 1 = l + (k + 1)
    OBVIOUS
  <2>2. QED
    BY <1>1, <1>5, <2>1 DEF PartReadable
<1>9. ASSUME NEW i \in 0 .. d, NEW j \in 0 .. d, i < j, j < d PROVE H(i) \/ H(j)
  <2>1. /\ l + i \in l .. l + d /\ l + j \in l .. l + d /\ l + d \in l .. l + d
        /\ l + i < l + j /\ l + j < l + d
    BY <1>9
  <2>2. QED
    BY <1>1, <1>5, <1>6, <2>1, ThreePoints
<1> HIDE DEF H
<1>10. \A i \in 1 .. d : shape[i] \in {"X", "-"}
  BY <1>3
<1>11. CASE d = 0
  <2>1. shape = << >>
    BY <1>3, <1>11, ShortSequences
  <2>2. QED
    BY <1>2, <2>1 DEF Shapes
<1>12. CASE d = 1
  <2>1. shape = <<shape[1]>> /\ shape[1] \in {"X", "-"}
    <3>1. Len(shape) = 1
      BY <1>3, <1>12
    <3>2. 1 \in 1 .. d
      BY <1>12
    <3>3. shape[1] \in {"X", "-"}
      BY <1>10, <3>2
    <3>4. QED
      BY <3>1, <3>3, ShortSequences
  <2>2. QED
    BY <1>2, <2>1 DEF Shapes
<1>13. CASE d = 2
  <2>1. shape = <<shape[1], shape[2]>> /\ shape[1] \in {"X", "-"} /\ shape[2] \in {"X", "-"}
    <3>1. Len(shape) = 2
      BY <1>3, <1>13
    <3>2. 1 \in 1 .. d /\ 2 \in 1 .. d
      BY <1>13
    <3>3. shape[1] \in {"X", "-"} /\ shape[2] \in {"X", "-"}
      BY <1>10, <3>2
    <3>4. QED
      BY <3>1, <3>3, ShortSequences
  <2>2. (H(0) <=> shape[1] = "X") /\ (H(1) <=> shape[2] = "X")
    <3>1. 0 \in 0 .. d - 1 /\ 1 \in 0 .. d - 1 /\ 0 + 1 = 1 /\ 1 + 1 = 2
      BY <1>13
    <3>2. QED
      BY <1>7, <3>1
  <2>3. ~(H(0) /\ H(1)) /\ (H(0) \/ H(1))
    <3>1. 0 \in 0 .. d - 1 /\ 0 + 1 = 1 /\ 0 \in 0 .. d /\ 1 \in 0 .. d /\ 0 < 1 /\ 1 < d
      BY <1>13
    <3>2. QED
      BY <1>8, <1>9, <3>1
  <2>4. QED
    BY <1>2, <2>1, <2>2, <2>3 DEF Shapes
<1>14. CASE d = 3
  <2>1. /\ shape = <<shape[1], shape[2], shape[3]>>
        /\ shape[1] \in {"X", "-"} /\ shape[2] \in {"X", "-"} /\ shape[3] \in {"X", "-"}
    <3>1. Len(shape) = 3
      BY <1>3, <1>14
    <3>2. 1 \in 1 .. d /\ 2 \in 1 .. d /\ 3 \in 1 .. d
      BY <1>14
    <3>3. shape[1] \in {"X", "-"} /\ shape[2] \in {"X", "-"} /\ shape[3] \in {"X", "-"}
      BY <1>10, <3>2
    <3>4. QED
      BY <3>1, <3>3, ShortSequences
  <2>2. (H(0) <=> shape[1] = "X") /\ (H(1) <=> shape[2] = "X") /\ (H(2) <=> shape[3] = "X")
    <3>1. /\ 0 \in 0 .. d - 1 /\ 1 \in 0 .. d - 1 /\ 2 \in 0 .. d - 1
          /\ 0 + 1 = 1 /\ 1 + 1 = 2 /\ 2 + 1 = 3
      BY <1>14
    <3>2. QED
      BY <1>7, <3>1
  <2>3. ~(H(0) /\ H(1)) /\ ~(H(1) /\ H(2))
    <3>1. 0 \in 0 .. d - 1 /\ 1 \in 0 .. d - 1 /\ 0 + 1 = 1 /\ 1 + 1 = 2
      BY <1>14
    <3>2. QED
      BY <1>8, <3>1
  <2>4. (H(0) \/ H(1)) /\ (H(1) \/ H(2)) /\ (H(0) \/ H(2))
    <3>1. 0 \in 0 .. d /\ 1 \in 0 .. d /\ 2 \in 0 .. d /\ 0 < 1 /\ 1 < 2 /\ 0 < 2 /\ 1 < d /\ 2 < d
      BY <1>14
    <3>2. QED
      BY <1>9, <3>1
  <2>5. QED
    BY <1>2, <2>1, <2>2, <2>3, <2>4 DEF Shapes
<1>15. CASE d >= 4
  <2>1. ~(H(0) /\ H(1)) /\ ~(H(2) /\ H(3))
    <3>1. 0 \in 0 .. d - 1 /\ 2 \in 0 .. d - 1 /\ 0 + 1 = 1 /\ 2 + 1 = 3
      BY <1>15
    <3>2. QED
      BY <1>8, <3>1
  <2>2. (H(0) \/ H(2)) /\ (H(0) \/ H(3)) /\ (H(1) \/ H(2)) /\ (H(1) \/ H(3))
    <3>1. /\ 0 \in 0 .. d /\ 1 \in 0 .. d /\ 2 \in 0 .. d /\ 3 \in 0 .. d
          /\ 0 < 2 /\ 0 < 3 /\ 1 < 2 /\ 1 < 3 /\ 2 < d /\ 3 < d
      BY <1>15
    <3>2. QED
      BY <1>9, <3>1
  <2>3. QED
    BY <2>1, <2>2
<1>16. QED
  BY <1>11, <1>12, <1>13, <1>14, <1>15

-----------------------------------------------------------------------------
(* The readings                                                              *)
\* With c the template has been read.
Done(t, b, c, rd) ==
  IF Readable(t, b, c) THEN c \in DOMAIN rd /\ rd[c] = Meaning(t, b, c) ELSE c \notin DOMAIN rd

\* With c the parts before the n-th have been read.
Current(t, b, c, n, level, chapter, rd) ==
  /\ n \in Parts(t, c) /\ \A k \in 1 .. n - 1 : PartReadable(t, b, c, k)
  /\ Carried(t, c, Lo(t, c, n), level, chapter)
  /\ IF n = 1 THEN c \notin DOMAIN rd
     ELSE c \in DOMAIN rd /\ rd[c] = [k \in 1 .. n - 1 |-> PartMeaning(t, b, c, k)]

\* Where the loop over the characters is: tr are still to be tried.
Reading(t, b, tr, n, level, chapter, rd) ==
  /\ tr \in Seq(ToSet(DownChars(t))) /\ \A i, j \in 1 .. Len(tr) : tr[i] = tr[j] => i = j
  /\ DOMAIN rd \subseteq ToSet(DownChars(t))
  /\ \A c \in ToSet(DownChars(t)) \ ToSet(tr) : Done(t, b, c, rd)
  /\ tr # << >> => Current(t, b, Head(tr), n, level, chapter, rd)
  /\ \A c \in ToSet(tr) : c \in DOMAIN rd => c = Head(tr)

(* The characters that are tried. *)
LEMMA DownCharsAre ==
  ASSUME NEW t, WholeTemplate(t), t.numbers # << >>
  PROVE  /\ DownChars(t) \in Seq(ToSet(DownChars(t)))
         /\ \A i, j \in 1 .. Len(DownChars(t)) : DownChars(t)[i] = DownChars(t)[j] => i = j
         /\ "-" \notin ToSet(DownChars(t))
<1> DEFINE S == {i \in DOMAIN t.chars : t.chars[i] # "-" /\ \A j \in 1 .. i - 1 : t.chars[j] # t.chars[i]}
           order == InOrder(S)
<1>1. DownChars(t) = IF order = << >> THEN <<"none">> ELSE [n \in DOMAIN order |-> t.chars[order[n]]]
  BY DEF DownChars
<1>2. PICK L \in Nat : DOMAIN t.chars = 1 .. L - 1
  BY DEF WholeTemplate
<1>3. S \in SUBSET (1 .. L - 1) /\ S \in SUBSET Nat /\ IsFiniteSet(S)
  <2>1. S \in SUBSET (1 .. L - 1) /\ S \in SUBSET Nat
    BY <1>2
  <2>2. IsFiniteSet(1 .. L - 1)
    BY FS_Interval
  <2>3. QED
    BY <2>1, <2>2, FS_Subset
<1>4. \E M \in Nat : \E g \in [1 .. M -> Nat] :
        /\ g = order /\ \A n \in 1 .. M : g[n] \in S
        /\ \A i, n \in 1 .. M : i < n => g[i] < g[n]
  <2> HIDE DEF S
  <2> QED
    BY <1>3, InOrderIs
<1>5. PICK M \in Nat : \E g \in [1 .. M -> Nat] :
        /\ g = order /\ \A n \in 1 .. M : g[n] \in S
        /\ \A i, n \in 1 .. M : i < n => g[i] < g[n]
  BY <1>4
<1>6. PICK g \in [1 .. M -> Nat] :
        /\ g = order /\ \A n \in 1 .. M : g[n] \in S
        /\ \A i, n \in 1 .. M : i < n => g[i] < g[n]
  BY <1>5
<1>7. CASE order = << >>
  <2>1. DownChars(t) = <<"none">>
    BY <1>1, <1>7
  <2>2. QED
    BY <2>1 DEF ToSet
<1>8. CASE order # << >>
  <2>1. PICK d : d = DownChars(t)
    OBVIOUS
  <2>2. d = [n \in 1 .. M |-> t.chars[g[n]]]
    BY <1>1, <1>6, <1>8, <2>1
  <2>3. d \in Seq(ToSet(d)) /\ Len(d) = M
    <3>1. d \in [1 .. M -> ToSet(d)]
      BY <2>2 DEF ToSet
    <3>2. QED
      BY <2>2, <3>1
  <2>4. ASSUME NEW i \in 1 .. M, NEW j \in 1 .. M, i < j PROVE d[i] # d[j]
    <3>1. g[i] \in S /\ g[j] \in S /\ g[i] < g[j] /\ g[i] \in 1 .. L - 1 /\ g[j] \in 1 .. L - 1
      BY <1>3, <1>6, <2>4
    <3>2. g[i] \in 1 .. g[j] - 1
      BY <3>1
    <3>3. t.chars[g[i]] # t.chars[g[j]]
      BY <3>1, <3>2
    <3>4. QED
      BY <2>2, <3>3
  <2>5. \A i, j \in 1 .. M : d[i] = d[j] => i = j
    <3>1. SUFFICES ASSUME NEW i \in 1 .. M, NEW j \in 1 .. M, d[i] = d[j] PROVE i = j
      OBVIOUS
    <3>2. ~(i < j) /\ ~(j < i)
      BY <2>4, <3>1
    <3>3. QED
      BY <3>2
  <2>6. "-" \notin ToSet(d)
    <3>1. \A n \in 1 .. M : d[n] # "-"
      BY <1>6, <2>2
    <3>2. QED
      BY <2>2, <3>1 DEF ToSet
  <2>7. QED
    BY <2>1, <2>3, <2>5, <2>6
<1>9. QED
  BY <1>7, <1>8

(* The first section is read as it is, whatever was read before. *)
LEMMA FirstCarried ==
  ASSUME NEW t, WholeTemplate(t), t.numbers # << >>, NEW b, NEW c, NEW chapter, NEW rd, c \notin DOMAIN rd
  PROVE  Current(t, b, c, 1, "chapter", chapter, rd)
<1>1. 1 \in Parts(t, c)
  <2>1. Cardinality(Cuts(t, c)) \in Nat
    BY CutsOf
  <2>2. QED
    BY <2>1 DEF Parts, Cuts
<1>2. Lo(t, c, 1) = 1
  BY DEF Lo
<1>3. Headings(t, c, 1) = {}
  BY DEF Headings
<1>4. \A k \in 1 .. 1 - 1 : FALSE
  OBVIOUS
<1>5. QED
  BY <1>1, <1>2, <1>3, <1>4 DEF Current, Carried

(* The next character, when the reading with the first one is right. *)
LEMMA NextCharacter ==
  ASSUME NEW t, WholeTemplate(t), t.numbers # << >>, NEW b, NEW tr, tr # << >>,
         NEW n, NEW level, NEW chapter, NEW rd, Reading(t, b, tr, n, level, chapter, rd),
         NEW rd2, DOMAIN rd2 \subseteq DOMAIN rd \cup {Head(tr)},
         \A d : d # Head(tr) => (d \in DOMAIN rd2 <=> d \in DOMAIN rd),
         \A d \in DOMAIN rd2 : d # Head(tr) => rd2[d] = rd[d],
         Done(t, b, Head(tr), rd2), NEW chapter2
  PROVE  Reading(t, b, Tail(tr), 1, "chapter", chapter2, rd2)
<1>1. PICK C : C = ToSet(DownChars(t))
  OBVIOUS
<1>2. tr \in Seq(C) /\ \A i, j \in 1 .. Len(tr) : tr[i] = tr[j] => i = j
  BY <1>1 DEF Reading
<1>3. PICK k \in Nat : k = Len(tr) - 1 /\ Len(tr) = k + 1
  BY <1>2
<1>4. PICK u : u = Tail(tr)
  OBVIOUS
<1>5. u \in Seq(C) /\ Len(u) = k /\ \A i \in 1 .. k : u[i] = tr[i + 1]
  BY <1>2, <1>3, <1>4
<1>6. Head(tr) = tr[1] /\ Head(tr) \in C /\ DOMAIN u = 1 .. k /\ DOMAIN tr = 1 .. k + 1
  BY <1>2, <1>3, <1>5
<1>7. \A i, j \in 1 .. k : u[i] = u[j] => i = j
  <2>1. SUFFICES ASSUME NEW i \in 1 .. k, NEW j \in 1 .. k, u[i] = u[j] PROVE i = j
    OBVIOUS
  <2>2. i + 1 \in 1 .. k + 1 /\ j + 1 \in 1 .. k + 1 /\ tr[i + 1] = tr[j + 1]
    BY <1>5, <2>1
  <2>3. i + 1 = j + 1
    BY <1>2, <1>3, <2>2
  <2>4. QED
    BY <2>3
<1>8. Head(tr) \notin ToSet(u)
  <2>1. SUFFICES ASSUME NEW i \in 1 .. k, u[i] = tr[1] PROVE FALSE
    BY <1>6 DEF ToSet
  <2>2. i + 1 \in 1 .. k + 1 /\ 1 \in 1 .. k + 1 /\ tr[i + 1] = tr[1]
    BY <1>5, <2>1
  <2>3. i + 1 = 1
    BY <1>2, <1>3, <2>2
  <2>4. QED
    BY <2>3
<1>9. \A c \in ToSet(tr) : c = Head(tr) \/ c \in ToSet(u)
  <2>1. SUFFICES ASSUME NEW i \in 1 .. k + 1, i # 1 PROVE tr[i] \in ToSet(u)
    BY <1>6 DEF ToSet
  <2>2. i - 1 \in 1 .. k /\ i - 1 + 1 = i
    BY <2>1
  <2>3. u[i - 1] = tr[i]
    BY <1>5, <2>2
  <2>4. QED
    BY <1>6, <2>2, <2>3 DEF ToSet
<1>10. \A c \in ToSet(u) : c \in ToSet(tr) /\ c # Head(tr)
  <2>1. \A i \in 1 .. k : i + 1 \in 1 .. k + 1 /\ u[i] = tr[i + 1]
    BY <1>5
  <2>2. QED
    BY <1>6, <1>8, <2>1 DEF ToSet
<1>11. DOMAIN rd2 \subseteq C
  BY <1>1, <1>6 DEF Reading
<1>12. ASSUME NEW c \in C \ ToSet(u) PROVE Done(t, b, c, rd2)
  <2>1. CASE c = Head(tr)
    BY <2>1
  <2>2. CASE c # Head(tr)
    <3>1. c \notin ToSet(tr)
      BY <1>9, <2>2
    <3>2. Done(t, b, c, rd)
      BY <1>1, <3>1 DEF Reading
    <3>3. QED
      BY <2>2, <3>2 DEF Done
  <2>3. QED
    BY <2>1, <2>2
<1>13. ASSUME NEW c \in ToSet(u) PROVE c \notin DOMAIN rd2
  BY <1>10 DEF Reading
<1>14. u # << >> => Current(t, b, Head(u), 1, "chapter", chapter2, rd2)
  <2>1. SUFFICES ASSUME u # << >> PROVE Head(u) \in ToSet(u)
    BY <1>13, FirstCarried
  <2>2. Head(u) = u[1] /\ 1 \in DOMAIN u
    BY <1>5, <1>6, <2>1
  <2>3. QED
    BY <2>2 DEF ToSet
<1>15. QED
  BY <1>1, <1>4, <1>5, <1>7, <1>11, <1>12, <1>13, <1>14 DEF Reading

(* A function on the first m numbers is a sequence. *)
LEMMA LengthIs ==
  ASSUME NEW m \in Nat, NEW S, NEW g \in [1 .. m -> S]
  PROVE  g \in Seq(S) /\ Len(g) = m
OBVIOUS

(* A sequence of parts with the next one. *)
LEMMA AppendPart ==
  ASSUME NEW n \in Nat \ {0}, NEW f, NEW g, f = [k \in 1 .. n |-> f[k]], g = [k \in 1 .. n - 1 |-> f[k]]
  PROVE  Append(g, f[n]) = f
<1>1. PICK S : S = {f[k] : k \in 1 .. n}
  OBVIOUS
<1>2. PICK m \in Nat : m = n - 1
  OBVIOUS
<1>3. g \in Seq(S) /\ Len(g) = m /\ f[n] \in S /\ f \in Seq(S) /\ Len(f) = n
  <2>1. \A k \in 1 .. m : k \in 1 .. n
    BY <1>2
  <2>2. f \in [1 .. n -> S] /\ n \in 1 .. n
    BY <1>1
  <2>3. g = [k \in 1 .. m |-> f[k]]
    BY <1>2
  <2>4. g \in [1 .. m -> S]
    BY <2>1, <2>2, <2>3
  <2>5. g \in Seq(S) /\ Len(g) = m
    BY <1>2, <2>4, LengthIs
  <2>6. f \in Seq(S) /\ Len(f) = n /\ f[n] \in S
    BY <2>2
  <2>7. QED
    BY <2>5, <2>6
<1>4. PICK a : a = Append(g, f[n]) /\ a \in Seq(S) /\ Len(a) = n
  <2>1. PICK a : a = Append(g, f[n])
    OBVIOUS
  <2>2. a \in Seq(S) /\ Len(a) = Len(g) + 1
    BY <1>3, <2>1
  <2>3. m + 1 = n
    BY <1>2
  <2>4. QED
    BY <1>3, <2>1, <2>2, <2>3
<1>5. \A k \in 1 .. n : a[k] = f[k]
  <2>1. SUFFICES ASSUME NEW k \in 1 .. n PROVE a[k] = f[k]
    OBVIOUS
  <2>2. CASE k = n
    BY <1>2, <1>3, <1>4, <2>2
  <2>3. CASE k # n
    <3>1. k \in 1 .. n - 1 /\ k \in 1 .. m
      BY <1>2, <2>3
    <3>2. g[k] = f[k]
      BY <3>1
    <3>3. a[k] = g[k]
      BY <1>2, <1>3, <1>4, <3>1
    <3>4. QED
      BY <3>2, <3>3
  <2>4. QED
    BY <2>2, <2>3
<1>6. QED
  BY <1>3, <1>4, <1>5

(* A section that is no reference ends the reading as it should. *)
LEMMA FailRight ==
  ASSUME Matched, WholeTemplate(template), trying # << >>,
         Reading(template, Book, trying, section, current_level, current_chapter, readings),
         ~PartReadable(template, Book, Separator, section), Fail, template' = template
  PROVE  Reading(template, Book, trying', section', current_level', current_chapter', readings')
<1> DEFINE t == template
           b == Book
           c == Separator
           n == section
           rd == readings
<1>1. t.numbers # << >>
  BY DEF Matched
<1>2. n \in Parts(t, c) /\ Reading(t, b, trying, n, current_level, current_chapter, rd) /\ WholeTemplate(t) /\ c = Head(trying)
  BY DEF Reading, Current, Separator
<1>3. NextSeparator /\ readings' = Without(rd, c) /\ ~PartReadable(t, b, c, n)
  BY DEF Fail
<1> HIDE DEF t, b, c, n, rd
<1>4. PICK rd2 : rd2 = readings' /\ rd2 = [d \in DOMAIN rd \ {c} |-> rd[d]]
  BY <1>3 DEF Without
<1>5. Done(t, b, c, rd2)
  BY <1>2, <1>3, <1>4 DEF Done, Readable
<1>6. Reading(t, b, Tail(trying), 1, "chapter", t.numbers[1], rd2)
  <2>1. /\ DOMAIN rd2 \subseteq DOMAIN rd \cup {c}
        /\ \A d : d # c => (d \in DOMAIN rd2 <=> d \in DOMAIN rd)
        /\ \A d \in DOMAIN rd2 : d # c => rd2[d] = rd[d]
    BY <1>4
  <2>2. QED
    BY <1>1, <1>2, <1>5, <2>1, NextCharacter
<1>7. QED
  BY <1>3, <1>4, <1>6 DEF NextSeparator, t, b

(* A section that is matched as its part means it. *)
LEMMA MatchRight ==
  ASSUME Matched, WholeTemplate(template), trying # << >>,
         Reading(template, Book, trying, section, current_level, current_chapter, readings),
         NEW p, NEW q, NEW level, NEW chapter,
         ReadsTo(template, Book, Separator, section, p, q, level, chapter),
         Match(p, q, level, chapter), template' = template
  PROVE  Reading(template, Book, trying', section', current_level', current_chapter', readings')
<1> DEFINE t == template
           b == Book
           c == Separator
           n == section
           rd == readings
<1>1. t.numbers # << >>
  BY DEF Matched
<1>2. Current(t, b, c, n, current_level, current_chapter, rd)
  BY DEF Reading, Separator
<1>3. PICK M \in Nat : Parts(t, c) = 1 .. M + 1 /\ n \in 1 .. M + 1
  <2>1. Cardinality(Cuts(t, c)) \in Nat
    BY <1>1, CutsOf
  <2>2. QED
    BY <1>2, <2>1 DEF Current, Parts, Cuts
<1>4. c \in ToSet(DownChars(t)) /\ c # "-" /\ c \in ToSet(trying)
  <2>1. trying \in Seq(ToSet(DownChars(t))) /\ "-" \notin ToSet(DownChars(t))
    BY <1>1, DownCharsAre DEF Reading
  <2>2. Head(trying) = trying[1] /\ 1 \in DOMAIN trying /\ Head(trying) \in ToSet(DownChars(t))
    BY <2>1
  <2>3. QED
    BY <2>1, <2>2 DEF Separator, ToSet
<1>5. n = Len(Sections(t, c)) <=> n = M + 1
  BY <1>1, <1>3, <1>4, SectionIs
<1>6. /\ From(t, c, n) = p /\ To(t, b, c, n) = q
      /\ PartReadable(t, b, c, n) <=> Creatable(b, p[1], p[2]) /\ Creatable(b, q[1], q[2])
      /\ n + 1 \in Parts(t, c) => Carried(t, c, Lo(t, c, n + 1), level, chapter)
  BY DEF ReadsTo
<1> HIDE DEF t, b, c, n, rd
<1>7. CASE ~(Creatable(b, p[1], p[2]) /\ Creatable(b, q[1], q[2]))
  <2>1. Fail /\ ~PartReadable(t, b, c, n)
    BY <1>6, <1>7 DEF Match, b
  <2>2. QED
    BY <2>1, FailRight DEF t, b, c, n
<1>8. CASE Creatable(b, p[1], p[2]) /\ Creatable(b, q[1], q[2])
  <2> DEFINE range == ReferenceRange(Reference(b, p[1], p[2]), Reference(b, q[1], q[2]))
             before == IF c \in DOMAIN rd THEN rd[c] ELSE << >>
             rd2 == [d \in DOMAIN rd \cup {c} |-> IF d = c THEN Append(before, range) ELSE rd[d]]
  <2>1. /\ readings' = rd2
        /\ IF n = Len(Sections(t, c)) THEN NextSeparator
           ELSE /\ section' = n + 1 /\ current_level' = level /\ current_chapter' = chapter
                /\ UNCHANGED trying
    BY <1>8 DEF Match, t, b, c, n, rd
  <2>2. range = PartMeaning(t, b, c, n)
    BY <1>6 DEF PartMeaning
  <2>3. Append(before, range) = [k \in 1 .. n |-> PartMeaning(t, b, c, k)]
    <3>1. PICK f : f = [k \in 1 .. n |-> PartMeaning(t, b, c, k)]
      OBVIOUS
    <3>2. n \in Nat \ {0} /\ n \in 1 .. n
      BY <1>3
    <3>3. before = [k \in 1 .. n - 1 |-> PartMeaning(t, b, c, k)]
      <4>1. CASE n = 1
        <5>1. before = << >>
          BY <1>2, <4>1 DEF Current
        <5>2. PICK g : g = [k \in 1 .. 0 |-> PartMeaning(t, b, c, k)]
          OBVIOUS
        <5>3. g \in Seq({g[k] : k \in 1 .. 0}) /\ Len(g) = 0
          BY <5>2
        <5>4. g = << >> /\ n - 1 = 0
          BY <4>1, <5>3, ShortSequences
        <5>5. QED
          BY <5>1, <5>2, <5>4
      <4>2. CASE n # 1
        BY <1>2, <4>2 DEF Current
      <4>3. QED
        BY <4>1, <4>2
    <3>4. before = [k \in 1 .. n - 1 |-> f[k]]
      <4>1. \A k \in 1 .. n - 1 : k \in 1 .. n
        BY <3>2
      <4>2. QED
        BY <3>1, <3>3, <4>1
    <3>5. f[n] = range /\ f = [k \in 1 .. n |-> f[k]]
      BY <2>2, <3>1, <3>2
    <3> HIDE DEF before, range
    <3>6. Append(before, f[n]) = f
      BY <3>2, <3>4, <3>5, AppendPart
    <3>7. QED
      BY <3>1, <3>5, <3>6
  <2>4. PartReadable(t, b, c, n) /\ \A k \in 1 .. n : PartReadable(t, b, c, k)
    <3>1. \A k \in 1 .. n : k = n \/ k \in 1 .. n - 1
      BY <1>3
    <3>2. QED
      BY <1>2, <1>6, <1>8, <3>1 DEF Current
  <2> HIDE DEF before, range
  <2>5. /\ DOMAIN rd2 = DOMAIN rd \cup {c} /\ rd2[c] = [k \in 1 .. n |-> PartMeaning(t, b, c, k)]
        /\ \A d \in DOMAIN rd : d # c => rd2[d] = rd[d]
    BY <2>3
  <2> HIDE DEF rd2
  <2>6. Reading(t, b, trying, n, current_level, current_chapter, rd) /\ WholeTemplate(t) /\ c = Head(trying)
    BY DEF t, b, n, rd, c, Separator
  <2>7. CASE n = M + 1
    <3>1. Done(t, b, c, rd2)
      BY <1>3, <2>4, <2>5, <2>7 DEF Done, Readable, Meaning
    <3>2. Reading(t, b, Tail(trying), 1, "chapter", t.numbers[1], rd2)
      BY <1>1, <2>5, <2>6, <3>1, NextCharacter
    <3>3. NextSeparator
      BY <1>5, <2>1, <2>7
    <3>4. QED
      BY <2>1, <3>2, <3>3 DEF NextSeparator, t, b
  <2>8. CASE n # M + 1
    <3>1. section' = n + 1 /\ current_level' = level /\ current_chapter' = chapter /\ trying' = trying
      BY <1>5, <2>1, <2>8
    <3>2. n + 1 \in Parts(t, c) /\ n + 1 # 1 /\ n + 1 - 1 = n
      BY <1>3, <2>8
    <3>3. Current(t, b, c, n + 1, level, chapter, rd2)
      <4>1. PICK m : m = n + 1
        OBVIOUS
      <4>5. m \in Parts(t, c) /\ m # 1 /\ m - 1 = n
        <5>1. n \in Nat /\ n # 0
          BY <1>3
        <5>2. m # 1 /\ m - 1 = n
          BY <4>1, <5>1
        <5>3. QED
          BY <3>2, <4>1, <5>2
      <4>2. Carried(t, c, Lo(t, c, m), level, chapter)
        BY <1>6, <3>2, <4>1
      <4>3. Current(t, b, c, m, level, chapter, rd2)
        BY <2>4, <2>5, <4>2, <4>5 DEF Current
      <4>4. QED
        BY <4>1, <4>3
    <3>4. ASSUME NEW d \in ToSet(DownChars(t)) \ ToSet(trying) PROVE Done(t, b, d, rd2)
      <4>1. Done(t, b, d, rd) /\ d # c
        BY <1>4, <2>6 DEF Reading
      <4>2. QED
        BY <2>5, <4>1 DEF Done
    <3>5. Reading(t, b, trying, n + 1, level, chapter, rd2)
      BY <1>4, <2>5, <2>6, <3>3, <3>4 DEF Reading
    <3>6. QED
      BY <2>1, <3>1, <3>5 DEF t, b
  <2>9. QED
    BY <2>7, <2>8
<1>9. QED
  BY <1>7, <1>8

\* The template is whole, and the loop over its characters reads it as it should.
ReadInv ==
  /\ state \in {"parse", "match", "done"}
  /\ state = "parse" =>
       found = {} /\ section = 1 /\ current_level = "chapter" /\ readings = << >>
  /\ state = "match" => Matched
  /\ state = "done" /\ Matched => trying = << >>
  /\ Matched =>
       /\ WholeTemplate(template)
       /\ Reading(template, Book, trying, section, current_level, current_chapter, readings)

(* A step of the loop that goes on with the reading. *)
LEMMA ReadInvKept ==
  ASSUME ReadInv, state = "match", state' = state, found' = found, template' = template,
         Reading(template, Book, trying', section', current_level', current_chapter', readings')
  PROVE  ReadInv'
<1>1. Book' = Book
  BY DEF Book
<1>2. Matched /\ Matched'
  BY DEF ReadInv, Matched
<1>3. Reading(template, Book, trying, section, current_level, current_chapter, readings)'
  BY <1>1
<1>4. WholeTemplate(template)'
  BY <1>2 DEF ReadInv
<1>5. QED
  BY <1>2, <1>3, <1>4 DEF ReadInv

(* Nothing is read at the beginning. *)
LEMMA ReadInvInit == Init => ReadInv
BY DEF Init, ReadInv, Matched

(* The template that is found is read from its first section on. *)
LEMMA FindBookReads ==
  ASSUME FoundInv, ReadInv, FindBook
  PROVE  ReadInv'
<1>1. PICK f \in find_book(text, cursor) :
        LET t == create_passage_template(text, f.numbers)
            verse == Reference(f.book, 1, 1)
        IN  /\ found' = {f} /\ template' = t
            /\ IF t.numbers = << >>
                 THEN /\ state' = "done" /\ ranges' = <<ReferenceRange(verse, verse)>>
                      /\ UNCHANGED <<trying, current_chapter>>
                 ELSE /\ state' = "match" /\ trying' = DownChars(t)
                      /\ current_chapter' = t.numbers[1]
                      /\ UNCHANGED ranges
  BY DEF FindBook
<1>2. section' = 1 /\ current_level' = "chapter" /\ readings' = << >>
  BY DEF FindBook, ReadInv
<1>3. PICK t : t = create_passage_template(text, f.numbers)
  OBVIOUS
<1>4. WholeTemplate(t) /\ template' = t
  BY <1>1, <1>3, TemplateIsWhole DEF FoundInv
<1>5. CASE t.numbers = << >>
  <2>1. state' = "done" /\ ~Matched'
    BY <1>1, <1>3, <1>4, <1>5 DEF Matched
  <2>2. QED
    BY <2>1 DEF ReadInv
<1>6. CASE t.numbers # << >>
  <2>1. state' = "match" /\ trying' = DownChars(t) /\ found' # {}
    BY <1>1, <1>3, <1>6
  <2>2. PICK down : down = DownChars(t)
    OBVIOUS
  <2>3. down \in Seq(ToSet(down)) /\ \A i, j \in 1 .. Len(down) : down[i] = down[j] => i = j
    BY <1>4, <1>6, <2>2, DownCharsAre
  <2>4. PICK rd : rd = readings' /\ DOMAIN rd = {}
    <3>1. DOMAIN << >> = {}
      OBVIOUS
    <3>2. QED
      BY <1>2, <3>1
  <2>5. Current(t, Book', Head(down), 1, "chapter", current_chapter', rd)
    BY <1>4, <1>6, <2>4, FirstCarried
  <2>6. Reading(t, Book', down, 1, "chapter", current_chapter', rd)
    BY <2>2, <2>3, <2>4, <2>5 DEF Reading
  <2>7. Reading(template, Book, trying, section, current_level, current_chapter, readings)'
    BY <1>2, <1>4, <2>1, <2>2, <2>4, <2>6
  <2>8. Matched'
    BY <1>4, <1>6, <2>1 DEF Matched
  <2>9. WholeTemplate(template)'
    BY <1>4
  <2>10. QED
    BY <2>1, <2>7, <2>8, <2>9 DEF ReadInv
<1>7. QED
  BY <1>5, <1>6

(* What holds of the section that is matched. *)
LEMMA MatchingHolds ==
  ASSUME ReadInv, NEW shape, Matching(shape)
  PROVE  /\ state = "match" /\ trying # << >> /\ Matched /\ WholeTemplate(template)
         /\ template.numbers # << >> /\ Separator # "-" /\ section \in Parts(template, Separator)
         /\ Reading(template, Book, trying, section, current_level, current_chapter, readings)
         /\ Carried(template, Separator, Lo(template, Separator, section), current_level, current_chapter)
         /\ Sections(template, Separator)[section].shape = shape
         /\ state' = state /\ found' = found /\ template' = template
<1>1. /\ state = "match" /\ trying # << >> /\ Section.shape = shape
      /\ state' = state /\ found' = found /\ template' = template
  BY DEF Matching
<1>2. /\ Matched /\ WholeTemplate(template) /\ template.numbers # << >>
      /\ Reading(template, Book, trying, section, current_level, current_chapter, readings)
  BY <1>1 DEF ReadInv, Matched
<1>3. Current(template, Book, Separator, section, current_level, current_chapter, readings)
  BY <1>1, <1>2 DEF Reading, Separator
<1>4. Separator # "-"
  <2>1. trying \in Seq(ToSet(DownChars(template))) /\ "-" \notin ToSet(DownChars(template))
    BY <1>2, DownCharsAre DEF Reading
  <2>2. Head(trying) \in ToSet(DownChars(template))
    BY <1>1, <2>1
  <2>3. QED
    BY <2>1, <2>2 DEF Separator
<1>5. QED
  BY <1>1, <1>2, <1>3, <1>4 DEF Current, Section

(* Each kind of section is read as its part means it. *)
LEMMA VerseToVerseReads == ReadInv /\ VerseToVerse => ReadInv'
<1> SUFFICES ASSUME ReadInv, VerseToVerse PROVE ReadInv'
  OBVIOUS
<1>1. Matching(<<"X", "-", "X">>) /\ Match(<<Section.numbers[1], Section.numbers[2]>>, <<Section.numbers[3], Section.numbers[4]>>, "verse", Section.numbers[3])
  BY DEF VerseToVerse
<1>2. ReadsTo(template, Book, Separator, section, <<Section.numbers[1], Section.numbers[2]>>, <<Section.numbers[3], Section.numbers[4]>>, "verse", Section.numbers[3])
  <2>1. /\ WholeTemplate(template) /\ template.numbers # << >> /\ Separator # "-"
        /\ section \in Parts(template, Separator)
        /\ Carried(template, Separator, Lo(template, Separator, section), current_level, current_chapter)
        /\ Sections(template, Separator)[section].shape = <<"X", "-", "X">>
    BY <1>1, MatchingHolds
  <2>2. QED
    BY <1>1, <2>1, ReadVerseToVerse DEF Section
<1>3. Reading(template, Book, trying', section', current_level', current_chapter', readings')
  BY <1>1, <1>2, MatchingHolds, MatchRight
<1>4. QED
  BY <1>1, <1>3, MatchingHolds, ReadInvKept

(* The same of VerseToVerseOfChapter. *)
LEMMA VerseToVerseOfChapterReads == ReadInv /\ VerseToVerseOfChapter => ReadInv'
<1> SUFFICES ASSUME ReadInv, VerseToVerseOfChapter PROVE ReadInv'
  OBVIOUS
<1>1. Matching(<<"X", "-">>) /\ Match(<<Section.numbers[1], Section.numbers[2]>>, <<Section.numbers[1], Section.numbers[3]>>, "verse", Section.numbers[1])
  BY DEF VerseToVerseOfChapter
<1>2. ReadsTo(template, Book, Separator, section, <<Section.numbers[1], Section.numbers[2]>>, <<Section.numbers[1], Section.numbers[3]>>, "verse", Section.numbers[1])
  <2>1. /\ WholeTemplate(template) /\ template.numbers # << >> /\ Separator # "-"
        /\ section \in Parts(template, Separator)
        /\ Carried(template, Separator, Lo(template, Separator, section), current_level, current_chapter)
        /\ Sections(template, Separator)[section].shape = <<"X", "-">>
    BY <1>1, MatchingHolds
  <2>2. QED
    BY <1>1, <2>1, ReadVerseToVerseOfChapter DEF Section
<1>3. Reading(template, Book, trying', section', current_level', current_chapter', readings')
  BY <1>1, <1>2, MatchingHolds, MatchRight
<1>4. QED
  BY <1>1, <1>3, MatchingHolds, ReadInvKept

(* The same of VerseToOtherChapter. *)
LEMMA VerseToOtherChapterReads == ReadInv /\ VerseToOtherChapter => ReadInv'
<1> SUFFICES ASSUME ReadInv, VerseToOtherChapter PROVE ReadInv'
  OBVIOUS
<1>1. Matching(<<"-", "X">>) /\ Match(<<current_chapter, Section.numbers[1]>>, <<Section.numbers[2], Section.numbers[3]>>, "verse", Section.numbers[2]) /\ current_level = "verse"
  BY DEF VerseToOtherChapter
<1>2. ReadsTo(template, Book, Separator, section, <<current_chapter, Section.numbers[1]>>, <<Section.numbers[2], Section.numbers[3]>>, "verse", Section.numbers[2])
  <2>1. /\ WholeTemplate(template) /\ template.numbers # << >> /\ Separator # "-"
        /\ section \in Parts(template, Separator)
        /\ Carried(template, Separator, Lo(template, Separator, section), current_level, current_chapter)
        /\ Sections(template, Separator)[section].shape = <<"-", "X">>
    BY <1>1, MatchingHolds
  <2>2. QED
    BY <1>1, <2>1, ReadVerseToOtherChapter DEF Section
<1>3. Reading(template, Book, trying', section', current_level', current_chapter', readings')
  BY <1>1, <1>2, MatchingHolds, MatchRight
<1>4. QED
  BY <1>1, <1>3, MatchingHolds, ReadInvKept

(* The same of ChapterToVerse. *)
LEMMA ChapterToVerseReads == ReadInv /\ ChapterToVerse => ReadInv'
<1> SUFFICES ASSUME ReadInv, ChapterToVerse PROVE ReadInv'
  OBVIOUS
<1>1. Matching(<<"-", "X">>) /\ Match(<<Section.numbers[1], 1>>, <<Section.numbers[2], Section.numbers[3]>>, "verse", Section.numbers[2]) /\ current_level = "chapter"
  BY DEF ChapterToVerse
<1>2. ReadsTo(template, Book, Separator, section, <<Section.numbers[1], 1>>, <<Section.numbers[2], Section.numbers[3]>>, "verse", Section.numbers[2])
  <2>1. /\ WholeTemplate(template) /\ template.numbers # << >> /\ Separator # "-"
        /\ section \in Parts(template, Separator)
        /\ Carried(template, Separator, Lo(template, Separator, section), current_level, current_chapter)
        /\ Sections(template, Separator)[section].shape = <<"-", "X">>
    BY <1>1, MatchingHolds
  <2>2. QED
    BY <1>1, <2>1, ReadChapterToVerse DEF Section
<1>3. Reading(template, Book, trying', section', current_level', current_chapter', readings')
  BY <1>1, <1>2, MatchingHolds, MatchRight
<1>4. QED
  BY <1>1, <1>3, MatchingHolds, ReadInvKept

(* The same of Verse. *)
LEMMA VerseReads == ReadInv /\ Verse => ReadInv'
<1> SUFFICES ASSUME ReadInv, Verse PROVE ReadInv'
  OBVIOUS
<1>1. Matching(<<"X">>) /\ Match(<<Section.numbers[1], Section.numbers[2]>>, <<Section.numbers[1], Section.numbers[2]>>, "verse", Section.numbers[1])
  BY DEF Verse
<1>2. ReadsTo(template, Book, Separator, section, <<Section.numbers[1], Section.numbers[2]>>, <<Section.numbers[1], Section.numbers[2]>>, "verse", Section.numbers[1])
  <2>1. /\ WholeTemplate(template) /\ template.numbers # << >> /\ Separator # "-"
        /\ section \in Parts(template, Separator)
        /\ Carried(template, Separator, Lo(template, Separator, section), current_level, current_chapter)
        /\ Sections(template, Separator)[section].shape = <<"X">>
    BY <1>1, MatchingHolds
  <2>2. QED
    BY <1>1, <2>1, ReadVerse DEF Section
<1>3. Reading(template, Book, trying', section', current_level', current_chapter', readings')
  BY <1>1, <1>2, MatchingHolds, MatchRight
<1>4. QED
  BY <1>1, <1>3, MatchingHolds, ReadInvKept

(* The same of VersesOfCurrent. *)
LEMMA VersesOfCurrentReads == ReadInv /\ VersesOfCurrent => ReadInv'
<1> SUFFICES ASSUME ReadInv, VersesOfCurrent PROVE ReadInv'
  OBVIOUS
<1>1. Matching(<<"-">>) /\ Match(<<current_chapter, Section.numbers[1]>>, <<current_chapter, Section.numbers[2]>>, "verse", current_chapter) /\ current_level = "verse"
  BY DEF VersesOfCurrent
<1>2. ReadsTo(template, Book, Separator, section, <<current_chapter, Section.numbers[1]>>, <<current_chapter, Section.numbers[2]>>, "verse", current_chapter)
  <2>1. /\ WholeTemplate(template) /\ template.numbers # << >> /\ Separator # "-"
        /\ section \in Parts(template, Separator)
        /\ Carried(template, Separator, Lo(template, Separator, section), current_level, current_chapter)
        /\ Sections(template, Separator)[section].shape = <<"-">>
    BY <1>1, MatchingHolds
  <2>2. QED
    BY <1>1, <2>1, ReadVersesOfCurrent DEF Section
<1>3. Reading(template, Book, trying', section', current_level', current_chapter', readings')
  BY <1>1, <1>2, MatchingHolds, MatchRight
<1>4. QED
  BY <1>1, <1>3, MatchingHolds, ReadInvKept

(* The same of Chapters. *)
LEMMA ChaptersReads == ReadInv /\ Chapters => ReadInv'
<1> SUFFICES ASSUME ReadInv, Chapters PROVE ReadInv'
  OBVIOUS
<1>1. Matching(<<"-">>) /\ Match(<<Section.numbers[1], 1>>, <<Section.numbers[2], verse_count(Book, Section.numbers[2])>>, "chapter", Section.numbers[2]) /\ current_level = "chapter"
  BY DEF Chapters
<1>2. ReadsTo(template, Book, Separator, section, <<Section.numbers[1], 1>>, <<Section.numbers[2], verse_count(Book, Section.numbers[2])>>, "chapter", Section.numbers[2])
  <2>1. /\ WholeTemplate(template) /\ template.numbers # << >> /\ Separator # "-"
        /\ section \in Parts(template, Separator)
        /\ Carried(template, Separator, Lo(template, Separator, section), current_level, current_chapter)
        /\ Sections(template, Separator)[section].shape = <<"-">>
    BY <1>1, MatchingHolds
  <2>2. QED
    BY <1>1, <2>1, ReadChapters DEF Section
<1>3. Reading(template, Book, trying', section', current_level', current_chapter', readings')
  BY <1>1, <1>2, MatchingHolds, MatchRight
<1>4. QED
  BY <1>1, <1>3, MatchingHolds, ReadInvKept

(* The same of VerseOfCurrent. *)
LEMMA VerseOfCurrentReads == ReadInv /\ VerseOfCurrent => ReadInv'
<1> SUFFICES ASSUME ReadInv, VerseOfCurrent PROVE ReadInv'
  OBVIOUS
<1>1. Matching(<< >>) /\ Match(<<current_chapter, Section.numbers[1]>>, <<current_chapter, Section.numbers[1]>>, "verse", current_chapter) /\ current_level = "verse"
  BY DEF VerseOfCurrent
<1>2. ReadsTo(template, Book, Separator, section, <<current_chapter, Section.numbers[1]>>, <<current_chapter, Section.numbers[1]>>, "verse", current_chapter)
  <2>1. /\ WholeTemplate(template) /\ template.numbers # << >> /\ Separator # "-"
        /\ section \in Parts(template, Separator)
        /\ Carried(template, Separator, Lo(template, Separator, section), current_level, current_chapter)
        /\ Sections(template, Separator)[section].shape = << >>
    BY <1>1, MatchingHolds
  <2>2. QED
    BY <1>1, <2>1, ReadVerseOfCurrent DEF Section
<1>3. Reading(template, Book, trying', section', current_level', current_chapter', readings')
  BY <1>1, <1>2, MatchingHolds, MatchRight
<1>4. QED
  BY <1>1, <1>3, MatchingHolds, ReadInvKept

(* The same of Chapter. *)
LEMMA ChapterReads == ReadInv /\ Chapter => ReadInv'
<1> SUFFICES ASSUME ReadInv, Chapter PROVE ReadInv'
  OBVIOUS
<1>1. Matching(<< >>) /\ Match(<<Section.numbers[1], 1>>, <<Section.numbers[1], verse_count(Book, Section.numbers[1])>>, "chapter", Section.numbers[1]) /\ current_level = "chapter"
  BY DEF Chapter
<1>2. ReadsTo(template, Book, Separator, section, <<Section.numbers[1], 1>>, <<Section.numbers[1], verse_count(Book, Section.numbers[1])>>, "chapter", Section.numbers[1])
  <2>1. /\ WholeTemplate(template) /\ template.numbers # << >> /\ Separator # "-"
        /\ section \in Parts(template, Separator)
        /\ Carried(template, Separator, Lo(template, Separator, section), current_level, current_chapter)
        /\ Sections(template, Separator)[section].shape = << >>
    BY <1>1, MatchingHolds
  <2>2. QED
    BY <1>1, <2>1, ReadChapter DEF Section
<1>3. Reading(template, Book, trying', section', current_level', current_chapter', readings')
  BY <1>1, <1>2, MatchingHolds, MatchRight
<1>4. QED
  BY <1>1, <1>3, MatchingHolds, ReadInvKept

(* A section of another shape ends the reading. *)
LEMMA OtherShapeReads == ReadInv /\ OtherShape => ReadInv'
<1> SUFFICES ASSUME ReadInv, OtherShape PROVE ReadInv'
  OBVIOUS
<1>1. Section.shape \notin Shapes /\ Matching(Section.shape) /\ Fail
  BY DEF OtherShape
<1>2. ~PartReadable(template, Book, Separator, section)
  BY <1>1, MatchingHolds, OtherUnreadable DEF Section
<1>3. Reading(template, Book, trying', section', current_level', current_chapter', readings')
  BY <1>1, <1>2, MatchingHolds, FailRight
<1>4. QED
  BY <1>1, <1>3, MatchingHolds, ReadInvKept

(* The readings are right after every step. *)
LEMMA ReadInductive == Spec => []ReadInv
<1>1. FoundInv /\ ReadInv /\ [Next]_vars => ReadInv'
  <2> SUFFICES ASSUME FoundInv, ReadInv, [Next]_vars PROVE ReadInv'
    OBVIOUS
  <2>1. CASE NoBook
    <3>1. ~Matched'
      BY <2>1 DEF NoBook, ReadInv, Matched
    <3>2. QED
      BY <2>1, <3>1 DEF NoBook, ReadInv
  <2>2. CASE FindBook
    BY <2>2, FindBookReads
  <2>3. CASE Choose
    <3>1. /\ state = "match" /\ trying = << >> /\ state' = "done" /\ trying' = trying /\ section' = section
          /\ found' = found /\ template' = template /\ readings' = readings
          /\ current_level' = current_level /\ current_chapter' = current_chapter
      BY <2>3 DEF Choose
    <3>2. Book' = Book /\ (Matched <=> Matched')
      BY <3>1 DEF Book, Matched
    <3>3. QED
      BY <3>1, <3>2 DEF ReadInv
  <2>4. CASE UNCHANGED vars
    <3>1. /\ state' = state /\ trying' = trying /\ section' = section
          /\ found' = found /\ template' = template /\ readings' = readings
          /\ current_level' = current_level /\ current_chapter' = current_chapter
      BY <2>4 DEF vars
    <3>2. Book' = Book /\ (Matched <=> Matched')
      BY <3>1 DEF Book, Matched
    <3>3. QED
      BY <3>1, <3>2 DEF ReadInv
  <2>5. QED
    BY <2>1, <2>2, <2>3, <2>4, VerseToVerseReads, VerseToVerseOfChapterReads, VerseToOtherChapterReads,
       ChapterToVerseReads, VerseReads, VersesOfCurrentReads, ChaptersReads, VerseOfCurrentReads,
       ChapterReads, OtherShapeReads DEF Next
<1>2. QED
  BY <1>1, ReadInvInit, FoundInductive, PTL DEF Spec

(* Whatever the numbers, their order and the characters between them are: a   *)
(* reading that has been tried is what the whole template means, or is not   *)
(* there because the template cannot be read so.                             *)
THEOREM ReadingsAsMeant == Spec => []ReadsAsMeant
<1>1. ReadInv => ReadsAsMeant
  BY DEF ReadInv, ReadsAsMeant, Reading, Done
<1>2. QED
  BY <1>1, ReadInductive, PTL

-----------------------------------------------------------------------------
(* The smallest reading                                                      *)
\* What a sum is computed by, and which set is summed before s.
SumBody(f, g, s) == IF s = {} THEN 0 ELSE LET x == CHOOSE x \in s : TRUE IN f[x] + g[s \ {x}]
Picked(s) == CHOOSE x \in s : TRUE
Rest(s) == s \ {Picked(s)}

(* SumFunction by its recursive function. *)
LEMMA SumIs ==
  ASSUME NEW f
  PROVE  SumFunction(f) = (CHOOSE g : g = [s \in SUBSET DOMAIN f |-> SumBody(f, g, s)])[DOMAIN f]
BY DEF SumFunction, SumFunctionOnSet, FoldFunctionOnSet, MapThenFoldSet, SumBody

(* The sets a sum recurs to. *)
LEMMA Smaller ==
  ASSUME NEW D, IsFiniteSet(D), NEW s \in SUBSET D
  PROVE  /\ Cardinality(s) \in Nat /\ Cardinality(s) <= Cardinality(D) /\ Cardinality(D) \in Nat
         /\ Cardinality(s) = 0 => s = {}
         /\ s # {} => /\ Picked(s) \in D /\ Rest(s) \in SUBSET D
                      /\ Cardinality(Rest(s)) \in Nat /\ Cardinality(s) = Cardinality(Rest(s)) + 1
<1>1. IsFiniteSet(s) /\ Cardinality(s) \in Nat /\ Cardinality(s) <= Cardinality(D) /\ Cardinality(D) \in Nat
  BY FS_Subset, FS_CardinalityType
<1>2. Cardinality(s) = 0 => s = {}
  BY <1>1, FS_EmptySet
<1>3. ASSUME s # {}
      PROVE  /\ Picked(s) \in D /\ Rest(s) \in SUBSET D
             /\ Cardinality(Rest(s)) \in Nat /\ Cardinality(s) = Cardinality(Rest(s)) + 1
  <2>1. Picked(s) \in s
    BY <1>3 DEF Picked
  <2>2. IsFiniteSet(Rest(s)) /\ Cardinality(Rest(s)) = Cardinality(s) - 1
    BY <1>1, <2>1, FS_RemoveElement DEF Rest
  <2>3. Cardinality(Rest(s)) \in Nat
    BY <2>2, FS_CardinalityType
  <2>4. QED
    BY <1>1, <2>1, <2>2, <2>3 DEF Rest
<1>4. QED
  BY <1>1, <1>2, <1>3

\* What g says of the sets that are summed.
SumsBy(f, g) == \A s \in SUBSET DOMAIN f : g[s] \in Nat /\ g[s] = SumBody(f, g, s)

(* A sum of numbers is a number, and is computed set by set. *)
LEMMA SumRecurs ==
  ASSUME NEW f, IsFiniteSet(DOMAIN f), \A x \in DOMAIN f : f[x] \in Nat
  PROVE  \E g : SumsBy(f, g) /\ SumFunction(f) = g[DOMAIN f]
<1>1. PICK D : D = DOMAIN f /\ IsFiniteSet(D) /\ \A x \in D : f[x] \in Nat
  OBVIOUS
<1>2. PICK n \in Nat : n = Cardinality(D)
  BY <1>1, FS_CardinalityType
<1> DEFINE Sub(m) == {s \in SUBSET D : Cardinality(s) <= m}
           Sums(m, g) == g \in [Sub(m) -> Nat] /\ \A s \in Sub(m) : g[s] = SumBody(f, g, s)
           sum == CHOOSE g : g = [s \in SUBSET D |-> SumBody(f, g, s)]
<1>3. ASSUME NEW s \in SUBSET D, NEW g, NEW h, s # {} => g[Rest(s)] = h[Rest(s)]
      PROVE  SumBody(f, g, s) = SumBody(f, h, s)
  BY <1>3 DEF SumBody, Rest, Picked
<1>4. ASSUME NEW s \in SUBSET D, NEW g, s # {} => g[Rest(s)] \in Nat
      PROVE  SumBody(f, g, s) \in Nat
  <2>1. CASE s = {}
    BY <2>1 DEF SumBody
  <2>2. CASE s # {}
    <3>1. f[Picked(s)] \in Nat
      BY <1>1, <2>2 DEF Picked
    <3>2. SumBody(f, g, s) = f[Picked(s)] + g[Rest(s)]
      BY <2>2 DEF SumBody, Picked, Rest
    <3>3. QED
      BY <1>4, <2>2, <3>1, <3>2
  <2>3. QED
    BY <2>1, <2>2
<1>5. \A m \in Nat : \A s \in Sub(m) : s # {} => Rest(s) \in Sub(m)
  <2> SUFFICES ASSUME NEW m \in Nat, NEW s \in Sub(m), s # {} PROVE Rest(s) \in Sub(m)
    OBVIOUS
  <2>1. /\ Rest(s) \in SUBSET D /\ Cardinality(Rest(s)) \in Nat
        /\ Cardinality(s) = Cardinality(Rest(s)) + 1 /\ Cardinality(s) <= m
    BY <1>1, Smaller
  <2>2. QED
    BY <2>1
<1>6. \E g : Sums(n, g)
  <2> DEFINE M == {m \in 0 .. n : \E g : Sums(m, g)}
             up == {m + 1 : m \in M}
  <2>1. 0 \in M
    <3>1. Sums(0, [s \in Sub(0) |-> 0])
      <4>1. \A s \in Sub(0) : s = {}
        <5>1. SUFFICES ASSUME NEW s \in Sub(0) PROVE s = {}
          OBVIOUS
        <5>2. Cardinality(s) \in Nat /\ Cardinality(s) <= 0 /\ (Cardinality(s) = 0 => s = {})
          BY <1>1, Smaller
        <5>3. QED
          BY <5>2
      <4>2. QED
        BY <4>1 DEF SumBody
    <3>2. QED
      <4> HIDE DEF Sums
      <4> QED
        BY <3>1
  <2>2. PICK m \in M : \A k \in M : m >= k
    <3>1. up \in SUBSET (1 .. n + 1) /\ up # {} /\ n + 1 \in Nat
      <4> HIDE DEF Sums
      <4> QED
        BY <2>1
    <3>2. PICK u \in up : \A k \in up : u >= k
      <4> HIDE DEF up
      <4> QED
        BY <3>1, MaxOfNumbers
    <3>3. PICK m \in M : u = m + 1
      OBVIOUS
    <3>4. \A k \in M : m >= k
      <4>1. SUFFICES ASSUME NEW k \in M PROVE m >= k
        OBVIOUS
      <4>2. k \in Nat /\ m \in Nat /\ k + 1 \in up
        <5>1. M \in SUBSET Nat
          <6> HIDE DEF Sums
          <6> QED
            OBVIOUS
        <5> HIDE DEF M
        <5>2. QED
          BY <5>1
      <4>4. u >= k + 1
        BY <3>2, <4>2
      <4>3. QED
        BY <3>3, <4>2, <4>4
    <3>5. QED
      BY <3>4
  <2>3. PICK g : Sums(m, g)
    OBVIOUS
  <2>4. m \in Nat /\ m <= n
    OBVIOUS
  <2>5. m = n
    <3>1. SUFFICES ASSUME m # n PROVE FALSE
      OBVIOUS
    <3>2. PICK k \in Nat : k = m + 1 /\ k <= n /\ ~(m >= k)
      BY <2>4, <3>1
    <3> DEFINE h == [s \in Sub(k) |-> IF s \in Sub(m) THEN g[s] ELSE SumBody(f, g, s)]
    <3>3. ASSUME NEW s \in Sub(k), s # {} PROVE Rest(s) \in Sub(m) /\ Rest(s) \in Sub(k)
      <4>1. /\ Rest(s) \in SUBSET D /\ Cardinality(Rest(s)) \in Nat
            /\ Cardinality(s) = Cardinality(Rest(s)) + 1 /\ Cardinality(s) <= k
        BY <1>1, <3>3, Smaller
      <4>2. Cardinality(Rest(s)) <= m /\ Cardinality(Rest(s)) <= k
        BY <2>4, <3>2, <4>1
      <4>3. QED
        BY <4>1, <4>2
    <3>4. ASSUME NEW s \in Sub(k) PROVE h[s] = SumBody(f, g, s) /\ h[s] \in Nat
      <4>1. s # {} => g[Rest(s)] \in Nat
        BY <2>3, <3>3
      <4>2. SumBody(f, g, s) \in Nat
        BY <1>4, <4>1
      <4>3. h[s] = SumBody(f, g, s)
        BY <2>3
      <4>4. QED
        BY <4>2, <4>3
    <3>5. ASSUME NEW s \in Sub(k) PROVE SumBody(f, h, s) = SumBody(f, g, s)
      <4>1. s # {} => h[Rest(s)] = g[Rest(s)]
        BY <3>3
      <4>2. QED
        <5> HIDE DEF h
        <5> QED
          BY <1>3, <4>1
    <3>6. h = [s \in Sub(k) |-> h[s]]
      OBVIOUS
    <3>7. Sums(k, h)
      <4> HIDE DEF h
      <4>1. h \in [Sub(k) -> Nat]
        <5> HIDE DEF Sub
        <5> QED
          BY <3>4, <3>6
      <4>2. QED
        BY <3>4, <3>5, <4>1
    <3>8. k \in M
      <4> HIDE DEF Sums
      <4>1. k \in 0 .. n
        BY <3>2
      <4>2. QED
        BY <3>7, <4>1
    <3>9. QED
      BY <2>2, <3>2, <3>8
  <2>6. QED
    BY <2>3, <2>5
<1>7. Sub(n) = SUBSET D
  BY <1>1, <1>2, Smaller
<1>8. PICK g : Sums(n, g)
  BY <1>6
<1>9. sum = [s \in SUBSET D |-> SumBody(f, sum, s)]
  <2>1. g = [s \in SUBSET D |-> SumBody(f, g, s)]
    BY <1>7, <1>8
  <2>2. QED
    BY <2>1
<1> HIDE DEF sum
<1>10. \A s \in SUBSET D : sum[s] \in Nat
  <2> DEFINE Bad == {s \in SUBSET D : sum[s] \notin Nat}
             sizes == {Cardinality(s) : s \in Bad}
  <2>1. SUFFICES ASSUME Bad # {} PROVE FALSE
    OBVIOUS
  <2>2. sizes \in SUBSET Nat /\ sizes # {}
    <3>1. \A s \in SUBSET D : Cardinality(s) \in Nat
      BY <1>1, Smaller
    <3>2. QED
      BY <2>1, <3>1
  <2>3. PICK size \in sizes : \A k \in sizes : size <= k
    <3> HIDE DEF sizes
    <3> QED
      BY <2>2, MinOfNumbers
  <2>4. PICK s \in Bad : size = Cardinality(s)
    OBVIOUS
  <2>5. s # {} => sum[Rest(s)] \in Nat
    <3>1. SUFFICES ASSUME s # {}, Rest(s) \in Bad PROVE FALSE
      <4>1. s # {} => Rest(s) \in SUBSET D
        BY <1>1, Smaller
      <4>2. QED
        BY <4>1
    <3>2. /\ Cardinality(Rest(s)) \in Nat /\ Cardinality(s) = Cardinality(Rest(s)) + 1
      BY <1>1, <3>1, Smaller
    <3>3. size <= Cardinality(Rest(s))
      BY <2>3, <3>1
    <3>4. QED
      BY <2>4, <3>2, <3>3
  <2>6. SumBody(f, sum, s) \in Nat
    BY <1>4, <2>5
  <2>7. QED
    BY <1>9, <2>6
<1>11. SumFunction(f) = sum[D]
  BY <1>1, SumIs DEF sum
<1>12. PICK g1 : g1 = sum
  OBVIOUS
<1>13. SumsBy(f, g1)
  <2>1. \A s \in SUBSET D : sum[s] = SumBody(f, sum, s)
    BY <1>9
  <2>2. QED
    BY <1>1, <1>10, <1>12, <2>1 DEF SumsBy
<1>14. QED
  BY <1>1, <1>11, <1>12, <1>13

(* A sum of numbers is a number. *)
LEMMA SumIsNumber ==
  ASSUME NEW f, IsFiniteSet(DOMAIN f), \A x \in DOMAIN f : f[x] \in Nat
  PROVE  SumFunction(f) \in Nat
<1>1. PICK g : SumsBy(f, g) /\ SumFunction(f) = g[DOMAIN f]
  BY SumRecurs
<1>2. QED
  BY <1>1 DEF SumsBy

(* The characters of a template are those that may be between two numbers. *)
LEMMA TemplateChars ==
  ASSUME NEW s, IsSequence(s)
  PROVE  \A n \in DOMAIN TemplateOf(s).chars : TemplateOf(s).chars[n] \in transition_chars
<1> DEFINE stop == Min({i \in DOMAIN s : s[i] \notin DigitChars \cup transition_chars} \cup {Len(s) + 1})
           first(i) == i < stop /\ s[i] \in DigitChars /\ (i = 1 \/ s[i - 1] \notin DigitChars)
           last(i) == Min({j \in i .. stop - 1 : j = stop - 1 \/ s[j + 1] \notin DigitChars})
           fits(i) == first(i) => Value(s, i, last(i)) <= UintMax
           S == {i \in DOMAIN s : first(i) /\ \A j \in 1 .. i : fits(j)}
           order == InOrder(S)
           numbers == [n \in DOMAIN order |-> Value(s, order[n], last(order[n]))]
           chars == [n \in 1 .. Len(order) - 1 |-> s[last(order[n]) + 1]]
<1>1. TemplateOf(s) = [numbers |-> numbers, chars |-> chars]
  BY DEF TemplateOf
<1>2. PICK N \in Nat : N = Len(s) /\ DOMAIN s = 1 .. N
  BY Sequence
<1>3. PICK T \in 1 .. N + 1 : T = stop /\ \A i \in 1 .. T - 1 : s[i] \in DigitChars \cup transition_chars
  <2> DEFINE A == {i \in DOMAIN s : s[i] \notin DigitChars \cup transition_chars} \cup {Len(s) + 1}
  <2>1. A \in SUBSET Nat /\ A # {} /\ N + 1 \in A /\ A \in SUBSET (1 .. N + 1)
    BY <1>2
  <2>2. PICK T : T = Min(A) /\ T \in A /\ \A y \in A : T <= y
    <3> HIDE DEF A
    <3> QED
      BY <2>1, MinOfNumbers
  <2>3. T \in 1 .. N + 1
    BY <2>1, <2>2
  <2>4. ASSUME NEW i \in 1 .. T - 1 PROVE s[i] \in DigitChars \cup transition_chars
    <3>1. i \in 1 .. N /\ ~(T <= i)
      BY <2>3
    <3>2. i \notin A
      BY <2>2, <3>1
    <3>3. QED
      BY <1>2, <3>1, <3>2
  <2>5. QED
    BY <2>2, <2>3, <2>4
<1> DEFINE B(i) == {j \in i .. T - 1 : j = T - 1 \/ s[j + 1] \notin DigitChars}
<1>4. \A i \in S : i \in 1 .. N /\ i < T /\ s[i] \in DigitChars /\ (i = 1 \/ s[i - 1] \notin DigitChars)
  BY <1>2, <1>3
<1>5. \A i : last(i) = Min(B(i))
  BY <1>3
<1>6. S \in SUBSET Nat /\ IsFiniteSet(S)
  <2> HIDE DEF S
  <2>1. S \in SUBSET (1 .. N)
    BY <1>4
  <2>2. IsFiniteSet(1 .. N) /\ (1 .. N) \in SUBSET Nat
    <3>1. N \in Nat /\ N \in Int /\ 1 \in Int
      BY <1>2
    <3>2. IsFiniteSet(1 .. N)
      BY <3>1, FS_Interval
    <3>3. QED
      BY <3>1, <3>2
  <2>3. IsFiniteSet(S)
    BY <2>1, <2>2, FS_Subset
  <2>4. QED
    BY <2>1, <2>2, <2>3
<1> HIDE DEF first, last, fits, S, stop
<1>7. \E M \in Nat : \E g \in [1 .. M -> Nat] :
        /\ g = order /\ \A n \in 1 .. M : g[n] \in S
        /\ \A i, n \in 1 .. M : i < n => g[i] < g[n]
  BY <1>6, InOrderIs
<1>8. PICK M \in Nat : \E g \in [1 .. M -> Nat] :
        /\ g = order /\ \A n \in 1 .. M : g[n] \in S
        /\ \A i, n \in 1 .. M : i < n => g[i] < g[n]
  BY <1>7
<1>9. PICK g \in [1 .. M -> Nat] :
        /\ g = order /\ \A n \in 1 .. M : g[n] \in S
        /\ \A i, n \in 1 .. M : i < n => g[i] < g[n]
  BY <1>8
<1>10. Len(order) = M
  <2>1. g \in Seq(Nat) /\ Len(g) = M
    BY LengthIs
  <2>2. QED
    BY <1>9, <2>1
<1>11. ASSUME NEW n \in 1 .. M - 1 PROVE s[last(g[n]) + 1] \in transition_chars
  <2>1. n \in 1 .. M /\ n + 1 \in 1 .. M /\ n < n + 1
    OBVIOUS
  <2>2. PICK i : i = g[n]
    OBVIOUS
  <2>3. PICK k : k = g[n + 1]
    OBVIOUS
  <2>4. i \in S /\ k \in S /\ i < k
    BY <1>9, <2>1, <2>2, <2>3
  <2>5. /\ i \in 1 .. N /\ k \in 1 .. N /\ k < T /\ s[i] \in DigitChars
        /\ (k = 1 \/ s[k - 1] \notin DigitChars)
    BY <1>4, <2>4
  <2>6. i # k - 1 /\ k # 1
    BY <2>4, <2>5
  <2>7. k - 2 \in i .. T - 1 /\ (k - 2) + 1 = k - 1 /\ k - 2 \in Nat
    BY <1>2, <1>3, <2>4, <2>5, <2>6
  <2>8. k - 2 \in B(i)
    BY <2>5, <2>6, <2>7
  <2>9. B(i) \in SUBSET Nat /\ B(i) # {}
    <3>1. i \in Nat /\ T \in Nat /\ i .. T - 1 \in SUBSET Nat
      BY <1>2, <1>3, <2>5
    <3>2. QED
      BY <2>8, <3>1
  <2>10. PICK j : j = Min(B(i)) /\ j \in B(i) /\ j <= k - 2
    <3> HIDE DEF B
    <3> QED
      BY <2>8, <2>9, MinOfNumbers
  <2>11. j \in i .. T - 1 /\ j # T - 1
    BY <1>3, <2>5, <2>7, <2>10
  <2>12. s[j + 1] \notin DigitChars
    BY <2>10, <2>11
  <2>13. j + 1 \in 1 .. T - 1
    BY <1>3, <2>5, <2>11
  <2>14. s[j + 1] \in transition_chars
    BY <1>3, <2>12, <2>13
  <2>15. last(g[n]) = j
    BY <1>5, <2>2, <2>10
  <2>16. QED
    BY <2>14, <2>15
<1>12. chars = [n \in 1 .. M - 1 |-> s[last(g[n]) + 1]]
  BY <1>9, <1>10
<1>13. QED
  <2> HIDE DEF numbers, chars
  <2>1. TemplateOf(s).chars = chars
    BY <1>1
  <2>2. QED
    BY <1>11, <1>12, <2>1

\* What the characters of a template are.
CharsOf(t) == \A i \in DOMAIN t.chars : t.chars[i] \in transition_chars

(* The characters that are tried have their places in the map. *)
LEMMA PositionIs ==
  ASSUME NEW t, WholeTemplate(t), t.numbers # << >>, CharsOf(t), NEW c \in ToSet(DownChars(t))
  PROVE  Position(c) \in Nat
<1> DEFINE S == {i \in DOMAIN t.chars : t.chars[i] # "-" /\ \A j \in 1 .. i - 1 : t.chars[j] # t.chars[i]}
           order == InOrder(S)
<1>1. DownChars(t) = IF order = << >> THEN <<"none">> ELSE [n \in DOMAIN order |-> t.chars[order[n]]]
  BY DEF DownChars
<1>2. c = "none" \/ c \in transition_chars \ {"-"}
  <2>1. CASE order = << >>
    BY <1>1, <2>1 DEF ToSet
  <2>2. CASE order # << >>
    <3>1. S \in SUBSET Nat /\ IsFiniteSet(S)
      <4>1. PICK L \in Nat : DOMAIN t.chars = 1 .. L - 1
        BY DEF WholeTemplate
      <4>2. S \in SUBSET (1 .. L - 1) /\ IsFiniteSet(1 .. L - 1)
        BY <4>1, FS_Interval
      <4>3. QED
        BY <4>2, FS_Subset
    <3>2. \A n \in DOMAIN order : order[n] \in S
      <4> HIDE DEF S
      <4> QED
        BY <3>1, InOrderCorrect
    <3>3. PICK n \in DOMAIN order : c = t.chars[order[n]]
      BY <1>1, <2>2 DEF ToSet
    <3>4. order[n] \in S
      BY <3>2
    <3>5. QED
      BY <3>3, <3>4 DEF CharsOf
  <2>3. QED
    BY <2>1, <2>2
<1>3. CASE c = "none"
  BY <1>3 DEF Position
<1>4. CASE c \in transition_chars \ {"-"} /\ c # "none"
  <2>1. \E i \in DOMAIN CharOrder : CharOrder[i] = c
    <3>1. c = "," \/ c = "." \/ c = ":" \/ c = ";"
      BY <1>4 DEF transition_chars
    <3>2. /\ DOMAIN CharOrder = 1 .. 4
          /\ CharOrder[1] = "," /\ CharOrder[2] = "." /\ CharOrder[3] = ":" /\ CharOrder[4] = ";"
      BY DEF CharOrder
    <3>3. 1 \in 1 .. 4 /\ 2 \in 1 .. 4 /\ 3 \in 1 .. 4 /\ 4 \in 1 .. 4
      OBVIOUS
    <3>4. QED
      BY <3>1, <3>2, <3>3
  <2>2. DOMAIN CharOrder \in SUBSET Nat
    BY DEF CharOrder
  <2>3. QED
    BY <1>4, <2>1, <2>2 DEF Position
<1>5. QED
  BY <1>2, <1>3, <1>4

(* There is a smallest reading. *)
LEMMA SmallestIs ==
  ASSUME NEW f, DOMAIN f # {}, \A c \in DOMAIN f : Total(f[c]) \in Nat /\ Position(c) \in Nat
  PROVE  Smallest(f) \in DOMAIN f /\ \A d \in DOMAIN f : Total(f[Smallest(f)]) <= Total(f[d])
<1> DEFINE sizes == {Total(f[c]) : c \in DOMAIN f}
<1>1. sizes \in SUBSET Nat /\ sizes # {}
  OBVIOUS
<1>2. PICK m \in sizes : \A k \in sizes : m <= k
  <2> HIDE DEF sizes
  <2> QED
    BY <1>1, MinOfNumbers
<1> DEFINE first == {c \in DOMAIN f : Total(f[c]) = m}
           keys == {Position(c) : c \in first}
<1>3. keys \in SUBSET Nat /\ keys # {}
  OBVIOUS
<1>4. PICK k \in keys : \A l \in keys : k <= l
  <2> HIDE DEF keys
  <2> QED
    BY <1>3, MinOfNumbers
<1>5. PICK c \in first : Position(c) = k
  OBVIOUS
<1>6. ASSUME NEW d \in DOMAIN f
      PROVE  Total(f[c]) < Total(f[d]) \/ (Total(f[c]) = Total(f[d]) /\ Position(c) <= Position(d))
  <2>1. m <= Total(f[d]) /\ Total(f[c]) = m /\ m \in Nat /\ Total(f[d]) \in Nat
    BY <1>1, <1>2, <1>5
  <2>2. Total(f[d]) = m => Position(c) <= Position(d)
    BY <1>4, <1>5
  <2>3. QED
    BY <2>1, <2>2
<1>7. c \in DOMAIN f
  OBVIOUS
<1>8. PICK x : x = Smallest(f)
  OBVIOUS
<1>9. /\ x \in DOMAIN f
      /\ \A d \in DOMAIN f :
           Total(f[x]) < Total(f[d]) \/ (Total(f[x]) = Total(f[d]) /\ Position(x) <= Position(d))
  <2> HIDE DEF first, keys, sizes
  <2> QED
    BY <1>6, <1>7, <1>8 DEF Smallest
<1>10. ASSUME NEW d \in DOMAIN f PROVE Total(f[x]) <= Total(f[d])
  BY <1>9
<1>11. QED
  BY <1>8, <1>9, <1>10

(* Every range has a size. *)
LEMMA SizeIsNumber == \A r : Size(r) \in Nat
<1> SUFFICES ASSUME NEW r PROVE Size(r) \in Nat
  OBVIOUS
<1>1. total_verse_count + 1 \in Nat /\ IsFiniteSet(Places)
  BY BibleAssumption
<1>2. PICK S : S = {p \in Places : ~Before(p, Place(r.from)) /\ ~Before(Place(r.to), p)}
  OBVIOUS
<1>3. Cardinality(S) \in Nat
  BY <1>1, <1>2, FS_Subset, FS_CardinalityType
<1>4. QED
  BY <1>1, <1>2, <1>3 DEF Size

(* What is counted of a reading. *)
LEMMA TotalIs ==
  ASSUME NEW t, WholeTemplate(t), t.numbers # << >>, NEW b, NEW c
  PROVE  /\ Total(Meaning(t, b, c)) \in Nat
         /\ (\A i \in DOMAIN Meaning(t, b, c) : ~IsLast(Meaning(t, b, c)[i].to)) =>
              Count(Meaning(t, b, c)) = Total(Meaning(t, b, c))
<1>1. PICK m : m = Meaning(t, b, c)
  OBVIOUS
<1>2. PICK M \in Nat : DOMAIN m = 1 .. M
  <2>1. PICK k \in Nat : k = Cardinality(Cuts(t, c))
    BY CutsOf
  <2>2. DOMAIN m = 1 .. k + 1 /\ k + 1 \in Nat
    BY <1>1, <2>1 DEF Meaning, Parts, Cuts
  <2>3. QED
    BY <2>2
<1>3. IsFiniteSet(DOMAIN m)
  BY <1>2, FS_Interval
<1>4. PICK f : f = [i \in DOMAIN m |-> Size(m[i])]
  OBVIOUS
<1>5. SumFunction(f) \in Nat
  <2>1. DOMAIN f = DOMAIN m /\ \A i \in DOMAIN f : f[i] \in Nat
    BY <1>4, SizeIsNumber
  <2>2. QED
    BY <1>3, <2>1, SumIsNumber
<1>6. Total(m) = SumFunction(f)
  BY <1>4 DEF Total
<1>7. ASSUME \A i \in DOMAIN m : ~IsLast(m[i].to) PROVE Count(m) = Total(m)
  <2>1. \A i \in DOMAIN m : Size(m[i]) = Cardinality(VersesOf(m[i]))
    BY <1>7 DEF Size, VersesOf
  <2>2. f = [i \in DOMAIN m |-> Cardinality(VersesOf(m[i]))]
    BY <1>4, <2>1
  <2>3. QED
    BY <1>6, <2>2 DEF Count
<1>8. QED
  BY <1>1, <1>5, <1>6, <1>7

\* The characters of the template, and what has been chosen.
ChosenInv ==
  /\ Matched => CharsOf(template)
  /\ state = "done" /\ Matched =>
       ranges = IF DOMAIN readings = {} THEN << >> ELSE readings[Smallest(readings)]

(* What has been chosen stays so. *)
LEMMA ChosenInductive == Spec => []ChosenInv
<1>1. Init => ChosenInv
  BY DEF Init, ChosenInv, Matched
<1>2. FoundInv /\ ReadInv /\ ChosenInv /\ [Next]_vars => ChosenInv'
  <2> SUFFICES ASSUME FoundInv, ReadInv, ChosenInv, [Next]_vars PROVE ChosenInv'
    OBVIOUS
  <2>1. CASE NoBook
    BY <2>1 DEF NoBook, ReadInv, ChosenInv, Matched
  <2>2. CASE FindBook
    <3>1. PICK f \in find_book(text, cursor) :
            LET t == create_passage_template(text, f.numbers)
                verse == Reference(f.book, 1, 1)
            IN  /\ found' = {f} /\ template' = t
                /\ IF t.numbers = << >>
                     THEN /\ state' = "done" /\ ranges' = <<ReferenceRange(verse, verse)>>
                          /\ UNCHANGED <<trying, current_chapter>>
                     ELSE /\ state' = "match" /\ trying' = DownChars(t)
                          /\ current_chapter' = t.numbers[1]
                          /\ UNCHANGED ranges
      BY <2>2 DEF FindBook
    <3>2. CharsOf(create_passage_template(text, f.numbers))
      BY NumbersInside, PassageIsSequence, TemplateChars DEF create_passage_template, FoundInv, CharsOf
    <3>3. state' = "done" => ~Matched'
      BY <3>1 DEF Matched
    <3>4. QED
      BY <3>1, <3>2, <3>3 DEF ChosenInv
  <2>3. CASE Choose
    <3>1. Matched
      BY <2>3 DEF Choose, ReadInv
    <3>2. QED
      BY <2>3, <3>1 DEF Choose, ChosenInv, Matched
  <2>4. CASE state = "match" /\ UNCHANGED <<state, found, template>>
    BY <2>4 DEF ChosenInv, Matched
  <2>5. CASE UNCHANGED vars
    BY <2>5 DEF vars, ChosenInv, Matched
  <2>6. QED
    BY <2>1, <2>2, <2>3, <2>4, <2>5 DEF Next, VerseToVerse, VerseToVerseOfChapter, VerseToOtherChapter,
       ChapterToVerse, Verse, VersesOfCurrent, Chapters, VerseOfCurrent, Chapter, OtherShape, Matching
<1>3. QED
  BY <1>1, <1>2, FoundInductive, ReadInductive, PTL DEF Spec

(* The result is a whole reading of the template, and of the readings there  *)
(* are the one with fewest verses, for every table of verses and every text. *)
THEOREM SmallestIsRead == Spec => []SmallestReading
<1>1. ReadInv /\ ChosenInv => SmallestReading
  <2> SUFFICES ASSUME ReadInv, ChosenInv, state = "done", Matched PROVE SmallestReading
    BY DEF SmallestReading
  <2> DEFINE good == {c \in ToSet(DownChars(template)) : Readable(template, Book, c)}
             meaning(c) == Meaning(template, Book, c)
             counted(c) == \A i \in DOMAIN meaning(c) : ~IsLast(meaning(c)[i].to)
  <2>1. /\ WholeTemplate(template) /\ template.numbers # << >> /\ CharsOf(template) /\ trying = << >>
        /\ Reading(template, Book, trying, section, current_level, current_chapter, readings)
        /\ ranges = IF DOMAIN readings = {} THEN << >> ELSE readings[Smallest(readings)]
    BY DEF ReadInv, ChosenInv, Matched
  <2>2. \A c \in ToSet(DownChars(template)) : Done(template, Book, c, readings)
    <3>1. ToSet(trying) = {}
      BY <2>1 DEF ToSet
    <3>2. QED
      BY <2>1, <3>1 DEF Reading
  <2>3. DOMAIN readings = good
    <3>1. DOMAIN readings \subseteq ToSet(DownChars(template))
      BY <2>1 DEF Reading
    <3>2. QED
      BY <2>2, <3>1 DEF Done
  <2>4. \A c \in DOMAIN readings : readings[c] = meaning(c)
    BY <2>2, <2>3 DEF Done
  <2>5. CASE good = {}
    BY <2>1, <2>3, <2>5 DEF SmallestReading
  <2>6. CASE good # {}
    <3>1. \A c \in DOMAIN readings : Total(readings[c]) \in Nat /\ Position(c) \in Nat
      <4>1. SUFFICES ASSUME NEW c \in DOMAIN readings PROVE Total(readings[c]) \in Nat /\ Position(c) \in Nat
        OBVIOUS
      <4>2. Total(meaning(c)) \in Nat
        BY <2>1, TotalIs
      <4>3. c \in ToSet(DownChars(template))
        BY <2>3
      <4>4. Position(c) \in Nat
        BY <2>1, <4>3, PositionIs
      <4>5. QED
        BY <2>4, <4>2, <4>4
    <3>2. PICK c : c = Smallest(readings)
      OBVIOUS
    <3>3. c \in DOMAIN readings /\ \A d \in DOMAIN readings : Total(readings[c]) <= Total(readings[d])
      BY <2>3, <2>6, <3>1, <3>2, SmallestIs
    <3>4. c \in good /\ ranges = meaning(c)
      BY <2>1, <2>3, <2>4, <2>6, <3>2, <3>3
    <3>5. ASSUME \A d \in good : counted(d), NEW d \in good PROVE Count(meaning(c)) <= Count(meaning(d))
      <4>1. Count(meaning(c)) = Total(meaning(c)) /\ Count(meaning(d)) = Total(meaning(d))
        BY <2>1, <3>4, <3>5, TotalIs
      <4>2. Total(meaning(c)) <= Total(meaning(d))
        BY <2>3, <2>4, <3>3
      <4>3. QED
        BY <4>1, <4>2
    <3>6. QED
      BY <2>6, <3>4, <3>5 DEF SmallestReading
  <2>7. QED
    BY <2>5, <2>6
<1>2. QED
  BY <1>1, ReadInductive, ChosenInductive, PTL

-----------------------------------------------------------------------------
(* Numbers that are written                                                  *)
(* What holds at the begin of a range of numbers and, if of one of them, of the next one, *)
(* holds of all.                                                                          *)
LEMMA UpTo ==
  ASSUME NEW a \in Nat, NEW b \in Nat, NEW T, a \in T, \A i \in a .. b - 1 : i \in T => i + 1 \in T
  PROVE  \A i \in a .. b : i \in T
<1> DEFINE D == {i \in a .. b : i \notin T}
<1>1. SUFFICES ASSUME D # {} PROVE FALSE
  OBVIOUS
<1>2. PICK i \in D : \A j \in D : i <= j
  <2>1. D \in SUBSET Nat
    OBVIOUS
  <2>2. QED
    BY <1>1, <2>1, MinOfNumbers
<1>3. i \in Nat /\ i # a /\ a <= i /\ i <= b
  OBVIOUS
<1>4. i - 1 \in a .. b - 1 /\ i - 1 \in a .. b /\ ~(i <= i - 1) /\ i - 1 + 1 = i
  BY <1>3
<1>5. i - 1 \in T
  BY <1>2, <1>4
<1>6. QED
  BY <1>4, <1>5

\* The values of S that n steps lead to, one after the other.
IsRun(n, S, first, step, g) ==
  g \in [0 .. n -> S] /\ g[0] = first /\ \A i \in 1 .. n : g[i] = step[i][g[i - 1]]

(* If every step leads from a value to a value, the steps can be taken. *)
LEMMA StepsExist ==
  ASSUME NEW n \in Nat, NEW S, NEW first \in S, NEW step, \A i \in 1 .. n : step[i] \in [S -> S]
  PROVE  \E g : IsRun(n, S, first, step, g)
<1> DEFINE Run(m, g) == g \in [0 .. m -> S] /\ g[0] = first /\ \A i \in 1 .. m : g[i] = step[i][g[i - 1]]
           T == {m \in 0 .. n : \E g : Run(m, g)}
<1>1. 0 \in T
  <2>1. Run(0, [i \in 0 .. 0 |-> first])
    OBVIOUS
  <2> HIDE DEF Run
  <2> QED
    BY <2>1
<1>2. ASSUME NEW m \in 0 .. n - 1, m \in T PROVE m + 1 \in T
  <2>1. PICK g : Run(m, g)
    BY <1>2
  <2> DEFINE h == [i \in 0 .. m + 1 |-> IF i = m + 1 THEN step[m + 1][g[m]] ELSE g[i]]
  <2>2. /\ g \in [0 .. m -> S] /\ m \in 0 .. m /\ m + 1 \in 1 .. n /\ m + 1 \in 0 .. n /\ m + 1 - 1 = m
        /\ \A i \in 0 .. m : i \in 0 .. m + 1 /\ i # m + 1
        /\ \A i \in 0 .. m + 1 : i \in 0 .. m \/ i = m + 1
        /\ \A i \in 1 .. m + 1 : i - 1 \in 0 .. m /\ (i \in 1 .. m \/ i = m + 1)
    BY <2>1
  <2>3. step[m + 1] \in [S -> S] /\ g[m] \in S
    BY <2>2
  <2>4. step[m + 1][g[m]] \in S
    BY <2>3
  <2>5. h \in [0 .. m + 1 -> S] /\ h[m + 1] = step[m + 1][g[m]] /\ \A i \in 0 .. m : h[i] = g[i]
    BY <2>2, <2>4
  <2>6. h[0] = first
    BY <2>1, <2>5
  <2>7. ASSUME NEW i \in 1 .. m + 1 PROVE h[i] = step[i][h[i - 1]]
    <3>1. CASE i = m + 1
      <4>1. i - 1 = m /\ h[i - 1] = g[m]
        BY <2>2, <2>5, <3>1
      <4>2. QED
        BY <2>5, <3>1, <4>1
    <3>2. CASE i \in 1 .. m
      BY <2>1, <2>2, <2>5, <3>2
    <3>3. QED
      BY <2>2, <3>1, <3>2
  <2>8. Run(m + 1, h)
    <3> HIDE DEF h
    <3> QED
      BY <2>5, <2>6, <2>7
  <2>9. QED
    <3> HIDE DEF Run, h
    <3> QED
      BY <2>2, <2>8
<1>3. \A m \in 0 .. n : m \in T
  <2> HIDE DEF T
  <2> QED
    BY <1>1, <1>2, UpTo
<1>4. n \in T
  <2> HIDE DEF T
  <2> QED
    BY <1>3
<1>5. QED
  BY <1>4 DEF IsRun

\* What d + 1 digits of s are worth, one after the other.
Worth(s, i, d, v) ==
  /\ v \in [0 .. d -> Nat] /\ v[0] = Digit[s[i]]
  /\ \A k \in 1 .. d : v[k] = Digit[s[i + k]] + 10 * v[k - 1]
DigitsOf(s, i, d) == \A k \in 0 .. d : s[i + k] \in DigitChars

(* The value of digits is what they are worth one after the other. *)
LEMMA ValueIs ==
  ASSUME NEW s, NEW i \in Nat, NEW d \in Nat, DigitsOf(s, i, d)
  PROVE  \E v : Worth(s, i, d, v) /\ Value(s, i, i + d) = v[d]
<1> DEFINE step == [k \in 1 .. d |-> [x \in Nat |-> Digit[s[i + k]] + 10 * x]]
           Body(g, k) == Digit[s[k]] + (IF k = i THEN 0 ELSE 10 * g[k - 1])
           value == CHOOSE g : g = [k \in i .. i + d |-> Body(g, k)]
<1>1. \A k \in 0 .. d : i + k \in i .. i + d /\ Digit[s[i + k]] \in Nat
  <2>1. \A c \in DigitChars : Digit[c] \in Nat
    <3>1. \A c \in DigitChars : Digit[c] \in 0 .. 9
      BY CharactersAssumption DEF CharactersFit
    <3>2. 0 .. 9 \subseteq Nat
      OBVIOUS
    <3>3. QED
      BY <3>1, <3>2
  <2>2. \A k \in 0 .. d : i + k \in i .. i + d
    OBVIOUS
  <2>3. QED
    BY <2>1, <2>2 DEF DigitsOf
<1>2. PICK v \in [0 .. d -> Nat] : v[0] = Digit[s[i]] /\ \A k \in 1 .. d : v[k] = step[k][v[k - 1]]
  <2>1. \A k \in 1 .. d : step[k] \in [Nat -> Nat]
    <3>1. \A k \in 1 .. d : k \in 0 .. d
      OBVIOUS
    <3>2. QED
      BY <1>1, <3>1
  <2>2. Digit[s[i]] \in Nat
    BY <1>1
  <2>3. PICK v : IsRun(d, Nat, Digit[s[i]], step, v)
    <3> HIDE DEF step
    <3> QED
      BY <2>1, <2>2, StepsExist
  <2>4. QED
    <3> HIDE DEF step
    <3> QED
      BY <2>3 DEF IsRun
<1>3. ASSUME NEW k \in 1 .. d PROVE v[k] = Digit[s[i + k]] + 10 * v[k - 1]
  <2>1. k - 1 \in 0 .. d
    OBVIOUS
  <2>2. v[k - 1] \in Nat
    BY <2>1
  <2>3. QED
    BY <1>2, <2>2
<1> DEFINE h == [k \in i .. i + d |-> v[k - i]]
<1>4. ASSUME NEW k \in i .. i + d PROVE h[k] = Body(h, k)
  <2>1. CASE k = i
    <3>1. 0 \in 0 .. d /\ i + 0 = i /\ k - i = 0
      BY <2>1
    <3>2. PICK x \in Nat : x = Digit[s[i]]
      BY <1>1, <3>1
    <3>3. h[k] = x /\ Body(h, k) = x + 0
      BY <1>2, <2>1, <3>1, <3>2
    <3>4. QED
      <4> HIDE DEF h, Body
      <4> QED
        BY <3>3
  <2>2. CASE k # i
    <3>1. k - i \in 1 .. d /\ i + (k - i) = k /\ k - 1 \in i .. i + d /\ (k - 1) - i = (k - i) - 1
      BY <2>2
    <3>2. v[k - i] = Digit[s[k]] + 10 * v[(k - i) - 1]
      BY <1>3, <3>1
    <3>3. h[k] = v[k - i] /\ h[k - 1] = v[(k - i) - 1]
      BY <3>1
    <3>4. QED
      <4> HIDE DEF h
      <4> QED
        BY <2>2, <3>2, <3>3
  <2>3. QED
    BY <2>1, <2>2
<1>5. h = [k \in i .. i + d |-> Body(h, k)]
  BY <1>4
<1>6. value = [k \in i .. i + d |-> Body(value, k)]
  <2> HIDE DEF h, Body
  <2> QED
    BY <1>5
<1>7. Value(s, i, i + d) = value[i + d]
  BY DEF Value
<1>8. PICK g : g = value /\ \A k \in i .. i + d : g[k] = Body(g, k)
  <2> HIDE DEF value, Body
  <2> QED
    BY <1>6
<1> HIDE DEF value
<1> DEFINE U == {k \in 0 .. d : g[i + k] = v[k]}
<1>9. 0 \in U
  <2>1. i \in i .. i + d /\ 0 \in 0 .. d /\ i + 0 = i
    OBVIOUS
  <2>2. PICK x \in Nat : x = Digit[s[i]]
    BY <1>1, <2>1
  <2>3. g[i] = x + 0
    BY <1>8, <2>1, <2>2
  <2>4. QED
    BY <1>2, <2>1, <2>2, <2>3
<1>10. ASSUME NEW k \in 0 .. d - 1, k \in U PROVE k + 1 \in U
  <2>1. k + 1 \in 1 .. d /\ k + 1 \in 0 .. d /\ k + 1 - 1 = k /\ i + (k + 1) \in i .. i + d
        /\ i + (k + 1) # i /\ i + (k + 1) - 1 = i + k
    OBVIOUS
  <2>2. g[i + (k + 1)] = Digit[s[i + (k + 1)]] + 10 * g[i + k]
    BY <1>8, <2>1
  <2>3. v[k + 1] = Digit[s[i + (k + 1)]] + 10 * v[k]
    BY <1>3, <2>1
  <2>4. QED
    BY <1>10, <2>1, <2>2, <2>3
<1>11. \A k \in 0 .. d : k \in U
  <2> HIDE DEF U
  <2> QED
    BY <1>9, <1>10, UpTo
<1>12. Value(s, i, i + d) = v[d]
  BY <1>7, <1>8, <1>11
<1>13. QED
  BY <1>2, <1>3, <1>12 DEF Worth

\* The d + 1 digits of s from i on are those of w from j on.
SameDigits(s, i, w, j, d) == \A k \in 0 .. d : s[i + k] = w[j + k] /\ w[j + k] \in DigitChars

(* The value of a number does not depend on where it is written. *)
LEMMA ValueMoved ==
  ASSUME NEW s, NEW w, NEW i \in Nat, NEW j \in Nat, NEW d \in Nat, SameDigits(s, i, w, j, d)
  PROVE  Value(s, i, i + d) = Value(w, j, j + d) /\ Value(w, j, j + d) \in Nat
<1>1. DigitsOf(s, i, d) /\ DigitsOf(w, j, d)
  BY DEF DigitsOf, SameDigits
<1>3. PICK v : Worth(s, i, d, v) /\ Value(s, i, i + d) = v[d]
  BY <1>1, ValueIs
<1>4. PICK u : Worth(w, j, d, u) /\ Value(w, j, j + d) = u[d]
  BY <1>1, ValueIs
<1> DEFINE U == {k \in 0 .. d : v[k] = u[k]}
<1>5. 0 \in U
  <2>1. 0 \in 0 .. d /\ i + 0 = i /\ j + 0 = j
    OBVIOUS
  <2>2. s[i] = w[j]
    BY <2>1 DEF SameDigits
  <2>3. QED
    BY <1>3, <1>4, <2>1, <2>2 DEF Worth
<1>6. ASSUME NEW k \in 0 .. d - 1, k \in U PROVE k + 1 \in U
  <2>1. k + 1 \in 1 .. d /\ k + 1 \in 0 .. d /\ k + 1 - 1 = k
    OBVIOUS
  <2>2. s[i + (k + 1)] = w[j + (k + 1)]
    BY <2>1 DEF SameDigits
  <2>3. v[k + 1] = Digit[s[i + (k + 1)]] + 10 * v[k] /\ u[k + 1] = Digit[w[j + (k + 1)]] + 10 * u[k]
    BY <1>3, <1>4, <2>1 DEF Worth
  <2>4. QED
    BY <1>6, <2>1, <2>2, <2>3
<1>7. \A k \in 0 .. d : k \in U
  <2> HIDE DEF U
  <2> QED
    BY <1>5, <1>6, UpTo
<1>8. QED
  BY <1>3, <1>4, <1>7 DEF Worth

-----------------------------------------------------------------------------
(* What is written with a character between the numbers                      *)
Signs == {",", ";", "-"}
Figures == DigitChars \cup Signs

\* The n-th of m numbers is written from p[n] to e[n], and a character after it.
Plan(s, m, p, e, numbers, chars) ==
  /\ s \in Seq(Figures) /\ m \in Nat \ {0} /\ p \in [1 .. m -> Nat] /\ e \in [1 .. m -> Nat]
  /\ numbers \in Seq(Nat) /\ Len(numbers) = m /\ chars \in Seq(Signs) /\ Len(chars) = m - 1
  /\ p[1] = 1 /\ e[m] = Len(s)
  /\ \A n \in 1 .. m :
       /\ p[n] <= e[n] /\ (\A i \in p[n] .. e[n] : s[i] \in DigitChars)
       /\ Value(s, p[n], e[n]) = numbers[n] /\ numbers[n] <= UintMax
  /\ \A n \in 1 .. m - 1 : p[n + 1] = e[n] + 2 /\ s[e[n] + 1] = chars[n]
Spells(s, numbers, chars) == \E m, p, e : Plan(s, m, p, e, numbers, chars)

\* s is a, c and then b.
Join(s, S, a, c, b) ==
  /\ s \in Seq(S) /\ Len(s) = Len(a) + 1 + Len(b) /\ s[Len(a) + 1] = c
  /\ \A i \in 1 .. Len(a) : s[i] = a[i]
  /\ \A i \in 1 .. Len(b) : s[Len(a) + 1 + i] = b[i]

\* s is a and then b.
Concat(s, S, a, b) ==
  /\ s \in Seq(S) /\ Len(s) = Len(a) + Len(b)
  /\ \A i \in 1 .. Len(a) : s[i] = a[i]
  /\ \A i \in 1 .. Len(b) : s[Len(a) + i] = b[i]

(* What is made of two sequences. *)
LEMMA ConcatIs ==
  ASSUME NEW S, NEW a \in Seq(S), NEW b \in Seq(S)
  PROVE  Concat(a \o b, S, a, b)
<1>1. a \o b \in Seq(S) /\ Len(a \o b) = Len(a) + Len(b) /\ Len(a) \in Nat /\ Len(b) \in Nat
  OBVIOUS
<1>2. ASSUME NEW i \in 1 .. Len(a) PROVE (a \o b)[i] = a[i]
  OBVIOUS
<1>3. ASSUME NEW i \in 1 .. Len(b) PROVE (a \o b)[Len(a) + i] = b[i]
  <2>1. Len(a) + i \in 1 .. Len(a) + Len(b) /\ ~(Len(a) + i <= Len(a)) /\ Len(a) + i - Len(a) = i
    BY <1>1
  <2>2. QED
    BY <1>1, <2>1
<1>4. QED
  BY <1>1, <1>2, <1>3 DEF Concat

(* What is joined with a character between. *)
LEMMA JoinIs ==
  ASSUME NEW S, NEW a \in Seq(S), NEW c \in S, NEW b \in Seq(S)
  PROVE  Join(a \o <<c>> \o b, S, a, c, b) /\ Join(a \o (<<c>> \o b), S, a, c, b)
<1>1. Join(a \o <<c>> \o b, S, a, c, b)
  <2>1. PICK x : x = a \o <<c>>
    OBVIOUS
  <2>2. x \in Seq(S) /\ Len(x) = Len(a) + 1 /\ x[Len(a) + 1] = c /\ \A i \in 1 .. Len(a) : x[i] = a[i]
    BY <2>1
  <2>3. PICK y : y = x \o b
    OBVIOUS
  <2>4. /\ y \in Seq(S) /\ Len(y) = Len(a) + 1 + Len(b) /\ (\A i \in 1 .. Len(a) + 1 : y[i] = x[i])
        /\ \A i \in 1 .. Len(b) : y[Len(a) + 1 + i] = b[i]
    <3>1. Concat(y, S, x, b)
      BY <2>2, <2>3, ConcatIs
    <3>2. QED
      BY <2>2, <3>1 DEF Concat
  <2>5. (\A i \in 1 .. Len(a) : i \in 1 .. Len(a) + 1) /\ Len(a) + 1 \in 1 .. Len(a) + 1
    OBVIOUS
  <2>6. QED
    BY <2>1, <2>2, <2>3, <2>4, <2>5 DEF Join
<1>2. Join(a \o (<<c>> \o b), S, a, c, b)
  <2>1. PICK x : x = <<c>> \o b
    OBVIOUS
  <2>2. x \in Seq(S) /\ Len(x) = 1 + Len(b) /\ x[1] = c /\ \A i \in 1 .. Len(b) : x[1 + i] = b[i]
    BY <2>1
  <2>3. PICK y : y = a \o x
    OBVIOUS
  <2>4. /\ y \in Seq(S) /\ Len(y) = Len(a) + (1 + Len(b)) /\ (\A i \in 1 .. Len(a) : y[i] = a[i])
        /\ \A i \in 1 .. 1 + Len(b) : y[Len(a) + i] = x[i]
    <3>1. Concat(y, S, a, x)
      BY <2>2, <2>3, ConcatIs
    <3>2. QED
      BY <2>2, <3>1 DEF Concat
  <2>5. (\A i \in 1 .. Len(b) : 1 + i \in 1 .. 1 + Len(b) /\ Len(a) + 1 + i = Len(a) + (1 + i))
        /\ 1 \in 1 .. 1 + Len(b) /\ Len(a) + (1 + Len(b)) = Len(a) + 1 + Len(b)
    OBVIOUS
  <2>6. QED
    BY <2>1, <2>2, <2>3, <2>4, <2>5 DEF Join
<1>3. QED
  BY <1>1, <1>2

(* A number that is written alone. *)
LEMMA OneNumber ==
  ASSUME NEW w \in Seq(DigitChars), w # << >>, NumberOf(w) <= UintMax
  PROVE  Spells(w, <<NumberOf(w)>>, << >>)
<1>1. PICK l \in Nat \ {0} : l = Len(w)
  OBVIOUS
<1>2. w \in Seq(Figures) /\ \A i \in 1 .. l : w[i] \in DigitChars
  BY <1>1 DEF Figures
<1>3. NumberOf(w) \in Nat
  <2>1. PICK d \in Nat : d = l - 1
    OBVIOUS
  <2>2. \A k \in 0 .. d : 1 + k \in 1 .. l
    BY <2>1
  <2>3. Value(w, 1, 1 + d) \in Nat
    BY <1>2, <2>2, ValueMoved DEF SameDigits
  <2>4. QED
    BY <1>1, <2>1, <2>3 DEF NumberOf
<1>4. PICK p : p = [n \in 1 .. 1 |-> 1]
  OBVIOUS
<1>5. PICK e : e = [n \in 1 .. 1 |-> l]
  OBVIOUS
<1>6. PICK numbers : numbers = <<NumberOf(w)>> /\ numbers \in Seq(Nat) /\ Len(numbers) = 1
                     /\ numbers[1] = Value(w, 1, l)
  <2>1. <<NumberOf(w)>> \in Seq(Nat) /\ Len(<<NumberOf(w)>>) = 1 /\ <<NumberOf(w)>>[1] = NumberOf(w)
    BY <1>3
  <2>2. QED
    BY <1>1, <2>1 DEF NumberOf
<1>7. PICK chars : chars = << >> /\ chars \in Seq(Signs) /\ Len(chars) = 0
  <2>1. << >> \in Seq(Signs) /\ Len(<< >>) = 0
    OBVIOUS
  <2>2. QED
    BY <2>1
<1>8. Plan(w, 1, p, e, numbers, chars)
  <2>1. p \in [1 .. 1 -> Nat] /\ e \in [1 .. 1 -> Nat] /\ p[1] = 1 /\ e[1] = l /\ 1 .. 1 - 1 = {}
    BY <1>4, <1>5
  <2>2. numbers[1] <= UintMax
    BY <1>1, <1>6 DEF NumberOf
  <2>3. \A n \in 1 .. 1 : n = 1
    OBVIOUS
  <2>4. QED
    BY <1>1, <1>2, <1>6, <1>7, <2>1, <2>2, <2>3 DEF Plan
<1>9. QED
  BY <1>6, <1>7, <1>8 DEF Spells

(* The numbers are written inside the text, and so are the characters after them. *)
LEMMA PlanInside ==
  ASSUME NEW s, NEW m, NEW p, NEW e, NEW numbers, NEW chars, Plan(s, m, p, e, numbers, chars)
  PROVE  /\ Len(s) \in Nat /\ \A n \in 1 .. m : 1 <= p[n] /\ p[n] <= e[n] /\ e[n] <= Len(s)
         /\ \A n \in 1 .. m - 1 : p[n] < p[n + 1] /\ e[n] + 1 <= Len(s)
<1>1. /\ m \in Nat \ {0} /\ p \in [1 .. m -> Nat] /\ e \in [1 .. m -> Nat] /\ p[1] = 1 /\ e[m] = Len(s)
      /\ \A n \in 1 .. m : p[n] <= e[n]
      /\ \A n \in 1 .. m - 1 : p[n + 1] = e[n] + 2
  BY DEF Plan
<1>2. PICK L \in Nat : L = Len(s)
  <2>1. m \in 1 .. m
    BY <1>1
  <2>2. QED
    BY <1>1, <2>1
<1>3. ASSUME NEW n \in 1 .. m - 1
      PROVE  /\ n \in 1 .. m /\ n + 1 \in 1 .. m /\ p[n] \in Nat /\ e[n] \in Nat
             /\ p[n + 1] = e[n] + 2 /\ p[n] < p[n + 1] /\ e[n] + 2 <= e[n + 1] /\ e[n + 1] \in Nat
  <2>1. n \in 1 .. m /\ n + 1 \in 1 .. m
    BY <1>1
  <2>2. p[n] \in Nat /\ e[n] \in Nat /\ p[n + 1] \in Nat /\ e[n + 1] \in Nat
        /\ p[n + 1] = e[n] + 2 /\ p[n] <= e[n] /\ p[n + 1] <= e[n + 1]
    BY <1>1, <2>1
  <2>3. QED
    BY <2>1, <2>2
<1> DEFINE T == {n \in 1 .. m : 1 <= p[n]}
<1>4. 1 \in T
  BY <1>1
<1>5. ASSUME NEW n \in 1 .. m - 1, n \in T PROVE n + 1 \in T
  BY <1>3, <1>5
<1>6. \A n \in 1 .. m : n \in T
  <2>1. m \in Nat /\ 1 \in Nat
    BY <1>1
  <2> HIDE DEF T
  <2>2. QED
    BY <2>1, <1>4, <1>5, UpTo
<1> DEFINE U == {k \in 0 .. m - 1 : e[m - k] <= L}
<1>7. 0 \in U
  BY <1>1, <1>2
<1>8. ASSUME NEW k \in 0 .. (m - 1) - 1, k \in U PROVE k + 1 \in U
  <2>1. PICK n \in 1 .. m - 1 : n = m - (k + 1)
    BY <1>1
  <2>2. n + 1 = m - k /\ k + 1 \in 0 .. m - 1
    BY <1>1, <2>1
  <2>3. e[n] + 2 <= L
    <3>1. e[n + 1] <= L /\ e[n + 1] \in Nat /\ e[n] \in Nat /\ e[n] + 2 <= e[n + 1]
      BY <1>3, <1>8, <2>2
    <3>2. QED
      BY <3>1
  <2>4. e[n] <= L
    BY <1>3, <2>3
  <2>5. QED
    BY <2>1, <2>2, <2>4
<1>9. \A k \in 0 .. m - 1 : k \in U
  <2>1. m - 1 \in Nat /\ 0 \in Nat
    BY <1>1
  <2> HIDE DEF U
  <2>2. QED
    BY <2>1, <1>7, <1>8, UpTo
<1>10. ASSUME NEW n \in 1 .. m PROVE 1 <= p[n] /\ p[n] <= e[n] /\ e[n] <= L
  <2>1. m - n \in 0 .. m - 1 /\ m - (m - n) = n
    BY <1>1
  <2>2. e[n] <= L
    BY <1>9, <2>1
  <2>3. QED
    BY <1>1, <1>6, <2>2
<1>11. ASSUME NEW n \in 1 .. m - 1 PROVE e[n] + 1 <= L
  <2>1. n + 1 \in 1 .. m /\ e[n] \in Nat /\ e[n + 1] \in Nat /\ e[n] + 2 <= e[n + 1]
    BY <1>3
  <2>2. e[n + 1] <= L
    BY <1>10, <2>1
  <2>3. QED
    BY <2>1, <2>2
<1>12. QED
  BY <1>2, <1>3, <1>10, <1>11

(* What is written with a character between is written. *)
LEMMA JoinSpells ==
  ASSUME NEW a, NEW na, NEW ca, Spells(a, na, ca), NEW b, NEW nb, NEW cb, Spells(b, nb, cb),
         NEW c \in Signs, NEW s, Join(s, Figures, a, c, b),
         NEW numbers, Concat(numbers, Nat, na, nb), NEW chars, Join(chars, Signs, ca, c, cb)
  PROVE  Spells(s, numbers, chars)
<1>1. PICK k, p, e : Plan(a, k, p, e, na, ca)
  BY DEF Spells
<1>2. PICK l, q, f : Plan(b, l, q, f, nb, cb)
  BY DEF Spells
<1>3. PICK L \in Nat, M \in Nat : L = Len(a) /\ M = Len(b)
  BY <1>1, <1>2, PlanInside
<1>4. /\ k \in Nat \ {0} /\ l \in Nat \ {0} /\ p \in [1 .. k -> Nat] /\ e \in [1 .. k -> Nat]
      /\ q \in [1 .. l -> Nat] /\ f \in [1 .. l -> Nat]
      /\ Len(na) = k /\ Len(nb) = l /\ Len(ca) = k - 1 /\ Len(cb) = l - 1
      /\ p[1] = 1 /\ q[1] = 1 /\ e[k] = L /\ f[l] = M
  BY <1>1, <1>2, <1>3 DEF Plan
<1>5. PICK m \in Nat \ {0} : m = k + l
  BY <1>4
<1>6. /\ s \in Seq(Figures) /\ Len(s) = L + 1 + M /\ s[L + 1] = c
      /\ (\A i \in 1 .. L : s[i] = a[i]) /\ \A i \in 1 .. M : s[L + 1 + i] = b[i]
  BY <1>3 DEF Join
<1>7. /\ numbers \in Seq(Nat) /\ Len(numbers) = m
      /\ (\A i \in 1 .. k : numbers[i] = na[i]) /\ \A i \in 1 .. l : numbers[k + i] = nb[i]
  BY <1>4, <1>5 DEF Concat
<1>8. /\ chars \in Seq(Signs) /\ Len(chars) = k - 1 + 1 + (l - 1) /\ chars[k - 1 + 1] = c
      /\ (\A i \in 1 .. k - 1 : chars[i] = ca[i]) /\ \A i \in 1 .. l - 1 : chars[k - 1 + 1 + i] = cb[i]
  BY <1>4 DEF Join
<1>9. Len(chars) = m - 1 /\ chars[k] = c /\ \A i \in 1 .. l - 1 : chars[k + i] = cb[i]
  <2>1. k - 1 + 1 = k /\ k - 1 + 1 + (l - 1) = m - 1
    BY <1>4, <1>5
  <2>2. QED
    BY <1>8, <2>1
<1> DEFINE P == [n \in 1 .. m |-> IF n <= k THEN p[n] ELSE L + 1 + q[n - k]]
           E == [n \in 1 .. m |-> IF n <= k THEN e[n] ELSE L + 1 + f[n - k]]
<1>10. ASSUME NEW n \in 1 .. m PROVE n \in 1 .. k \/ \E j \in 1 .. l : n = k + j
  <2>1. CASE n <= k
    BY <2>1
  <2>2. CASE ~(n <= k)
    <3>1. n - k \in 1 .. l /\ n = k + (n - k)
      BY <1>4, <1>5, <2>2
    <3>2. QED
      BY <3>1
  <2>3. QED
    BY <2>1, <2>2
<1>11. (\A n \in 1 .. k : P[n] = p[n] /\ E[n] = e[n])
       /\ \A n \in 1 .. l : P[k + n] = L + 1 + q[n] /\ E[k + n] = L + 1 + f[n]
  <2>1. ASSUME NEW n \in 1 .. k PROVE P[n] = p[n] /\ E[n] = e[n]
    <3>1. n \in 1 .. m /\ n <= k
      BY <1>4, <1>5
    <3>2. QED
      BY <3>1
  <2>2. ASSUME NEW n \in 1 .. l PROVE P[k + n] = L + 1 + q[n] /\ E[k + n] = L + 1 + f[n]
    <3>1. PICK j : j = k + n
      OBVIOUS
    <3>2. j \in 1 .. m /\ ~(j <= k) /\ j - k = n
      BY <1>4, <1>5, <3>1
    <3>3. P[j] = L + 1 + q[n] /\ E[j] = L + 1 + f[n]
      BY <3>2
    <3>4. QED
      BY <3>1, <3>3
  <2>3. QED
    <3> HIDE DEF P, E
    <3> QED
      BY <2>1, <2>2
<1>12. P \in [1 .. m -> Nat] /\ E \in [1 .. m -> Nat]
  <2>1. ASSUME NEW n \in 1 .. m PROVE P[n] \in Nat /\ E[n] \in Nat
    <3>1. CASE n \in 1 .. k
      <4>1. p[n] \in Nat /\ e[n] \in Nat
        BY <1>4, <3>1
      <4>2. P[n] = p[n] /\ E[n] = e[n]
        BY <1>11, <3>1
      <4>3. QED
        BY <4>1, <4>2
    <3>2. CASE n \notin 1 .. k
      <4>1. PICK j \in 1 .. l : n = k + j
        BY <1>10, <3>2
      <4>2. q[j] \in Nat /\ f[j] \in Nat
        BY <1>4
      <4>3. P[n] = L + 1 + q[j] /\ E[n] = L + 1 + f[j]
        BY <1>11, <4>1
      <4>4. QED
        BY <4>2, <4>3
    <3>3. QED
      BY <3>1, <3>2
  <2>2. QED
    BY <2>1
<1> HIDE DEF P, E
<1>13. ASSUME NEW n \in 1 .. k
       PROVE  /\ p[n] \in Nat /\ e[n] \in Nat /\ p[n] <= e[n]
              /\ \A i \in p[n] .. e[n] : s[i] \in DigitChars
              /\ Value(s, p[n], e[n]) = numbers[n] /\ numbers[n] <= UintMax
  <2>1. /\ p[n] \in Nat /\ e[n] \in Nat /\ 1 <= p[n] /\ p[n] <= e[n] /\ e[n] <= L
        /\ \A i \in p[n] .. e[n] : a[i] \in DigitChars
        /\ Value(a, p[n], e[n]) = na[n] /\ na[n] <= UintMax
    <3>1. 1 <= p[n] /\ p[n] <= e[n] /\ e[n] <= L
      BY <1>1, <1>3, PlanInside
    <3>2. p[n] \in Nat /\ e[n] \in Nat
      BY <1>4
    <3>3. (\A i \in p[n] .. e[n] : a[i] \in DigitChars)
          /\ Value(a, p[n], e[n]) = na[n] /\ na[n] <= UintMax
      BY <1>1 DEF Plan
    <3>4. QED
      BY <3>1, <3>2, <3>3
  <2>2. PICK x \in Nat, d \in Nat : x = p[n] /\ e[n] = x + d
    <3>1. e[n] - p[n] \in Nat /\ e[n] = p[n] + (e[n] - p[n])
      BY <2>1
    <3>2. QED
      BY <2>1, <3>1
  <2>3. \A i \in 0 .. d : x + i \in 1 .. L /\ x + i \in p[n] .. e[n]
    BY <2>1, <2>2
  <2>4. \A i \in 0 .. d : s[x + i] = a[x + i] /\ a[x + i] \in DigitChars
    BY <1>6, <2>1, <2>3
  <2>5. Value(s, x, x + d) = Value(a, x, x + d)
    <3>1. SameDigits(s, x, a, x, d)
      BY <2>4 DEF SameDigits
    <3>2. QED
      BY <3>1, ValueMoved
  <2>6. \A i \in p[n] .. e[n] : i \in 1 .. L
    BY <2>1
  <2>7. QED
    BY <1>6, <1>7, <2>1, <2>2, <2>5, <2>6
<1>14. ASSUME NEW n \in 1 .. l
       PROVE  /\ q[n] \in Nat /\ f[n] \in Nat /\ q[n] <= f[n]
              /\ \A i \in L + 1 + q[n] .. L + 1 + f[n] : s[i] \in DigitChars
              /\ Value(s, L + 1 + q[n], L + 1 + f[n]) = numbers[k + n] /\ numbers[k + n] <= UintMax
  <2>1. /\ q[n] \in Nat /\ f[n] \in Nat /\ 1 <= q[n] /\ q[n] <= f[n] /\ f[n] <= M
        /\ \A i \in q[n] .. f[n] : b[i] \in DigitChars
        /\ Value(b, q[n], f[n]) = nb[n] /\ nb[n] <= UintMax
    <3>1. 1 <= q[n] /\ q[n] <= f[n] /\ f[n] <= M
      BY <1>2, <1>3, PlanInside
    <3>2. q[n] \in Nat /\ f[n] \in Nat
      BY <1>4
    <3>3. (\A i \in q[n] .. f[n] : b[i] \in DigitChars)
          /\ Value(b, q[n], f[n]) = nb[n] /\ nb[n] <= UintMax
      BY <1>2 DEF Plan
    <3>4. QED
      BY <3>1, <3>2, <3>3
  <2>2. PICK x \in Nat, d \in Nat, y \in Nat : x = q[n] /\ f[n] = x + d /\ y = L + 1 + x
    <3>1. f[n] - q[n] \in Nat /\ f[n] = q[n] + (f[n] - q[n]) /\ L + 1 + q[n] \in Nat
      BY <2>1
    <3>2. QED
      BY <2>1, <3>1
  <2>3. \A i \in 0 .. d : x + i \in 1 .. M /\ x + i \in q[n] .. f[n] /\ y + i = L + 1 + (x + i)
    BY <2>1, <2>2
  <2>4. \A i \in 0 .. d : s[y + i] = b[x + i] /\ b[x + i] \in DigitChars
    BY <1>6, <2>1, <2>3
  <2>5. Value(s, y, y + d) = Value(b, x, x + d)
    <3>1. SameDigits(s, y, b, x, d)
      BY <2>4 DEF SameDigits
    <3>2. QED
      BY <3>1, ValueMoved
  <2>6. \A i \in y .. y + d : i - y \in 0 .. d /\ y + (i - y) = i
    OBVIOUS
  <2>7. \A i \in y .. y + d : s[i] \in DigitChars
    BY <2>4, <2>6
  <2>8. L + 1 + q[n] = y /\ L + 1 + f[n] = y + d
    BY <2>2
  <2>9. QED
    BY <1>7, <2>1, <2>2, <2>5, <2>7, <2>8
<1>15. ASSUME NEW n \in 1 .. m
       PROVE  /\ P[n] <= E[n] /\ (\A i \in P[n] .. E[n] : s[i] \in DigitChars)
              /\ Value(s, P[n], E[n]) = numbers[n] /\ numbers[n] <= UintMax
  <2>1. CASE n \in 1 .. k
    BY <1>11, <1>13, <2>1
  <2>2. CASE \E j \in 1 .. l : n = k + j
    <3>1. PICK j \in 1 .. l : n = k + j
      BY <2>2
    <3>2. P[n] = L + 1 + q[j] /\ E[n] = L + 1 + f[j]
      BY <1>11, <3>1
    <3>3. L + 1 + q[j] <= L + 1 + f[j]
      BY <1>14
    <3>4. QED
      BY <1>14, <3>1, <3>2, <3>3
  <2>3. n \in 1 .. k \/ \E j \in 1 .. l : n = k + j
    BY <1>10
  <2>4. QED
    BY <2>1, <2>2, <2>3
<1>16. ASSUME NEW n \in 1 .. m - 1 PROVE P[n + 1] = E[n] + 2 /\ s[E[n] + 1] = chars[n]
  <2>1. CASE n < k
    <3>1. n \in 1 .. k - 1 /\ n \in 1 .. k /\ n + 1 \in 1 .. k
      BY <1>4, <1>5, <2>1
    <3>2. P[n] = p[n] /\ E[n] = e[n] /\ P[n + 1] = p[n + 1]
      BY <1>11, <3>1
    <3>3. p[n + 1] = e[n] + 2 /\ a[e[n] + 1] = ca[n]
      BY <1>1, <3>1 DEF Plan
    <3>4. e[n] + 1 \in 1 .. L
      <4>1. e[n] \in Nat
        BY <1>4, <1>5, <3>1
      <4>2. e[n] + 1 <= L
        BY <1>1, <1>3, <3>1, PlanInside
      <4>3. QED
        BY <4>1, <4>2
    <3>5. QED
      BY <1>6, <1>8, <3>1, <3>2, <3>3, <3>4
  <2>2. CASE n = k
    <3>1. k \in 1 .. k /\ 1 \in 1 .. l
      BY <1>4, <1>5
    <3>2. E[k] = L /\ P[k + 1] = L + 1 + 1
      BY <1>4, <1>5, <1>11, <3>1
    <3>3. QED
      BY <1>6, <1>9, <2>2, <3>2
  <2>3. CASE n > k
    <3>1. PICK j \in 1 .. l - 1 : n = k + j
      <4>1. n - k \in 1 .. l - 1 /\ n = k + (n - k)
        BY <1>4, <1>5, <2>3
      <4>2. QED
        BY <4>1
    <3>2. j \in 1 .. l /\ j + 1 \in 1 .. l /\ n + 1 = k + (j + 1)
      BY <1>4, <1>5, <3>1
    <3>3. E[n] = L + 1 + f[j] /\ P[n + 1] = L + 1 + q[j + 1]
      BY <1>11, <3>1, <3>2
    <3>4. q[j + 1] = f[j] + 2 /\ b[f[j] + 1] = cb[j]
      BY <1>2, <3>1 DEF Plan
    <3>5. f[j] + 1 \in 1 .. M /\ f[j] \in Nat
      <4>1. f[j] \in Nat
        BY <1>4, <1>5, <3>2
      <4>2. f[j] + 1 <= M
        BY <1>2, <1>3, <3>1, PlanInside
      <4>3. QED
        BY <4>1, <4>2
    <3>6. s[L + 1 + (f[j] + 1)] = b[f[j] + 1] /\ chars[n] = cb[j]
      BY <1>6, <1>9, <3>1, <3>5
    <3>7. L + 1 + (f[j] + 1) = E[n] + 1 /\ L + 1 + q[j + 1] = E[n] + 2
      BY <3>3, <3>4, <3>5
    <3>8. QED
      BY <3>3, <3>4, <3>6, <3>7
  <2>4. QED
    BY <1>4, <1>5, <2>1, <2>2, <2>3
<1>17. P[1] = 1 /\ E[m] = Len(s)
  <2>1. 1 \in 1 .. k /\ l \in 1 .. l
    BY <1>4
  <2>2. P[1] = p[1] /\ E[m] = L + 1 + f[l]
    BY <1>11, <1>5, <2>1
  <2>3. QED
    BY <1>4, <1>6, <2>2
<1>18. Plan(s, m, P, E, numbers, chars)
  BY <1>6, <1>7, <1>8, <1>9, <1>12, <1>15, <1>16, <1>17 DEF Plan
<1>19. QED
  BY <1>18 DEF Spells

\* The first places of the numbers up to the n-th one.
FirstPlaces(p, n) == {p[k] : k \in 1 .. n}

(* As many places as numbers. *)
LEMMA CountPlaces ==
  ASSUME NEW m \in Nat, NEW p \in [1 .. m -> Nat], \A n \in 1 .. m - 1 : p[n] < p[n + 1]
  PROVE  /\ \A n \in 0 .. m : IsFiniteSet(FirstPlaces(p, n)) /\ Cardinality(FirstPlaces(p, n)) = n
         /\ \A n \in 1 .. m : \A k \in 1 .. m : k < n <=> p[k] < p[n]
<1> DEFINE T == {n \in 0 .. m : \A k \in 1 .. n : \A j \in 1 .. n : k < j => p[k] < p[j]}
<1>1. 0 \in T
  OBVIOUS
<1>2. ASSUME NEW n \in 0 .. m - 1, n \in T PROVE n + 1 \in T
  <2>1. n + 1 \in 0 .. m
    OBVIOUS
  <2>2. ASSUME NEW k \in 1 .. n + 1, NEW j \in 1 .. n + 1, k < j PROVE p[k] < p[j]
    <3>1. CASE j \in 1 .. n
      <4>1. k \in 1 .. n
        BY <2>2, <3>1
      <4>2. QED
        BY <1>2, <2>2, <3>1, <4>1
    <3>2. CASE j = n + 1
      <4>1. k \in 1 .. n /\ n \in 1 .. n /\ n \in 1 .. m - 1 /\ n + 1 \in 1 .. m /\ k \in 1 .. m
        BY <2>2, <3>2
      <4>2. p[k] \in Nat /\ p[n] \in Nat /\ p[n + 1] \in Nat /\ p[n] < p[n + 1]
        BY <4>1
      <4>3. k = n \/ p[k] < p[n]
        BY <1>2, <4>1
      <4>4. QED
        BY <3>2, <4>2, <4>3
    <3>3. QED
      BY <3>1, <3>2
  <2>3. QED
    BY <2>1, <2>2
<1>3. \A n \in 0 .. m : n \in T
  <2> HIDE DEF T
  <2> QED
    BY <1>1, <1>2, UpTo
<1>4. ASSUME NEW n \in 1 .. m, NEW k \in 1 .. m PROVE k < n <=> p[k] < p[n]
  <2>1. m \in T /\ p[n] \in Nat /\ p[k] \in Nat
    <3>1. m \in 0 .. m
      OBVIOUS
    <3>2. m \in T
      <4> HIDE DEF T
      <4> QED
        BY <1>3, <3>1
    <3>3. QED
      BY <3>2
  <2>2. (k < n => p[k] < p[n]) /\ (n < k => p[n] < p[k])
    BY <2>1
  <2>3. k < n \/ k = n \/ n < k
    OBVIOUS
  <2>4. QED
    BY <2>1, <2>2, <2>3
<1> DEFINE U == {n \in 0 .. m : IsFiniteSet(FirstPlaces(p, n)) /\ Cardinality(FirstPlaces(p, n)) = n}
<1>5. 0 \in U
  <2>1. FirstPlaces(p, 0) = {}
    BY DEF FirstPlaces
  <2>2. IsFiniteSet({}) /\ Cardinality({}) = 0
    BY FS_EmptySet
  <2>3. IsFiniteSet(FirstPlaces(p, 0)) /\ Cardinality(FirstPlaces(p, 0)) = 0
    BY <2>1, <2>2, Zenon
  <2>4. 0 \in 0 .. m
    OBVIOUS
  <2>5. QED
    BY <2>3, <2>4
<1>6. ASSUME NEW n \in 0 .. m - 1, n \in U PROVE n + 1 \in U
  <2>1. n + 1 \in 1 .. m /\ n + 1 \in 0 .. m /\ \A k \in 1 .. n : k \in 1 .. m /\ k < n + 1
    OBVIOUS
  <2>2. FirstPlaces(p, n + 1) = FirstPlaces(p, n) \cup {p[n + 1]}
    <3>1. \A k : k \in 1 .. n + 1 <=> k \in 1 .. n \/ k = n + 1
      OBVIOUS
    <3>2. QED
      BY <3>1 DEF FirstPlaces
  <2>3. p[n + 1] \notin FirstPlaces(p, n)
    <3>1. SUFFICES ASSUME NEW k \in 1 .. n, p[k] = p[n + 1] PROVE FALSE
      BY DEF FirstPlaces
    <3>2. p[k] < p[n + 1] /\ p[n + 1] \in Nat
      BY <1>4, <2>1
    <3>3. QED
      BY <3>1, <3>2
  <2>4. IsFiniteSet(FirstPlaces(p, n)) /\ Cardinality(FirstPlaces(p, n)) = n
    BY <1>6
  <2>5. IsFiniteSet(FirstPlaces(p, n + 1)) /\ Cardinality(FirstPlaces(p, n + 1)) = n + 1
    <3>1. PICK A, B, x : A = FirstPlaces(p, n) /\ B = FirstPlaces(p, n + 1) /\ x = p[n + 1]
      OBVIOUS
    <3>2. B = A \cup {x} /\ x \notin A /\ IsFiniteSet(A) /\ Cardinality(A) = n
      BY <2>2, <2>3, <2>4, <3>1
    <3>3. IsFiniteSet(B) /\ Cardinality(B) = n + 1
      BY <3>2, FS_AddElement
    <3>4. QED
      BY <3>1, <3>3
  <2>6. QED
    BY <2>1, <2>5
<1>7. \A n \in 0 .. m : n \in U
  <2> HIDE DEF U
  <2> QED
    BY <1>5, <1>6, UpTo
<1>8. QED
  BY <1>4, <1>7

InPlaces(o, m, p) == o \in [1 .. m -> Nat] /\ \A n \in 1 .. m : o[n] = p[n]

(* The first places of the numbers in their order. *)
LEMMA PlacesInOrder ==
  ASSUME NEW m \in Nat, NEW p \in [1 .. m -> Nat], \A n \in 1 .. m - 1 : p[n] < p[n + 1],
         NEW S, S = FirstPlaces(p, m)
  PROVE  InPlaces(InOrder(S), m, p)
<1>1. /\ \A n \in 0 .. m : IsFiniteSet(FirstPlaces(p, n)) /\ Cardinality(FirstPlaces(p, n)) = n
      /\ \A n \in 1 .. m : \A k \in 1 .. m : k < n <=> p[k] < p[n]
  BY CountPlaces
<1>2. S \in SUBSET Nat /\ IsFiniteSet(S) /\ Cardinality(S) = m
  <2>1. \A k \in 1 .. m : p[k] \in Nat
    OBVIOUS
  <2>2. S \in SUBSET Nat
    BY <2>1 DEF FirstPlaces
  <2>3. m \in 0 .. m
    OBVIOUS
  <2>4. QED
    BY <1>1, <2>2, <2>3
<1>3. PICK g : g = InOrder(S)
  OBVIOUS
<1>4. g \in [1 .. m -> S]
  BY <1>2, <1>3, InOrderCorrect
<1>5. ASSUME NEW n \in 1 .. m PROVE g[n] = p[n]
  <2>1. p[n] \in S
    BY DEF FirstPlaces
  <2>2. Below(S, p[n]) = FirstPlaces(p, n - 1)
    <3>1. \A k : k \in 1 .. n - 1 <=> k \in 1 .. m /\ k < n
      OBVIOUS
    <3>2. QED
      BY <1>1, <3>1 DEF Below, FirstPlaces
  <2>3. Rank(S, p[n]) = n - 1
    <3>1. n - 1 \in 0 .. m
      OBVIOUS
    <3>2. QED
      BY <1>1, <2>2, <3>1 DEF Rank
  <2>4. g[Rank(S, p[n]) + 1] = p[n]
    BY <1>2, <1>3, <2>1, InOrderGrows
  <2>5. QED
    BY <2>3, <2>4
<1>6. QED
  BY <1>2, <1>3, <1>4, <1>5 DEF InPlaces

(* The template of a text is the numbers and characters that it spells. *)
LEMMA TemplateOfSpelled ==
  ASSUME NEW s, NEW numbers, NEW chars, Spells(s, numbers, chars)
  PROVE  TemplateOf(s) = [numbers |-> numbers, chars |-> chars]
<1>1. PICK m, p, e : Plan(s, m, p, e, numbers, chars)
  BY DEF Spells
<1>2. /\ s \in Seq(Figures) /\ m \in Nat \ {0} /\ p \in [1 .. m -> Nat] /\ e \in [1 .. m -> Nat]
      /\ numbers \in Seq(Nat) /\ Len(numbers) = m /\ chars \in Seq(Signs) /\ Len(chars) = m - 1
      /\ p[1] = 1 /\ e[m] = Len(s)
  BY <1>1 DEF Plan
<1>3. ASSUME NEW n \in 1 .. m
      PROVE  /\ p[n] \in Nat /\ e[n] \in Nat /\ 1 <= p[n] /\ p[n] <= e[n] /\ e[n] <= Len(s)
             /\ (\A i \in p[n] .. e[n] : s[i] \in DigitChars)
             /\ Value(s, p[n], e[n]) = numbers[n] /\ numbers[n] <= UintMax
  <2>1. 1 <= p[n] /\ p[n] <= e[n] /\ e[n] <= Len(s)
    BY <1>1, PlanInside
  <2>2. (\A i \in p[n] .. e[n] : s[i] \in DigitChars)
        /\ Value(s, p[n], e[n]) = numbers[n] /\ numbers[n] <= UintMax
    BY <1>1 DEF Plan
  <2>3. QED
    BY <1>2, <2>1, <2>2
<1>4. ASSUME NEW n \in 1 .. m - 1
      PROVE  /\ n \in 1 .. m /\ n + 1 \in 1 .. m /\ p[n + 1] = e[n] + 2 /\ p[n] < p[n + 1]
             /\ e[n] + 1 <= Len(s) /\ s[e[n] + 1] = chars[n] /\ s[e[n] + 1] \notin DigitChars
  <2>1. p[n + 1] = e[n] + 2 /\ s[e[n] + 1] = chars[n]
    BY <1>1 DEF Plan
  <2>2. p[n] < p[n + 1] /\ e[n] + 1 <= Len(s)
    BY <1>1, PlanInside
  <2>3. n \in 1 .. m /\ n + 1 \in 1 .. m
    BY <1>2
  <2>4. chars[n] \in transition_chars
    <3>1. chars[n] \in Signs
      BY <1>2
    <3>2. QED
      BY <3>1 DEF Signs, transition_chars
  <2>5. \A c \in transition_chars : c \notin DigitChars
    BY NamesAssumption DEF NamesFit
  <2>6. QED
    BY <2>1, <2>2, <2>3, <2>4, <2>5
<1>5. PICK L \in Nat : L = Len(s) /\ DOMAIN s = 1 .. L
  BY <1>2
<1> DEFINE Inside(i, n) == p[n] <= i /\ (i <= e[n] \/ (n # m /\ i = e[n] + 1))
           T == {i \in 1 .. L : \E n \in 1 .. m : Inside(i, n)}
<1>6. ASSUME 1 <= L PROVE 1 \in T
  <2>1. 1 \in 1 .. m
    BY <1>2
  <2>2. Inside(1, 1)
    BY <1>2, <1>3, <2>1
  <2>3. QED
    BY <1>6, <2>1, <2>2
<1>7. ASSUME NEW i \in 1 .. L - 1, i \in T PROVE i + 1 \in T
  <2>1. PICK n \in 1 .. m : Inside(i, n)
    BY <1>7
  <2>2. p[n] \in Nat /\ e[n] \in Nat /\ p[n] <= i /\ i + 1 \in 1 .. L
    BY <1>3, <2>1
  <2>3. CASE i < e[n]
    <3>1. Inside(i + 1, n)
      BY <2>2, <2>3
    <3>2. QED
      BY <2>2, <3>1
  <2>4. CASE i = e[n]
    <3>1. n # m
      <4>1. SUFFICES ASSUME n = m PROVE FALSE
        OBVIOUS
      <4>2. i = L /\ i <= L - 1
        BY <1>2, <1>5, <2>4, <4>1
      <4>3. QED
        BY <4>2
    <3>2. Inside(i + 1, n)
      BY <2>2, <2>4, <3>1
    <3>3. QED
      BY <2>2, <3>2
  <2>5. CASE ~(i <= e[n])
    <3>1. n # m /\ i = e[n] + 1
      BY <2>1, <2>5
    <3>2. n \in 1 .. m - 1
      BY <1>2, <3>1
    <3>3. n + 1 \in 1 .. m /\ p[n + 1] = i + 1 /\ p[n + 1] <= e[n + 1]
      <4>1. n + 1 \in 1 .. m /\ p[n + 1] = e[n] + 2
        BY <1>4, <3>2
      <4>2. e[n] + 2 = i + 1
        BY <2>2, <3>1
      <4>3. p[n + 1] <= e[n + 1]
        BY <1>3, <4>1
      <4>4. QED
        BY <4>1, <4>2, <4>3
    <3>4. Inside(i + 1, n + 1)
      BY <2>2, <3>3
    <3>5. QED
      BY <2>2, <3>3, <3>4
  <2>6. i < e[n] \/ i = e[n] \/ ~(i <= e[n])
    BY <2>2
  <2>7. QED
    BY <2>3, <2>4, <2>5, <2>6
<1>8. ASSUME NEW i \in 1 .. L PROVE \E n \in 1 .. m : Inside(i, n)
  <2>1. 1 \in T
    BY <1>6
  <2>2. \A k \in 1 .. L : k \in T
    <3> HIDE DEF T
    <3> QED
      BY <1>7, <2>1, UpTo
  <2>3. QED
    BY <2>2
<1> HIDE DEF Inside, T
<1> DEFINE stop == Min({i \in DOMAIN s : s[i] \notin DigitChars \cup transition_chars} \cup {Len(s) + 1})
           first(i) == i < stop /\ s[i] \in DigitChars /\ (i = 1 \/ s[i - 1] \notin DigitChars)
           last(i) == Min({j \in i .. stop - 1 : j = stop - 1 \/ s[j + 1] \notin DigitChars})
           fits(i) == first(i) => Value(s, i, last(i)) <= UintMax
           S == {i \in DOMAIN s : first(i) /\ \A j \in 1 .. i : fits(j)}
           order == InOrder(S)
<1>9. TemplateOf(s) = [numbers |-> [n \in DOMAIN order |-> Value(s, order[n], last(order[n]))],
                       chars |-> [n \in 1 .. Len(order) - 1 |-> s[last(order[n]) + 1]]]
  BY DEF TemplateOf
<1>10. stop = L + 1
  <2>1. {i \in DOMAIN s : s[i] \notin DigitChars \cup transition_chars} = {}
    <3>1. \A i \in DOMAIN s : s[i] \in DigitChars \cup Signs
      BY <1>2 DEF Figures
    <3>2. Signs \subseteq transition_chars
      BY DEF Signs, transition_chars
    <3>3. QED
      BY <3>1, <3>2
  <2>2. {i \in DOMAIN s : s[i] \notin DigitChars \cup transition_chars} \cup {Len(s) + 1} = {L + 1}
    BY <1>5, <2>1
  <2>3. {L + 1} \in SUBSET Nat /\ {L + 1} # {}
    OBVIOUS
  <2>4. Min({L + 1}) \in {L + 1}
    BY <2>3, MinOfNumbers
  <2>5. QED
    BY <2>2, <2>4
<1> HIDE DEF stop
<1>11. ASSUME NEW n \in 1 .. m PROVE last(p[n]) = e[n]
  <2> DEFINE U == {j \in p[n] .. stop - 1 : j = stop - 1 \/ s[j + 1] \notin DigitChars}
  <2>1. stop - 1 = L /\ p[n] \in Nat /\ e[n] \in Nat /\ p[n] <= e[n] /\ e[n] <= L
    BY <1>3, <1>5, <1>10
  <2>2. e[n] = stop - 1 \/ s[e[n] + 1] \notin DigitChars
    <3>1. CASE n = m
      BY <1>2, <1>5, <2>1, <3>1
    <3>2. CASE n # m
      <4>1. n \in 1 .. m - 1
        BY <1>2, <3>2
      <4>2. QED
        BY <1>4, <4>1
    <3>3. QED
      BY <3>1, <3>2
  <2>3. e[n] \in U
    BY <2>1, <2>2
  <2>4. ASSUME NEW j \in U PROVE ~(j < e[n])
    <3>1. SUFFICES ASSUME j < e[n] PROVE FALSE
      OBVIOUS
    <3>2. j \in p[n] .. stop - 1 /\ j + 1 \in p[n] .. e[n] /\ j # stop - 1
      BY <2>1, <3>1
    <3>3. s[j + 1] \in DigitChars
      BY <1>3, <3>2
    <3>4. QED
      BY <3>2, <3>3
  <2>5. U \in SUBSET Nat /\ U # {}
    BY <2>1, <2>3
  <2>6. Min(U) \in U /\ Min(U) <= e[n]
    <3> HIDE DEF U
    <3> QED
      BY <2>3, <2>5, MinOfNumbers
  <2>7. Min(U) = e[n]
    <3>1. Min(U) \in Nat /\ ~(Min(U) < e[n])
      BY <2>4, <2>5, <2>6
    <3> HIDE DEF U
    <3>2. QED
      BY <2>1, <2>6, <3>1
  <2>8. QED
    BY <2>7
<1>12. ASSUME NEW n \in 1 .. m PROVE p[n] \in DOMAIN s /\ first(p[n])
  <2>1. p[n] \in Nat /\ 1 <= p[n] /\ p[n] <= L /\ p[n] < stop /\ s[p[n]] \in DigitChars
    <3>1. p[n] \in Nat /\ e[n] \in Nat /\ 1 <= p[n] /\ p[n] <= e[n] /\ e[n] <= L
      BY <1>3, <1>5
    <3>2. p[n] \in p[n] .. e[n]
      BY <3>1
    <3>3. QED
      BY <1>3, <1>10, <3>1, <3>2
  <2>2. p[n] = 1 \/ s[p[n] - 1] \notin DigitChars
    <3>1. CASE n = 1
      BY <1>2, <3>1
    <3>2. CASE n # 1
      <4>1. n - 1 \in 1 .. m - 1 /\ n - 1 + 1 = n
        BY <1>2, <3>2
      <4>2. p[n] = e[n - 1] + 2 /\ s[e[n - 1] + 1] \notin DigitChars
        BY <1>4, <4>1
      <4>3. n - 1 \in 1 .. m
        BY <1>2, <4>1
      <4>4. e[n - 1] \in Nat
        BY <1>2, <4>3
      <4>5. p[n] - 1 = e[n - 1] + 1
        BY <4>2, <4>4
      <4>6. QED
        BY <4>2, <4>5
    <3>3. QED
      BY <3>1, <3>2
  <2>3. QED
    BY <1>5, <2>1, <2>2
<1>13. ASSUME NEW i \in 1 .. L, first(i) PROVE \E n \in 1 .. m : i = p[n]
  <2>1. PICK n \in 1 .. m : Inside(i, n)
    BY <1>8
  <2>2. p[n] \in Nat /\ e[n] \in Nat /\ p[n] <= i /\ (i <= e[n] \/ (n # m /\ i = e[n] + 1))
        /\ 1 <= p[n]
    BY <1>3, <2>1 DEF Inside
  <2>3. CASE i <= e[n]
    <3>1. SUFFICES ASSUME i # p[n] PROVE FALSE
      OBVIOUS
    <3>2. i - 1 \in p[n] .. e[n] /\ i # 1
      BY <2>2, <2>3, <3>1
    <3>3. s[i - 1] \in DigitChars
      BY <1>3, <3>2
    <3>4. QED
      BY <1>13, <3>2, <3>3
  <2>4. CASE ~(i <= e[n])
    <3>1. n \in 1 .. m - 1 /\ i = e[n] + 1
      BY <1>2, <2>2, <2>4
    <3>2. s[i] \notin DigitChars
      BY <1>4, <3>1
    <3>3. QED
      BY <1>13, <3>2
  <2>5. QED
    BY <2>3, <2>4
<1>14. ASSUME NEW i \in 1 .. L PROVE fits(i)
  <2>1. SUFFICES ASSUME first(i) PROVE Value(s, i, last(i)) <= UintMax
    OBVIOUS
  <2>2. PICK n \in 1 .. m : i = p[n]
    BY <1>13, <2>1
  <2>3. Value(s, i, last(i)) = numbers[n]
    <3>1. last(i) = e[n]
      BY <1>11, <2>2
    <3> HIDE DEF last
    <3>2. QED
      BY <1>3, <2>2, <3>1
  <2>4. QED
    <3> HIDE DEF last
    <3> QED
      BY <1>3, <2>3
<1> HIDE DEF first, last, fits
<1>15. S = FirstPlaces(p, m)
  <2>1. ASSUME NEW i \in S PROVE i \in FirstPlaces(p, m)
    <3>1. i \in 1 .. L /\ first(i)
      BY <1>5
    <3>2. QED
      BY <1>13, <3>1 DEF FirstPlaces
  <2>2. ASSUME NEW i \in FirstPlaces(p, m) PROVE i \in S
    <3>1. PICK n \in 1 .. m : i = p[n]
      BY DEF FirstPlaces
    <3>2. i \in DOMAIN s /\ first(i) /\ i \in 1 .. L
      BY <1>5, <1>12, <3>1
    <3>3. \A j \in 1 .. i : j \in 1 .. L
      BY <3>2
    <3>4. QED
      BY <1>14, <3>2, <3>3
  <2>3. QED
    BY <2>1, <2>2
<1>16. order \in [1 .. m -> Nat] /\ \A n \in 1 .. m : order[n] = p[n]
  <2>1. m \in Nat /\ \A n \in 1 .. m - 1 : p[n] < p[n + 1]
    BY <1>2, <1>4
  <2> HIDE DEF S
  <2>2. InPlaces(InOrder(S), m, p)
    BY <1>2, <1>15, <2>1, PlacesInOrder
  <2>3. QED
    BY <2>2 DEF InPlaces
<1> HIDE DEF order
<1>17. DOMAIN order = 1 .. m /\ Len(order) = m
  BY <1>2, <1>16
<1>18. [n \in DOMAIN order |-> Value(s, order[n], last(order[n]))] = numbers
  <2>1. \A n \in 1 .. m : Value(s, order[n], last(order[n])) = numbers[n]
    BY <1>3, <1>11, <1>16
  <2>2. numbers = [n \in 1 .. m |-> numbers[n]]
    BY <1>2
  <2>3. QED
    BY <1>17, <2>1, <2>2
<1>19. [n \in 1 .. Len(order) - 1 |-> s[last(order[n]) + 1]] = chars
  <2>1. \A n \in 1 .. m - 1 : s[last(order[n]) + 1] = chars[n]
    BY <1>4, <1>11, <1>16
  <2>2. chars = [n \in 1 .. m - 1 |-> chars[n]]
    BY <1>2
  <2>3. QED
    BY <1>17, <2>1, <2>2
<1>20. QED
  BY <1>9, <1>18, <1>19

(* A number of a citation is written. *)
LEMMA WrittenSpells ==
  ASSUME NEW n, n <= UintMax, \E w \in Numerals : NumberOf(w) = n
  PROVE  Spells(Written(n), <<n>>, << >>)
<1>1. PICK w : w = Written(n) /\ w \in Numerals /\ NumberOf(w) = n
  BY DEF Written
<1>2. w \in Seq(DigitChars) /\ w # << >>
  BY <1>1, CitationsAssumption DEF CitationsFit
<1>3. QED
  BY <1>1, <1>2, OneNumber

(* What is spelled is made of digits and characters, begins and ends with a digit. *)
LEMMA SpelledText ==
  ASSUME NEW s, NEW numbers, NEW chars, Spells(s, numbers, chars)
  PROVE  /\ s \in Seq(Figures) /\ Len(s) \in Nat \ {0}
         /\ s[1] \in DigitChars /\ s[Len(s)] \in DigitChars
<1>1. PICK m, p, e : Plan(s, m, p, e, numbers, chars)
  BY DEF Spells
<1>2. /\ s \in Seq(Figures) /\ m \in Nat \ {0} /\ p \in [1 .. m -> Nat] /\ e \in [1 .. m -> Nat]
      /\ p[1] = 1 /\ e[m] = Len(s)
      /\ \A n \in 1 .. m : \A i \in p[n] .. e[n] : s[i] \in DigitChars
  BY <1>1 DEF Plan
<1>3. \A n \in 1 .. m : 1 <= p[n] /\ p[n] <= e[n] /\ e[n] <= Len(s)
  BY <1>1, PlanInside
<1>4. 1 \in 1 .. m /\ m \in 1 .. m
  BY <1>2
<1>5. p[1] \in p[1] .. e[1] /\ e[m] \in p[m] .. e[m] /\ Len(s) # 0
  <2>1. p[1] \in Nat /\ e[1] \in Nat /\ p[m] \in Nat /\ e[m] \in Nat /\ p[1] <= e[1] /\ p[m] <= e[m]
        /\ 1 <= p[m]
    BY <1>2, <1>3, <1>4
  <2>2. QED
    BY <1>2, <2>1
<1>6. QED
  BY <1>2, <1>4, <1>5

-----------------------------------------------------------------------------
(* A name with numbers                                                       *)
\* A text of a name, of which n is the length, and of what is spelled.
NameAndNumbers(t, k, n, w) ==
  /\ k \in DOMAIN name_variants_list /\ n = Len(name_variants_list[k].name)
  /\ IsSequence(t) /\ Len(t) = n + Len(w)
  /\ \A i \in 1 .. n : t[i] = name_variants_list[k].name[i]
  /\ \A i \in 1 .. Len(w) : t[n + i] = w[i]
  /\ w \in Seq(Figures) /\ Len(w) \in Nat \ {0} /\ w[1] \in DigitChars /\ w[Len(w)] \in DigitChars

(* The characters of names and of citations. *)
LEMMA CharactersAre ==
  /\ \A c \in DigitChars : c \notin Letters \cup Whitespaces \cup Lines \cup {".", "*"} \cup Signs
  /\ \A c \in Letters : c \notin Whitespaces \cup Lines \cup {".", "*"}
  /\ \A c \in Signs : c \notin Letters \cup Whitespaces \cup DigitChars /\ (c \in Lines => c = "-")
<1>1. \A c \in DigitChars : c \notin Letters \cup Whitespaces \cup Lines \cup {"*"} \cup transition_chars
  BY NamesAssumption DEF NamesFit
<1>2. Signs \subseteq transition_chars /\ "." \in transition_chars
  BY DEF Signs, transition_chars
<1>3. /\ Letters \cap (Whitespaces \cup Lines \cup {".", "*"}) = {}
      /\ {",", ";"} \cap (Letters \cup Whitespaces \cup Lines) = {} /\ "-" \notin Letters \cup Whitespaces
  BY CharactersAssumption DEF CharactersFit
<1>4. \A c \in DigitChars : c \notin Letters \cup Whitespaces \cup Lines \cup {".", "*"} \cup Signs
  BY <1>1, <1>2
<1>5. \A c \in Letters : c \notin Whitespaces \cup Lines \cup {".", "*"}
  BY <1>3
<1>6. ASSUME NEW c \in Signs
      PROVE  c \notin Letters \cup Whitespaces \cup DigitChars /\ (c \in Lines => c = "-")
  <2>1. c \notin DigitChars
    BY <1>4
  <2>2. c \in {",", ";"} \/ c = "-"
    BY DEF Signs
  <2>3. QED
    BY <1>3, <2>1, <2>2
<1>7. QED
  BY <1>4, <1>5, <1>6

(* The characters of a name. *)
LEMMA NameCharacters ==
  ASSUME NEW k \in DOMAIN name_variants_list, NEW i \in 1 .. Len(name_variants_list[k].name)
  PROVE  name_variants_list[k].name[i] \in Letters \cup DigitChars
<1> DEFINE name == name_variants_list[k].name
<1>1. PICK h \in 1 .. Len(name) : \A j \in 1 .. Len(name) : name[j] \in IF j < h THEN DigitChars ELSE Letters
  BY NamesAssumption DEF NamesFit
<1>2. QED
  BY <1>1

\* The N characters that remain of it: the whole name, the first and the last digit.
WhatRemains(t, k, n, w, N) ==
  /\ n + 1 <= N /\ Len(Normalized(t)) = N /\ DOMAIN Normalized(t) = 1 .. N
  /\ Kept(t)[1] = 1 /\ Kept(t)[n + 1] = n + 1 /\ Kept(t)[N] = n + Len(w)
  /\ \A i \in 1 .. N : Kept(t)[i] <= 1 => i = 1
  /\ \A i \in 1 .. n : Normalized(t)[i] = name_variants_list[k].name[i]
  /\ Normalized(t)[n + 1] \in DigitChars
  /\ \A i \in n + 1 .. N : Normalized(t)[i] \notin Letters

(* Nothing of the name is left out, nor the first and the last digit. *)
LEMMA WhatIsKept ==
  ASSUME NEW t, NEW k, NEW n \in Nat \ {0}, NEW w, NameAndNumbers(t, k, n, w)
  PROVE  \E N \in Nat : WhatRemains(t, k, n, w, N)
<1> DEFINE name == name_variants_list[k].name
           S == {i \in DOMAIN t : t[i] \notin Whitespaces \cup Lines \cup {"."}}
<1>1. PICK L \in Nat \ {0} : L = Len(w)
  BY DEF NameAndNumbers
<1>2. /\ k \in DOMAIN name_variants_list /\ n = Len(name) /\ IsSequence(t) /\ Len(t) = n + L
      /\ (\A i \in 1 .. n : t[i] = name[i]) /\ (\A i \in 1 .. L : t[n + i] = w[i])
      /\ w \in Seq(Figures) /\ w[1] \in DigitChars /\ w[L] \in DigitChars
  BY <1>1 DEF NameAndNumbers
<1>3. DOMAIN t = 1 .. n + L
  BY <1>1, <1>2, Sequence
<1>4. ASSUME NEW i \in 1 .. n PROVE t[i] \in Letters \cup DigitChars
  BY <1>2, NameCharacters
<1>5. \A c \in Letters \cup DigitChars : c \notin Whitespaces \cup Lines \cup {"."}
  BY CharactersAre
<1>6. t[n + 1] \in DigitChars /\ t[n + L] \in DigitChars
  <2>1. 1 \in 1 .. L /\ L \in 1 .. L
    BY <1>1
  <2>2. QED
    BY <1>2, <2>1
<1>7. n + L \in S /\ \A i \in 1 .. n + 1 : i \in S
  <2>1. n + L \in 1 .. n + L
    BY <1>1
  <2>2. \A i \in 1 .. n + 1 : i \in 1 .. n + L /\ (i \in 1 .. n \/ i = n + 1)
    BY <1>1
  <2>3. QED
    BY <1>3, <1>4, <1>5, <1>6, <2>1, <2>2
<1>8. S \in SUBSET (1 .. n + L) /\ S \in SUBSET Nat /\ IsFiniteSet(S)
  <2>1. IsFiniteSet(1 .. n + L)
    BY FS_Interval
  <2>2. S \in SUBSET (1 .. n + L)
    BY <1>3
  <2>3. IsFiniteSet(S)
    BY <2>1, <2>2, FS_Subset
  <2>4. QED
    BY <2>2, <2>3
<1>9. Kept(t) = InOrder(S)
  BY DEF Kept
<1> HIDE DEF S
<1>10. PICK N \in Nat, raw \in [1 .. Cardinality(S) -> S] :
                             /\ N = Cardinality(S) /\ raw = InOrder(S) /\ raw \in [1 .. N -> S]
                             /\ \A i, j \in 1 .. N : i < j => raw[i] < raw[j]
                             /\ \A i \in S : Rank(S, i) + 1 \in 1 .. N /\ raw[Rank(S, i) + 1] = i
  BY <1>8, InOrderCorrect, InOrderGrows
<1>11. ASSUME NEW i \in 1 .. n + 1 PROVE i \in 1 .. N /\ raw[i] = i
  <2>1. Below(S, i) = 1 .. i - 1
    <3>1. \A j \in S : j \in Nat \ {0}
      BY <1>8
    <3>2. \A j \in 1 .. i - 1 : j \in 1 .. n + 1 /\ j < i
      OBVIOUS
    <3>3. QED
      BY <1>7, <3>1, <3>2 DEF Below
  <2>2. Rank(S, i) = i - 1
    <3>1. Cardinality(1 .. i - 1) = i - 1
      BY FS_Interval
    <3>2. QED
      BY <2>1, <3>1 DEF Rank
  <2>3. Rank(S, i) + 1 = i
    BY <2>2
  <2>4. QED
    BY <1>7, <1>10, <2>3
<1>12. n + 1 <= N
  BY <1>11
<1>13. raw[N] = n + L
  <2>1. PICK j \in 1 .. N : raw[j] = n + L
    BY <1>7, <1>10
  <2>2. raw[N] \in 1 .. n + L /\ raw[j] \in 1 .. n + L
    <3>1. N \in 1 .. N
      BY <1>12
    <3>2. raw[N] \in S /\ raw[j] \in S
      BY <1>10, <3>1
    <3>3. QED
      BY <1>8, <3>2
  <2>3. j = N \/ raw[j] < raw[N]
    BY <1>10
  <2>4. QED
    BY <2>1, <2>2, <2>3
<1>14. ASSUME NEW i \in 1 .. N, raw[i] <= 1 PROVE i = 1
  <2>1. SUFFICES ASSUME i # 1 PROVE FALSE
    OBVIOUS
  <2>2. 1 < i /\ 1 \in 1 .. N /\ 1 \in 1 .. n + 1
    BY <2>1
  <2>3. raw[1] < raw[i] /\ raw[1] = 1
    BY <1>10, <1>11, <2>2
  <2>4. raw[i] \in Nat
    BY <1>8, <1>10
  <2>5. QED
    BY <1>14, <2>3, <2>4
<1>15. PICK s : s = Normalized(t)
  OBVIOUS
<1>16. DOMAIN raw = 1 .. N
  BY <1>10
<1>17. s = [i \in 1 .. N |-> IF t[raw[i]] \in Letters \cup DigitChars THEN t[raw[i]] ELSE "*"]
  BY <1>9, <1>10, <1>15, <1>16 DEF Normalized
<1>18. DOMAIN s = 1 .. N /\ Len(s) = N
  <2>1. PICK M \in Nat : DOMAIN s = 1 .. M /\ Len(s) = M
    BY <1>2, <1>15, KeptGrows
  <2>2. 1 .. M = 1 .. N
    BY <1>17, <2>1
  <2>3. M = N
    <3>1. Cardinality(1 .. M) = M /\ Cardinality(1 .. N) = N
      BY FS_Interval
    <3>2. QED
      BY <2>2, <3>1
  <2>4. QED
    BY <2>1, <2>3
<1>19. ASSUME NEW i \in 1 .. n PROVE s[i] = name[i]
  <2>1. i \in 1 .. n + 1
    OBVIOUS
  <2>2. i \in 1 .. N /\ raw[i] = i
    BY <1>11, <2>1
  <2>3. QED
    BY <1>2, <1>4, <1>17, <2>2
<1>20. s[n + 1] \in DigitChars
  <2>1. n + 1 \in 1 .. n + 1
    OBVIOUS
  <2>2. n + 1 \in 1 .. N /\ raw[n + 1] = n + 1
    BY <1>11, <2>1
  <2>3. QED
    BY <1>6, <1>17, <2>2
<1>21. ASSUME NEW i \in n + 1 .. N PROVE s[i] \notin Letters
  <2>1. i \in 1 .. N /\ n + 1 \in 1 .. n + 1
    OBVIOUS
  <2>2. raw[n + 1] = n + 1 /\ n + 1 \in 1 .. N
    BY <1>11, <2>1
  <2>3. raw[i] \in 1 .. n + L
    BY <1>8, <1>10, <2>1
  <2>4. n + 1 <= raw[i]
    <3>1. i = n + 1 \/ raw[n + 1] < raw[i]
      BY <1>10, <2>1, <2>2
    <3>2. QED
      BY <2>2, <2>3, <3>1
  <2>5. PICK j \in 1 .. L : raw[i] = n + j
    <3>1. raw[i] - n \in 1 .. L /\ raw[i] = n + (raw[i] - n)
      BY <2>3, <2>4
    <3>2. QED
      BY <3>1
  <2>6. t[raw[i]] \in DigitChars \cup Signs
    BY <1>1, <1>2, <2>5 DEF Figures
  <2>7. t[raw[i]] \notin Letters /\ "*" \notin Letters
    <3>1. \A c \in DigitChars \cup Signs : c \notin Letters
      BY CharactersAre
    <3>2. "*" \notin Letters
      BY CharactersAre
    <3>3. QED
      BY <2>6, <3>1, <3>2
  <2>8. QED
    BY <1>17, <2>1, <2>7
<1>22. 1 \in 1 .. n + 1 /\ n + 1 \in 1 .. n + 1
  OBVIOUS
<1>23. raw[1] = 1 /\ raw[n + 1] = n + 1
  BY <1>11, <1>22
<1>24. raw = Kept(t)
  BY <1>9, <1>10
<1>25. /\ Kept(t)[1] = 1 /\ Kept(t)[n + 1] = n + 1 /\ Kept(t)[N] = n + Len(w)
       /\ \A i \in 1 .. N : Kept(t)[i] <= 1 => i = 1
  BY <1>1, <1>13, <1>14, <1>23, <1>24
<1>26. /\ Len(Normalized(t)) = N /\ DOMAIN Normalized(t) = 1 .. N
       /\ \A i \in 1 .. n : Normalized(t)[i] = name_variants_list[k].name[i]
       /\ Normalized(t)[n + 1] \in DigitChars
       /\ \A i \in n + 1 .. N : Normalized(t)[i] \notin Letters
  BY <1>15, <1>18, <1>19, <1>20, <1>21
<1>27. QED
  BY <1>12, <1>25, <1>26 DEF WhatRemains

\* In t the book of name k is found, and all of w as its numbers.
FoundWith(t, k, n, w) ==
  /\ find_book(t, 1) # {}
  /\ \A f \in find_book(t, 1) : f.book = name_variants_list[k].book /\ f.numbers = <<n + 1, n + Len(w) + 1>>

(* The name is found, and all that is spelled after it. *)
LEMMA NameIsFound ==
  ASSUME NEW t, NEW k, NEW n \in Nat \ {0}, NEW w, NameAndNumbers(t, k, n, w)
  PROVE  FoundWith(t, k, n, w)
<1> DEFINE name == name_variants_list[k].name
<1>1. PICK L \in Nat \ {0} : L = Len(w)
  BY DEF NameAndNumbers
<1>2. k \in DOMAIN name_variants_list /\ n = Len(name) /\ IsSequence(t)
  BY DEF NameAndNumbers
<1>3. PICK s : s = Normalized(t)
  OBVIOUS
<1>4. PICK N \in Nat :
        /\ n + 1 <= N /\ Len(s) = N /\ DOMAIN s = 1 .. N
        /\ Kept(t)[1] = 1 /\ Kept(t)[n + 1] = n + 1 /\ Kept(t)[N] = n + L
        /\ \A i \in 1 .. N : Kept(t)[i] <= 1 => i = 1
        /\ \A i \in 1 .. n : s[i] = name[i]
        /\ s[n + 1] \in DigitChars
        /\ \A i \in n + 1 .. N : s[i] \notin Letters
  <2>1. PICK N \in Nat : WhatRemains(t, k, n, w, N)
    BY WhatIsKept
  <2>2. QED
    BY <1>1, <1>3, <2>1 DEF WhatRemains
<1>5. NumbersEnd(s, 1 + n) = N + 1
  <2>1. {i \in 1 + n .. Len(s) : s[i] \in Letters \ number_postfix_chars} = {}
    <3>1. \A i \in 1 + n .. Len(s) : i \in n + 1 .. N
      BY <1>4
    <3>2. QED
      BY <1>4, <3>1
  <2>2. {i \in 1 + n .. Len(s) : s[i] \in Letters \ number_postfix_chars} \cup {Len(s) + 1} = {N + 1}
    BY <1>4, <2>1
  <2>3. {N + 1} \in SUBSET Nat /\ {N + 1} # {}
    OBVIOUS
  <2>4. Min({N + 1}) \in {N + 1}
    BY <2>3, MinOfNumbers
  <2>5. QED
    BY <2>2, <2>4 DEF NumbersEnd, for_each_char_while
<1>6. ValidatedEnd(s, 1 + n) = N + 1
  <2>1. ~(N + 1 <= Len(s))
    BY <1>4
  <2>2. QED
    BY <1>5, <2>1 DEF ValidatedEnd
<1>7. /\ Candidate(t, k, 1).book = name_variants_list[k].book
      /\ Candidate(t, k, 1).origin = <<1, n + L + 1>>
      /\ Candidate(t, k, 1).numbers = <<n + 1, n + L + 1>>
  <2>1. Kept(t)[1 + n] = n + 1 /\ Kept(t)[(N + 1) - 1] + 1 = n + L + 1
    <3>1. 1 + n = n + 1 /\ (N + 1) - 1 = N
      OBVIOUS
    <3>2. QED
      BY <1>4, <3>1
  <2>2. n + 1 <= n + L + 1
    OBVIOUS
  <2>3. QED
    BY <1>2, <1>3, <1>4, <1>6, <2>1, <2>2 DEF Candidate
<1>8. <<k, 1>> \in Hits(t, 1)
  <2>1. Occurs(name, s, 1)
    <3>1. 1 + Len(name) - 1 <= Len(s)
      BY <1>2, <1>4
    <3>2. \A i \in 1 .. Len(name) : s[1 + i - 1] = name[i]
      <4>1. \A i \in 1 .. Len(name) : 1 + i - 1 = i /\ i \in 1 .. n
        BY <1>2
      <4>2. QED
        BY <1>4, <4>1
    <3> HIDE DEF name
    <3>3. QED
      BY <3>1, <3>2 DEF Occurs
  <2>2. NumbersFound(s, 1 + Len(name))
    <3>1. n + 1 \in 1 + n .. NumbersEnd(s, 1 + n) - 1
      BY <1>4, <1>5
    <3>2. QED
      BY <1>2, <1>4, <3>1 DEF NumbersFound
  <2>3. 1 \in DOMAIN s /\ Candidate(t, k, 1).origin[1] = 1 /\ Candidate(t, k, 1).origin[2] = n + L + 1
    BY <1>4, <1>7
  <2>9. PICK x : x = <<k, 1>>
    OBVIOUS
  <2>4. x = <<k, 1>> /\ x[1] = k /\ x[2] = 1
    BY <2>9
  <2>5. x \in (DOMAIN name_variants_list) \X DOMAIN Normalized(t)
    BY <1>2, <1>3, <2>3, <2>4
  <2>6. LET o == Candidate(t, x[1], x[2]).origin IN o[1] <= 1 /\ 1 < o[2]
    BY <2>3, <2>4
  <2>7. x \in Hits(t, 1)
    BY <1>3, <2>1, <2>2, <2>4, <2>5, <2>6 DEF Hits
  <2>8. QED
    BY <2>4, <2>7
<1>9. find_book(t, 1) # {}
  BY <1>8 DEF find_book
<1>10. ASSUME NEW f \in find_book(t, 1) PROVE f = Candidate(t, k, 1)
  <2>1. PICK l, q : /\ <<l, q>> \in Hits(t, 1) /\ f = Candidate(t, l, q) /\ f.name = <<l, q>>
                    /\ \A x \in Hits(t, 1) : x[1] <= l
    BY <1>2, FoundParts
  <2>2. /\ l \in DOMAIN name_variants_list /\ q \in 1 .. N /\ Occurs(name_variants_list[l].name, s, q)
        /\ Candidate(t, l, q).origin[1] <= 1
    <3>1. l \in DOMAIN name_variants_list /\ q \in 1 .. N /\ Occurs(name_variants_list[l].name, s, q)
      BY <1>2, <1>3, <1>4, <2>1, HitParts
    <3>2. PICK x : x = <<l, q>>
      OBVIOUS
    <3>3. LET o == Candidate(t, x[1], x[2]).origin IN o[1] <= 1 /\ 1 < o[2]
      BY <2>1, <3>2 DEF Hits
    <3>4. x[1] = l /\ x[2] = q
      BY <3>2
    <3>5. QED
      BY <3>1, <3>3, <3>4
  <2>3. q = 1
    <3>1. Candidate(t, l, q).origin[1] = Kept(t)[q]
      BY DEF Candidate
    <3>2. QED
      BY <1>4, <2>2, <3>1
  <2>4. PICK m \in Nat \ {0} : m = Len(name_variants_list[l].name)
                              /\ \A i \in 2 .. m : name_variants_list[l].name[i] \in Letters
    BY <2>2, NameParts
  <2>5. m <= n
    <3>1. SUFFICES ASSUME ~(m <= n) PROVE FALSE
      OBVIOUS
    <3>2. 1 + m - 1 <= N /\ \A i \in 1 .. m : s[1 + i - 1] = name_variants_list[l].name[i]
      BY <1>4, <2>2, <2>3, <2>4 DEF Occurs
    <3>3. m \in 2 .. m /\ m \in 1 .. m /\ 1 + m - 1 = m /\ m \in n + 1 .. N
      BY <3>1, <3>2
    <3>4. s[m] = name_variants_list[l].name[m]
      BY <3>2, <3>3
    <3>5. QED
      BY <1>4, <2>4, <3>3, <3>4
  <2>6. l < k \/ (l = k /\ q = 1)
    <3>1. 1 <= q /\ q + Len(name_variants_list[l].name) <= 1 + Len(name_variants_list[k].name)
      BY <1>2, <2>3, <2>4, <2>5
    <3>2. <<l, q>> \in Hits(t, 1) /\ <<k, 1>> \in Hits(t, 1)
      BY <1>8, <2>1
    <3>3. QED
      BY <1>2, <3>1, <3>2, PartIsEarlier
  <2>7. k <= l
    <3>1. PICK x : x = <<k, 1>>
      OBVIOUS
    <3>2. x[1] = k /\ x \in Hits(t, 1)
      BY <1>8, <3>1
    <3>3. QED
      BY <2>1, <3>2
  <2>8. k \in Nat /\ l \in Nat
    <3>1. DOMAIN name_variants_list = 1 .. Len(name_variants_list) /\ Len(name_variants_list) \in Nat
      BY NamesAssumption, Sequence DEF NamesFit
    <3>2. QED
      BY <1>2, <2>2, <3>1
  <2>9. QED
    BY <2>1, <2>3, <2>6, <2>7, <2>8
<1>11. QED
  BY <1>1, <1>7, <1>9, <1>10 DEF FoundWith

(* Sequences are the same if their elements are. *)
LEMMA SameElements ==
  ASSUME NEW S, NEW a \in Seq(S), NEW b \in Seq(S), Len(a) = Len(b), \A i \in 1 .. Len(a) : a[i] = b[i]
  PROVE  a = b
OBVIOUS

(* The rest of a sequence is its first element and what follows. *)
LEMMA RestFrom ==
  ASSUME NEW S, NEW w \in Seq(S), NEW i \in 1 .. Len(w)
  PROVE  <<w[i]>> \o SubSeq(w, i + 1, Len(w)) = SubSeq(w, i, Len(w))
<1>1. PICK L \in Nat : L = Len(w)
  OBVIOUS
<1>2. PICK a : a = SubSeq(w, i + 1, L)
  OBVIOUS
<1>3. PICK b : b = SubSeq(w, i, L)
  OBVIOUS
<1>4. a \in Seq(S) /\ Len(a) = L - i /\ \A j \in 1 .. L - i : a[j] = w[i + j]
  BY <1>1, <1>2
<1>5. b \in Seq(S) /\ Len(b) = L - i + 1 /\ \A j \in 1 .. L - i + 1 : b[j] = w[i + j - 1]
  BY <1>1, <1>3
<1>6. PICK x : x = <<w[i]>>
  OBVIOUS
<1>7. x \in Seq(S) /\ Len(x) = 1 /\ x[1] = w[i]
  BY <1>6
<1>8. Concat(x \o a, S, x, a)
  BY <1>4, <1>7, ConcatIs
<1>9. PICK y : y = x \o a
  OBVIOUS
<1>10. y \in Seq(S) /\ Len(y) = 1 + (L - i) /\ y[1] = w[i] /\ \A j \in 1 .. L - i : y[1 + j] = w[i + j]
  BY <1>4, <1>7, <1>8, <1>9 DEF Concat
<1>11. ASSUME NEW j \in 1 .. L - i + 1 PROVE y[j] = b[j]
  <2>1. CASE j = 1
    <3>1. i + 1 - 1 = i
      OBVIOUS
    <3>2. QED
      BY <1>5, <1>10, <2>1, <3>1
  <2>2. CASE j # 1
    <3>1. j - 1 \in 1 .. L - i /\ 1 + (j - 1) = j /\ i + (j - 1) = i + j - 1
      BY <1>1, <2>2
    <3>2. QED
      BY <1>5, <1>10, <3>1
  <2>3. QED
    BY <2>1, <2>2
<1>12. Len(y) = Len(b) /\ \A j \in 1 .. Len(y) : y[j] = b[j]
  <2>1. 1 + (L - i) = L - i + 1
    BY <1>1
  <2>2. QED
    BY <1>5, <1>10, <1>11, <2>1
<1>13. y = b
  BY <1>5, <1>10, <1>12, SameElements
<1>14. QED
  BY <1>1, <1>2, <1>3, <1>6, <1>9, <1>13

(* Of digits and the characters of a citation nothing is normalized. *)
LEMMA NothingNormalized ==
  ASSUME NEW w \in Seq(Figures)
  PROVE  normalize_passage_text(w) = w
<1>1. PICK L \in Nat : L = Len(w)
  OBVIOUS
<1> DEFINE Body(g, i) ==
             IF i > Len(w) THEN << >>
             ELSE IF PostfixLength(w, i) > 0 THEN g[i + PostfixLength(w, i)]
             ELSE IF w[i] \in Letters \cup Whitespaces THEN g[i + 1]
             ELSE <<IF w[i] \in Lines THEN "-" ELSE w[i]>> \o g[i + 1]
           rest == CHOOSE g : g = [i \in 1 .. Len(w) + 1 |-> Body(g, i)]
<1>2. normalize_passage_text(w) = rest[1]
  BY DEF normalize_passage_text
<1>3. ASSUME NEW i \in 1 .. L
      PROVE  w[i] \notin Letters \cup Whitespaces /\ (w[i] \in Lines => w[i] = "-")
  <2>1. w[i] \in DigitChars \cup Signs
    BY <1>1 DEF Figures
  <2>2. QED
    BY <2>1, CharactersAre
<1>4. ASSUME NEW i \in 1 .. L PROVE PostfixLength(w, i) = 0
  <2>1. ASSUME NEW j \in DOMAIN number_postfixes, Occurs(number_postfixes[j], w, i) PROVE FALSE
    <3>1. number_postfixes[j] # << >> /\ number_postfixes[j][1] \in Letters
      BY CharactersAssumption DEF CharactersFit
    <3>2. IsSequence(number_postfixes[j])
      BY NamesAssumption DEF NamesFit
    <3>3. 1 \in 1 .. Len(number_postfixes[j])
      BY <3>1, <3>2 DEF IsSequence
    <3>4. w[i + 1 - 1] = number_postfixes[j][1] /\ i + 1 - 1 = i
      BY <2>1, <3>3 DEF Occurs
    <3>5. QED
      BY <1>3, <3>1, <3>4
  <2>2. {j \in DOMAIN number_postfixes : Occurs(number_postfixes[j], w, i)} = {}
    BY <2>1
  <2>3. QED
    BY <2>2 DEF PostfixLength
<1>5. ASSUME NEW g, NEW i \in 1 .. L PROVE Body(g, i) = <<w[i]>> \o g[i + 1]
  <2>1. ~(i > Len(w)) /\ ~(PostfixLength(w, i) > 0)
    BY <1>1, <1>4
  <2>2. (IF w[i] \in Lines THEN "-" ELSE w[i]) = w[i]
    BY <1>3
  <2>3. QED
    BY <1>3, <2>1, <2>2
<1>6. ASSUME NEW g PROVE Body(g, L + 1) = << >>
  BY <1>1
<1> HIDE DEF Body
<1> DEFINE h == [i \in 1 .. L + 1 |-> SubSeq(w, i, L)]
<1>7. SubSeq(w, L + 1, L) = << >> /\ L + 1 \in 1 .. L + 1
  BY <1>1
<1>8. ASSUME NEW i \in 1 .. L + 1 PROVE h[i] = Body(h, i)
  <2>1. CASE i \in 1 .. L
    <3>1. i + 1 \in 1 .. L + 1
      BY <2>1
    <3>2. <<w[i]>> \o SubSeq(w, i + 1, L) = SubSeq(w, i, L)
      BY <1>1, <2>1, RestFrom
    <3>3. h[i] = SubSeq(w, i, L) /\ h[i + 1] = SubSeq(w, i + 1, L)
      BY <3>1
    <3>4. Body(h, i) = <<w[i]>> \o h[i + 1]
      BY <1>5, <2>1
    <3> HIDE DEF h
    <3>5. QED
      BY <3>2, <3>3, <3>4, <1>1
  <2>2. CASE i = L + 1
    <3>1. h[i] = << >>
      BY <1>7, <2>2
    <3>2. Body(h, i) = << >>
      BY <1>6, <2>2
    <3>3. QED
      BY <3>1, <3>2
  <2>3. i \in 1 .. L \/ i = L + 1
    OBVIOUS
  <2>4. QED
    BY <2>1, <2>2, <2>3
<1>9. rest = [i \in 1 .. L + 1 |-> Body(rest, i)]
  <2>1. h = [i \in 1 .. L + 1 |-> Body(h, i)]
    BY <1>8
  <2> HIDE DEF h
  <2>2. QED
    BY <1>1, <2>1
<1> HIDE DEF rest
<1>10. \A i \in 1 .. L + 1 : rest[i] = Body(rest, i)
  BY <1>9
<1> DEFINE D == {i \in 1 .. L + 1 : rest[i] # h[i]}
<1>11. D = {}
  <2>1. SUFFICES ASSUME D # {} PROVE FALSE
    OBVIOUS
  <2>2. PICK i \in D : \A j \in D : i >= j
    <3>1. D \in SUBSET (1 .. L + 1) /\ L + 1 \in Nat
      OBVIOUS
    <3>2. QED
      <4> HIDE DEF D
      <4> QED
        BY <2>1, <3>1, MaxOfNumbers
  <2>3. CASE i = L + 1
    <3>1. rest[i] = Body(rest, L + 1) /\ h[i] = Body(h, L + 1)
      BY <1>7, <1>8, <1>10, <2>3
    <3>2. QED
      BY <1>6, <3>1
  <2>4. CASE i \in 1 .. L
    <3>1. i + 1 \in 1 .. L + 1 /\ ~(i >= i + 1) /\ i \in 1 .. L + 1
      BY <2>4
    <3>2. rest[i + 1] = h[i + 1]
      BY <2>2, <3>1
    <3>3. rest[i] = <<w[i]>> \o rest[i + 1] /\ h[i] = <<w[i]>> \o h[i + 1]
      <4> HIDE DEF h
      <4> QED
        BY <1>5, <1>8, <1>10, <2>4, <3>1
    <3>4. rest[i] # h[i]
      OBVIOUS
    <3> HIDE DEF h, D
    <3>5. QED
      BY <3>2, <3>3, <3>4
  <2>5. i \in 1 .. L + 1
    OBVIOUS
  <2>6. QED
    BY <2>3, <2>4, <2>5
<1>12. rest[1] = SubSeq(w, 1, L)
  <2>1. 1 \in 1 .. L + 1
    OBVIOUS
  <2>2. rest[1] = h[1]
    <3> HIDE DEF h
    <3> QED
      BY <1>11, <2>1
  <2>3. QED
    BY <2>1, <2>2
<1>13. SubSeq(w, 1, L) = w
  BY <1>1
<1>14. QED
  BY <1>2, <1>12, <1>13

(* What parse() makes of such a text. *)
LEMMA TemplateOfCited ==
  ASSUME NEW t, NEW k, NEW n \in Nat \ {0}, NEW w, NameAndNumbers(t, k, n, w),
         NEW numbers, NEW chars, Spells(w, numbers, chars)
  PROVE  /\ find_book(t, 1) # {}
         /\ \A f \in find_book(t, 1) :
              /\ f.book = name_variants_list[k].book
              /\ create_passage_template(t, f.numbers) = [numbers |-> numbers, chars |-> chars]
<1>1. PICK L \in Nat \ {0} : L = Len(w) /\ w \in Seq(Figures)
  BY DEF NameAndNumbers
<1>2. IsSequence(t) /\ Len(t) = n + L /\ \A i \in 1 .. L : t[n + i] = w[i]
  BY <1>1 DEF NameAndNumbers
<1>3. SubSeq(t, n + 1, (n + L + 1) - 1) = w
  <2>1. PICK a : a = SubSeq(t, n + 1, n + L)
    OBVIOUS
  <2>2. PICK T : T = ToSet(t) /\ t \in Seq(T)
    BY <1>2 DEF IsSequence
  <2>3. a \in Seq(T) /\ Len(a) = L /\ \A i \in 1 .. L : a[i] = t[n + i]
    <3>1. PICK p \in Nat, q \in Nat : p = n + 1 /\ q = n + L
      OBVIOUS
    <3>2. 1 <= p /\ q <= Len(t) /\ a = SubSeq(t, p, q) /\ q - p + 1 = L
      BY <1>2, <2>1, <3>1
    <3>3. a \in Seq(T) /\ Len(a) = L /\ \A i \in 1 .. L : a[i] = t[p + i - 1]
      BY <2>2, <3>2
    <3>4. \A i \in 1 .. L : p + i - 1 = n + i
      BY <3>1
    <3>5. QED
      BY <3>3, <3>4
  <2>4. a = w
    <3>1. PICK U : U = T \cup Figures
      OBVIOUS
    <3>2. a \in Seq(U) /\ w \in Seq(U)
      BY <1>1, <2>3, <3>1
    <3>3. Len(a) = Len(w) /\ \A i \in 1 .. Len(a) : a[i] = w[i]
      BY <1>1, <1>2, <2>3
    <3>4. QED
      BY <3>2, <3>3, SameElements
  <2>5. (n + L + 1) - 1 = n + L
    OBVIOUS
  <2>6. QED
    BY <2>1, <2>4, <2>5
<1>4. TemplateOf(normalize_passage_text(w)) = [numbers |-> numbers, chars |-> chars]
  BY <1>1, NothingNormalized, TemplateOfSpelled
<1>5. FoundWith(t, k, n, w)
  BY NameIsFound
<1>6. ASSUME NEW f \in find_book(t, 1)
      PROVE  /\ f.book = name_variants_list[k].book
             /\ create_passage_template(t, f.numbers) = [numbers |-> numbers, chars |-> chars]
  <2>1. f.book = name_variants_list[k].book /\ f.numbers = <<n + 1, n + L + 1>>
    BY <1>1, <1>5, <1>6 DEF FoundWith
  <2>2. f.numbers[1] = n + 1 /\ f.numbers[2] = n + L + 1
    BY <2>1
  <2>3. QED
    BY <1>3, <1>4, <2>1, <2>2 DEF create_passage_template
<1>7. find_book(t, 1) # {}
  BY <1>5 DEF FoundWith
<1>8. QED
  BY <1>6, <1>7

-----------------------------------------------------------------------------
(* Citations                                                                 *)
(* One or two sequences that are flattened. *)
LEMMA FlattenShort ==
  ASSUME NEW s, NEW m \in {1, 2}, s = [i \in 1 .. m |-> s[i]]
  PROVE  FlattenSeq(s) = IF m = 1 THEN s[1] ELSE s[1] \o s[2]
<1> DEFINE Body(g, i) == IF i = 1 THEN s[i] ELSE g[i - 1] \o s[i]
           flatten == CHOOSE g : g = [i \in 1 .. m |-> Body(g, i)]
           h == [i \in 1 .. m |-> IF i = 1 THEN s[1] ELSE s[1] \o s[2]]
<1>1. Len(s) = m /\ m \in 1 .. m /\ 1 \in 1 .. m
  <2>1. s \in [1 .. m -> {s[i] : i \in 1 .. m}] /\ m \in Nat
    OBVIOUS
  <2>2. Len(s) = m
    BY <2>1
  <2>3. QED
    BY <2>2
<1>2. FlattenSeq(s) = flatten[m]
  <2>1. Len(s) # 0
    BY <1>1
  <2>2. QED
    BY <1>1, <2>1 DEF FlattenSeq
<1>3. ASSUME NEW i \in 1 .. m PROVE h[i] = Body(h, i)
  <2>1. CASE i = 1
    BY <2>1
  <2>2. CASE i # 1
    <3>1. i = 2 /\ i - 1 = 1 /\ h[1] = s[1]
      BY <1>1, <2>2
    <3>2. QED
      BY <3>1
  <2>3. QED
    BY <2>1, <2>2
<1>4. h = [i \in 1 .. m |-> Body(h, i)]
  BY <1>3
<1>5. flatten = [i \in 1 .. m |-> Body(flatten, i)]
  <2> HIDE DEF h, Body
  <2> QED
    BY <1>4
<1>6. PICK g : g = flatten /\ \A i \in 1 .. m : g[i] = IF i = 1 THEN s[i] ELSE g[i - 1] \o s[i]
  <2> HIDE DEF flatten
  <2> QED
    BY <1>5
<1>7. g[1] = s[1]
  BY <1>1, <1>6
<1>8. m = 2 => g[2] = s[1] \o s[2]
  <2>1. m = 2 => 2 \in 1 .. m /\ 2 - 1 = 1 /\ 2 # 1
    OBVIOUS
  <2>2. QED
    BY <1>6, <1>7, <2>1
<1>9. QED
  <2>1. flatten[m] = g[m]
    BY <1>6
  <2> HIDE DEF flatten
  <2>2. QED
    BY <1>2, <1>7, <1>8, <2>1

\* What a citation spells.
NumbersIn(r) ==
  IF r.from = r.to THEN <<r.from.chapter, r.from.verse>>
  ELSE IF r.from.chapter = r.to.chapter THEN <<r.from.chapter, r.from.verse, r.to.verse>>
  ELSE <<r.from.chapter, r.from.verse, r.to.chapter, r.to.verse>>
CharsIn(r) ==
  IF r.from = r.to THEN <<",">>
  ELSE IF r.from.chapter = r.to.chapter THEN <<",", "-">> ELSE <<",", "-", ",">>

(* Characters put together. *)
LEMMA JoinShort ==
  ASSUME NEW S, NEW x \in S, NEW y \in S, NEW z \in S
  PROVE  /\ Join(<<x>>, S, << >>, x, << >>) /\ Join(<<x, y>>, S, <<x>>, y, << >>)
         /\ Join(<<x, y, z>>, S, <<x>>, y, <<z>>)
<1>1. Len(<< >>) = 0 /\ 1 .. 0 = {} /\ 1 .. 1 = {1}
  OBVIOUS
<1>2. Join(<<x>>, S, << >>, x, << >>)
  <2>1. <<x>> \in Seq(S) /\ Len(<<x>>) = 1 /\ <<x>>[1] = x
    OBVIOUS
  <2>2. QED
    BY <1>1, <2>1 DEF Join
<1>3. Join(<<x, y>>, S, <<x>>, y, << >>)
  <2>1. <<x, y>> \in Seq(S) /\ Len(<<x, y>>) = 2 /\ <<x, y>>[1] = x /\ <<x, y>>[2] = y
    OBVIOUS
  <2>2. Len(<<x>>) = 1 /\ <<x>>[1] = x
    OBVIOUS
  <2>3. QED
    BY <1>1, <2>1, <2>2 DEF Join
<1>4. Join(<<x, y, z>>, S, <<x>>, y, <<z>>)
  <2>1. /\ <<x, y, z>> \in Seq(S) /\ Len(<<x, y, z>>) = 3
        /\ <<x, y, z>>[1] = x /\ <<x, y, z>>[2] = y /\ <<x, y, z>>[3] = z
    OBVIOUS
  <2>2. Len(<<x>>) = 1 /\ <<x>>[1] = x /\ Len(<<z>>) = 1 /\ <<z>>[1] = z
    OBVIOUS
  <2>3. QED
    BY <1>1, <2>1, <2>2 DEF Join
<1>5. QED
  BY <1>2, <1>3, <1>4

(* The numbers and the characters put together. *)
LEMMA Together ==
  ASSUME NEW a \in Nat, NEW b \in Nat, NEW c \in Nat, NEW d \in Nat
  PROVE  /\ Concat(<<a, b, c>>, Nat, <<a, b>>, <<c>>) /\ Concat(<<a, b, c, d>>, Nat, <<a, b>>, <<c, d>>)
         /\ Concat(<<a, b>>, Nat, <<a>>, <<b>>)
         /\ Join(<<",">>, Signs, << >>, ",", << >>) /\ Join(<<",", "-">>, Signs, <<",">>, "-", << >>)
         /\ Join(<<",", "-", ",">>, Signs, <<",">>, "-", <<",">>)
<1>1. Concat(<<a, b>>, Nat, <<a>>, <<b>>)
  <2>1. PICK x : x = <<a, b>>
    OBVIOUS
  <2>2. x \in Seq(Nat) /\ Len(x) = 2 /\ x[1] = a /\ x[2] = b
    BY <2>1
  <2>3. PICK y : y = <<a>>
    OBVIOUS
  <2>4. PICK z : z = <<b>>
    OBVIOUS
  <2>5. Len(y) = 1 /\ y[1] = a /\ Len(z) = 1 /\ z[1] = b
    BY <2>3, <2>4
  <2>6. (\A i \in 1 .. Len(y) : x[i] = y[i]) /\ \A i \in 1 .. Len(z) : x[Len(y) + i] = z[i]
    <3>1. \A i \in 1 .. 1 : i = 1 /\ 1 + i = 2
      OBVIOUS
    <3>2. QED
      BY <2>2, <2>5, <3>1
  <2>7. Len(x) = Len(y) + Len(z)
    BY <2>2, <2>5
  <2>8. Concat(x, Nat, y, z)
    BY <2>2, <2>6, <2>7 DEF Concat
  <2>9. QED
    BY <2>1, <2>3, <2>4, <2>8
<1>2. Concat(<<a, b, c>>, Nat, <<a, b>>, <<c>>)
  BY DEF Concat
<1>3. Concat(<<a, b, c, d>>, Nat, <<a, b>>, <<c, d>>)
  BY DEF Concat
<1>4. "," \in Signs /\ "-" \in Signs
  BY DEF Signs
<1>5. /\ Join(<<",">>, Signs, << >>, ",", << >>) /\ Join(<<",", "-">>, Signs, <<",">>, "-", << >>)
      /\ Join(<<",", "-", ",">>, Signs, <<",">>, "-", <<",">>)
  BY <1>4, JoinShort
<1>6. QED
  BY <1>1, <1>2, <1>3, <1>5

CanBeWritten(n) == n \in Nat /\ n <= UintMax /\ \E w \in Numerals : NumberOf(w) = n

(* A place is written as its chapter and its verse. *)
LEMMA CiteSpells ==
  ASSUME NEW r, CanBeWritten(r.chapter), CanBeWritten(r.verse)
  PROVE  Spells(Cite(r), <<r.chapter, r.verse>>, <<",">>)
<1>1. PICK a, b : a = Written(r.chapter) /\ b = Written(r.verse)
  OBVIOUS
<1>2. Spells(a, <<r.chapter>>, << >>) /\ Spells(b, <<r.verse>>, << >>)
  BY <1>1, WrittenSpells DEF CanBeWritten
<1>3. a \in Seq(Figures) /\ b \in Seq(Figures) /\ "," \in Figures /\ "," \in Signs
  <2>1. "," \in Figures /\ "," \in Signs
    BY DEF Signs, Figures
  <2>2. QED
    BY <1>2, <2>1, SpelledText
<1>4. Join(a \o <<",">> \o b, Figures, a, ",", b)
  BY <1>3, JoinIs
<1>5. r.chapter \in Nat /\ r.verse \in Nat
  BY DEF CanBeWritten
<1>6. Concat(<<r.chapter, r.verse>>, Nat, <<r.chapter>>, <<r.verse>>)
      /\ Join(<<",">>, Signs, << >>, ",", << >>)
  BY <1>5, Together
<1>7. Cite(r) = a \o <<",">> \o b
  BY <1>1 DEF Cite
<1>8. QED
  BY <1>2, <1>3, <1>4, <1>6, <1>7, JoinSpells

(* The numbers of a range that is cited can be written. *)
LEMMA CitedNumbers ==
  ASSUME NEW b, NEW r, IsCited(b, r)
  PROVE  /\ CanBeWritten(r.from.chapter) /\ CanBeWritten(r.from.verse)
         /\ CanBeWritten(r.to.chapter) /\ CanBeWritten(r.to.verse)
<1>1. IsReference(r.from) /\ IsReference(r.to) /\ Writable(r)
  BY DEF IsCited
<1>2. /\ r.from.chapter \in Nat /\ r.from.verse \in Nat /\ r.to.chapter \in Nat /\ r.to.verse \in Nat
  BY <1>1 DEF IsReference, Members
<1>3. QED
  BY <1>1, <1>2 DEF Writable, CanBeWritten

(* A citation spells its numbers. *)
LEMMA CitationSpells ==
  ASSUME NEW b, NEW r, IsCited(b, r)
  PROVE  Spells(Citation(r), NumbersIn(r), CharsIn(r))
<1>1. /\ CanBeWritten(r.from.chapter) /\ CanBeWritten(r.from.verse)
      /\ CanBeWritten(r.to.chapter) /\ CanBeWritten(r.to.verse)
  BY CitedNumbers
<1>2. /\ r.from.chapter \in Nat /\ r.from.verse \in Nat /\ r.to.chapter \in Nat /\ r.to.verse \in Nat
  BY <1>1 DEF CanBeWritten
<1>3. Spells(Cite(r.from), <<r.from.chapter, r.from.verse>>, <<",">>)
  BY <1>1, CiteSpells
<1>4. CASE r.from = r.to
  BY <1>3, <1>4 DEF Citation, NumbersIn, CharsIn
<1>5. PICK a : a = Cite(r.from)
  OBVIOUS
<1>6. a \in Seq(Figures) /\ "-" \in Figures /\ "-" \in Signs
  <2>1. "-" \in Figures /\ "-" \in Signs
    BY DEF Signs, Figures
  <2>2. QED
    BY <1>3, <1>5, <2>1, SpelledText
<1>7. CASE r.from # r.to /\ r.from.chapter = r.to.chapter
  <2>1. PICK w : w = Written(r.to.verse)
    OBVIOUS
  <2>2. Spells(w, <<r.to.verse>>, << >>)
    BY <1>1, <2>1, WrittenSpells DEF CanBeWritten
  <2>3. w \in Seq(Figures)
    BY <2>2, SpelledText
  <2>4. Join(a \o <<"-">> \o w, Figures, a, "-", w)
    BY <1>6, <2>3, JoinIs
  <2>5. Citation(r) = a \o <<"-">> \o w
    BY <1>5, <1>7, <2>1 DEF Citation
  <2>6. Concat(<<r.from.chapter, r.from.verse, r.to.verse>>, Nat, <<r.from.chapter, r.from.verse>>, <<r.to.verse>>)
        /\ Join(<<",", "-">>, Signs, <<",">>, "-", << >>)
    BY <1>2, Together
  <2>7. Spells(Citation(r), <<r.from.chapter, r.from.verse, r.to.verse>>, <<",", "-">>)
    BY <1>3, <1>5, <1>6, <2>2, <2>4, <2>5, <2>6, JoinSpells
  <2>8. QED
    BY <1>7, <2>7 DEF NumbersIn, CharsIn
<1>8. CASE r.from # r.to /\ r.from.chapter # r.to.chapter
  <2>1. PICK w : w = Cite(r.to)
    OBVIOUS
  <2>2. Spells(w, <<r.to.chapter, r.to.verse>>, <<",">>)
    BY <1>1, <2>1, CiteSpells
  <2>3. w \in Seq(Figures)
    BY <2>2, SpelledText
  <2>4. Join(a \o <<"-">> \o w, Figures, a, "-", w)
    BY <1>6, <2>3, JoinIs
  <2>5. Citation(r) = a \o <<"-">> \o w
    BY <1>5, <1>8, <2>1 DEF Citation
  <2>6. Concat(<<r.from.chapter, r.from.verse, r.to.chapter, r.to.verse>>, Nat,
               <<r.from.chapter, r.from.verse>>, <<r.to.chapter, r.to.verse>>)
        /\ Join(<<",", "-", ",">>, Signs, <<",">>, "-", <<",">>)
    BY <1>2, Together
  <2>7. Spells(Citation(r), <<r.from.chapter, r.from.verse, r.to.chapter, r.to.verse>>, <<",", "-", ",">>)
    BY <1>3, <1>5, <1>6, <2>2, <2>4, <2>5, <2>6, JoinSpells
  <2>8. QED
    BY <1>8, <2>7 DEF NumbersIn, CharsIn
<1>9. QED
  BY <1>4, <1>7, <1>8

(* A name with what is spelled after it. *)
LEMMA NamePut ==
  ASSUME NEW k \in DOMAIN name_variants_list, NEW w, NEW numbers, NEW chars, Spells(w, numbers, chars),
         NEW n, n = Len(name_variants_list[k].name)
  PROVE  n \in Nat \ {0} /\ NameAndNumbers(name_variants_list[k].name \o w, k, n, w)
<1>1. PICK name : name = name_variants_list[k].name
  OBVIOUS
<1>2. name \in Seq(ToSet(name)) /\ n = Len(name) /\ n \in Nat \ {0}
  BY <1>1, NameParts, NamesAssumption DEF NamesFit, IsSequence
<1>3. w \in Seq(Figures) /\ Len(w) \in Nat \ {0} /\ w[1] \in DigitChars /\ w[Len(w)] \in DigitChars
  BY SpelledText
<1>4. PICK S : S = ToSet(name) \cup Figures
  OBVIOUS
<1>5. PICK t : t = name \o w
  OBVIOUS
<1>6. name \in Seq(S) /\ w \in Seq(S)
  BY <1>2, <1>3, <1>4
<1>7. Concat(t, S, name, w)
  BY <1>5, <1>6, ConcatIs
<1>8. t \in Seq(S)
  BY <1>7 DEF Concat
<1>9. IsSequence(t)
  <2>1. \A i \in 1 .. Len(t) : t[i] \in ToSet(t)
    BY <1>8 DEF ToSet
  <2>2. t \in Seq(ToSet(t))
    <3> HIDE DEF ToSet
    <3> QED
      BY <1>8, <2>1
  <2>3. QED
    BY <2>2 DEF IsSequence
<1>10. NameAndNumbers(t, k, n, w)
  BY <1>1, <1>2, <1>3, <1>7, <1>9 DEF NameAndNumbers, Concat
<1>11. QED
  BY <1>1, <1>2, <1>5, <1>10

(* One range that is cited. *)
LEMMA OneCited ==
  ASSUME NEW k \in DOMAIN name_variants_list, NEW l, l = <<l[1]>>
  PROVE  Cited(k, l) = name_variants_list[k].name \o Citation(l[1])
<1> DEFINE Body(i) == IF i = 1 THEN Citation(l[i]) ELSE <<";">> \o Citation(l[i])
<1>1. DOMAIN l = 1 .. 1
  <2>1. PICK x : x = l[1]
    OBVIOUS
  <2>2. DOMAIN <<x>> = 1 .. 1
    OBVIOUS
  <2>3. QED
    BY <2>1, <2>2
<1>2. PICK s : s = [i \in 1 .. 1 |-> Body(i)]
  OBVIOUS
<1>3. s = [i \in 1 .. 1 |-> s[i]] /\ s[1] = Body(1)
  <2> HIDE DEF Body
  <2> QED
    BY <1>2
<1>4. FlattenSeq(s) = s[1]
  BY <1>3, FlattenShort
<1>5. Body(1) = Citation(l[1])
  OBVIOUS
<1>6. Cited(k, l) = name_variants_list[k].name \o FlattenSeq(s)
  BY <1>1, <1>2 DEF Cited
<1>7. QED
  BY <1>3, <1>4, <1>5, <1>6

(* Two ranges that are cited. *)
LEMMA TwoCited ==
  ASSUME NEW k \in DOMAIN name_variants_list, NEW l, l = <<l[1], l[2]>>
  PROVE  Cited(k, l) = name_variants_list[k].name \o (Citation(l[1]) \o (<<";">> \o Citation(l[2])))
<1> DEFINE Body(i) == IF i = 1 THEN Citation(l[i]) ELSE <<";">> \o Citation(l[i])
<1>1. DOMAIN l = 1 .. 2
  <2>1. PICK x : x = l[1]
    OBVIOUS
  <2>2. PICK y : y = l[2]
    OBVIOUS
  <2>3. DOMAIN <<x, y>> = 1 .. 2
    OBVIOUS
  <2>4. QED
    BY <2>1, <2>2, <2>3
<1>2. PICK s : s = [i \in 1 .. 2 |-> Body(i)]
  OBVIOUS
<1>3. s = [i \in 1 .. 2 |-> s[i]] /\ s[1] = Body(1) /\ s[2] = Body(2)
  <2> HIDE DEF Body
  <2> QED
    BY <1>2
<1>4. FlattenSeq(s) = s[1] \o s[2]
  <2>1. 2 \in {1, 2} /\ 2 # 1
    OBVIOUS
  <2>2. FlattenSeq(s) = IF 2 = 1 THEN s[1] ELSE s[1] \o s[2]
    BY <1>3, <2>1, FlattenShort
  <2>3. QED
    BY <2>1, <2>2
<1>5. Body(1) = Citation(l[1])
  OBVIOUS
<1>6. Body(2) = <<";">> \o Citation(l[2])
  OBVIOUS
<1>7. Cited(k, l) = name_variants_list[k].name \o FlattenSeq(s)
  BY <1>1, <1>2 DEF Cited
<1>8. QED
  <2> HIDE DEF Body
  <2> QED
    BY <1>3, <1>4, <1>5, <1>6, <1>7

\* What two citations spell.
NumbersOfTwo(q, r) == NumbersIn(q) \o NumbersIn(r)
CharsOfTwo(q, r) == CharsIn(q) \o (<<";">> \o CharsIn(r))

(* What is in a citation, numbers and characters. *)
LEMMA SpelledParts ==
  ASSUME NEW w, NEW numbers, NEW chars, Spells(w, numbers, chars)
  PROVE  numbers \in Seq(Nat) /\ chars \in Seq(Signs) /\ Len(numbers) \in Nat \ {0} /\ Len(chars) = Len(numbers) - 1
BY DEF Spells, Plan

(* Two citations spell their numbers. *)
LEMMA TwoSpell ==
  ASSUME NEW b, NEW q, IsCited(b, q), NEW r, IsCited(b, r)
  PROVE  Spells(Citation(q) \o (<<";">> \o Citation(r)), NumbersOfTwo(q, r), CharsOfTwo(q, r))
<1>1. Spells(Citation(q), NumbersIn(q), CharsIn(q)) /\ Spells(Citation(r), NumbersIn(r), CharsIn(r))
  BY CitationSpells
<1>2. /\ NumbersIn(q) \in Seq(Nat) /\ NumbersIn(r) \in Seq(Nat)
      /\ CharsIn(q) \in Seq(Signs) /\ CharsIn(r) \in Seq(Signs)
  BY <1>1, SpelledParts
<1>3. Citation(q) \in Seq(Figures) /\ Citation(r) \in Seq(Figures)
  BY <1>1, SpelledText
<1>4. ";" \in Signs /\ ";" \in Figures
  BY DEF Signs, Figures
<1>5. Join(Citation(q) \o (<<";">> \o Citation(r)), Figures, Citation(q), ";", Citation(r))
  BY <1>3, <1>4, JoinIs
<1>6. Concat(NumbersOfTwo(q, r), Nat, NumbersIn(q), NumbersIn(r))
  BY <1>2, ConcatIs DEF NumbersOfTwo
<1>7. Join(CharsOfTwo(q, r), Signs, CharsIn(q), ";", CharsIn(r))
  BY <1>2, <1>4, JoinIs DEF CharsOfTwo
<1>8. QED
  BY <1>1, <1>4, <1>5, <1>6, <1>7, JoinSpells

\* The template of a citation.
TemplateOfOne(r) == [numbers |-> NumbersIn(r), chars |-> CharsIn(r)]
TemplateOfTwo(q, r) == [numbers |-> NumbersOfTwo(q, r), chars |-> CharsOfTwo(q, r)]

\* Of the text t of name k a book and a template are made.
BookAndTemplate(t, k, template_) ==
  /\ find_book(t, 1) # {}
  /\ \A f \in find_book(t, 1) :
       f.book = name_variants_list[k].book /\ create_passage_template(t, f.numbers) = template_

(* The template of a citation. *)
LEMMA OneFound ==
  ASSUME NEW k \in DOMAIN name_variants_list, NEW b, NEW l, l = <<l[1]>>, IsCited(b, l[1])
  PROVE  BookAndTemplate(Cited(k, l), k, TemplateOfOne(l[1]))
<1>1. PICK w : w = Citation(l[1])
  OBVIOUS
<1>2. Spells(w, NumbersIn(l[1]), CharsIn(l[1]))
  BY <1>1, CitationSpells
<1>3. PICK n : n = Len(name_variants_list[k].name)
  OBVIOUS
<1>4. n \in Nat \ {0} /\ NameAndNumbers(name_variants_list[k].name \o w, k, n, w)
  BY <1>2, <1>3, NamePut
<1>5. NameAndNumbers(Cited(k, l), k, n, w)
  BY <1>1, <1>4, OneCited
<1>6. QED
  BY <1>2, <1>4, <1>5, TemplateOfCited DEF BookAndTemplate, TemplateOfOne

(* The template of two citations. *)
LEMMA TwoFound ==
  ASSUME NEW k \in DOMAIN name_variants_list, NEW b, NEW l, l = <<l[1], l[2]>>, IsCited(b, l[1]), IsCited(b, l[2])
  PROVE  BookAndTemplate(Cited(k, l), k, TemplateOfTwo(l[1], l[2]))
<1>1. PICK w : w = Citation(l[1]) \o (<<";">> \o Citation(l[2]))
  OBVIOUS
<1>2. Spells(w, NumbersOfTwo(l[1], l[2]), CharsOfTwo(l[1], l[2]))
  BY <1>1, TwoSpell
<1>3. PICK n : n = Len(name_variants_list[k].name)
  OBVIOUS
<1>4. n \in Nat \ {0} /\ NameAndNumbers(name_variants_list[k].name \o w, k, n, w)
  BY <1>2, <1>3, NamePut
<1>5. NameAndNumbers(Cited(k, l), k, n, w)
  BY <1>1, <1>4, TwoCited
<1>6. QED
  BY <1>2, <1>4, <1>5, TemplateOfCited DEF BookAndTemplate, TemplateOfTwo

-----------------------------------------------------------------------------
(* What a citation means                                                     *)
(* The characters that are tried are those of the template. *)
LEMMA CharsTried ==
  ASSUME NEW t, WholeTemplate(t), t.numbers # << >>
  PROVE  /\ \A i \in DOMAIN t.chars : t.chars[i] # "-" => t.chars[i] \in ToSet(DownChars(t))
         /\ (\E i \in DOMAIN t.chars : t.chars[i] # "-") =>
              \A c \in ToSet(DownChars(t)) : c # "-" /\ \E i \in DOMAIN t.chars : t.chars[i] = c
<1> DEFINE S == {i \in DOMAIN t.chars : t.chars[i] # "-" /\ \A j \in 1 .. i - 1 : t.chars[j] # t.chars[i]}
           order == InOrder(S)
<1>1. DownChars(t) = IF order = << >> THEN <<"none">> ELSE [n \in DOMAIN order |-> t.chars[order[n]]]
  BY DEF DownChars
<1>2. PICK L \in Nat : DOMAIN t.chars = 1 .. L - 1
  BY DEF WholeTemplate
<1>3. S \in SUBSET Nat /\ IsFiniteSet(S)
  <2>1. S \in SUBSET (1 .. L - 1) /\ IsFiniteSet(1 .. L - 1)
    BY <1>2, FS_Interval
  <2>2. QED
    BY <1>2, <2>1, FS_Subset
<1>4. /\ \A i \in S : \E n \in DOMAIN order : order[n] = i
      /\ \A n \in DOMAIN order : order[n] \in S
  <2> HIDE DEF S
  <2>1. /\ DOMAIN order = 1 .. Cardinality(S) /\ \A n \in DOMAIN order : order[n] \in S
    BY <1>3, InOrderCorrect
  <2>2. \A i \in S : Rank(S, i) + 1 \in 1 .. Cardinality(S) /\ order[Rank(S, i) + 1] = i
    BY <1>3, InOrderGrows
  <2>3. QED
    BY <2>1, <2>2
<1>5. ASSUME NEW i \in DOMAIN t.chars, t.chars[i] # "-"
      PROVE  order # << >> /\ t.chars[i] \in ToSet(DownChars(t))
  <2> DEFINE T == {j \in DOMAIN t.chars : t.chars[j] = t.chars[i]}
  <2>1. T \in SUBSET Nat /\ T # {}
    BY <1>2, <1>5
  <2>2. PICK j \in T : \A k \in T : j <= k
    <3> HIDE DEF T
    <3> QED
      BY <2>1, MinOfNumbers
  <2>3. j \in DOMAIN t.chars /\ t.chars[j] = t.chars[i]
    OBVIOUS
  <2>4. \A k \in 1 .. j - 1 : t.chars[k] # t.chars[i]
    <3>1. SUFFICES ASSUME NEW k \in 1 .. j - 1, t.chars[k] = t.chars[i] PROVE FALSE
      OBVIOUS
    <3>2. k \in DOMAIN t.chars /\ ~(j <= k)
      BY <1>2, <2>3
    <3>3. k \in T
      BY <3>1, <3>2
    <3>4. QED
      BY <2>2, <3>2, <3>3
  <2>5. j \in S
    BY <1>5, <2>3, <2>4
  <2>6. PICK n \in DOMAIN order : order[n] = j
    <3> HIDE DEF S
    <3> QED
      BY <1>4, <2>5
  <2>7. order # << >>
    <3>1. DOMAIN << >> = {}
      OBVIOUS
    <3> HIDE DEF order
    <3>2. QED
      BY <2>6, <3>1
  <2>8. DownChars(t) = [m \in DOMAIN order |-> t.chars[order[m]]]
    <3> HIDE DEF order
    <3> QED
      BY <1>1, <2>7
  <2>9. t.chars[i] = DownChars(t)[n] /\ n \in DOMAIN DownChars(t)
    <3> HIDE DEF order
    <3> QED
      BY <2>3, <2>6, <2>8
  <2>10. QED
    <3> HIDE DEF order
    <3> QED
      BY <2>7, <2>9 DEF ToSet
<1>6. ASSUME NEW i \in DOMAIN t.chars, t.chars[i] # "-", NEW c \in ToSet(DownChars(t))
      PROVE  c # "-" /\ \E k \in DOMAIN t.chars : t.chars[k] = c
  <2>1. order # << >>
    BY <1>5, <1>6
  <2>2. DownChars(t) = [m \in DOMAIN order |-> t.chars[order[m]]]
    <3> HIDE DEF order
    <3> QED
      BY <1>1, <2>1
  <2>3. PICK n \in DOMAIN order : c = t.chars[order[n]]
    <3> HIDE DEF order
    <3> QED
      BY <2>2 DEF ToSet
  <2>4. order[n] \in S
    <3> HIDE DEF S
    <3> QED
      BY <1>4
  <2>5. QED
    <3> HIDE DEF order
    <3> QED
      BY <2>3, <2>4
<1>7. QED
  <2> HIDE DEF S
  <2> QED
    BY <1>5, <1>6

(* What is a reference is made by create(). *)
LEMMA ReferenceOf ==
  ASSUME NEW r, IsReference(r)
  PROVE  /\ r = Reference(r.book, r.chapter, r.verse) /\ Creatable(r.book, r.chapter, r.verse)
         /\ r.book \in Books /\ r.chapter \in 1 .. chapter_count(r.book)
         /\ r.verse \in 1 .. Verses[r.book][r.chapter]
<1>1. PICK p : p = <<r.book, r.chapter, r.verse>>
  OBVIOUS
<1>2. p[1] = r.book /\ p[2] = r.chapter /\ p[3] = r.verse /\ p \in Places
  BY <1>1 DEF IsReference
<1>3. PICK b \in Books : \E c \in DOMAIN Verses[b] : \E v \in 1 .. Verses[b][c] : p = <<b, c, v>>
  BY <1>2 DEF Places
<1>12. PICK c \in DOMAIN Verses[b] : \E v \in 1 .. Verses[b][c] : p = <<b, c, v>>
  BY <1>3
<1>13. PICK v \in 1 .. Verses[b][c] : p = <<b, c, v>>
  BY <1>12
<1>4. r.book = b /\ r.chapter = c /\ r.verse = v
  BY <1>2, <1>13
<1>5. Verses[b] \in Seq(Nat \ {0})
  BY BibleAssumption
<1>6. c \in 1 .. chapter_count(b) /\ Verses[b][c] \in Nat \ {0}
  BY <1>5 DEF chapter_count
<1>7. r.verse_count = Verses[b][c] /\ r.chapter_count = chapter_count(b) /\ r \in Members
  BY <1>4 DEF IsReference, chapter_count
<1>8. verse_count(b, c) = Verses[b][c]
  BY <1>6 DEF verse_count
<1>9. r = Reference(r.book, r.chapter, r.verse)
  BY <1>4, <1>7, <1>8 DEF Reference, Members
<1>10. Creatable(b, c, v)
  BY <1>6, <1>8 DEF Creatable
<1>11. QED
  BY <1>4, <1>6, <1>9, <1>10

\* The numbers and characters of t from l to h are those of the citation of r.
HoldsAt(t, r, l, h) ==
  /\ h = l + Len(NumbersIn(r)) - 1
  /\ \A i \in 1 .. Len(NumbersIn(r)) : t.numbers[l + i - 1] = NumbersIn(r)[i]
  /\ \A i \in 1 .. Len(NumbersIn(r)) - 1 : t.chars[l + i - 1] = CharsIn(r)[i]

\* The same, with the shape of the section.
SectionHolds(t, c, n, r) ==
  LET sec == Sections(t, c)[n]
  IN  /\ sec.shape \in Seq({"X", "-"}) /\ Len(sec.shape) = Len(NumbersIn(r)) - 1
      /\ \A i \in 1 .. Len(NumbersIn(r)) - 1 : sec.shape[i] = IF CharsIn(r)[i] = c THEN "X" ELSE "-"
      /\ \A i \in 1 .. Len(NumbersIn(r)) : sec.numbers[i] = NumbersIn(r)[i]

(* The section of a range. *)
LEMMA SectionOfRange ==
  ASSUME NEW t, WholeTemplate(t), t.numbers # << >>, NEW c, c # "-", NEW n \in Parts(t, c),
         NEW r, Len(NumbersIn(r)) \in Nat, HoldsAt(t, r, Lo(t, c, n), Hi(t, c, n))
  PROVE  SectionHolds(t, c, n, r)
<1>1. PICK L \in Nat : L = Len(t.numbers)
  BY CutsOf
<1>2. /\ Lo(t, c, n) \in 1 .. L /\ Hi(t, c, n) \in 1 .. L /\ Lo(t, c, n) <= Hi(t, c, n)
      /\ \A i \in Lo(t, c, n) .. Hi(t, c, n) - 1 : i \in DOMAIN t.chars
  BY <1>1, PartIs
<1>3. PICK l \in Nat : l = Lo(t, c, n)
  BY <1>2
<1>4. PICK h \in Nat : h = Hi(t, c, n)
  BY <1>2
<1>5. PICK m \in Nat : m = Len(NumbersIn(r))
  OBVIOUS
<1>6. /\ h = l + m - 1
      /\ \A i \in 1 .. m : t.numbers[l + i - 1] = NumbersIn(r)[i]
      /\ \A i \in 1 .. m - 1 : t.chars[l + i - 1] = CharsIn(r)[i]
  BY <1>3, <1>4, <1>5 DEF HoldsAt
<1>7. h - l + 1 = m /\ h - l = m - 1 /\ \A i \in 1 .. m - 1 : l + i - 1 \in l .. h - 1
  <2>1. h = l + m - 1
    BY <1>6
  <2>2. QED
    BY <2>1
<1>8. /\ \A i \in 1 .. h - l + 1 : Sections(t, c)[n].numbers[i] = t.numbers[l + i - 1]
      /\ Sections(t, c)[n].shape \in Seq({"X", "-"})
      /\ Len(Sections(t, c)[n].shape) = h - l
      /\ \A i \in 1 .. h - l : Sections(t, c)[n].shape[i] = IF Heading(t, c, l + i - 1) THEN "X" ELSE "-"
  BY <1>3, <1>4, SectionIs
<1>9. ASSUME NEW i \in 1 .. m - 1 PROVE Sections(t, c)[n].shape[i] = IF CharsIn(r)[i] = c THEN "X" ELSE "-"
  <2>1. Heading(t, c, l + i - 1) <=> CharsIn(r)[i] = c
    BY <1>2, <1>3, <1>4, <1>6, <1>7 DEF Heading
  <2>2. QED
    BY <1>7, <1>8, <2>1
<1>10. ASSUME NEW i \in 1 .. m PROVE Sections(t, c)[n].numbers[i] = NumbersIn(r)[i]
  BY <1>6, <1>7, <1>8
<1>11. QED
  BY <1>5, <1>7, <1>8, <1>9, <1>10 DEF SectionHolds

\* Short sequences by their elements.
Is1(s, x) == Len(s) = 1 /\ s[1] = x
Is2(s, x, y) == Len(s) = 2 /\ s[1] = x /\ s[2] = y
Is3(s, x, y, z) == Len(s) = 3 /\ s[1] = x /\ s[2] = y /\ s[3] = z
Is4(s, x, y, z, u) == Len(s) = 4 /\ s[1] = x /\ s[2] = y /\ s[3] = z /\ s[4] = u

(* The elements of short sequences. *)
LEMMA ShortElements ==
  ASSUME NEW x, NEW y, NEW z, NEW u
  PROVE  Is1(<<x>>, x) /\ Is2(<<x, y>>, x, y) /\ Is3(<<x, y, z>>, x, y, z) /\ Is4(<<x, y, z, u>>, x, y, z, u)
<1>1. Is1(<<x>>, x)
  BY DEF Is1
<1>2. Is2(<<x, y>>, x, y)
  BY DEF Is2
<1>3. Is3(<<x, y, z>>, x, y, z)
  BY DEF Is3
<1>4. Is4(<<x, y, z, u>>, x, y, z, u)
  BY DEF Is4
<1>5. QED
  BY <1>1, <1>2, <1>3, <1>4

\* A citation is one of these.
Comma == ","
Dash == "-"
IsVerse(r, numbers, chars) ==
  r.from = r.to /\ Is2(numbers, r.from.chapter, r.from.verse) /\ Is1(chars, Comma)
IsVerses(r, numbers, chars) ==
  /\ r.from.chapter = r.to.chapter
  /\ Is3(numbers, r.from.chapter, r.from.verse, r.to.verse) /\ Is2(chars, Comma, Dash)
IsChapters(r, numbers, chars) ==
  /\ r.from.chapter # r.to.chapter
  /\ Is4(numbers, r.from.chapter, r.from.verse, r.to.chapter, r.to.verse) /\ Is3(chars, Comma, Dash, Comma)

(* What a citation consists of. *)
LEMMA RangeElements ==
  ASSUME NEW r
  PROVE  \/ IsVerse(r, NumbersIn(r), CharsIn(r)) \/ IsVerses(r, NumbersIn(r), CharsIn(r))
         \/ IsChapters(r, NumbersIn(r), CharsIn(r))
<1>1. PICK comma : comma = Comma
  OBVIOUS
<1>2. PICK dash : dash = Dash
  OBVIOUS
<1>3. CASE r.from = r.to
  <2>1. Is2(NumbersIn(r), r.from.chapter, r.from.verse)
    BY <1>3, ShortElements DEF NumbersIn
  <2>2. Is1(CharsIn(r), comma)
    <3>1. CharsIn(r) = <<comma>>
      BY <1>1, <1>3 DEF CharsIn, Comma, Dash
    <3>2. QED
      BY <3>1, ShortElements
  <2>3. QED
    BY <1>1, <1>3, <2>1, <2>2 DEF IsVerse
<1>4. CASE r.from # r.to /\ r.from.chapter = r.to.chapter
  <2>1. Is3(NumbersIn(r), r.from.chapter, r.from.verse, r.to.verse)
    <3>1. NumbersIn(r) = <<r.from.chapter, r.from.verse, r.to.verse>>
      BY <1>4 DEF NumbersIn
    <3>2. QED
      BY <3>1, ShortElements
  <2>2. Is2(CharsIn(r), comma, dash)
    <3>1. CharsIn(r) = <<comma, dash>>
      BY <1>1, <1>2, <1>4 DEF CharsIn, Comma, Dash
    <3>2. QED
      BY <3>1, ShortElements
  <2>3. QED
    BY <1>1, <1>2, <1>4, <2>1, <2>2 DEF IsVerses
<1>5. CASE r.from # r.to /\ r.from.chapter # r.to.chapter
  <2>1. Is4(NumbersIn(r), r.from.chapter, r.from.verse, r.to.chapter, r.to.verse)
    <3>1. NumbersIn(r) = <<r.from.chapter, r.from.verse, r.to.chapter, r.to.verse>>
      BY <1>5 DEF NumbersIn
    <3>2. QED
      BY <3>1, ShortElements
  <2>2. Is3(CharsIn(r), comma, dash, comma)
    <3>1. CharsIn(r) = <<comma, dash, comma>>
      BY <1>1, <1>2, <1>5 DEF CharsIn, Comma, Dash
    <3>2. QED
      BY <3>1, ShortElements
  <2>3. QED
    BY <1>1, <1>2, <1>5, <2>1, <2>2 DEF IsChapters
<1>6. QED
  BY <1>3, <1>4, <1>5

\* What is known of every citation.
RangeParts(r, m, numbers, chars) ==
  /\ m \in {2, 3, 4} /\ numbers[1] = r.from.chapter /\ numbers[2] = r.from.verse
  /\ chars[1] = Comma /\ \A i \in 1 .. m - 1 : chars[i] = Comma \/ chars[i] = Dash
  /\ r.from.chapter = r.to.chapter =>
       m # 4 /\ numbers[m] = r.to.verse /\ \A i \in 2 .. m - 1 : chars[i] = Dash

(* The parts of a citation. *)
LEMMA RangePartsAre ==
  ASSUME NEW r, NEW m, m = Len(NumbersIn(r))
  PROVE  RangeParts(r, m, NumbersIn(r), CharsIn(r))
<1>1. PICK N : N = NumbersIn(r)
  OBVIOUS
<1>2. PICK C : C = CharsIn(r)
  OBVIOUS
<1>3. CASE IsVerse(r, N, C)
  <2>1. m = 2 /\ N[1] = r.from.chapter /\ N[2] = r.from.verse /\ C[1] = Comma /\ r.from = r.to
    BY <1>1, <1>3 DEF IsVerse, Is1, Is2
  <2>2. 2 \in {2, 3, 4} /\ 2 # 4 /\ 1 .. 2 - 1 = {1} /\ 2 .. 2 - 1 = {}
    OBVIOUS
  <2>3. QED
    BY <1>1, <1>2, <2>1, <2>2 DEF RangeParts
<1>4. CASE IsVerses(r, N, C)
  <2>1. /\ m = 3 /\ N[1] = r.from.chapter /\ N[2] = r.from.verse /\ N[3] = r.to.verse
        /\ C[1] = Comma /\ C[2] = Dash
    BY <1>1, <1>4 DEF IsVerses, Is2, Is3
  <2>2. 3 \in {2, 3, 4} /\ 3 # 4 /\ 1 .. 3 - 1 = {1, 2} /\ 2 .. 3 - 1 = {2}
    OBVIOUS
  <2>3. QED
    BY <1>1, <1>2, <2>1, <2>2 DEF RangeParts
<1>5. CASE IsChapters(r, N, C)
  <2>1. /\ m = 4 /\ N[1] = r.from.chapter /\ N[2] = r.from.verse /\ r.from.chapter # r.to.chapter
        /\ C[1] = Comma /\ C[2] = Dash /\ C[3] = Comma
    BY <1>1, <1>5 DEF IsChapters, Is3, Is4
  <2>2. 4 \in {2, 3, 4} /\ 1 .. 4 - 1 = {1, 2, 3}
    OBVIOUS
  <2>3. QED
    BY <1>1, <1>2, <2>1, <2>2 DEF RangeParts
<1>6. QED
  BY <1>1, <1>2, <1>3, <1>4, <1>5, RangeElements

(* A part that spells a range is read as the range. *)
LEMMA PartOfRange ==
  ASSUME NEW t, WholeTemplate(t), t.numbers # << >>, NEW n \in Parts(t, Comma), NEW b, NEW r, IsCited(b, r),
         HoldsAt(t, r, Lo(t, Comma, n), Hi(t, Comma, n))
  PROVE  PartReadable(t, b, Comma, n) /\ PartMeaning(t, b, Comma, n) = r
<1>0. PICK c : c = Comma
  OBVIOUS
<1>1. c = Comma /\ c # "-" /\ c # Dash
  BY <1>0 DEF Comma, Dash
<1>2. n \in Parts(t, c) /\ HoldsAt(t, r, Lo(t, c, n), Hi(t, c, n))
  BY <1>1
<1>3. Len(NumbersIn(r)) \in Nat
  <2>1. Spells(Citation(r), NumbersIn(r), CharsIn(r))
    BY CitationSpells
  <2>2. QED
    BY <2>1, SpelledParts
<1>18. PICK m \in Nat : m = Len(NumbersIn(r))
  BY <1>3
<1>19. PICK N : N = NumbersIn(r)
  OBVIOUS
<1>20. PICK C : C = CharsIn(r)
  OBVIOUS
<1>4. SectionHolds(t, c, n, r)
  BY <1>1, <1>2, <1>3, SectionOfRange
<1>5. PICK sec : sec = Sections(t, c)[n]
  OBVIOUS
<1>6. /\ sec.shape \in Seq({"X", "-"}) /\ Len(sec.shape) = m - 1
      /\ \A i \in 1 .. m - 1 : sec.shape[i] = IF C[i] = c THEN "X" ELSE "-"
      /\ \A i \in 1 .. m : sec.numbers[i] = N[i]
  BY <1>4, <1>5, <1>18, <1>19, <1>20 DEF SectionHolds
<1>7. \E level, chapter : Carried(t, c, Lo(t, c, n), level, chapter)
  BY DEF Carried
<1>8. PICK level : \E chapter : Carried(t, c, Lo(t, c, n), level, chapter)
  BY <1>7
<1>9. PICK chapter : Carried(t, c, Lo(t, c, n), level, chapter)
  BY <1>8
<1>10. PICK p : p = <<r.from.chapter, r.from.verse>>
  OBVIOUS
<1>11. PICK q : q = <<r.to.chapter, r.to.verse>>
  OBVIOUS
<1>12. \E u, v : ReadsTo(t, b, c, n, p, q, u, v)
  <2>1. CASE IsVerse(r, N, C)
    <3>1. m = 2 /\ N[1] = r.from.chapter /\ N[2] = r.from.verse /\ C[1] = c /\ r.from = r.to
      BY <1>1, <1>18, <1>19, <2>1 DEF IsVerse, Is1, Is2
    <3>2. 1 \in 1 .. m - 1 /\ 1 \in 1 .. m /\ 2 \in 1 .. m /\ m - 1 = 1
      <4>1. m = 2
        BY <3>1
      <4>2. QED
        BY <4>1
    <3>3. Len(sec.shape) = 1 /\ sec.shape[1] = "X"
      BY <1>6, <3>1, <3>2
    <3>4. sec.numbers[1] = r.from.chapter /\ sec.numbers[2] = r.from.verse
      BY <1>6, <3>1, <3>2
    <3>5. sec.shape = <<"X">>
      BY <1>6, <3>3, ShortSequences
    <3>6. ReadsTo(t, b, c, n, <<sec.numbers[1], sec.numbers[2]>>, <<sec.numbers[1], sec.numbers[2]>>, "verse", sec.numbers[1])
      BY <1>1, <1>2, <1>5, <1>9, <3>5, ReadVerse
    <3>7. QED
      BY <1>10, <1>11, <3>1, <3>4, <3>6
  <2>2. CASE IsVerses(r, N, C)
    <3>1. /\ m = 3 /\ N[1] = r.from.chapter /\ N[2] = r.from.verse /\ N[3] = r.to.verse
          /\ C[1] = c /\ C[2] # c /\ r.from.chapter = r.to.chapter
      BY <1>1, <1>18, <1>19, <2>2 DEF IsVerses, Is2, Is3
    <3>2. 1 \in 1 .. m - 1 /\ 2 \in 1 .. m - 1 /\ 1 \in 1 .. m /\ 2 \in 1 .. m /\ 3 \in 1 .. m /\ m - 1 = 2
      <4>1. m = 3
        BY <3>1
      <4>2. QED
        BY <4>1
    <3>3. Len(sec.shape) = 2 /\ sec.shape[1] = "X" /\ sec.shape[2] = "-"
      BY <1>6, <3>1, <3>2
    <3>4. sec.numbers[1] = r.from.chapter /\ sec.numbers[2] = r.from.verse /\ sec.numbers[3] = r.to.verse
      BY <1>6, <3>1, <3>2
    <3>5. sec.shape = <<"X", "-">>
      BY <1>6, <3>3, ShortSequences
    <3>6. ReadsTo(t, b, c, n, <<sec.numbers[1], sec.numbers[2]>>, <<sec.numbers[1], sec.numbers[3]>>, "verse", sec.numbers[1])
      BY <1>1, <1>2, <1>5, <1>9, <3>5, ReadVerseToVerseOfChapter
    <3>7. QED
      BY <1>10, <1>11, <3>1, <3>4, <3>6
  <2>3. CASE IsChapters(r, N, C)
    <3>1. /\ m = 4 /\ N[1] = r.from.chapter /\ N[2] = r.from.verse /\ N[3] = r.to.chapter /\ N[4] = r.to.verse
          /\ C[1] = c /\ C[2] # c /\ C[3] = c
      BY <1>1, <1>18, <1>19, <2>3 DEF IsChapters, Is3, Is4
    <3>2. /\ 1 \in 1 .. m - 1 /\ 2 \in 1 .. m - 1 /\ 3 \in 1 .. m - 1 /\ m - 1 = 3
          /\ 1 \in 1 .. m /\ 2 \in 1 .. m /\ 3 \in 1 .. m /\ 4 \in 1 .. m
      <4>1. m = 4
        BY <3>1
      <4>2. QED
        BY <4>1
    <3>3. Len(sec.shape) = 3 /\ sec.shape[1] = "X" /\ sec.shape[2] = "-" /\ sec.shape[3] = "X"
      BY <1>6, <3>1, <3>2
    <3>4. /\ sec.numbers[1] = r.from.chapter /\ sec.numbers[2] = r.from.verse
          /\ sec.numbers[3] = r.to.chapter /\ sec.numbers[4] = r.to.verse
      BY <1>6, <3>1, <3>2
    <3>5. sec.shape = <<"X", "-", "X">>
      BY <1>6, <3>3, ShortSequences
    <3>6. ReadsTo(t, b, c, n, <<sec.numbers[1], sec.numbers[2]>>, <<sec.numbers[3], sec.numbers[4]>>, "verse", sec.numbers[3])
      BY <1>1, <1>2, <1>5, <1>9, <3>5, ReadVerseToVerse
    <3>7. QED
      BY <1>10, <1>11, <3>4, <3>6
  <2>4. QED
    BY <1>19, <1>20, <2>1, <2>2, <2>3, RangeElements
<1>13. /\ From(t, c, n) = p /\ To(t, b, c, n) = q
       /\ PartReadable(t, b, c, n) <=> Creatable(b, p[1], p[2]) /\ Creatable(b, q[1], q[2])
  BY <1>12 DEF ReadsTo
<1>14. /\ r.from = Reference(b, p[1], p[2]) /\ Creatable(b, p[1], p[2])
       /\ r.to = Reference(b, q[1], q[2]) /\ Creatable(b, q[1], q[2])
  <2>1. IsReference(r.from) /\ IsReference(r.to) /\ r.from.book = b /\ r.to.book = b
    BY DEF IsCited
  <2>2. p[1] = r.from.chapter /\ p[2] = r.from.verse /\ q[1] = r.to.chapter /\ q[2] = r.to.verse
    BY <1>10, <1>11
  <2>3. QED
    BY <2>1, <2>2, ReferenceOf
<1>15. PartReadable(t, b, c, n)
  BY <1>13, <1>14
<1>16. PartMeaning(t, b, c, n) = r
  <2>1. r = ReferenceRange(r.from, r.to)
    BY DEF IsCited
  <2>2. QED
    BY <1>13, <1>14, <2>1 DEF PartMeaning
<1>17. QED
  BY <1>1, <1>15, <1>16

(* What is in a template that is spelled. *)
LEMMA SpelledTemplate ==
  ASSUME NEW t, NEW w, Spells(w, t.numbers, t.chars)
  PROVE  /\ WholeTemplate(t) /\ t.numbers # << >>
         /\ t.chars \in Seq(Signs) /\ DOMAIN t.chars = 1 .. Len(t.numbers) - 1
<1>1. /\ t.numbers \in Seq(Nat) /\ t.chars \in Seq(Signs) /\ Len(t.numbers) \in Nat \ {0}
      /\ Len(t.chars) = Len(t.numbers) - 1
  BY SpelledParts
<1>2. DOMAIN t.chars = 1 .. Len(t.numbers) - 1 /\ t.numbers # << >>
  BY <1>1
<1>3. IsSequence(t.numbers)
  <2>1. \A i \in 1 .. Len(t.numbers) : t.numbers[i] \in ToSet(t.numbers)
    BY <1>1 DEF ToSet
  <2>2. t.numbers \in Seq(ToSet(t.numbers))
    <3> HIDE DEF ToSet
    <3> QED
      BY <1>1, <2>1
  <2>3. QED
    BY <2>2 DEF IsSequence
<1>4. QED
  BY <1>1, <1>2, <1>3 DEF WholeTemplate

\* With Comma the template is read as l, and other characters are in E.
ReadsWithComma(t, b, l, E) ==
  /\ WholeTemplate(t) /\ t.numbers # << >>
  /\ Comma \in ToSet(DownChars(t)) /\ ToSet(DownChars(t)) \subseteq {Comma} \cup E
  /\ Readable(t, b, Comma) /\ Meaning(t, b, Comma) = l

(* One range is read as it is. *)
LEMMA OneReads ==
  ASSUME NEW b, NEW r, IsCited(b, r)
  PROVE  ReadsWithComma(TemplateOfOne(r), b, <<r>>, {})
<1>2. PICK t : t = TemplateOfOne(r)
  OBVIOUS
<1>3. t.numbers = NumbersIn(r) /\ t.chars = CharsIn(r) /\ IsCited(b, r)
  BY <1>2 DEF TemplateOfOne
<1>4. /\ WholeTemplate(t) /\ t.numbers # << >>
      /\ t.chars \in Seq(Signs) /\ DOMAIN t.chars = 1 .. Len(t.numbers) - 1
  BY <1>3, CitationSpells, SpelledTemplate
<1>5. PICK L \in Nat : L = Len(t.numbers) /\ DOMAIN t.numbers = 1 .. L
  BY <1>4, CutsOf
<1>6. /\ \A i \in 1 .. L - 1 : t.chars[i] = Comma \/ t.chars[i] = Dash
      /\ 1 \in 1 .. L - 1 /\ t.chars[1] = Comma
  <2>1. RangeParts(r, L, t.numbers, t.chars)
    BY <1>3, <1>5, RangePartsAre
  <2>2. L \in {2, 3, 4}
    BY <2>1 DEF RangeParts
  <2>3. 1 \in 1 .. L - 1
    BY <2>2
  <2>4. QED
    BY <2>1, <2>3 DEF RangeParts
<1>7. DOMAIN t.chars = 1 .. L - 1
  BY <1>4, <1>5
<1>8. Cuts(t, Comma) = {} /\ Cardinality(Cuts(t, Comma)) = 0
  <2>1. Cuts(t, Comma) = {}
    BY <1>6, <1>7 DEF Cuts, Dash
  <2>2. QED
    BY <2>1, FS_EmptySet
<1>9. Parts(t, Comma) = {1} /\ Lo(t, Comma, 1) = 1 /\ Hi(t, Comma, 1) = L
  <2>1. Parts(t, Comma) = {1}
    <3>1. Parts(t, Comma) = 1 .. Cardinality(Cuts(t, Comma)) + 1
      BY DEF Parts, Cuts
    <3>2. 1 .. 0 + 1 = {1}
      OBVIOUS
    <3>3. QED
      BY <1>8, <3>1, <3>2
  <2>2. Lo(t, Comma, 1) = 1
    BY DEF Lo
  <2>3. Hi(t, Comma, 1) = L
    BY <1>5, <1>8 DEF Hi
  <2>4. QED
    BY <2>1, <2>2, <2>3
<1>10. HoldsAt(t, r, 1, L)
  BY <1>3, <1>5 DEF HoldsAt
<1>11. PartReadable(t, b, Comma, 1) /\ PartMeaning(t, b, Comma, 1) = r
  <2>1. 1 \in Parts(t, Comma) /\ HoldsAt(t, r, Lo(t, Comma, 1), Hi(t, Comma, 1))
    BY <1>9, <1>10
  <2>2. QED
    BY <1>3, <1>4, <2>1, PartOfRange
<1>12. Readable(t, b, Comma)
  BY <1>9, <1>11 DEF Readable
<1>13. Meaning(t, b, Comma) = <<r>>
  <2>1. Meaning(t, b, Comma) = [n \in {1} |-> PartMeaning(t, b, Comma, n)]
    BY <1>9 DEF Meaning
  <2>2. \A n \in {1} : PartMeaning(t, b, Comma, n) = r
    BY <1>11
  <2>3. Meaning(t, b, Comma) = [n \in {1} |-> r]
    <3> HIDE DEF PartMeaning
    <3> QED
      BY <2>1, <2>2, Zenon
  <2>4. {1} = 1 .. 1
    OBVIOUS
  <2>5. [n \in 1 .. 1 |-> r] = <<r>>
    OBVIOUS
  <2>6. QED
    BY <2>3, <2>4, <2>5
<1>14. Comma \in ToSet(DownChars(t)) /\ ToSet(DownChars(t)) \subseteq {Comma}
  <2>1. 1 \in DOMAIN t.chars /\ t.chars[1] # "-"
    BY <1>6, <1>7 DEF Comma
  <2>2. t.chars[1] \in ToSet(DownChars(t))
    BY <1>4, <2>1, CharsTried
  <2>3. \A c \in ToSet(DownChars(t)) : c # "-" /\ \E i \in DOMAIN t.chars : t.chars[i] = c
    BY <1>4, <2>1, CharsTried
  <2>4. QED
    BY <1>6, <1>7, <2>2, <2>3 DEF Dash
<1>15. QED
  BY <1>2, <1>4, <1>12, <1>13, <1>14 DEF ReadsWithComma

-----------------------------------------------------------------------------
(* How many verses a citation has                                            *)
\* Of the sum of s one number is taken first.
SumsNext(f, g, s) == g[{}] = 0 /\ (s # {} => \E x \in s : g[s] = f[x] + g[s \ {x}])

(* What is summed next. *)
LEMMA SumNext ==
  ASSUME NEW f, NEW g, SumsBy(f, g), NEW s \in SUBSET DOMAIN f
  PROVE  SumsNext(f, g, s)
<1>1. g[{}] = 0
  BY DEF SumsBy, SumBody
<1>2. ASSUME s # {} PROVE \E x \in s : g[s] = f[x] + g[s \ {x}]
  <2>1. Picked(s) \in s
    BY <1>2 DEF Picked
  <2>2. g[s] = f[Picked(s)] + g[s \ {Picked(s)}]
    BY <1>2 DEF SumsBy, SumBody, Picked
  <2>3. QED
    BY <2>1, <2>2
<1>3. QED
  BY <1>1, <1>2 DEF SumsNext

\* The sums of one, two and three numbers.
SumsShort(f, g, x, y, z) ==
  /\ g[{x}] = f[x]
  /\ x # y => g[{x, y}] = f[x] + f[y]
  /\ x # y /\ y # z /\ x # z => g[{x, y, z}] = f[x] + f[y] + f[z]
AreNumbers(f) == \A v \in DOMAIN f : f[v] \in Nat

(* One, two or three numbers that are summed. *)
LEMMA ShortSums ==
  ASSUME NEW f, NEW g, SumsBy(f, g), AreNumbers(f),
         NEW x \in DOMAIN f, NEW y \in DOMAIN f, NEW z \in DOMAIN f
  PROVE  SumsShort(f, g, x, y, z)
<1>1. ASSUME NEW v \in DOMAIN f PROVE g[{v}] = f[v]
  <2>1. PICK s : s = {v}
    OBVIOUS
  <2>2. s \in SUBSET DOMAIN f /\ s # {}
    BY <2>1
  <2>3. PICK u \in s : g[s] = f[u] + g[s \ {u}]
    BY <2>2, SumNext DEF SumsNext
  <2>4. u = v /\ s \ {u} = {}
    BY <2>1
  <2>5. g[{}] = 0
    BY <2>2, SumNext DEF SumsNext
  <2>6. f[v] \in Nat
    BY DEF AreNumbers
  <2>7. g[s] = f[v] + 0
    BY <2>3, <2>4, <2>5
  <2>8. QED
    BY <2>1, <2>6, <2>7
<1>2. ASSUME NEW v \in DOMAIN f, NEW w \in DOMAIN f, v # w PROVE g[{v, w}] = f[v] + f[w]
  <2>1. PICK s : s = {v, w}
    OBVIOUS
  <2>2. s \in SUBSET DOMAIN f /\ s # {}
    BY <2>1
  <2>3. PICK u \in s : g[s] = f[u] + g[s \ {u}]
    BY <2>2, SumNext DEF SumsNext
  <2>4. \/ u = v /\ s \ {u} = {w}
        \/ u = w /\ s \ {u} = {v}
    BY <1>2, <2>1
  <2>5. g[{w}] = f[w] /\ g[{v}] = f[v]
    BY <1>1
  <2>6. f[v] \in Nat /\ f[w] \in Nat
    BY DEF AreNumbers
  <2>7. g[s] = f[v] + f[w] \/ g[s] = f[w] + f[v]
    BY <2>3, <2>4, <2>5
  <2>8. QED
    BY <2>1, <2>6, <2>7
<1>3. ASSUME x # y /\ y # z /\ x # z PROVE g[{x, y, z}] = f[x] + f[y] + f[z]
  <2>1. PICK s : s = {x, y, z}
    OBVIOUS
  <2>2. s \in SUBSET DOMAIN f /\ s # {}
    BY <2>1
  <2>3. PICK u \in s : g[s] = f[u] + g[s \ {u}]
    BY <2>2, SumNext DEF SumsNext
  <2>4. \/ u = x /\ s \ {u} = {y, z}
        \/ u = y /\ s \ {u} = {x, z}
        \/ u = z /\ s \ {u} = {x, y}
    BY <1>3, <2>1
  <2>5. g[{y, z}] = f[y] + f[z] /\ g[{x, z}] = f[x] + f[z] /\ g[{x, y}] = f[x] + f[y]
    BY <1>2, <1>3
  <2>6. f[x] \in Nat /\ f[y] \in Nat /\ f[z] \in Nat
    BY DEF AreNumbers
  <2>7. g[s] = f[x] + (f[y] + f[z]) \/ g[s] = f[y] + (f[x] + f[z]) \/ g[s] = f[z] + (f[x] + f[y])
    BY <2>3, <2>4, <2>5
  <2>8. g[s] = f[x] + f[y] + f[z]
    BY <2>6, <2>7
  <2>9. QED
    BY <2>1, <2>8
<1>4. QED
  BY <1>1, <1>2, <1>3 DEF SumsShort

(* What two and three ranges count together. *)
LEMMA ShortTotals ==
  ASSUME NEW m
  PROVE  /\ DOMAIN m = 1 .. 2 => Total(m) = Size(m[1]) + Size(m[2])
         /\ DOMAIN m = 1 .. 3 => Total(m) = Size(m[1]) + Size(m[2]) + Size(m[3])
<1>1. PICK f : f = [i \in DOMAIN m |-> Size(m[i])]
  OBVIOUS
<1>2. DOMAIN f = DOMAIN m /\ (\A i \in DOMAIN f : f[i] = Size(m[i]) /\ f[i] \in Nat) /\ Total(m) = SumFunction(f)
  BY <1>1, SizeIsNumber DEF Total
<1>3. ASSUME IsFiniteSet(DOMAIN m) PROVE \E g : SumsBy(f, g) /\ SumFunction(f) = g[DOMAIN f]
  BY <1>2, <1>3, SumRecurs
<1>4. ASSUME DOMAIN m = 1 .. 2 PROVE Total(m) = Size(m[1]) + Size(m[2])
  <2>1. IsFiniteSet(1 .. 2) /\ 1 .. 2 = {1, 2} /\ 1 # 2
    <3>1. IsFiniteSet(1 .. 2)
      <4>1. 1 \in Int /\ 2 \in Int
        OBVIOUS
      <4>2. QED
        BY <4>1, FS_Interval
    <3>2. 1 .. 2 = {1, 2} /\ 1 # 2
      OBVIOUS
    <3>3. QED
      BY <3>1, <3>2
  <2>2. PICK g : SumsBy(f, g) /\ SumFunction(f) = g[DOMAIN f]
    BY <1>3, <1>4, <2>1
  <2>3. 1 \in DOMAIN f /\ 2 \in DOMAIN f /\ DOMAIN f = {1, 2}
    BY <1>2, <1>4, <2>1
  <2>4. g[{1, 2}] = f[1] + f[2]
    <3>1. SumsShort(f, g, 1, 2, 2)
      BY <1>2, <2>2, <2>3, ShortSums DEF AreNumbers
    <3>2. QED
      BY <2>1, <3>1 DEF SumsShort
  <2>5. QED
    BY <1>2, <2>2, <2>3, <2>4
<1>5. ASSUME DOMAIN m = 1 .. 3 PROVE Total(m) = Size(m[1]) + Size(m[2]) + Size(m[3])
  <2>1. IsFiniteSet(1 .. 3) /\ 1 .. 3 = {1, 2, 3} /\ 1 # 2 /\ 2 # 3 /\ 1 # 3
    <3>1. IsFiniteSet(1 .. 3)
      <4>1. 1 \in Int /\ 3 \in Int
        OBVIOUS
      <4>2. QED
        BY <4>1, FS_Interval
    <3>2. 1 .. 3 = {1, 2, 3} /\ 1 # 2 /\ 2 # 3 /\ 1 # 3
      OBVIOUS
    <3>3. QED
      BY <3>1, <3>2
  <2>2. PICK g : SumsBy(f, g) /\ SumFunction(f) = g[DOMAIN f]
    BY <1>3, <1>5, <2>1
  <2>3. 1 \in DOMAIN f /\ 2 \in DOMAIN f /\ 3 \in DOMAIN f /\ DOMAIN f = {1, 2, 3}
    BY <1>2, <1>5, <2>1
  <2>4. g[{1, 2, 3}] = f[1] + f[2] + f[3]
    <3>1. SumsShort(f, g, 1, 2, 3)
      BY <1>2, <2>2, <2>3, ShortSums DEF AreNumbers
    <3>2. QED
      BY <2>1, <3>1 DEF SumsShort
  <2>5. QED
    BY <1>2, <2>2, <2>3, <2>4
<1>6. QED
  BY <1>4, <1>5

(* A verse that can be created is in the bible. *)
LEMMA PlaceOf ==
  ASSUME NEW b \in Books, NEW c, NEW v \in Nat, Creatable(b, c, v)
  PROVE  /\ c \in 1 .. chapter_count(b) /\ Verses[b][c] \in Nat \ {0} /\ v \in 1 .. Verses[b][c]
         /\ verse_count(b, c) = Verses[b][c]
         /\ <<b, c, v>> \in Places /\ Place(Reference(b, c, v)) = <<b, c, v>>
<1>1. Verses[b] \in Seq(Nat \ {0})
  BY BibleAssumption
<1>2. c \in 1 .. chapter_count(b) /\ verse_count(b, c) = Verses[b][c]
  BY DEF Creatable, verse_count
<1>3. c \in DOMAIN Verses[b] /\ Verses[b][c] \in Nat \ {0}
  BY <1>1, <1>2 DEF chapter_count
<1>4. v \in 1 .. Verses[b][c]
  BY <1>2, <1>3 DEF Creatable
<1>5. <<b, c, v>> \in Places
  BY <1>3, <1>4 DEF Places
<1>6. Place(Reference(b, c, v)) = <<b, c, v>>
  BY DEF Place, Reference
<1>7. QED
  BY <1>2, <1>3, <1>4, <1>5, <1>6

(* A range has a verse. *)
LEMMA SizeIsPositive ==
  ASSUME NEW b \in Books, NEW c, NEW v \in Nat, Creatable(b, c, v), NEW d, NEW w \in Nat, Creatable(b, d, w)
  PROVE  Size(ReferenceRange(Reference(b, c, v), Reference(b, d, w))) >= 1
<1>1. PICK x : x = Reference(b, c, v)
  OBVIOUS
<1>2. PICK y : y = Reference(b, d, w)
  OBVIOUS
<1>3. PICK r : r = ReferenceRange(x, y)
  OBVIOUS
<1>4. /\ c \in Nat /\ d \in Nat /\ b \in Nat
      /\ Place(x) = <<b, c, v>> /\ Place(x) \in Places /\ Place(y) = <<b, d, w>> /\ Place(y) \in Places
  <2>1. chapter_count(b) \in Nat /\ b \in Nat
    BY BibleAssumption DEF chapter_count, Books
  <2>2. c \in 1 .. chapter_count(b) /\ d \in 1 .. chapter_count(b)
    BY PlaceOf
  <2>3. <<b, c, v>> \in Places /\ Place(x) = <<b, c, v>> /\ <<b, d, w>> \in Places /\ Place(y) = <<b, d, w>>
    BY <1>1, <1>2, PlaceOf
  <2>4. QED
    BY <2>1, <2>2, <2>3
<1>5. /\ Less(y, x) => d < c \/ (d = c /\ w <= v)
      /\ Less(x, y) => c < d \/ (c = d /\ v <= w)
      /\ ~Less(x, y) /\ ~Less(y, x) => c = d /\ v = w
  <2>1. /\ x.book = b /\ x.chapter = c /\ x.verse = v /\ y.book = b /\ y.chapter = d /\ y.verse = w
    BY <1>1, <1>2 DEF Reference
  <2>2. QED
    BY <1>4, <2>1 DEF Less
<1>6. /\ Before(<<b, c, v>>, <<b, d, w>>) <=> c < d \/ (c = d /\ v < w)
      /\ Before(<<b, d, w>>, <<b, c, v>>) <=> d < c \/ (c = d /\ w < v)
      /\ ~Before(<<b, c, v>>, <<b, c, v>>) /\ ~Before(<<b, d, w>>, <<b, d, w>>)
  BY <1>4 DEF Before
<1>7. Place(r.from) \in Places /\ ~Before(Place(r.from), Place(r.from)) /\ ~Before(Place(r.to), Place(r.from))
  <2>1. r.from = (IF Less(y, x) THEN y ELSE x) /\ r.to = (IF Less(x, y) THEN y ELSE x)
    BY <1>3 DEF ReferenceRange
  <2>2. CASE Less(y, x)
    <3>1. r.from = y /\ (r.to = x \/ r.to = y)
      BY <2>1, <2>2
    <3>2. ~Before(<<b, c, v>>, <<b, d, w>>)
      BY <1>4, <1>5, <1>6, <2>2
    <3>3. QED
      BY <1>4, <1>6, <3>1, <3>2
  <2>3. CASE ~Less(y, x)
    <3>1. r.from = x /\ (r.to = x \/ r.to = y)
      BY <2>1, <2>3
    <3>2. ~Before(<<b, d, w>>, <<b, c, v>>)
      BY <1>4, <1>5, <1>6, <2>3
    <3>3. QED
      BY <1>4, <1>6, <3>1, <3>2
  <2>4. QED
    BY <2>2, <2>3
<1>8. total_verse_count + 1 \in Nat /\ total_verse_count + 1 >= 1
  BY BibleAssumption
<1>9. PICK S : S = {p \in Places : ~Before(p, Place(r.from)) /\ ~Before(Place(r.to), p)}
  OBVIOUS
<1>10. Cardinality(S) >= 1
  <2>1. IsFiniteSet(S)
    BY <1>9, BibleAssumption, FS_Subset
  <2>2. S # {}
    BY <1>7, <1>9
  <2>3. Cardinality(S) \in Nat /\ Cardinality(S) # 0
    BY <2>1, <2>2, FS_CardinalityType, FS_EmptySet
  <2>4. QED
    BY <2>3
<1>11. Size(r) >= 1
  BY <1>8, <1>9, <1>10 DEF Size
<1>12. QED
  BY <1>1, <1>2, <1>3, <1>11

(* What a verse of the bible consists of. *)
LEMMA PlaceParts ==
  ASSUME NEW p \in Places
  PROVE  /\ p[1] \in Books /\ p[1] \in Nat /\ p[2] \in Nat /\ p[3] \in Nat \ {0}
         /\ p = <<p[1], p[2], p[3]>> /\ p[2] \in DOMAIN Verses[p[1]] /\ p[3] \in 1 .. Verses[p[1]][p[2]]
<1>1. PICK b \in Books : \E c \in DOMAIN Verses[b] : \E v \in 1 .. Verses[b][c] : p = <<b, c, v>>
  BY DEF Places
<1>2. PICK c \in DOMAIN Verses[b] : \E v \in 1 .. Verses[b][c] : p = <<b, c, v>>
  BY <1>1
<1>3. PICK v \in 1 .. Verses[b][c] : p = <<b, c, v>>
  BY <1>2
<1>4. b \in Nat
  BY BibleAssumption DEF Books
<1>5. c \in Nat /\ Verses[b][c] \in Nat
  <2>1. Verses[b] \in Seq(Nat \ {0})
    BY BibleAssumption
  <2>2. QED
    BY <2>1
<1>6. v \in Nat \ {0}
  BY <1>5
<1>7. p[1] = b /\ p[2] = c /\ p[3] = v
  BY <1>3
<1>8. QED
  BY <1>3, <1>4, <1>5, <1>6, <1>7

(* Sets of verses are finite, and no larger than size() says for the last verse. *)
LEMMA SizesFit ==
  ASSUME NEW S \in SUBSET Places, NEW T \in SUBSET Places
  PROVE  /\ IsFiniteSet(S) /\ IsFiniteSet(T) /\ Cardinality(S) <= total_verse_count + 1
         /\ Cardinality(S) \in Nat /\ Cardinality(T) \in Nat /\ total_verse_count + 1 \in Nat
         /\ S \subseteq T => Cardinality(S) <= Cardinality(T)
<1>1. IsFiniteSet(Places) /\ Cardinality(Places) <= total_verse_count + 1 /\ total_verse_count + 1 \in Nat
  BY BibleAssumption
<1>2. IsFiniteSet(S) /\ IsFiniteSet(T) /\ Cardinality(S) <= Cardinality(Places)
  BY <1>1, FS_Subset
<1>3. Cardinality(S) \in Nat /\ Cardinality(T) \in Nat /\ Cardinality(Places) \in Nat
  BY <1>1, <1>2, FS_CardinalityType
<1>4. S \subseteq T => Cardinality(S) <= Cardinality(T)
  BY <1>2, FS_Subset
<1>5. QED
  BY <1>1, <1>2, <1>3, <1>4

(* A whole chapter has the verses of a range in it, and more. *)
LEMMA ChapterIsLarger ==
  ASSUME NEW b, NEW q, IsCited(b, q), InOneChapter(q)
  PROVE  LET c == q.from.chapter
         IN  /\ Creatable(b, c, 1) /\ Creatable(b, c, verse_count(b, c))
             /\ Size(ReferenceRange(Reference(b, c, 1), Reference(b, c, verse_count(b, c)))) >= Size(q)
<1>1. PICK c : c = q.from.chapter
  OBVIOUS
<1>2. PICK v : v = q.from.verse
  OBVIOUS
<1>3. PICK w : w = q.to.verse
  OBVIOUS
<1>4. /\ b \in Books /\ c \in 1 .. chapter_count(b) /\ v \in 1 .. Verses[b][c] /\ w \in 1 .. Verses[b][c]
      /\ Place(q.from) = <<b, c, v>> /\ Place(q.to) = <<b, c, w>> /\ ~IsLast(q.to)
  <2>1. /\ IsReference(q.from) /\ IsReference(q.to) /\ q.from.book = b /\ q.to.book = b
        /\ q.to.chapter = c /\ ~IsLast(q.to)
    BY <1>1 DEF IsCited, InOneChapter
  <2>2. b \in Books /\ c \in 1 .. chapter_count(b) /\ v \in 1 .. Verses[b][c]
    BY <1>1, <1>2, <2>1, ReferenceOf
  <2>3. w \in 1 .. Verses[b][c]
    BY <1>3, <2>1, ReferenceOf
  <2>4. Place(q.from) = <<b, c, v>> /\ Place(q.to) = <<b, c, w>>
    BY <1>1, <1>2, <1>3, <2>1 DEF Place
  <2>5. QED
    BY <2>1, <2>2, <2>3, <2>4
<1>5. PICK n \in Nat \ {0} : n = Verses[b][c] /\ verse_count(b, c) = n
  <2>1. Verses[b] \in Seq(Nat \ {0}) /\ c \in DOMAIN Verses[b]
    BY <1>4, BibleAssumption DEF chapter_count
  <2>2. Verses[b][c] \in Nat \ {0}
    BY <2>1
  <2>3. QED
    BY <1>4, <2>2 DEF verse_count
<1>6. Creatable(b, c, 1) /\ Creatable(b, c, n)
  BY <1>5 DEF Creatable
<1>7. PICK x : x = Reference(b, c, 1)
  OBVIOUS
<1>8. PICK y : y = Reference(b, c, n)
  OBVIOUS
<1>9. PICK r : r = ReferenceRange(x, y)
  OBVIOUS
<1>10. b \in Nat /\ c \in Nat
  <2>1. b \in 0 .. LastBook /\ LastBook \in Nat
    BY <1>4, BibleAssumption DEF Books
  <2>2. chapter_count(b) \in Nat
    BY <1>4, BibleAssumption DEF chapter_count
  <2>3. QED
    BY <1>4, <2>1, <2>2
<1>11. Place(r.from) = <<b, c, 1>> /\ Place(r.to) = <<b, c, n>>
  <2>1. /\ x.book = b /\ x.chapter = c /\ x.verse = 1 /\ y.book = b /\ y.chapter = c /\ y.verse = n
        /\ x.chapter_count = y.chapter_count /\ x.verse_count = y.verse_count
        /\ x.chapter_count = chapter_count(b) /\ x.verse_count = n
    BY <1>5, <1>7, <1>8 DEF Reference
  <2>2. Place(x) = <<b, c, 1>> /\ Place(y) = <<b, c, n>>
    BY <2>1 DEF Place
  <2>3. chapter_count(b) \in Nat
    BY <1>4, BibleAssumption DEF chapter_count
  <2>4. ~Less(y, x) /\ (n # 1 => Less(x, y))
    BY <1>5, <1>10, <2>1, <2>3 DEF Less
  <2>5. r.from = x /\ (n # 1 => r.to = y) /\ (r.to = x \/ r.to = y)
    BY <1>9, <2>4 DEF ReferenceRange
  <2>6. QED
    BY <2>2, <2>5
<1>12. PICK S : S = {p \in Places : ~Before(p, <<b, c, v>>) /\ ~Before(<<b, c, w>>, p)}
  OBVIOUS
<1>13. PICK T : T = {p \in Places : ~Before(p, <<b, c, 1>>) /\ ~Before(<<b, c, n>>, p)}
  OBVIOUS
<1>14. S \subseteq T
  <2>1. SUFFICES ASSUME NEW p \in S PROVE p \in T
    OBVIOUS
  <2>2. p \in Places /\ ~Before(p, <<b, c, v>>) /\ ~Before(<<b, c, w>>, p)
    BY <1>12
  <2>3. p[1] \in Nat /\ p[2] \in Nat /\ p[3] \in Nat \ {0}
    BY <2>2, PlaceParts
  <2>4. v \in Nat /\ w \in Nat /\ 1 <= v /\ w <= n
    BY <1>4, <1>5
  <2>5. ~Before(p, <<b, c, 1>>) /\ ~Before(<<b, c, n>>, p)
    BY <1>10, <2>2, <2>3, <2>4 DEF Before
  <2>6. QED
    BY <1>13, <2>2, <2>5
<1>15. /\ IsFiniteSet(S) /\ IsFiniteSet(T) /\ Cardinality(S) <= Cardinality(T)
       /\ Cardinality(S) <= total_verse_count + 1
       /\ Cardinality(S) \in Nat /\ Cardinality(T) \in Nat /\ total_verse_count + 1 \in Nat
  BY <1>12, <1>13, <1>14, SizesFit
<1>16. Size(q) = Cardinality(S)
  BY <1>4, <1>12 DEF Size
<1>17. Size(r) = Cardinality(T) \/ Size(r) = total_verse_count + 1
  BY <1>11, <1>13 DEF Size
<1>18. Size(r) >= Size(q)
  BY <1>15, <1>16, <1>17
<1>19. QED
  BY <1>1, <1>5, <1>6, <1>7, <1>8, <1>9, <1>18

(* As many verses of another chapter. *)
LEMMA AsManyVerses ==
  ASSUME NEW b, NEW r, IsCited(b, r), InOneChapter(r),
         NEW c, Creatable(b, c, r.from.verse), Creatable(b, c, r.to.verse)
  PROVE  Size(ReferenceRange(Reference(b, c, r.from.verse), Reference(b, c, r.to.verse))) >= Size(r)
<1>1. PICK d : d = r.from.chapter
  OBVIOUS
<1>2. PICK v : v = r.from.verse
  OBVIOUS
<1>3. PICK w : w = r.to.verse
  OBVIOUS
<1>4. /\ IsReference(r.from) /\ IsReference(r.to) /\ r.from.book = b /\ r.to.book = b
      /\ r.to.chapter = d /\ ~IsLast(r.to)
  BY <1>1 DEF IsCited, InOneChapter
<1>5. /\ b \in Books /\ d \in 1 .. chapter_count(b) /\ v \in 1 .. Verses[b][d]
      /\ Place(r.from) = <<b, d, v>> /\ Place(r.to) = <<b, d, w>>
      /\ r.from = Reference(b, d, v) /\ r.to = Reference(b, d, w)
  <2>1. b \in Books /\ d \in 1 .. chapter_count(b) /\ v \in 1 .. Verses[b][d] /\ r.from = Reference(b, d, v)
    BY <1>1, <1>2, <1>4, ReferenceOf
  <2>2. r.to = Reference(b, d, w)
    BY <1>3, <1>4, ReferenceOf
  <2>3. Place(r.from) = <<b, d, v>> /\ Place(r.to) = <<b, d, w>>
    BY <2>1, <2>2 DEF Place, Reference
  <2>4. QED
    BY <2>1, <2>2, <2>3
<1>6. v \in Nat /\ w \in Nat /\ b \in Nat /\ d \in Nat
  <2>1. v \in Nat /\ b \in Nat /\ d \in Nat
    <3>1. <<b, d, v>> \in Places
      BY <1>4, <1>5 DEF IsReference, Place
    <3>2. PICK p : p = <<b, d, v>>
      OBVIOUS
    <3>3. p[1] = b /\ p[2] = d /\ p[3] = v /\ p \in Places
      BY <3>1, <3>2
    <3>4. QED
      BY <3>3, PlaceParts
  <2>2. w \in Nat
    BY <1>3, <1>4 DEF IsReference, Members
  <2>3. QED
    BY <2>1, <2>2
<1>7. v <= w
  <2>1. SUFFICES ASSUME w < v PROVE FALSE
    BY <1>6
  <2>2. Less(r.to, r.from) /\ r.to # r.from
    <3>1. r.to.book = r.from.book /\ r.to.chapter = r.from.chapter /\ r.to.verse < r.from.verse
      BY <1>1, <1>2, <1>3, <1>4, <2>1
    <3>2. r.to # r.from
      BY <1>2, <1>3, <1>6, <2>1
    <3>3. QED
      BY <3>1, <3>2 DEF Less
  <2>3. r.from = IF Less(r.to, r.from) THEN r.to ELSE r.from
    BY DEF IsCited, ReferenceRange
  <2>4. QED
    BY <2>2, <2>3
<1>8. c \in 1 .. chapter_count(b) /\ Verses[b][c] \in Nat \ {0} /\ v \in 1 .. Verses[b][c]
      /\ w \in 1 .. Verses[b][c] /\ verse_count(b, c) = Verses[b][c] /\ chapter_count(b) \in Nat /\ c \in Nat
  <2>1. c \in 1 .. chapter_count(b) /\ Verses[b][c] \in Nat \ {0} /\ v \in 1 .. Verses[b][c]
        /\ verse_count(b, c) = Verses[b][c]
    BY <1>2, <1>5, <1>6, PlaceOf
  <2>2. w \in 1 .. Verses[b][c]
    BY <1>3, <1>5, <1>6, PlaceOf
  <2>3. chapter_count(b) \in Nat
    BY <1>5, BibleAssumption DEF chapter_count
  <2>4. QED
    BY <2>1, <2>2, <2>3
<1>9. PICK x : x = Reference(b, c, v)
  OBVIOUS
<1>10. PICK y : y = Reference(b, c, w)
  OBVIOUS
<1>11. PICK e : e = ReferenceRange(x, y)
  OBVIOUS
<1>12. Place(e.from) = <<b, c, v>> /\ Place(e.to) = <<b, c, w>>
  <2>1. /\ x.book = b /\ x.chapter = c /\ x.verse = v /\ y.book = b /\ y.chapter = c /\ y.verse = w
        /\ x.chapter_count = y.chapter_count /\ x.verse_count = y.verse_count
        /\ x.chapter_count = chapter_count(b) /\ x.verse_count = Verses[b][c]
    BY <1>8, <1>9, <1>10 DEF Reference
  <2>2. Place(x) = <<b, c, v>> /\ Place(y) = <<b, c, w>>
    BY <2>1 DEF Place
  <2>3. ~Less(y, x) /\ (v # w => Less(x, y))
    BY <1>6, <1>7, <1>8, <2>1 DEF Less
  <2>4. e.from = x /\ (v # w => e.to = y) /\ (e.to = x \/ e.to = y)
    BY <1>11, <2>3 DEF ReferenceRange
  <2>5. QED
    BY <2>2, <2>4
<1>13. PICK S : S = {p \in Places : ~Before(p, <<b, d, v>>) /\ ~Before(<<b, d, w>>, p)}
  OBVIOUS
<1>14. PICK T : T = {p \in Places : ~Before(p, <<b, c, v>>) /\ ~Before(<<b, c, w>>, p)}
  OBVIOUS
<1>15. ASSUME NEW p \in S
       PROVE  p = <<b, d, p[3]>> /\ <<b, c, p[3]>> \in T
  <2>1. p \in Places /\ ~Before(p, <<b, d, v>>) /\ ~Before(<<b, d, w>>, p)
    BY <1>13
  <2>2. /\ p[1] \in Nat /\ p[2] \in Nat /\ p[3] \in Nat \ {0} /\ p = <<p[1], p[2], p[3]>>
    BY <2>1, PlaceParts
  <2>3. p[1] = b /\ p[2] = d /\ v <= p[3] /\ p[3] <= w
    BY <1>6, <2>1, <2>2 DEF Before
  <2>4. PICK i \in Nat \ {0} : i = p[3]
    BY <2>2
  <2>5. c \in DOMAIN Verses[b] /\ i \in 1 .. Verses[b][c]
    <3>1. DOMAIN Verses[b] = 1 .. chapter_count(b)
      BY <1>5, BibleAssumption DEF chapter_count
    <3>2. w <= Verses[b][c] /\ i <= w
      BY <1>8, <2>3, <2>4
    <3>3. QED
      BY <1>6, <1>8, <3>1, <3>2
  <2>6. <<b, c, i>> \in Places
    BY <1>5, <2>5 DEF Places
  <2>7. ~Before(<<b, c, i>>, <<b, c, v>>) /\ ~Before(<<b, c, w>>, <<b, c, i>>)
    BY <1>6, <1>8, <2>3, <2>4 DEF Before
  <2>8. QED
    BY <1>14, <2>2, <2>3, <2>4, <2>6, <2>7
<1>16. PICK f : f = [p \in S |-> <<b, c, p[3]>>]
  OBVIOUS
<1>17. f \in Injection(S, T)
  <2>1. f \in [S -> T]
    BY <1>15, <1>16
  <2>2. ASSUME NEW p \in S, NEW q \in S, f[p] = f[q] PROVE p = q
    <3>1. <<b, c, p[3]>> = <<b, c, q[3]>>
      BY <1>16, <2>2
    <3>2. p[3] = q[3]
      BY <3>1
    <3>3. QED
      BY <1>15, <3>2
  <2>3. QED
    BY <2>1, <2>2 DEF Injection, IsInjective
<1>18. /\ IsFiniteSet(S) /\ IsFiniteSet(T) /\ Cardinality(S) <= total_verse_count + 1
       /\ Cardinality(S) \in Nat /\ Cardinality(T) \in Nat /\ total_verse_count + 1 \in Nat
  BY <1>13, <1>14, SizesFit
<1>19. Cardinality(S) <= Cardinality(T)
  BY <1>17, <1>18, FS_Injection
<1>20. Size(r) = Cardinality(S)
  BY <1>4, <1>5, <1>13 DEF Size
<1>21. Size(e) = Cardinality(T) \/ Size(e) = total_verse_count + 1
  BY <1>12, <1>14 DEF Size
<1>22. Size(e) >= Size(r)
  BY <1>18, <1>19, <1>20, <1>21
<1>23. QED
  BY <1>2, <1>3, <1>9, <1>10, <1>11, <1>22

-----------------------------------------------------------------------------
(* The readings of a citation                                                *)
(* One or two numbers in their order. *)
LEMMA ShortOrder ==
  ASSUME NEW x \in Nat, NEW y \in Nat, x < y
  PROVE  /\ IsFiniteSet({x}) /\ Cardinality({x}) = 1 /\ InOrder({x})[1] = x
         /\ IsFiniteSet({x, y}) /\ Cardinality({x, y}) = 2 /\ InOrder({x, y})[1] = x /\ InOrder({x, y})[2] = y
<1>1. PICK S : S = {x}
  OBVIOUS
<1>2. PICK T : T = {x, y}
  OBVIOUS
<1>3. IsFiniteSet(S) /\ Cardinality(S) = 1
  BY <1>1, FS_Singleton
<1>4. IsFiniteSet(T) /\ Cardinality(T) = 2
  <2>1. T = S \cup {y} /\ y \notin S
    BY <1>1, <1>2
  <2>2. QED
    BY <1>3, <2>1, FS_AddElement
<1>5. InOrder(S)[1] = x
  <2>1. S \in SUBSET Nat /\ 1 \in 1 .. 1
    BY <1>1
  <2>2. InOrder(S) \in [1 .. 1 -> S]
    BY <1>3, <2>1, InOrderCorrect
  <2>3. InOrder(S)[1] \in S
    BY <2>1, <2>2
  <2>4. QED
    BY <1>1, <2>3
<1>6. InOrder(T)[1] = x /\ InOrder(T)[2] = y
  <2>1. T \in SUBSET Nat /\ 1 \in 1 .. 2 /\ 2 \in 1 .. 2 /\ 1 < 2
    BY <1>2
  <2>2. InOrder(T) \in [1 .. 2 -> T]
    BY <1>4, <2>1, InOrderCorrect
  <2>3. InOrder(T)[1] \in T /\ InOrder(T)[2] \in T
    BY <2>1, <2>2
  <2>4. \A m, n \in 1 .. 2 : m < n => InOrder(T)[m] < InOrder(T)[n]
    BY <1>4, <2>1, InOrderGrows
  <2>5. InOrder(T)[1] < InOrder(T)[2]
    BY <2>1, <2>4
  <2>6. QED
    BY <1>2, <2>3, <2>5
<1>7. QED
  BY <1>1, <1>2, <1>3, <1>4, <1>5, <1>6

Semicolon == ";"

\* The template of two citations, of m and k numbers.
TwoParts(t, q, r, m, k) ==
  /\ m \in Nat /\ k \in Nat /\ m = Len(NumbersIn(q)) /\ k = Len(NumbersIn(r))
  /\ Len(t.numbers) = m + k /\ DOMAIN t.chars = 1 .. m + k - 1
  /\ \A i \in 1 .. m : t.numbers[i] = NumbersIn(q)[i]
  /\ \A i \in 1 .. k : t.numbers[m + i] = NumbersIn(r)[i]
  /\ \A i \in 1 .. m - 1 : t.chars[i] = CharsIn(q)[i]
  /\ t.chars[m] = Semicolon
  /\ \A i \in 1 .. k - 1 : t.chars[m + i] = CharsIn(r)[i]

(* The template of two citations has theirs in it. *)
LEMMA TwoPartsAre ==
  ASSUME NEW b, NEW q, IsCited(b, q), NEW r, IsCited(b, r), NEW t, t = TemplateOfTwo(q, r)
  PROVE  /\ WholeTemplate(t) /\ t.numbers # << >> /\ \A i \in DOMAIN t.numbers : t.numbers[i] \in Nat
         /\ TwoParts(t, q, r, Len(NumbersIn(q)), Len(NumbersIn(r)))
<1>1. t.numbers = NumbersOfTwo(q, r) /\ t.chars = CharsOfTwo(q, r)
  BY DEF TemplateOfTwo
<1>2. PICK w : Spells(w, t.numbers, t.chars)
  BY <1>1, TwoSpell
<1>3. /\ WholeTemplate(t) /\ t.numbers # << >> /\ DOMAIN t.chars = 1 .. Len(t.numbers) - 1
  BY <1>2, SpelledTemplate
<1>4. t.numbers \in Seq(Nat)
  BY <1>2, SpelledParts
<1>5. /\ NumbersIn(q) \in Seq(Nat) /\ CharsIn(q) \in Seq(Signs) /\ Len(NumbersIn(q)) \in Nat \ {0}
      /\ Len(CharsIn(q)) = Len(NumbersIn(q)) - 1
  BY CitationSpells, SpelledParts
<1>6. /\ NumbersIn(r) \in Seq(Nat) /\ CharsIn(r) \in Seq(Signs) /\ Len(NumbersIn(r)) \in Nat \ {0}
      /\ Len(CharsIn(r)) = Len(NumbersIn(r)) - 1
  BY CitationSpells, SpelledParts
<1>7. PICK m \in Nat \ {0} : m = Len(NumbersIn(q))
  BY <1>5
<1>8. PICK k \in Nat \ {0} : k = Len(NumbersIn(r))
  BY <1>6
<1>9. Concat(t.numbers, Nat, NumbersIn(q), NumbersIn(r))
  BY <1>1, <1>5, <1>6, ConcatIs DEF NumbersOfTwo
<1>10. /\ Len(t.numbers) = m + k
       /\ \A i \in 1 .. m : t.numbers[i] = NumbersIn(q)[i]
       /\ \A i \in 1 .. k : t.numbers[m + i] = NumbersIn(r)[i]
  BY <1>7, <1>8, <1>9 DEF Concat
<1>11. Join(t.chars, Signs, CharsIn(q), Semicolon, CharsIn(r))
  <2>1. Semicolon \in Signs
    BY DEF Semicolon, Signs
  <2>2. t.chars = CharsIn(q) \o (<<Semicolon>> \o CharsIn(r))
    BY <1>1 DEF CharsOfTwo, Semicolon
  <2>3. QED
    BY <1>5, <1>6, <2>1, <2>2, JoinIs
<1>12. /\ \A i \in 1 .. m - 1 : t.chars[i] = CharsIn(q)[i]
       /\ t.chars[m] = Semicolon
       /\ \A i \in 1 .. k - 1 : t.chars[m + i] = CharsIn(r)[i]
  <2>1. Len(CharsIn(q)) = m - 1 /\ Len(CharsIn(r)) = k - 1 /\ (m - 1) + 1 = m
    BY <1>5, <1>6, <1>7, <1>8
  <2>2. QED
    BY <1>11, <2>1 DEF Join
<1>13. TwoParts(t, q, r, m, k)
  BY <1>3, <1>7, <1>8, <1>10, <1>12 DEF TwoParts
<1>14. \A i \in DOMAIN t.numbers : t.numbers[i] \in Nat
  BY <1>4
<1>15. QED
  BY <1>3, <1>7, <1>8, <1>13, <1>14

(* Two ranges are read as they are. *)
LEMMA TwoRead ==
  ASSUME NEW b, NEW q, IsCited(b, q), NEW r, IsCited(b, r)
  PROVE  ReadsWithComma(TemplateOfTwo(q, r), b, <<q, r>>, {Semicolon})
<1>1. PICK t : t = TemplateOfTwo(q, r)
  OBVIOUS
<1>2. PICK m : m = Len(NumbersIn(q))
  OBVIOUS
<1>3. PICK k : k = Len(NumbersIn(r))
  OBVIOUS
<1>4. WholeTemplate(t) /\ t.numbers # << >> /\ TwoParts(t, q, r, m, k)
  BY <1>1, <1>2, <1>3, TwoPartsAre
<1>5. RangeParts(q, m, NumbersIn(q), CharsIn(q)) /\ RangeParts(r, k, NumbersIn(r), CharsIn(r))
  BY <1>2, <1>3, RangePartsAre
<1>6. m \in {2, 3, 4} /\ k \in {2, 3, 4}
  BY <1>5 DEF RangeParts
<1>7. m \in Nat /\ k \in Nat /\ 2 <= m /\ 2 <= k
  BY <1>6
<1>8. /\ Len(t.numbers) = m + k /\ DOMAIN t.chars = 1 .. m + k - 1
      /\ \A i \in 1 .. m : t.numbers[i] = NumbersIn(q)[i]
      /\ \A i \in 1 .. k : t.numbers[m + i] = NumbersIn(r)[i]
      /\ \A i \in 1 .. m - 1 : t.chars[i] = CharsIn(q)[i]
      /\ t.chars[m] = Semicolon
      /\ \A i \in 1 .. k - 1 : t.chars[m + i] = CharsIn(r)[i]
  BY <1>4 DEF TwoParts
<1>9. /\ Comma # "-" /\ Dash = "-" /\ Semicolon # "-" /\ Semicolon # Comma /\ Semicolon # Dash
  BY DEF Comma, Dash, Semicolon
<1>10. ASSUME NEW i \in 1 .. m + k - 1
       PROVE  IF i = m THEN t.chars[i] = Semicolon ELSE t.chars[i] = Comma \/ t.chars[i] = Dash
  <2>1. CASE i = m
    BY <1>8, <2>1
  <2>2. CASE i < m
    <3>1. i \in 1 .. m - 1 /\ i # m
      BY <1>7, <2>2
    <3>2. CharsIn(q)[i] = Comma \/ CharsIn(q)[i] = Dash
      BY <1>5, <3>1 DEF RangeParts
    <3>3. QED
      BY <1>8, <3>1, <3>2
  <2>3. CASE m < i
    <3>1. PICK j \in Nat : j = i - m
      BY <1>7, <2>3
    <3>2. j \in 1 .. k - 1 /\ i = m + j /\ i # m
      BY <1>7, <2>3, <3>1
    <3>3. CharsIn(r)[j] = Comma \/ CharsIn(r)[j] = Dash
      BY <1>5, <3>2 DEF RangeParts
    <3>4. QED
      BY <1>8, <3>2, <3>3
  <2>4. QED
    BY <1>7, <2>1, <2>2, <2>3
<1>11. m \in 1 .. m + k - 1 /\ 1 \in 1 .. m + k - 1 /\ 1 # m /\ 1 \in 1 .. m - 1
  BY <1>7
<1>12. Cuts(t, Comma) = {m}
  <2>1. \A i \in 1 .. m + k - 1 : t.chars[i] \notin {"-", Comma} <=> i = m
    BY <1>9, <1>10
  <2>2. QED
    BY <1>8, <1>11, <2>1 DEF Cuts
<1>13. Cardinality(Cuts(t, Comma)) = 1 /\ InOrder(Cuts(t, Comma))[1] = m
  <2>1. m < m + 1 /\ m + 1 \in Nat
    BY <1>7
  <2>2. Cardinality({m}) = 1 /\ InOrder({m})[1] = m
    BY <1>7, <2>1, ShortOrder
  <2>3. QED
    BY <1>12, <2>2
<1>14. Parts(t, Comma) = {1, 2}
  <2>1. Parts(t, Comma) = 1 .. Cardinality(Cuts(t, Comma)) + 1
    BY DEF Parts, Cuts
  <2>2. 1 .. 1 + 1 = {1, 2}
    OBVIOUS
  <2>3. QED
    BY <1>13, <2>1, <2>2
<1>15. /\ Lo(t, Comma, 1) = 1 /\ Hi(t, Comma, 1) = m
       /\ Lo(t, Comma, 2) = m + 1 /\ Hi(t, Comma, 2) = m + k
  <2>1. ~(1 > 1) /\ 2 > 1 /\ 2 # 1 /\ 2 - 1 = 1
    OBVIOUS
  <2>2. Lo(t, Comma, 1) = 1 /\ Hi(t, Comma, 1) = m
    BY <1>13, <2>1 DEF Lo, Hi
  <2>3. Lo(t, Comma, 2) = m + 1 /\ Hi(t, Comma, 2) = m + k
    BY <1>8, <1>13, <2>1 DEF Lo, Hi
  <2>4. QED
    BY <2>2, <2>3
<1>16. HoldsAt(t, q, 1, m)
  <2>1. m = 1 + m - 1 /\ \A i \in 1 .. m : 1 + i - 1 = i
    BY <1>7
  <2>2. \A i \in 1 .. m - 1 : 1 + i - 1 = i
    BY <1>7
  <2>3. QED
    BY <1>2, <1>8, <2>1, <2>2 DEF HoldsAt
<1>17. HoldsAt(t, r, m + 1, m + k)
  <2>1. m + k = (m + 1) + k - 1 /\ \A i \in 1 .. k : (m + 1) + i - 1 = m + i
    BY <1>7
  <2>2. \A i \in 1 .. k - 1 : (m + 1) + i - 1 = m + i
    BY <1>7
  <2>3. QED
    BY <1>3, <1>8, <2>1, <2>2 DEF HoldsAt
<1>18. PartReadable(t, b, Comma, 1) /\ PartMeaning(t, b, Comma, 1) = q
  <2>1. 1 \in Parts(t, Comma) /\ HoldsAt(t, q, Lo(t, Comma, 1), Hi(t, Comma, 1))
    BY <1>14, <1>15, <1>16
  <2>2. QED
    BY <1>4, <2>1, PartOfRange
<1>19. PartReadable(t, b, Comma, 2) /\ PartMeaning(t, b, Comma, 2) = r
  <2>1. 2 \in Parts(t, Comma) /\ HoldsAt(t, r, Lo(t, Comma, 2), Hi(t, Comma, 2))
    BY <1>14, <1>15, <1>17
  <2>2. QED
    BY <1>4, <2>1, PartOfRange
<1>20. Readable(t, b, Comma)
  BY <1>14, <1>18, <1>19 DEF Readable
<1>21. Meaning(t, b, Comma) = <<q, r>>
  <2>1. PICK f : f = Meaning(t, b, Comma)
    OBVIOUS
  <2>2. f = [n \in {1, 2} |-> PartMeaning(t, b, Comma, n)]
    BY <1>14, <2>1 DEF Meaning
  <2>3. f[1] = q /\ f[2] = r /\ f = [n \in {1, 2} |-> f[n]]
    BY <1>18, <1>19, <2>2
  <2>4. {1, 2} = 1 .. 2
    OBVIOUS
  <2>5. f = <<q, r>>
    BY <2>3, <2>4
  <2>6. QED
    BY <2>1, <2>5
<1>22. Comma \in ToSet(DownChars(t)) /\ ToSet(DownChars(t)) \subseteq {Comma, Semicolon}
  <2>1. t.chars[1] = Comma /\ 1 \in DOMAIN t.chars
    BY <1>5, <1>8, <1>11 DEF RangeParts
  <2>2. Comma \in ToSet(DownChars(t))
    BY <1>4, <1>9, <2>1, CharsTried
  <2>3. \A c \in ToSet(DownChars(t)) : c # "-" /\ \E i \in DOMAIN t.chars : t.chars[i] = c
    BY <1>4, <1>9, <2>1, CharsTried
  <2>4. QED
    BY <1>8, <1>9, <1>10, <2>2, <2>3
<1>23. QED
  BY <1>1, <1>4, <1>20, <1>21, <1>22 DEF ReadsWithComma

(* A part goes from a number to a number. *)
LEMMA PartNumbers ==
  ASSUME NEW t, WholeTemplate(t), t.numbers # << >>, \A i \in DOMAIN t.numbers : t.numbers[i] \in Nat,
         NEW b \in Books, NEW c, c # "-", NEW n \in Parts(t, c)
  PROVE  From(t, c, n)[2] \in Nat /\ To(t, b, c, n)[2] \in Nat
<1>1. PICK L \in Nat : L = Len(t.numbers) /\ DOMAIN t.numbers = 1 .. L
  BY CutsOf
<1>2. /\ Part(t, c, n) = Lo(t, c, n) .. Hi(t, c, n)
      /\ Lo(t, c, n) \in 1 .. L /\ Hi(t, c, n) \in 1 .. L /\ Lo(t, c, n) <= Hi(t, c, n)
  BY <1>1, PartIs
<1>3. ~Heading(t, c, Hi(t, c, n))
  BY SectionIs
<1>4. PICK P : P = Points(t, c, n)
  OBVIOUS
<1>5. P \in SUBSET (1 .. L) /\ P # {}
  <2>1. Part(t, c, n) \in SUBSET (1 .. L) /\ Hi(t, c, n) \in Part(t, c, n)
    BY <1>1, <1>2
  <2>2. QED
    BY <1>3, <1>4, <2>1 DEF Points
<1>6. Min(P) \in 1 .. L
  <2>1. P \in SUBSET Nat
    BY <1>5
  <2>2. Min(P) \in P
    BY <1>5, <2>1, MinOfNumbers
  <2>3. QED
    BY <1>5, <2>2
<1>7. Max(P) \in 1 .. L
  <2>1. Max(P) \in P
    BY <1>5, MaxOfNumbers
  <2>2. QED
    BY <1>5, <2>1
<1>8. \A x : verse_count(b, x) \in Nat
  <2>1. SUFFICES ASSUME NEW x, x \in 1 .. chapter_count(b) PROVE Verses[b][x] \in Nat
    BY DEF verse_count
  <2>2. Verses[b] \in Seq(Nat \ {0})
    BY BibleAssumption
  <2>3. QED
    BY <2>1, <2>2 DEF chapter_count
<1>9. \A i \in 1 .. L : Begins(t, c, i)[2] \in Nat /\ Ends(t, b, c, i)[2] \in Nat
  <2>1. SUFFICES ASSUME NEW i \in 1 .. L PROVE Begins(t, c, i)[2] \in Nat /\ Ends(t, b, c, i)[2] \in Nat
    OBVIOUS
  <2>2. t.numbers[i] \in Nat
    BY <1>1
  <2>3. Begins(t, c, i)[2] = 1 \/ Begins(t, c, i)[2] = t.numbers[i]
    BY DEF Begins
  <2>4. Ends(t, b, c, i)[2] = verse_count(b, t.numbers[i]) \/ Ends(t, b, c, i)[2] = t.numbers[i]
    BY DEF Ends
  <2>5. QED
    BY <1>8, <2>2, <2>3, <2>4
<1>10. From(t, c, n) = Begins(t, c, Min(P)) /\ To(t, b, c, n) = Ends(t, b, c, Max(P))
  BY <1>4 DEF From, To
<1>11. QED
  BY <1>6, <1>7, <1>9, <1>10

\* Read with ";" the template is a chapter, a range in between, and as many
\* verses as r has.
SemicolonParts(t, b, q, r, c) ==
  /\ DOMAIN Meaning(t, b, c) = 1 .. 3
  /\ Readable(t, b, c) =>
       /\ Size(Meaning(t, b, c)[1]) >= Size(q) /\ Size(Meaning(t, b, c)[2]) >= 1
       /\ Size(Meaning(t, b, c)[3]) >= Size(r)

(* What two citations are, read with ";". *)
LEMMA SemicolonReads ==
  ASSUME NEW b, NEW q, IsCited(b, q), InOneChapter(q), NEW r, IsCited(b, r), InOneChapter(r)
  PROVE  SemicolonParts(TemplateOfTwo(q, r), b, q, r, Semicolon)
<1>1. PICK t : t = TemplateOfTwo(q, r)
  OBVIOUS
<1>2. PICK m : m = Len(NumbersIn(q))
  OBVIOUS
<1>3. PICK k : k = Len(NumbersIn(r))
  OBVIOUS
<1>4. /\ WholeTemplate(t) /\ t.numbers # << >> /\ TwoParts(t, q, r, m, k)
      /\ \A i \in DOMAIN t.numbers : t.numbers[i] \in Nat
  BY <1>1, <1>2, <1>3, TwoPartsAre
<1>5. RangeParts(q, m, NumbersIn(q), CharsIn(q)) /\ RangeParts(r, k, NumbersIn(r), CharsIn(r))
  BY <1>2, <1>3, RangePartsAre
<1>6. m \in {2, 3} /\ k \in {2, 3}
  BY <1>5 DEF RangeParts, InOneChapter
<1>7. m \in Nat /\ k \in Nat /\ 2 <= m /\ 2 <= k /\ k <= 3
  BY <1>6
<1>8. /\ Len(t.numbers) = m + k /\ DOMAIN t.chars = 1 .. m + k - 1
      /\ \A i \in 1 .. m : t.numbers[i] = NumbersIn(q)[i]
      /\ \A i \in 1 .. k : t.numbers[m + i] = NumbersIn(r)[i]
      /\ \A i \in 1 .. m - 1 : t.chars[i] = CharsIn(q)[i]
      /\ t.chars[m] = Semicolon
      /\ \A i \in 1 .. k - 1 : t.chars[m + i] = CharsIn(r)[i]
  BY <1>4 DEF TwoParts
<1>9. /\ Comma # "-" /\ Dash = "-" /\ Semicolon # "-" /\ Semicolon # Comma /\ Semicolon # Dash /\ Comma # Dash
  BY DEF Comma, Dash, Semicolon
<1>10. PICK c : c = Semicolon
  OBVIOUS
<1>11. ASSUME NEW i \in 1 .. m + k - 1
       PROVE  IF i = m THEN t.chars[i] = Semicolon
              ELSE IF i = 1 \/ i = m + 1 THEN t.chars[i] = Comma ELSE t.chars[i] = Dash
  <2>1. CASE i = m
    BY <1>8, <2>1
  <2>2. CASE i < m
    <3>1. i \in 1 .. m - 1 /\ i # m /\ i # m + 1 /\ (i # 1 => i \in 2 .. m - 1)
      BY <1>7, <2>2
    <3>2. IF i = 1 THEN CharsIn(q)[i] = Comma ELSE CharsIn(q)[i] = Dash
      BY <1>5, <3>1 DEF RangeParts, InOneChapter
    <3>3. QED
      BY <1>8, <3>1, <3>2
  <2>3. CASE m < i
    <3>1. PICK j \in Nat : j = i - m
      BY <1>7, <2>3
    <3>2. j \in 1 .. k - 1 /\ i = m + j /\ i # m /\ (j # 1 => j \in 2 .. k - 1) /\ (j = 1 <=> i = m + 1) /\ i # 1
      BY <1>7, <2>3, <3>1
    <3>3. IF j = 1 THEN CharsIn(r)[j] = Comma ELSE CharsIn(r)[j] = Dash
      BY <1>5, <3>2 DEF RangeParts, InOneChapter
    <3>4. QED
      BY <1>8, <3>2, <3>3
  <2>4. QED
    BY <1>7, <2>1, <2>2, <2>3
<1>12. /\ m \in 1 .. m + k - 1 /\ 1 \in 1 .. m + k - 1 /\ m + 1 \in 1 .. m + k - 1 /\ 1 # m /\ m + 1 # m
       /\ 1 < m + 1 /\ 1 \in Nat /\ m + 1 \in Nat
  BY <1>7
<1>13. \A j : Heading(t, c, j) <=> j = m
  BY <1>8, <1>9, <1>10, <1>11, <1>12 DEF Heading
<1>14. Cuts(t, c) = {1, m + 1}
  <2>1. \A i \in 1 .. m + k - 1 : t.chars[i] \notin {"-", c} <=> i = 1 \/ i = m + 1
    BY <1>9, <1>10, <1>11, <1>12
  <2>2. QED
    BY <1>8, <1>12, <2>1 DEF Cuts
<1>15. Cardinality(Cuts(t, c)) = 2 /\ InOrder(Cuts(t, c))[1] = 1 /\ InOrder(Cuts(t, c))[2] = m + 1
  <2>1. Cardinality({1, m + 1}) = 2 /\ InOrder({1, m + 1})[1] = 1 /\ InOrder({1, m + 1})[2] = m + 1
    BY <1>12, ShortOrder
  <2>2. QED
    BY <1>14, <2>1
<1>16. Parts(t, c) = 1 .. 3 /\ 1 \in 1 .. 3 /\ 2 \in 1 .. 3 /\ 3 \in 1 .. 3
  <2>1. Parts(t, c) = 1 .. Cardinality(Cuts(t, c)) + 1
    BY DEF Parts, Cuts
  <2>2. 2 + 1 = 3 /\ 1 \in 1 .. 3 /\ 2 \in 1 .. 3 /\ 3 \in 1 .. 3
    OBVIOUS
  <2>3. QED
    BY <1>15, <2>1, <2>2
<1>17. /\ Lo(t, c, 1) = 1 /\ Hi(t, c, 1) = 1 /\ Lo(t, c, 3) = m + 2 /\ Hi(t, c, 3) = m + k
  <2>1. ~(1 > 2) /\ 3 > 2 /\ 3 # 1 /\ 3 - 1 = 2
    OBVIOUS
  <2>2. Lo(t, c, 1) = 1 /\ Hi(t, c, 1) = 1
    BY <1>15, <2>1 DEF Lo, Hi
  <2>3. Lo(t, c, 3) = (m + 1) + 1 /\ Hi(t, c, 3) = m + k
    BY <1>8, <1>15, <2>1 DEF Lo, Hi
  <2>4. (m + 1) + 1 = m + 2
    BY <1>7
  <2>5. QED
    BY <2>2, <2>3, <2>4
<1>18. PICK d : d = q.from.chapter
  OBVIOUS
<1>19. From(t, c, 1) = <<d, 1>> /\ To(t, b, c, 1) = <<d, verse_count(b, d)>>
  <2>1. Spans(t, c, Lo(t, c, 1), Hi(t, c, 1), 1, 1)
    <3>1. 1 \in 1 .. 1 /\ 1 <= 1 /\ \A j \in 1 .. 1 : j = 1
      OBVIOUS
    <3>2. ~Heading(t, c, 1)
      BY <1>12, <1>13
    <3>3. QED
      BY <1>17, <3>1, <3>2 DEF Spans
  <2>2. From(t, c, 1) = Begins(t, c, 1) /\ To(t, b, c, 1) = Ends(t, b, c, 1)
    BY <1>4, <1>16, <2>1, FromTo
  <2>3. Headings(t, c, 1) = {}
    BY DEF Headings
  <2>4. t.numbers[1] = d
    <3>1. 1 \in 1 .. m
      BY <1>7
    <3>2. NumbersIn(q)[1] = d
      BY <1>5, <1>18 DEF RangeParts
    <3>3. QED
      BY <1>8, <3>1, <3>2
  <2>5. QED
    BY <2>2, <2>3, <2>4 DEF Begins, Ends
<1>20. PICK e : e = t.numbers[m]
  OBVIOUS
<1>21. From(t, c, 3) = <<e, r.from.verse>> /\ To(t, b, c, 3) = <<e, r.to.verse>>
  <2>1. m + 2 \in Nat /\ m + k \in Nat /\ m + 2 <= m + k /\ m + 2 # m /\ m + k # m
        /\ m + 2 \in m + 2 .. m + k /\ m + k \in m + 2 .. m + k
        /\ \A j \in m + 2 .. m + k : j # m /\ (j = m + 2 \/ j = m + k)
    <3>1. SUFFICES ASSUME NEW j \in m + 2 .. m + k PROVE j # m /\ (j = m + 2 \/ j = m + k)
      BY <1>7
    <3>2. QED
      BY <1>7
  <2>2. Spans(t, c, Lo(t, c, 3), Hi(t, c, 3), m + 2, m + k)
    BY <1>13, <1>17, <2>1 DEF Spans
  <2>3. From(t, c, 3) = Begins(t, c, m + 2) /\ To(t, b, c, 3) = Ends(t, b, c, m + k)
    BY <1>4, <1>16, <2>2, FromTo
  <2>4. /\ m \in 1 .. (m + 2) - 1 /\ m \in 1 .. (m + k) - 1
        /\ (\A i \in m + 1 .. (m + 2) - 1 : i # m) /\ (\A i \in m + 1 .. (m + k) - 1 : i # m)
    BY <1>7
  <2>5. Headings(t, c, m + 2) # {} /\ Max(Headings(t, c, m + 2)) = m
    BY <1>13, <2>1, <2>4, HeadingAt
  <2>6. Headings(t, c, m + k) # {} /\ Max(Headings(t, c, m + k)) = m
    BY <1>13, <2>1, <2>4, HeadingAt
  <2>7. t.numbers[m + 2] = r.from.verse /\ t.numbers[m + k] = r.to.verse
    <3>1. 2 \in 1 .. k /\ k \in 1 .. k
      BY <1>7
    <3>2. NumbersIn(r)[2] = r.from.verse /\ NumbersIn(r)[k] = r.to.verse
      BY <1>5 DEF RangeParts, InOneChapter
    <3>3. QED
      BY <1>8, <3>1, <3>2
  <2>8. QED
    BY <1>20, <2>3, <2>5, <2>6, <2>7 DEF Begins, Ends
<1>22. PICK f : f = Meaning(t, b, c)
  OBVIOUS
<1>23. DOMAIN f = 1 .. 3 /\ \A n \in 1 .. 3 : f[n] = PartMeaning(t, b, c, n)
  BY <1>16, <1>22 DEF Meaning
<1>24. b \in Books
  BY ReferenceOf DEF IsCited
<1>25. Size(f[1]) >= Size(q)
  <2>1. f[1] = ReferenceRange(Reference(b, d, 1), Reference(b, d, verse_count(b, d)))
    BY <1>16, <1>19, <1>23 DEF PartMeaning
  <2>2. QED
    BY <1>18, <2>1, ChapterIsLarger
<1>26. ASSUME Readable(t, b, c) PROVE Size(f[2]) >= 1 /\ Size(f[3]) >= Size(r)
  <2>1. \A n \in 1 .. 3 :
          /\ Creatable(b, From(t, c, n)[1], From(t, c, n)[2])
          /\ Creatable(b, To(t, b, c, n)[1], To(t, b, c, n)[2])
    BY <1>16, <1>26 DEF Readable, PartReadable
  <2>2. Size(f[3]) >= Size(r)
    <3>1. Creatable(b, e, r.from.verse) /\ Creatable(b, e, r.to.verse)
      BY <1>16, <1>21, <2>1
    <3>2. f[3] = ReferenceRange(Reference(b, e, r.from.verse), Reference(b, e, r.to.verse))
      BY <1>16, <1>21, <1>23 DEF PartMeaning
    <3>3. QED
      BY <3>1, <3>2, AsManyVerses
  <2>3. Size(f[2]) >= 1
    <3>1. PICK x : x = From(t, c, 2)
      OBVIOUS
    <3>2. PICK y : y = To(t, b, c, 2)
      OBVIOUS
    <3>3. x[2] \in Nat /\ y[2] \in Nat
      BY <1>4, <1>9, <1>10, <1>16, <1>24, <3>1, <3>2, PartNumbers
    <3>4. Creatable(b, x[1], x[2]) /\ Creatable(b, y[1], y[2])
      BY <1>16, <2>1, <3>1, <3>2
    <3>5. f[2] = ReferenceRange(Reference(b, x[1], x[2]), Reference(b, y[1], y[2]))
      BY <1>16, <1>23, <3>1, <3>2 DEF PartMeaning
    <3>6. QED
      BY <1>24, <3>3, <3>4, <3>5, SizeIsPositive
  <2>4. QED
    BY <2>2, <2>3
<1>27. QED
  BY <1>1, <1>10, <1>22, <1>23, <1>25, <1>26 DEF SemicolonParts

(* So the reading with "," is smaller. *)
LEMMA CommaIsSmaller ==
  ASSUME NEW b, NEW q, IsCited(b, q), InOneChapter(q), NEW r, IsCited(b, r), InOneChapter(r),
         Readable(TemplateOfTwo(q, r), b, Semicolon)
  PROVE  ~(Total(Meaning(TemplateOfTwo(q, r), b, Semicolon)) <= Total(<<q, r>>))
<1>1. PICK f : f = Meaning(TemplateOfTwo(q, r), b, Semicolon)
  OBVIOUS
<1>2. DOMAIN f = 1 .. 3 /\ Size(f[1]) >= Size(q) /\ Size(f[2]) >= 1 /\ Size(f[3]) >= Size(r)
  BY <1>1, SemicolonReads DEF SemicolonParts
<1>3. Total(f) = Size(f[1]) + Size(f[2]) + Size(f[3])
  BY <1>2, ShortTotals
<1>4. PICK g : g = <<q, r>>
  OBVIOUS
<1>5. DOMAIN g = 1 .. 2 /\ g[1] = q /\ g[2] = r
  BY <1>4
<1>6. Total(g) = Size(q) + Size(r)
  BY <1>5, ShortTotals
<1>7. Size(f[1]) \in Nat /\ Size(f[2]) \in Nat /\ Size(f[3]) \in Nat /\ Size(q) \in Nat /\ Size(r) \in Nat
  BY SizeIsNumber
<1>8. ~(Total(f) <= Total(g))
  BY <1>2, <1>3, <1>6, <1>7
<1>9. QED
  BY <1>1, <1>4, <1>8

-----------------------------------------------------------------------------
(* The citation that is chosen                                               *)
\* What find_book has returned, and the template that was made of it.
TakenInv ==
  /\ state = "parse" => found = {}
  /\ state # "parse" =>
       IF found = {} THEN find_book(text, cursor) = {}
       ELSE \E f \in find_book(text, cursor) :
              found = {f} /\ template = create_passage_template(text, f.numbers)

(* What has been found is kept, with its template. *)
LEMMA TakenInductive == Spec => []TakenInv
<1>1. Init => TakenInv
  BY DEF Init, TakenInv
<1>2. TakenInv /\ [Next]_vars => TakenInv'
  <2> SUFFICES ASSUME TakenInv, [Next]_vars PROVE TakenInv'
    OBVIOUS
  <2>1. CASE NoBook
    BY <2>1 DEF NoBook, TakenInv
  <2>2. CASE FindBook
    <3>1. PICK f \in find_book(text, cursor) :
            LET t == create_passage_template(text, f.numbers)
                verse == Reference(f.book, 1, 1)
            IN  /\ found' = {f} /\ template' = t
                /\ IF t.numbers = << >>
                     THEN /\ state' = "done" /\ ranges' = <<ReferenceRange(verse, verse)>>
                          /\ UNCHANGED <<trying, current_chapter>>
                     ELSE /\ state' = "match" /\ trying' = DownChars(t)
                          /\ current_chapter' = t.numbers[1]
                          /\ UNCHANGED ranges
      BY <2>2 DEF FindBook
    <3>2. found' = {f} /\ template' = create_passage_template(text, f.numbers) /\ state' # "parse"
      BY <3>1
    <3>3. text' = text /\ cursor' = cursor
      BY <2>2 DEF FindBook
    <3>4. QED
      BY <3>2, <3>3 DEF TakenInv
  <2>3. CASE Choose
    BY <2>3 DEF Choose, TakenInv
  <2>4. CASE state = "match" /\ UNCHANGED <<text, cursor, state, found, template>>
    BY <2>4 DEF TakenInv
  <2>5. CASE UNCHANGED vars
    BY <2>5 DEF vars, TakenInv
  <2>6. QED
    BY <2>1, <2>2, <2>3, <2>4, <2>5 DEF Next, VerseToVerse, VerseToVerseOfChapter, VerseToOtherChapter,
       ChapterToVerse, Verse, VersesOfCurrent, Chapters, VerseOfCurrent, Chapter, OtherShape, Matching
<1>3. QED
  BY <1>1, <1>2, PTL DEF Spec

(* Of a text that find_book reads so, the template is taken, in that book. *)
LEMMA TakenIs ==
  ASSUME TakenInv, state = "done", NEW k, NEW t, BookAndTemplate(text, k, t), cursor = 1
  PROVE  found # {} /\ template = t /\ Book = name_variants_list[k].book
<1>1. find_book(text, cursor) # {}
  BY DEF BookAndTemplate
<1>2. PICK f \in find_book(text, cursor) : found = {f} /\ template = create_passage_template(text, f.numbers)
  BY <1>1 DEF TakenInv
<1>3. template = t /\ f.book = name_variants_list[k].book
  BY <1>2 DEF BookAndTemplate
<1>4. (CHOOSE g \in found : TRUE) = f
  BY <1>2
<1>5. QED
  BY <1>2, <1>3, <1>4 DEF Book

(* What is chosen is a reading of the template, and no other has fewer verses. *)
LEMMA ChosenIs ==
  ASSUME ReadInv, ChosenInv, state = "done", Matched,
         NEW c \in ToSet(DownChars(template)), Readable(template, Book, c)
  PROVE  \E d \in ToSet(DownChars(template)) :
           /\ Readable(template, Book, d) /\ ranges = Meaning(template, Book, d)
           /\ Total(Meaning(template, Book, d)) <= Total(Meaning(template, Book, c))
<1> DEFINE good == {d \in ToSet(DownChars(template)) : Readable(template, Book, d)}
           meaning(d) == Meaning(template, Book, d)
<1>1. /\ WholeTemplate(template) /\ template.numbers # << >> /\ CharsOf(template) /\ trying = << >>
      /\ Reading(template, Book, trying, section, current_level, current_chapter, readings)
      /\ ranges = IF DOMAIN readings = {} THEN << >> ELSE readings[Smallest(readings)]
  BY DEF ReadInv, ChosenInv, Matched
<1>2. \A d \in ToSet(DownChars(template)) : Done(template, Book, d, readings)
  <2>1. ToSet(trying) = {}
    BY <1>1 DEF ToSet
  <2>2. QED
    BY <1>1, <2>1 DEF Reading
<1>3. DOMAIN readings = good
  <2>1. DOMAIN readings \subseteq ToSet(DownChars(template))
    BY <1>1 DEF Reading
  <2>2. QED
    BY <1>2, <2>1 DEF Done
<1>4. \A d \in DOMAIN readings : readings[d] = meaning(d)
  BY <1>2, <1>3 DEF Done
<1>5. \A d \in DOMAIN readings : Total(readings[d]) \in Nat /\ Position(d) \in Nat
  <2>1. SUFFICES ASSUME NEW d \in DOMAIN readings PROVE Total(readings[d]) \in Nat /\ Position(d) \in Nat
    OBVIOUS
  <2>2. Total(meaning(d)) \in Nat
    BY <1>1, TotalIs
  <2>3. d \in ToSet(DownChars(template))
    BY <1>3
  <2>4. Position(d) \in Nat
    BY <1>1, <2>3, PositionIs
  <2>5. QED
    BY <1>4, <2>2, <2>4
<1>6. c \in DOMAIN readings /\ DOMAIN readings # {}
  BY <1>3
<1>7. PICK d : d = Smallest(readings)
  OBVIOUS
<1>8. d \in DOMAIN readings /\ \A e \in DOMAIN readings : Total(readings[d]) <= Total(readings[e])
  BY <1>5, <1>6, <1>7, SmallestIs
<1>9. d \in good /\ ranges = meaning(d)
  BY <1>1, <1>3, <1>4, <1>6, <1>7, <1>8
<1>10. Total(meaning(d)) <= Total(meaning(c))
  BY <1>4, <1>6, <1>8
<1>11. QED
  BY <1>9, <1>10

(* If the template is read with "," as l is written, and with any other       *)
(* character only as something larger, l is the result.                       *)
LEMMA ReadsAsWritten ==
  ASSUME ReadInv, ChosenInv, state = "done", found # {}, NEW l, NEW E,
         ReadsWithComma(template, Book, l, E),
         \A d \in E : Readable(template, Book, d) => ~(Total(Meaning(template, Book, d)) <= Total(l))
  PROVE  ranges = l
<1>1. /\ Matched /\ Comma \in ToSet(DownChars(template)) /\ ToSet(DownChars(template)) \subseteq {Comma} \cup E
      /\ Readable(template, Book, Comma) /\ Meaning(template, Book, Comma) = l
  BY DEF ReadsWithComma, Matched
<1>2. PICK d \in ToSet(DownChars(template)) :
        /\ Readable(template, Book, d) /\ ranges = Meaning(template, Book, d)
        /\ Total(Meaning(template, Book, d)) <= Total(Meaning(template, Book, Comma))
  BY <1>1, ChosenIs
<1>3. d \notin E
  BY <1>1, <1>2
<1>4. d = Comma
  BY <1>1, <1>2, <1>3
<1>5. QED
  BY <1>1, <1>2, <1>4

(* One range that is cited is found. *)
LEMMA OneIsFound ==
  ASSUME ReadInv, ChosenInv, TakenInv, state = "done", cursor = 1, NEW k \in DOMAIN name_variants_list,
         NEW l, NEW b, l = <<l[1]>>, IsCited(b, l[1]), b = name_variants_list[k].book, text = Cited(k, l)
  PROVE  ranges = l
<1>1. BookAndTemplate(text, k, TemplateOfOne(l[1]))
  BY OneFound
<1>2. found # {} /\ template = TemplateOfOne(l[1]) /\ Book = b
  BY <1>1, TakenIs
<1>3. ReadsWithComma(template, Book, <<l[1]>>, {})
  BY <1>2, OneReads
<1>4. ranges = <<l[1]>>
  BY <1>2, <1>3, ReadsAsWritten
<1>5. QED
  BY <1>4

(* Two ranges that are cited are found. *)
LEMMA TwoAreFound ==
  ASSUME ReadInv, ChosenInv, TakenInv, state = "done", cursor = 1, NEW k \in DOMAIN name_variants_list,
         NEW l, NEW b, l = <<l[1], l[2]>>, IsCited(b, l[1]), InOneChapter(l[1]),
         IsCited(b, l[2]), InOneChapter(l[2]), b = name_variants_list[k].book, text = Cited(k, l)
  PROVE  ranges = l
<1>1. BookAndTemplate(text, k, TemplateOfTwo(l[1], l[2]))
  BY TwoFound
<1>2. found # {} /\ template = TemplateOfTwo(l[1], l[2]) /\ Book = b
  BY <1>1, TakenIs
<1>3. ReadsWithComma(template, Book, <<l[1], l[2]>>, {Semicolon})
  BY <1>2, TwoRead
<1>4. Readable(template, Book, Semicolon) => ~(Total(Meaning(template, Book, Semicolon)) <= Total(<<l[1], l[2]>>))
  BY <1>2, CommaIsSmaller
<1>5. ranges = <<l[1], l[2]>>
  BY <1>2, <1>3, <1>4, ReadsAsWritten
<1>6. QED
  BY <1>5

(* What is written as a citation, of one range or of two, is found as it is   *)
(* meant by parse(), for every table of verses, of names and of digits: the   *)
(* other readings of the characters between the numbers fail or are larger.   *)
THEOREM CitationsAreFound == Spec => []RoundTrip
<1>1. ReadInv /\ ChosenInv /\ TakenInv => RoundTrip
  <2> SUFFICES ASSUME ReadInv, ChosenInv, TakenInv, state = "done", cursor = 1,
                      NEW k \in DOMAIN name_variants_list, NEW l \in Citations,
                      l[1].from.book = name_variants_list[k].book, text = Cited(k, l)
               PROVE  ranges = l
    BY DEF RoundTrip
  <2>1. PICK b \in Books :
          \/ l = <<l[1]>> /\ IsCited(b, l[1])
          \/ l = <<l[1], l[2]>> /\ \A i \in 1 .. 2 : IsCited(b, l[i]) /\ InOneChapter(l[i])
    BY CitationsAssumption DEF CitationsFit
  <2>2. CASE l = <<l[1]>> /\ IsCited(b, l[1])
    <3>1. b = name_variants_list[k].book
      BY <2>2 DEF IsCited
    <3>2. QED
      BY <2>2, <3>1, OneIsFound
  <2>3. CASE l = <<l[1], l[2]>> /\ \A i \in 1 .. 2 : IsCited(b, l[i]) /\ InOneChapter(l[i])
    <3>1. /\ IsCited(b, l[1]) /\ InOneChapter(l[1]) /\ IsCited(b, l[2]) /\ InOneChapter(l[2])
      BY <2>3
    <3>2. b = name_variants_list[k].book
      BY <3>1 DEF IsCited
    <3>3. QED
      BY <2>3, <3>1, <3>2, TwoAreFound
  <2>4. QED
    BY <2>1, <2>2, <2>3
<1>2. QED
  BY <1>1, ReadInductive, ChosenInductive, TakenInductive, PTL

=============================================================================
