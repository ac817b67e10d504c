---------------------------- MODULE Shares_proofs ----------------------------
(***************************************************************************)
(* Proofs about targets, partitions and shares, for any width of a byte    *)
(* and of a word, any difficulties, extranonces, bits and hashes.          *)
(***************************************************************************)
EXTENDS Shares, FiniteSetTheorems, TLAPS

-----------------------------------------------------------------------------
(* Powers of two, counted by subsets.                                      *)

\* A power of two is a positive number.
LEMMA PowType ==
    ASSUME NEW n \in Nat
    PROVE  2 ^ n \in Nat \ {0}
  <1>1. IsFiniteSet(1..n) /\ Cardinality(1..n) = n
    BY FS_Interval
  <1>2. IsFiniteSet(SUBSET (1..n)) /\ Cardinality(SUBSET (1..n)) = 2 ^ n
    BY <1>1, FS_SUBSET
  <1>3. Cardinality(SUBSET (1..n)) \in Nat
    BY <1>2, FS_CardinalityType
  <1>4. SUBSET (1..n) # {}
    <2>1. {} \in SUBSET (1..n)
      OBVIOUS
    <2> QED BY <2>1
  <1>5. Cardinality(SUBSET (1..n)) # 0
    BY <1>2, <1>4, FS_EmptySet
  <1> QED BY <1>2, <1>3, <1>5

\* The numbers of an interval.
LEMMA IntervalSize ==
    ASSUME NEW m \in Nat, NEW n \in Nat
    PROVE  IsFiniteSet((m + 1)..(m + n)) /\ Cardinality((m + 1)..(m + n)) = n
  <1>1. m + 1 \in Int /\ m + n \in Int
    OBVIOUS
  <1>2. /\ IsFiniteSet((m + 1)..(m + n))
        /\ Cardinality((m + 1)..(m + n)) =
                IF m + 1 > m + n THEN 0 ELSE (m + n) - (m + 1) + 1
    BY ONLY <1>1, FS_Interval
  <1>3. (IF m + 1 > m + n THEN 0 ELSE (m + n) - (m + 1) + 1) = n
    OBVIOUS
  <1> QED BY <1>2, <1>3

\* Subsets of two disjoint sets are pairs of subsets.
LEMMA PowAdd ==
    ASSUME NEW m \in Nat, NEW n \in Nat
    PROVE  2 ^ (m + n) = 2 ^ m * 2 ^ n
  <1> DEFINE A == 1..m
             B == (m + 1)..(m + n)
             D == SUBSET (1..(m + n))
             E == (SUBSET A) \X (SUBSET B)
             f == [X \in D |-> <<X \cap A, X \cap B>>]
  <1>1. /\ IsFiniteSet(A) /\ Cardinality(A) = m
        /\ IsFiniteSet(B) /\ Cardinality(B) = n
        /\ IsFiniteSet(1..(m + n)) /\ Cardinality(1..(m + n)) = m + n
    <2>1. m + n \in Nat
      OBVIOUS
    <2>2. \A k \in Nat : IsFiniteSet(1..k) /\ Cardinality(1..k) = k
      BY FS_Interval
    <2> QED BY <2>1, <2>2, IntervalSize
  <1>2. A \cup B = 1..(m + n) /\ A \cap B = {}
    OBVIOUS
  <1> HIDE DEF A, B
  <1>3. f \in [D -> E]
    OBVIOUS
  <1>4. \A X, Y \in D : f[X] = f[Y] => X = Y
    BY <1>2
  <1>5. \A p \in E : \E X \in D : f[X] = p
    <2>1. TAKE p \in E
    <2>2. PICK X, Y : p = <<X, Y>> /\ X \in SUBSET A /\ Y \in SUBSET B
      OBVIOUS
    <2>3. X \cup Y \in D
      BY <1>2, <2>2
    <2>4. (X \cup Y) \cap A = X /\ (X \cup Y) \cap B = Y
      BY <1>2, <2>2
    <2>5. f[X \cup Y] = p
      BY <2>2, <2>3, <2>4
    <2> QED BY <2>3, <2>5
  <1>6. ExistsBijection(D, E)
    <2>1. f \in Bijection(D, E)
      BY <1>3, <1>4, <1>5, Zenon DEF Bijection, Injection, Surjection, IsInjective
    <2> QED BY <2>1 DEF ExistsBijection
  <1>7. /\ IsFiniteSet(SUBSET A) /\ Cardinality(SUBSET A) = 2 ^ m
        /\ IsFiniteSet(SUBSET B) /\ Cardinality(SUBSET B) = 2 ^ n
        /\ IsFiniteSet(D) /\ Cardinality(D) = 2 ^ (m + n)
    BY <1>1, FS_SUBSET
  <1>8. Cardinality(E) = 2 ^ m * 2 ^ n
    BY <1>7, FS_Product
  <1>9. Cardinality(E) = Cardinality(D)
    BY <1>6, <1>7, FS_Bijection
  <1> QED BY <1>7, <1>8, <1>9

\* The first powers, and that they grow.
LEMMA PowBasics ==
    /\ 2 ^ 0 = 1 /\ 2 ^ 1 = 2
    /\ \A m, n \in Nat : m <= n => 2 ^ m <= 2 ^ n
  <1>1. 2 ^ 0 = 1 /\ 2 ^ 1 = 2
    OBVIOUS
  <1>2. ASSUME NEW m \in Nat, NEW n \in Nat, m <= n
        PROVE  2 ^ m <= 2 ^ n
    <2>1. n - m \in Nat /\ m + (n - m) = n
      BY <1>2
    <2>2. 2 ^ n = 2 ^ m * 2 ^ (n - m)
      BY <2>1, PowAdd
    <2>3. 2 ^ m \in Nat \ {0} /\ 2 ^ (n - m) \in Nat \ {0}
      BY <2>1, PowType
    <2>4. \A a, b \in Nat \ {0} : a <= a * b
      OBVIOUS
    <2> QED BY <2>2, <2>3, <2>4
  <1> QED BY <1>1, <1>2

-----------------------------------------------------------------------------
(* Division.                                                               *)

\* Quotient and remainder.
LEMMA DivMod ==
    ASSUME NEW a \in Nat, NEW k \in Nat \ {0}
    PROVE  /\ a % k \in 0..(k - 1) /\ a \div k \in Nat /\ a \div k <= a
           /\ a = k * (a \div k) + (a % k)
  <1>1. a % k \in 0..(k - 1)
    OBVIOUS
  <1>2. a \div k \in Int /\ a \div k >= 0
    OBVIOUS
  <1>3. a \div k <= a
    OBVIOUS
  <1>4. a = k * (a \div k) + (a % k)
    OBVIOUS
  <1> QED BY <1>1, <1>2, <1>3, <1>4

\* There is one quotient and one remainder.
LEMMA DivModUnique ==
    ASSUME NEW k \in Nat \ {0}, NEW q \in Nat, NEW r \in 0..(k - 1)
    PROVE  (k * q + r) \div k = q /\ (k * q + r) % k = r
  OBVIOUS

\* The remainder of a multiple.
LEMMA ModScale ==
    ASSUME NEW a \in Nat, NEW p \in Nat \ {0}, NEW q \in Nat \ {0}
    PROVE  (p * a) % (p * q) = p * (a % q) /\ (p * a) \div (p * q) = a \div q
  <1> DEFINE d == a \div q
             m == a % q
  <1>1. m \in 0..(q - 1) /\ d \in Nat /\ a = q * d + m
    BY DivMod
  <1> HIDE DEF d, m
  <1>2. p * a = (p * q) * d + p * m
    BY <1>1
  <1>3. p * q \in Nat \ {0}
    OBVIOUS
  <1>4. p * m \in 0..(p * q - 1)
    <2>1. p * m \in Nat
      BY <1>1
    <2>2. p * (m + 1) <= p * q
      BY <1>1
    <2>3. p * (m + 1) = p * m + p
      BY <1>1
    <2> QED BY <1>3, <2>1, <2>2, <2>3
  <1> DEFINE k == p * q
             rest == p * m
  <1>5. k \in Nat \ {0} /\ rest \in 0..(k - 1) /\ p * a = k * d + rest
    BY <1>2, <1>3, <1>4
  <1> HIDE DEF k, rest
  <1>6. (p * a) % k = rest /\ (p * a) \div k = d
    BY <1>1, <1>5, DivModUnique
  <1> QED BY <1>6 DEF k, rest, d, m

-----------------------------------------------------------------------------
(* Words.                                                                  *)

\* Widths are positive, and a word has room for three bytes.
LEMMA Widths ==
    /\ ByteBits \in Nat \ {0} /\ WordBytes \in Nat \ {0} /\ WordBits \in Nat \ {0}
    /\ WordBits = ByteBits * WordBytes /\ 3 * ByteBits <= WordBits
    /\ Radix \in Nat \ {0} /\ Radix = 2 ^ WordBits
    /\ 0 \in Nonces /\ NoMask \in Nonces /\ NoMask + 1 = Radix
  <1>1. ByteBits \in Nat \ {0} /\ WordBytes \in Nat \ {0} /\ WordBytes >= 3
    BY SharesAssumption
  <1>2. ByteBits * WordBytes \in Nat \ {0} /\ 3 * ByteBits <= ByteBits * WordBytes
    BY <1>1
  <1>3. Radix \in Nat \ {0}
    BY <1>2, PowType DEF Radix, WordBits
  <1> QED BY <1>1, <1>2, <1>3 DEF WordBits, Radix, Nonces, NoMask

\* What is above decides.
LEMMA Above ==
    ASSUME NEW R \in Nat \ {0}, NEW c \in 0..(R - 1), NEW d \in 0..(R - 1),
           NEW x \in Nat, NEW y \in Nat
    PROVE  /\ x < y => c + R * x < d + R * y
           /\ c + R * x \in Nat
  OBVIOUS

\* Words compared from the top one down are numbers compared.
LEMMA LeqIsValue ==
    ASSUME NEW a \in Words, NEW b \in Words, Leq(a, b)
    PROVE  Value(a) <= Value(b)
  <1> DEFINE R == Radix
             A2 == a[2] + R * a[3]
             B2 == b[2] + R * b[3]
             A1 == a[1] + R * A2
             B1 == b[1] + R * B2
             A0 == a[0] + R * A1
             B0 == b[0] + R * B1
  <1>1. R \in Nat \ {0}
    BY Widths
  <1>2. \A i \in 0..3 : a[i] \in 0..(R - 1) /\ b[i] \in 0..(R - 1)
    BY DEF Words, Nonces
  <1>3. Value(a) = A0 /\ Value(b) = B0
    BY DEF Value
  <1> HIDE DEF R
  <1>4. a[3] \in Nat /\ b[3] \in Nat
    BY <1>1, <1>2
  <1>5. A2 \in Nat /\ B2 \in Nat /\ (a[3] < b[3] => A2 < B2)
    <2>1. a[2] \in 0..(R - 1) /\ b[2] \in 0..(R - 1)
      BY <1>2
    <2> QED BY <1>1, <1>4, <2>1, Above
  <1> HIDE DEF A2, B2
  <1>6. A1 \in Nat /\ B1 \in Nat /\ (A2 < B2 => A1 < B1)
    BY <1>1, <1>2, <1>5, Above
  <1> HIDE DEF A1, B1
  <1>7. A0 \in Nat /\ B0 \in Nat /\ (A1 < B1 => A0 < B0)
    BY <1>1, <1>2, <1>6, Above
  <1>8. CASE a = b
    BY <1>3, <1>7, <1>8
  <1>9. ASSUME NEW i \in 0..3, a[i] < b[i], \A j \in 0..3 : j > i => a[j] = b[j]
        PROVE  A0 < B0
    <2>1. CASE i = 3
      BY <1>5, <1>6, <1>7, <1>9, <2>1
    <2>2. CASE i = 2
      <3>1. a[3] = b[3]
        BY <1>9, <2>2
      <3>2. A2 < B2
        BY <1>1, <1>2, <1>9, <2>2, <3>1 DEF A2, B2
      <3> QED BY <1>6, <1>7, <3>2
    <2>3. CASE i = 1
      <3>1. a[3] = b[3] /\ a[2] = b[2]
        BY <1>9, <2>3
      <3>2. A2 = B2
        BY <3>1 DEF A2, B2
      <3>3. A1 < B1
        BY <1>1, <1>2, <1>5, <1>9, <2>3, <3>2 DEF A1, B1
      <3> QED BY <1>7, <3>3
    <2>4. CASE i = 0
      <3>1. a[3] = b[3] /\ a[2] = b[2] /\ a[1] = b[1]
        BY <1>9, <2>4
      <3>2. A1 = B1
        BY <3>1 DEF A1, B1, A2, B2
      <3> QED BY <1>1, <1>2, <1>6, <1>9, <2>4, <3>2
    <2> QED BY <2>1, <2>2, <2>3, <2>4
  <1> QED BY <1>3, <1>7, <1>8, <1>9 DEF Leq

\* A word that is shifted left by less than its width is two words.
LEMMA TwoWords ==
    ASSUME NEW m \in Nonces, NEW r \in 0..(WordBits - 1)
    PROVE  LET lo == (m * 2 ^ r) % Radix
               hi == IF r = 0 THEN 0 ELSE m \div 2 ^ (WordBits - r)
           IN lo \in Nonces /\ hi \in Nonces /\ lo + Radix * hi = m * 2 ^ r
  <1> DEFINE P == 2 ^ r
             Q == 2 ^ (WordBits - r)
             lo == (m * P) % Radix
             hi == IF r = 0 THEN 0 ELSE m \div Q
  <1>1. r \in Nat /\ WordBits - r \in Nat /\ r + (WordBits - r) = WordBits /\ m \in Nat
        /\ Radix \in Nat \ {0}
    BY Widths DEF Nonces
  <1>2. P \in Nat \ {0} /\ Q \in Nat \ {0} /\ Radix = P * Q
    BY <1>1, PowType, PowAdd, Widths
  <1>3. CASE r = 0
    <2>1. P = 1
      BY <1>3, PowBasics
    <2> HIDE DEF P, Q
    <2>2. m * P = m
      BY <1>1, <2>1
    <2>3. m % Radix = m
      <3>1. m \in 0..(Radix - 1) /\ Radix * 0 + m = m
        BY <1>1 DEF Nonces
      <3> QED BY <1>1, <3>1, DivModUnique
    <2>4. lo = m /\ hi = 0
      BY <1>3, <2>2, <2>3
    <2>5. lo + Radix * hi = m * P
      BY <1>1, <2>2, <2>4
    <2> QED BY <2>4, <2>5, Widths DEF P, Q
  <1>4. CASE r # 0
    <2> HIDE DEF P, Q
    <2>1. m * P = P * m
      BY <1>1, <1>2
    <2>2. lo = P * (m % Q)
      <3>1. (P * m) % (P * Q) = P * (m % Q)
        BY <1>1, <1>2, ModScale
      <3>2. lo = (P * m) % (P * Q)
        BY <1>2, <2>1
      <3> QED BY <3>1, <3>2
    <2>3. m % Q \in 0..(Q - 1) /\ m \div Q \in Nat /\ m \div Q <= m
          /\ m = Q * (m \div Q) + (m % Q)
      BY <1>1, <1>2, DivMod
    <2>4. lo \in Nonces
      <3>1. m * P \in Nat
        BY <1>1, <1>2
      <3> QED BY <1>1, <3>1, DivMod DEF Nonces
    <2> DEFINE d == m \div Q
               n == m % Q
    <2>5. hi = d
      BY <1>4
    <2> HIDE DEF d, n, lo, hi
    <2>6. hi \in Nonces
      BY <1>1, <2>3, <2>5 DEF d, Nonces
    <2>7. lo + Radix * hi = m * P
      <3>1. d \in Nat /\ n \in Nat /\ m = Q * d + n /\ lo = P * n
        BY <1>1, <1>2, <2>2, <2>3 DEF d, n
      <3>2. Radix * hi = P * (Q * d)
        BY <1>2, <2>5, <3>1
      <3>3. lo + Radix * hi = P * (Q * d + n)
        BY <1>2, <3>1, <3>2
      <3> QED BY <1>1, <1>2, <2>1, <3>1, <3>3
    <2> QED BY <2>4, <2>6, <2>7 DEF lo, hi, P, Q
  <1> QED BY <1>3, <1>4

\* Powers of a word.
LEMMA WordPowers ==
    /\ 2 ^ (WordBits * 0) = 1 /\ 2 ^ (WordBits * 1) = Radix
    /\ 2 ^ (WordBits * 2) = Radix * Radix /\ 2 ^ (WordBits * 3) = Radix * (Radix * Radix)
    /\ 2 ^ (WordBits * 4) = Radix * (Radix * (Radix * Radix))
  <1> DEFINE W == WordBits
  <1>1. W \in Nat /\ Radix = 2 ^ W
    BY Widths
  <1> HIDE DEF W
  <1>2. W * 0 = 0 /\ W * 1 = W /\ W * 2 = W + W /\ W * 3 = W + W * 2 /\ W * 4 = W + W * 3
        /\ W * 2 \in Nat /\ W * 3 \in Nat
    BY <1>1
  <1>3. 2 ^ (W * 0) = 1 /\ 2 ^ (W * 1) = Radix
    BY <1>1, <1>2, PowBasics
  <1>4. 2 ^ (W * 2) = Radix * Radix
    BY <1>1, <1>2, PowAdd
  <1>5. 2 ^ (W * 3) = Radix * (Radix * Radix)
    BY <1>1, <1>2, <1>4, PowAdd
  <1>6. 2 ^ (W * 4) = Radix * (Radix * (Radix * Radix))
    BY <1>1, <1>2, <1>5, PowAdd
  <1> QED BY <1>3, <1>4, <1>5, <1>6 DEF W

\* Two neighbouring words, of which the upper one may be beyond the top.
LEMMA Place ==
    ASSUME NEW lo \in Nonces, NEW hi \in Nonces, NEW at \in 0..3, NEW words \in Words,
           \A i \in 0..3 : words[i] = IF i = at THEN lo ELSE IF i = at + 1 THEN hi ELSE 0
    PROVE  Value(words) = 2 ^ (WordBits * at) * (IF at = 3 THEN lo ELSE lo + Radix * hi)
  <1> DEFINE R == Radix
  <1>1. R \in Nat /\ lo \in Nat /\ hi \in Nat
    BY Widths DEF Nonces
  <1>2. Value(words) = words[0] + R * (words[1] + R * (words[2] + R * words[3]))
    BY DEF Value
  <1>3. 2 ^ (WordBits * 0) = 1 /\ 2 ^ (WordBits * 1) = R
        /\ 2 ^ (WordBits * 2) = R * R /\ 2 ^ (WordBits * 3) = R * (R * R)
    BY WordPowers
  <1> HIDE DEF R
  <1>4. CASE at = 0
    <2>1. words[0] = lo /\ words[1] = hi /\ words[2] = 0 /\ words[3] = 0
      BY <1>4
    <2>2. Value(words) = lo + R * hi
      BY <1>1, <1>2, <2>1
    <2> QED BY <1>1, <1>3, <1>4, <2>2 DEF R
  <1>5. CASE at = 1
    <2>1. words[0] = 0 /\ words[1] = lo /\ words[2] = hi /\ words[3] = 0
      BY <1>5
    <2>2. Value(words) = R * (lo + R * hi)
      BY <1>1, <1>2, <2>1
    <2> QED BY <1>1, <1>3, <1>5, <2>2 DEF R
  <1>6. CASE at = 2
    <2>1. words[0] = 0 /\ words[1] = 0 /\ words[2] = lo /\ words[3] = hi
      BY <1>6
    <2>2. Value(words) = R * (R * (lo + R * hi))
      BY <1>1, <1>2, <2>1
    <2>3. R * (R * (lo + R * hi)) = (R * R) * (lo + R * hi)
      <3> DEFINE v == lo + R * hi
      <3>1. v \in Nat
        BY <1>1
      <3> HIDE DEF v
      <3>2. R * (R * v) = (R * R) * v
        BY <1>1, <3>1
      <3> QED BY <3>2 DEF v
    <2> QED BY <1>1, <1>3, <1>6, <2>2, <2>3 DEF R
  <1>7. CASE at = 3
    <2>1. words[0] = 0 /\ words[1] = 0 /\ words[2] = 0 /\ words[3] = lo
      BY <1>7
    <2>2. Value(words) = R * (R * (R * lo))
      BY <1>1, <1>2, <2>1
    <2>3. R * (R * (R * lo)) = (R * (R * R)) * lo
      BY <1>1
    <2> QED BY <1>1, <1>3, <1>7, <2>2, <2>3 DEF R
  <1> QED BY <1>4, <1>5, <1>6, <1>7

-----------------------------------------------------------------------------
(* Targets.                                                                *)

\* A small number is its own remainder.
LEMMA ModSmall ==
    ASSUME NEW k \in Nat \ {0}, NEW a \in 0..(k - 1)
    PROVE  a % k = a
  <1>1. k * 0 + a = a
    OBVIOUS
  <1>2. (k * 0 + a) % k = a
    BY DivModUnique
  <1> QED BY <1>1, <1>2

\* The words of a difficulty are the number it stands for.
LEMMA DifficultyTarget ==
    ASSUME NEW d \in Difficulties, Start(d) <= 3, ~TooBig(d), NEW words,
           words = [i \in 0..3 |->
                CASE i = Start(d) -> (NewMantissa(d) * 2 ^ Remainder(d)) % Radix
                  [] i = Start(d) + 1 -> Top(d)
                  [] OTHER -> 0]
    PROVE  /\ words \in Words
           /\ Remainder(d) # 0 \/ Start(d) = 3 => Value(words) = DifficultyValue(d)
  <1> DEFINE m == NewMantissa(d)
             e == Exponent + d.exponent
             at == Start(d)
             r == Remainder(d)
             P == 2 ^ r
             lo == (m * P) % Radix
             hi == IF r = 0 THEN 0 ELSE m \div 2 ^ (WordBits - r)
  <1>1. m \in Nonces /\ e \in Nat /\ m \in Nat
    BY SharesAssumption DEF NewMantissa, Nonces
  <1>2. r \in 0..(WordBits - 1) /\ at \in Nat /\ e = WordBits * at + r
    BY <1>1, Widths, DivMod DEF Start, Remainder
  <1>3. at \in 0..3 /\ WordBits \in Nat \ {0} /\ Radix \in Nat \ {0}
    BY <1>2, Widths
  <1>4. lo \in Nonces /\ hi \in Nonces /\ lo + Radix * hi = m * P
    BY <1>1, <1>2, TwoWords
  <1>5. Top(d) \in Nonces /\ (r # 0 => Top(d) = hi)
    <2>1. CASE r = 0
      <3>1. (WordBits - r) % WordBits = 0
        <4>1. WordBits * 1 + 0 = WordBits - r
          BY <1>3, <2>1
        <4>2. (WordBits * 1 + 0) % WordBits = 0
          BY <1>3, DivModUnique
        <4> QED BY <4>1, <4>2
      <3>2. Top(d) = m \div 1
        BY <3>1, PowBasics DEF Top
      <3>3. m \div 1 = m
        BY <1>1
      <3> QED BY <1>1, <2>1, <3>2, <3>3
    <2>2. CASE r # 0
      <3>1. (WordBits - r) % WordBits = WordBits - r
        <4>1. WordBits - r \in 0..(WordBits - 1)
          BY <1>2, <1>3, <2>2
        <4> QED BY <1>3, <4>1, ModSmall
      <3> QED BY <1>4, <2>2, <3>1 DEF Top
    <2> QED BY <2>1, <2>2
  <1>6. words = [i \in 0..3 |-> IF i = at THEN lo ELSE IF i = at + 1 THEN Top(d) ELSE 0]
    <2>1. at # at + 1
      BY <1>2
    <2> QED BY <2>1
  <1> HIDE DEF m, e, at, r, P, lo, hi
  <1>7. words \in Words
    BY <1>4, <1>5, <1>6, Widths DEF Words
  <1>8. ASSUME r # 0 \/ at = 3
        PROVE  Value(words) = DifficultyValue(d)
    <2>1. DifficultyValue(d) = m * 2 ^ e
      BY DEF DifficultyValue, m, e, NewMantissa
    <2>2. 2 ^ e = 2 ^ (WordBits * at) * P
      <3>1. WordBits * at \in Nat /\ r \in Nat
        BY <1>2, <1>3
      <3> QED BY <1>2, <3>1, PowAdd DEF P
    <2>3. Value(words) = 2 ^ (WordBits * at) * (m * P)
      <3>1. CASE at = 3
        <4>1. m * P < Radix
          <5>1. ~(m * P >= Radix)
            BY <3>1 DEF TooBig, m, P, r, at
          <5>2. P \in Nat
            BY <1>2, PowType DEF P
          <5>3. m * P \in Nat
            BY <1>1, <5>2
          <5> QED BY <1>3, <5>1, <5>3
        <4>2. lo = m * P
          <5>1. P \in Nat
            BY <1>2, PowType DEF P
          <5>2. m * P \in 0..(Radix - 1)
            BY <1>1, <1>3, <4>1, <5>1
          <5> QED BY <1>3, <5>2, ModSmall DEF lo
        <4>3. \A i \in 0..3 : words[i] = IF i = at THEN lo ELSE IF i = at + 1 THEN hi ELSE 0
          BY <1>6, <3>1
        <4> QED BY <1>3, <1>4, <1>7, <3>1, <4>2, <4>3, Place
      <3>2. CASE at # 3
        <4>1. \A i \in 0..3 : words[i] = IF i = at THEN lo ELSE IF i = at + 1 THEN hi ELSE 0
          BY <1>5, <1>6, <1>8, <3>2
        <4> QED BY <1>3, <1>4, <1>7, <3>2, <4>1, Place
      <3> QED BY <3>1, <3>2
    <2>4. \A a, b, c \in Nat : a * (b * c) = b * (a * c)
      OBVIOUS
    <2>5. P \in Nat /\ 2 ^ (WordBits * at) \in Nat
      <3>1. WordBits * at \in Nat /\ r \in Nat
        BY <1>2, <1>3
      <3> QED BY <3>1, PowType DEF P
    <2> QED BY <1>1, <2>1, <2>2, <2>3, <2>4, <2>5
  <1> QED BY <1>7, <1>8 DEF at, r

\* A number of one word, shifted: the lowest four words of the product are kept.
LEMMA ShlOfWord ==
    ASSUME NEW m \in Nonces, NEW e \in Nat
    PROVE  /\ Shl(FromWord(m), e) \in Words
           /\ e < WordBits * 4 => Value(Shl(FromWord(m), e)) = (m * 2 ^ e) % 2 ^ (WordBits * 4)
           /\ e >= WordBits * 4 => Value(Shl(FromWord(m), e)) = 0
  <1> DEFINE at == e \div WordBits
             r == e % WordBits
             P == 2 ^ r
             lo == (m * P) % Radix
             hi == IF r = 0 THEN 0 ELSE m \div 2 ^ (WordBits - r)
             words == Shl(FromWord(m), e)
  <1>1. WordBits \in Nat \ {0} /\ Radix \in Nat \ {0} /\ m \in Nat
    BY Widths DEF Nonces
  <1>2. r \in 0..(WordBits - 1) /\ at \in Nat /\ e = WordBits * at + r
    BY <1>1, DivMod
  <1>3. lo \in Nonces /\ hi \in Nonces /\ lo + Radix * hi = m * P
    BY <1>2, TwoWords
  <1>4. P \in Nat \ {0} /\ (r # 0 => 2 ^ (WordBits - r) \in Nat \ {0})
    BY <1>1, <1>2, PowType
  <1>5. words = [i \in 0..3 |-> IF i = at THEN lo ELSE IF i = at + 1 THEN hi ELSE 0]
    <2>1. \A i \in 0..3 : FromWord(m)[i] = IF i = 0 THEN m ELSE 0
      BY DEF FromWord
    <2> DEFINE shifted(i) == IF i < at THEN 0 ELSE (FromWord(m)[i - at] * P) % Radix
               carry(i) == IF r = 0 \/ i < at + 1 THEN 0
                           ELSE FromWord(m)[i - at - 1] \div 2 ^ (WordBits - r)
    <2>2. words = [i \in 0..3 |-> shifted(i) + carry(i)]
      BY DEF Shl
    <2>3. (0 * P) % Radix = 0
      <3>1. 0 * P = 0
        BY <1>4
      <3> QED BY <1>1, <3>1, ModSmall
    <2>4. r # 0 => 0 \div 2 ^ (WordBits - r) = 0
      <3>1. \A k \in Nat \ {0} : 0 \div k = 0
        OBVIOUS
      <3> QED BY <1>4, <3>1
    <2>5. ASSUME NEW i \in 0..3
          PROVE  shifted(i) = IF i = at THEN lo ELSE 0
      <3>1. CASE i < at
        BY <3>1
      <3>2. CASE i = at
        <4>1. i - at = 0 /\ 0 \in 0..3 /\ ~(i < at)
          BY <1>2, <3>2
        <4>2. FromWord(m)[i - at] = m
          BY <2>1, <4>1
        <4> QED BY <3>2, <4>1, <4>2
      <3>3. CASE i > at
        <4>1. i - at \in 0..3 /\ i - at # 0 /\ ~(i < at) /\ i # at
          BY <1>2, <3>3
        <4>2. FromWord(m)[i - at] = 0
          BY <2>1, <4>1
        <4> QED BY <2>3, <4>1, <4>2
      <3> QED BY <1>2, <3>1, <3>2, <3>3
    <2>6. ASSUME NEW i \in 0..3
          PROVE  carry(i) = IF i = at + 1 THEN hi ELSE 0
      <3>1. CASE r = 0 \/ i < at + 1
        BY <1>2, <3>1
      <3>2. CASE r # 0 /\ i = at + 1
        <4>1. i - at - 1 = 0 /\ 0 \in 0..3 /\ ~(i < at + 1)
          BY <1>2, <3>2
        <4>2. FromWord(m)[i - at - 1] = m
          BY <2>1, <4>1
        <4> QED BY <3>2, <4>1, <4>2
      <3>3. CASE r # 0 /\ i > at + 1
        <4>1. i - at - 1 \in 0..3 /\ i - at - 1 # 0 /\ ~(i < at + 1) /\ i # at + 1
          BY <1>2, <3>3
        <4>2. FromWord(m)[i - at - 1] = 0
          BY <2>1, <4>1
        <4> QED BY <2>4, <3>3, <4>1, <4>2
      <3> QED BY <1>2, <3>1, <3>2, <3>3
    <2> HIDE DEF shifted, carry, words
    <2>7. lo \in Nat /\ hi \in Nat /\ at # at + 1
      BY <1>1, <1>2, <1>3 DEF Nonces
    <2>8. \A i \in 0..3 : shifted(i) + carry(i)
                            = IF i = at THEN lo ELSE IF i = at + 1 THEN hi ELSE 0
      <3> HIDE DEF lo, hi, at, r
      <3> QED BY <2>5, <2>6, <2>7
    <2> QED BY <2>2, <2>8
  <1> HIDE DEF words, lo, hi, P, r, at
  <1>6. words \in Words
    BY <1>3, <1>5, Widths DEF Words
  <1>7. ASSUME e >= WordBits * 4 PROVE Value(words) = 0
    <2>1. at >= 4
      <3>1. \A w \in Nat, a, n \in Nat : a <= 3 /\ n < w => w * a + n < w * 4
        OBVIOUS
      <3>2. ~(at <= 3)
        BY <1>1, <1>2, <1>7, <3>1
      <3> QED BY <1>2, <3>2
    <2>2. words[0] = 0 /\ words[1] = 0 /\ words[2] = 0 /\ words[3] = 0
      BY <1>2, <1>5, <2>1
    <2> QED BY <1>1, <2>2 DEF Value
  <1>8. ASSUME e < WordBits * 4
        PROVE  Value(words) = (m * 2 ^ e) % 2 ^ (WordBits * 4)
    <2>1. at \in 0..3
      <3>1. \A w \in Nat, a, n \in Nat : a >= 4 => w * a + n >= w * 4
        OBVIOUS
      <3>2. ~(at >= 4)
        BY <1>1, <1>2, <1>8, <3>1
      <3> QED BY <1>2, <3>2
    <2>2. \A i \in 0..3 : words[i] = IF i = at THEN lo ELSE IF i = at + 1 THEN hi ELSE 0
      BY <1>5
    <2> DEFINE S == 2 ^ (WordBits * at)
    <2>3. S \in Nat \ {0} /\ 2 ^ e = S * P /\ WordBits * at \in Nat
      <3>1. WordBits * at \in Nat /\ r \in Nat
        BY <1>1, <1>2
      <3> QED BY <1>2, <3>1, PowAdd, PowType DEF P
    <2>4. Value(words) = S * (IF at = 3 THEN lo ELSE lo + Radix * hi)
      BY <1>3, <1>6, <2>1, <2>2, Place
    <2> HIDE DEF S
    <2>5. m * 2 ^ e = S * (m * P)
      BY <1>1, <1>4, <2>3
    <2>6. CASE at = 3
      <3>1. 2 ^ (WordBits * 4) = S * Radix
        <4>1. S = Radix * (Radix * Radix)
          BY <2>6, WordPowers DEF S
        <4>2. 2 ^ (WordBits * 4) = Radix * S
          BY <4>1, WordPowers
        <4> QED BY <1>1, <2>3, <4>2
      <3>2. m * P \in Nat
        BY <1>1, <1>4
      <3>3. (S * (m * P)) % (S * Radix) = S * ((m * P) % Radix)
        BY <1>1, <2>3, <3>2, ModScale
      <3> QED BY <2>4, <2>5, <2>6, <3>1, <3>3 DEF lo
    <2>7. CASE at # 3
      <3>1. Value(words) = m * 2 ^ e
        BY <1>3, <2>4, <2>5, <2>7
      <3>2. m * 2 ^ e < 2 ^ (WordBits * 4) /\ m * 2 ^ e \in Nat
        <4>1. e <= WordBits * 3 /\ WordBits * 3 \in Nat
          <5>1. \A w \in Nat, a, n \in Nat : a <= 2 /\ n < w => w * a + n <= w * 3
            OBVIOUS
          <5> QED BY <1>1, <1>2, <2>1, <2>7, <5>1
        <4> DEFINE T == 2 ^ (WordBits * 3)
                   U == 2 ^ e
        <4>2. U <= T /\ T \in Nat \ {0} /\ U \in Nat \ {0}
          BY <4>1, PowBasics, PowType
        <4>3. 2 ^ (WordBits * 4) = Radix * T
          BY WordPowers
        <4>4. m < Radix
          BY <1>1 DEF Nonces
        <4> HIDE DEF T, U
        <4>5. m * U \in Nat /\ m * U <= m * T
          BY <1>1, <4>2
        <4>6. m * T < Radix * T
          BY <1>1, <4>2, <4>4
        <4>7. m * T \in Nat /\ Radix * T \in Nat
          BY <1>1, <4>2
        <4>8. m * U < Radix * T
          BY <4>5, <4>6, <4>7
        <4> QED BY <4>3, <4>5, <4>8 DEF U
      <3>3. 2 ^ (WordBits * 4) \in Nat \ {0}
        BY <1>1, PowType
      <3>4. m * 2 ^ e \in 0..(2 ^ (WordBits * 4) - 1)
        BY <3>2, <3>3
      <3> QED BY <3>1, <3>3, <3>4, ModSmall
    <2> QED BY <2>6, <2>7
  <1> QED BY <1>6, <1>7, <1>8 DEF words

\* The words of compact bits are the number they stand for.
LEMMA CompactTarget ==
    ASSUME NEW bits \in Bits
    PROVE  FromCompact(bits) \in Words /\ Value(FromCompact(bits)) = CompactValue(bits)
  <1> DEFINE bytes(n) == 2 ^ (ByteBits * n)
             small == IF bits.expt <= 3 THEN bits.mant \div 2 ^ (ByteBits * (3 - bits.expt))
                      ELSE bits.mant
             shift == IF bits.expt <= 3 THEN 0 ELSE ByteBits * (bits.expt - 3)
  <1>1. /\ bits.expt \in Nat /\ bits.mant \in 0..(2 ^ (3 * ByteBits) - 1)
        /\ ByteBits \in Nat \ {0} /\ WordBytes \in Nat \ {0}
    BY SharesAssumption, Widths
  <1>2. 2 ^ (3 * ByteBits) \in Nat \ {0} /\ 2 ^ (3 * ByteBits) <= Radix
    <2>1. 3 * ByteBits \in Nat /\ WordBits \in Nat /\ 3 * ByteBits <= WordBits
      BY Widths
    <2> QED BY <2>1, PowType, PowBasics, Widths
  <1>3. small \in Nat /\ small <= bits.mant
    <2>1. CASE bits.expt <= 3
      <3>1. ByteBits * (3 - bits.expt) \in Nat
        BY <1>1, <2>1
      <3> DEFINE k == 2 ^ (ByteBits * (3 - bits.expt))
      <3>2. k \in Nat \ {0}
        BY <3>1, PowType
      <3>3. small = bits.mant \div k
        BY <2>1
      <3>4. bits.mant \in Nat
        BY <1>1, <1>2
      <3> HIDE DEF k, small
      <3> QED BY <3>2, <3>3, <3>4, DivMod
    <2>2. CASE ~(bits.expt <= 3)
      BY <1>1, <2>2
    <2> QED BY <2>1, <2>2
  <1>4. small \in Nonces
    <2> HIDE DEF small
    <2>1. Radix \in Nat \ {0}
      BY Widths
    <2> QED BY <1>1, <1>2, <1>3, <2>1 DEF Nonces
  <1>5. small >= 2 ^ (3 * ByteBits - 1) <=> 2 * small >= bytes(3)
    <2>1. 3 * ByteBits - 1 \in Nat /\ 1 + (3 * ByteBits - 1) = ByteBits * 3
          /\ 3 * ByteBits = ByteBits * 3
      BY <1>1
    <2>2. bytes(3) = 2 * 2 ^ (3 * ByteBits - 1)
      BY <2>1, PowAdd, PowBasics
    <2>3. 2 ^ (3 * ByteBits - 1) \in Nat
      BY <2>1, PowType
    <2> HIDE DEF small, bytes
    <2> QED BY <1>3, <2>2, <2>3
  <1>6. bytes(3) \in Nat /\ 2 * small \in Nat
    <2>1. ByteBits * 3 \in Nat
      BY <1>1
    <2>2. bytes(3) \in Nat
      BY <2>1, PowType
    <2> HIDE DEF small
    <2> QED BY <1>3, <2>2
  <1>7. FromCompact(bits) = IF 2 * small >= bytes(3) THEN FromWord(0)
                            ELSE Shl(FromWord(small), shift)
    BY <1>5 DEF FromCompact
  <1>8. CompactValue(bits) =
            CASE 2 * small >= bytes(3) -> 0
              [] 2 * small < bytes(3) /\ bits.expt <= 3 -> small
              [] OTHER -> IF bits.expt - 3 >= 4 * WordBytes THEN 0
                          ELSE (small * bytes(bits.expt - 3)) % bytes(4 * WordBytes)
    <2>1. small = IF bits.expt > 3 THEN bits.mant ELSE bits.mant \div bytes(3 - bits.expt)
      BY <1>1
    <2> QED BY <2>1 DEF CompactValue
  <1>9. shift \in Nat
    BY <1>1
  <1>10. bytes(4 * WordBytes) = 2 ^ (WordBits * 4)
    <2>1. ByteBits * (4 * WordBytes) = (ByteBits * WordBytes) * 4
      BY <1>1
    <2> QED BY <2>1, Widths
  <1> HIDE DEF small
  <1>11. CASE 2 * small >= bytes(3)
    <2>1. FromWord(0) \in Words
      <3>1. 0 \in Nonces
        BY Widths
      <3> QED BY <3>1 DEF FromWord, Words
    <2>2. Value(FromWord(0)) = 0
      <3>1. Radix \in Nat
        BY Widths
      <3> QED BY <3>1 DEF Value, FromWord
    <2>3. FromCompact(bits) = FromWord(0)
      BY <1>7, <1>11
    <2>4. CompactValue(bits) = 0
      <3>1. ~(2 * small < bytes(3))
        <4> HIDE DEF bytes
        <4> QED BY <1>6, <1>11
      <3> QED BY <1>8, <1>11, <3>1
    <2> QED BY <2>1, <2>2, <2>3, <2>4
  <1>12. CASE ~(2 * small >= bytes(3)) /\ bits.expt <= 3
    <2>1. shift = 0 /\ 0 \in Nat /\ 0 < WordBits * 4
      BY <1>12, Widths
    <2>2. small * 2 ^ 0 = small
      BY <1>3, PowBasics
    <2>3. small % 2 ^ (WordBits * 4) = small
      <3>1. WordBits * 4 \in Nat /\ WordBits \in Nat /\ WordBits <= WordBits * 4
        BY Widths
      <3>2. 2 ^ (WordBits * 4) \in Nat \ {0} /\ Radix <= 2 ^ (WordBits * 4)
        BY <3>1, PowType, PowBasics, Widths
      <3>3. small \in 0..(2 ^ (WordBits * 4) - 1)
        <4>1. Radix \in Nat
          BY Widths
        <4> QED BY <1>4, <3>2, <4>1 DEF Nonces
      <3> QED BY <3>2, <3>3, ModSmall
    <2>4. /\ Shl(FromWord(small), 0) \in Words
          /\ Value(Shl(FromWord(small), 0)) = (small * 2 ^ 0) % 2 ^ (WordBits * 4)
      BY <1>4, <2>1, ShlOfWord
    <2>5. 2 * small < bytes(3)
      BY <1>6, <1>12
    <2>6. FromCompact(bits) = Shl(FromWord(small), 0)
      BY <1>7, <1>12, <2>1
    <2>7. CompactValue(bits) = small
      BY <1>8, <1>12, <2>5
    <2>8. Value(FromCompact(bits)) = small
      BY <2>2, <2>3, <2>4, <2>6
    <2> QED BY <2>4, <2>6, <2>7, <2>8
  <1>13. CASE ~(2 * small >= bytes(3)) /\ ~(bits.expt <= 3)
    <2>1. shift = ByteBits * (bits.expt - 3) /\ bits.expt - 3 \in Nat
      BY <1>1, <1>13
    <2>2. shift >= WordBits * 4 <=> bits.expt - 3 >= 4 * WordBytes
      <3>1. WordBits * 4 = ByteBits * (4 * WordBytes)
        BY <1>1, Widths
      <3>2. \A b \in Nat \ {0}, x, y \in Nat : b * x >= b * y <=> x >= y
        OBVIOUS
      <3>3. 4 * WordBytes \in Nat
        BY <1>1
      <3> QED BY <1>1, <2>1, <3>1, <3>2, <3>3
    <2>3. FromCompact(bits) = Shl(FromWord(small), shift)
      BY <1>7, <1>13
    <2>4. CompactValue(bits) = IF bits.expt - 3 >= 4 * WordBytes THEN 0
                               ELSE (small * 2 ^ shift) % 2 ^ (WordBits * 4)
      BY <1>8, <1>10, <1>13, <2>1
    <2>5. WordBits * 4 \in Nat
      BY Widths
    <2> HIDE DEF shift
    <2>6. shift < WordBits * 4 \/ shift >= WordBits * 4
      BY <1>9, <2>5
    <2> QED BY <1>4, <1>9, <2>2, <2>3, <2>4, <2>5, <2>6, ShlOfWord
  <1> QED BY <1>11, <1>12, <1>13

-----------------------------------------------------------------------------
(* Partitions.                                                             *)

\* What an extranonce makes of mask and fixed part.
Parts(mask, fixed, x) ==
    \/ x = Unsaid /\ mask = NoMask /\ fixed = 0
    \/ /\ x \in [val : Nat, bytes : Nat, size : Nat] /\ x.val < 2 ^ (ByteBits * x.bytes)
       /\ fixed = IF x.size = 0 THEN 0 ELSE FixedPart(x, x.size)
       /\ mask = IF x.size = 0 \/ x.size >= WordBytes THEN NoMask
                 ELSE 2 ^ (ByteBits * x.size) - 1

\* A fixed part is a multiple of the size of the partition, which divides the nonces, and
\* it is the extranonce's if there is room for it.
LEMMA PartitionShape ==
    ASSUME NEW mask, NEW fixed, NEW x, Parts(mask, fixed, x), ~(mask = NoMask /\ fixed = 0)
    PROVE  /\ x.val \in Nat /\ x.bytes \in Nat /\ x.size \in Nat \ {0}
           /\ mask \in Nat /\ mask + 1 = 2 ^ (ByteBits * x.size)
           /\ \E L \in Nat \ {0} : \E v \in 0..(L - 1) :
                /\ Radix = (mask + 1) * L /\ fixed = (mask + 1) * v
                /\ x.bytes + x.size <= WordBytes => v = x.val
  <1>1. /\ x.val \in Nat /\ x.bytes \in Nat /\ x.size \in Nat
        /\ x.val < 2 ^ (ByteBits * x.bytes)
        /\ x.size # 0 /\ x.size < WordBytes
        /\ fixed = (x.val * 2 ^ (ByteBits * x.size)) % Radix
        /\ mask = 2 ^ (ByteBits * x.size) - 1
    <2>1. /\ x.val \in Nat /\ x.bytes \in Nat /\ x.size \in Nat
          /\ x.val < 2 ^ (ByteBits * x.bytes)
          /\ fixed = IF x.size = 0 THEN 0 ELSE FixedPart(x, x.size)
          /\ mask = IF x.size = 0 \/ x.size >= WordBytes THEN NoMask
                    ELSE 2 ^ (ByteBits * x.size) - 1
      BY DEF Parts
    <2>2. x.size # 0 /\ ~(x.size >= WordBytes)
      BY <2>1 DEF FixedPart
    <2>3. x.size < WordBytes
      BY <2>1, <2>2, Widths
    <2> QED BY <2>1, <2>2, <2>3 DEF FixedPart
  <1> DEFINE K == 2 ^ (ByteBits * x.size)
             L == 2 ^ (ByteBits * (WordBytes - x.size))
             v == x.val % L
  <1>2. K \in Nat \ {0} /\ L \in Nat \ {0} /\ Radix = K * L
    <2>1. /\ ByteBits * x.size \in Nat /\ ByteBits * (WordBytes - x.size) \in Nat
          /\ ByteBits * x.size + ByteBits * (WordBytes - x.size) = WordBits
      BY <1>1, Widths
    <2> QED BY <2>1, PowAdd, PowType, Widths
  <1>3. v \in 0..(L - 1) /\ v \in Nat
    <2> HIDE DEF L
    <2>1. x.val % L \in 0..(L - 1)
      BY <1>1, <1>2, DivMod
    <2> QED BY <1>2, <2>1
  <1>4. fixed = K * v
    <2> HIDE DEF K, L
    <2>1. x.val * K = K * x.val
      BY <1>1, <1>2
    <2>2. (K * x.val) % (K * L) = K * (x.val % L)
      BY <1>1, <1>2, ModScale
    <2>3. fixed = (K * x.val) % (K * L)
      BY <1>1, <1>2, <2>1 DEF K
    <2> QED BY <2>2, <2>3
  <1>5. mask + 1 = K /\ mask \in Nat
    BY <1>1, <1>2
  <1>6. x.bytes + x.size <= WordBytes => v = x.val
    <2>1. SUFFICES ASSUME x.bytes + x.size <= WordBytes PROVE v = x.val
      OBVIOUS
    <2>2. /\ ByteBits * x.bytes \in Nat /\ ByteBits * (WordBytes - x.size) \in Nat
          /\ ByteBits * x.bytes <= ByteBits * (WordBytes - x.size)
      BY <1>1, <2>1, Widths
    <2>3. 2 ^ (ByteBits * x.bytes) <= L /\ 2 ^ (ByteBits * x.bytes) \in Nat
      BY <2>2, PowBasics, PowType
    <2> HIDE DEF L
    <2>4. x.val \in 0..(L - 1)
      BY <1>1, <1>2, <2>3
    <2> QED BY <1>2, <2>4, ModSmall
  <1>7. v \in 0..(L - 1) /\ Radix = (mask + 1) * L /\ fixed = (mask + 1) * v
        /\ mask + 1 = K
    BY <1>2, <1>3, <1>4, <1>5
  <1> HIDE DEF L, v, K
  <1> QED BY <1>1, <1>2, <1>5, <1>6, <1>7 DEF K

\* The nonces that are left have the extranonce on top.
LEMMA MaskedIsAnnounced ==
    ASSUME NEW mask, NEW fixed, NEW x, Parts(mask, fixed, x), NEW n \in Nat
    PROVE  /\ Masked(n, mask, fixed) \in Nonces /\ Masked(n, mask, fixed) \in Announced(x)
           /\ mask \in Nonces /\ fixed \in Nonces
  <1>1. Radix \in Nat \ {0} /\ NoMask + 1 = Radix /\ NoMask \in Nonces /\ 0 \in Nonces
    BY Widths
  <1>2. CASE mask = NoMask /\ fixed = 0
    <2>1. n % Radix \in 0..(Radix - 1)
      BY <1>1, DivMod
    <2>2. Masked(n, mask, fixed) = n % Radix
      BY <1>1, <1>2, <2>1 DEF Masked
    <2>3. Masked(n, mask, fixed) \in Nonces
      BY <2>1, <2>2 DEF Nonces
    <2>4. ASSUME x # Unsaid, x.size # 0, ~(x.bytes + x.size > WordBytes)
          PROVE  Masked(n, mask, fixed) \div 2 ^ (ByteBits * x.size) = x.val
      <3>1. /\ x.val \in Nat /\ x.bytes \in Nat /\ x.size \in Nat
            /\ x.val < 2 ^ (ByteBits * x.bytes)
            /\ mask = IF x.size = 0 \/ x.size >= WordBytes THEN NoMask
                      ELSE 2 ^ (ByteBits * x.size) - 1
        BY <2>4 DEF Parts
      <3>2. x.size >= WordBytes
        <4>1. SUFFICES ASSUME x.size < WordBytes PROVE FALSE
          BY <3>1, Widths
        <4>2. mask + 1 = 2 ^ (ByteBits * x.size)
          <5>1. ByteBits * x.size \in Nat
            BY <3>1, Widths
          <5>2. 2 ^ (ByteBits * x.size) \in Nat
            BY <5>1, PowType
          <5>3. ~(x.size >= WordBytes)
            BY <3>1, <4>1, Widths
          <5> QED BY <2>4, <3>1, <5>2, <5>3
        <4>3. Radix = 2 ^ (ByteBits * x.size) * 2 ^ (ByteBits * (WordBytes - x.size))
          <5>1. /\ ByteBits * x.size \in Nat /\ ByteBits * (WordBytes - x.size) \in Nat
                /\ ByteBits * x.size + ByteBits * (WordBytes - x.size) = WordBits
            BY <3>1, <4>1, Widths
          <5> QED BY <5>1, PowAdd, Widths
        <4>4. 2 ^ (ByteBits * (WordBytes - x.size)) >= 2
          <5>1. WordBytes - x.size \in Nat \ {0} /\ ByteBits \in Nat \ {0}
            BY <3>1, <4>1, Widths
          <5>2. ByteBits * (WordBytes - x.size) \in Nat
                /\ 1 <= ByteBits * (WordBytes - x.size)
            BY <5>1
          <5> QED BY <5>2, PowBasics
        <4>5. 2 ^ (ByteBits * x.size) = Radix
          BY <1>1, <1>2, <4>2
        <4>6. 2 ^ (ByteBits * (WordBytes - x.size)) \in Nat
          <5>1. ByteBits * (WordBytes - x.size) \in Nat
            BY <3>1, <4>1, Widths
          <5> QED BY <5>1, PowType
        <4>7. \A a \in Nat \ {0}, b \in Nat : b >= 2 => a # a * b
          OBVIOUS
        <4> QED BY <1>1, <4>3, <4>4, <4>5, <4>6, <4>7
      <3>3. x.bytes = 0 /\ x.size = WordBytes
        BY <2>4, <3>1, <3>2, Widths
      <3>4. x.val = 0
        <4>1. ByteBits * x.bytes = 0
          BY <3>3, Widths
        <4>2. 2 ^ (ByteBits * x.bytes) = 1
          BY <4>1, PowBasics
        <4> QED BY <3>1, <4>2
      <3>5. 2 ^ (ByteBits * x.size) = Radix
        BY <3>3, Widths
      <3>6. \A k \in Nat \ {0}, a \in Nat : a < k => a \div k = 0
        OBVIOUS
      <3> QED BY <1>1, <2>3, <3>4, <3>5, <3>6 DEF Nonces
    <2>5. Masked(n, mask, fixed) \in Announced(x)
      BY <2>3, <2>4 DEF Announced
    <2> QED BY <1>1, <1>2, <2>3, <2>5
  <1>3. CASE ~(mask = NoMask /\ fixed = 0)
    <2> DEFINE K == mask + 1
    <2>1. /\ x.val \in Nat /\ x.bytes \in Nat /\ x.size \in Nat \ {0} /\ mask \in Nat
          /\ K \in Nat \ {0} /\ K = 2 ^ (ByteBits * x.size)
      BY <1>3, PartitionShape
    <2>2. PICK L \in Nat \ {0} : \E v \in 0..(L - 1) :
            /\ Radix = K * L /\ fixed = K * v
            /\ x.bytes + x.size <= WordBytes => v = x.val
      BY <1>3, PartitionShape
    <2>3. PICK v \in 0..(L - 1) :
            /\ Radix = K * L /\ fixed = K * v
            /\ x.bytes + x.size <= WordBytes => v = x.val
      BY <2>2
    <2> HIDE DEF K
    <2> DEFINE u == n % K
               nonce == Masked(n, mask, fixed)
    <2>4. u \in 0..(K - 1) /\ v \in Nat
      <3>1. n % K \in 0..(K - 1)
        BY <2>1, DivMod
      <3>2. v \in Nat
        BY <2>2, <2>3
      <3> QED BY <3>1, <3>2
    <2>5. nonce = K * v + u
      BY <2>1, <2>3, <2>4 DEF Masked, K
    <2> HIDE DEF u, nonce
    <2>6. nonce \div K = v /\ nonce \in Nat
      BY <2>1, <2>4, <2>5, DivModUnique
    <2>7. nonce < Radix /\ fixed \in Nonces /\ mask \in Nonces
      <3>1. v + 1 <= L
        BY <2>2, <2>3
      <3>2. K * (v + 1) <= K * L /\ K * (v + 1) = K * v + K
        BY <2>1, <2>2, <2>4, <3>1
      <3>3. K * v \in Nat /\ K * L \in Nat
        BY <2>1, <2>2, <2>4
      <3>4. nonce < K * L /\ K * v < K * L
        BY <2>1, <2>2, <2>4, <2>5, <3>2, <3>3
      <3>5. K <= K * L /\ K = mask + 1
        BY <2>1, <2>2 DEF K
      <3> QED BY <2>1, <2>3, <2>6, <3>3, <3>4, <3>5 DEF Nonces
    <2>8. nonce \in Nonces
      BY <1>1, <2>6, <2>7 DEF Nonces
    <2>9. nonce \in Announced(x)
      <3>1. ~(x.bytes + x.size > WordBytes) => x.bytes + x.size <= WordBytes
        BY <2>1, Widths
      <3> QED BY <2>1, <2>3, <2>6, <2>8, <3>1 DEF Announced
    <2> QED BY <2>7, <2>8, <2>9 DEF nonce
  <1> QED BY <1>2, <1>3

\* Every partition is a stretch of a power of two of the nonces.
LEMMA Stretch ==
    ASSUME NEW mask, NEW fixed, NEW x, Parts(mask, fixed, x)
    PROVE  \E K, L \in Nat \ {0} : \E v \in 0..(L - 1) :
                K = mask + 1 /\ Radix = K * L /\ fixed = K * v
  <1>1. CASE mask = NoMask /\ fixed = 0
    <2>1. Radix = Radix * 1 /\ 0 = Radix * 0 /\ 0 \in 0..(1 - 1) /\ 1 \in Nat \ {0}
      BY Widths
    <2> QED BY <1>1, <2>1, Widths
  <1>2. CASE ~(mask = NoMask /\ fixed = 0)
    <2>1. mask + 1 \in Nat \ {0}
      BY <1>2, PartitionShape
    <2> QED BY <1>2, <2>1, PartitionShape
  <1> QED BY <1>1, <1>2

\* An extranonce that leaves room for the miner's own bytes.
HasRoom(x) == x = Unsaid \/ x.size = 0 \/ x.bytes + x.size <= WordBytes

\* If there is room, masking leaves the announced nonces as they are: none is left out.
LEMMA AnnouncedIsMasked ==
    ASSUME NEW mask, NEW fixed, NEW x, Parts(mask, fixed, x), HasRoom(x),
           NEW n \in Announced(x)
    PROVE  n \in Nonces /\ Masked(n, mask, fixed) = n
  <1>1. n \in Nonces /\ n \in Nat
    BY Widths DEF Announced, Nonces
  <1>2. CASE mask = NoMask /\ fixed = 0
    <2>1. n % Radix = n
      BY <1>1, Widths, ModSmall DEF Nonces
    <2> QED BY <1>1, <1>2, <2>1, Widths DEF Masked
  <1>3. CASE ~(mask = NoMask /\ fixed = 0)
    <2> DEFINE K == mask + 1
    <2>1. /\ x.val \in Nat /\ x.bytes \in Nat /\ x.size \in Nat \ {0} /\ mask \in Nat
          /\ K \in Nat \ {0} /\ K = 2 ^ (ByteBits * x.size)
      BY <1>3, PartitionShape
    <2>2. x # Unsaid
      BY <1>3 DEF Parts, Unsaid
    <2>3. x.bytes + x.size <= WordBytes /\ ~(x.bytes + x.size > WordBytes)
      BY <2>1, <2>2, Widths DEF HasRoom
    <2>4. fixed = K * x.val
      BY <1>3, <2>3, PartitionShape
    <2>5. n \div K = x.val
      BY <2>1, <2>2, <2>3 DEF Announced
    <2>6. Masked(n, mask, fixed) = (n % K) + fixed
      BY DEF Masked
    <2> HIDE DEF K
    <2>7. n = K * (n \div K) + (n % K) /\ n % K \in 0..(K - 1)
      BY <1>1, <2>1, DivMod
    <2> QED BY <1>1, <2>1, <2>4, <2>5, <2>6, <2>7
  <1> QED BY <1>2, <1>3

-----------------------------------------------------------------------------
(* The inductive invariant.                                                *)

\* A target is the number its difficulty stands for.
PoolTarget(target, d) ==
    IF d = Unsaid THEN Value(target) = 0
    ELSE Remainder(d) # 0 \/ Start(d) = 3 => Value(target) = DifficultyValue(d)

\* A job as the client makes it.
Made(job) ==
    /\ job.number \in 1..MaxJobs /\ job.target \in Words
    /\ Parts(job.mask, job.fixed, job.asked.extranonce)
    /\ IF job.full THEN Value(job.target) = CompactValue(job.asked.bits)
       ELSE PoolTarget(job.target, job.asked.difficulty)

Held(job) == job = None \/ Made(job)

SaidType ==
    [difficulty : {Unsaid} \cup Difficulties,
     extranonce : {Unsaid} \cup [val : Nat, bytes : Nat, size : Nat],
     difficulties : Nat, extranonces : Nat, moved : BOOLEAN]

Announcements ==
    /\ kind \in {"stratum", "grpc"} /\ conn \in {"up", "ended", "crashed"}
    /\ said \in SaidType
    /\ target_pool \in Words /\ PoolTarget(target_pool, said.difficulty)
    /\ Parts(nonce_mask, nonce_fixed, said.extranonce)
    /\ kind = "grpc" => nonce_mask = NoMask /\ nonce_fixed = 0

JobsHeld ==
    /\ unseen \subseteq {"cpu", "gpu"}
    /\ Held(command) /\ Held(cpu.job) /\ Held(gpu)
    /\ cpu.job.number <= command.number /\ gpu.number <= command.number

\* The partition the CPU worker keeps is some job's, and every job's until it is moved.
CpuPartition ==
    /\ cpu = [job |-> cpu.job, mask |-> cpu.mask, fixed |-> cpu.fixed, nonce |-> cpu.nonce]
    /\ cpu.nonce \in Nonces
    /\ cpu.job # None => \E x : Parts(cpu.mask, cpu.fixed, x)
    /\ ~said.moved /\ command # None =>
        command.mask = nonce_mask /\ command.fixed = nonce_fixed
    /\ ~said.moved /\ cpu.job # None =>
        /\ cpu.mask = nonce_mask /\ cpu.fixed = nonce_fixed
        /\ cpu.job.mask = nonce_mask /\ cpu.job.fixed = nonce_fixed

IInv == Announcements /\ JobsHeld /\ CpuPartition /\ MeetsTarget /\ InPartition

\* A job is not the absence of one.
LEMMA MadeNumber ==
    ASSUME NEW job, Held(job)
    PROVE  /\ job.number \in 0..MaxJobs
           /\ job # None <=> job.number >= 1
           /\ job # None => Made(job)
  <1>1. MaxJobs \in Nat
    BY SharesAssumption
  <1>2. None.number = 0
    BY DEF None
  <1>3. Made(job) => job.number \in 1..MaxJobs
    BY DEF Made
  <1> QED BY <1>1, <1>2, <1>3 DEF Held

\* There is a job before a worker has one.
LEMMA CommandFirst ==
    ASSUME JobsHeld
    PROVE  cpu.job # None \/ gpu # None => command # None
  <1>1. Held(command) /\ Held(cpu.job) /\ Held(gpu)
        /\ cpu.job.number <= command.number /\ gpu.number <= command.number
    BY DEF JobsHeld
  <1>2. /\ command.number \in Nat /\ cpu.job.number \in Nat /\ gpu.number \in Nat
        /\ command # None <=> command.number >= 1
        /\ cpu.job # None <=> cpu.job.number >= 1
        /\ gpu # None <=> gpu.number >= 1
    BY <1>1, MadeNumber
  <1> QED BY <1>1, <1>2

\* The hash of a share meets its job's target, and its nonce is in the job's partition.
LEMMA SolvedShare ==
    ASSUME NEW job, Made(job), NEW nonce \in Nonces, Solves(job, nonce)
    PROVE  Value(Pow[job.number][nonce]) <= Value(job.target)
  <1>1. Pow[job.number][nonce] \in Words /\ job.target \in Words
    <2>1. Pow \in [1..MaxJobs -> [Nonces -> Words]]
      BY SharesAssumption
    <2>2. job.number \in 1..MaxJobs /\ job.target \in Words
      BY DEF Made
    <2> QED BY <2>1, <2>2
  <1>2. Leq(Pow[job.number][nonce], job.target)
    BY DEF Solves
  <1> QED BY <1>1, <1>2, LeqIsValue

-----------------------------------------------------------------------------
(* Init and the steps.                                                     *)

\* Init.
LEMMA InvInit == Init => IInv
  <1> SUFFICES ASSUME Init PROVE IInv
    OBVIOUS
  <1>1. Announcements
    <2>1. 0 \in Nonces /\ Radix \in Nat
      BY Widths
    <2>2. FromWord(0) \in Words
      BY <2>1 DEF FromWord, Words
    <2>3. Value(FromWord(0)) = 0
      BY <2>1 DEF Value, FromWord
    <2>4. PoolTarget(FromWord(0), Unsaid)
      BY <2>3 DEF PoolTarget
    <2>5. Parts(NoMask, 0, Unsaid)
      BY DEF Parts
    <2>6. said \in SaidType /\ said.difficulty = Unsaid /\ said.extranonce = Unsaid
      BY DEF Init, SaidType
    <2> QED BY <2>2, <2>4, <2>5, <2>6 DEF Init, Announcements
  <1>2. PICK nonce \in Seeds : cpu = [job |-> None, mask |-> 0, fixed |-> 0, nonce |-> nonce]
    BY DEF Init
  <1>3. JobsHeld
    <2>1. None.number = 0
      BY DEF None
    <2>2. command = None /\ cpu.job = None /\ gpu = None /\ unseen = {}
      BY <1>2 DEF Init
    <2>3. Held(None)
      BY DEF Held
    <2> QED BY <2>1, <2>2, <2>3 DEF JobsHeld
  <1>4. CpuPartition
    <2>1. nonce \in Nonces
      BY <1>2, SharesAssumption
    <2> QED BY <1>2, <2>1 DEF Init, CpuPartition
  <1>5. MeetsTarget /\ InPartition
    BY DEF Init, MeetsTarget, InPartition
  <1> QED BY <1>1, <1>3, <1>4, <1>5 DEF IInv

\* set_difficulty: the words are the number the difficulty stands for.
LEMMA InvDifficulty ==
    ASSUME IInv, NEW d \in Difficulties, SetDifficulty(d)
    PROVE  IInv'
  <1>1. target_pool' \in Words /\ PoolTarget(target_pool', d)
    <2>1. Start(d) <= 3 /\ ~TooBig(d)
      BY DEF SetDifficulty
    <2>2. target_pool' = [i \in 0..3 |->
                CASE i = Start(d) -> (NewMantissa(d) * 2 ^ Remainder(d)) % Radix
                  [] i = Start(d) + 1 -> Top(d)
                  [] OTHER -> 0]
      BY DEF SetDifficulty
    <2>3. /\ target_pool' \in Words
          /\ Remainder(d) # 0 \/ Start(d) = 3 => Value(target_pool') = DifficultyValue(d)
      BY <2>1, <2>2, DifficultyTarget
    <2>4. d # Unsaid
      <3>1. d \in [mantissa : Nat, exponent : Int]
        BY SharesAssumption
      <3> QED BY <3>1 DEF Unsaid
    <2> QED BY <2>3, <2>4 DEF PoolTarget
  <1>2. /\ said \in SaidType /\ said' = [said EXCEPT !.difficulty = d, !.difficulties = @ + 1]
    BY DEF SetDifficulty, IInv, Announcements
  <1>3. /\ said' \in SaidType /\ said'.difficulty = d
        /\ said'.extranonce = said.extranonce /\ said'.moved = said.moved
    <2>1. said.difficulties + 1 \in Nat
      BY <1>2 DEF SaidType
    <2>2. said' = [difficulty |-> d, extranonce |-> said.extranonce,
                   difficulties |-> said.difficulties + 1,
                   extranonces |-> said.extranonces, moved |-> said.moved]
      BY <1>2, Zenon DEF SaidType
    <2> QED BY <1>2, <2>1, <2>2 DEF SaidType
  <1>4. share' = NoShare
        /\ UNCHANGED <<kind, conn, nonce_mask, nonce_fixed, command, unseen, cpu, gpu>>
    BY DEF SetDifficulty, HearDifficulty, workers
  <1>5. Announcements'
    BY <1>1, <1>3, <1>4 DEF IInv, Announcements
  <1>6. JobsHeld'
    BY <1>4 DEF IInv, JobsHeld
  <1>7. CpuPartition'
    BY <1>3, <1>4 DEF IInv, CpuPartition
  <1>8. MeetsTarget' /\ InPartition'
    BY <1>4 DEF MeetsTarget, InPartition
  <1> QED BY <1>5, <1>6, <1>7, <1>8 DEF IInv

\* A step that only ends the connection.
LEMMA InvRefuse ==
    ASSUME IInv, conn' \in {"up", "ended", "crashed"}, share' = NoShare,
           UNCHANGED <<kind, target_pool, nonce_mask, nonce_fixed, command, unseen, cpu, gpu,
                       said>>
    PROVE  IInv'
  <1>1. Announcements'
    BY DEF IInv, Announcements
  <1>2. JobsHeld'
    BY DEF IInv, JobsHeld
  <1>3. CpuPartition'
    BY DEF IInv, CpuPartition
  <1>4. MeetsTarget' /\ InPartition'
    BY DEF MeetsTarget, InPartition
  <1> QED BY <1>1, <1>2, <1>3, <1>4 DEF IInv

\* set_extranonce: what is moved under a job is said to be.
LEMMA InvExtranonce ==
    ASSUME IInv, NEW x \in Extranonces, NEW size \in Nat, HearExtranonce(x), Partition(x, size)
    PROVE  IInv'
  <1> DEFINE y == [x EXCEPT !.size = size]
  <1>1. x \in [val : Nat, bytes : Nat, size : Nat] /\ x.val < 2 ^ (ByteBits * x.bytes)
    BY SharesAssumption
  <1>2. /\ y \in [val : Nat, bytes : Nat, size : Nat]
        /\ y.val = x.val /\ y.bytes = x.bytes /\ y.size = size
    BY <1>1
  <1>3. Parts(nonce_mask', nonce_fixed', y)
    <2>1. /\ nonce_fixed' = IF size = 0 THEN 0 ELSE FixedPart(x, size)
          /\ nonce_mask' = IF size = 0 \/ size >= WordBytes THEN NoMask
                           ELSE 2 ^ (ByteBits * size) - 1
      BY DEF Partition
    <2>2. FixedPart(y, size) = FixedPart(x, size)
      BY <1>2 DEF FixedPart
    <2> HIDE DEF y
    <2> QED BY <1>1, <1>2, <2>1, <2>2 DEF Parts
  <1>4. said \in SaidType
    BY DEF IInv, Announcements
  <1>5. said' = [said EXCEPT !.extranonce = y, !.extranonces = @ + 1,
            !.moved = @ \/ (command # None /\ <<nonce_mask', nonce_fixed'>>
                                              # <<nonce_mask, nonce_fixed>>)]
    BY DEF Partition
  <1>6. /\ said' \in SaidType /\ said'.difficulty = said.difficulty /\ said'.extranonce = y
        /\ said'.moved = (said.moved \/ (command # None /\ <<nonce_mask', nonce_fixed'>>
                                              # <<nonce_mask, nonce_fixed>>))
    <2> DEFINE moved == said.moved \/ (command # None /\ <<nonce_mask', nonce_fixed'>>
                                              # <<nonce_mask, nonce_fixed>>)
    <2>1. said.extranonces + 1 \in Nat /\ said.moved \in BOOLEAN
      BY <1>4 DEF SaidType
    <2>2. moved \in BOOLEAN
      BY <2>1
    <2> HIDE DEF y, moved
    <2>3. said' = [said EXCEPT !.extranonce = y, !.extranonces = said.extranonces + 1,
                               !.moved = moved]
      BY <1>4, <1>5 DEF SaidType, moved
    <2>4. said' = [difficulty |-> said.difficulty, extranonce |-> y,
                   difficulties |-> said.difficulties,
                   extranonces |-> said.extranonces + 1, moved |-> moved]
      BY <1>4, <2>3 DEF SaidType
    <2> QED BY <1>2, <1>4, <2>1, <2>2, <2>4 DEF SaidType, moved
  <1>7. kind = "stratum" /\ share' = NoShare
        /\ UNCHANGED <<kind, conn, target_pool, command, unseen, cpu, gpu>>
    BY DEF HearExtranonce, Heard, Partition, workers
  <1>8. Announcements'
    <2> HIDE DEF y
    <2> QED BY <1>3, <1>6, <1>7 DEF IInv, Announcements
  <1>9. JobsHeld'
    BY <1>7 DEF IInv, JobsHeld
  <1>10. CpuPartition'
    <2>1. ~said'.moved /\ command # None =>
            ~said.moved /\ nonce_mask' = nonce_mask /\ nonce_fixed' = nonce_fixed
      BY <1>6
    <2>2. cpu.job # None => command # None
      BY CommandFirst DEF IInv
    <2> QED BY <1>7, <2>1, <2>2 DEF IInv, CpuPartition
  <1>11. MeetsTarget' /\ InPartition'
    BY <1>7 DEF MeetsTarget, InPartition
  <1> QED BY <1>8, <1>9, <1>10, <1>11 DEF IInv

\* process_block.
LEMMA InvProcess ==
    ASSUME IInv, NEW job, Process(job), Made(job), job.number = command.number + 1,
           ~said.moved => job.mask = nonce_mask /\ job.fixed = nonce_fixed
    PROVE  IInv'
  <1>1. command' = job /\ unseen' = {"cpu", "gpu"} /\ share' = NoShare
        /\ UNCHANGED <<kind, conn, target_pool, nonce_mask, nonce_fixed, cpu, gpu, said>>
    BY DEF Process, settings
  <1>2. Announcements'
    BY <1>1 DEF IInv, Announcements
  <1>3. JobsHeld'
    <2>1. Held(command) /\ Held(cpu.job) /\ Held(gpu)
          /\ cpu.job.number <= command.number /\ gpu.number <= command.number
      BY DEF IInv, JobsHeld
    <2>2. command.number \in Nat /\ cpu.job.number \in Nat /\ gpu.number \in Nat
      BY <2>1, MadeNumber
    <2>3. cpu.job.number <= job.number /\ gpu.number <= job.number
      BY <2>1, <2>2
    <2>4. Held(job)
      BY DEF Held
    <2> QED BY <1>1, <2>1, <2>3, <2>4 DEF JobsHeld
  <1>4. CpuPartition'
    BY <1>1 DEF IInv, CpuPartition
  <1>5. MeetsTarget' /\ InPartition'
    BY <1>1 DEF MeetsTarget, InPartition
  <1> QED BY <1>2, <1>3, <1>4, <1>5 DEF IInv

\* mining.notify.
LEMMA InvNotify ==
    ASSUME IInv, Notify
    PROVE  IInv'
  <1> DEFINE job == [number |-> command.number + 1, full |-> FALSE, target |-> target_pool,
                mask |-> nonce_mask, fixed |-> nonce_fixed,
                asked |-> [difficulty |-> said.difficulty, extranonce |-> said.extranonce]]
  <1>1. Process(job)
    BY DEF Notify
  <1>2. Made(job)
    <2>1. command.number + 1 \in 1..MaxJobs
      <3>1. command.number \in Nat /\ command.number < MaxJobs /\ MaxJobs \in Nat
        BY <1>1, MadeNumber, SharesAssumption DEF Process, IInv, JobsHeld
      <3> QED BY <3>1
    <2>2. /\ target_pool \in Words /\ PoolTarget(target_pool, said.difficulty)
          /\ Parts(nonce_mask, nonce_fixed, said.extranonce)
      BY DEF IInv, Announcements
    <2> QED BY <2>1, <2>2 DEF Made
  <1>3. job.number = command.number + 1 /\ job.mask = nonce_mask /\ job.fixed = nonce_fixed
    OBVIOUS
  <1> HIDE DEF job
  <1> QED BY <1>1, <1>2, <1>3, InvProcess

\* A block template of a node.
LEMMA InvTemplate ==
    ASSUME IInv, NEW bits \in Bits, Template(bits)
    PROVE  IInv'
  <1> DEFINE job == [number |-> command.number + 1, full |-> TRUE, target |-> FromCompact(bits),
                mask |-> NoMask, fixed |-> 0, asked |-> [bits |-> bits, extranonce |-> Unsaid]]
  <1>1. Process(job) /\ kind = "grpc"
    BY DEF Template
  <1>2. Made(job)
    <2>1. command.number + 1 \in 1..MaxJobs
      <3>1. command.number \in Nat /\ command.number < MaxJobs /\ MaxJobs \in Nat
        BY <1>1, MadeNumber, SharesAssumption DEF Process, IInv, JobsHeld
      <3> QED BY <3>1
    <2>2. FromCompact(bits) \in Words /\ Value(FromCompact(bits)) = CompactValue(bits)
      BY CompactTarget
    <2>3. Parts(NoMask, 0, Unsaid)
      BY DEF Parts
    <2> QED BY <2>1, <2>2, <2>3 DEF Made
  <1>3. job.number = command.number + 1 /\ job.mask = NoMask /\ job.fixed = 0
    OBVIOUS
  <1>4. nonce_mask = NoMask /\ nonce_fixed = 0
    BY <1>1 DEF IInv, Announcements
  <1> HIDE DEF job
  <1> QED BY <1>1, <1>2, <1>3, <1>4, InvProcess

\* wait_for_change in the CPU worker.
LEMMA InvCpuWait ==
    ASSUME IInv, CpuWait
    PROVE  IInv'
  <1>1. /\ unseen' = unseen \ {"cpu"} /\ share' = NoShare
        /\ cpu' = [cpu EXCEPT !.job = command, !.mask = command.mask, !.fixed = command.fixed]
        /\ UNCHANGED <<kind, conn, target_pool, nonce_mask, nonce_fixed, command, gpu, said>>
    BY DEF CpuWait, settings
  <1>2. cpu' = [job |-> command, mask |-> command.mask, fixed |-> command.fixed,
                nonce |-> cpu.nonce]
    <2>1. cpu = [job |-> cpu.job, mask |-> cpu.mask, fixed |-> cpu.fixed, nonce |-> cpu.nonce]
      BY DEF IInv, CpuPartition
    <2> QED BY <1>1, <2>1
  <1>3. Announcements'
    BY <1>1 DEF IInv, Announcements
  <1>4. Held(command) /\ command.number \in Nat
    BY MadeNumber DEF IInv, JobsHeld
  <1>5. JobsHeld'
    BY <1>1, <1>2, <1>4 DEF IInv, JobsHeld
  <1>6. CpuPartition'
    <2>1. command # None => Parts(command.mask, command.fixed, command.asked.extranonce)
      BY <1>4 DEF Held, Made
    <2> QED BY <1>1, <1>2, <2>1 DEF IInv, CpuPartition
  <1>7. MeetsTarget' /\ InPartition'
    BY <1>1 DEF MeetsTarget, InPartition
  <1> QED BY <1>3, <1>5, <1>6, <1>7 DEF IInv

\* A nonce of the CPU worker.
LEMMA InvCpuTurn ==
    ASSUME IInv, CpuTurn
    PROVE  IInv'
  <1> DEFINE nonce == Masked(cpu.nonce, cpu.mask, cpu.fixed)
             looks == Advance(nonce) % PollEvery = 0 /\ "cpu" \in unseen
             left == IF cpu.job.full /\ Solves(cpu.job, nonce) THEN None ELSE cpu.job
             next == IF looks THEN command ELSE left
  <1>1. /\ cpu.job # None
        /\ share' = IF Solves(cpu.job, nonce)
                    THEN [by |-> "cpu", job |-> cpu.job, nonce |-> nonce] ELSE NoShare
        /\ cpu' = [cpu EXCEPT !.nonce = Advance(nonce), !.job = next]
        /\ unseen' = IF looks THEN unseen \ {"cpu"} ELSE unseen
        /\ UNCHANGED <<kind, conn, target_pool, nonce_mask, nonce_fixed, command, gpu, said>>
    BY DEF CpuTurn, Submits, settings
  <1>2. /\ cpu = [job |-> cpu.job, mask |-> cpu.mask, fixed |-> cpu.fixed, nonce |-> cpu.nonce]
        /\ cpu.nonce \in Nonces
    BY DEF IInv, CpuPartition
  <1>3. PICK x : Parts(cpu.mask, cpu.fixed, x)
    BY <1>1 DEF IInv, CpuPartition
  <1>4. nonce \in Nonces /\ Advance(nonce) \in Nonces
    <2>1. cpu.nonce \in Nat /\ Radix \in Nat \ {0}
      BY <1>2, Widths DEF Nonces
    <2>2. nonce \in Nonces
      BY <1>3, <2>1, MaskedIsAnnounced
    <2> HIDE DEF nonce
    <2>3. nonce + 1 \in Nat
      BY <2>1, <2>2 DEF Nonces
    <2>4. (nonce + 1) % Radix \in 0..(Radix - 1)
      BY <2>1, <2>3, DivMod
    <2> QED BY <2>2, <2>4 DEF Advance, Nonces
  <1>5. Held(command) /\ Held(cpu.job) /\ Made(cpu.job) /\ cpu.job.number <= command.number
        /\ command.number \in Nat
    BY <1>1, MadeNumber DEF IInv, JobsHeld
  <1>6. next \in {None, cpu.job, command} /\ Held(next) /\ next.number <= command.number
    <2>1. next \in {None, cpu.job, command}
      OBVIOUS
    <2>2. Held(None) /\ None.number = 0
      BY DEF Held, None
    <2> HIDE DEF next
    <2> QED BY <1>5, <2>1, <2>2
  <1> HIDE DEF nonce, looks, next
  <1>7. cpu' = [job |-> next, mask |-> cpu.mask, fixed |-> cpu.fixed, nonce |-> Advance(nonce)]
    BY <1>1, <1>2
  <1>8. Announcements'
    BY <1>1 DEF IInv, Announcements
  <1>9. JobsHeld'
    <2>1. unseen' \subseteq {"cpu", "gpu"}
      BY <1>1 DEF IInv, JobsHeld
    <2> QED BY <1>1, <1>6, <1>7, <2>1 DEF IInv, JobsHeld
  <1>10. CpuPartition'
    <2>1. command = next /\ next # None /\ ~said.moved =>
            next.mask = nonce_mask /\ next.fixed = nonce_fixed
      BY DEF IInv, CpuPartition
    <2>2. ~said.moved => /\ cpu.mask = nonce_mask /\ cpu.fixed = nonce_fixed
                         /\ cpu.job.mask = nonce_mask /\ cpu.job.fixed = nonce_fixed
      BY <1>1 DEF IInv, CpuPartition
    <2>3. ~said.moved /\ next # None => next.mask = nonce_mask /\ next.fixed = nonce_fixed
      BY <1>6, <2>1, <2>2
    <2>4. cpu'.job = next /\ cpu'.mask = cpu.mask /\ cpu'.fixed = cpu.fixed
          /\ cpu'.nonce = Advance(nonce)
          /\ cpu' = [job |-> cpu'.job, mask |-> cpu'.mask, fixed |-> cpu'.fixed,
                     nonce |-> cpu'.nonce]
      BY <1>7
    <2> QED BY <1>1, <1>3, <1>4, <2>2, <2>3, <2>4 DEF IInv, CpuPartition
  <1>11. MeetsTarget' /\ InPartition'
    <2>1. CASE ~Solves(cpu.job, nonce)
      BY <1>1, <2>1 DEF MeetsTarget, InPartition
    <2>2. CASE Solves(cpu.job, nonce)
      <3>1. share' = [by |-> "cpu", job |-> cpu.job, nonce |-> nonce]
        BY <1>1, <2>2
      <3>2. share'.by = "cpu" /\ share'.job = cpu.job /\ share'.nonce = nonce
        BY <3>1
      <3>3. Value(Pow[cpu.job.number][nonce]) <= Value(cpu.job.target)
        BY <1>4, <1>5, <2>2, SolvedShare
      <3>4. ~said.moved => nonce \in Announced(cpu.job.asked.extranonce)
        <4>1. SUFFICES ASSUME ~said.moved PROVE nonce \in Announced(cpu.job.asked.extranonce)
          OBVIOUS
        <4>2. cpu.mask = cpu.job.mask /\ cpu.fixed = cpu.job.fixed
          BY <1>1, <4>1 DEF IInv, CpuPartition
        <4>3. Parts(cpu.mask, cpu.fixed, cpu.job.asked.extranonce)
          BY <1>5, <4>2 DEF Made
        <4>4. cpu.nonce \in Nat
          BY <1>2, Widths DEF Nonces
        <4> QED BY <4>3, <4>4, MaskedIsAnnounced DEF nonce
      <3>5. MeetsTarget'
        BY <3>2, <3>3 DEF MeetsTarget
      <3>6. InPartition'
        BY <1>1, <3>2, <3>4 DEF InPartition
      <3> QED BY <3>5, <3>6
    <2> QED BY <2>1, <2>2
  <1> QED BY <1>8, <1>9, <1>10, <1>11 DEF IInv

\* A step of the GPU worker that submits nothing.
LEMMA InvGpuLooks ==
    ASSUME IInv, gpu' \in {gpu, command}, unseen' \subseteq unseen, share' = NoShare,
           UNCHANGED <<kind, conn, target_pool, nonce_mask, nonce_fixed, command, cpu, said>>
    PROVE  IInv'
  <1>1. Announcements'
    BY DEF IInv, Announcements
  <1>2. JobsHeld'
    <2>1. command.number \in Nat
      BY MadeNumber DEF IInv, JobsHeld
    <2> QED BY <2>1 DEF IInv, JobsHeld
  <1>3. CpuPartition'
    BY DEF IInv, CpuPartition
  <1>4. MeetsTarget' /\ InPartition'
    BY DEF MeetsTarget, InPartition
  <1> QED BY <1>1, <1>2, <1>3, <1>4 DEF IInv

\* A launch that found a nonce.
LEMMA InvGpuFinds ==
    ASSUME IInv, GpuFinds
    PROVE  IInv'
  <1>1. PICK drawn \in Nonces :
            LET nonce == Masked(drawn, gpu.mask, gpu.fixed) IN
            nonce # 0 /\ Solves(gpu, nonce) /\ Submits("gpu", gpu, nonce)
    BY DEF GpuFinds
  <1> DEFINE nonce == Masked(drawn, gpu.mask, gpu.fixed)
  <1>2. /\ gpu # None /\ gpu' \in {None, gpu}
        /\ UNCHANGED <<kind, conn, target_pool, nonce_mask, nonce_fixed, command, unseen, cpu,
                       said>>
    BY DEF GpuFinds, settings
  <1>3. Solves(gpu, nonce) /\ share' = [by |-> "gpu", job |-> gpu, nonce |-> nonce]
    BY <1>1 DEF Submits
  <1>4. Made(gpu) /\ command.number \in Nat
    BY <1>2, MadeNumber DEF IInv, JobsHeld
  <1>5. nonce \in Nonces /\ nonce \in Announced(gpu.asked.extranonce)
    <2>1. Parts(gpu.mask, gpu.fixed, gpu.asked.extranonce)
      BY <1>4 DEF Made
    <2>2. drawn \in Nat
      BY <1>1, Widths DEF Nonces
    <2> QED BY <2>1, <2>2, MaskedIsAnnounced
  <1> HIDE DEF nonce
  <1>6. share'.by = "gpu" /\ share'.job = gpu /\ share'.nonce = nonce
    BY <1>3
  <1>7. Announcements'
    BY <1>2 DEF IInv, Announcements
  <1>8. JobsHeld'
    <2>1. Held(None) /\ None.number = 0
      BY DEF Held, None
    <2> QED BY <1>2, <1>4, <2>1 DEF IInv, JobsHeld
  <1>9. CpuPartition'
    BY <1>2 DEF IInv, CpuPartition
  <1>10. MeetsTarget'
    <2>1. Value(Pow[gpu.number][nonce]) <= Value(gpu.target)
      BY <1>3, <1>4, <1>5, SolvedShare
    <2> QED BY <1>6, <2>1 DEF MeetsTarget
  <1>11. InPartition'
    BY <1>5, <1>6 DEF InPartition
  <1> QED BY <1>7, <1>8, <1>9, <1>10, <1>11 DEF IInv

\* Every step keeps the invariant.
LEMMA InvNext == IInv /\ [Next]_vars => IInv'
  <1> SUFFICES ASSUME IInv, [Next]_vars PROVE IInv'
    OBVIOUS
  <1>1. ASSUME NEW d \in Difficulties, SetDifficulty(d) PROVE IInv'
    BY <1>1, InvDifficulty
  <1>2. ASSUME NEW d \in Difficulties, RefuseDifficulty(d) PROVE IInv'
    <2>1. /\ conn' \in {"ended", "crashed"} /\ share' = NoShare
          /\ UNCHANGED <<kind, target_pool, nonce_mask, nonce_fixed, command, unseen, cpu, gpu,
                         said>>
      BY <1>2 DEF RefuseDifficulty, HearDifficulty, workers
    <2> QED BY <2>1, InvRefuse
  <1>3. ASSUME NEW x \in Extranonces, SetExtranonce(x) \/ SetExtranonceInferred(x) PROVE IInv'
    <2>1. x.size \in Nat /\ x.bytes \in Nat
      BY <1>3, SharesAssumption
    <2>2. CASE SetExtranonce(x)
      BY <1>3, <2>1, <2>2, InvExtranonce DEF SetExtranonce
    <2>3. CASE SetExtranonceInferred(x)
      BY <1>3, <2>1, <2>3, InvExtranonce DEF SetExtranonceInferred
    <2> QED BY <1>3, <2>2, <2>3
  <1>4. ASSUME NEW x \in Extranonces, RefuseExtranonce(x) PROVE IInv'
    <2>1. /\ conn' = "ended" /\ share' = NoShare
          /\ UNCHANGED <<kind, target_pool, nonce_mask, nonce_fixed, command, unseen, cpu, gpu,
                         said>>
      BY <1>4 DEF RefuseExtranonce, HearExtranonce, workers
    <2> QED BY <2>1, InvRefuse
  <1>5. CASE Notify
    BY <1>5, InvNotify
  <1>6. ASSUME NEW bits \in Bits, Template(bits) PROVE IInv'
    BY <1>6, InvTemplate
  <1>7. CASE CpuWait
    BY <1>7, InvCpuWait
  <1>8. CASE CpuTurn
    BY <1>8, InvCpuTurn
  <1>9. CASE GpuWait
    <2>1. /\ gpu' = command /\ unseen' \subseteq unseen /\ share' = NoShare
          /\ UNCHANGED <<kind, conn, target_pool, nonce_mask, nonce_fixed, command, cpu, said>>
      BY <1>9 DEF GpuWait, settings
    <2> QED BY <2>1, InvGpuLooks
  <1>10. CASE GpuFinds
    BY <1>10, InvGpuFinds
  <1>11. CASE GpuFindsNothing
    <2>1. /\ gpu' \in {gpu, command} /\ unseen' \subseteq unseen /\ share' = NoShare
          /\ UNCHANGED <<kind, conn, target_pool, nonce_mask, nonce_fixed, command, cpu, said>>
      BY <1>11 DEF GpuFindsNothing, settings
    <2> QED BY <2>1, InvGpuLooks
  <1>12. CASE UNCHANGED vars
    BY <1>12 DEF vars, IInv, Announcements, JobsHeld, CpuPartition, MeetsTarget, InPartition
  <1> QED BY <1>1, <1>2, <1>3, <1>4, <1>5, <1>6, <1>7, <1>8, <1>9, <1>10, <1>11, <1>12 DEF Next

-----------------------------------------------------------------------------
(* The theorems.                                                           *)

\* The invariant holds in every state.
LEMMA AlwaysInv == Spec => []IInv
  BY InvInit, InvNext, PTL DEF Spec

\* Whatever a pool or a node sends, words and nonces keep their width and workers their jobs
\* (stratum.rs, target.rs, the nonce of a CPU worker in miner.rs).
THEOREM TypeCorrect == Spec => []TypeOK
  <1>1. IInv => TypeOK
    <2> SUFFICES ASSUME IInv PROVE TypeOK
      OBVIOUS
    <2>1. {nonce_mask, nonce_fixed, cpu.nonce} \subseteq Nonces
      <3>1. Parts(nonce_mask, nonce_fixed, said.extranonce) /\ cpu.nonce \in Nonces
        BY DEF IInv, Announcements, CpuPartition
      <3>2. nonce_mask \in Nonces /\ nonce_fixed \in Nonces
        BY <3>1, MaskedIsAnnounced
      <3> QED BY <3>1, <3>2
    <2>2. ASSUME NEW job \in Jobs
          PROVE  job.number \in 1..command.number /\ job.target \in Words
      <3>1. job # None /\ Held(job) /\ job.number <= command.number /\ command.number \in Nat
        BY <2>2, MadeNumber DEF Jobs, IInv, JobsHeld
      <3>2. job.number \in 0..MaxJobs /\ job.number >= 1 /\ Made(job)
        BY <3>1, MadeNumber
      <3> QED BY <3>1, <3>2 DEF Made
    <2> QED BY <2>1, <2>2 DEF TypeOK, IInv, Announcements, JobsHeld
  <1> QED BY <1>1, AlwaysInv, PTL

\* The hash of every share a worker submits is, as a number, at most its job's target: the
\* comparison of words in Uint256 is the comparison of numbers (target.rs).
THEOREM SharesMeetTarget == Spec => []MeetsTarget
  <1>1. IInv => MeetsTarget
    BY DEF IInv
  <1> QED BY <1>1, AlwaysInv, PTL

\* Every job's target is the number the pool's difficulty or the node's bits stand for, for
\* every width of a byte and of a word (set_difficulty in stratum.rs, from_compact_target_bits
\* and the shift of Uint256 in target.rs).
THEOREM TargetsAsAsked == Spec => []TargetAsAsked
  <1>1. IInv => TargetAsAsked
    <2> SUFFICES ASSUME IInv, NEW job \in Jobs
                 PROVE  IF job.full THEN Value(job.target) = CompactValue(job.asked.bits)
                        ELSE PoolTarget(job.target, job.asked.difficulty)
      BY DEF TargetAsAsked, PoolTarget
    <2>1. job # None /\ Held(job)
      BY DEF Jobs, IInv, JobsHeld
    <2> QED BY <2>1 DEF Held, Made
  <1> QED BY <1>1, AlwaysInv, PTL

\* No share's nonce leaves the partition the pool announced before the job, as long as it is
\* not moved under a CPU worker (set_extranonce in stratum.rs, the masks in miner.rs).
THEOREM SharesInPartition == Spec => []InPartition
  <1>1. IInv => InPartition
    BY DEF IInv
  <1> QED BY <1>1, AlwaysInv, PTL

-----------------------------------------------------------------------------
(* A CPU worker leaves nothing out.                                        *)

\* A nonce of the CPU worker's partition.
Mine(n) == n \in Nonces /\ Masked(n, cpu.mask, cpu.fixed) = n

\* As long as the pool has not moved the partition under a job, the worker's is all of
\* the one announced before its job, and nothing else.
WholePartition ==
    LET x == cpu.job.asked.extranonce IN
    cpu.job # None /\ ~said.moved =>
        /\ \A n \in Nonces : Mine(n) => n \in Announced(x)
        /\ HasRoom(x) => \A n \in Announced(x) : Mine(n)

\* How many nonces the worker hashes before it comes to n.
Ahead(n) == (n + Radix - cpu.nonce) % (cpu.mask + 1)

\* The nonce it has come to is hashed, and submitted if it solves the job; it is one
\* nonce nearer to the others.
ComesTo(n) ==
    IF Ahead(n) = 0
    THEN Solves(cpu.job, n) => share' = [by |-> "cpu", job |-> cpu.job, nonce |-> n]
    ELSE Ahead(n)' = Ahead(n) - 1

\* Each turn of a worker with a job does that for every nonce of its partition, and
\* nobody else's step sets it back.
EveryTurnCounts ==
    [][cpu.job # None =>
        IF CpuTurn THEN \A n \in Nonces : Mine(n) => Ahead(n) \in 0..cpu.mask /\ ComesTo(n)
        ELSE UNCHANGED cpu]_vars

\* Of L stretches of K nonces: the way from place a of stretch p to place b of stretch v,
\* within a stretch, and what follows on place a of stretch v,
\* at which place.
Way(K, L, p, a, v, b) == ((K * v + b) + K * L - (K * p + a)) % K
After(K, L, v, a) == ((K * v + a) + 1) % (K * L)
Onward(K, a) == IF a + 1 = K THEN 0 ELSE a + 1

\* The way leads round the end of a stretch, if it must.
LEMMA Gap ==
    ASSUME NEW K \in Nat \ {0}, NEW L \in Nat \ {0}, NEW p \in 0..(L - 1), NEW v \in 0..(L - 1),
           NEW a \in 0..(K - 1), NEW b \in 0..(K - 1)
    PROVE  Way(K, L, p, a, v, b) = IF b >= a THEN b - a ELSE b - a + K
  <1> DEFINE q == IF b >= a THEN v + L - p ELSE v + L - p - 1
             r == IF b >= a THEN b - a ELSE b - a + K
  <1>1. q \in Nat /\ r \in 0..(K - 1)
    OBVIOUS
  <1>2. K * (v + L - p) = K * v + K * L - K * p
    OBVIOUS
  <1>3. K * (v + L - p - 1) = K * (v + L - p) - K
    OBVIOUS
  <1>4. K * v \in Nat /\ K * L \in Nat /\ K * p \in Nat /\ K * (v + L - p) \in Int
    OBVIOUS
  <1>5. (K * v + b) + K * L - (K * p + a) = K * q + r
    <2>1. CASE b >= a
      BY <1>2, <1>4, <2>1
    <2>2. CASE ~(b >= a)
      BY <1>2, <1>3, <1>4, <2>2
    <2> QED BY <2>1, <2>2
  <1> HIDE DEF q
  <1>6. (K * q + r) % K = r
    <2> HIDE DEF r
    <2> QED BY <1>1, DivModUnique
  <1> QED BY <1>5, <1>6 DEF Way

\* Where a stretch ends, the next one or the first begins.
LEMMA Successor ==
    ASSUME NEW K \in Nat \ {0}, NEW L \in Nat \ {0}, NEW v \in 0..(L - 1), NEW a \in 0..(K - 1)
    PROVE  \E p \in 0..(L - 1) :
                After(K, L, v, a) = K * p + Onward(K, a)
  <1> USE DEF After, Onward
  <1>1. K * L \in Nat \ {0} /\ K * v \in Nat /\ K * (v + 1) = K * v + K
    OBVIOUS
  <1>2. K * (v + 1) <= K * L
    <2>1. v + 1 <= L
      OBVIOUS
    <2> QED BY <2>1
  <1> DEFINE R == K * L
             V == K * v
  <1>3. R \in Nat \ {0} /\ V \in Nat /\ V + K <= R
    BY <1>1, <1>2
  <1>4. CASE a + 1 # K
    <2> HIDE DEF R, V
    <2>1. V + a + 1 \in 0..(R - 1)
      BY <1>3, <1>4
    <2>2. ((V + a) + 1) % R = V + (a + 1)
      BY <1>3, <2>1, ModSmall
    <2> QED BY <1>4, <2>2 DEF R, V
  <1>5. CASE a + 1 = K /\ v + 1 = L
    <2>1. (K * v + a) + 1 = R
      BY <1>1, <1>5
    <2> HIDE DEF R, V
    <2>2. R % R = 0
      <3>1. R * 1 + 0 = R /\ 0 \in 0..(R - 1) /\ 1 \in Nat
        BY <1>3
      <3>2. (R * 1 + 0) % R = 0
        BY <1>3, <3>1, DivModUnique
      <3> QED BY <3>1, <3>2
    <2>3. K * 0 + 0 = 0 /\ 0 \in 0..(L - 1)
      OBVIOUS
    <2> QED BY <1>5, <2>1, <2>2, <2>3 DEF R
  <1>6. CASE a + 1 = K /\ v + 1 # L
    <2>1. v + 1 \in 0..(L - 1) /\ (K * v + a) + 1 = K * (v + 1)
      BY <1>1, <1>6
    <2>2. K * (v + 1) < R /\ K * (v + 1) \in Nat
      <3>1. K * (v + 2) <= K * L /\ K * (v + 2) = K * (v + 1) + K
        <4>1. v + 2 <= L
          BY <1>6
        <4> QED BY <4>1
      <3> QED BY <1>1, <3>1
    <2> DEFINE w == K * (v + 1)
    <2> HIDE DEF R, w
    <2>3. w % R = w
      BY <1>3, <2>2, ModSmall DEF w
    <2>4. ((K * v + a) + 1) % R = K * (v + 1) + 0
      BY <2>1, <2>2, <2>3 DEF w
    <2> QED BY <1>6, <2>1, <2>4 DEF R
  <1> QED BY <1>4, <1>5, <1>6

\* One turn.
LEMMA TurnCounts ==
    ASSUME IInv, CpuTurn, NEW n \in Nonces, Mine(n)
    PROVE  Ahead(n) \in 0..cpu.mask /\ ComesTo(n)
  <1> DEFINE nonce == Masked(cpu.nonce, cpu.mask, cpu.fixed)
  <1>1. /\ cpu.job # None
        /\ cpu = [job |-> cpu.job, mask |-> cpu.mask, fixed |-> cpu.fixed, nonce |-> cpu.nonce]
        /\ cpu.nonce \in Nonces /\ \E x : Parts(cpu.mask, cpu.fixed, x)
    BY DEF CpuTurn, IInv, CpuPartition
  <1>2. cpu'.nonce = Advance(nonce) /\ cpu'.mask = cpu.mask
    BY <1>1 DEF CpuTurn
  <1>3. Solves(cpu.job, nonce) => share' = [by |-> "cpu", job |-> cpu.job, nonce |-> nonce]
    BY DEF CpuTurn, Submits
  <1>4. PICK K, L \in Nat \ {0} : \E v \in 0..(L - 1) :
            K = cpu.mask + 1 /\ Radix = K * L /\ cpu.fixed = K * v
    BY <1>1, Stretch
  <1>5. PICK v \in 0..(L - 1) : K = cpu.mask + 1 /\ Radix = K * L /\ cpu.fixed = K * v
    BY <1>4
  <1> DEFINE a == cpu.nonce % K
             p == cpu.nonce \div K
             b == n % K
  <1>6. cpu.nonce \in Nat /\ n \in Nat /\ cpu.nonce < Radix
    BY <1>1, Widths DEF Nonces
  <1>7. K \in Nat \ {0} /\ L \in Nat \ {0}
    BY <1>4
  <1>8. a \in 0..(K - 1) /\ b \in 0..(K - 1) /\ p \in Nat
        /\ v \in 0..(L - 1) /\ v \in Nat
    <2>1. cpu.nonce % K \in 0..(K - 1) /\ cpu.nonce \div K \in Nat
      BY <1>6, <1>7, DivMod
    <2>2. n % K \in 0..(K - 1)
      BY <1>6, <1>7, DivMod
    <2>3. v \in 0..(L - 1) /\ v \in Nat
      BY <1>5, <1>7
    <2> QED BY <2>1, <2>2, <2>3
  <1>9. cpu.nonce = K * p + a
    BY <1>6, <1>7, DivMod
  <1>10. n = K * v + b /\ nonce = K * v + a
    <2>1. n = (n % K) + K * v /\ nonce = (cpu.nonce % K) + K * v
      BY <1>5 DEF Mine, Masked
    <2> HIDE DEF nonce
    <2>2. n = b + K * v /\ nonce = a + K * v
      BY <2>1
    <2> HIDE DEF a, b
    <2> QED BY <1>7, <1>8, <2>2
  <1> HIDE DEF nonce, a, b, p
  <1>11. p \in 0..(L - 1)
    <2>1. SUFFICES ASSUME p >= L PROVE FALSE
      BY <1>7, <1>8
    <2>2. K * p >= K * L
      BY <1>7, <1>8, <2>1
    <2>3. K * p \in Nat /\ K * L \in Nat
      BY <1>7, <1>8
    <2> QED BY <1>5, <1>6, <1>8, <1>9, <2>2, <2>3
  <1>12. Ahead(n) = IF b >= a THEN b - a ELSE b - a + K
    <2>1. Ahead(n) = Way(K, L, p, a, v, b)
      BY <1>5, <1>9, <1>10 DEF Ahead, Way
    <2> QED BY <1>7, <1>8, <1>11, <2>1, Gap
  <1> DEFINE c == Onward(K, a)
  <1>13. c \in 0..(K - 1)
    BY <1>7, <1>8 DEF Onward
  <1>14. PICK q \in 0..(L - 1) : cpu'.nonce = K * q + c
    <2>1. cpu'.nonce = After(K, L, v, a)
      BY <1>2, <1>5, <1>10 DEF Advance, After
    <2> HIDE DEF c
    <2>2. \E q \in 0..(L - 1) : After(K, L, v, a) = K * q + Onward(K, a)
      BY <1>7, <1>8, Successor
    <2>3. c = Onward(K, a)
      BY DEF c
    <2> QED BY <2>1, <2>2, <2>3
  <1>15. Ahead(n)' = IF b >= c THEN b - c ELSE b - c + K
    <2>1. Ahead(n)' = (n + Radix - cpu'.nonce) % (cpu'.mask + 1)
      BY DEF Ahead
    <2> HIDE DEF c
    <2>2. Ahead(n)' = Way(K, L, q, c, v, b)
      BY <1>2, <1>5, <1>10, <1>14, <2>1 DEF Way
    <2> QED BY <1>7, <1>8, <1>13, <1>14, <2>2, Gap
  <1>16. Ahead(n) \in 0..(K - 1) /\ K - 1 = cpu.mask
    <2>1. PICK x : Parts(cpu.mask, cpu.fixed, x)
      BY <1>1
    <2>2. cpu.mask \in Nat
      BY <1>6, <2>1, MaskedIsAnnounced, Widths DEF Nonces
    <2>3. K - 1 = cpu.mask
      BY <1>5, <2>2
    <2>4. Ahead(n) \in 0..(K - 1)
      BY <1>7, <1>8, <1>12
    <2> QED BY <2>3, <2>4
  <1>17. CASE Ahead(n) = 0
    <2>1. a = b
      BY <1>7, <1>8, <1>12, <1>17
    <2>2. n = nonce
      BY <1>10, <2>1
    <2> QED BY <1>3, <1>16, <1>17, <2>2 DEF ComesTo
  <1>18. CASE Ahead(n) # 0
    <2>1. a # b
      BY <1>8, <1>12, <1>18
    <2>2. Ahead(n)' = Ahead(n) - 1
      BY <1>7, <1>8, <1>12, <1>15, <2>1 DEF Onward
    <2> QED BY <1>16, <1>18, <2>2 DEF ComesTo
  <1> QED BY <1>17, <1>18

\* For any widths, partitions and starts: a worker that stays with a job comes to every
\* nonce of its partition within as many turns as the partition has nonces.
THEOREM NoneLeftOut == Spec => EveryTurnCounts
  <1>1. ASSUME IInv, cpu.job # None, [Next]_vars, ~CpuTurn PROVE UNCHANGED cpu
    <2>1. CASE UNCHANGED vars
      BY <2>1 DEF vars
    <2>2. CASE Next
      BY <1>1, <2>2 DEF Next, SetDifficulty, RefuseDifficulty, HearDifficulty, SetExtranonce,
         SetExtranonceInferred, RefuseExtranonce, HearExtranonce, Partition, Notify, Template,
         Process, CpuWait, GpuWait, GpuFinds, GpuFindsNothing, workers, settings
    <2> QED BY <1>1, <2>1, <2>2
  <1>2. IInv /\ [Next]_vars => [cpu.job # None =>
            IF CpuTurn THEN \A n \in Nonces : Mine(n) => Ahead(n) \in 0..cpu.mask /\ ComesTo(n)
            ELSE UNCHANGED cpu]_vars
    BY <1>1, TurnCounts
  <1> QED BY <1>2, AlwaysInv, PTL DEF Spec, EveryTurnCounts

\* For any extranonces: the nonces a worker can come to are exactly the ones the pool set
\* apart for it, none of another miner's and none left out.
THEOREM CoversItsPartition == Spec => []WholePartition
  <1>1. IInv => WholePartition
    <2> DEFINE x == cpu.job.asked.extranonce
    <2> SUFFICES ASSUME IInv, cpu.job # None, ~said.moved
                 PROVE  /\ \A n \in Nonces : Mine(n) => n \in Announced(x)
                        /\ HasRoom(x) => \A n \in Announced(x) : Mine(n)
      BY DEF WholePartition
    <2>1. Parts(cpu.mask, cpu.fixed, x)
      <3>1. Made(cpu.job)
        BY MadeNumber DEF IInv, JobsHeld
      <3>2. cpu.mask = cpu.job.mask /\ cpu.fixed = cpu.job.fixed
        BY DEF IInv, CpuPartition
      <3> QED BY <3>1, <3>2 DEF Made
    <2> HIDE DEF x
    <2>2. ASSUME NEW n \in Nonces, Mine(n) PROVE n \in Announced(x)
      <3>1. n \in Nat
        BY Widths DEF Nonces
      <3> QED BY <2>1, <2>2, <3>1, MaskedIsAnnounced DEF Mine
    <2>3. ASSUME HasRoom(x), NEW n \in Announced(x) PROVE Mine(n)
      BY <2>1, <2>3, AnnouncedIsMasked DEF Mine
    <2> QED BY <2>2, <2>3
  <1> QED BY <1>1, AlwaysInv, PTL
=============================================================================
