----------------------------- MODULE WireProofs -----------------------------
(***************************************************************************)
(* Theorems about Options and Wire: which texts survive being encrypted,   *)
(* for texts of every length and every number of a key, and what becomes   *)
(* of every buffer, whatever is packed into it.                            *)
(***************************************************************************)
EXTENDS Wire, FiniteSetTheorems, WellFoundedInduction, TLAPS

-----------------------------------------------------------------------------
(* Sets and sequences of numbers.                                          *)

(* A nonempty set of naturals has a least element, which Min chooses.      *)
LEMMA LeastElement ==
  ASSUME NEW S \in SUBSET Nat, S # {}
  PROVE  Min(S) \in S /\ \A y \in S : Min(S) <= y
<1>1. PICK x \in S : \A y \in S : ~(<<y, x>> \in OpToRel(<, Nat))
  BY WFMin, NatLessThanWellFounded
<1>2. \A y \in S : x <= y
  <2>1. TAKE y \in S
  <2>2. ~(y < x)
    BY <1>1 DEF OpToRel
  <2>3. x \in Nat /\ y \in Nat
    OBVIOUS
  <2> QED
    BY <2>2, <2>3
<1> QED
  BY <1>2 DEF Min

(* The sums of the first elements of a sequence exist ...                  *)
SumsOf(f, n, s) == s \in [0 .. n -> Int] /\ s[0] = 0 /\ \A j \in 1 .. n : s[j] = s[j - 1] + f[j]

LEMMA SumsExist ==
  ASSUME NEW m \in Nat, NEW f \in [1 .. m -> Int]
  PROVE  \A n \in 0 .. m : \E s : SumsOf(f, n, s)
<1> DEFINE Bad == {n \in 0 .. m : ~ \E s : SumsOf(f, n, s)}
<1>1. ASSUME Bad # {} PROVE FALSE
  <2> DEFINE n == Min(Bad)
  <2>1. Bad \in SUBSET Nat
    OBVIOUS
  <2>2. n \in Bad /\ \A y \in Bad : n <= y
    <3> HIDE DEF Bad
    <3> QED
      BY <1>1, <2>1, LeastElement
  <2>3. n \in 0 .. m /\ ~ \E s : SumsOf(f, n, s)
    <3> HIDE DEF n
    <3> QED
      BY <2>2
  <2>4. n # 0
    <3>1. SumsOf(f, 0, [j \in 0 .. 0 |-> 0])
      BY DEF SumsOf
    <3> HIDE DEF n
    <3> QED
      BY <2>3, <3>1
  <2>5. PICK s : SumsOf(f, n - 1, s)
    <3> HIDE DEF n
    <3>1. n - 1 \in 0 .. m /\ ~(n <= n - 1)
      BY <2>3, <2>4
    <3>2. n - 1 \notin Bad
      <4> HIDE DEF Bad
      <4> QED
        BY <2>2, <3>1
    <3> QED
      BY <3>1, <3>2
  <2> HIDE DEF n
  <2> DEFINE t == [j \in 0 .. n |-> IF j = n THEN s[n - 1] + f[n] ELSE s[j]]
  <2>6. SumsOf(f, n, t)
    <3>1. n \in Nat \ {0} /\ n \in 1 .. m
      BY <2>3, <2>4
    <3>2. s \in [0 .. n - 1 -> Int] /\ s[0] = 0 /\ \A j \in 1 .. n - 1 : s[j] = s[j - 1] + f[j]
      BY <2>5 DEF SumsOf
    <3>3. t \in [0 .. n -> Int]
      BY <3>1, <3>2
    <3>4. t[0] = 0
      BY <3>1, <3>2
    <3>5. ASSUME NEW j \in 1 .. n PROVE t[j] = t[j - 1] + f[j]
      <4>1. t[j - 1] = s[j - 1]
        BY <3>1
      <4>2. CASE j = n
        BY <3>1, <4>1, <4>2
      <4>3. CASE j # n
        <5>1. j \in 1 .. n - 1 /\ t[j] = s[j]
          BY <3>1, <4>3
        <5> QED
          BY <3>2, <4>1, <5>1
      <4> QED
        BY <4>2, <4>3
    <3> HIDE DEF t
    <3> QED
      BY <3>3, <3>4, <3>5 DEF SumsOf
  <2> QED
    BY <2>3, <2>6
<1> QED
  BY <1>1

(* ... and Sums yields them.                                               *)
LEMMA SumsAre ==
  ASSUME NEW n \in Nat, NEW f \in [1 .. n -> Int]
  PROVE  SumsOf(f, n, Sums(f, n))
<1> DEFINE Equation(s) == s = [j \in 0 .. n |-> IF j = 0 THEN 0 ELSE s[j - 1] + f[j]]
<1>1. PICK s : SumsOf(f, n, s)
  BY SumsExist
<1>2. Equation(s)
  BY <1>1 DEF SumsOf
<1> DEFINE t == CHOOSE u : Equation(u)
<1>3. Equation(t)
  BY <1>2
<1>4. Sums(f, n) = t
  BY DEF Sums
<1> HIDE DEF t
<1>5. /\ t = [j \in 0 .. n |-> t[j]]
      /\ t[0] = 0
      /\ \A j \in 1 .. n : t[j] = t[j - 1] + f[j]
  BY <1>3
<1> DEFINE Bad == {j \in 0 .. n : t[j] \notin Int}
<1>6. ASSUME Bad # {} PROVE FALSE
  <2> DEFINE k == Min(Bad)
  <2>1. Bad \in SUBSET Nat
    OBVIOUS
  <2>2. k \in Bad /\ \A y \in Bad : k <= y
    <3> HIDE DEF Bad
    <3> QED
      BY <1>6, <2>1, LeastElement
  <2> HIDE DEF k
  <2>3. k \in 0 .. n /\ t[k] \notin Int
    BY <2>2
  <2>4. k # 0
    BY <2>3, <1>5
  <2>5. k - 1 \in 0 .. n /\ ~(k <= k - 1) /\ k \in 1 .. n
    BY <2>3, <2>4
  <2>6. k - 1 \notin Bad
    <3> HIDE DEF Bad
    <3> QED
      BY <2>2, <2>5
  <2>7. t[k - 1] \in Int /\ f[k] \in Int
    BY <2>5, <2>6
  <2>8. t[k] = t[k - 1] + f[k]
    BY <1>5, <2>5
  <2> QED
    BY <2>3, <2>7, <2>8
<1>7. t \in [0 .. n -> Int]
  BY <1>5, <1>6
<1> QED
  BY <1>4, <1>5, <1>7 DEF SumsOf

(* A change of one element changes the sums from there on.                 *)
LEMMA SumsChange ==
  ASSUME NEW n \in Nat, NEW f \in [1 .. n -> Int], NEW g \in [1 .. n -> Int],
         NEW k \in 1 .. n, \A j \in 1 .. n : j # k => g[j] = f[j]
  PROVE  \A j \in 0 .. n :
           Sums(g, n)[j] = Sums(f, n)[j] + IF j >= k THEN g[k] - f[k] ELSE 0
<1> DEFINE s == Sums(f, n)
           t == Sums(g, n)
           Right(j) == t[j] = s[j] + IF j >= k THEN g[k] - f[k] ELSE 0
           Bad == {j \in 0 .. n : ~Right(j)}
<1>1. /\ s \in [0 .. n -> Int] /\ s[0] = 0 /\ \A j \in 1 .. n : s[j] = s[j - 1] + f[j]
      /\ t \in [0 .. n -> Int] /\ t[0] = 0 /\ \A j \in 1 .. n : t[j] = t[j - 1] + g[j]
  BY SumsAre DEF SumsOf
<1> HIDE DEF s, t
<1>2. ASSUME Bad # {} PROVE FALSE
  <2> DEFINE i == Min(Bad)
  <2>1. Bad \in SUBSET Nat
    OBVIOUS
  <2>2. i \in Bad /\ \A y \in Bad : i <= y
    <3> HIDE DEF Bad
    <3> QED
      BY <1>2, <2>1, LeastElement
  <2> HIDE DEF i
  <2>3. i \in 0 .. n /\ ~Right(i)
    BY <2>2
  <2>4. i # 0
    BY <2>3, <1>1
  <2>5. i - 1 \in 0 .. n /\ ~(i <= i - 1) /\ i \in 1 .. n
    BY <2>3, <2>4
  <2>6. i - 1 \notin Bad
    <3> HIDE DEF Bad
    <3> QED
      BY <2>2, <2>5
  <2>7. Right(i - 1)
    BY <2>5, <2>6
  <2>8. t[i] = t[i - 1] + g[i] /\ s[i] = s[i - 1] + f[i]
    BY <1>1, <2>5
  <2>9. /\ t[i - 1] \in Int /\ s[i - 1] \in Int /\ f[i] \in Int /\ g[i] \in Int
        /\ f[k] \in Int /\ g[k] \in Int /\ i \in Int /\ k \in Int
    <3>1. i \in 0 .. n /\ i - 1 \in 0 .. n
      BY <2>3, <2>5
    <3>2. t[i - 1] \in Int /\ s[i - 1] \in Int
      BY <1>1, <3>1
    <3>3. f[i] \in Int /\ g[i] \in Int
      BY <2>5
    <3>4. f[k] \in Int /\ g[k] \in Int
      OBVIOUS
    <3> QED
      BY <3>1, <3>2, <3>3, <3>4
  <2>10. CASE i = k
    BY <2>3, <2>7, <2>8, <2>9, <2>10
  <2>11. CASE i # k
    <3>1. g[i] = f[i]
      BY <2>5, <2>11
    <3> QED
      BY <2>3, <2>7, <2>8, <2>9, <2>11, <3>1, SMTT(30)
  <2> QED
    BY <2>10, <2>11
<1>3. ASSUME NEW j \in 0 .. n PROVE Right(j)
  BY <1>2
<1> QED
  BY <1>3 DEF s, t

(* The sums of numbers that are not negative do not fall.                  *)
LEMMA SumsGrow ==
  ASSUME NEW n \in Nat, NEW f \in [1 .. n -> Nat], NEW i \in 0 .. n
  PROVE  \A j \in i .. n : Sums(f, n)[i] <= Sums(f, n)[j]
<1> DEFINE s == Sums(f, n)
           Bad == {j \in i .. n : ~(s[i] <= s[j])}
<1>1. f \in [1 .. n -> Int]
  OBVIOUS
<1>2. s \in [0 .. n -> Int] /\ \A j \in 1 .. n : s[j] = s[j - 1] + f[j]
  BY <1>1, SumsAre DEF SumsOf
<1> HIDE DEF s
<1>3. ASSUME Bad # {} PROVE FALSE
  <2> DEFINE k == Min(Bad)
  <2>1. Bad \in SUBSET Nat
    OBVIOUS
  <2>2. k \in Bad /\ \A y \in Bad : k <= y
    <3> HIDE DEF Bad
    <3> QED
      BY <1>3, <2>1, LeastElement
  <2> HIDE DEF k
  <2>3. k \in i .. n /\ ~(s[i] <= s[k])
    BY <2>2
  <2>4. s[i] \in Int /\ s[k] \in Int
    BY <1>2, <2>3
  <2>5. k # i
    BY <2>3, <2>4
  <2>6. k - 1 \in i .. n /\ ~(k <= k - 1) /\ k \in 1 .. n
    BY <2>3, <2>5
  <2>7. k - 1 \notin Bad
    <3> HIDE DEF Bad
    <3> QED
      BY <2>2, <2>6
  <2>8. s[i] <= s[k - 1] /\ s[k - 1] \in Int
    BY <1>2, <2>6, <2>7
  <2>9. s[k] = s[k - 1] + f[k] /\ f[k] \in Nat
    BY <1>2, <2>6
  <2> QED
    BY <2>3, <2>4, <2>8, <2>9
<1>4. ASSUME NEW j \in i .. n PROVE s[i] <= s[j]
  BY <1>3
<1> QED
  BY <1>4 DEF s

-----------------------------------------------------------------------------
(* The texts of the extension.                                             *)

(* A number of a key has at most ten digits.                               *)
LEMMA DecimalLenBound ==
  ASSUME NEW i \in Nat
  PROVE  DecimalLen(i) \in 1 .. 10
<1> DEFINE Powers == {k \in 1 .. 9 : 10^k <= i}
<1>1. IsFiniteSet(1 .. 9) /\ Cardinality(1 .. 9) = 9
  <2>1. IsFiniteSet(1 .. 9) /\ Cardinality(1 .. 9) = IF 1 > 9 THEN 0 ELSE 9 - 1 + 1
    <3>1. 1 \in Int /\ 9 \in Int
      OBVIOUS
    <3> QED
      BY ONLY <3>1, FS_Interval, Zenon
  <2> QED
    BY <2>1
<1>2. Powers \in SUBSET (1 .. 9)
  OBVIOUS
<1>3. IsFiniteSet(Powers) /\ Cardinality(Powers) <= 9
  <2> HIDE DEF Powers
  <2> QED
    BY ONLY <1>1, <1>2, FS_Subset
<1>4. Cardinality(Powers) \in Nat
  BY <1>3, FS_CardinalityType
<1> QED
  BY <1>3, <1>4 DEF DecimalLen

LEMMA ZeroHasOneDigit == DecimalLen(0) = 1
<1>1. ASSUME NEW k \in 1 .. 9
      PROVE  ~(10^k <= 0)
  <2>1. CASE k = 1
    BY <2>1
  <2>2. CASE k = 2
    BY <2>2
  <2>3. CASE k = 3
    BY <2>3
  <2>4. CASE k = 4
    BY <2>4
  <2>5. CASE k = 5
    BY <2>5
  <2>6. CASE k = 6
    BY <2>6
  <2>7. CASE k = 7
    BY <2>7
  <2>8. CASE k = 8
    BY <2>8
  <2>9. CASE k = 9
    BY <2>9
  <2> QED
    BY <2>1, <2>2, <2>3, <2>4, <2>5, <2>6, <2>7, <2>8, <2>9
<1>2. {k \in 1 .. 9 : 10^k <= 0} = {}
  BY <1>1
<1> QED
  BY <1>2, FS_EmptySet DEF DecimalLen

(* The prefix of an encrypted text is 21 to 30 characters long.            *)
LEMMA PrefixBound ==
  ASSUME NEW n \in Nat
  PROVE  PrefixLen(<<0, n, 0, 0>>) \in 21 .. 30
<1>1. PrefixLen(<<0, n, 0, 0>>) = 17 + 3 * DecimalLen(0) + DecimalLen(n)
  <2>1. DecimalLen(0) \in Nat /\ DecimalLen(n) \in Nat
    BY DecimalLenBound
  <2> QED
    BY <2>1 DEF PrefixLen
<1> QED
  BY <1>1, ZeroHasOneDigit, DecimalLenBound

(* What is encoded, in bytes, before it is cut.                            *)
Sealed(len) == Base64Len(CipherLen(len))

(* 3023 bytes and no more fit, whatever the number of the key.             *)
LEMMA SealedFits ==
  ASSUME NEW len \in Nat, NEW p \in 21 .. 30
  PROVE  /\ Sealed(len) \in Nat
         /\ Sealed(len) <= 4095 - p <=> len <= MaxKept
<1> DEFINE blocks == len \div 16
           cipher == 16 + 16 * (blocks + 1)
           groups == (cipher + 2) \div 3
<1>1. blocks \in Nat /\ 16 * blocks <= len /\ len < 16 * blocks + 16
  OBVIOUS
<1>2. cipher \in Nat /\ groups \in Nat /\ 3 * groups <= cipher + 2 /\ cipher + 2 < 3 * groups + 3
  BY <1>1
<1>3. Sealed(len) = 4 * groups
  BY DEF Sealed, Base64Len, CipherLen, AesBlock
<1>4. CASE len <= MaxKept
  <2>1. blocks <= 188
    BY <1>1, <1>4 DEF MaxKept
  <2>2. groups <= 1016
    BY <1>1, <1>2, <2>1
  <2> QED
    BY <1>2, <1>3, <1>4, <2>2
<1>5. CASE len > MaxKept
  <2>1. blocks >= 189
    BY <1>1, <1>5 DEF MaxKept
  <2>2. groups >= 1019
    BY <1>1, <1>2, <2>1
  <2> QED
    BY <1>2, <1>3, <1>5, <2>2 DEF MaxKept
<1> QED
  BY <1>4, <1>5 DEF MaxKept

(* get_text_with_options keeps an encrypted text whole exactly if the text
   that was written has at most 3023 bytes.                                *)
THEOREM KeptExactly ==
  ASSUME NEW len \in Nat, NEW n \in Nat
  PROVE  Whole(EncryptMessage(Plain(len), n)) <=> len <= MaxKept
<1> DEFINE p == PrefixLen(<<0, n, 0, 0>>)
           t == EncryptMessage(Plain(len), n)
<1>1. p \in 21 .. 30
  BY PrefixBound
<1>2. Size(Plain(len)) = len
  BY DEF Size, Plain
<1>3. t.full = Sealed(len) /\ t.body = Min({Sealed(len), 4095 - p})
  BY <1>2 DEF EncryptMessage, GetTextWithOptions, Sealed, MaxTelegramMessageLen
<1>4. Min({Sealed(len), 4095 - p}) = IF Sealed(len) <= 4095 - p THEN Sealed(len) ELSE 4095 - p
  <2> HIDE DEF p
  <2>1. Sealed(len) \in Int /\ 4095 - p \in Int
    BY <1>1, SealedFits
  <2> QED
    BY <2>1 DEF Min
<1>5. Whole(t) <=> Sealed(len) <= 4095 - p
  <2> HIDE DEF t, p
  <2>1. Sealed(len) \in Nat /\ 4095 - p \in Nat
    BY <1>1, SealedFits
  <2> QED
    BY <1>3, <1>4, <2>1 DEF Whole
<1> QED
  BY <1>1, <1>5, SealedFits

(* A text that was cut is never shown as something else: decrypt_message
   always throws, because what is left does not end with a block.          *)
THEOREM CutIsNoticed ==
  ASSUME NEW len \in Nat, NEW n \in Nat, len > MaxKept
  PROVE  DecryptMessage(EncryptMessage(Plain(len), n)) = "throws"
<1> DEFINE p == PrefixLen(<<0, n, 0, 0>>)
           t == EncryptMessage(Plain(len), n)
<1>1. p \in 21 .. 30
  BY PrefixBound
<1>2. ~Whole(t)
  <2>1. Whole(t) <=> len <= MaxKept
    BY KeptExactly, Zenon
  <2> HIDE DEF t
  <2> QED
    BY <2>1 DEF MaxKept
<1>3. t.body = 4095 - p
  <2>1. Size(Plain(len)) = len
    BY DEF Size, Plain
  <2>2. t.body = Min({Sealed(len), 4095 - p})
    BY <2>1 DEF EncryptMessage, GetTextWithOptions, Sealed, MaxTelegramMessageLen
  <2>3. Sealed(len) \in Int /\ 4095 - p \in Int /\ Sealed(len) > 4095 - p
    BY <1>1, SealedFits DEF MaxKept
  <2> HIDE DEF t, p
  <2> QED
    BY <2>2, <2>3 DEF Min
<1>4. (3 * (t.body \div 4)) % AesBlock # 0
  <2> HIDE DEF t, p
  <2>1. t.body \in 4065 .. 4074
    BY <1>1, <1>3
  <2>2. t.body \div 4 \in 1016 .. 1018
    BY <2>1
  <2> QED
    BY <2>2 DEF AesBlock
<1>5. DecryptMessage(t) = IF Whole(t) THEN "clear"
        ELSE IF 3 * (t.body \div 4) < AesBlock \/ (3 * (t.body \div 4)) % AesBlock # 0
             THEN "throws" ELSE "garbled"
  BY Zenon DEF DecryptMessage
<1>6. DecryptMessage(t) = "throws"
  <2> HIDE DEF t
  <2> QED
    BY <1>2, <1>4, <1>5, Zenon
<1> QED
  BY <1>6

(* The numbers of any prefix have at most eleven characters.               *)
LEMMA DecimalLenOfInt ==
  ASSUME NEW i \in Int
  PROVE  DecimalLen(i) \in 1 .. 11
<1>1. CASE i >= 0
  BY <1>1, DecimalLenBound
<1>2. CASE ~(i >= 0)
  <2> DEFINE Powers == {k \in 1 .. 9 : i <= -(10^k)}
  <2>1. IsFiniteSet(1 .. 9) /\ Cardinality(1 .. 9) = 9
    <3>1. IsFiniteSet(1 .. 9) /\ Cardinality(1 .. 9) = IF 1 > 9 THEN 0 ELSE 9 - 1 + 1
      <4>1. 1 \in Int /\ 9 \in Int
        OBVIOUS
      <4> QED
        BY ONLY <4>1, FS_Interval, Zenon
    <3> QED
      BY <3>1
  <2>2. Powers \in SUBSET (1 .. 9)
    OBVIOUS
  <2>3. IsFiniteSet(Powers) /\ Cardinality(Powers) <= 9
    <3> HIDE DEF Powers
    <3> QED
      BY ONLY <2>1, <2>2, FS_Subset
  <2>4. Cardinality(Powers) \in Nat
    BY <2>3, FS_CardinalityType
  <2>5. DecimalLen(i) = 2 + Cardinality(Powers)
    BY <1>2 DEF DecimalLen
  <2> HIDE DEF Powers
  <2> QED
    BY <2>3, <2>4, <2>5
<1> QED
  BY <1>1, <1>2

LEMMA PrefixOfInts ==
  ASSUME NEW nums \in [1 .. 4 -> Int]
  PROVE  PrefixLen(nums) \in 21 .. 61
<1>1. /\ DecimalLen(nums[1]) \in 1 .. 11 /\ DecimalLen(nums[2]) \in 1 .. 11
      /\ DecimalLen(nums[3]) \in 1 .. 11 /\ DecimalLen(nums[4]) \in 1 .. 11
  BY DecimalLenOfInt
<1> QED
  BY <1>1 DEF PrefixLen

(* The texts of the model; those of this program and those it looks like.  *)
TextSet == [nums : {<<>>} \cup [1 .. 4 -> Int], sealed : BOOLEAN, body : Nat, full : Nat,
            clear : Nat, beyond : BOOLEAN]

LEMMA SizeOfText ==
  ASSUME NEW t \in TextSet
  PROVE  Size(t) \in Nat
<1>1. CASE t.nums = <<>>
  BY <1>1 DEF Size, TextSet
<1>2. CASE t.nums # <<>>
  <2>1. t.nums \in [1 .. 4 -> Int] /\ t.body \in Nat
    BY <1>2 DEF TextSet
  <2>2. PrefixLen(t.nums) \in 21 .. 61
    BY <2>1, PrefixOfInts
  <2>3. Size(t) = t.body + PrefixLen(t.nums)
    BY <1>2 DEF Size
  <2> QED
    BY <2>1, <2>2, <2>3
<1> QED
  BY <1>1, <1>2

LEMMA PlainText ==
  ASSUME NEW len \in Nat
  PROVE  /\ Plain(len) \in TextSet /\ Size(Plain(len)) = len
         /\ ~Plain(len).sealed /\ FillOptions(Plain(len)) = "no"
BY DEF Plain, TextSet, Size, FillOptions

(* Only the length of a text matters for what it becomes.                  *)
LEMMA EncryptedBySize ==
  ASSUME NEW t \in TextSet, NEW n \in Nat
  PROVE  EncryptMessage(t, n) = EncryptMessage(Plain(Size(t)), n)
<1>1. Size(Plain(Size(t))) = Size(t)
  BY SizeOfText, PlainText
<1> QED
  BY <1>1 DEF EncryptMessage

CutSize == MaxTelegramMessageLen - 1

(* What an encrypted text is, ...                                          *)
LEMMA EncryptedText ==
  ASSUME NEW len \in Nat, NEW n \in Nat
  PROVE  /\ EncryptMessage(Plain(len), n) \in TextSet
         /\ EncryptMessage(Plain(len), n).sealed
         /\ EncryptMessage(Plain(len), n).clear = len
         /\ ~EncryptMessage(Plain(len), n).beyond
         /\ FillOptions(EncryptMessage(Plain(len), n)) = "yes"
         /\ len <= MaxKept => Size(EncryptMessage(Plain(len), n))
                                = Sealed(len) + PrefixLen(<<0, n, 0, 0>>)
         /\ ~(len <= MaxKept) => Size(EncryptMessage(Plain(len), n)) = CutSize
<1> DEFINE p == PrefixLen(<<0, n, 0, 0>>)
           t == EncryptMessage(Plain(len), n)
<1>1. p \in 21 .. 30
  BY PrefixBound
<1>2. Sealed(len) \in Nat /\ (Sealed(len) <= 4095 - p <=> len <= MaxKept)
  BY <1>1, SealedFits
<1>3. Size(Plain(len)) = len
  BY DEF Size, Plain
<1> DEFINE b == IF len <= MaxKept THEN Sealed(len) ELSE 4095 - p
           text(size) == [nums |-> <<0, n, 0, 0>>, sealed |-> TRUE, body |-> size,
                          full |-> Sealed(len), clear |-> len, beyond |-> FALSE]
<1>4. t = text(Min({Sealed(len), 4095 - p}))
  BY <1>3 DEF EncryptMessage, GetTextWithOptions, Sealed, MaxTelegramMessageLen
<1>5. Min({Sealed(len), 4095 - p}) = b
  <2> HIDE DEF p
  <2>1. Sealed(len) \in Int /\ 4095 - p \in Int
    BY <1>1, <1>2
  <2> QED
    BY <1>2, <2>1 DEF Min
<1>6. t = text(b)
  <2> HIDE DEF t, b, p, text
  <2> QED
    BY <1>4, <1>5
<1>7. b \in Nat
  <2> HIDE DEF p
  <2> QED
    BY <1>1, <1>2
<1>8. t.nums = <<0, n, 0, 0>> /\ t.sealed /\ t.clear = len /\ ~t.beyond /\ t.body = b
  <2> HIDE DEF b, p
  <2> QED
    BY <1>6
<1>9. t \in TextSet
  <2> HIDE DEF b, p
  <2>1. <<0, n, 0, 0>> \in [1 .. 4 -> Int]
    OBVIOUS
  <2> QED
    BY <1>2, <1>6, <1>7, <2>1 DEF TextSet
<1> HIDE DEF t
<1>10. FillOptions(t) = "yes"
  <2>1. t.nums # <<>>
    BY <1>8
  <2>2. \A i \in DOMAIN t.nums : ~(t.nums[i] < 0)
    BY <1>8
  <2> QED
    BY <1>8, <2>1, <2>2 DEF FillOptions
<1>11. Size(t) = b + p
  <2> HIDE DEF b
  <2>1. t.nums # <<>>
    BY <1>8
  <2> QED
    BY <1>8, <2>1 DEF Size
<1>12. b + p = IF len <= MaxKept THEN Sealed(len) + p ELSE 4095
  <2> HIDE DEF p
  <2> QED
    BY <1>1, <1>2
<1>13. (len <= MaxKept => Size(t) = Sealed(len) + p) /\ (~(len <= MaxKept) => Size(t) = CutSize)
  <2> HIDE DEF b, p
  <2> QED
    BY <1>11, <1>12 DEF CutSize, MaxTelegramMessageLen
<1>14. t.sealed /\ t.clear = len /\ ~t.beyond
  BY <1>8
<1> QED
  BY <1>9, <1>10, <1>13, <1>14, Zenon DEF t

(* ... and what decrypt_message makes of it.                               *)
LEMMA DecryptedText ==
  ASSUME NEW len \in Nat, NEW n \in Nat
  PROVE  DecryptMessage(EncryptMessage(Plain(len), n))
           = IF len <= MaxKept THEN "clear" ELSE "throws"
<1>1. CASE len <= MaxKept
  <2> DEFINE t == EncryptMessage(Plain(len), n)
  <2>1. Whole(t)
    BY <1>1, KeptExactly, Zenon
  <2>2. DecryptMessage(t) = IF Whole(t) THEN "clear"
          ELSE IF 3 * (t.body \div 4) < AesBlock \/ (3 * (t.body \div 4)) % AesBlock # 0
               THEN "throws" ELSE "garbled"
    BY Zenon DEF DecryptMessage
  <2>3. DecryptMessage(t) = "clear"
    BY <2>1, <2>2, Zenon
  <2> QED
    BY <1>1, <2>3, Zenon
<1>2. CASE ~(len <= MaxKept)
  <2>1. len > MaxKept
    BY <1>2 DEF MaxKept
  <2>2. DecryptMessage(EncryptMessage(Plain(len), n)) = "throws"
    BY <2>1, CutIsNoticed, Zenon
  <2> QED
    BY <1>2, <2>2, Zenon
<1> QED
  BY <1>1, <1>2, Zenon

LEMMA WordsPositive ==
  ASSUME NEW b \in Nat
  PROVE  Words(b) \in Nat \ {0}
BY DEF Words

(* A text grows by so many words that the index, which takes words for
   bytes, jumps over the head of the message behind it, ...                *)
LEMMA GrowsFar ==
  ASSUME NEW len \in Nat, NEW n \in Nat, len <= MaxKept
  PROVE  3 * Words(Size(EncryptMessage(Plain(len), n))) > 4 * Words(len) + 12
<1> DEFINE blocks == len \div 16
           cipher == 16 + 16 * (blocks + 1)
           groups == (cipher + 2) \div 3
           p == PrefixLen(<<0, n, 0, 0>>)
           size == Size(EncryptMessage(Plain(len), n))
<1>1. p \in 21 .. 30
  BY PrefixBound
<1>2. blocks \in Nat /\ 16 * blocks <= len /\ len < 16 * blocks + 16
  OBVIOUS
<1>3. groups \in Nat /\ 3 * groups >= cipher /\ cipher >= len + 17
  BY <1>2
<1>4. size = 4 * groups + p
  <2>1. Sealed(len) = 4 * groups
    BY DEF Sealed, Base64Len, CipherLen, AesBlock
  <2>2. size = Sealed(len) + p
    BY EncryptedText
  <2> HIDE DEF size, p, groups
  <2> QED
    BY <2>1, <2>2
<1> HIDE DEF size, p, groups, cipher
<1>5. size \in Nat /\ 3 * size >= 4 * len + 131
  BY <1>1, <1>3, <1>4, <1>2 DEF cipher
<1>6. 4 * Words(size) > size
  BY <1>5 DEF Words
<1>7. 4 * Words(len) <= len + 7
  BY DEF Words
<1>8. Words(size) \in Nat /\ Words(len) \in Nat
  BY <1>5, WordsPositive
<1> DEFINE a == Words(size)
           c == Words(len)
<1> HIDE DEF a, c
<1>9. a \in Nat /\ c \in Nat /\ 4 * a > size /\ 4 * c <= len + 7
  BY <1>6, <1>7, <1>8 DEF a, c
<1>10. 3 * a > 4 * c + 12
  <2>1. 12 * a > 3 * size
    BY <1>5, <1>9
  <2>2. 16 * c <= 4 * len + 28
    BY <1>9
  <2> QED
    BY <1>5, <1>9, <2>1, <2>2
<1> QED
  BY <1>10 DEF a, c, size

(* ... and no text of at most 4096 bytes gets shorter.                     *)
LEMMA NeverShrinks ==
  ASSUME NEW len \in Nat, NEW n \in Nat, len <= MaxTelegramMessageLen
  PROVE  Words(Size(EncryptMessage(Plain(len), n))) >= Words(len)
<1> DEFINE size == Size(EncryptMessage(Plain(len), n))
<1>1. size \in Nat
  <2>1. EncryptMessage(Plain(len), n) \in TextSet
    BY EncryptedText, Zenon
  <2> QED
    BY <2>1, SizeOfText, Zenon
<1>2. Words(size) \in Nat /\ Words(len) \in Nat
  BY <1>1, WordsPositive
<1>3. CASE len <= MaxKept
  <2>1. 3 * Words(size) > 4 * Words(len) + 12
    BY <1>3, GrowsFar
  <2> HIDE DEF size
  <2> DEFINE a == Words(size)
             c == Words(len)
  <2> HIDE DEF a, c
  <2>2. 3 * a > 4 * c + 12 /\ a \in Nat /\ c \in Nat
    BY <2>1, <1>2 DEF a, c
  <2>3. a >= c
    BY <2>2
  <2> QED
    BY <2>3 DEF a, c, size
<1>4. CASE ~(len <= MaxKept)
  <2>1. size = CutSize
    BY <1>4, EncryptedText, Zenon
  <2>2. Words(CutSize) = 1025
    BY DEF Words, CutSize, MaxTelegramMessageLen
  <2>3. Words(len) <= 1025
    BY <1>4 DEF Words, MaxKept, MaxTelegramMessageLen
  <2> QED
    BY <2>1, <2>2, <2>3
<1> QED
  BY <1>3, <1>4

-----------------------------------------------------------------------------
(* The buffers.                                                            *)

ItemSet == [text : TextSet, sent : TextSet, peer : Peers \cup {"none"}, keyed : BOOLEAN,
            lead : Nat, declared : Int]
BufferSet == [items : Seq(ItemSet), boxed : BOOLEAN, payload : Int, at : Int, growth : Int,
              left : {"no", "return", "end"}]

LEMMA TextStartBound ==
  ASSUME NEW peer \in Peers
  PROVE  TextStart[peer] \in 3 .. 7
BY DEF Peers, TextStart

LEMMA BodyOfItem ==
  ASSUME NEW item \in ItemSet
  PROVE  /\ BodyWords(item) \in Nat /\ BodyWords(item) >= item.lead
         /\ IsText(item) => /\ TextStart[item.peer] \in 3 .. 7
                            /\ Words(Size(item.text)) \in Nat
                            /\ BodyWords(item) = item.lead + TextStart[item.peer]
                                                 + Words(Size(item.text)) + 2
<1>1. item.lead \in Nat /\ item.text \in TextSet /\ item.peer \in Peers \cup {"none"}
  BY DEF ItemSet
<1>2. Words(Size(item.text)) \in Nat
  BY <1>1, SizeOfText, WordsPositive
<1>3. IsText(item) => TextStart[item.peer] \in 3 .. 7
  BY <1>1, TextStartBound DEF IsText
<1> QED
  BY <1>1, <1>2, <1>3 DEF BodyWords

LEMMA WordsOfItems ==
  ASSUME NEW items \in Seq(ItemSet)
  PROVE  /\ ItemWords(items) \in [1 .. Len(items) -> Nat]
         /\ \A j \in 1 .. Len(items) : ItemWords(items)[j] = 4 + BodyWords(items[j])
         /\ Len(items) \in Nat
<1>1. \A j \in 1 .. Len(items) : BodyWords(items[j]) \in Nat
  BY BodyOfItem
<1>2. DOMAIN items = 1 .. Len(items)
  OBVIOUS
<1> QED
  BY <1>1, <1>2 DEF ItemWords, HeaderWords

LEMMA SumsOfItems ==
  ASSUME NEW items \in Seq(ItemSet)
  PROVE  /\ \A j \in 0 .. Len(items) : Sums(ItemWords(items), Len(items))[j] \in Nat
         /\ \A j \in 1 .. Len(items) : Sums(ItemWords(items), Len(items))[j]
              = Sums(ItemWords(items), Len(items))[j - 1] + 4 + BodyWords(items[j])
         /\ \A i, j \in 0 .. Len(items) : i <= j =>
              Sums(ItemWords(items), Len(items))[i] <= Sums(ItemWords(items), Len(items))[j]
<1> DEFINE n == Len(items)
           f == ItemWords(items)
           s == Sums(f, n)
<1>1. n \in Nat /\ f \in [1 .. n -> Nat] /\ \A j \in 1 .. n : f[j] = 4 + BodyWords(items[j])
  BY WordsOfItems
<1>2. f \in [1 .. n -> Int]
  BY <1>1
<1>3. s \in [0 .. n -> Int] /\ s[0] = 0 /\ \A j \in 1 .. n : s[j] = s[j - 1] + f[j]
  <2> HIDE DEF f, n
  <2> QED
    BY <1>1, <1>2, SumsAre DEF SumsOf
<1>4. ASSUME NEW i \in 0 .. n PROVE \A j \in i .. n : s[i] <= s[j]
  <2> HIDE DEF f, n
  <2> QED
    BY <1>1, SumsGrow
<1>5. \A j \in 0 .. n : 0 <= s[j]
  <2>1. 0 \in 0 .. n
    BY <1>1
  <2>2. \A j \in 0 .. n : s[0] <= s[j]
    BY <1>4, <2>1
  <2> HIDE DEF s, n
  <2> QED
    BY <1>3, <2>2
<1> HIDE DEF s
<1>6. \A j \in 1 .. n : BodyWords(items[j]) \in Nat
  BY BodyOfItem
<1> HIDE DEF f, n
<1>7. \A j \in 0 .. n : s[j] \in Nat
  BY <1>3, <1>5
<1>8. ASSUME NEW j \in 1 .. n PROVE s[j] = s[j - 1] + 4 + BodyWords(items[j])
  <2>1. s[j] = s[j - 1] + f[j] /\ f[j] = 4 + BodyWords(items[j])
    BY <1>1, <1>3
  <2>2. s[j - 1] \in Nat /\ BodyWords(items[j]) \in Nat
    <3>1. j - 1 \in 0 .. n
      BY <1>1
    <3> QED
      BY <1>6, <1>7, <3>1
  <2> QED
    BY <2>1, <2>2
<1>9. ASSUME NEW i \in 0 .. n, NEW j \in 0 .. n, i <= j PROVE s[i] <= s[j]
  BY <1>1, <1>4, <1>9
<1> QED
  BY <1>7, <1>8, <1>9 DEF s, f, n

LEMMA PayloadOfItems ==
  ASSUME NEW items \in Seq(ItemSet), items # <<>>, NEW boxed
  PROVE  PayloadLen(boxed, items) \in Int
<1>1. Len(items) \in 0 .. Len(items) /\ 1 \in 1 .. Len(items) /\ Len(items) + 1 - 1 = Len(items)
  OBVIOUS
<1>2. WordsBefore(items, Len(items) + 1) \in Nat
  BY <1>1, SumsOfItems DEF WordsBefore
<1>3. BodyWords(items[1]) \in Nat
  BY <1>1, BodyOfItem
<1> QED
  BY <1>2, <1>3 DEF PayloadLen

(* Where the requests are, in words.                                       *)
LEMMA RequestPlace ==
  ASSUME NEW b \in BufferSet, NEW k \in DOMAIN b.items
  PROVE  /\ RequestAt(b, k) = FirstBody(b.boxed)
              + Sums(ItemWords(b.items), Len(b.items))[k - 1] + b.items[k].lead
         /\ Sums(ItemWords(b.items), Len(b.items))[k - 1] \in Nat
         /\ FirstBody(b.boxed) \in {8, 14} /\ b.items[k].lead \in Nat
         /\ RequestAt(b, k) \in Nat
<1>1. b.items \in Seq(ItemSet) /\ k \in 1 .. Len(b.items)
  BY DEF BufferSet
<1>2. b.items[k].lead \in Nat
  <2>1. b.items[k] \in ItemSet
    BY <1>1
  <2> QED
    BY <2>1 DEF ItemSet
<1>3. Sums(ItemWords(b.items), Len(b.items))[k - 1] \in Nat
  BY <1>1, SumsOfItems
<1>4. FirstBody(b.boxed) \in {8, 14}
  BY DEF FirstBody
<1>5. RequestAt(b, k) = FirstBody(b.boxed)
        + Sums(ItemWords(b.items), Len(b.items))[k - 1] + b.items[k].lead
  BY DEF RequestAt, WordsBefore
<1> QED
  BY <1>2, <1>3, <1>4, <1>5

LEMMA RequestsInOrder ==
  ASSUME NEW b \in BufferSet, NEW j \in DOMAIN b.items, NEW k \in DOMAIN b.items, j < k
  PROVE  RequestAt(b, j) < RequestAt(b, k)
<1> DEFINE s(i) == Sums(ItemWords(b.items), Len(b.items))[i]
<1>1. b.items \in Seq(ItemSet) /\ j \in 1 .. Len(b.items) /\ k \in 1 .. Len(b.items)
  BY DEF BufferSet
<1>2. s(j) = s(j - 1) + 4 + BodyWords(b.items[j]) /\ s(j) <= s(k - 1) /\ s(j) \in Nat
  <2>1. j \in 0 .. Len(b.items) /\ k - 1 \in 0 .. Len(b.items) /\ j <= k - 1
    BY <1>1
  <2> QED
    BY <1>1, <2>1, SumsOfItems
<1>3. BodyWords(b.items[j]) >= b.items[j].lead /\ BodyWords(b.items[j]) \in Nat
  BY <1>1, BodyOfItem
<1>4. /\ RequestAt(b, j) = FirstBody(b.boxed) + s(j - 1) + b.items[j].lead
      /\ s(j - 1) \in Nat /\ b.items[j].lead \in Nat /\ FirstBody(b.boxed) \in {8, 14}
  BY RequestPlace
<1>5. /\ RequestAt(b, k) = FirstBody(b.boxed) + s(k - 1) + b.items[k].lead
      /\ s(k - 1) \in Nat /\ b.items[k].lead \in Nat
  BY RequestPlace
<1> HIDE DEF s
<1> QED
  BY <1>2, <1>3, <1>4, <1>5

LEMMA NextRequest ==
  ASSUME NEW b \in BufferSet, NEW k \in DOMAIN b.items, k + 1 \in DOMAIN b.items
  PROVE  RequestAt(b, k + 1) = RequestAt(b, k) - b.items[k].lead + 4
           + BodyWords(b.items[k]) + b.items[k + 1].lead
<1> DEFINE s(i) == Sums(ItemWords(b.items), Len(b.items))[i]
<1>1. b.items \in Seq(ItemSet) /\ k \in 1 .. Len(b.items)
  BY DEF BufferSet
<1>2. s(k) = s(k - 1) + 4 + BodyWords(b.items[k])
  BY <1>1, SumsOfItems
<1>3. BodyWords(b.items[k]) \in Nat
  BY <1>1, BodyOfItem
<1>4. /\ RequestAt(b, k) = FirstBody(b.boxed) + s(k - 1) + b.items[k].lead
      /\ s(k - 1) \in Nat /\ b.items[k].lead \in Nat /\ FirstBody(b.boxed) \in {8, 14}
  BY RequestPlace
<1>5. /\ RequestAt(b, k + 1) = FirstBody(b.boxed) + s(k) + b.items[k + 1].lead
      /\ b.items[k + 1].lead \in Nat
  <2>1. k + 1 - 1 = k
    BY <1>1
  <2> QED
    BY <2>1, RequestPlace
<1> HIDE DEF s
<1> QED
  BY <1>2, <1>3, <1>4, <1>5

(* The buffer with another text in message k.                              *)
TextChanged(items, k, text, new) ==
  /\ new \in Seq(ItemSet) /\ Len(new) = Len(items) /\ DOMAIN new = DOMAIN items
  /\ \A j \in DOMAIN items : j # k => new[j] = items[j]
  /\ new[k].text = text /\ new[k].sent = items[k].sent /\ new[k].peer = items[k].peer
  /\ new[k].lead = items[k].lead /\ new[k].declared = items[k].declared

LEMMA TextReplaced ==
  ASSUME NEW items \in Seq(ItemSet), NEW k \in DOMAIN items, NEW text \in TextSet
  PROVE  TextChanged(items, k, text, [items EXCEPT ![k].text = text])
<1> DEFINE item == items[k]
           changed == [item EXCEPT !.text = text]
           new == [items EXCEPT ![k].text = text]
<1>1. item \in ItemSet /\ k \in 1 .. Len(items) /\ DOMAIN items = 1 .. Len(items)
  OBVIOUS
<1>2. /\ changed \in ItemSet /\ changed.text = text /\ changed.sent = item.sent
      /\ changed.peer = item.peer /\ changed.lead = item.lead
      /\ changed.declared = item.declared
  <2> HIDE DEF item
  <2> QED
    BY <1>1 DEF ItemSet
<1>3. new = [items EXCEPT ![k] = changed]
  OBVIOUS
<1> HIDE DEF changed, item
<1>4. /\ new \in Seq(ItemSet) /\ Len(new) = Len(items) /\ DOMAIN new = DOMAIN items
      /\ \A j \in DOMAIN items : j # k => new[j] = items[j]
      /\ new[k] = changed
  <2> HIDE DEF new
  <2> QED
    BY <1>1, <1>2, <1>3
<1> HIDE DEF new
<1> QED
  BY <1>2, <1>4 DEF TextChanged, new, item

LEMMA TextGrown ==
  ASSUME NEW items \in Seq(ItemSet), NEW k \in DOMAIN items, NEW text \in TextSet,
         IsText(items[k]), NEW new, TextChanged(items, k, text, new),
         NEW grown, grown = Words(Size(text)) - Words(Size(items[k].text))
  PROVE  /\ BodyWords(new[k]) = BodyWords(items[k]) + grown
         /\ grown \in Int
         /\ \A j \in 0 .. Len(items) : Sums(ItemWords(new), Len(items))[j]
              = Sums(ItemWords(items), Len(items))[j] + IF j >= k THEN grown ELSE 0
<1> DEFINE item == items[k]
           start == TextStart[item.peer]
           old == Words(Size(item.text))
           now == Words(Size(text))
<1>1. item \in ItemSet /\ k \in 1 .. Len(items) /\ DOMAIN items = 1 .. Len(items)
  OBVIOUS
<1>2. /\ new \in Seq(ItemSet) /\ Len(new) = Len(items) /\ DOMAIN new = DOMAIN items
      /\ \A j \in DOMAIN items : j # k => new[j] = items[j]
      /\ new[k].text = text /\ new[k].peer = item.peer /\ new[k].lead = item.lead
  BY DEF TextChanged
<1>3. old \in Nat /\ now \in Nat /\ item.lead \in Nat
  <2>1. item.text \in TextSet /\ item.lead \in Nat
    <3> HIDE DEF item
    <3> QED
      BY <1>1 DEF ItemSet
  <2> QED
    BY <2>1, SizeOfText, WordsPositive
<1>4. IsText(item) /\ IsText(new[k])
  BY <1>2 DEF IsText
<1>5. start \in 3 .. 7
  BY <1>1, <1>4, BodyOfItem
<1>6. BodyWords(item) = item.lead + start + old + 2
  BY <1>4 DEF BodyWords
<1>7. BodyWords(new[k]) = item.lead + start + now + 2
  <2> HIDE DEF item
  <2> QED
    BY <1>2, <1>4 DEF BodyWords
<1>8. grown = now - old
  OBVIOUS
<1> DEFINE n == Len(items)
           f == ItemWords(items)
           g == ItemWords(new)
<1>9. /\ n \in Nat /\ f \in [1 .. n -> Nat] /\ \A j \in 1 .. n : f[j] = 4 + BodyWords(items[j])
      /\ g \in [1 .. n -> Nat] /\ \A j \in 1 .. n : g[j] = 4 + BodyWords(new[j])
  BY <1>2, WordsOfItems
<1> HIDE DEF start, old, now, f, g
<1>10. grown \in Int /\ BodyWords(new[k]) = BodyWords(item) + grown /\ BodyWords(item) \in Int
  <2> HIDE DEF item
  <2> QED
    BY ONLY <1>3, <1>5, <1>6, <1>7, <1>8, SMTT(30)
<1>11. \A j \in 1 .. n : j # k => g[j] = f[j]
  BY <1>1, <1>2, <1>9
<1>12. g[k] - f[k] = grown
  <2>1. f[k] = 4 + BodyWords(item) /\ g[k] = 4 + BodyWords(new[k])
    BY <1>1, <1>9
  <2> HIDE DEF item
  <2> QED
    BY ONLY <1>10, <2>1
<1>13. \A j \in 0 .. n : Sums(g, n)[j] = Sums(f, n)[j] + IF j >= k THEN grown ELSE 0
  <2>1. n \in Nat /\ f \in [1 .. n -> Int] /\ g \in [1 .. n -> Int] /\ k \in 1 .. n
    BY <1>1, <1>9
  <2> HIDE DEF n
  <2>2. \A j \in 0 .. n : Sums(g, n)[j] = Sums(f, n)[j] + IF j >= k THEN g[k] - f[k] ELSE 0
    BY ONLY <1>11, <2>1, SumsChange
  <2> QED
    BY ONLY <1>12, <2>2
<1> QED
  BY <1>10, <1>13 DEF f, g

-----------------------------------------------------------------------------
(* The inductive invariant of the buffer that is encrypted.                *)

Encrypted(t, size) == \E n \in LastKeys : t = EncryptMessage(Plain(size), n)

(* A text is what the user sent or, if that was no text of the protocol, the
   encryption of it.                                                       *)
SentAs(text, sent) ==
  /\ ~sent.sealed
  /\ text # sent => FillOptions(sent) = "no" /\ Encrypted(text, Size(sent))

OutTexts(b) == \A k \in DOMAIN b.items :
  /\ SentAs(b.items[k].text, b.items[k].sent)
  /\ ~IsText(b.items[k]) => b.items[k].text = b.items[k].sent

(* One request alone need not be in a container, and only one that is alone
   has something in front of its text.                                     *)
OutShape(b) ==
  /\ b.items = <<>> => b = NoBuffer
  /\ b.items # <<>> /\ ~b.boxed => Len(b.items) = 1
  /\ Len(b.items) > 1 => \A k \in DOMAIN b.items : IsText(b.items[k]) => b.items[k].lead = 0
  /\ b.at < 0 => b.left = "no"

(* The lengths are those of the texts the user sent; `growth` is by how much
   the buffer has grown since, and is added where the loop ends.           *)
OldWords(item) ==
  IF IsText(item) THEN item.lead + TextStart[item.peer] + Words(Size(item.sent)) + 2
  ELSE item.lead
OldItemWords(items) == [j \in DOMAIN items |-> HeaderWords + OldWords(items[j])]
Total(f, n) == Sums(f, n)[n]
Gain(items) == 4 * (Total(ItemWords(items), Len(items)) - Total(OldItemWords(items), Len(items)))

OutLengths(b) == b.items # <<>> =>
  /\ b.growth = Gain(b.items)
  /\ b.payload = PayloadLen(b.boxed, b.items) - (IF b.left = "end" THEN 0 ELSE b.growth)
  /\ \A k \in DOMAIN b.items : b.items[k].declared = 4 * OldWords(b.items[k])
       + (IF b.left = "end" /\ b.boxed /\ k = 1 THEN b.growth ELSE 0)

(* If no text gets shorter, the index is behind every text that was changed
   and behind the head of the message after it.                            *)
NoneShrinks(b) == \A k \in DOMAIN b.items : Size(b.items[k].sent) <= MaxTelegramMessageLen
OutIndex(b) == NoneShrinks(b) =>
  /\ b.at >= 0
  /\ \A k \in DOMAIN b.items : b.items[k].text # b.items[k].sent =>
       /\ b.at > RequestAt(b, k)
       /\ k + 1 \in DOMAIN b.items /\ IsText(b.items[k + 1]) /\ Size(b.items[k].sent) <= MaxKept
            => b.at > RequestAt(b, k + 1)
  /\ \A k \in DOMAIN b.items : b.items[k].text # b.items[k].sent
       /\ k + 1 \in DOMAIN b.items /\ Size(b.items[k].sent) <= MaxKept
            => b.items[k + 1].text = b.items[k + 1].sent

OutOK(b) ==
  b \in BufferSet /\ OutTexts(b) /\ OutShape(b) /\ OutLengths(b) /\ OutIndex(b)

LEMMA KeysAreNat == LastKeys \subseteq Nat
BY WireAssumption

LEMMA SentText ==
  ASSUME NEW text \in TextSet, NEW sent \in TextSet, SentAs(text, sent)
  PROVE  /\ ~sent.sealed
         /\ text # sent => /\ text.sealed /\ ~text.beyond /\ FillOptions(text) = "yes"
                           /\ FillOptions(sent) = "no"
<1>1. ASSUME text # sent
      PROVE  /\ text.sealed /\ ~text.beyond /\ FillOptions(text) = "yes"
             /\ FillOptions(sent) = "no"
  <2>1. PICK n \in LastKeys : text = EncryptMessage(Plain(Size(sent)), n)
    BY <1>1 DEF SentAs, Encrypted
  <2>2. n \in Nat /\ Size(sent) \in Nat
    BY KeysAreNat, SizeOfText
  <2>3. text.sealed /\ ~text.beyond /\ FillOptions(text) = "yes"
    BY <2>1, <2>2, EncryptedText, Zenon
  <2> QED
    BY <1>1, <2>3 DEF SentAs
<1> QED
  BY <1>1 DEF SentAs

(* The texts that lie behind the index.                                    *)
Waiting(b) == {k \in DOMAIN b.items : IsText(b.items[k]) /\ RequestAt(b, k) >= b.at}

LEMMA WordsOfSent ==
  ASSUME NEW items \in Seq(ItemSet)
  PROVE  /\ OldItemWords(items) \in [1 .. Len(items) -> Nat]
         /\ \A j \in 1 .. Len(items) : /\ OldItemWords(items)[j] = 4 + OldWords(items[j])
                                       /\ OldWords(items[j]) \in Nat
         /\ Total(OldItemWords(items), Len(items)) \in Int
<1> DEFINE n == Len(items)
           f == OldItemWords(items)
<1>1. n \in Nat /\ DOMAIN items = 1 .. n
  OBVIOUS
<1>2. ASSUME NEW j \in 1 .. n PROVE OldWords(items[j]) \in Nat
  <2> DEFINE item == items[j]
  <2>1. item \in ItemSet
    OBVIOUS
  <2> HIDE DEF item
  <2>2. item.lead \in Nat /\ item.sent \in TextSet /\ item.peer \in Peers \cup {"none"}
    BY <2>1 DEF ItemSet
  <2>3. Words(Size(item.sent)) \in Nat
    BY <2>2, SizeOfText, WordsPositive
  <2>4. IsText(item) => TextStart[item.peer] \in 3 .. 7
    BY <2>2, TextStartBound DEF IsText
  <2>5. OldWords(item) \in Nat
    BY <2>2, <2>3, <2>4, SMTT(30) DEF OldWords
  <2> QED
    BY <2>5 DEF item
<1>3. f \in [1 .. n -> Nat] /\ \A j \in 1 .. n : f[j] = 4 + OldWords(items[j])
  BY <1>1, <1>2 DEF OldItemWords, HeaderWords
<1>4. Total(f, n) \in Int
  <2> HIDE DEF f, n
  <2>1. f \in [1 .. n -> Int] /\ n \in 0 .. n
    BY <1>1, <1>3
  <2>2. Sums(f, n) \in [0 .. n -> Int]
    BY <1>1, <2>1, SumsAre DEF SumsOf
  <2> QED
    BY <2>1, <2>2 DEF Total
<1> QED
  BY <1>2, <1>3, <1>4

LEMMA EncryptStep ==
  ASSUME NEW b, OutOK(b), b.left = "no", NEW k \in Waiting(b), NEW n \in LastKeys,
         FillOptions(b.items[k].text) = "no",
         NEW text, text = EncryptMessage(b.items[k].text, n),
         NEW grown, grown = Words(Size(text)) - Words(Size(b.items[k].text)),
         NEW new, TextChanged(b.items, k, text, new),
         NEW c, c = [items |-> new, boxed |-> b.boxed, payload |-> b.payload,
                     at |-> RequestAt(b, k) + 4 * grown + 1, growth |-> b.growth + 4 * grown,
                     left |-> "no"]
  PROVE  OutOK(c) /\ c.items # <<>> /\ c.left = "no"
<1> DEFINE item == b.items[k]
           size == Size(item.sent)
<1>1. /\ b \in BufferSet /\ b.items \in Seq(ItemSet) /\ k \in DOMAIN b.items
      /\ DOMAIN b.items = 1 .. Len(b.items) /\ Len(b.items) \in Nat
      /\ IsText(item) /\ RequestAt(b, k) >= b.at /\ b.items # <<>>
  BY DEF OutOK, BufferSet, Waiting
<1>2. item \in ItemSet /\ item.text \in TextSet /\ item.sent \in TextSet
  <2>1. item \in ItemSet
    BY <1>1
  <2> HIDE DEF item
  <2> QED
    BY <2>1 DEF ItemSet
<1>3. item.text = item.sent /\ ~item.sent.sealed
  <2>1. SentAs(item.text, item.sent)
    BY <1>1 DEF OutOK, OutTexts
  <2> HIDE DEF item
  <2> QED
    BY <1>2, <2>1, SentText DEF item
<1>4. /\ size \in Nat /\ n \in Nat /\ text = EncryptMessage(Plain(size), n)
      /\ text \in TextSet /\ text.sealed
  <2>1. size \in Nat /\ n \in Nat
    BY <1>2, SizeOfText, KeysAreNat
  <2>2. text = EncryptMessage(Plain(size), n)
    <3>1. text = EncryptMessage(item.sent, n)
      BY <1>3
    <3> HIDE DEF item
    <3> QED
      BY <1>2, <2>1, <3>1, EncryptedBySize
  <2> HIDE DEF size
  <2> QED
    BY <2>1, <2>2, EncryptedText, ZenonT(30)
<1>5. text # item.sent
  BY <1>3, <1>4
<1>6. /\ new \in Seq(ItemSet) /\ Len(new) = Len(b.items) /\ DOMAIN new = DOMAIN b.items
      /\ \A j \in DOMAIN b.items : j # k => new[j] = b.items[j]
  BY DEF TextChanged
<1>7. /\ new[k].text = text /\ new[k].sent = item.sent /\ new[k].peer = item.peer
      /\ new[k].lead = item.lead /\ new[k].declared = item.declared
  BY DEF TextChanged
<1>17. /\ BodyWords(new[k]) = BodyWords(item) + grown
      /\ grown \in Int
      /\ \A j \in 0 .. Len(b.items) : Sums(ItemWords(new), Len(b.items))[j]
           = Sums(ItemWords(b.items), Len(b.items))[j] + IF j >= k THEN grown ELSE 0
  BY <1>1, <1>4, TextGrown
<1>8. \A j \in DOMAIN b.items :
        /\ new[j].sent = b.items[j].sent /\ new[j].peer = b.items[j].peer
        /\ new[j].lead = b.items[j].lead /\ new[j].declared = b.items[j].declared
  <2> QED
    BY <1>6, <1>7
<1>9. RequestAt(b, k) \in Nat
  BY <1>1, RequestPlace
<1> HIDE DEF size
<1>10. /\ c.items = new /\ c.boxed = b.boxed /\ c.payload = b.payload /\ c.left = "no"
       /\ c.at = RequestAt(b, k) + 4 * grown + 1 /\ c.growth = b.growth + 4 * grown
  OBVIOUS
<1>11. b.boxed \in BOOLEAN /\ b.payload \in Int /\ b.growth \in Int /\ b.at \in Int
  BY <1>1 DEF BufferSet
<1>12. c \in BufferSet
  <2>1. RequestAt(b, k) + 4 * grown + 1 \in Int /\ b.growth + 4 * grown \in Int
    BY <1>17, <1>9, <1>11
  <2> QED
    BY <1>6, <1>11, <2>1 DEF BufferSet
<1>13. OutTexts(c)
  <2>1. \A j \in DOMAIN b.items : SentAs(b.items[j].text, b.items[j].sent)
         /\ (~IsText(b.items[j]) => b.items[j].text = b.items[j].sent)
    BY DEF OutOK, OutTexts
  <2>2. SentAs(text, item.sent)
    BY <1>3, <1>4 DEF SentAs, Encrypted, size
  <2>3. ASSUME NEW j \in DOMAIN new
        PROVE  SentAs(new[j].text, new[j].sent) /\ (~IsText(new[j]) => new[j].text = new[j].sent)
    <3>1. CASE j = k
      BY <1>1, <1>7, <2>2, <3>1 DEF IsText
    <3>2. CASE j # k
      BY <1>6, <2>1, <2>3, <3>2
    <3> QED
      BY <3>1, <3>2
  <2> QED
    BY <1>10, <2>3 DEF OutTexts
<1>14. OutShape(c) /\ c.items # <<>>
  <2>1. new # <<>>
    BY <1>1, <1>6
  <2>2. /\ ~b.boxed => Len(b.items) = 1
        /\ Len(b.items) > 1 => \A j \in DOMAIN b.items : IsText(b.items[j]) => b.items[j].lead = 0
    BY <1>1 DEF OutOK, OutShape
  <2>3. Len(new) > 1 => \A j \in DOMAIN new : IsText(new[j]) => new[j].lead = 0
    BY <1>6, <1>8, <2>2 DEF IsText
  <2> QED
    BY <1>6, <1>10, <2>1, <2>2, <2>3 DEF OutShape
<1>15. OutLengths(c)
  <2> DEFINE m == Len(b.items)
  <2>1. /\ b.growth = Gain(b.items)
        /\ b.payload = PayloadLen(b.boxed, b.items) - b.growth
        /\ \A j \in DOMAIN b.items : b.items[j].declared = 4 * OldWords(b.items[j]) + 0
    BY <1>1 DEF OutOK, OutLengths
  <2>2. \A j \in DOMAIN b.items : OldWords(new[j]) = OldWords(b.items[j])
    BY <1>8 DEF OldWords, IsText
  <2>3. OldItemWords(new) = OldItemWords(b.items)
    BY <1>6, <2>2 DEF OldItemWords
  <2>4. m \in 1 .. m /\ m \in 0 .. m /\ m >= k
    BY <1>1
  <2>5. Total(ItemWords(new), m) = Total(ItemWords(b.items), m) + grown
    BY <1>17, <2>4 DEF Total
  <2>6. Total(ItemWords(b.items), m) \in Int
    BY <1>1, <2>4, SumsOfItems DEF Total
  <2> DEFINE old == Total(OldItemWords(b.items), m)
             was == Total(ItemWords(b.items), m)
  <2>7. Gain(b.items) = 4 * (was - old) /\ Gain(new) = 4 * ((was + grown) - old)
    BY <1>6, <2>3, <2>5 DEF Gain
  <2>12. old \in Int
    BY <1>1, WordsOfSent
  <2>8. c.growth = Gain(new)
    <3> HIDE DEF old, was
    <3>1. was \in Int
      BY <2>6 DEF was
    <3> QED
      BY <1>10, <1>17, <2>1, <2>7, <2>12, <3>1
  <2>9. PayloadLen(b.boxed, new) = PayloadLen(b.boxed, b.items) + 4 * grown
    <3>1. CASE b.boxed
      <4>1. m + 1 - 1 = m
        BY <1>1
      <4>2. /\ PayloadLen(b.boxed, new) = 4 * (2 + Total(ItemWords(new), m))
            /\ PayloadLen(b.boxed, b.items) = 4 * (2 + Total(ItemWords(b.items), m))
        BY <1>6, <3>1, <4>1 DEF PayloadLen, WordsBefore, Total
      <4> QED
        BY <1>17, <2>5, <2>6, <4>2
    <3>2. CASE ~b.boxed
      <4>1. m = 1 /\ k = 1
        BY <1>1, <3>2 DEF OutOK, OutShape
      <4>2. /\ PayloadLen(b.boxed, new) = 4 * BodyWords(new[k])
            /\ PayloadLen(b.boxed, b.items) = 4 * BodyWords(item)
        BY <3>2, <4>1 DEF PayloadLen
      <4>3. BodyWords(item) \in Int
        BY <1>2, BodyOfItem
      <4> HIDE DEF item
      <4> QED
        BY <1>17, <4>2, <4>3
    <3> QED
      BY <3>1, <3>2
  <2>13. PayloadLen(b.boxed, b.items) \in Int
    BY <1>1, PayloadOfItems
  <2>10. b.payload = PayloadLen(b.boxed, new) - c.growth
    BY <1>10, <1>11, <1>17, <2>1, <2>9, <2>13
  <2>11. ASSUME NEW j \in DOMAIN new
         PROVE  new[j].declared = 4 * OldWords(new[j]) + 0
    BY <1>6, <1>8, <2>1, <2>2
  <2> QED
    BY <1>10, <2>8, <2>10, <2>11 DEF OutLengths
<1>16. OutIndex(c)
  <2> DEFINE place(j) == RequestAt(b, j)
             changed(j) == b.items[j].text # b.items[j].sent
             old == Words(size)
             now == Words(Size(text))
  <2> SUFFICES ASSUME NoneShrinks(c)
               PROVE  /\ c.at >= 0
                      /\ \A j \in DOMAIN c.items : c.items[j].text # c.items[j].sent =>
                           /\ c.at > RequestAt(c, j)
                           /\ j + 1 \in DOMAIN c.items /\ IsText(c.items[j + 1])
                                /\ Size(c.items[j].sent) <= MaxKept => c.at > RequestAt(c, j + 1)
                      /\ \A j \in DOMAIN c.items : c.items[j].text # c.items[j].sent
                           /\ j + 1 \in DOMAIN c.items /\ Size(c.items[j].sent) <= MaxKept
                             => c.items[j + 1].text = c.items[j + 1].sent
    BY DEF OutIndex
  <2>1. NoneShrinks(b) /\ size <= MaxTelegramMessageLen
    BY <1>1, <1>6, <1>8, <1>10 DEF NoneShrinks, size
  <2>2. \A j \in DOMAIN b.items : changed(j) =>
          /\ b.at > place(j)
          /\ j + 1 \in DOMAIN b.items /\ IsText(b.items[j + 1])
               /\ Size(b.items[j].sent) <= MaxKept => b.at > place(j + 1)
    BY <2>1 DEF OutOK, OutIndex
  <2>3. \A j \in DOMAIN b.items : place(j) \in Nat
    BY <1>1, RequestPlace
  <2>4. \A i, j \in DOMAIN b.items : i < j => place(i) < place(j)
    BY <1>1, RequestsInOrder
  <2>5. place(k) >= b.at /\ b.at \in Int
    BY <1>1, <1>11
  <2> HIDE DEF place, changed
  <2>6. ASSUME NEW j \in DOMAIN b.items, changed(j) PROVE j < k
    <3>1. b.at > place(j) /\ place(j) \in Nat /\ place(k) \in Nat
      BY <1>1, <2>2, <2>3, <2>6
    <3>2. place(j) < place(k)
      BY <2>5, <3>1
    <3>3. ~(k < j) /\ j # k
      BY <1>1, <2>4, <3>1, <3>2
    <3> QED
      BY <1>1, <3>3
  <2>7. old \in Nat /\ now \in Nat /\ grown = now - old /\ now >= old
    <3>1. Size(text) \in Nat
      BY <1>4, SizeOfText
    <3>2. old \in Nat /\ now \in Nat
      BY <1>4, <3>1, WordsPositive
    <3>3. grown = now - old
      BY <1>3 DEF size
    <3>4. now >= old
      BY <1>4, <2>1, NeverShrinks
    <3> QED
      BY <3>2, <3>3, <3>4
  <2> HIDE DEF old, now
  <2>8. place(k) \in Nat /\ c.at > place(k) /\ c.at = place(k) + 4 * grown + 1 /\ c.at \in Int
    <3>1. place(k) \in Nat
      BY <1>1, <2>3
    <3>2. c.at = place(k) + 4 * grown + 1
      BY <1>10 DEF place
    <3> QED
      BY <2>7, <3>1, <3>2
  <2>9. \A j \in DOMAIN b.items : j <= k => RequestAt(c, j) = place(j)
    <3> SUFFICES ASSUME NEW j \in DOMAIN b.items, j <= k PROVE RequestAt(c, j) = place(j)
      OBVIOUS
    <3>1. j - 1 \in 0 .. Len(b.items) /\ ~(j - 1 >= k)
      BY <1>1
    <3>2. Sums(ItemWords(new), Len(b.items))[j - 1] = Sums(ItemWords(b.items), Len(b.items))[j - 1]
      <4>1. Sums(ItemWords(b.items), Len(b.items))[j - 1] \in Nat
        BY <1>1, <3>1, SumsOfItems
      <4> QED
        BY <1>17, <3>1, <4>1
    <3>3. new[j].lead = b.items[j].lead
      BY <1>8
    <3> QED
      BY <1>6, <1>10, <3>2, <3>3 DEF RequestAt, WordsBefore, place
  <2>10. \A j \in DOMAIN b.items : j <= k => c.at > RequestAt(c, j)
    <3> SUFFICES ASSUME NEW j \in DOMAIN b.items, j <= k PROVE c.at > RequestAt(c, j)
      OBVIOUS
    <3>1. place(j) <= place(k) /\ place(j) \in Nat
      <4>1. CASE j = k
        BY <2>8, <4>1
      <4>2. CASE j # k
        <5>1. j < k
          BY <1>1, <4>2
        <5> QED
          BY <1>1, <2>3, <2>4, <2>8, <5>1
      <4> QED
        BY <4>1, <4>2
    <3> QED
      BY <2>8, <2>9, <3>1
  <2>11. ASSUME k + 1 \in DOMAIN b.items, IsText(b.items[k + 1]), size <= MaxKept
         PROVE  c.at > RequestAt(c, k + 1)
    <3>1. Len(b.items) > 1
      BY <1>1, <2>11
    <3>2. item.lead = 0 /\ b.items[k + 1].lead = 0
      BY <1>1, <2>11, <3>1 DEF OutOK, OutShape
    <3>3. new[k].lead = 0 /\ new[k + 1].lead = 0
      BY <1>1, <1>8, <2>11, <3>2
    <3>4. BodyWords(new[k]) = TextStart[item.peer] + now + 2 /\ TextStart[item.peer] \in 3 .. 7
      <4>1. TextStart[item.peer] \in 3 .. 7
        BY <1>1, <1>2, BodyOfItem
      <4>2. IsText(new[k])
        BY <1>1, <1>7 DEF IsText
      <4>3. BodyWords(new[k]) = 0 + TextStart[item.peer] + now + 2
        BY <1>7, <3>3, <4>2 DEF BodyWords, now
      <4> QED
        BY <2>7, <4>1, <4>3
    <3>5. RequestAt(c, k + 1) = RequestAt(c, k) - 0 + 4 + BodyWords(new[k]) + 0
      <4>1. k \in DOMAIN c.items /\ k + 1 \in DOMAIN c.items
        BY <1>1, <1>6, <1>10, <2>11
      <4>2. RequestAt(c, k + 1) = RequestAt(c, k) - c.items[k].lead + 4
                                    + BodyWords(c.items[k]) + c.items[k + 1].lead
        BY <1>12, <4>1, NextRequest
      <4> QED
        BY <1>10, <3>3, <4>2
    <3>6. RequestAt(c, k) = place(k)
      BY <1>1, <2>9
    <3>7. 3 * now > 4 * old + 12
      BY <1>4, <2>11, GrowsFar DEF now, old
    <3> DEFINE start == TextStart[item.peer]
    <3> HIDE DEF start
    <3>8. start \in 3 .. 7 /\ BodyWords(new[k]) = start + now + 2
      BY <3>4 DEF start
    <3> QED
      BY <2>7, <2>8, <3>5, <3>6, <3>7, <3>8
  <2>12. ASSUME NEW j \in DOMAIN b.items, new[j].text # new[j].sent
         PROVE  j <= k /\ (j # k => changed(j) /\ j < k)
    <3>1. CASE j = k
      BY <1>1, <3>1
    <3>2. CASE j # k
      <4>1. changed(j)
        BY <1>6, <2>12, <3>2 DEF changed
      <4> QED
        BY <1>1, <2>6, <3>2, <4>1
    <3> QED
      BY <3>1, <3>2
  <2>13. ASSUME NEW j \in DOMAIN b.items, new[j].text # new[j].sent, j + 1 \in DOMAIN b.items,
                IsText(b.items[j + 1]), Size(b.items[j].sent) <= MaxKept
         PROVE  c.at > RequestAt(c, j + 1) /\ (j # k => j + 1 # k)
    <3>1. CASE j = k
      BY <2>11, <2>13, <3>1 DEF size
    <3>2. CASE j # k
      <4>1. changed(j) /\ j < k
        BY <2>12, <2>13, <3>2
      <4>2. j + 1 <= k
        BY <1>1, <4>1
      <4>3. b.at > place(j + 1)
        BY <2>2, <2>13, <4>1
      <4>4. j + 1 # k
        BY <2>5, <2>8, <4>3
      <4> QED
        BY <2>10, <2>13, <4>2, <4>4
    <3> QED
      BY <3>1, <3>2
  <2>14. ASSUME NEW j \in DOMAIN b.items, new[j].text # new[j].sent, j + 1 \in DOMAIN b.items,
                Size(b.items[j].sent) <= MaxKept
         PROVE  new[j + 1].text = new[j + 1].sent
    <3>1. CASE ~IsText(b.items[j + 1])
      <4>1. ~IsText(new[j + 1])
        BY <1>8, <2>14, <3>1 DEF IsText
      <4> QED
        BY <1>6, <1>10, <1>13, <2>14, <4>1 DEF OutTexts
    <3>2. CASE IsText(b.items[j + 1])
      <4>1. j + 1 # k
        BY <1>1, <2>13, <2>14, <3>2
      <4>2. new[j + 1].text # new[j + 1].sent => FALSE
        <5> SUFFICES ASSUME new[j + 1].text # new[j + 1].sent PROVE FALSE
          OBVIOUS
        <5>1. changed(j + 1) /\ j + 1 < k
          BY <2>12, <2>14, <4>1
        <5>2. changed(j)
          BY <1>1, <2>12, <2>14, <5>1
        <5> QED
          BY <2>1, <2>14, <5>1, <5>2 DEF OutOK, OutIndex, changed
      <4> QED
        BY <4>2
    <3> QED
      BY <3>1, <3>2
  <2>15. c.at >= 0
    BY <2>8
  <2>16. \A j \in DOMAIN new : new[j].text # new[j].sent => c.at > RequestAt(c, j)
    BY <1>6, <2>10, <2>12
  <2>17. \A j \in DOMAIN new : new[j].text # new[j].sent /\ j + 1 \in DOMAIN new
           /\ IsText(new[j + 1]) /\ Size(new[j].sent) <= MaxKept => c.at > RequestAt(c, j + 1)
    BY <1>6, <1>8, <2>13 DEF IsText
  <2>18. \A j \in DOMAIN new : new[j].text # new[j].sent /\ j + 1 \in DOMAIN new
           /\ Size(new[j].sent) <= MaxKept => new[j + 1].text = new[j + 1].sent
    BY <1>6, <1>8, <2>14
  <2>19. c.items = new
    BY <1>10
  <2> QED
    BY <2>15, <2>16, <2>17, <2>18, <2>19
<1> QED
  BY <1>10, <1>12, <1>13, <1>14, <1>15, <1>16 DEF OutOK

(* What is packed has the lengths it says.                                 *)
Fresh(item) ==
  /\ item \in ItemSet /\ item.text = item.sent /\ ~item.sent.sealed
  /\ item.declared = 4 * BodyWords(item)

LEMMA FreshItem ==
  ASSUME NEW text \in TextSet, ~text.sealed, NEW peer \in Peers \cup {"none"},
         NEW keyed \in BOOLEAN, NEW lead \in Nat
  PROVE  /\ Fresh(Item(text, peer, keyed, lead))
         /\ Item(text, peer, keyed, lead).peer = peer
         /\ Item(text, peer, keyed, lead).lead = lead
<1> DEFINE blank == [text |-> text, sent |-> text, peer |-> peer, keyed |-> keyed,
                     lead |-> lead, declared |-> 0]
           len == 4 * BodyWords(blank)
           item == [text |-> text, sent |-> text, peer |-> peer, keyed |-> keyed,
                    lead |-> lead, declared |-> len]
<1>1. blank \in ItemSet
  BY DEF ItemSet
<1>2. BodyWords(blank) \in Nat
  <2> HIDE DEF blank
  <2> QED
    BY <1>1, BodyOfItem
<1>3. BodyWords(item) = BodyWords(blank)
  <2>1. item.peer = blank.peer /\ item.text = blank.text /\ item.lead = blank.lead
    BY Zenon
  <2> HIDE DEF item, blank
  <2> QED
    BY <2>1 DEF BodyWords, IsText
<1>4. Item(text, peer, keyed, lead) = item
  BY DEF Item
<1>5. len \in Int
  BY <1>2
<1>6. item.declared = len /\ len = 4 * BodyWords(item)
  BY <1>3
<1> HIDE DEF len
<1>7. item \in ItemSet
  BY <1>5 DEF ItemSet
<1>8. item.text = item.sent /\ ~item.sent.sealed /\ item.peer = peer /\ item.lead = lead
  OBVIOUS
<1> HIDE DEF item
<1> QED
  BY <1>4, <1>6, <1>7, <1>8 DEF Fresh

(* Whatever a user writes or starts an exchange with is not sealed.        *)
LEMMA StartText ==
  ASSUME NEW nums \in [1 .. 4 -> Int]
  PROVE  /\ GetTextWithOptions(nums, FALSE, 28, 28) \in TextSet
         /\ ~GetTextWithOptions(nums, FALSE, 28, 28).sealed
<1> DEFINE t == GetTextWithOptions(nums, FALSE, 28, 28)
<1>2. PrefixLen(nums) \in 21 .. 61
  BY PrefixOfInts
<1>3. Min({28, MaxTelegramMessageLen - 1 - PrefixLen(nums)}) = 28
  <2> DEFINE rest == MaxTelegramMessageLen - 1 - PrefixLen(nums)
  <2>1. rest \in Int /\ 28 <= rest
    BY <1>2 DEF MaxTelegramMessageLen
  <2> HIDE DEF rest
  <2>2. Min({28, rest}) = 28
    BY <2>1 DEF Min
  <2> QED
    BY <2>2 DEF rest
<1> DEFINE text(size) == [nums |-> nums, sealed |-> FALSE, body |-> size, full |-> 28,
                          clear |-> 28, beyond |-> FALSE]
<1>4. t = text(Min({28, MaxTelegramMessageLen - 1 - PrefixLen(nums)}))
  BY Zenon DEF GetTextWithOptions
<1>5. t = text(28)
  <2> HIDE DEF text, t
  <2> QED
    BY ONLY <1>3, <1>4
<1> HIDE DEF t
<1>6. t \in TextSet /\ ~t.sealed
  BY <1>5 DEF TextSet
<1> QED
  BY <1>6 DEF t

LEMMA WrittenTexts ==
  ASSUME NEW text \in Written \cup Started \cup {Lookalike}
  PROVE  text \in TextSet /\ ~text.sealed
<1>1. CASE text \in Written
  <2>1. PICK size \in TextSizes : text = Plain(size)
    BY <1>1 DEF Written
  <2>2. size \in Nat
    BY WireAssumption
  <2> QED
    BY <2>1, <2>2, PlainText
<1>2. CASE text \in Started
  <2> DEFINE T(last, pos) ==
               GetTextWithOptions(<<NextKeyN(0), NextKeyN(last), pos, 2048>>, FALSE, 28, 28)
  <2>1. \A last \in LastKeys, pos \in -1 .. LastPosition :
          T(last, pos) \in TextSet /\ ~T(last, pos).sealed
    <3> SUFFICES ASSUME NEW last \in LastKeys, NEW pos \in -1 .. LastPosition
                 PROVE  T(last, pos) \in TextSet /\ ~T(last, pos).sealed
      OBVIOUS
    <3>1. last \in Nat /\ pos \in Int
      BY KeysAreNat, WireAssumption
    <3> DEFINE nums == <<NextKeyN(0), NextKeyN(last), pos, 2048>>
    <3>2. nums \in [1 .. 4 -> Int]
      <4>1. NextKeyN(0) \in Int /\ NextKeyN(last) \in Int
        BY <3>1 DEF NextKeyN, IntMax, IntMin
      <4> QED
        BY <3>1, <4>1
    <3> HIDE DEF nums
    <3>3. /\ GetTextWithOptions(nums, FALSE, 28, 28) \in TextSet
          /\ ~GetTextWithOptions(nums, FALSE, 28, 28).sealed
      BY <3>2, StartText
    <3> QED
      BY <3>3 DEF nums
  <2>2. Started = {T(last, pos) : last \in LastKeys, pos \in -1 .. LastPosition}
    BY DEF Started
  <2> HIDE DEF T
  <2> QED
    BY <1>2, <2>1, <2>2
<1>3. CASE text = Lookalike
  <2> DEFINE zeros == <<0, 0, 0, 0>>
  <2>1. zeros \in [1 .. 4 -> Int]
    OBVIOUS
  <2>2. Plain(28) \in TextSet /\ ~Plain(28).sealed
    BY PlainText
  <2>3. Lookalike = [Plain(28) EXCEPT !.nums = zeros, !.beyond = TRUE]
    BY DEF Lookalike
  <2> HIDE DEF zeros
  <2>4. Lookalike \in TextSet /\ ~Lookalike.sealed
    BY ONLY <2>1, <2>2, <2>3 DEF TextSet
  <2> QED
    BY <1>3, <2>4
<1> QED
  BY <1>1, <1>2, <1>3

LEMMA PackStep ==
  ASSUME NEW items \in Seq(ItemSet), items # <<>>, NEW boxed \in BOOLEAN,
         \A k \in DOMAIN items : Fresh(items[k]),
         ~boxed => Len(items) = 1,
         Len(items) > 1 => \A k \in DOMAIN items : IsText(items[k]) => items[k].lead = 0,
         NEW c, c = [items |-> items, boxed |-> boxed, payload |-> PayloadLen(boxed, items),
                     at |-> FirstBody(boxed), growth |-> 0, left |-> "no"]
  PROVE  OutOK(c)
<1>1. /\ c.items = items /\ c.boxed = boxed /\ c.payload = PayloadLen(boxed, items)
      /\ c.at = FirstBody(boxed) /\ c.growth = 0 /\ c.left = "no"
  OBVIOUS
<1>2. PayloadLen(boxed, items) \in Int /\ FirstBody(boxed) \in Nat
  BY PayloadOfItems DEF FirstBody
<1>3. c \in BufferSet
  BY <1>2 DEF BufferSet
<1>4. \A k \in DOMAIN items : /\ items[k] \in ItemSet /\ items[k].text = items[k].sent
                              /\ ~items[k].sent.sealed
                              /\ items[k].declared = 4 * BodyWords(items[k])
  BY DEF Fresh
<1>5. OutTexts(c)
  BY <1>1, <1>4 DEF OutTexts, SentAs
<1>6. OutShape(c)
  BY <1>1, <1>2 DEF OutShape
<1>7. \A k \in DOMAIN items : OldWords(items[k]) = BodyWords(items[k])
  BY <1>4 DEF OldWords, BodyWords
<1>8. OutLengths(c)
  <2>1. OldItemWords(items) = ItemWords(items)
    BY <1>7 DEF OldItemWords, ItemWords
  <2> DEFINE total == Total(ItemWords(items), Len(items))
  <2>2. total \in Int
    BY <2>1, WordsOfSent
  <2>3. Gain(items) = 4 * (total - total)
    BY <2>1 DEF Gain
  <2> HIDE DEF total
  <2>4. Gain(items) = 0
    BY <2>2, <2>3
  <2>5. \A k \in DOMAIN items : items[k].declared = 4 * OldWords(items[k]) + 0
    <3> SUFFICES ASSUME NEW k \in DOMAIN items
                 PROVE  items[k].declared = 4 * OldWords(items[k]) + 0
      OBVIOUS
    <3>1. BodyWords(items[k]) \in Nat
      BY <1>4, BodyOfItem
    <3> QED
      BY <1>4, <1>7, <3>1
  <2>6. c.payload = PayloadLen(boxed, items) - 0
    BY <1>1, <1>2
  <2> QED
    BY <1>1, <2>4, <2>5, <2>6 DEF OutLengths
<1>9. OutIndex(c)
  BY <1>1, <1>2, <1>4 DEF OutIndex
<1> QED
  BY <1>3, <1>5, <1>6, <1>8, <1>9 DEF OutOK

LEMMA ReturnStep ==
  ASSUME NEW b, OutOK(b), b.items # <<>>, b.left = "no", b.at >= 0,
         NEW c, c = [b EXCEPT !.left = "return"]
  PROVE  OutOK(c) /\ c.items = b.items
<1>1. b \in BufferSet
  BY DEF OutOK
<1>2. /\ c \in BufferSet /\ c.items = b.items /\ c.boxed = b.boxed /\ c.payload = b.payload
      /\ c.at = b.at /\ c.growth = b.growth /\ c.left = "return"
  BY <1>1 DEF BufferSet
<1>3. OutTexts(c) /\ OutShape(c) /\ OutLengths(c)
  BY <1>1, <1>2 DEF OutOK, OutTexts, OutShape, OutLengths, BufferSet
<1>4. OutIndex(c)
  <2>1. NoneShrinks(c) <=> NoneShrinks(b)
    BY <1>2 DEF NoneShrinks
  <2>2. \A k : RequestAt(c, k) = RequestAt(b, k)
    BY <1>2 DEF RequestAt
  <2> QED
    BY <1>2, <2>1, <2>2 DEF OutOK, OutIndex
<1> QED
  BY <1>2, <1>3, <1>4 DEF OutOK

(* The loop ends: `growth` is added to the length of the payload and, in a
   container, of the first message.                                        *)
HeadChanged(items, len, new) ==
  /\ new \in Seq(ItemSet) /\ Len(new) = Len(items) /\ DOMAIN new = DOMAIN items
  /\ \A j \in DOMAIN items :
       /\ new[j].text = items[j].text /\ new[j].sent = items[j].sent
       /\ new[j].peer = items[j].peer /\ new[j].lead = items[j].lead
       /\ new[j].declared = IF j = 1 THEN len ELSE items[j].declared

LEMMA HeadReplaced ==
  ASSUME NEW items \in Seq(ItemSet), items # <<>>, NEW len \in Int
  PROVE  HeadChanged(items, len, [items EXCEPT ![1].declared = len])
<1> DEFINE item == items[1]
           changed == [item EXCEPT !.declared = len]
           new == [items EXCEPT ![1].declared = len]
<1>1. item \in ItemSet /\ 1 \in DOMAIN items /\ DOMAIN items = 1 .. Len(items)
  OBVIOUS
<1>2. /\ changed \in ItemSet /\ changed.text = item.text /\ changed.sent = item.sent
      /\ changed.peer = item.peer /\ changed.lead = item.lead /\ changed.declared = len
  <2> HIDE DEF item
  <2> QED
    BY <1>1 DEF ItemSet
<1>3. new = [items EXCEPT ![1] = changed]
  OBVIOUS
<1> HIDE DEF changed, item
<1>4. /\ new \in Seq(ItemSet) /\ Len(new) = Len(items) /\ DOMAIN new = DOMAIN items
      /\ \A j \in DOMAIN items : j # 1 => new[j] = items[j]
      /\ new[1] = changed
  <2> HIDE DEF new
  <2> QED
    BY <1>1, <1>2, <1>3
<1> HIDE DEF new
<1>5. ASSUME NEW j \in DOMAIN items
      PROVE  /\ new[j].text = items[j].text /\ new[j].sent = items[j].sent
             /\ new[j].peer = items[j].peer /\ new[j].lead = items[j].lead
             /\ new[j].declared = IF j = 1 THEN len ELSE items[j].declared
  <2>1. CASE j = 1
    BY <1>2, <1>4, <2>1 DEF item
  <2>2. CASE j # 1
    BY <1>4, <2>2
  <2> QED
    BY <2>1, <2>2
<1> QED
  BY <1>4, <1>5 DEF HeadChanged, new

LEMMA EndStep ==
  ASSUME NEW b, OutOK(b), b.items # <<>>, b.left = "no", b.at >= 0,
         NEW new, HeadChanged(b.items, IF b.boxed THEN b.items[1].declared + b.growth
                                       ELSE b.items[1].declared, new),
         NEW c, c = [items |-> new, boxed |-> b.boxed, payload |-> b.payload + b.growth,
                     at |-> b.at, growth |-> b.growth, left |-> "end"]
  PROVE  OutOK(c) /\ c.items # <<>>
<1> DEFINE items == b.items
<1>1. /\ items \in Seq(ItemSet) /\ DOMAIN items = 1 .. Len(items) /\ Len(items) \in Nat
      /\ b.boxed \in BOOLEAN /\ b.payload \in Int /\ b.growth \in Int /\ b.at \in Int
      /\ items # <<>>
  BY DEF OutOK, BufferSet
<1>2. /\ new \in Seq(ItemSet) /\ Len(new) = Len(items) /\ DOMAIN new = DOMAIN items
      /\ \A j \in DOMAIN items :
           /\ new[j].text = items[j].text /\ new[j].sent = items[j].sent
           /\ new[j].peer = items[j].peer /\ new[j].lead = items[j].lead
           /\ j = 1 => new[j].declared = IF b.boxed THEN items[1].declared + b.growth
                                         ELSE items[1].declared
           /\ j # 1 => new[j].declared = items[j].declared
  BY DEF HeadChanged
<1>3. /\ c.items = new /\ c.boxed = b.boxed /\ c.payload = b.payload + b.growth
      /\ c.at = b.at /\ c.growth = b.growth /\ c.left = "end"
  OBVIOUS
<1>4. c \in BufferSet
  BY <1>1, <1>2 DEF BufferSet
<1>5. new # <<>>
  BY <1>1, <1>2
<1>6. \A j \in DOMAIN items : /\ BodyWords(new[j]) = BodyWords(items[j])
                              /\ OldWords(new[j]) = OldWords(items[j])
                              /\ IsText(new[j]) <=> IsText(items[j])
  BY <1>2 DEF BodyWords, OldWords, IsText
<1>7. ItemWords(new) = ItemWords(items) /\ OldItemWords(new) = OldItemWords(items)
  BY <1>2, <1>6 DEF ItemWords, OldItemWords
<1>8. Gain(new) = Gain(items) /\ PayloadLen(b.boxed, new) = PayloadLen(b.boxed, items)
  <2>1. Gain(new) = Gain(items)
    BY <1>2, <1>7 DEF Gain
  <2>2. 1 \in DOMAIN items
    BY <1>1
  <2>3. BodyWords(new[1]) = BodyWords(items[1])
    BY <1>6, <2>2
  <2>4. WordsBefore(new, Len(new) + 1) = WordsBefore(items, Len(items) + 1)
    BY <1>2, <1>7 DEF WordsBefore
  <2> QED
    BY <2>1, <2>3, <2>4 DEF PayloadLen
<1>9. OutTexts(c)
  <2>1. \A k \in DOMAIN items : SentAs(items[k].text, items[k].sent)
          /\ (~IsText(items[k]) => items[k].text = items[k].sent)
    BY DEF OutOK, OutTexts
  <2> QED
    BY <1>2, <1>3, <1>6, <2>1 DEF OutTexts
<1>10. OutShape(c)
  <2>1. /\ ~b.boxed => Len(items) = 1
        /\ Len(items) > 1 => \A k \in DOMAIN items : IsText(items[k]) => items[k].lead = 0
    BY <1>1 DEF OutOK, OutShape
  <2>2. ~(c.at < 0)
    BY <1>1, <1>3
  <2>3. Len(new) > 1 => \A k \in DOMAIN new : IsText(new[k]) => new[k].lead = 0
    BY <1>2, <1>6, <2>1
  <2> QED
    BY <1>1, <1>2, <1>3, <1>5, <2>1, <2>2, <2>3 DEF OutShape
<1>11. OutLengths(c)
  <2>1. /\ b.growth = Gain(items) /\ b.payload = PayloadLen(b.boxed, items) - b.growth
        /\ \A k \in DOMAIN items : items[k].declared = 4 * OldWords(items[k]) + 0
    BY <1>1 DEF OutOK, OutLengths
  <2>2. PayloadLen(b.boxed, items) \in Int
    BY <1>1, PayloadOfItems
  <2>3. c.payload = PayloadLen(b.boxed, new) - 0
    BY <1>1, <1>3, <1>8, <2>1, <2>2
  <2>4. ASSUME NEW k \in DOMAIN new
        PROVE  new[k].declared = 4 * OldWords(new[k]) + IF b.boxed /\ k = 1 THEN b.growth ELSE 0
    <3>1. OldWords(items[k]) \in Nat
      BY <1>1, <1>2, WordsOfSent
    <3>2. items[k].declared = 4 * OldWords(items[k]) /\ OldWords(new[k]) = OldWords(items[k])
      BY <1>2, <1>6, <2>1, <3>1
    <3>3. CASE k = 1
      <4>1. new[k].declared = IF b.boxed THEN items[k].declared + b.growth ELSE items[k].declared
        BY <1>2, <3>3
      <4> DEFINE old == OldWords(items[k])
                 was == items[k].declared
      <4> HIDE DEF old, was
      <4>2. was = 4 * old /\ old \in Nat /\ OldWords(new[k]) = old
        BY <3>1, <3>2 DEF old, was
      <4>3. new[k].declared = IF b.boxed THEN was + b.growth ELSE was
        BY <4>1 DEF was
      <4> QED
        BY <1>1, <3>3, <4>2, <4>3
    <3>4. CASE k # 1
      BY <1>2, <3>1, <3>2, <3>4
    <3> QED
      BY <3>3, <3>4
  <2> QED
    BY <1>3, <1>8, <2>1, <2>3, <2>4 DEF OutLengths
<1>12. OutIndex(c)
  <2>1. NoneShrinks(c) <=> NoneShrinks(b)
    BY <1>2, <1>3 DEF NoneShrinks
  <2>2. \A k \in DOMAIN items : RequestAt(c, k) = RequestAt(b, k)
    BY <1>2, <1>3, <1>7 DEF RequestAt, WordsBefore
  <2>3. NoneShrinks(b) =>
          /\ b.at >= 0
          /\ \A k \in DOMAIN items : items[k].text # items[k].sent =>
               /\ b.at > RequestAt(b, k)
               /\ k + 1 \in DOMAIN items /\ IsText(items[k + 1])
                    /\ Size(items[k].sent) <= MaxKept => b.at > RequestAt(b, k + 1)
          /\ \A k \in DOMAIN items : items[k].text # items[k].sent
               /\ k + 1 \in DOMAIN items /\ Size(items[k].sent) <= MaxKept
                 => items[k + 1].text = items[k + 1].sent
    BY DEF OutOK, OutIndex
  <2> QED
    BY <1>2, <1>3, <1>6, <2>1, <2>2, <2>3 DEF OutIndex
<1> QED
  BY <1>3, <1>4, <1>5, <1>9, <1>10, <1>11, <1>12 DEF OutOK

LEMMA RewindStep ==
  ASSUME NEW b, OutOK(b), b.at < 0, NEW c, c = [b EXCEPT !.at = 0]
  PROVE  OutOK(c) /\ c.items = b.items /\ c.left = b.left
<1>1. b \in BufferSet
  BY DEF OutOK
<1>2. /\ c \in BufferSet /\ c.items = b.items /\ c.boxed = b.boxed /\ c.payload = b.payload
      /\ c.at = 0 /\ c.growth = b.growth /\ c.left = b.left
  BY <1>1 DEF BufferSet
<1>3. b.items # <<>>
  BY DEF OutOK, OutShape, NoBuffer
<1>4. ~NoneShrinks(c)
  <2>1. ~NoneShrinks(b)
    BY <1>1 DEF OutOK, OutIndex, BufferSet
  <2> QED
    BY <1>2, <2>1 DEF NoneShrinks
<1> QED
  BY <1>2, <1>3, <1>4 DEF OutOK, OutTexts, OutShape, OutLengths, OutIndex

(* What decrypt_the_message does with a text that is in the buffer.        *)
LEMMA Outcomes ==
  ASSUME NEW t \in TextSet, t.sealed => Encrypted(t, t.clear)
  PROVE  /\ Outcome(t) = "stoi" => t.beyond
         /\ Outcome(t) = "throws" => t.clear > MaxKept
         /\ ~Lost(Outcome(t)) =>
              /\ Outcome(t) \in {"same", "clear"}
              /\ Padded(Decrypted(t)) \in TextSet
              /\ t.sealed => /\ t.clear <= MaxKept /\ Outcome(t) = "clear"
                             /\ Size(Padded(Decrypted(t))) = Max({3, t.clear})
<1>1. ASSUME NEW u \in TextSet
      PROVE  Padded(u) \in TextSet
  BY <1>1 DEF Padded, TextSet
<1>2. CASE ~t.sealed
  <2>1. Decrypted(t) = t
    BY <1>2 DEF Decrypted
  <2>2. Outcome(t) = IF FillOptions(t) = "throws" THEN "stoi" ELSE "same"
    BY <1>2 DEF Outcome
  <2>3. FillOptions(t) = "throws" => t.beyond
    BY DEF FillOptions
  <2> QED
    BY <1>1, <1>2, <2>1, <2>2, <2>3 DEF Lost
<1>3. CASE t.sealed
  <2> DEFINE len == t.clear
  <2>1. PICK n \in LastKeys : t = EncryptMessage(Plain(len), n)
    BY <1>3 DEF Encrypted
  <2>2. n \in Nat /\ len \in Nat
    BY KeysAreNat DEF TextSet
  <2>3. FillOptions(t) = "yes"
    <3> HIDE DEF len
    <3> QED
      BY <2>1, <2>2, EncryptedText
  <2>4. DecryptMessage(t) = IF len <= MaxKept THEN "clear" ELSE "throws"
    <3> HIDE DEF len
    <3> QED
      BY <2>1, <2>2, DecryptedText
  <2>5. Outcome(t) = IF len <= MaxKept THEN "clear" ELSE "throws"
    BY <1>3, <2>3, <2>4 DEF Outcome
  <2>6. Decrypted(t) = Plain(len) /\ Plain(len) \in TextSet
    BY <1>3, <2>2, PlainText DEF Decrypted
  <2>7. Size(Padded(Plain(len))) = Max({3, len})
    <3> HIDE DEF len
    <3>1. Size(Plain(len)) = len /\ Plain(len).nums = <<>>
      BY <2>2, PlainText DEF Plain
    <3>2. Max({3, len}) = IF len < 3 THEN 3 ELSE len
      BY <2>2 DEF Max
    <3>3. CASE len < 3
      <4> DEFINE u == [Plain(len) EXCEPT !.body = 3]
      <4>1. Padded(Plain(len)) = u
        BY <3>1, <3>3 DEF Padded
      <4>2. u.nums = <<>> /\ u.body = 3
        BY DEF Plain
      <4> HIDE DEF u
      <4>3. Size(u) = 3
        BY <4>2 DEF Size
      <4> QED
        BY <3>2, <3>3, <4>1, <4>3
    <3>4. CASE ~(len < 3)
      <4>1. Padded(Plain(len)) = Plain(len)
        BY <3>1, <3>4 DEF Padded
      <4> QED
        BY <3>1, <3>2, <3>4, <4>1
    <3> QED
      BY <3>3, <3>4
  <2>8. Outcome(t) = "throws" => t.clear > MaxKept
    BY <2>2, <2>5 DEF MaxKept
  <2>9. ~Lost(Outcome(t)) => len <= MaxKept /\ Outcome(t) = "clear"
    BY <2>5 DEF Lost
  <2>10. Outcome(t) # "stoi"
    BY <2>5
  <2>11. Padded(Decrypted(t)) \in TextSet /\ Size(Padded(Decrypted(t))) = Max({3, len})
    BY <1>1, <2>6, <2>7
  <2> QED
    BY <2>8, <2>9, <2>10, <2>11
<1> QED
  BY <1>2, <1>3

-----------------------------------------------------------------------------
(* How a buffer is gone through, of which only this is known: message k stands
   from S[k] on; those in K are recognised, those in R have been read, up to
   E[k], and M are those of them in which something else was taken for the
   text; `at` is the place looked at.  The `others` are what follows a text in
   a list that is not gone through word by word.                           *)

Ascending(n, S) ==
  /\ n \in Nat /\ S \in [1 .. n -> Nat]
  /\ \A j, k \in 1 .. n : j < k => S[j] < S[k]

InOrder(S, E, R, at) ==
  /\ \A j \in R : E[j] <= at
  /\ \A j, k \in R : j < k => E[j] <= S[k]

(* Nothing recognised is left behind, but for what was jumped over.        *)
AllSeen(S, E, K, R, M, at, left) ==
  \A k \in K : /\ S[k] < at => k \in R \/ \E j \in M : j < k /\ E[j] > S[k]
               /\ left # "no" => S[k] < at

(* What is read is the first or follows something that was read.           *)
Follows(S, E, R, wrap, k) == k = 1 \/ (wrap # "none" /\ \E j \in R : E[j] = S[k])
OneAfterAnother(S, E, K, R, at, wrap, left) ==
  /\ left = "no" => at = 0 \/ (wrap # "none" /\ \E j \in R : E[j] = at)
  /\ \A k \in R : Follows(S, E, R, wrap, k)
  /\ \A k \in K : Follows(S, E, R, wrap, k) => k \in R \/ (S[k] = at /\ left = "no")

(* Message k is read next, up to F[k].                                     *)
ReadNext(n, S, E, F, R, at, k) ==
  /\ Ascending(n, S) /\ E \in [1 .. n -> Nat] /\ F \in [1 .. n -> Nat]
  /\ R \in SUBSET (1 .. n) /\ \A j \in R : S[j] < E[j]
  /\ at \in Nat /\ InOrder(S, E, R, at)
  /\ k \in 1 .. n /\ at <= S[k] /\ S[k] < F[k] /\ \A j \in 1 .. n : j # k => F[j] = E[j]

LEMMA ReadInOrder ==
  ASSUME NEW n, NEW S, NEW E, NEW F, NEW R, NEW at, NEW k, ReadNext(n, S, E, F, R, at, k)
  PROVE  /\ k \notin R /\ InOrder(S, F, R \cup {k}, F[k])
         /\ \A j \in R : F[j] = E[j] /\ j < k
<1>1. /\ n \in Nat /\ S \in [1 .. n -> Nat] /\ \A i, j \in 1 .. n : i < j => S[i] < S[j]
      /\ E \in [1 .. n -> Nat] /\ F \in [1 .. n -> Nat]
      /\ R \in SUBSET (1 .. n) /\ \A j \in R : S[j] < E[j]
      /\ at \in Nat /\ InOrder(S, E, R, at)
      /\ k \in 1 .. n /\ at <= S[k] /\ S[k] < F[k] /\ \A j \in 1 .. n : j # k => F[j] = E[j]
  BY DEF ReadNext, Ascending
<1>2. ASSUME NEW j \in R PROVE E[j] <= at /\ S[j] < S[k]
  BY <1>1, <1>2 DEF InOrder
<1>3. ASSUME NEW j \in R PROVE j < k
  <2>1. j \in 1 .. n /\ S[j] \in Nat /\ S[k] \in Nat /\ S[j] < S[k]
    BY <1>1, <1>2
  <2>2. ~(k < j) /\ j # k
    BY <1>1, <2>1
  <2> QED
    BY <1>1, <2>1, <2>2
<1>4. k \notin R
  BY <1>1, <1>3
<1>5. \A j \in R : F[j] = E[j] /\ j < k
  BY <1>1, <1>3, <1>4
<1>6. \A j \in R \cup {k} : F[j] <= F[k]
  BY <1>1, <1>2, <1>5
<1>7. ASSUME NEW i \in R \cup {k}, NEW j \in R \cup {k}, i < j PROVE F[i] <= S[j]
  <2>1. i \in R
    <3>1. \A l \in R \cup {k} : l <= k /\ l \in Nat
      BY <1>1, <1>5
    <3> QED
      BY <1>1, <1>7, <3>1
  <2>2. CASE j = k
    BY <1>1, <1>2, <1>5, <2>1, <2>2
  <2>3. CASE j # k
    BY <1>1, <1>5, <1>7, <2>1, <2>3 DEF InOrder
  <2> QED
    BY <2>2, <2>3
<1> QED
  BY <1>4, <1>5, <1>6, <1>7 DEF InOrder

LEMMA ReadAllSeen ==
  ASSUME NEW n, NEW S, Ascending(n, S), NEW E \in [1 .. n -> Nat], NEW F \in [1 .. n -> Nat],
         NEW K \in SUBSET (1 .. n), NEW R \in SUBSET (1 .. n), NEW M \in SUBSET R,
         NEW N, M \subseteq N, NEW at \in Nat, AllSeen(S, E, K, R, M, at, "no"),
         NEW k \in K, \A j \in K : at <= S[j] => k <= j,
         k \notin R, \A j \in R : F[j] = E[j],
         k \in N \/ \A j \in 1 .. n : k < j => F[k] <= S[j]
  PROVE  AllSeen(S, F, K, R \cup {k}, N, F[k], "no")
<1>1. n \in Nat /\ S \in [1 .. n -> Nat] /\ \A i, j \in 1 .. n : i < j => S[i] < S[j]
  BY DEF Ascending
<1>2. SUFFICES ASSUME NEW j \in K, S[j] < F[k]
               PROVE  j \in R \cup {k} \/ \E i \in N : i < j /\ F[i] > S[j]
  BY DEF AllSeen
<1>3. CASE S[j] < at
  BY <1>3 DEF AllSeen
<1>4. CASE ~(S[j] < at) /\ j # k
  <2>1. k < j
    BY <1>1, <1>4
  <2>2. k \in N
    BY <1>1, <1>2, <2>1
  <2> QED
    BY <1>1, <1>2, <2>1, <2>2
<1> QED
  BY <1>3, <1>4

ReadAfter(n, S, E, F, K, R, at, wrap, left, k) ==
  /\ ReadNext(n, S, E, F, R, at, k) /\ K \in SUBSET (1 .. n) /\ k \in K /\ S[k] = at
  /\ n > 0 => S[1] = 0
  /\ OneAfterAnother(S, E, K, R, at, wrap, "no")
  /\ wrap = "none" <=> left # "no"

LEMMA ReadOneAfterAnother ==
  ASSUME NEW n, NEW S, NEW E, NEW F, NEW K, NEW R, NEW at, NEW wrap, NEW left, NEW k,
         ReadAfter(n, S, E, F, K, R, at, wrap, left, k)
  PROVE  OneAfterAnother(S, F, K, R \cup {k}, F[k], wrap, left)
<1>1. /\ n \in Nat /\ S \in [1 .. n -> Nat] /\ \A i, j \in 1 .. n : i < j => S[i] < S[j]
      /\ E \in [1 .. n -> Nat] /\ F \in [1 .. n -> Nat] /\ R \in SUBSET (1 .. n) /\ at \in Nat
      /\ k \notin R /\ \A j \in R : F[j] = E[j]
      /\ K \in SUBSET (1 .. n) /\ k \in K /\ S[k] = at /\ (n > 0 => S[1] = 0)
      /\ OneAfterAnother(S, E, K, R, at, wrap, "no") /\ (wrap = "none" <=> left # "no")
  <2>1. k \notin R /\ \A j \in R : F[j] = E[j]
    <3>1. k \notin R /\ InOrder(S, F, R \cup {k}, F[k]) /\ \A j \in R : F[j] = E[j] /\ j < k
      <4>1. ReadNext(n, S, E, F, R, at, k)
        BY DEF ReadAfter
      <4> QED
        BY ONLY <4>1, ReadInOrder, Zenon
    <3> QED
      BY <3>1
  <2> QED
    BY <2>1 DEF ReadAfter, ReadNext, Ascending
<1>2. k = 1 \/ (wrap # "none" /\ \E j \in R : E[j] = S[k])
  <2>1. at = 0 \/ (wrap # "none" /\ \E j \in R : E[j] = at)
    BY <1>1 DEF OneAfterAnother
  <2>2. S[k] = 0 => k = 1
    BY <1>1
  <2> QED
    BY <1>1, <2>1, <2>2
<1>3. \A j \in R \cup {k} : Follows(S, F, R \cup {k}, wrap, j)
  <2>1. ASSUME NEW j \in 1 .. n, Follows(S, E, R, wrap, j) PROVE Follows(S, F, R \cup {k}, wrap, j)
    BY <1>1, <2>1 DEF Follows
  <2>2. Follows(S, E, R, wrap, k)
    BY <1>2 DEF Follows
  <2> QED
    BY <1>1, <2>1, <2>2 DEF OneAfterAnother
<1>4. ASSUME NEW j \in K, Follows(S, F, R \cup {k}, wrap, j), j \notin R \cup {k}
      PROVE  S[j] = F[k] /\ wrap # "none"
  <2>1. CASE Follows(S, E, R, wrap, j)
    <3>1. S[j] = at
      BY <1>1, <1>4, <2>1 DEF OneAfterAnother
    <3>2. j = k
      BY <1>1, <3>1
    <3> QED
      BY <1>4, <3>2
  <2>2. CASE ~Follows(S, E, R, wrap, j)
    BY <1>1, <1>4, <2>2 DEF Follows
  <2> QED
    BY <2>1, <2>2
<1> QED
  BY <1>1, <1>2, <1>3, <1>4 DEF OneAfterAnother

(* Which messages have been read in the end.                               *)
LEMMA ReadOfAll ==
  ASSUME NEW n, NEW S, Ascending(n, S), NEW E \in [1 .. n -> Nat],
         NEW K \in SUBSET (1 .. n), NEW R \in SUBSET (1 .. n), NEW M \in SUBSET R,
         NEW at \in Nat, InOrder(S, E, R, at), AllSeen(S, E, K, R, M, at, "done"),
         NEW k \in K
  PROVE  k \in R <=> ~\E j \in M : j < k /\ E[j] > S[k]
<1>1. k \in 1 .. n /\ S[k] \in Nat
  BY DEF Ascending
<1>2. ASSUME NEW j \in M, j < k, k \in R PROVE ~(E[j] > S[k])
  BY <1>1, <1>2 DEF InOrder
<1> QED
  BY <1>2 DEF AllSeen

(* A list that is not gone through word by word, in the end: P are those with
   the text in its place, A those with the next message right behind it.   *)
SomeRead(n, S, E, K, R, M, P, A, at, wrap) ==
  /\ Ascending(n, S) /\ E \in [1 .. n -> Nat]
  /\ K \in SUBSET (1 .. n) /\ R \in SUBSET K /\ M \in SUBSET R
  /\ P \in SUBSET K /\ A \in SUBSET P /\ P \cap M = {}
  /\ \A j \in R : S[j] < E[j] /\ (j \notin M => j \in P)
  /\ \A j \in P : j \notin M => \A i \in 1 .. n : j < i =>
       E[j] <= S[i] /\ (E[j] = S[i] <=> i = j + 1 /\ j \in A)
  /\ A # {} => wrap # "none"
  /\ OneAfterAnother(S, E, K, R, at, wrap, "done")

LEMMA ReadOfSome ==
  ASSUME NEW n, NEW S, NEW E, NEW K, NEW R, NEW M, NEW P, NEW A, NEW at, NEW wrap,
         SomeRead(n, S, E, K, R, M, P, A, at, wrap), NEW k \in P
  PROVE  k \in R <=> \E i \in 1 .. k :
                        /\ i = 1 \/ (wrap # "none" /\ \E j \in M : j < i /\ E[j] = S[i])
                        /\ \A j \in i .. k - 1 : j \in A
<1> USE DEF SomeRead
<1> DEFINE Reached(m) == \E i \in 1 .. m :
                          /\ i = 1 \/ (wrap # "none" /\ \E j \in M : j < i /\ E[j] = S[i])
                          /\ \A j \in i .. m - 1 : j \in A
<1>1. n \in Nat /\ S \in [1 .. n -> Nat] /\ \A i, j \in 1 .. n : i < j => S[i] < S[j]
  BY DEF Ascending
<1>2. \A j \in K : j \in R <=> Follows(S, E, R, wrap, j)
  BY DEF OneAfterAnother
<1>3. ASSUME NEW i \in 1 .. k, i = 1 \/ (wrap # "none" /\ \E j \in M : j < i /\ E[j] = S[i]),
             \A j \in i .. k - 1 : j \in A
      PROVE  k \in R
  <2> DEFINE Bad == {m \in i .. k : m \notin R}
  <2>1. k \in Nat /\ i .. k \subseteq K
    BY <1>1, <1>3
  <2>2. ASSUME Bad # {} PROVE FALSE
    <3> DEFINE m == Min(Bad)
    <3>1. m \in Bad /\ \A y \in Bad : m <= y
      <4>1. Bad \in SUBSET Nat
        BY <2>1
      <4> HIDE DEF Bad
      <4> QED
        BY <2>2, <4>1, LeastElement
    <3> HIDE DEF m
    <3>2. m \in i .. k /\ m \notin R /\ m \in K
      BY <2>1, <3>1
    <3>3. m # i
      BY <1>2, <1>3, <3>2 DEF Follows
    <3>4. m - 1 \in i .. k - 1 /\ m - 1 \in i .. k /\ ~(m <= m - 1)
      BY <2>1, <3>2, <3>3
    <3>5. m - 1 \in R /\ m - 1 \in A
      <4>1. m - 1 \notin Bad
        <5> HIDE DEF Bad
        <5> QED
          BY <3>1, <3>4
      <4> QED
        BY <1>3, <3>4, <4>1
    <3>6. E[m - 1] = S[m] /\ wrap # "none"
      <4>1. m - 1 \in P /\ m - 1 \notin M /\ m \in 1 .. n /\ m - 1 < m /\ m = (m - 1) + 1
        BY <1>1, <3>2, <3>4, <3>5
      <4> QED
        BY <3>5, <4>1
    <3> QED
      BY <1>2, <3>2, <3>5, <3>6 DEF Follows
  <2>3. k \in i .. k
    BY <1>3, <2>1
  <2> QED
    BY <2>2, <2>3
<1>4. \A m \in R : Reached(m)
  <2> DEFINE Bad == {m \in R : ~Reached(m)}
  <2>1. ASSUME Bad # {} PROVE FALSE
    <3> DEFINE m == Min(Bad)
    <3>1. m \in Bad /\ \A y \in Bad : m <= y
      <4>1. Bad \in SUBSET Nat
        <5>1. 1 .. n \subseteq Nat /\ R \subseteq 1 .. n
          BY <1>1
        <5> HIDE DEF Reached
        <5> QED
          BY <5>1
      <4> HIDE DEF Bad
      <4> QED
        BY <2>1, <4>1, LeastElement
    <3> HIDE DEF m
    <3>2. m \in R /\ ~Reached(m) /\ m \in 1 .. n
      BY <3>1
    <3>3. m # 1
      BY <3>2
    <3>4. PICK j \in R : wrap # "none" /\ E[j] = S[m]
      BY <1>2, <3>2, <3>3 DEF Follows
    <3>5. j \in 1 .. n /\ j < m
      <4>1. j \in 1 .. n /\ S[j] < S[m] /\ S[j] \in Nat /\ S[m] \in Nat
        BY <1>1, <3>2, <3>4
      <4>2. ~(m < j) /\ j # m
        BY <1>1, <3>2, <4>1
      <4> QED
        BY <1>1, <3>2, <4>1, <4>2
    <3>6. j \notin M
      <4>1. ASSUME j \in M PROVE Reached(m)
        <5>1. m \in 1 .. m /\ \A l \in m .. m - 1 : l \in A
          BY <3>2
        <5> QED
          BY <3>4, <3>5, <4>1, <5>1
      <4> QED
        BY <3>2, <4>1
    <3>7. m = j + 1 /\ j \in A
      BY <3>2, <3>4, <3>5, <3>6
    <3>8. Reached(j)
      <4>1. j \notin Bad
        <5>1. ~(m <= j)
          BY <3>2, <3>5
        <5> HIDE DEF Bad
        <5> QED
          BY <3>1, <5>1
      <4> QED
        BY <4>1
    <3>9. PICK i \in 1 .. j : /\ i = 1 \/ (wrap # "none" /\ \E l \in M : l < i /\ E[l] = S[i])
                              /\ \A l \in i .. j - 1 : l \in A
      BY <3>8
    <3>10. i \in 1 .. m /\ \A l \in i .. m - 1 : l \in A
      <4>1. i \in 1 .. m
        BY <3>5, <3>7, <3>9
      <4>2. ASSUME NEW l \in i .. m - 1 PROVE l \in A
        <5>1. l \in i .. j - 1 \/ l = j
          BY <3>5, <3>7, <3>9, <4>2
        <5> QED
          BY <3>7, <3>9, <5>1
      <4> QED
        BY <4>1, <4>2
    <3> QED
      BY <3>2, <3>9, <3>10
  <2> QED
    BY <2>1
<1> HIDE DEF Reached
<1>5. k \in R => Reached(k)
  BY <1>4
<1>6. Reached(k) => k \in R
  BY <1>3 DEF Reached
<1> QED
  BY <1>5, <1>6 DEF Reached

-----------------------------------------------------------------------------
(* The messages of a buffer that arrives.                                  *)

AnyPeer == {"user", "chat", "channel"}
LayoutSet == [from : BOOLEAN, peer : AnyPeer, saved : AnyPeer \cup {"none"}, extra : Nat]
MessageSet == [kind : {"other", "updateShortMessage", "updateShortChatMessage", "message"},
               layout : LayoutSet, got : TextSet, text : TextSet, fields : Nat,
               shown : {"no", "same", "clear"}, word : Nat \cup {NoWord}]
Lists == {"single", "container", "updates", "slice", "dialogs"}
InputSet == [wrap : Wraps, list : Lists \cup {"none"}, msgs : Seq(MessageSet), behind : Nat,
             at : Nat, payload : Int, first : Int, zip : Int, delta : Int,
             left : {"no", "return", "end", "done"}]

WasRead(m) == m.shown # "no" \/ m.word # NoWord
InPlace(wrap, m) == m.kind # "other" /\ LookedAt(wrap, m) = TextAt(m)

(* What is read is what somebody encrypted; until it is shown it is as it
   came, and then it is what was encrypted.  A text that is shown is where it
   was looked for, one that is misread is not.                             *)
MessageOK(wrap, list, m) ==
  /\ m.kind \in Kinds(list)
  /\ m.got.sealed => Encrypted(m.got, m.got.clear)
  /\ m.shown = "no" => m.text = m.got
  /\ m.got.sealed /\ m.shown # "no" =>
       m.got.clear <= MaxKept /\ m.shown = "clear" /\ Size(m.text) = Max({3, m.got.clear})
  /\ m.shown # "no" => InPlace(wrap, m) /\ m.word = NoWord
  /\ m.word # NoWord => m.kind # "other" /\ LookedAt(wrap, m) # TextAt(m)

LEMMA SizesOfMessage ==
  ASSUME NEW m \in MessageSet
  PROVE  /\ TextAt(m) \in Nat /\ TextAt(m) >= 5
         /\ Words(Size(m.got)) \in Nat /\ Words(Size(m.got)) >= 1
         /\ Words(Size(m.text)) \in Nat /\ m.fields \in Nat
         /\ WordsGot(m) = TextAt(m) + Words(Size(m.got)) + m.fields
         /\ WordsGot(m) \in Nat /\ WordsGot(m) >= 6
<1>1. /\ m.got \in TextSet /\ m.text \in TextSet /\ m.fields \in Nat /\ m.layout \in LayoutSet
  BY DEF MessageSet
<1>2. m.layout.extra \in Nat
  BY <1>1 DEF LayoutSet
<1>3. TextAt(m) \in Nat /\ TextAt(m) >= 5
  BY <1>2 DEF TextAt
<1>4. /\ Words(Size(m.got)) \in Nat /\ Words(Size(m.got)) >= 1 /\ Words(Size(m.text)) \in Nat
  BY <1>1, SizeOfText, WordsPositive
<1>5. WordsGot(m) = TextAt(m) + Words(Size(m.got)) + m.fields
  BY DEF WordsGot
<1> QED
  BY <1>1, <1>3, <1>4, <1>5

(* The code never looks behind the beginning of the text.  It does look
   before it only in `updates` outside an rpc_result and in messages that are
   not plain ones of a user or a group.                                    *)
LEMMA PlaceLookedAt ==
  ASSUME NEW wrap \in Wraps, NEW list \in ListsIn(wrap), NEW m \in MessageSet,
         m.kind \in Kinds(list), m.kind # "other"
  PROVE  /\ LookedAt(wrap, m) \in 5 .. TextAt(m)
         /\ LookedAt(wrap, m) # TextAt(m) =>
              \/ list = "updates" /\ wrap # "rpc"
              \/ m.layout.extra > 0 \/ m.layout.saved # "none"
              \/ (m.layout.from /\ m.layout.peer = "channel")
         /\ list = "container" => LookedAt(wrap, m) = TextAt(m)
<1> DEFINE layout == m.layout
           extra == layout.extra
<1>1. layout \in LayoutSet
  BY DEF MessageSet
<1>2. extra \in Nat /\ layout.from \in BOOLEAN /\ layout.peer \in AnyPeer
      /\ layout.saved \in AnyPeer \cup {"none"}
  <2> HIDE DEF layout
  <2> QED
    BY <1>1 DEF LayoutSet
<1>3. CASE list \in {"single", "container"}
  <2>1. wrap # "rpc" /\ m.kind \in {"updateShortMessage", "updateShortChatMessage"}
    BY <1>3 DEF ListsIn, Kinds
  <2>2. LookedAt(wrap, m) = TextAt(m) /\ TextAt(m) \in {5, 7}
    BY <2>1 DEF LookedAt, TextAt, UserMessage, ChatMessage
  <2> QED
    BY <2>2
<1>4. CASE list \notin {"single", "container"}
  <2>1. m.kind = "message"
    BY <1>4 DEF Kinds
  <2>2. TextAt(m) = 8 + (IF layout.from THEN 3 ELSE 0) + (IF layout.saved = "none" THEN 0 ELSE 3)
                      + extra
    BY <2>1 DEF TextAt
  <2>3. ASSUME wrap # "rpc" PROVE LookedAt(wrap, m) = 5 /\ list = "updates"
    <3>1. list = "updates"
      BY <1>4, <2>3 DEF ListsIn
    <3> QED
      BY <2>1, <2>3, <3>1 DEF LookedAt, UserMessage
  <2>4. ASSUME wrap = "rpc"
        PROVE  LookedAt(wrap, m) = IF (IF layout.from THEN layout.peer ELSE layout.saved) \in {"user", "chat"}
                                   THEN 11 ELSE 8
    BY <2>1, <2>4 DEF LookedAt, ChatType, UserMessage, ChatMessage
  <2> DEFINE looked == LookedAt(wrap, m)
             place == TextAt(m)
  <2>5. layout.extra = extra /\ m.layout = layout
    OBVIOUS
  <2> HIDE DEF looked, place, layout, extra
  <2>6. CASE wrap # "rpc"
    <3>1. looked = 5 /\ place >= 8 /\ place \in Nat
      BY <1>2, <2>2, <2>3, <2>6 DEF looked, place
    <3> QED
      BY <1>4, <2>3, <2>6, <3>1 DEF looked, place
  <2>7. CASE wrap = "rpc"
    <3>1. looked = IF (IF layout.from THEN layout.peer ELSE layout.saved) \in {"user", "chat"}
                   THEN 11 ELSE 8
      BY <2>4, <2>7 DEF looked
    <3>2. place = 8 + (IF layout.from THEN 3 ELSE 0) + (IF layout.saved = "none" THEN 0 ELSE 3)
                    + extra
      BY <2>2 DEF place
    <3>3. looked \in 5 .. place
      BY ONLY <1>2, <3>1, <3>2 DEF AnyPeer
    <3>4. looked # place => \/ extra > 0 \/ layout.saved # "none"
                            \/ (layout.from /\ layout.peer = "channel")
      BY ONLY <1>2, <3>1, <3>2 DEF AnyPeer
    <3> QED
      BY <1>4, <2>5, <3>3, <3>4 DEF looked, place
  <2> QED
    BY <2>6, <2>7
<1> QED
  BY <1>3, <1>4

(* A word that is taken for the length of a text.                          *)
LEMMA WordAsLength ==
  ASSUME NEW word \in Nat
  PROVE  /\ LenOf(word) \in Nat /\ Taken(word) \in Nat /\ Taken(word) >= 1
         /\ WrittenFor(word) \in Nat
         /\ \A room \in Nat : Taken(word) > room + 1 => LenOf(word) > 4 * room
<1>1. word % 256 \in Nat /\ word \div 256 \in Nat
  OBVIOUS
<1>2. LenOf(word) \in Nat
  BY <1>1 DEF LenOf
<1> DEFINE len == LenOf(word)
           padded == IF len < 3 THEN 3 ELSE len
<1> HIDE DEF len
<1>3. Taken(word) = IF IsLong(word) THEN (len + 3) \div 4 + 1 ELSE len \div 4 + 1
  BY DEF Taken, len
<1>4. len \in Nat
  BY <1>2 DEF len
<1>5. Taken(word) \in Nat /\ Taken(word) >= 1
      /\ \A room \in Nat : Taken(word) > room + 1 => len > 4 * room
  <2>1. CASE IsLong(word)
    <3>1. Taken(word) = (len + 3) \div 4 + 1
      BY <1>3, <2>1
    <3> QED
      BY ONLY <1>4, <3>1
  <2>2. CASE ~IsLong(word)
    <3>1. Taken(word) = len \div 4 + 1
      BY <1>3, <2>2
    <3> QED
      BY ONLY <1>4, <3>1
  <2> QED
    BY <2>1, <2>2
<1>6. WrittenFor(word) \in Nat
  <2>1. padded \in Nat
    BY <1>4
  <2>2. WrittenFor(word) = Words(padded)
    BY DEF WrittenFor, len
  <2> HIDE DEF padded
  <2> QED
    BY <2>1, <2>2, WordsPositive
<1> QED
  BY <1>2, <1>5, <1>6 DEF len

LEMMA WordsOfMessage ==
  ASSUME NEW m \in MessageSet
  PROVE  MessageWords(m) \in Int
<1>1. TextAt(m) \in Nat /\ Words(Size(m.text)) \in Nat /\ m.fields \in Nat
  BY SizesOfMessage
<1>2. m.word = NoWord \/ m.word \in Nat
  BY DEF MessageSet
<1> DEFINE change == IF m.word = NoWord THEN 0 ELSE WrittenFor(m.word) - Taken(m.word)
<1>3. change \in Int
  <2>1. CASE m.word = NoWord
    BY <2>1
  <2>2. CASE m.word # NoWord
    <3>1. WrittenFor(m.word) \in Nat /\ Taken(m.word) \in Nat
      BY <1>2, <2>2, WordAsLength
    <3> QED
      BY <2>2, <3>1
  <2> QED
    BY <2>1, <2>2
<1>4. MessageWords(m) = TextAt(m) + Words(Size(m.text)) + m.fields + change
  BY DEF MessageWords
<1> HIDE DEF change
<1> QED
  BY <1>1, <1>3, <1>4

LEMMA HeaderIsNat ==
  ASSUME NEW list
  PROVE  /\ Header(list) \in Nat /\ Lead(list) \in Nat
         /\ Header(list) = 0 <=> list \notin {"container", "updates"}
BY DEF Header, Lead, HeaderWords

(* Where the messages stand.                                               *)
GotWords(i) == [j \in DOMAIN i.msgs |-> Header(i.list) + WordsGot(i.msgs[j])]

LEMMA Starts ==
  ASSUME NEW i \in InputSet
  PROVE  /\ \A k \in 1 .. Len(i.msgs) + 1 : StartOf(i, k) \in Nat
         /\ StartOf(i, 1) = 0
         /\ \A k \in 1 .. Len(i.msgs) :
              StartOf(i, k + 1) = StartOf(i, k) + Header(i.list) + WordsGot(i.msgs[k])
         /\ \A j, k \in 1 .. Len(i.msgs) + 1 : j < k => StartOf(i, j) < StartOf(i, k)
<1> DEFINE n == Len(i.msgs)
           f == GotWords(i)
           s == Sums(f, n)
<1>1. i.msgs \in Seq(MessageSet) /\ DOMAIN i.msgs = 1 .. n /\ n \in Nat
  BY DEF InputSet
<1>2. Header(i.list) \in Nat
  BY HeaderIsNat
<1>3. ASSUME NEW j \in 1 .. n
      PROVE  WordsGot(i.msgs[j]) \in Nat /\ WordsGot(i.msgs[j]) >= 6
  <2>1. i.msgs[j] \in MessageSet
    BY <1>1
  <2> QED
    BY <2>1, SizesOfMessage
<1>4. /\ f \in [1 .. n -> Nat] /\ f \in [1 .. n -> Int]
      /\ \A j \in 1 .. n : f[j] >= 6
      /\ \A j \in 1 .. n : f[j] = Header(i.list) + WordsGot(i.msgs[j])
  BY <1>1, <1>2, <1>3 DEF GotWords
<1>5. ASSUME NEW k \in Int PROVE StartOf(i, k) = s[k - 1]
  BY DEF StartOf, GotWords
<1> HIDE DEF f, s, n
<1>6. s \in [0 .. n -> Int] /\ s[0] = 0 /\ \A j \in 1 .. n : s[j] = s[j - 1] + f[j]
  BY <1>1, <1>4, SumsAre DEF SumsOf, s
<1>7. ASSUME NEW j \in 0 .. n, NEW k \in j .. n PROVE s[j] <= s[k]
  BY <1>1, <1>4, SumsGrow DEF s
<1>8. ASSUME NEW k \in 1 .. n + 1 PROVE StartOf(i, k) \in Nat
  <2>1. k - 1 \in 0 .. n /\ 0 \in 0 .. n /\ k - 1 \in 0 .. n
    BY <1>1
  <2>2. s[0] <= s[k - 1] /\ s[k - 1] \in Int
    BY <1>6, <1>7, <2>1
  <2> QED
    BY <1>5, <1>6, <2>2
<1>9. StartOf(i, 1) = 0
  BY <1>5, <1>6
<1>10. ASSUME NEW k \in 1 .. n
       PROVE  StartOf(i, k + 1) = StartOf(i, k) + Header(i.list) + WordsGot(i.msgs[k])
  <2>1. StartOf(i, k + 1) = s[k] /\ StartOf(i, k) = s[k - 1]
    <3>1. k \in Int /\ k + 1 \in Int /\ (k + 1) - 1 = k
      BY <1>1
    <3>2. StartOf(i, k + 1) = s[(k + 1) - 1] /\ StartOf(i, k) = s[k - 1]
      BY <1>5, <3>1, Zenon
    <3> QED
      BY <3>1, <3>2
  <2>2. s[k] = s[k - 1] + f[k] /\ f[k] = Header(i.list) + WordsGot(i.msgs[k])
    BY <1>4, <1>6
  <2>3. s[k - 1] \in Int /\ WordsGot(i.msgs[k]) \in Nat
    BY <1>1, <1>3, <1>6
  <2> QED
    BY <1>2, <2>1, <2>2, <2>3
<1>11. ASSUME NEW j \in 1 .. n + 1, NEW k \in 1 .. n + 1, j < k
       PROVE  StartOf(i, j) < StartOf(i, k)
  <2>1. j \in 1 .. n /\ j \in 0 .. n /\ k - 1 \in j .. n /\ j - 1 \in 0 .. n
    BY <1>1, <1>11
  <2>2. s[j] = s[j - 1] + f[j] /\ f[j] >= 6 /\ f[j] \in Nat /\ s[j - 1] \in Int /\ s[j] \in Int
    BY <1>4, <1>6, <2>1
  <2>3. s[j] <= s[k - 1] /\ s[k - 1] \in Int
    BY <1>1, <1>6, <1>7, <2>1
  <2>4. StartOf(i, j) = s[j - 1] /\ StartOf(i, k) = s[k - 1]
    <3>1. j \in Int /\ k \in Int
      BY <1>1
    <3> QED
      BY <1>5, <3>1, Zenon
  <2> QED
    BY <2>2, <2>3, <2>4
<1> QED
  BY <1>8, <1>9, <1>10, <1>11 DEF n

(* Message k as m, which differs only in what was made of it.              *)
Later(m, new) == /\ new \in MessageSet /\ new.kind = m.kind /\ new.layout = m.layout
                 /\ new.got = m.got /\ new.fields = m.fields

LEMMA LaterPlace ==
  ASSUME NEW m, NEW new, Later(m, new)
  PROVE  /\ TextAt(new) = TextAt(m) /\ WordsGot(new) = WordsGot(m)
         /\ \A wrap : LookedAt(wrap, new) = LookedAt(wrap, m)
<1>1. new.kind = m.kind /\ new.layout = m.layout /\ new.got = m.got /\ new.fields = m.fields
  BY DEF Later
<1>2. TextAt(new) = TextAt(m)
  BY ONLY <1>1 DEF TextAt
<1>3. ChatType(new) = ChatType(m)
  BY ONLY <1>1 DEF ChatType
<1>4. WordsGot(new) = WordsGot(m)
  BY ONLY <1>1, <1>2 DEF WordsGot
<1>5. \A wrap : LookedAt(wrap, new) = LookedAt(wrap, m)
  BY ONLY <1>1, <1>3 DEF LookedAt
<1> QED
  BY <1>2, <1>4, <1>5

LEMMA SameStarts ==
  ASSUME NEW i, NEW c, c.list = i.list, DOMAIN c.msgs = DOMAIN i.msgs, Len(c.msgs) = Len(i.msgs),
         \A j \in DOMAIN i.msgs : WordsGot(c.msgs[j]) = WordsGot(i.msgs[j])
  PROVE  \A k : StartOf(c, k) = StartOf(i, k)
<1>1. GotWords(c) = GotWords(i)
  BY DEF GotWords
<1>2. ASSUME NEW k PROVE StartOf(c, k) = Sums(GotWords(c), Len(c.msgs))[k - 1]
  BY DEF StartOf, GotWords
<1>3. ASSUME NEW k PROVE StartOf(i, k) = Sums(GotWords(i), Len(i.msgs))[k - 1]
  BY DEF StartOf, GotWords
<1> QED
  BY <1>1, <1>2, <1>3

(* Where the texts end, be they in their place or not.                     *)
LEMMA Ends ==
  ASSUME NEW i \in InputSet, NEW k \in DOMAIN i.msgs
  PROVE  /\ EndAt(i, k) \in Nat /\ StartOf(i, k) \in Nat /\ StartOf(i, k) < EndAt(i, k)
         /\ InPlace(i.wrap, i.msgs[k]) /\ i.msgs[k].word = NoWord =>
              EndAt(i, k) + i.msgs[k].fields + Header(i.list) = StartOf(i, k + 1)
<1> DEFINE m == i.msgs[k]
           taken == IF m.word = NoWord THEN Words(Size(m.got)) ELSE Taken(m.word)
           looked == LookedAt(i.wrap, m)
           start == StartOf(i, k)
<1>1. i.msgs \in Seq(MessageSet) /\ DOMAIN i.msgs = 1 .. Len(i.msgs) /\ Len(i.msgs) \in Nat
  BY DEF InputSet
<1>2. m \in MessageSet /\ k \in 1 .. Len(i.msgs) /\ k \in 1 .. Len(i.msgs) + 1
  BY <1>1
<1>3. start \in Nat
  BY <1>2, Starts
<1>4. looked \in Nat /\ looked >= 5
  BY DEF LookedAt, UserMessage, ChatMessage
<1>5. taken \in Nat /\ taken >= 1
  <2> HIDE DEF m
  <2>1. Words(Size(m.got)) \in Nat /\ Words(Size(m.got)) >= 1
    BY <1>2, SizesOfMessage
  <2>2. m.word # NoWord => m.word \in Nat
    BY <1>2 DEF MessageSet
  <2> QED
    BY <2>1, <2>2, WordAsLength
<1>6. EndAt(i, k) = start + looked + taken
  BY DEF EndAt
<1>7. EndAt(i, k) \in Nat /\ start < EndAt(i, k)
  <2> HIDE DEF start, looked, taken
  <2> QED
    BY <1>3, <1>4, <1>5, <1>6
<1>8. ASSUME InPlace(i.wrap, m), m.word = NoWord
      PROVE  EndAt(i, k) + m.fields + Header(i.list) = StartOf(i, k + 1)
  <2> DEFINE words == Words(Size(m.got))
             fields == m.fields
  <2>1. looked = TextAt(m) /\ taken = words
    BY <1>8 DEF InPlace
  <2>2. StartOf(i, k + 1) = start + Header(i.list) + WordsGot(m)
    BY <1>2, Starts
  <2>3. WordsGot(m) = TextAt(m) + words + fields /\ words \in Nat /\ fields \in Nat
    <3> HIDE DEF m
    <3> QED
      BY <1>2, SizesOfMessage
  <2>4. Header(i.list) \in Nat
    BY HeaderIsNat
  <2> HIDE DEF start, looked, taken, words, fields
  <2>5. EndAt(i, k) + fields + Header(i.list) = StartOf(i, k + 1)
    BY ONLY <1>3, <1>4, <1>6, <2>1, <2>2, <2>3, <2>4
  <2> QED
    BY <2>5 DEF fields
<1> QED
  BY <1>3, <1>7, <1>8

-----------------------------------------------------------------------------
(* The inductive invariant of the buffer that is decrypted.                *)

KnownIn(i) == {k \in DOMAIN i.msgs : i.msgs[k].kind # "other"}
ReadIn(i) == {k \in DOMAIN i.msgs : WasRead(i.msgs[k])}
MisreadIn(i) == {k \in DOMAIN i.msgs : i.msgs[k].word # NoWord}
StartsOf(i) == [k \in DOMAIN i.msgs |-> StartOf(i, k)]
EndsOf(i) == [k \in DOMAIN i.msgs |-> EndAt(i, k)]
AheadIn(i) == {k \in DOMAIN i.msgs : /\ i.msgs[k].kind # "other"
                 /\ IF i.list = "dialogs" THEN StartOf(i, k) >= i.at ELSE StartOf(i, k) = i.at}

(* How far the buffer has been gone through.                               *)
Walk(i) ==
  /\ InOrder(StartsOf(i), EndsOf(i), ReadIn(i), i.at)
  /\ i.at = 0 => i.delta = 0
  /\ i.left = "return" => i.at = 0
  /\ IF i.list = "dialogs"
     THEN AllSeen(StartsOf(i), EndsOf(i), KnownIn(i), ReadIn(i), MisreadIn(i), i.at, i.left)
     ELSE OneAfterAnother(StartsOf(i), EndsOf(i), KnownIn(i), ReadIn(i), i.at,
                          i.wrap, i.left)

InLengths(i) ==
  /\ i.wrap = "none" => i.payload + (IF i.left = "done" THEN 0 ELSE i.delta) = 4 * Content(i)
  /\ i.wrap # "none" =>
       i.payload = 4 * (Wrapper(i.wrap) + IF i.left = "done" THEN Content(i) ELSE i.zip)
  /\ i.list = "container" =>
       IF i.wrap = "none"
       THEN i.first + (IF i.left = "done" THEN 0 ELSE i.delta) = 4 * MessageWords(i.msgs[1])
       ELSE i.first = 4 * WordsGot(i.msgs[1])

InOK(i) ==
  /\ i \in InputSet
  /\ IF i.list = "none" THEN i = NoInput
     ELSE /\ i.msgs # <<>> /\ i.list \in ListsIn(i.wrap)
          /\ i.list = "single" => Len(i.msgs) = 1
          /\ \A k \in DOMAIN i.msgs : MessageOK(i.wrap, i.list, i.msgs[k])

(* The words of the list or of the payload, as a sum.                      *)
NowWords(i) == [j \in DOMAIN i.msgs |-> Header(i.list) + MessageWords(i.msgs[j])]
Rest(i) == IF i.wrap = "none" THEN 0 ELSE i.behind

LEMMA ContentIsSum ==
  ASSUME NEW i \in InputSet
  PROVE  /\ Content(i) = Lead(i.list) + Total(NowWords(i), Len(i.msgs)) + Rest(i)
         /\ Rest(i) \in Nat /\ Lead(i.list) \in Nat
         /\ NowWords(i) \in [1 .. Len(i.msgs) -> Int]
         /\ Total(NowWords(i), Len(i.msgs)) \in Int
         /\ Content(i) \in Int
<1> DEFINE n == Len(i.msgs)
           f == NowWords(i)
<1>1. Content(i) = Lead(i.list) + Total(f, n) + Rest(i)
  BY DEF Content, Total, NowWords, Rest
<1>2. Rest(i) \in Nat /\ Lead(i.list) \in Nat /\ Header(i.list) \in Nat
  BY HeaderIsNat DEF Rest, InputSet
<1>3. i.msgs \in Seq(MessageSet) /\ DOMAIN i.msgs = 1 .. n /\ n \in Nat
  BY DEF InputSet
<1>4. f \in [1 .. n -> Int]
  <2>1. ASSUME NEW j \in 1 .. n PROVE Header(i.list) + MessageWords(i.msgs[j]) \in Int
    <3>1. i.msgs[j] \in MessageSet
      BY <1>3
    <3>2. MessageWords(i.msgs[j]) \in Int
      BY <3>1, WordsOfMessage
    <3> QED
      BY <1>2, <3>2
  <2> QED
    BY <1>3, <2>1 DEF NowWords
<1> HIDE DEF f, n
<1>5. Total(f, n) \in Int
  <2>1. Sums(f, n) \in [0 .. n -> Int]
    BY <1>3, <1>4, SumsAre DEF SumsOf
  <2> QED
    BY <1>3, <2>1 DEF Total
<1>6. Content(i) \in Int
  BY <1>1, <1>2, <1>5
<1> QED
  BY <1>1, <1>2, <1>4, <1>5, <1>6 DEF f, n

(* Message k replaced by m.                                                *)
LEMMA MessageReplaced ==
  ASSUME NEW msgs \in Seq(MessageSet), NEW k \in DOMAIN msgs, NEW m \in MessageSet,
         NEW new, new = [msgs EXCEPT ![k] = m]
  PROVE  /\ new \in Seq(MessageSet) /\ Len(new) = Len(msgs) /\ DOMAIN new = DOMAIN msgs
         /\ new[k] = m /\ \A j \in DOMAIN msgs : j # k => new[j] = msgs[j]
OBVIOUS

LEMMA ContentChanged ==
  ASSUME NEW i \in InputSet, NEW c \in InputSet, c.list = i.list, c.wrap = i.wrap,
         c.behind = i.behind, NEW k \in DOMAIN i.msgs, Len(c.msgs) = Len(i.msgs),
         DOMAIN c.msgs = DOMAIN i.msgs, \A j \in DOMAIN i.msgs : j # k => c.msgs[j] = i.msgs[j],
         NEW change \in Int, MessageWords(c.msgs[k]) = MessageWords(i.msgs[k]) + change
  PROVE  Content(c) = Content(i) + change
<1> DEFINE n == Len(i.msgs)
           f == NowWords(i)
           g == NowWords(c)
<1>1. DOMAIN i.msgs = 1 .. n /\ n \in Nat /\ i.msgs[k] \in MessageSet /\ k \in 1 .. n
  BY DEF InputSet
<1>2. /\ Content(i) = Lead(i.list) + Total(f, n) + Rest(i)
      /\ Content(c) = Lead(i.list) + Total(g, n) + Rest(c)
      /\ Rest(i) \in Nat /\ Lead(i.list) \in Nat /\ Total(f, n) \in Int /\ Total(g, n) \in Int
      /\ f \in [1 .. n -> Int] /\ g \in [1 .. n -> Int]
  BY ContentIsSum
<1>3. Rest(c) = Rest(i)
  BY DEF Rest
<1>4. \A j \in 1 .. n : j # k => g[j] = f[j]
  BY <1>1 DEF NowWords
<1>5. f[k] = Header(i.list) + MessageWords(i.msgs[k])
      /\ g[k] = Header(i.list) + (MessageWords(i.msgs[k]) + change)
  BY <1>1 DEF NowWords
<1>6. MessageWords(i.msgs[k]) \in Int /\ Header(i.list) \in Nat
  BY <1>1, WordsOfMessage, HeaderIsNat
<1> HIDE DEF n, f, g
<1>7. g[k] - f[k] = change
  BY <1>5, <1>6
<1>8. Total(g, n) = Total(f, n) + change
  <2>1. \A j \in 0 .. n : Sums(g, n)[j] = Sums(f, n)[j] + IF j >= k THEN g[k] - f[k] ELSE 0
    BY ONLY <1>1, <1>2, <1>4, SumsChange
  <2>2. n \in 0 .. n /\ n >= k
    BY <1>1
  <2> QED
    BY ONLY <1>7, <2>1, <2>2 DEF Total
<1> QED
  BY ONLY <1>2, <1>3, <1>8, change \in Int

(* The message that is looked at has not been read.                        *)
LEMMA NotYetRead ==
  ASSUME NEW i, InOK(i), i.list # "none", Walk(i), AheadIn(i) # {}, NEW k, k = Min(AheadIn(i))
  PROVE  /\ k \in DOMAIN i.msgs /\ k \in AheadIn(i) /\ \A j \in AheadIn(i) : k <= j
         /\ i.msgs[k] \in MessageSet /\ i.msgs[k].kind # "other"
         /\ MessageOK(i.wrap, i.list, i.msgs[k]) /\ ~WasRead(i.msgs[k])
         /\ i.msgs[k].text = i.msgs[k].got /\ i.msgs[k].word = NoWord
         /\ i.at <= StartOf(i, k)
<1>1. i \in InputSet /\ i.msgs \in Seq(MessageSet) /\ i.at \in Nat
  BY DEF InOK, InputSet
<1>2. k \in AheadIn(i) /\ \A j \in AheadIn(i) : k <= j
  <2> DEFINE A == AheadIn(i)
  <2>1. A \in SUBSET Nat
    BY <1>1 DEF AheadIn
  <2> HIDE DEF A
  <2>2. A # {} /\ k = Min(A)
    BY DEF A
  <2> QED
    BY <2>1, <2>2, LeastElement DEF A
<1>3. k \in DOMAIN i.msgs /\ i.msgs[k] \in MessageSet /\ i.msgs[k].kind # "other"
      /\ MessageOK(i.wrap, i.list, i.msgs[k])
  <2>1. k \in DOMAIN i.msgs /\ i.msgs[k].kind # "other"
    BY <1>2, Zenon DEF AheadIn
  <2>2. i.msgs[k] \in MessageSet
    BY <1>1, <2>1
  <2> QED
    BY <2>1, <2>2 DEF InOK
<1>4. StartOf(i, k) \in Nat /\ EndAt(i, k) \in Nat /\ StartOf(i, k) < EndAt(i, k)
  BY <1>1, <1>3, Ends
<1>5. i.at <= StartOf(i, k)
  <2>1. IF i.list = "dialogs" THEN StartOf(i, k) >= i.at ELSE StartOf(i, k) = i.at
    BY <1>2, Zenon DEF AheadIn
  <2> QED
    BY <1>1, <1>4, <2>1
<1>6. ~WasRead(i.msgs[k])
  <2> SUFFICES ASSUME WasRead(i.msgs[k]) PROVE FALSE
    OBVIOUS
  <2>1. k \in ReadIn(i) /\ EndsOf(i)[k] = EndAt(i, k)
    BY <1>3 DEF ReadIn, EndsOf
  <2>2. EndAt(i, k) <= i.at
    BY <2>1 DEF Walk, InOrder
  <2> QED
    BY <1>1, <1>4, <1>5, <2>2
<1> QED
  BY <1>2, <1>3, <1>5, <1>6 DEF WasRead, MessageOK

(* The abstraction of a buffer, and what holds of it.                      *)
LEMMA Abstraction ==
  ASSUME NEW i \in InputSet
  PROVE  /\ DOMAIN i.msgs = 1 .. Len(i.msgs) /\ Len(i.msgs) \in Nat
         /\ Ascending(Len(i.msgs), StartsOf(i)) /\ EndsOf(i) \in [1 .. Len(i.msgs) -> Nat]
         /\ Len(i.msgs) > 0 => StartsOf(i)[1] = 0
         /\ \A j \in 1 .. Len(i.msgs) : /\ StartsOf(i)[j] = StartOf(i, j) /\ EndsOf(i)[j] = EndAt(i, j)
                                        /\ StartsOf(i)[j] < EndsOf(i)[j]
         /\ KnownIn(i) \in SUBSET (1 .. Len(i.msgs)) /\ ReadIn(i) \in SUBSET (1 .. Len(i.msgs))
         /\ MisreadIn(i) \in SUBSET ReadIn(i)
<1> DEFINE n == Len(i.msgs)
<1>1. DOMAIN i.msgs = 1 .. n /\ n \in Nat
  BY DEF InputSet
<1> HIDE DEF n
<1>2. \A k \in 1 .. n : k \in 1 .. n + 1
  BY <1>1
<1>3. /\ \A k \in 1 .. n : StartOf(i, k) \in Nat
      /\ StartOf(i, 1) = 0
      /\ \A j, k \in 1 .. n : j < k => StartOf(i, j) < StartOf(i, k)
  BY <1>2, Starts DEF n
<1>4. \A k \in 1 .. n : EndAt(i, k) \in Nat /\ StartOf(i, k) < EndAt(i, k)
  BY <1>1, Ends
<1>5. StartsOf(i) \in [1 .. n -> Nat] /\ \A j \in 1 .. n : StartsOf(i)[j] = StartOf(i, j)
  BY <1>1, <1>3 DEF StartsOf
<1>6. EndsOf(i) \in [1 .. n -> Nat] /\ \A j \in 1 .. n : EndsOf(i)[j] = EndAt(i, j)
  BY <1>1, <1>4 DEF EndsOf
<1>7. Ascending(n, StartsOf(i))
  BY <1>1, <1>3, <1>5 DEF Ascending
<1>8. n > 0 => StartsOf(i)[1] = 0
  BY <1>1, <1>3, <1>5
<1>9. /\ KnownIn(i) \in SUBSET (1 .. n) /\ ReadIn(i) \in SUBSET (1 .. n)
      /\ MisreadIn(i) \in SUBSET ReadIn(i)
  BY <1>1 DEF KnownIn, ReadIn, MisreadIn, WasRead
<1> QED
  BY <1>1, <1>4, <1>5, <1>6, <1>7, <1>8, <1>9 DEF n

LEMMA ReadStep ==
  ASSUME NEW i, InOK(i), i.list # "none", Walk(i), InLengths(i), i.left = "no",
         AheadIn(i) # {}, NEW k, k = Min(AheadIn(i)),
         NEW m, Later(i.msgs[k], m), WasRead(m), MessageOK(i.wrap, i.list, m),
         NEW taken \in Nat, NEW written \in Nat,
         taken = IF m.word = NoWord THEN Words(Size(m.got)) ELSE Taken(m.word),
         MessageWords(m) = MessageWords(i.msgs[k]) + (written - taken),
         NEW new, new = [i.msgs EXCEPT ![k] = m],
         NEW at, at = StartOf(i, k) + LookedAt(i.wrap, i.msgs[k]) + taken,
         NEW c, c = [wrap |-> i.wrap, list |-> i.list, msgs |-> new, behind |-> i.behind,
                     at |-> at, payload |-> i.payload, first |-> i.first, zip |-> i.zip,
                     delta |-> i.delta + 4 * (written - taken),
                     left |-> IF i.wrap = "none" THEN "end" ELSE "no"]
  PROVE  InOK(c) /\ c.list # "none" /\ Walk(c) /\ InLengths(c)
<1> DEFINE msgs == i.msgs
           n == Len(msgs)
<1>1. /\ i \in InputSet /\ msgs \in Seq(MessageSet) /\ i.at \in Nat /\ i.behind \in Nat
      /\ i.payload \in Int /\ i.first \in Int /\ i.zip \in Int /\ i.delta \in Int
      /\ i.wrap \in Wraps /\ i.list \in Lists \cup {"none"}
      /\ DOMAIN msgs = 1 .. n /\ n \in Nat
  BY DEF InOK, InputSet
<1>2. /\ k \in DOMAIN msgs /\ k \in AheadIn(i) /\ \A j \in AheadIn(i) : k <= j
      /\ msgs[k] \in MessageSet /\ msgs[k].kind # "other" /\ ~WasRead(msgs[k])
      /\ msgs[k].word = NoWord /\ i.at <= StartOf(i, k)
  BY NotYetRead
<1>3. m \in MessageSet /\ m.kind = msgs[k].kind /\ m.fields = msgs[k].fields
      /\ TextAt(m) = TextAt(msgs[k]) /\ WordsGot(m) = WordsGot(msgs[k])
      /\ \A wrap : LookedAt(wrap, m) = LookedAt(wrap, msgs[k])
  BY LaterPlace DEF Later
<1>4. /\ new \in Seq(MessageSet) /\ Len(new) = n /\ DOMAIN new = DOMAIN msgs
      /\ new[k] = m /\ \A j \in DOMAIN msgs : j # k => new[j] = msgs[j]
  BY <1>1, <1>2, <1>3, MessageReplaced
<1>5. /\ c.wrap = i.wrap /\ c.list = i.list /\ c.msgs = new /\ c.behind = i.behind /\ c.at = at
      /\ c.payload = i.payload /\ c.first = i.first /\ c.zip = i.zip
      /\ c.delta = i.delta + 4 * (written - taken)
      /\ c.left = IF i.wrap = "none" THEN "end" ELSE "no"
  OBVIOUS
<1> HIDE DEF msgs, n
<1>6. ASSUME NEW j \in DOMAIN msgs
      PROVE  /\ WordsGot(new[j]) = WordsGot(msgs[j])
             /\ LookedAt(i.wrap, new[j]) = LookedAt(i.wrap, msgs[j])
             /\ new[j].kind = msgs[j].kind
  <2>1. CASE j = k
    BY <1>3, <1>4, <2>1
  <2>2. CASE j # k
    BY <1>4, <2>2
  <2> QED
    BY <2>1, <2>2
<1>7. \A j : StartOf(c, j) = StartOf(i, j)
  <2>1. DOMAIN c.msgs = DOMAIN i.msgs /\ Len(c.msgs) = Len(i.msgs) /\ c.list = i.list
        /\ \A j \in DOMAIN i.msgs : WordsGot(c.msgs[j]) = WordsGot(i.msgs[j])
    BY <1>4, <1>5, <1>6 DEF msgs, n
  <2> QED
    BY ONLY <2>1, SameStarts
<1>8. at \in Nat /\ EndAt(c, k) = at /\ StartOf(i, k) < at
  <2>1. EndAt(c, k) = StartOf(i, k) + LookedAt(i.wrap, msgs[k]) + taken
    BY <1>2, <1>4, <1>5, <1>6, <1>7, ZenonT(60) DEF EndAt
  <2>2. StartOf(i, k) \in Nat
    BY <1>1, <1>2, Ends DEF msgs
  <2>3. LookedAt(i.wrap, msgs[k]) \in Nat /\ LookedAt(i.wrap, msgs[k]) >= 5
    BY DEF LookedAt, UserMessage, ChatMessage
  <2> QED
    BY <2>1, <2>2, <2>3 DEF msgs
<1>9. ASSUME NEW j \in DOMAIN msgs, j # k PROVE EndAt(c, j) = EndAt(i, j)
  BY <1>4, <1>5, <1>7, <1>9 DEF EndAt, msgs
<1>10. c \in InputSet /\ c.list # "none"
  <2>1. i.delta + 4 * (written - taken) \in Int
    BY <1>1
  <2>2. (IF i.wrap = "none" THEN "end" ELSE "no") \in {"no", "end"}
    OBVIOUS
  <2>3. c.list # "none"
    BY <1>5
  <2> QED
    BY <1>1, <1>4, <1>8, <2>1, <2>2, <2>3 DEF InputSet
<1>11. InOK(c)
  <2>1. i.msgs # <<>> /\ i.list \in ListsIn(i.wrap) /\ (i.list = "single" => Len(i.msgs) = 1)
        /\ \A j \in DOMAIN i.msgs : MessageOK(i.wrap, i.list, i.msgs[j])
    BY DEF InOK
  <2>2. \A j \in DOMAIN new : MessageOK(i.wrap, i.list, new[j])
    BY <1>4, <2>1 DEF msgs
  <2>3. new # <<>>
    <3>1. k \in DOMAIN new
      BY <1>2, <1>4
    <3> QED
      BY <3>1
  <2> QED
    BY <1>4, <1>5, <1>10, <2>1, <2>2, <2>3 DEF InOK, n, msgs
<1> DEFINE S == StartsOf(i)
           E == EndsOf(i)
           F == EndsOf(c)
           K == KnownIn(i)
           R == ReadIn(i)
           M == MisreadIn(i)
           N == MisreadIn(c)
<1>12. /\ Ascending(n, S) /\ E \in [1 .. n -> Nat] /\ (n > 0 => S[1] = 0)
       /\ \A j \in 1 .. n : S[j] = StartOf(i, j) /\ E[j] = EndAt(i, j) /\ S[j] < E[j]
       /\ K \in SUBSET (1 .. n) /\ R \in SUBSET (1 .. n) /\ M \in SUBSET R
       /\ F \in [1 .. n -> Nat] /\ \A j \in 1 .. n : F[j] = EndAt(c, j)
  <2>1. /\ Ascending(n, S) /\ E \in [1 .. n -> Nat] /\ (n > 0 => S[1] = 0)
        /\ \A j \in 1 .. n : S[j] = StartOf(i, j) /\ E[j] = EndAt(i, j) /\ S[j] < E[j]
        /\ K \in SUBSET (1 .. n) /\ R \in SUBSET (1 .. n) /\ M \in SUBSET R
    BY <1>1, Abstraction DEF n, msgs
  <2>2. Len(c.msgs) = n
    BY <1>4, <1>5
  <2>3. /\ F \in [1 .. Len(c.msgs) -> Nat]
        /\ \A j \in 1 .. Len(c.msgs) : F[j] = EndAt(c, j)
    BY ONLY <1>10, Abstraction
  <2> HIDE DEF S, E, F, K, R, M
  <2> QED
    BY <2>1, <2>2, <2>3
<1>13. /\ StartsOf(c) = S /\ KnownIn(c) = K /\ ReadIn(c) = R \cup {k} /\ M \subseteq N
       /\ k \in N <=> m.word # NoWord
  <2>1. StartsOf(c) = S
    BY <1>4, <1>5, <1>7, ZenonT(60) DEF StartsOf, msgs
  <2>2. KnownIn(c) = K
    BY <1>4, <1>5, <1>6 DEF KnownIn, msgs
  <2>3. ReadIn(c) = R \cup {k}
    <3>1. ASSUME NEW j \in DOMAIN msgs PROVE WasRead(new[j]) <=> WasRead(msgs[j]) \/ j = k
      BY <1>4
    <3> QED
      BY <1>2, <1>4, <1>5, <3>1 DEF ReadIn, msgs
  <2>4. M \subseteq N
    BY <1>2, <1>4, <1>5 DEF MisreadIn, msgs
  <2>5. k \in N <=> m.word # NoWord
    BY <1>2, <1>4, <1>5 DEF MisreadIn
  <2> QED
    BY <2>1, <2>2, <2>3, <2>4, <2>5
<1>14. k \in 1 .. n /\ k \in K /\ S[k] = StartOf(i, k) /\ F[k] = at
       /\ \A j \in 1 .. n : j # k => F[j] = E[j]
  <2>1. k \in 1 .. n /\ k \in K
    BY <1>1, <1>2 DEF KnownIn, msgs
  <2> HIDE DEF S, E, F, K, R, M
  <2> QED
    BY ONLY <1>1, <1>8, <1>9, <1>12, <2>1
<1>15. k \in N \/ \A j \in 1 .. n : k < j => F[k] <= S[j]
  <2> SUFFICES ASSUME m.word = NoWord, NEW j \in 1 .. n, k < j PROVE F[k] <= S[j]
    BY <1>13
  <2>1. m.shown # "no" /\ InPlace(i.wrap, m)
    BY DEF WasRead, MessageOK
  <2>2. EndAt(c, k) + m.fields + Header(c.list) = StartOf(c, k + 1)
    <3>1. c.msgs[k] = m /\ k \in DOMAIN c.msgs /\ c.wrap = i.wrap
      BY <1>2, <1>4, <1>5
    <3> QED
      BY <1>10, <2>1, <3>1, Ends
  <2>3. m.fields \in Nat /\ Header(c.list) \in Nat
    BY <1>3, SizesOfMessage, HeaderIsNat
  <2>4. k + 1 \in 1 .. n /\ (k + 1 = j \/ k + 1 < j)
    BY <1>1, <1>14
  <2>5. StartOf(i, k + 1) \in Nat /\ StartOf(i, j) \in Nat /\ StartOf(i, k + 1) <= StartOf(i, j)
    <3>1. S[k + 1] \in Nat /\ S[j] \in Nat /\ (k + 1 < j => S[k + 1] < S[j])
      BY <1>12, <2>4 DEF Ascending
    <3>2. S[k + 1] = StartOf(i, k + 1) /\ S[j] = StartOf(i, j)
      BY <1>12, <2>4
    <3> HIDE DEF S
    <3> QED
      BY <2>4, <3>1, <3>2
  <2>6. StartOf(c, k + 1) = StartOf(i, k + 1)
    BY <1>7
  <2>7. F[k] = EndAt(c, k) /\ S[j] = StartOf(i, j) /\ F[k] \in Nat
    BY <1>8, <1>12, <1>14, ZenonT(60)
  <2> HIDE DEF S, F
  <2> QED
    BY ONLY <2>2, <2>3, <2>5, <2>6, <2>7
<1> HIDE DEF S, E, F, K, R, M, N
<1>16. InOrder(S, E, R, i.at)
  BY DEF Walk, S, E, R
<1>17. ReadNext(n, S, E, F, R, i.at, k)
  <2>1. /\ i.at <= S[k] /\ S[k] < F[k] /\ \A j \in R : S[j] < E[j]
    BY <1>2, <1>8, <1>12, <1>14
  <2> QED
    BY <1>1, <1>12, <1>14, <1>16, <2>1 DEF ReadNext
<1>18. k \notin R /\ InOrder(S, F, R \cup {k}, F[k]) /\ \A j \in R : F[j] = E[j] /\ j < k
  BY ONLY <1>17, ReadInOrder, Zenon
<1>19. Walk(c)
  <2>1. c.at # 0 /\ c.left # "return"
    <3>1. StartOf(i, k) \in Nat
      BY <1>1, <1>2, Ends DEF msgs
    <3> QED
      BY <1>5, <1>8, <3>1
  <2>2. InOrder(StartsOf(c), EndsOf(c), ReadIn(c), c.at)
    BY <1>5, <1>13, <1>14, <1>18, ZenonT(60) DEF F
  <2>3. CASE i.list = "dialogs"
    <3>1. AllSeen(S, E, K, R, M, i.at, "no")
      BY <2>3 DEF Walk, S, E, K, R, M
    <3>2. \A j \in K : i.at <= S[j] => k <= j
      <4> SUFFICES ASSUME NEW j \in K, i.at <= S[j] PROVE k <= j
        OBVIOUS
      <4>1. j \in 1 .. n /\ S[j] = StartOf(i, j) /\ S[j] \in Nat
        BY <1>12 DEF Ascending
      <4>2. msgs[j].kind # "other" /\ j \in DOMAIN msgs /\ StartOf(i, j) >= i.at
        BY <1>1, <4>1 DEF K, KnownIn, msgs
      <4>3. j \in AheadIn(i)
        BY <2>3, <4>2 DEF AheadIn, msgs
      <4> QED
        BY <1>2, <4>3
    <3>3. AllSeen(S, F, K, R \cup {k}, N, F[k], "no")
      <4>1. M \subseteq N /\ k \notin R /\ \A j \in R : F[j] = E[j]
        BY <1>13, <1>18
      <4> QED
        BY ONLY <1>1, <1>12, <1>14, <1>15, <3>1, <3>2, <4>1, ReadAllSeen
    <3>4. i.wrap # "none"
      BY <1>11, <1>5, <2>3 DEF InOK, ListsIn
    <3>5. c.left = "no"
      BY <1>5, <3>4
    <3>6. AllSeen(StartsOf(c), EndsOf(c), KnownIn(c), ReadIn(c), MisreadIn(c), c.at, c.left)
      BY ONLY <1>5, <1>13, <1>14, <3>3, <3>5 DEF F, N
    <3> QED
      BY <1>5, <2>1, <2>2, <2>3, <3>6 DEF Walk
  <2>4. CASE i.list # "dialogs"
    <3>1. OneAfterAnother(S, E, K, R, i.at, i.wrap, "no")
      BY <2>4 DEF Walk, S, E, K, R
    <3>2. S[k] = i.at
      <4>1. IF i.list = "dialogs" THEN StartOf(i, k) >= i.at ELSE StartOf(i, k) = i.at
        BY <1>2, Zenon DEF AheadIn
      <4> QED
        BY <1>14, <2>4, <4>1
    <3>3. i.wrap = "none" <=> c.left # "no"
      BY <1>5
    <3>4. ReadAfter(n, S, E, F, K, R, i.at, i.wrap, c.left, k)
      BY <1>12, <1>14, <1>17, <3>1, <3>2, <3>3 DEF ReadAfter
    <3>5. OneAfterAnother(S, F, K, R \cup {k}, F[k], i.wrap, c.left)
      BY ONLY <3>4, ReadOneAfterAnother, Zenon
    <3>6. OneAfterAnother(StartsOf(c), EndsOf(c), KnownIn(c), ReadIn(c), c.at, c.wrap, c.left)
      BY ONLY <1>5, <1>13, <1>14, <3>5 DEF F
    <3> QED
      BY <1>5, <2>1, <2>2, <2>4, <3>6 DEF Walk
  <2> QED
    BY <2>3, <2>4
<1>20. InLengths(c)
  <2> DEFINE change == written - taken
             content == Content(i)
  <2>1. Content(c) = content + change
    <3>1. change \in Int /\ MessageWords(c.msgs[k]) = MessageWords(i.msgs[k]) + change
      BY <1>4, <1>5
    <3>2. /\ c.list = i.list /\ c.wrap = i.wrap /\ c.behind = i.behind /\ k \in DOMAIN i.msgs
          /\ Len(c.msgs) = Len(i.msgs) /\ DOMAIN c.msgs = DOMAIN i.msgs
          /\ \A j \in DOMAIN i.msgs : j # k => c.msgs[j] = i.msgs[j]
      BY <1>2, <1>4, <1>5 DEF n, msgs
    <3> HIDE DEF change
    <3> QED
      BY ONLY <1>1, <1>10, <3>1, <3>2, ContentChanged
  <2>2. content \in Int /\ change \in Int
    BY <1>1, ContentIsSum, SMTT(30)
  <2>3. c.left # "done" /\ i.left # "done"
    BY <1>5
  <2> HIDE DEF change, content
  <2>4. i.wrap = "none" => c.payload + c.delta = 4 * Content(c)
    <3> SUFFICES ASSUME i.wrap = "none" PROVE c.payload + c.delta = 4 * Content(c)
      OBVIOUS
    <3>1. i.payload + i.delta = 4 * content
      BY <2>3 DEF InLengths, content
    <3>2. c.payload + c.delta = i.payload + (i.delta + 4 * change)
      BY <1>5 DEF change
    <3> QED
      BY ONLY <1>1, <2>1, <2>2, <3>1, <3>2
  <2>5. i.wrap # "none" => c.payload = 4 * (Wrapper(c.wrap) + c.zip)
    BY <1>5, <2>3 DEF InLengths
  <2>6. ASSUME i.list = "container", i.wrap = "none"
        PROVE  c.first + c.delta = 4 * MessageWords(c.msgs[1])
    <3>1. i.first + i.delta = 4 * MessageWords(i.msgs[1])
      BY <2>3, <2>6 DEF InLengths
    <3>2. k = 1
      <4>1. OneAfterAnother(S, E, K, R, i.at, "none", "no")
        BY <2>6 DEF Walk, S, E, K, R
      <4>3. S[k] = i.at
        <5>1. IF i.list = "dialogs" THEN StartOf(i, k) >= i.at ELSE StartOf(i, k) = i.at
          BY <1>2, Zenon DEF AheadIn
        <5> QED
          BY <1>14, <2>6, <5>1
      <4>5. S[k] = 0
        BY <4>1, <4>3 DEF OneAfterAnother
      <4>6. 1 \in 1 .. n /\ S[1] = 0
        BY <1>1, <1>12, <1>14
      <4> QED
        <5>1. \A j, l \in 1 .. n : j < l => S[j] < S[l]
          BY <1>12 DEF Ascending
        <5>2. ~(1 < k)
          <6>1. ~(S[1] < S[k])
            BY <4>5, <4>6
          <6> QED
            BY <1>14, <4>6, <5>1, <6>1
        <5> QED
          BY <1>1, <1>14, <5>2
    <3> DEFINE old == MessageWords(i.msgs[1])
               now == MessageWords(c.msgs[1])
    <3>3. now = old + change /\ old \in Int
      BY <1>2, <1>4, <1>5, <3>2, WordsOfMessage DEF change, msgs
    <3>4. c.first + c.delta = i.first + (i.delta + 4 * change)
      BY <1>5 DEF change
    <3>5. i.first + i.delta = 4 * old
      BY <3>1
    <3> HIDE DEF old, now
    <3>6. c.first + c.delta = 4 * now
      <4>1. i.first \in Int /\ i.delta \in Int
        BY <1>1
      <4> QED
        BY ONLY <2>2, <3>3, <3>4, <3>5, <4>1
    <3> QED
      BY <3>6 DEF now
  <2>7. ASSUME i.list = "container", i.wrap # "none"
        PROVE  c.first = 4 * WordsGot(c.msgs[1])
    <3>1. i.first = 4 * WordsGot(i.msgs[1])
      BY <2>7 DEF InLengths
    <3>2. 1 \in DOMAIN msgs
      BY <1>1, <1>14
    <3> QED
      BY <1>5, <1>6, <3>1, <3>2 DEF msgs
  <2> QED
    BY <1>5, <2>3, <2>4, <2>5, <2>6, <2>7 DEF InLengths
<1> QED
  BY <1>10, <1>11, <1>19, <1>20

(* What does not depend on how far the buffer has been gone through.       *)
LEMMA SameMessages ==
  ASSUME NEW i, NEW c, c.wrap = i.wrap, c.list = i.list, c.msgs = i.msgs, c.behind = i.behind
  PROVE  /\ StartsOf(c) = StartsOf(i) /\ EndsOf(c) = EndsOf(i) /\ KnownIn(c) = KnownIn(i)
         /\ ReadIn(c) = ReadIn(i) /\ MisreadIn(c) = MisreadIn(i)
         /\ Content(c) = Content(i)
<1>1. \A k : StartOf(c, k) = StartOf(i, k)
  BY DEF StartOf
<1>2. \A k : EndAt(c, k) = EndAt(i, k)
  BY <1>1 DEF EndAt
<1>3. StartsOf(c) = StartsOf(i) /\ EndsOf(c) = EndsOf(i)
  BY <1>1, <1>2 DEF StartsOf, EndsOf
<1>4. KnownIn(c) = KnownIn(i) /\ ReadIn(c) = ReadIn(i) /\ MisreadIn(c) = MisreadIn(i)
  BY DEF KnownIn, ReadIn, MisreadIn
<1>5. Content(c) = Content(i)
  BY DEF Content
<1> QED
  BY <1>3, <1>4, <1>5

LEMMA ArriveStep ==
  ASSUME NEW wrap \in Wraps, NEW list \in ListsIn(wrap), NEW msgs \in Seq(MessageSet), msgs # <<>>,
         list = "single" => Len(msgs) = 1, NEW behind \in Nat,
         \A k \in DOMAIN msgs : /\ MessageOK(wrap, list, msgs[k])
                                /\ msgs[k].shown = "no" /\ msgs[k].word = NoWord,
         NEW b, b = [wrap |-> wrap, list |-> list, msgs |-> msgs, behind |-> behind, at |-> 0,
                     payload |-> 0, first |-> 0, zip |-> 0, delta |-> 0, left |-> "no"],
         NEW zip \in Int,
         NEW c, c = [wrap |-> wrap, list |-> list, msgs |-> msgs, behind |-> behind, at |-> 0,
                     payload |-> DeclaredLen(b, zip), first |-> 4 * MessageWords(msgs[1]),
                     zip |-> zip, delta |-> 0, left |-> "no"]
  PROVE  InOK(c) /\ c.list # "none" /\ Walk(c) /\ InLengths(c)
<1>1. /\ b.wrap = wrap /\ b.list = list /\ b.msgs = msgs /\ b.behind = behind
      /\ c.wrap = wrap /\ c.list = list /\ c.msgs = msgs /\ c.behind = behind /\ c.at = 0
      /\ c.payload = DeclaredLen(b, zip) /\ c.first = 4 * MessageWords(msgs[1]) /\ c.zip = zip
      /\ c.delta = 0 /\ c.left = "no"
  OBVIOUS
<1>2. list \in Lists /\ list # "none"
  BY DEF ListsIn, Lists
<1>3. b \in InputSet
  BY <1>2 DEF InputSet
<1>4. 1 \in DOMAIN msgs /\ msgs[1] \in MessageSet
  OBVIOUS
<1>5. Content(b) \in Int /\ MessageWords(msgs[1]) \in Int
  BY <1>3, <1>4, ContentIsSum, WordsOfMessage
<1>6. /\ wrap = "none" => c.payload = 4 * Content(b)
      /\ wrap # "none" => c.payload = 4 * (Wrapper(wrap) + zip)
  BY <1>1 DEF DeclaredLen
<1>7. Wrapper(wrap) \in Int
  BY DEF Wrapper
<1>8. c \in InputSet
  <2>1. DeclaredLen(b, zip) \in Int
    BY <1>1, <1>5, <1>7 DEF DeclaredLen
  <2>2. 4 * MessageWords(msgs[1]) \in Int
    BY <1>5
  <2> QED
    BY <1>2, <2>1, <2>2 DEF InputSet
<1>9. InOK(c)
  BY <1>1, <1>2, <1>8 DEF InOK
<1> DEFINE n == Len(c.msgs)
           S == StartsOf(c)
<1>10. /\ Ascending(n, S) /\ (n > 0 => S[1] = 0) /\ n \in Nat /\ KnownIn(c) \in SUBSET (1 .. n)
  BY <1>8, Abstraction
<1>11. ReadIn(c) = {}
  BY <1>1 DEF ReadIn, WasRead
<1> HIDE DEF S, n
<1>12. Walk(c)
  <2>1. InOrder(S, EndsOf(c), {}, c.at)
    BY DEF InOrder
  <2>2. AllSeen(S, EndsOf(c), KnownIn(c), {}, MisreadIn(c), 0, "no")
    <3>1. \A k \in KnownIn(c) : S[k] \in Nat
      BY <1>10 DEF Ascending
    <3> QED
      BY <3>1 DEF AllSeen
  <2>3. OneAfterAnother(S, EndsOf(c), KnownIn(c), {}, 0, wrap, "no")
    <3>1. \A k \in KnownIn(c) : k = 1 => S[k] = 0
      BY <1>10
    <3> QED
      BY <3>1 DEF OneAfterAnother, Follows
  <2> QED
    BY <1>1, <1>11, <2>1, <2>2, <2>3 DEF Walk, S
<1>13. InLengths(c)
  <2>1. Content(c) = Content(b)
    BY <1>1, SameMessages
  <2>2. MessageWords(msgs[1]) = WordsGot(msgs[1])
    <3> DEFINE m == msgs[1]
    <3>1. m.word = NoWord /\ m.text = m.got
      BY <1>4 DEF MessageOK
    <3>2. TextAt(m) \in Nat /\ Words(Size(m.got)) \in Nat /\ m.fields \in Nat
      BY <1>4, SizesOfMessage
    <3> HIDE DEF m
    <3>3. MessageWords(m) = TextAt(m) + Words(Size(m.got)) + m.fields + 0
      BY <3>1 DEF MessageWords
    <3>4. WordsGot(m) = TextAt(m) + Words(Size(m.got)) + m.fields
      BY DEF WordsGot
    <3>5. MessageWords(m) = WordsGot(m)
      BY <3>2, <3>3, <3>4
    <3> QED
      BY <3>5 DEF m
  <2>3. c.payload + 0 = c.payload /\ c.first + 0 = c.first
    BY <1>8 DEF InputSet
  <2> QED
    BY <1>1, <1>6, <2>1, <2>2, <2>3 DEF InLengths
<1> QED
  BY <1>1, <1>2, <1>9, <1>12, <1>13

LEMMA NoMessageStep ==
  ASSUME NEW i, InOK(i), i.list # "none", Walk(i), InLengths(i), i.left = "no", AheadIn(i) = {},
         NEW c, c = [i EXCEPT !.left = IF i.at = 0 /\ i.list # "dialogs" THEN "return" ELSE "end"]
  PROVE  InOK(c) /\ c.list # "none" /\ Walk(c) /\ InLengths(c)
<1>1. i \in InputSet
  BY DEF InOK
<1>2. /\ c.wrap = i.wrap /\ c.list = i.list /\ c.msgs = i.msgs /\ c.behind = i.behind
      /\ c.at = i.at /\ c.payload = i.payload /\ c.first = i.first /\ c.zip = i.zip
      /\ c.delta = i.delta
      /\ c.left = IF i.at = 0 /\ i.list # "dialogs" THEN "return" ELSE "end"
      /\ c \in InputSet
  BY <1>1 DEF InputSet
<1>3. InOK(c)
  BY <1>2 DEF InOK
<1>0. /\ StartsOf(c) = StartsOf(i) /\ EndsOf(c) = EndsOf(i) /\ KnownIn(c) = KnownIn(i)
      /\ ReadIn(c) = ReadIn(i) /\ MisreadIn(c) = MisreadIn(i) /\ Content(c) = Content(i)
  <2>1. c.wrap = i.wrap /\ c.list = i.list /\ c.msgs = i.msgs /\ c.behind = i.behind
    BY <1>2
  <2> QED
    BY ONLY <2>1, SameMessages
<1> DEFINE S == StartsOf(i)
           E == EndsOf(i)
           K == KnownIn(i)
           R == ReadIn(i)
           M == MisreadIn(i)
<1>4. /\ StartsOf(c) = S /\ EndsOf(c) = E /\ KnownIn(c) = K /\ ReadIn(c) = R /\ MisreadIn(c) = M
      /\ Content(c) = Content(i)
  BY <1>0, Zenon
<1>5. ASSUME NEW k \in K
      PROVE  /\ S[k] \in Nat /\ i.at \in Nat
             /\ i.list = "dialogs" => ~(S[k] >= i.at)
             /\ i.list # "dialogs" => S[k] # i.at
  <2>1. k \in DOMAIN i.msgs /\ i.msgs[k].kind # "other" /\ S[k] = StartOf(i, k)
    BY DEF KnownIn, StartsOf
  <2>2. k \notin AheadIn(i)
    OBVIOUS
  <2>3. ~(IF i.list = "dialogs" THEN StartOf(i, k) >= i.at ELSE StartOf(i, k) = i.at)
    BY <2>1, <2>2, Zenon DEF AheadIn
  <2>4. StartOf(i, k) \in Nat /\ i.at \in Nat
    BY <1>1, <2>1, Ends DEF InputSet
  <2> HIDE DEF S
  <2> QED
    BY <2>1, <2>3, <2>4
<1> HIDE DEF S, E, K, R, M
<1>6. Walk(c)
  <2>1. InOrder(S, E, R, i.at) /\ (i.at = 0 => i.delta = 0)
    BY DEF Walk, S, E, R
  <2>2. ASSUME i.list = "dialogs" PROVE AllSeen(S, E, K, R, M, i.at, c.left)
    <3>1. AllSeen(S, E, K, R, M, i.at, "no")
      BY <2>2 DEF Walk, S, E, K, R, M
    <3>2. \A k \in K : S[k] < i.at
      BY <1>5, <2>2
    <3> QED
      BY <3>1, <3>2 DEF AllSeen
  <2>3. ASSUME i.list # "dialogs" PROVE OneAfterAnother(S, E, K, R, i.at, i.wrap, c.left)
    <3>1. OneAfterAnother(S, E, K, R, i.at, i.wrap, "no")
      BY <2>3 DEF Walk, S, E, K, R
    <3>2. \A k \in K : S[k] # i.at
      BY <1>5, <2>3
    <3>3. c.left # "no"
      BY <1>2
    <3> QED
      BY <3>1, <3>2, <3>3 DEF OneAfterAnother
  <2> QED
    BY <1>2, <1>4, <2>1, <2>2, <2>3 DEF Walk
<1>7. InLengths(c)
  <2>1. c.left # "done" /\ i.left # "done"
    BY <1>2
  <2> QED
    BY <1>2, <1>4, <2>1 DEF InLengths
<1> QED
  BY <1>2, <1>3, <1>6, <1>7

Corrected(i, zip, payload, first) ==
  [i EXCEPT !.left = "done", !.zip = zip, !.payload = payload, !.first = first]

LEMMA CorrectStep ==
  ASSUME NEW i, InOK(i), i.list # "none", Walk(i), InLengths(i), i.left = "end", NEW zip \in Int,
         NEW payload, payload = (IF i.wrap = "none" THEN i.payload + i.delta
                                 ELSE i.payload + 4 * (Content(i) - i.zip)),
         NEW first, first = (IF i.wrap = "none" /\ i.list = "container" THEN i.first + i.delta
                             ELSE i.first),
         NEW c, c = Corrected(i, zip, payload, first)
  PROVE  InOK(c) /\ c.list # "none" /\ Walk(c) /\ InLengths(c)
<1>1. /\ i \in InputSet /\ i.payload \in Int /\ i.first \in Int /\ i.delta \in Int /\ i.zip \in Int
  BY DEF InOK, InputSet
<1>2. Content(i) \in Int
  BY <1>1, ContentIsSum
<1>3. payload \in Int /\ first \in Int
  BY <1>1, <1>2
<1>4. /\ c.wrap = i.wrap /\ c.list = i.list /\ c.msgs = i.msgs /\ c.behind = i.behind
      /\ c.at = i.at /\ c.payload = payload /\ c.first = first /\ c.delta = i.delta
      /\ c.left = "done" /\ c \in InputSet
  <2>1. c = [i EXCEPT !.left = "done", !.zip = zip, !.payload = payload, !.first = first]
    BY DEF Corrected
  <2> QED
    BY <1>1, <1>3, <2>1 DEF InputSet
<1>5. InOK(c)
  BY <1>4 DEF InOK
<1>6. /\ StartsOf(c) = StartsOf(i) /\ EndsOf(c) = EndsOf(i) /\ KnownIn(c) = KnownIn(i)
      /\ ReadIn(c) = ReadIn(i) /\ MisreadIn(c) = MisreadIn(i) /\ Content(c) = Content(i)
  BY <1>4, SameMessages
<1>7. Walk(c)
  <2>1. ASSUME i.list = "dialogs"
        PROVE  AllSeen(StartsOf(i), EndsOf(i), KnownIn(i), ReadIn(i), MisreadIn(i), i.at, "done")
    BY <2>1 DEF Walk, AllSeen
  <2>2. ASSUME i.list # "dialogs"
        PROVE  OneAfterAnother(StartsOf(i), EndsOf(i), KnownIn(i), ReadIn(i), i.at, i.wrap, "done")
    BY <2>2 DEF Walk, OneAfterAnother
  <2>3. InOrder(StartsOf(i), EndsOf(i), ReadIn(i), i.at) /\ (i.at = 0 => i.delta = 0)
    BY DEF Walk
  <2> QED
    BY <1>4, <1>6, <2>1, <2>2, <2>3 DEF Walk
<1>8. InLengths(c)
  <2> DEFINE content == Content(i)
             words == MessageWords(i.msgs[1])
             wrapper == Wrapper(i.wrap)
  <2>1. i.wrap = "none" => i.payload + i.delta = 4 * content
    BY DEF InLengths
  <2>2. i.wrap # "none" => i.payload = 4 * (wrapper + i.zip)
    BY DEF InLengths
  <2>3. i.list = "container" => IF i.wrap = "none" THEN i.first + i.delta = 4 * words
                                ELSE i.first = 4 * WordsGot(i.msgs[1])
    BY DEF InLengths
  <2>4. wrapper \in Int
    BY DEF Wrapper
  <2> HIDE DEF content, words, wrapper
  <2>5. i.wrap = "none" => c.payload + 0 = 4 * content
    BY ONLY <1>1, <1>3, <1>4, <2>1, payload = (IF i.wrap = "none" THEN i.payload + i.delta
                                               ELSE i.payload + 4 * (Content(i) - i.zip))
  <2>6. i.wrap # "none" => c.payload = 4 * (wrapper + content)
    <3> SUFFICES ASSUME i.wrap # "none" PROVE c.payload = 4 * (wrapper + content)
      OBVIOUS
    <3>1. c.payload = i.payload + 4 * (content - i.zip) /\ i.payload = 4 * (wrapper + i.zip)
      BY <1>4, <2>2 DEF content
    <3>2. content \in Int
      BY <1>2 DEF content
    <3> QED
      BY ONLY <1>1, <2>4, <3>1, <3>2
  <2>7. i.list = "container" => IF i.wrap = "none" THEN c.first + 0 = 4 * words
                                ELSE c.first = 4 * WordsGot(i.msgs[1])
    BY <1>3, <1>4, <2>3
  <2> QED
    BY <1>4, <1>6, <2>5, <2>6, <2>7 DEF InLengths, content, words, wrapper
<1> QED
  BY <1>4, <1>5, <1>7, <1>8

-----------------------------------------------------------------------------
(* The inductive invariant, and why every step keeps it.                   *)

ServerOK(s) ==
  /\ s \subseteq [text : TextSet, sent : TextSet]
  /\ \A e \in s : SentAs(e.text, e.sent)

(* One buffer at a time; an exception leaves the buffer as it was.         *)
Together(b, i, f) ==
  /\ b.items = <<>> \/ i.list = "none"
  /\ f \in {"none", "stoi", "throws", "outside"}
  /\ f # "none" => b.left = "no" /\ i.left = "no"
  /\ f = "stoi" => IF i.list # "none" THEN i.msgs[Min(AheadIn(i))].got.beyond
                   ELSE b.items[Min(Waiting(b))].sent.beyond
  /\ f = "throws" => i.msgs[Min(AheadIn(i))].got.clear > MaxKept
  /\ f = "outside" /\ i.list # "none" =>
       \E k \in DOMAIN i.msgs : LenOf(i.msgs[k].word) > 4 * i.behind
  /\ f = "none" /\ i.list # "none" => Walk(i) /\ InLengths(i)

Fits(b, i, s, f) == OutOK(b) /\ InOK(i) /\ ServerOK(s) /\ Together(b, i, f)

WireInv == \E b, i, s, f :
  /\ out = b /\ in = i /\ server = s /\ fault = f
  /\ Fits(b, i, s, f)

LEMMA NothingThere ==
  /\ NoBuffer.items = <<>> /\ NoBuffer.left = "no" /\ OutOK(NoBuffer)
  /\ NoInput.list = "none" /\ NoInput.left = "no" /\ InOK(NoInput)
<1>1. /\ NoBuffer.items = <<>> /\ NoBuffer.left = "no"
      /\ NoInput.list = "none" /\ NoInput.left = "no" /\ NoInput.msgs = <<>>
  BY DEF NoBuffer, NoInput
<1>2. NoBuffer \in BufferSet
  BY DEF NoBuffer, BufferSet
<1>3. OutOK(NoBuffer)
  <2>1. OutTexts(NoBuffer) /\ OutShape(NoBuffer) /\ OutLengths(NoBuffer)
    BY <1>1 DEF OutTexts, OutShape, OutLengths
  <2>2. OutIndex(NoBuffer)
    BY DEF NoBuffer, OutIndex
  <2> QED
    BY <1>2, <2>1, <2>2 DEF OutOK
<1>4. NoInput \in InputSet
  BY DEF NoInput, InputSet, Wraps
<1>5. InOK(NoInput)
  BY <1>1, <1>4 DEF InOK
<1> QED
  BY <1>1, <1>3, <1>5

LEMMA WireInit == Init => WireInv
<1> SUFFICES ASSUME Init PROVE WireInv
  OBVIOUS
<1>1. out = NoBuffer /\ server = {} /\ in = NoInput /\ fault = "none"
  BY DEF Init
<1>2. ServerOK({})
  BY DEF ServerOK
<1>3. Together(NoBuffer, NoInput, "none")
  BY NothingThere DEF Together
<1>4. Fits(NoBuffer, NoInput, {}, "none")
  BY <1>2, <1>3, NothingThere DEF Fits
<1> QED
  BY <1>1, <1>4 DEF WireInv

LEMMA PackKeeps ==
  ASSUME WireInv, Quiet, NEW items \in Seq(ItemSet), items # <<>>, NEW boxed \in BOOLEAN,
         \A k \in DOMAIN items : Fresh(items[k]),
         ~boxed => Len(items) = 1,
         Len(items) > 1 => \A k \in DOMAIN items : IsText(items[k]) => items[k].lead = 0,
         Pack(items, boxed)
  PROVE  WireInv'
<1>1. PICK b, i, s, f : out = b /\ in = i /\ server = s /\ fault = f /\ Fits(b, i, s, f)
  BY DEF WireInv
<1>2. i = NoInput /\ f = "none"
  BY <1>1 DEF Quiet
<1> DEFINE c == [items |-> items, boxed |-> boxed, payload |-> PayloadLen(boxed, items),
                 at |-> FirstBody(boxed), growth |-> 0, left |-> "no"]
<1>3. out' = c /\ UNCHANGED <<server, in, fault>>
  BY DEF Pack, NoBuffer
<1>4. OutOK(c)
  <2>1. c = [items |-> items, boxed |-> boxed, payload |-> PayloadLen(boxed, items),
             at |-> FirstBody(boxed), growth |-> 0, left |-> "no"]
    OBVIOUS
  <2> HIDE DEF c
  <2> QED
    BY <2>1, PackStep
<1>5. c.left = "no"
  OBVIOUS
<1> HIDE DEF c
<1>6. Together(c, i, f)
  BY <1>2, <1>5, NothingThere DEF Together
<1>7. Fits(c, i, s, f)
  BY <1>1, <1>4, <1>6 DEF Fits
<1> QED
  BY <1>1, <1>3, <1>7 DEF WireInv

LEMMA PackOneKeeps ==
  ASSUME WireInv, NEW peer \in Peers, NEW keyed \in BOOLEAN, NEW boxed \in BOOLEAN,
         NEW lead \in {0, InvokeAfterMsg}, PackOne(peer, keyed, lead, boxed)
  PROVE  WireInv'
<1>1. PICK item \in TextsTo(peer, keyed, lead) : Pack(<<item>>, boxed)
  BY DEF PackOne
<1>2. PICK text \in Written \cup Started \cup {Lookalike} : item = Item(text, peer, keyed, lead)
  BY DEF TextsTo
<1>3. text \in TextSet /\ ~text.sealed /\ lead \in Nat
  BY WrittenTexts DEF InvokeAfterMsg
<1>4. Fresh(item)
  BY <1>2, <1>3, FreshItem
<1>5. item \in ItemSet
  BY <1>4 DEF Fresh
<1> DEFINE items == <<item>>
<1>6. items \in Seq(ItemSet) /\ items # <<>> /\ Len(items) = 1
      /\ \A k \in DOMAIN items : items[k] = item
  BY <1>5
<1>7. Quiet
  BY DEF PackOne
<1>8. Pack(items, boxed)
  BY <1>1
<1> HIDE DEF items
<1>9. /\ \A k \in DOMAIN items : Fresh(items[k])
      /\ ~boxed => Len(items) = 1
      /\ Len(items) > 1 => \A k \in DOMAIN items : IsText(items[k]) => items[k].lead = 0
  BY <1>4, <1>6
<1> QED
  BY <1>6, <1>7, <1>8, <1>9, PackKeeps, Zenon

LEMMA PackSeveralKeeps ==
  ASSUME WireInv, NEW n \in 2 .. MaxItems, PackSeveral(n)
  PROVE  WireInv'
<1> DEFINE Some == Others \cup {Item(text, "user", TRUE, 0) : text \in Written}
                   \cup {Item(text, "channel", FALSE, 0) : text \in Written}
<1>1. PICK items \in [1 .. n -> Some] : Quiet /\ Pack(items, TRUE)
  BY DEF PackSeveral
<1>2. ASSUME NEW item \in Some
      PROVE  Fresh(item) /\ (IsText(item) => item.lead = 0)
  <2>1. CASE item \in Others
    <3>1. PICK words \in OtherWords : item = Item(Plain(0), "none", FALSE, words)
      BY <2>1 DEF Others
    <3>2. words \in Nat
      BY WireAssumption
    <3>4. /\ Plain(0) \in TextSet /\ ~Plain(0).sealed /\ FALSE \in BOOLEAN
          /\ "none" \in Peers \cup {"none"}
      BY PlainText
    <3>3. Fresh(item) /\ item.peer = "none"
      BY <3>1, <3>2, <3>4, FreshItem, ZenonT(30)
    <3> QED
      BY <3>3 DEF IsText
  <2>2. CASE item \notin Others
    <3>1. PICK text \in Written : \/ item = Item(text, "user", TRUE, 0)
                                  \/ item = Item(text, "channel", FALSE, 0)
      BY <1>2, <2>2
    <3>2. text \in TextSet /\ ~text.sealed
      BY <3>1, WrittenTexts
    <3>3. /\ "user" \in Peers \cup {"none"} /\ "channel" \in Peers \cup {"none"}
          /\ TRUE \in BOOLEAN /\ FALSE \in BOOLEAN /\ 0 \in Nat
      BY DEF Peers, TextStart
    <3>4. CASE item = Item(text, "user", TRUE, 0)
      BY <3>2, <3>3, <3>4, FreshItem, ZenonT(30)
    <3>5. CASE item = Item(text, "channel", FALSE, 0)
      BY <3>2, <3>3, <3>5, FreshItem, ZenonT(30)
    <3> QED
      BY <3>1, <3>4, <3>5
  <2> QED
    BY <2>1, <2>2
<1> HIDE DEF Some
<1>3. n \in Nat /\ n >= 2
  BY WireAssumption
<1>4. DOMAIN items = 1 .. n /\ \A k \in 1 .. n : items[k] \in Some
  OBVIOUS
<1>5. \A k \in 1 .. n : items[k] \in ItemSet /\ Fresh(items[k])
                        /\ (IsText(items[k]) => items[k].lead = 0)
  BY <1>2, <1>4 DEF Fresh
<1>6. items \in Seq(ItemSet) /\ Len(items) = n
  <2>1. items \in [1 .. n -> ItemSet]
    BY <1>4, <1>5
  <2> QED
    BY <1>3, <2>1
<1>7. items # <<>>
  BY <1>3, <1>6
<1> QED
  BY <1>1, <1>4, <1>5, <1>6, <1>7, PackKeeps

(* The text the loop comes to is the first behind the index.               *)
LEMMA FirstWaiting ==
  ASSUME NEW b, OutOK(b), Waiting(b) # {}
  PROVE  Min(Waiting(b)) \in Waiting(b)
<1> DEFINE S == Waiting(b)
<1>1. S \in SUBSET Nat
  BY DEF OutOK, BufferSet, Waiting
<1> HIDE DEF S
<1>2. S # {}
  BY DEF S
<1>3. Min(S) \in S
  BY <1>1, <1>2, LeastElement
<1> QED
  BY <1>3 DEF S

LEMMA ReturnEarlyKeeps ==
  ASSUME WireInv, NEW k, ReturnEarly(k)
  PROVE  WireInv'
<1>1. PICK b, i, s, f : out = b /\ in = i /\ server = s /\ fault = f /\ Fits(b, i, s, f)
  BY DEF WireInv
<1>2. OutOK(b) /\ InOK(i) /\ ServerOK(s) /\ Together(b, i, f)
  BY <1>1 DEF Fits
<1>3. b # NoBuffer /\ b.left = "no" /\ b.at >= 0 /\ f = "none"
  BY <1>1 DEF ReturnEarly, Found, Looking
<1>4. b.items # <<>>
  BY <1>2, <1>3 DEF OutOK, OutShape
<1> DEFINE c == [b EXCEPT !.left = "return"]
<1>5. out' = c /\ UNCHANGED <<server, in, fault>>
  BY <1>1 DEF ReturnEarly
<1>6. OutOK(c) /\ c.items = b.items
  <2>1. c = [b EXCEPT !.left = "return"]
    OBVIOUS
  <2> HIDE DEF c
  <2> QED
    BY <1>2, <1>3, <1>4, <2>1, ReturnStep
<1> HIDE DEF c
<1>7. Together(c, i, f)
  BY <1>2, <1>3, <1>6 DEF Together
<1>8. Fits(c, i, s, f)
  BY <1>2, <1>6, <1>7 DEF Fits
<1> QED
  BY <1>1, <1>5, <1>8 DEF WireInv

LEMMA ThrowOnSendKeeps ==
  ASSUME WireInv, NEW k, ThrowOnSend(k)
  PROVE  WireInv'
<1>1. PICK b, i, s, f : out = b /\ in = i /\ server = s /\ fault = f /\ Fits(b, i, s, f)
  BY DEF WireInv
<1>2. OutOK(b) /\ InOK(i) /\ ServerOK(s) /\ Together(b, i, f)
  BY <1>1 DEF Fits
<1>3. /\ b # NoBuffer /\ b.left = "no" /\ Waiting(b) # {} /\ k = Min(Waiting(b))
      /\ FillOptions(b.items[k].text) = "throws"
  BY <1>1 DEF ThrowOnSend, Found, Looking, Throws, Pending, Waiting
<1>4. b.items # <<>> /\ i.list = "none"
  BY <1>2, <1>3 DEF OutOK, OutShape, Together
<1>5. i.left = "no"
  BY <1>2, <1>4, NothingThere DEF InOK
<1>6. b.items[k].sent.beyond
  <2> DEFINE item == b.items[k]
  <2>1. k \in DOMAIN b.items
    BY <1>2, <1>3, FirstWaiting DEF Waiting
  <2>2. item \in ItemSet
    BY <1>2, <2>1 DEF OutOK, BufferSet
  <2>3. SentAs(item.text, item.sent)
    BY <1>2, <2>1 DEF OutOK, OutTexts
  <2>4. FillOptions(item.text) = "throws"
    BY <1>3
  <2> HIDE DEF item
  <2>5. item.text = item.sent
    <3>1. item.text \in TextSet /\ item.sent \in TextSet
      BY <2>2 DEF ItemSet
    <3> QED
      BY <2>3, <2>4, <3>1, SentText
  <2>6. item.sent.beyond
    BY <2>4, <2>5 DEF FillOptions
  <2> QED
    BY <2>6 DEF item
<1>7. fault' = "stoi" /\ UNCHANGED <<out, server, in>>
  BY DEF ThrowOnSend
<1>8. Together(b, i, "stoi")
  BY <1>2, <1>3, <1>4, <1>5, <1>6 DEF Together
<1>9. Fits(b, i, s, "stoi")
  BY <1>2, <1>8 DEF Fits
<1> QED
  BY <1>1, <1>7, <1>9 DEF WireInv

LEMMA EncryptTextKeeps ==
  ASSUME WireInv, NEW k, NEW n \in LastKeys, EncryptText(k, n)
  PROVE  WireInv'
<1>1. PICK b, i, s, f : out = b /\ in = i /\ server = s /\ fault = f /\ Fits(b, i, s, f)
  BY DEF WireInv
<1>2. OutOK(b) /\ InOK(i) /\ ServerOK(s) /\ Together(b, i, f)
  BY <1>1 DEF Fits
<1> DEFINE text == EncryptMessage(b.items[k].text, n)
           grown == Words(Size(text)) - Words(Size(b.items[k].text))
           new == [b.items EXCEPT ![k].text = text]
           c == [items |-> new, boxed |-> b.boxed, payload |-> b.payload,
                 at |-> RequestAt(b, k) + 4 * grown + 1, growth |-> b.growth + 4 * grown,
                 left |-> "no"]
<1>3. /\ b # NoBuffer /\ b.left = "no" /\ f = "none" /\ Waiting(b) # {} /\ k = Min(Waiting(b))
      /\ FillOptions(b.items[k].text) = "no"
  BY <1>1 DEF EncryptText, Found, Looking, Changes, Pending, Waiting
<1>4. k \in Waiting(b)
  BY <1>2, <1>3, FirstWaiting
<1>5. b \in BufferSet /\ b.items \in Seq(ItemSet) /\ k \in DOMAIN b.items
      /\ b.items[k] \in ItemSet
  BY <1>2, <1>4 DEF OutOK, BufferSet, Waiting
<1>6. out' = [b EXCEPT !.items[k].text = text, !.growth = @ + 4 * grown,
                       !.at = Advance(RequestAt(b, k), grown)]
      /\ UNCHANGED <<server, in, fault>>
  BY <1>1 DEF EncryptText
<1> HIDE DEF text, grown
<1>7. out' = c
  <2>1. b = [items |-> b.items, boxed |-> b.boxed, payload |-> b.payload, at |-> b.at,
             growth |-> b.growth, left |-> b.left]
    BY <1>5 DEF BufferSet
  <2>2. out' = [b EXCEPT !.items = new, !.growth = b.growth + 4 * grown,
                      !.at = RequestAt(b, k) + 4 * grown + 1]
    BY <1>6 DEF Advance
  <2> HIDE DEF new
  <2> QED
    BY <1>3, <2>1, <2>2
<1>8. text \in TextSet
  <2> DEFINE item == b.items[k]
  <2>1. item.text \in TextSet
    <3> HIDE DEF item
    <3>1. item \in ItemSet
      BY <1>5 DEF item
    <3> QED
      BY <3>1 DEF ItemSet
  <2>2. n \in Nat /\ Size(item.text) \in Nat
    BY <2>1, KeysAreNat, SizeOfText
  <2>3. text = EncryptMessage(Plain(Size(item.text)), n)
    BY <2>1, <2>2, EncryptedBySize DEF text
  <2> HIDE DEF item
  <2> QED
    BY <2>2, <2>3, EncryptedText
<1>9. TextChanged(b.items, k, text, new)
  BY <1>5, <1>8, TextReplaced
<1> HIDE DEF new
<1>10. OutOK(c) /\ c.items # <<>> /\ c.left = "no"
  <2>1. text = EncryptMessage(b.items[k].text, n)
        /\ grown = Words(Size(text)) - Words(Size(b.items[k].text))
    BY DEF text, grown
  <2>2. c = [items |-> new, boxed |-> b.boxed, payload |-> b.payload,
             at |-> RequestAt(b, k) + 4 * grown + 1, growth |-> b.growth + 4 * grown,
             left |-> "no"]
    OBVIOUS
  <2> HIDE DEF c
  <2>3. /\ OutOK(b) /\ b.left = "no" /\ k \in Waiting(b) /\ n \in LastKeys
        /\ FillOptions(b.items[k].text) = "no" /\ TextChanged(b.items, k, text, new)
    BY <1>2, <1>3, <1>4, <1>9
  <2> QED
    BY ONLY <2>1, <2>2, <2>3, EncryptStep
<1> HIDE DEF c
<1>11. i.list = "none"
  BY <1>2, <1>3 DEF OutOK, OutShape, Together
<1>12. Together(c, i, f)
  BY <1>2, <1>3, <1>11 DEF Together
<1>13. Fits(c, i, s, f)
  BY <1>2, <1>10, <1>12 DEF Fits
<1> QED
  BY <1>1, <1>6, <1>7, <1>13 DEF WireInv

LEMMA ReadBeforeKeeps ==
  ASSUME WireInv, NEW crashes \in BOOLEAN, ReadBefore(crashes)
  PROVE  WireInv'
<1>1. PICK b, i, s, f : out = b /\ in = i /\ server = s /\ fault = f /\ Fits(b, i, s, f)
  BY DEF WireInv
<1>2. OutOK(b) /\ InOK(i) /\ ServerOK(s) /\ Together(b, i, f)
  BY <1>1 DEF Fits
<1>3. b.at < 0 /\ f = "none" /\ UNCHANGED <<server, in>>
  BY <1>1 DEF ReadBefore
<1>4. b.items # <<>>
  BY <1>2, <1>3 DEF OutOK, OutShape, NoBuffer
<1>5. i.list = "none" /\ i.left = "no"
  BY <1>2, <1>4, NothingThere DEF Together, InOK
<1>6. CASE crashes
  <2>1. fault' = "outside" /\ UNCHANGED out
    BY <1>6 DEF ReadBefore
  <2>2. b.left = "no"
    BY <1>2, <1>3 DEF OutOK, OutShape
  <2>3. Together(b, i, "outside")
    BY <1>2, <1>5, <2>2 DEF Together
  <2>4. Fits(b, i, s, "outside")
    BY <1>2, <2>3 DEF Fits
  <2> QED
    BY <1>1, <1>3, <2>1, <2>4 DEF WireInv
<1>7. CASE ~crashes
  <2> DEFINE c == [b EXCEPT !.at = 0]
  <2>1. out' = c /\ UNCHANGED fault
    BY <1>1, <1>7 DEF ReadBefore
  <2>2. OutOK(c) /\ c.items = b.items /\ c.left = b.left
    <3>1. c = [b EXCEPT !.at = 0]
      OBVIOUS
    <3> HIDE DEF c
    <3> QED
      BY <1>2, <1>3, <3>1, RewindStep
  <2> HIDE DEF c
  <2>3. Together(c, i, f)
    BY <1>2, <1>3, <1>5 DEF Together
  <2>4. Fits(c, i, s, f)
    BY <1>2, <2>2, <2>3 DEF Fits
  <2> QED
    BY <1>1, <1>3, <2>1, <2>4 DEF WireInv
<1> QED
  BY <1>6, <1>7

LEMMA LoopEndsKeeps ==
  ASSUME WireInv, LoopEnds
  PROVE  WireInv'
<1>1. PICK b, i, s, f : out = b /\ in = i /\ server = s /\ fault = f /\ Fits(b, i, s, f)
  BY DEF WireInv
<1>2. OutOK(b) /\ InOK(i) /\ ServerOK(s) /\ Together(b, i, f)
  BY <1>1 DEF Fits
<1>3. b # NoBuffer /\ b.left = "no" /\ b.at >= 0 /\ f = "none"
  BY <1>1 DEF LoopEnds, Looking
<1>4. /\ b.items # <<>> /\ b \in BufferSet /\ b.items \in Seq(ItemSet)
      /\ b.items[1] \in ItemSet /\ b.growth \in Int /\ b.boxed \in BOOLEAN
  BY <1>2, <1>3 DEF OutOK, OutShape, BufferSet
<1> DEFINE len == IF b.boxed THEN b.items[1].declared + b.growth ELSE b.items[1].declared
           new == [b.items EXCEPT ![1].declared = len]
           c == [items |-> new, boxed |-> b.boxed, payload |-> b.payload + b.growth,
                 at |-> b.at, growth |-> b.growth, left |-> "end"]
<1>5. len \in Int
  <2> DEFINE item == b.items[1]
  <2>1. item \in ItemSet
    BY <1>4
  <2> HIDE DEF item
  <2>2. item.declared \in Int
    BY <2>1 DEF ItemSet
  <2> QED
    BY <1>4, <2>2 DEF item
<1>6. out' = [b EXCEPT !.payload = @ + b.growth, !.left = "end", !.items[1].declared = len]
      /\ UNCHANGED <<server, in, fault>>
  BY <1>1 DEF LoopEnds
<1> HIDE DEF len
<1>7. out' = c
  <2>1. b = [items |-> b.items, boxed |-> b.boxed, payload |-> b.payload, at |-> b.at,
             growth |-> b.growth, left |-> b.left]
    BY <1>4 DEF BufferSet
  <2>2. out' = [b EXCEPT !.payload = b.payload + b.growth, !.left = "end", !.items = new]
    BY <1>6
  <2> HIDE DEF new
  <2> QED
    BY <2>1, <2>2
<1>8. HeadChanged(b.items, len, new)
  BY <1>4, <1>5, HeadReplaced
<1> HIDE DEF new
<1>9. OutOK(c) /\ c.items # <<>>
  <2>1. c = [items |-> new, boxed |-> b.boxed, payload |-> b.payload + b.growth,
             at |-> b.at, growth |-> b.growth, left |-> "end"]
    OBVIOUS
  <2>2. HeadChanged(b.items, IF b.boxed THEN b.items[1].declared + b.growth
                             ELSE b.items[1].declared, new)
    BY <1>8 DEF len
  <2> HIDE DEF c
  <2> QED
    BY <1>2, <1>3, <1>4, <2>1, <2>2, EndStep
<1> HIDE DEF c
<1>10. i.list = "none"
  BY <1>2, <1>4 DEF Together
<1>11. Together(c, i, f)
  BY <1>2, <1>3, <1>10 DEF Together
<1>12. Fits(c, i, s, f)
  BY <1>2, <1>9, <1>11 DEF Fits
<1> QED
  BY <1>1, <1>6, <1>7, <1>12 DEF WireInv

LEMMA TransmitKeeps ==
  ASSUME WireInv, Transmit
  PROVE  WireInv'
<1>1. PICK b, i, s, f : out = b /\ in = i /\ server = s /\ fault = f /\ Fits(b, i, s, f)
  BY DEF WireInv
<1>2. OutOK(b) /\ InOK(i) /\ ServerOK(s) /\ Together(b, i, f)
  BY <1>1 DEF Fits
<1>3. b.left # "no" /\ out' = NoBuffer /\ UNCHANGED <<in, fault>>
  BY <1>1 DEF Transmit
<1>4. f = "none"
  BY <1>2, <1>3 DEF Together
<1>5. Together(NoBuffer, i, f)
  BY <1>2, <1>4, NothingThere DEF Together
<1>6. PICK t : server' = t /\ ServerOK(t)
  <2>1. CASE Framed
    <3>1. PICK k \in DOMAIN b.items :
            server' = IF IsText(b.items[k])
                      THEN {[text |-> b.items[k].text, sent |-> b.items[k].sent]} ELSE {}
      BY <1>1, <2>1 DEF Transmit
    <3> DEFINE item == b.items[k]
    <3>2. item \in ItemSet /\ SentAs(item.text, item.sent)
      BY <1>2 DEF OutOK, BufferSet, OutTexts
    <3> HIDE DEF item
    <3>3. item.text \in TextSet /\ item.sent \in TextSet
      BY <3>2 DEF ItemSet
    <3>4. ServerOK({[text |-> item.text, sent |-> item.sent]})
      BY <3>2, <3>3 DEF ServerOK
    <3>5. ServerOK({})
      BY DEF ServerOK
    <3> QED
      BY <3>1, <3>4, <3>5 DEF item
  <2>2. CASE ~Framed
    BY <1>1, <1>2, <2>2 DEF Transmit
  <2> QED
    BY <2>1, <2>2
<1>7. Fits(NoBuffer, i, t, f)
  BY <1>2, <1>5, <1>6, NothingThere DEF Fits
<1> QED
  BY <1>1, <1>3, <1>6, <1>7 DEF WireInv

LEMMA TextsToRead ==
  ASSUME NEW s, ServerOK(s), NEW t \in {e.text : e \in s} \cup {Plain(size) : size \in Foreign}
  PROVE  t \in TextSet /\ (t.sealed => Encrypted(t, t.clear))
<1>1. ASSUME NEW e \in s, t = e.text
      PROVE  t \in TextSet /\ (t.sealed => Encrypted(t, t.clear))
  <2>1. e.text \in TextSet /\ e.sent \in TextSet /\ SentAs(e.text, e.sent)
    BY DEF ServerOK
  <2>2. ASSUME t.sealed PROVE Encrypted(t, t.clear)
    <3>1. t # e.sent
      BY <1>1, <2>1, <2>2, SentText
    <3>2. PICK n \in LastKeys : t = EncryptMessage(Plain(Size(e.sent)), n)
      BY <1>1, <2>1, <3>1 DEF SentAs, Encrypted
    <3>3. Size(e.sent) \in Nat /\ n \in Nat
      BY <2>1, SizeOfText, KeysAreNat
    <3>4. t.clear = Size(e.sent)
      BY <3>2, <3>3, EncryptedText, Zenon
    <3> QED
      BY <3>2, <3>4 DEF Encrypted
  <2> QED
    BY <1>1, <2>1, <2>2
<1>2. ASSUME NEW size \in Foreign, t = Plain(size)
      PROVE  t \in TextSet /\ (t.sealed => Encrypted(t, t.clear))
  <2>1. size \in Nat
    BY WireAssumption
  <2> QED
    BY <1>2, <2>1, PlainText
<1> QED
  BY <1>1, <1>2

LEMMA ArrivedMessage ==
  ASSUME NEW s, ServerOK(s), NEW wrap \in Wraps, NEW list \in ListsIn(wrap),
         NEW text \in {e.text : e \in s} \cup {Plain(size) : size \in Foreign} \cup {Plain(0)},
         NEW kind \in Kinds(list), NEW layout \in Layouts \cup {NoOptions},
         NEW fields \in Fields \cup {0},
         NEW m, m = Message(kind, layout, text, fields)
  PROVE  /\ m \in MessageSet /\ MessageOK(wrap, list, m)
         /\ m.shown = "no" /\ m.word = NoWord
<1>1. text \in TextSet /\ (text.sealed => Encrypted(text, text.clear))
  <2>1. CASE text = Plain(0)
    BY <2>1, PlainText
  <2>2. CASE text # Plain(0)
    <3>1. text \in {e.text : e \in s} \cup {Plain(size) : size \in Foreign}
      BY <2>2
    <3> QED
      BY ONLY <3>1, ServerOK(s), TextsToRead
  <2> QED
    BY <2>1, <2>2
<1>2. layout \in LayoutSet
  <2>1. Layouts \subseteq LayoutSet
    BY WireAssumption DEF LayoutSet, AnyPeer
  <2>2. NoOptions \in LayoutSet
    BY DEF NoOptions, LayoutSet, AnyPeer
  <2> QED
    BY <2>1, <2>2
<1>3. fields \in Nat
  BY WireAssumption
<1>4. m = [kind |-> kind, layout |-> layout, got |-> text, text |-> text, fields |-> fields,
           shown |-> "no", word |-> NoWord]
  BY DEF Message
<1>5. kind \in {"other", "updateShortMessage", "updateShortChatMessage", "message"}
  BY DEF Kinds
<1>6. m \in MessageSet
  BY <1>1, <1>2, <1>3, <1>4, <1>5 DEF MessageSet
<1> QED
  BY <1>1, <1>4, <1>6 DEF MessageOK

LEMMA ArriveSomeKeeps ==
  ASSUME WireInv, NEW wrap \in Wraps, NEW list \in ListsIn(wrap), NEW n \in 1 .. MaxRead,
         ArriveSome(wrap, list, n)
  PROVE  WireInv'
<1>1. PICK b, i, s, f : out = b /\ in = i /\ server = s /\ fault = f /\ Fits(b, i, s, f)
  BY DEF WireInv
<1>2. OutOK(b) /\ InOK(i) /\ ServerOK(s) /\ Together(b, i, f)
  BY <1>1 DEF Fits
<1>3. b = NoBuffer /\ f = "none"
  BY <1>1 DEF ArriveSome, Quiet
<1> DEFINE texts == {e.text : e \in s} \cup {Plain(size) : size \in Foreign}
           some == {Message(kind, layout, text, fields) :
                      kind \in Kinds(list) \ {"other"}, text \in texts, fields \in Fields,
                      layout \in IF "message" \in Kinds(list) THEN Layouts ELSE {NoOptions}}
                   \cup {Message("other", NoOptions, Plain(0), 0)}
<1>4. PICK msgs \in [1 .. n -> some], behind \in Behind : Arrive(wrap, list, msgs, behind)
  BY <1>1 DEF ArriveSome, Messages, Readable
<1>5. ASSUME NEW m \in some
      PROVE  /\ m \in MessageSet /\ MessageOK(wrap, list, m)
             /\ m.shown = "no" /\ m.word = NoWord
  <2>1. CASE m = Message("other", NoOptions, Plain(0), 0)
    <3>1. "other" \in Kinds(list) /\ 0 \in Fields \cup {0} /\ NoOptions \in Layouts \cup {NoOptions}
      BY DEF Kinds
    <3> HIDE DEF some
    <3>2. Plain(0) \in texts \cup {Plain(0)}
      OBVIOUS
    <3> QED
      BY ONLY wrap \in Wraps, list \in ListsIn(wrap), <1>2, <2>1, <3>1, <3>2, ArrivedMessage DEF texts
  <2>2. CASE m # Message("other", NoOptions, Plain(0), 0)
    <3> HIDE DEF texts
    <3>1. PICK kind \in Kinds(list), text \in texts, fields \in Fields,
               layout \in Layouts \cup {NoOptions} : m = Message(kind, layout, text, fields)
      BY <1>5, <2>2
    <3>2. text \in texts \cup {Plain(0)} /\ fields \in Fields \cup {0}
      OBVIOUS
    <3> HIDE DEF some
    <3> QED
      BY ONLY wrap \in Wraps, list \in ListsIn(wrap), <1>2, <3>1, <3>2, ArrivedMessage DEF texts
  <2> QED
    BY <2>1, <2>2
<1> HIDE DEF some
<1>6. n \in Nat /\ n >= 1 /\ behind \in Nat
  BY WireAssumption
<1>7. \A j \in 1 .. n : msgs[j] \in some
  OBVIOUS
<1>8. msgs \in Seq(MessageSet) /\ DOMAIN msgs = 1 .. n /\ Len(msgs) = n
  <2>1. msgs \in [1 .. n -> MessageSet]
    BY <1>5
  <2> QED
    BY <1>6, <2>1
<1>9. msgs # <<>>
  BY <1>6, <1>8
<1>10. \A j \in DOMAIN msgs : /\ MessageOK(wrap, list, msgs[j])
                              /\ msgs[j].shown = "no" /\ msgs[j].word = NoWord
  BY <1>5, <1>7, <1>8
<1>11. list = "single" => Len(msgs) = 1
  BY <1>8 DEF ArriveSome
<1> DEFINE a == [NoInput EXCEPT !.wrap = wrap, !.list = list, !.msgs = msgs, !.behind = behind]
           zip == IF wrap = "none" THEN 0 ELSE Packed(Content(a))
           c == [wrap |-> wrap, list |-> list, msgs |-> msgs, behind |-> behind, at |-> 0,
                 payload |-> DeclaredLen(a, zip), first |-> 4 * MessageWords(msgs[1]),
                 zip |-> zip, delta |-> 0, left |-> "no"]
<1>12. /\ in' = [a EXCEPT !.zip = zip, !.payload = DeclaredLen(a, zip),
                          !.first = 4 * MessageWords(msgs[1])]
       /\ UNCHANGED <<out, fault>> /\ server' = {}
  BY <1>4 DEF Arrive
<1>13. a = [wrap |-> wrap, list |-> list, msgs |-> msgs, behind |-> behind, at |-> 0,
            payload |-> 0, first |-> 0, zip |-> 0, delta |-> 0, left |-> "no"]
  <2> DEFINE x == [NoInput EXCEPT !.wrap = wrap]
             y == [x EXCEPT !.list = list]
             z == [y EXCEPT !.msgs = msgs]
  <2>1. x = [wrap |-> wrap, list |-> "none", msgs |-> <<>>, behind |-> 0, at |-> 0,
             payload |-> 0, first |-> 0, zip |-> 0, delta |-> 0, left |-> "no"]
    BY DEF NoInput
  <2> HIDE DEF x
  <2>2. y = [wrap |-> wrap, list |-> list, msgs |-> <<>>, behind |-> 0, at |-> 0,
             payload |-> 0, first |-> 0, zip |-> 0, delta |-> 0, left |-> "no"]
    BY <2>1
  <2> HIDE DEF y
  <2>3. z = [wrap |-> wrap, list |-> list, msgs |-> msgs, behind |-> 0, at |-> 0,
             payload |-> 0, first |-> 0, zip |-> 0, delta |-> 0, left |-> "no"]
    BY <2>2
  <2> HIDE DEF z
  <2>4. [z EXCEPT !.behind = behind] =
        [wrap |-> wrap, list |-> list, msgs |-> msgs, behind |-> behind, at |-> 0,
         payload |-> 0, first |-> 0, zip |-> 0, delta |-> 0, left |-> "no"]
    BY <2>3
  <2> QED
    BY <2>4 DEF x, y, z
<1>14. zip \in Int
  <2>1. a \in InputSet
    <3>1. list \in Lists
      BY DEF ListsIn, Lists
    <3> HIDE DEF a
    <3> QED
      BY <1>6, <1>8, <1>13, <3>1 DEF InputSet
  <2> HIDE DEF a
  <2>2. Content(a) \in Int
    BY <2>1, ContentIsSum
  <2> QED
    BY <2>2 DEF Packed
<1> HIDE DEF zip, a
<1>15. in' = c
  BY <1>12, <1>13
<1>16. InOK(c) /\ c.list # "none" /\ Walk(c) /\ InLengths(c)
  <2>1. c = [wrap |-> wrap, list |-> list, msgs |-> msgs, behind |-> behind, at |-> 0,
             payload |-> DeclaredLen(a, zip), first |-> 4 * MessageWords(msgs[1]),
             zip |-> zip, delta |-> 0, left |-> "no"]
    OBVIOUS
  <2> HIDE DEF c
  <2> QED
    BY ONLY wrap \in Wraps, list \in ListsIn(wrap), <1>6, <1>8, <1>9, <1>10, <1>11, <1>13, <1>14,
            <2>1, ArriveStep
<1> HIDE DEF c
<1>17. Together(b, c, f)
  BY <1>3, <1>16, NothingThere DEF Together
<1>18. ServerOK({})
  BY DEF ServerOK
<1>19. Fits(b, c, {}, f)
  BY <1>2, <1>16, <1>17, <1>18 DEF Fits
<1> QED
  BY <1>1, <1>12, <1>15, <1>19 DEF WireInv

(* What is the case while a buffer is read.                                *)
LEMMA WhileReading ==
  ASSUME NEW b, NEW i, InOK(i), Together(b, i, "none"), i.list # "none",
         AheadIn(i) # {}, NEW k, k = Min(AheadIn(i))
  PROVE  /\ b.items = <<>> /\ i \in InputSet /\ Walk(i) /\ InLengths(i)
         /\ k \in DOMAIN i.msgs /\ i.msgs \in Seq(MessageSet) /\ i.msgs[k] \in MessageSet
         /\ i.msgs[k].kind # "other"
         /\ MessageOK(i.wrap, i.list, i.msgs[k])
         /\ i.msgs[k].got \in TextSet /\ i.msgs[k].text = i.msgs[k].got
         /\ i.msgs[k].word = NoWord
         /\ i.msgs[k].got.sealed => Encrypted(i.msgs[k].got, i.msgs[k].got.clear)
<1>1. b.items = <<>> /\ i \in InputSet /\ Walk(i) /\ InLengths(i)
  BY DEF InOK, Together
<1> DEFINE m == i.msgs[k]
<1>2. /\ k \in DOMAIN i.msgs /\ m \in MessageSet /\ m.kind # "other"
      /\ MessageOK(i.wrap, i.list, m) /\ m.text = m.got /\ m.word = NoWord
  BY <1>1, NotYetRead
<1>3. i.msgs \in Seq(MessageSet)
  BY <1>1 DEF InputSet
<1> HIDE DEF m
<1>4. m.got \in TextSet /\ (m.got.sealed => Encrypted(m.got, m.got.clear))
  BY <1>2 DEF MessageSet, MessageOK
<1> QED
  BY <1>1, <1>2, <1>3, <1>4 DEF m

(* The index behind the text of message k.                                 *)
LEMMA IndexMoved ==
  ASSUME NEW i \in InputSet, NEW at, NEW grown, NEW left,
         NEW a, a = [i EXCEPT !.at = at, !.delta = @ + grown, !.left = left]
  PROVE  a = [wrap |-> i.wrap, list |-> i.list, msgs |-> i.msgs, behind |-> i.behind, at |-> at,
              payload |-> i.payload, first |-> i.first, zip |-> i.zip,
              delta |-> i.delta + grown, left |-> left]
<1> DEFINE x == [i EXCEPT !.at = at]
           y == [x EXCEPT !.delta = @ + grown]
<1>1. i = [wrap |-> i.wrap, list |-> i.list, msgs |-> i.msgs, behind |-> i.behind, at |-> i.at,
           payload |-> i.payload, first |-> i.first, zip |-> i.zip,
           delta |-> i.delta, left |-> i.left]
  BY DEF InputSet
<1>2. x = [wrap |-> i.wrap, list |-> i.list, msgs |-> i.msgs, behind |-> i.behind, at |-> at,
           payload |-> i.payload, first |-> i.first, zip |-> i.zip,
           delta |-> i.delta, left |-> i.left]
  BY <1>1
<1> HIDE DEF x
<1>3. y = [wrap |-> i.wrap, list |-> i.list, msgs |-> i.msgs, behind |-> i.behind, at |-> at,
           payload |-> i.payload, first |-> i.first, zip |-> i.zip,
           delta |-> i.delta + grown, left |-> i.left]
  BY <1>2
<1> HIDE DEF y
<1>4. [y EXCEPT !.left = left] =
        [wrap |-> i.wrap, list |-> i.list, msgs |-> i.msgs, behind |-> i.behind, at |-> at,
         payload |-> i.payload, first |-> i.first, zip |-> i.zip,
         delta |-> i.delta + grown, left |-> left]
  BY <1>3
<1> QED
  BY <1>4 DEF x, y

MadeOf(msgs, k, text, shown) == [msgs EXCEPT ![k].text = text, ![k].shown = shown]

LEMMA TextShown ==
  ASSUME NEW msgs \in Seq(MessageSet), NEW k \in DOMAIN msgs, NEW text, NEW shown, NEW m,
         m = [kind |-> msgs[k].kind, layout |-> msgs[k].layout, got |-> msgs[k].got,
              text |-> text, fields |-> msgs[k].fields, shown |-> shown, word |-> msgs[k].word]
  PROVE  MadeOf(msgs, k, text, shown) = [msgs EXCEPT ![k] = m]
<1> DEFINE old == msgs[k]
           x == [old EXCEPT !.text = text]
           f == [msgs EXCEPT ![k] = x]
<1>1. old \in MessageSet
  OBVIOUS
<1>2. old = [kind |-> old.kind, layout |-> old.layout, got |-> old.got, text |-> old.text,
             fields |-> old.fields, shown |-> old.shown, word |-> old.word]
  <2> HIDE DEF old
  <2> QED
    BY <1>1 DEF MessageSet
<1>3. x = [kind |-> old.kind, layout |-> old.layout, got |-> old.got, text |-> text,
           fields |-> old.fields, shown |-> old.shown, word |-> old.word]
  <2> HIDE DEF old
  <2> QED
    BY <1>2
<1>4. f[k] = x /\ DOMAIN f = DOMAIN msgs
  OBVIOUS
<1>5. [x EXCEPT !.shown = shown] = m
  <2>1. m = [kind |-> old.kind, layout |-> old.layout, got |-> old.got, text |-> text,
             fields |-> old.fields, shown |-> shown, word |-> old.word]
    OBVIOUS
  <2> HIDE DEF old, x
  <2> QED
    BY <1>3, <2>1
<1>6. [f EXCEPT ![k].shown = shown] = [f EXCEPT ![k] = [f[k] EXCEPT !.shown = shown]]
  <2> HIDE DEF f
  <2> QED
    OBVIOUS
<1>7. [f EXCEPT ![k] = m] = [msgs EXCEPT ![k] = m]
  <2> HIDE DEF x
  <2> QED
    OBVIOUS
<1>8. [f EXCEPT ![k].shown = shown] = [msgs EXCEPT ![k] = m]
  <2> HIDE DEF f, x, old
  <2> QED
    BY <1>4, <1>5, <1>6, <1>7
<1> QED
  BY <1>8 DEF f, x, MadeOf

LEMMA DecryptTextKeeps ==
  ASSUME WireInv, NEW k, DecryptText(k)
  PROVE  WireInv'
<1>1. PICK b, i, s, f : out = b /\ in = i /\ server = s /\ fault = f /\ Fits(b, i, s, f)
  BY DEF WireInv
<1>2. OutOK(b) /\ InOK(i) /\ ServerOK(s) /\ Together(b, i, f)
  BY <1>1 DEF Fits
<1> DEFINE m == i.msgs[k]
           got == m.got
           text == Padded(Decrypted(got))
           shown == Outcome(got)
           taken == Words(Size(got))
           written == Words(Size(text))
           at == StartOf(i, k) + LookedAt(i.wrap, m) + taken
           grown == 4 * (written - taken)
           left == IF i.wrap = "none" THEN "end" ELSE "no"
           read == [kind |-> m.kind, layout |-> m.layout, got |-> m.got, text |-> text,
                    fields |-> m.fields, shown |-> shown, word |-> m.word]
           new == [i.msgs EXCEPT ![k] = read]
           c == [wrap |-> i.wrap, list |-> i.list, msgs |-> new, behind |-> i.behind, at |-> at,
                 payload |-> i.payload, first |-> i.first, zip |-> i.zip,
                 delta |-> i.delta + grown, left |-> left]
<1>3. /\ i.list # "none" /\ i.left = "no" /\ f = "none" /\ AheadIn(i) # {} /\ k = Min(AheadIn(i))
      /\ LookedAt(i.wrap, m) = TextAt(m) /\ ~Lost(shown)
  BY <1>1 DEF DecryptText, Looked, Reading, Ahead, AheadIn, Placed
<1>4. /\ b.items = <<>> /\ i \in InputSet /\ Walk(i) /\ InLengths(i)
      /\ k \in DOMAIN i.msgs /\ i.msgs \in Seq(MessageSet) /\ m \in MessageSet
      /\ m.kind # "other" /\ MessageOK(i.wrap, i.list, m)
      /\ got \in TextSet /\ m.text = got /\ m.word = NoWord
      /\ got.sealed => Encrypted(got, got.clear)
  BY <1>2, <1>3, WhileReading
<1>5. /\ shown \in {"same", "clear"} /\ text \in TextSet
      /\ got.sealed => got.clear <= MaxKept /\ shown = "clear" /\ Size(text) = Max({3, got.clear})
  <2> HIDE DEF got
  <2> QED
    BY <1>3, <1>4, Outcomes
<1>6. /\ Later(m, read) /\ WasRead(read) /\ MessageOK(i.wrap, i.list, read)
      /\ taken \in Nat /\ written \in Nat /\ read.word = NoWord /\ read.got = got
      /\ MessageWords(read) = MessageWords(m) + (written - taken)
  <2>1. read = [kind |-> m.kind, layout |-> m.layout, got |-> m.got, text |-> text,
                fields |-> m.fields, shown |-> shown, word |-> m.word]
    OBVIOUS
  <2>2. /\ m.kind \in {"other", "updateShortMessage", "updateShortChatMessage", "message"}
        /\ m.layout \in LayoutSet /\ m.got \in TextSet /\ m.fields \in Nat
        /\ m.word \in Nat \cup {NoWord}
    <3> HIDE DEF m
    <3> QED
      BY <1>4 DEF MessageSet
  <2>3. m.got = got
    OBVIOUS
  <2> HIDE DEF read, text, shown, m, got
  <2>4. read \in MessageSet
    BY <1>5, <2>1, <2>2 DEF MessageSet
  <2>5. Later(m, read)
    BY <2>1, <2>4 DEF Later
  <2>6. WasRead(read)
    BY <1>5, <2>1 DEF WasRead
  <2>7. LookedAt(i.wrap, read) = TextAt(read) /\ TextAt(read) = TextAt(m)
    BY <1>3, <2>5, LaterPlace
  <2>8. m.kind \in Kinds(i.list) /\ (m.got.sealed => Encrypted(m.got, m.got.clear))
    BY <1>4 DEF MessageOK
  <2>9. MessageOK(i.wrap, i.list, read)
    BY <1>4, <1>5, <2>1, <2>3, <2>7, <2>8 DEF MessageOK, InPlace
  <2>10. TextAt(m) \in Nat /\ Words(Size(m.got)) \in Nat /\ m.fields \in Nat
    BY <1>4, SizesOfMessage
  <2>11. Words(Size(read.text)) \in Nat
    BY <2>4, SizesOfMessage
  <2>12. read.text = text /\ read.fields = m.fields /\ read.word = NoWord /\ read.got = got
    BY <1>4, <2>1, <2>3
  <2>13. taken \in Nat /\ written \in Nat
    BY <2>3, <2>10, <2>11, <2>12
  <2>14. MessageWords(read) = TextAt(m) + written + m.fields + 0
    BY <2>7, <2>12 DEF MessageWords
  <2>15. MessageWords(m) = TextAt(m) + taken + m.fields + 0
    BY <1>4 DEF MessageWords
  <2> HIDE DEF taken, written
  <2>16. MessageWords(read) = MessageWords(m) + (written - taken)
    BY <2>10, <2>13, <2>14, <2>15
  <2> QED
    BY <2>5, <2>6, <2>9, <2>12, <2>13, <2>16
<1>7. /\ in' = [[i EXCEPT !.at = at, !.delta = @ + grown, !.left = left] EXCEPT
                  !.msgs[k].text = text, !.msgs[k].shown = shown]
      /\ UNCHANGED <<out, server, fault>>
  BY <1>1 DEF DecryptText, After
<1>8. in' = c
  <2> DEFINE a == [i EXCEPT !.at = at, !.delta = @ + grown, !.left = left]
  <2> HIDE DEF at, grown, left, text, shown
  <2>1. a = [wrap |-> i.wrap, list |-> i.list, msgs |-> i.msgs, behind |-> i.behind, at |-> at,
             payload |-> i.payload, first |-> i.first, zip |-> i.zip,
             delta |-> i.delta + grown, left |-> left]
    <3>1. a = [i EXCEPT !.at = at, !.delta = @ + grown, !.left = left]
      OBVIOUS
    <3> HIDE DEF a
    <3> QED
      BY ONLY <1>4, <3>1, IndexMoved, ZenonT(60)
  <2>2. in' = [a EXCEPT !.msgs[k].text = text, !.msgs[k].shown = shown]
    BY <1>7
  <2> HIDE DEF a
  <2>3. in' = [a EXCEPT !.msgs = [a.msgs EXCEPT ![k].text = text, ![k].shown = shown]]
    BY <2>2, ZenonT(30)
  <2> DEFINE made == [i.msgs EXCEPT ![k].text = text, ![k].shown = shown]
  <2>4. made = new
    <3>1. read = [kind |-> m.kind, layout |-> m.layout, got |-> m.got, text |-> text,
                  fields |-> m.fields, shown |-> shown, word |-> m.word]
      OBVIOUS
    <3>2. made = MadeOf(i.msgs, k, text, shown)
      BY DEF MadeOf
    <3>3. i.msgs \in Seq(MessageSet) /\ k \in DOMAIN i.msgs
      BY <1>4
    <3> HIDE DEF read, made, got
    <3>4. MadeOf(i.msgs, k, text, shown) = [i.msgs EXCEPT ![k] = read]
      BY ONLY <3>1, <3>3, TextShown
    <3> QED
      BY <3>2, <3>4
  <2>5. a.msgs = i.msgs
    BY <2>1
  <2>6. in' = [a EXCEPT !.msgs = made]
    BY <2>3, <2>5, Zenon
  <2> HIDE DEF made
  <2>7. in' = [a EXCEPT !.msgs = new]
    BY <2>4, <2>6
  <2> HIDE DEF new
  <2> QED
    BY <2>1, <2>7
<1>9. InOK(c) /\ c.list # "none" /\ Walk(c) /\ InLengths(c)
  <2>1. /\ new = [i.msgs EXCEPT ![k] = read]
        /\ at = StartOf(i, k) + LookedAt(i.wrap, i.msgs[k]) + taken
        /\ taken = IF read.word = NoWord THEN Words(Size(read.got)) ELSE Taken(read.word)
        /\ MessageWords(read) = MessageWords(i.msgs[k]) + (written - taken)
        /\ Later(i.msgs[k], read)
    <3>1. taken = Words(Size(got))
      OBVIOUS
    <3> HIDE DEF read, taken, got
    <3> QED
      BY <1>6, <3>1
  <2>2. c = [wrap |-> i.wrap, list |-> i.list, msgs |-> new, behind |-> i.behind,
             at |-> at, payload |-> i.payload, first |-> i.first, zip |-> i.zip,
             delta |-> i.delta + 4 * (written - taken),
             left |-> IF i.wrap = "none" THEN "end" ELSE "no"]
    OBVIOUS
  <2> HIDE DEF c, new, at, read, taken, written, left, grown, text, shown, m, got
  <2> QED
    BY ONLY <1>2, <1>3, <1>4, <1>6, <2>1, <2>2, ReadStep, ZenonT(90)
<1>10. c.left = left
  OBVIOUS
<1> HIDE DEF c
<1>11. Together(b, c, f)
  BY <1>3, <1>4, <1>9 DEF Together
<1>12. Fits(b, c, s, f)
  BY <1>2, <1>9, <1>11 DEF Fits
<1> QED
  BY <1>1, <1>7, <1>8, <1>12 DEF WireInv

LEMMA ThrowOnReadKeeps ==
  ASSUME WireInv, NEW k, ThrowOnRead(k)
  PROVE  WireInv'
<1>1. PICK b, i, s, f : out = b /\ in = i /\ server = s /\ fault = f /\ Fits(b, i, s, f)
  BY DEF WireInv
<1>2. OutOK(b) /\ InOK(i) /\ ServerOK(s) /\ Together(b, i, f)
  BY <1>1 DEF Fits
<1> DEFINE got == i.msgs[k].got
           g == Outcome(got)
<1>3. /\ i.list # "none" /\ i.left = "no" /\ f = "none" /\ AheadIn(i) # {} /\ k = Min(AheadIn(i))
      /\ Lost(g)
  BY <1>1 DEF ThrowOnRead, Looked, Reading, Ahead, AheadIn
<1>4. b.items = <<>> /\ got \in TextSet /\ (got.sealed => Encrypted(got, got.clear))
  BY <1>2, <1>3, WhileReading
<1>5. fault' = g /\ UNCHANGED <<out, server, in>>
  BY <1>1 DEF ThrowOnRead
<1>6. (g = "stoi" => got.beyond) /\ (g = "throws" => got.clear > MaxKept)
  <2> HIDE DEF got
  <2> QED
    BY <1>4, Outcomes
<1>7. b.left = "no"
  BY <1>2, <1>4, NothingThere DEF OutOK, OutShape
<1>8. g \in {"stoi", "throws"}
  BY <1>3 DEF Lost
<1> HIDE DEF g
<1>9. Together(b, i, g)
  BY <1>3, <1>4, <1>6, <1>7, <1>8 DEF Together
<1>10. Fits(b, i, s, g)
  BY <1>2, <1>9 DEF Fits
<1> QED
  BY <1>1, <1>5, <1>10 DEF WireInv

(* A text that ends behind the buffer has a length that nothing behind the
   messages could have.                                                    *)
LEMMA BehindBuffer ==
  ASSUME NEW i \in InputSet, NEW k \in DOMAIN i.msgs, NEW word \in Nat,
         LookedAt(i.wrap, i.msgs[k]) \in 5 .. TextAt(i.msgs[k]),
         StartOf(i, k) + LookedAt(i.wrap, i.msgs[k]) + Taken(word) > EndOfBuffer(i)
  PROVE  LenOf(word) > 4 * i.behind
<1> DEFINE n == Len(i.msgs)
           m == i.msgs[k]
           place == TextAt(m)
           looked == LookedAt(i.wrap, m)
           words == Words(Size(m.got))
           fields == m.fields
           taken == Taken(word)
           header == Header(i.list)
           behind == i.behind
           start == StartOf(i, k)
           next == StartOf(i, k + 1)
           last == StartOf(i, n + 1)
<1>1. DOMAIN i.msgs = 1 .. n /\ n \in Nat /\ m \in MessageSet /\ behind \in Nat
  BY DEF InputSet
<1>2. k \in 1 .. n /\ k \in 1 .. n + 1 /\ k + 1 \in 1 .. n + 1 /\ n + 1 \in 1 .. n + 1
  BY <1>1
<1>3. start \in Nat /\ next \in Nat /\ last \in Nat
  BY <1>2, Starts
<1>4. next = start + header + WordsGot(m)
  BY <1>2, Starts
<1>5. next <= last
  <2>1. CASE k = n
    BY <1>3, <2>1
  <2>2. CASE k # n
    <3>1. k + 1 < n + 1
      BY <1>1, <1>2, <2>2
    <3>2. next < last
      BY <1>2, <3>1, Starts
    <3> QED
      BY <1>3, <3>2
  <2> QED
    BY <2>1, <2>2
<1>6. header \in Nat
  BY HeaderIsNat
<1>7. /\ place \in Nat /\ words \in Nat /\ words >= 1 /\ fields \in Nat
      /\ WordsGot(m) = place + words + fields
  <2> HIDE DEF m
  <2> QED
    BY <1>1, SizesOfMessage
<1>8. taken \in Nat /\ \A room \in Nat : taken > room + 1 => LenOf(word) > 4 * room
  BY WordAsLength
<1>9. start + looked + taken > last - header + behind /\ looked \in 5 .. place
  BY DEF EndOfBuffer
<1> HIDE DEF m, n, place, looked, words, fields, taken, header, behind, start, next, last
<1>10. taken > behind + 1
  BY ONLY <1>1, <1>3, <1>4, <1>5, <1>6, <1>7, <1>8, <1>9
<1> QED
  BY <1>1, <1>8, <1>10 DEF behind

LEMMA MisreadKeeps ==
  ASSUME WireInv, NEW k, NEW word \in OtherValues, Misread(k, word)
  PROVE  WireInv'
<1>1. PICK b, i, s, f : out = b /\ in = i /\ server = s /\ fault = f /\ Fits(b, i, s, f)
  BY DEF WireInv
<1>2. OutOK(b) /\ InOK(i) /\ ServerOK(s) /\ Together(b, i, f)
  BY <1>1 DEF Fits
<1> DEFINE m == i.msgs[k]
           taken == Taken(word)
           written == WrittenFor(word)
           at == StartOf(i, k) + LookedAt(i.wrap, m) + taken
           grown == 4 * (written - taken)
           left == IF i.wrap = "none" THEN "end" ELSE "no"
           read == [m EXCEPT !.word = word]
           new == [i.msgs EXCEPT ![k] = read]
           c == [wrap |-> i.wrap, list |-> i.list, msgs |-> new, behind |-> i.behind, at |-> at,
                 payload |-> i.payload, first |-> i.first, zip |-> i.zip,
                 delta |-> i.delta + grown, left |-> left]
           d == [i EXCEPT !.msgs = new]
<1>3. /\ i.list # "none" /\ i.left = "no" /\ f = "none" /\ AheadIn(i) # {} /\ k = Min(AheadIn(i))
  BY <1>1 DEF Misread, Looked, Reading, Ahead, AheadIn
<1>4. /\ b.items = <<>> /\ i \in InputSet /\ Walk(i) /\ InLengths(i)
      /\ k \in DOMAIN i.msgs /\ i.msgs \in Seq(MessageSet) /\ m \in MessageSet
      /\ m.kind # "other" /\ MessageOK(i.wrap, i.list, m) /\ m.text = m.got /\ m.word = NoWord
  BY <1>2, <1>3, WhileReading
<1>5. LookedAt(i.wrap, m) # TextAt(m)
  BY <1>1, <1>4 DEF Misread, Placed
<1>6. word \in Nat /\ word # NoWord
  BY WireAssumption DEF NoWord
<1>7. taken \in Nat /\ written \in Nat
  BY <1>6, WordAsLength
<1>8. /\ Later(m, read) /\ WasRead(read) /\ MessageOK(i.wrap, i.list, read)
      /\ read \in MessageSet /\ read.word = word
      /\ MessageWords(read) = MessageWords(m) + (written - taken)
  <2> HIDE DEF m
  <2>1. /\ read \in MessageSet /\ read.kind = m.kind /\ read.layout = m.layout
        /\ read.got = m.got /\ read.text = m.text /\ read.fields = m.fields
        /\ read.shown = m.shown /\ read.word = word
    BY <1>4, <1>6 DEF MessageSet
  <2> HIDE DEF read
  <2>2. Later(m, read) /\ WasRead(read)
    BY <1>6, <2>1 DEF Later, WasRead
  <2>3. /\ TextAt(read) = TextAt(m) /\ LookedAt(i.wrap, read) = LookedAt(i.wrap, m)
    BY <2>2, LaterPlace
  <2>4. m.shown = "no"
    BY <1>4, <1>5 DEF MessageOK, InPlace
  <2>5. MessageOK(i.wrap, i.list, read)
    BY <1>4, <1>5, <2>1, <2>3, <2>4 DEF MessageOK
  <2>6. TextAt(m) \in Nat /\ Words(Size(m.text)) \in Nat /\ m.fields \in Nat
    BY <1>4, SizesOfMessage
  <2>7. MessageWords(m) = TextAt(m) + Words(Size(m.text)) + m.fields + 0
    BY <1>4 DEF MessageWords
  <2>8. MessageWords(read) = TextAt(m) + Words(Size(m.text)) + m.fields + (written - taken)
    BY <1>6, <2>1, <2>3 DEF MessageWords
  <2> HIDE DEF taken, written
  <2>9. MessageWords(read) = MessageWords(m) + (written - taken)
    BY <1>7, <2>6, <2>7, <2>8
  <2> QED
    BY <2>1, <2>2, <2>5, <2>9
<1>9. UNCHANGED <<out, server>>
  BY DEF Misread
<1>10. CASE at > EndOfBuffer(i)
  <2>1. fault' = "outside" /\ in' = [i EXCEPT !.msgs[k].word = word]
    BY <1>1, <1>10 DEF Misread
  <2>2. in' = d
    <3>1. [i EXCEPT !.msgs[k].word = word] = d
      BY ZenonT(30)
    <3> QED
      BY <2>1, <3>1, Zenon
  <2>3. /\ new \in Seq(MessageSet) /\ Len(new) = Len(i.msgs) /\ DOMAIN new = DOMAIN i.msgs
        /\ new[k] = read /\ \A j \in DOMAIN i.msgs : j # k => new[j] = i.msgs[j]
    <3> HIDE DEF read
    <3> QED
      BY <1>4, <1>8, MessageReplaced
  <2> HIDE DEF read, new
  <2>4. /\ d \in InputSet /\ d.list = i.list /\ d.wrap = i.wrap /\ d.msgs = new
        /\ d.behind = i.behind /\ d.left = i.left
    BY <1>4, <2>3 DEF InputSet
  <2> HIDE DEF d
  <2>5. \A j \in DOMAIN new : MessageOK(i.wrap, i.list, new[j])
    BY <1>2, <1>3, <1>8, <2>3 DEF InOK
  <2>6. InOK(d)
    <3>1. i.msgs # <<>> /\ i.list \in ListsIn(i.wrap) /\ (i.list = "single" => Len(i.msgs) = 1)
      BY <1>2, <1>3 DEF InOK
    <3>2. new # <<>>
      BY <2>3, <3>1
    <3> QED
      BY <1>3, <2>3, <2>4, <2>5, <3>1, <3>2 DEF InOK
  <2>7. LenOf(word) > 4 * i.behind
    <3>1. LookedAt(i.wrap, m) \in 5 .. TextAt(m)
      <4>1. i.wrap \in Wraps /\ i.list \in ListsIn(i.wrap)
        BY <1>2, <1>3, <1>4 DEF InOK, InputSet
      <4>2. m.kind \in Kinds(i.list)
        BY <1>4 DEF MessageOK
      <4> QED
        BY <1>4, <4>1, <4>2, PlaceLookedAt
    <3> QED
      BY <1>4, <1>6, <1>10, <3>1, BehindBuffer
  <2>8. Together(b, d, "outside")
    <3>1. \E j \in DOMAIN d.msgs : LenOf(d.msgs[j].word) > 4 * d.behind
      BY <1>4, <1>8, <2>3, <2>4, <2>7
    <3>2. b.left = "no"
      BY <1>2, <1>4, NothingThere DEF OutOK, OutShape
    <3> QED
      BY <1>3, <1>4, <2>4, <3>1, <3>2 DEF Together
  <2>9. Fits(b, d, s, "outside")
    BY <1>2, <2>6, <2>8 DEF Fits
  <2> QED
    BY <1>1, <1>9, <2>1, <2>2, <2>9 DEF WireInv
<1>11. CASE ~(at > EndOfBuffer(i))
  <2>1. /\ in' = [[i EXCEPT !.at = at, !.delta = @ + grown, !.left = left]
                   EXCEPT !.msgs[k].word = word]
        /\ UNCHANGED fault
    BY <1>1, <1>11 DEF Misread, After
  <2>2. in' = c
    <3> DEFINE a == [i EXCEPT !.at = at, !.delta = @ + grown, !.left = left]
    <3> HIDE DEF at, grown, left
    <3>1. a = [wrap |-> i.wrap, list |-> i.list, msgs |-> i.msgs, behind |-> i.behind, at |-> at,
               payload |-> i.payload, first |-> i.first, zip |-> i.zip,
               delta |-> i.delta + grown, left |-> left]
      <4>1. a = [i EXCEPT !.at = at, !.delta = @ + grown, !.left = left]
        OBVIOUS
      <4> HIDE DEF a
      <4> QED
        BY ONLY <1>4, <4>1, IndexMoved, ZenonT(60)
    <3>2. in' = [a EXCEPT !.msgs[k].word = word]
      BY <2>1
    <3> HIDE DEF a
    <3>3. in' = [a EXCEPT !.msgs = [a.msgs EXCEPT ![k] = [a.msgs[k] EXCEPT !.word = word]]]
      BY <3>2, ZenonT(30)
    <3>4. a.msgs = i.msgs
      BY <3>1
    <3>5. in' = [a EXCEPT !.msgs = new]
      BY <3>3, <3>4, Zenon
    <3> HIDE DEF new
    <3> QED
      BY <3>1, <3>5
  <2>3. InOK(c) /\ c.list # "none" /\ Walk(c) /\ InLengths(c)
    <3>1. /\ new = [i.msgs EXCEPT ![k] = read]
          /\ at = StartOf(i, k) + LookedAt(i.wrap, i.msgs[k]) + taken
          /\ taken = IF read.word = NoWord THEN Words(Size(read.got)) ELSE Taken(read.word)
          /\ MessageWords(read) = MessageWords(i.msgs[k]) + (written - taken)
          /\ Later(i.msgs[k], read) /\ WasRead(read) /\ MessageOK(i.wrap, i.list, read)
      <4>1. taken = Taken(word)
        OBVIOUS
      <4> HIDE DEF read, taken
      <4> QED
        BY <1>6, <1>8, <4>1
    <3>2. c = [wrap |-> i.wrap, list |-> i.list, msgs |-> new, behind |-> i.behind,
               at |-> at, payload |-> i.payload, first |-> i.first, zip |-> i.zip,
               delta |-> i.delta + 4 * (written - taken),
               left |-> IF i.wrap = "none" THEN "end" ELSE "no"]
      OBVIOUS
    <3> HIDE DEF c, d, new, at, read, taken, written, left, grown, m
    <3>3. InOK(i) /\ Walk(i) /\ InLengths(i)
      BY <1>2, <1>4
    <3> QED
      BY ONLY <1>3, <1>7, <3>1, <3>2, <3>3, ReadStep, SMTT(60)
  <2> HIDE DEF c
  <2>4. Together(b, c, f)
    BY <1>3, <1>4, <2>3 DEF Together
  <2>5. Fits(b, c, s, f)
    BY <1>2, <2>3, <2>4 DEF Fits
  <2> QED
    BY <1>1, <1>9, <2>1, <2>2, <2>5 DEF WireInv
<1> QED
  BY <1>10, <1>11

LEMMA NoMessageKeeps ==
  ASSUME WireInv, NoMessage
  PROVE  WireInv'
<1>1. PICK b, i, s, f : out = b /\ in = i /\ server = s /\ fault = f /\ Fits(b, i, s, f)
  BY DEF WireInv
<1>2. OutOK(b) /\ InOK(i) /\ ServerOK(s) /\ Together(b, i, f)
  BY <1>1 DEF Fits
<1> DEFINE left == IF i.at = 0 /\ i.list # "dialogs" THEN "return" ELSE "end"
           c == [i EXCEPT !.left = left]
<1>3. i.list # "none" /\ i.left = "no" /\ f = "none" /\ AheadIn(i) = {}
  BY <1>1 DEF NoMessage, Reading, Ahead, AheadIn
<1>4. in' = c /\ UNCHANGED <<out, server, fault>>
  BY <1>1 DEF NoMessage
<1>5. b.items = <<>> /\ Walk(i) /\ InLengths(i)
  BY <1>2, <1>3 DEF Together
<1>6. InOK(c) /\ c.list # "none" /\ Walk(c) /\ InLengths(c)
  <2>1. c = [i EXCEPT !.left = IF i.at = 0 /\ i.list # "dialogs" THEN "return" ELSE "end"]
    OBVIOUS
  <2> HIDE DEF c
  <2> QED
    BY ONLY <1>2, <1>3, <1>5, <2>1, NoMessageStep
<1> HIDE DEF c
<1>7. Together(b, c, f)
  BY <1>3, <1>5, <1>6 DEF Together
<1>8. Fits(b, c, s, f)
  BY <1>2, <1>6, <1>7 DEF Fits
<1> QED
  BY <1>1, <1>4, <1>8 DEF WireInv

LEMMA CorrectLengthsKeeps ==
  ASSUME WireInv, CorrectLengths
  PROVE  WireInv'
<1>1. PICK b, i, s, f : out = b /\ in = i /\ server = s /\ fault = f /\ Fits(b, i, s, f)
  BY DEF WireInv
<1>2. OutOK(b) /\ InOK(i) /\ ServerOK(s) /\ Together(b, i, f)
  BY <1>1 DEF Fits
<1>3. i.left = "end" /\ UNCHANGED <<out, server, fault>>
  BY <1>1 DEF CorrectLengths
<1>4. i.list # "none" /\ f = "none"
  BY <1>2, <1>3, NothingThere DEF InOK, Together
<1>5. b.items = <<>> /\ Walk(i) /\ InLengths(i) /\ i \in InputSet
  BY <1>2, <1>4 DEF Together, InOK
<1> DEFINE payload == IF i.wrap = "none" THEN i.payload + i.delta
                      ELSE i.payload + 4 * (Content(i) - i.zip)
           first == IF i.wrap = "none" /\ i.list = "container" THEN i.first + i.delta ELSE i.first
<1>6. PICK zip \in IF i.wrap = "none" THEN {0} ELSE Deflated(Content(i)) :
        in' = [i EXCEPT !.left = "done", !.zip = zip, !.payload = payload, !.first = first]
  BY <1>1 DEF CorrectLengths, NewPayload
<1>7. zip \in Int
  <2>1. Content(i) \in Int
    BY <1>5, ContentIsSum
  <2> QED
    BY <2>1 DEF Deflated, Packed
<1> DEFINE c == [i EXCEPT !.left = "done", !.zip = zip, !.payload = payload, !.first = first]
<1>8. in' = c
  BY <1>6
<1>9. InOK(c) /\ c.list # "none" /\ Walk(c) /\ InLengths(c)
  <2>1. /\ payload = (IF i.wrap = "none" THEN i.payload + i.delta
                      ELSE i.payload + 4 * (Content(i) - i.zip))
        /\ first = (IF i.wrap = "none" /\ i.list = "container" THEN i.first + i.delta ELSE i.first)
        /\ c = Corrected(i, zip, payload, first)
    BY DEF Corrected
  <2> HIDE DEF c, payload, first
  <2> QED
    BY ONLY <1>2, <1>3, <1>4, <1>5, <1>7, <2>1, CorrectStep
<1> HIDE DEF c
<1>10. Together(b, c, f)
  BY <1>4, <1>5, <1>9 DEF Together
<1>11. Fits(b, c, s, f)
  BY <1>2, <1>9, <1>10 DEF Fits
<1> QED
  BY <1>1, <1>3, <1>8, <1>11 DEF WireInv

LEMMA HandleReceivedKeeps ==
  ASSUME WireInv, HandleReceived
  PROVE  WireInv'
<1>1. PICK b, i, s, f : out = b /\ in = i /\ server = s /\ fault = f /\ Fits(b, i, s, f)
  BY DEF WireInv
<1>2. OutOK(b) /\ InOK(i) /\ ServerOK(s) /\ Together(b, i, f)
  BY <1>1 DEF Fits
<1>3. i.left # "no" /\ in' = NoInput /\ UNCHANGED <<out, server, fault>>
  BY <1>1 DEF HandleReceived
<1>4. f = "none"
  BY <1>2, <1>3 DEF Together
<1>5. Together(b, NoInput, f)
  BY <1>4, NothingThere DEF Together
<1>6. Fits(b, NoInput, s, f)
  BY <1>2, <1>5, NothingThere DEF Fits
<1> QED
  BY <1>1, <1>3, <1>6 DEF WireInv

LEMMA WireUnchanged ==
  ASSUME WireInv, UNCHANGED vars
  PROVE  WireInv'
<1>1. PICK b, i, s, f : out = b /\ in = i /\ server = s /\ fault = f /\ Fits(b, i, s, f)
  BY DEF WireInv
<1> QED
  BY <1>1 DEF WireInv, vars

LEMMA WireNext == WireInv /\ [Next]_vars => WireInv'
<1> SUFFICES ASSUME WireInv, [Next]_vars PROVE WireInv'
  OBVIOUS
<1>1. ASSUME NEW peer \in Peers, NEW keyed \in BOOLEAN, NEW boxed \in BOOLEAN,
             NEW lead \in {0, InvokeAfterMsg}, PackOne(peer, keyed, lead, boxed)
      PROVE  WireInv'
  BY <1>1, PackOneKeeps
<1>2. ASSUME NEW n \in 2 .. MaxItems, PackSeveral(n) PROVE WireInv'
  BY <1>2, PackSeveralKeeps
<1>3. ASSUME NEW k \in 1 .. MaxItems,
             ReturnEarly(k) \/ ThrowOnSend(k) \/ \E n \in LastKeys \ {0} : EncryptText(k, n)
      PROVE  WireInv'
  BY <1>3, ReturnEarlyKeeps, ThrowOnSendKeeps, EncryptTextKeeps
<1>4. ASSUME NEW crashes \in BOOLEAN, ReadBefore(crashes) PROVE WireInv'
  BY <1>4, ReadBeforeKeeps
<1>5. ASSUME NEW wrap \in Wraps, NEW n \in 1 .. MaxRead, NEW list \in ListsIn(wrap),
             ArriveSome(wrap, list, n)
      PROVE  WireInv'
  BY <1>5, ArriveSomeKeeps
<1>6. CASE LoopEnds \/ Transmit
  BY <1>6, LoopEndsKeeps, TransmitKeeps
<1>7. ASSUME NEW k \in 1 .. MaxRead,
             DecryptText(k) \/ ThrowOnRead(k) \/ \E word \in OtherValues : Misread(k, word)
      PROVE  WireInv'
  BY <1>7, DecryptTextKeeps, ThrowOnReadKeeps, MisreadKeeps
<1>8. CASE NoMessage \/ CorrectLengths \/ HandleReceived
  BY <1>8, NoMessageKeeps, CorrectLengthsKeeps, HandleReceivedKeeps
<1>9. CASE UNCHANGED vars
  BY <1>9, WireUnchanged
<1> QED
  BY <1>1, <1>2, <1>3, <1>4, <1>5, <1>6, <1>7, <1>8, <1>9 DEF Next

(* Whatever is packed, encrypted, received and decrypted, both buffers, the
   text on the server and the end of the program fit.                      *)
THEOREM WireInvariant == Spec => []WireInv
BY WireInit, WireNext, PTL DEF Spec

-----------------------------------------------------------------------------
(* What follows from the invariant.                                        *)

LEMMA Parts ==
  ASSUME WireInv
  PROVE  OutOK(out) /\ InOK(in) /\ ServerOK(server) /\ Together(out, in, fault)
BY DEF WireInv, Fits

(* An element is another one than before exactly if its text has another
   length.                                                                 *)
Differs(item) == IsText(item) /\ Words(Size(item.text)) # Words(Size(item.sent))

LEMMA WordsDiffer ==
  ASSUME NEW item \in ItemSet
  PROVE  /\ BodyWords(item) \in Nat /\ OldWords(item) \in Nat
         /\ Differs(item) <=> BodyWords(item) # OldWords(item)
<1>1. /\ item.lead \in Nat /\ item.text \in TextSet /\ item.sent \in TextSet
      /\ item.peer \in Peers \cup {"none"}
  BY DEF ItemSet
<1>2. Words(Size(item.text)) \in Nat /\ Words(Size(item.sent)) \in Nat
  BY <1>1, SizeOfText, WordsPositive
<1>3. IsText(item) => TextStart[item.peer] \in Nat
  BY <1>1, TextStartBound DEF IsText
<1> DEFINE now == Words(Size(item.text))
           old == Words(Size(item.sent))
           start == TextStart[item.peer]
<1>4. CASE IsText(item)
  <2>1. /\ BodyWords(item) = item.lead + start + now + 2
        /\ OldWords(item) = item.lead + start + old + 2
        /\ Differs(item) <=> now # old
    BY <1>4 DEF BodyWords, OldWords, Differs
  <2>2. item.lead \in Nat /\ start \in Nat /\ now \in Nat /\ old \in Nat
    BY <1>1, <1>2, <1>3, <1>4
  <2> HIDE DEF now, old, start
  <2> QED
    BY <2>1, <2>2
<1>5. CASE ~IsText(item)
  BY <1>1, <1>5 DEF BodyWords, OldWords, Differs
<1> QED
  BY <1>4, <1>5

(* If no text but the first has another length, its difference is what the
   buffer has grown by.                                                    *)
LEMMA GainOfFirst ==
  ASSUME NEW items \in Seq(ItemSet), items # <<>>,
         \A k \in DOMAIN items : Differs(items[k]) => k = 1
  PROVE  Gain(items) = 4 * (BodyWords(items[1]) - OldWords(items[1]))
<1> DEFINE n == Len(items)
           f == OldItemWords(items)
           g == ItemWords(items)
<1>1. n \in Nat /\ DOMAIN items = 1 .. n /\ 1 \in 1 .. n /\ n \in 0 .. n /\ n >= 1
  OBVIOUS
<1>2. ASSUME NEW j \in 1 .. n
      PROVE  /\ items[j] \in ItemSet /\ f[j] = 4 + OldWords(items[j])
             /\ g[j] = 4 + BodyWords(items[j])
  BY <1>1, WordsOfItems, WordsOfSent
<1>3. f \in [1 .. n -> Int] /\ g \in [1 .. n -> Int]
  <2>1. f \in [1 .. n -> Nat] /\ g \in [1 .. n -> Nat]
    BY WordsOfItems, WordsOfSent
  <2> HIDE DEF f, g, n
  <2> QED
    BY <2>1
<1>4. ASSUME NEW j \in 1 .. n, j # 1 PROVE g[j] = f[j]
  <2>1. items[j] \in ItemSet /\ ~Differs(items[j])
    BY <1>1, <1>2, <1>4
  <2>2. BodyWords(items[j]) = OldWords(items[j])
    BY <2>1, WordsDiffer
  <2> QED
    BY <1>2, <2>2
<1>5. BodyWords(items[1]) \in Nat /\ OldWords(items[1]) \in Nat
  BY <1>1, <1>2, WordsDiffer
<1>6. Total(f, n) \in Int
  BY WordsOfSent
<1>7. f[1] = 4 + OldWords(items[1]) /\ g[1] = 4 + BodyWords(items[1])
  BY <1>1, <1>2
<1>8. Gain(items) = 4 * (Total(g, n) - Total(f, n))
  BY DEF Gain
<1> HIDE DEF n, f, g
<1>9. Total(g, n) = Total(f, n) + (g[1] - f[1])
  <2>1. \A j \in 0 .. n : Sums(g, n)[j] = Sums(f, n)[j] + IF j >= 1 THEN g[1] - f[1] ELSE 0
    BY <1>1, <1>3, <1>4, SumsChange
  <2> QED
    BY <1>1, <2>1 DEF Total
<1> QED
  BY <1>5, <1>6, <1>7, <1>8, <1>9

LEMMA FramedByInv == WireInv => FramedExactly
<1> SUFFICES ASSUME WireInv, out.left # "no"
             PROVE  Framed <=> /\ {k \in DOMAIN out.items : Differs(out.items[k])} \subseteq {1}
                               /\ out.left = "return" =>
                                    {k \in DOMAIN out.items : Differs(out.items[k])} = {}
  BY DEF FramedExactly, Differs
<1> DEFINE items == out.items
           Longer == {k \in DOMAIN items : Differs(items[k])}
           first == items[1]
<1>1. /\ out \in BufferSet /\ OutShape(out) /\ OutLengths(out)
  BY Parts DEF OutOK
<1>2. /\ items \in Seq(ItemSet) /\ out.boxed \in BOOLEAN /\ out.growth \in Int
      /\ out.payload \in Int /\ out.left \in {"return", "end"}
  BY <1>1 DEF BufferSet
<1>3. items # <<>>
  BY <1>1, NothingThere DEF OutShape
<1>4. 1 \in DOMAIN items /\ DOMAIN items = 1 .. Len(items)
      /\ \A k \in DOMAIN items : items[k] \in ItemSet
  BY <1>2, <1>3
<1>5. /\ out.growth = Gain(items)
      /\ out.payload = PayloadLen(out.boxed, items) - (IF out.left = "end" THEN 0 ELSE out.growth)
      /\ \A k \in DOMAIN items : items[k].declared = 4 * OldWords(items[k])
           + (IF out.left = "end" /\ out.boxed /\ k = 1 THEN out.growth ELSE 0)
  BY <1>1, <1>3 DEF OutLengths
<1>6. PayloadLen(out.boxed, items) \in Int
  BY <1>2, <1>3, PayloadOfItems
<1>7. ~out.boxed => Len(items) = 1
  BY <1>1, <1>3 DEF OutShape
<1>8. \A k \in DOMAIN items : /\ BodyWords(items[k]) \in Nat /\ OldWords(items[k]) \in Nat
                              /\ Differs(items[k]) <=> BodyWords(items[k]) # OldWords(items[k])
  BY <1>4, WordsDiffer
<1>9. Longer \subseteq {1} => Gain(items) = 4 * (BodyWords(first) - OldWords(first))
  <2> SUFFICES ASSUME Longer \subseteq {1}
               PROVE  Gain(items) = 4 * (BodyWords(first) - OldWords(first))
    OBVIOUS
  <2>1. \A k \in DOMAIN items : Differs(items[k]) => k = 1
    OBVIOUS
  <2> QED
    BY <1>2, <1>3, <2>1, GainOfFirst
<1>10. Longer \subseteq {1} => (Longer = {} <=> BodyWords(first) = OldWords(first))
  BY <1>4, <1>8
<1>11. Longer \subseteq {1} => (Longer = {} <=> out.growth = 0)
  <2> DEFINE now == BodyWords(first)
             old == OldWords(first)
  <2>1. now \in Nat /\ old \in Nat
    BY <1>4, <1>8
  <2>2. Longer \subseteq {1} => out.growth = 4 * (now - old) /\ (Longer = {} <=> now = old)
    BY <1>5, <1>9, <1>10
  <2> HIDE DEF now, old, Longer
  <2> QED
    BY <1>2, <2>1, <2>2
<1>12. out.payload = PayloadLen(out.boxed, items) <=> (out.left = "return" => out.growth = 0)
  BY <1>2, <1>5, <1>6
<1>13. ASSUME out.boxed, Framed
       PROVE  Longer \subseteq {1} /\ (out.left = "return" => Longer = {})
  <2>1. \A k \in DOMAIN items : items[k].declared = 4 * BodyWords(items[k])
    BY <1>13 DEF Framed
  <2>2. ASSUME NEW k \in DOMAIN items, k # 1 \/ out.left = "return"
        PROVE  ~Differs(items[k])
    <3>1. items[k].declared = 4 * OldWords(items[k]) + 0
      BY <1>2, <1>5, <2>2
    <3>2. BodyWords(items[k]) = OldWords(items[k])
      <4> DEFINE now == BodyWords(items[k])
                 old == OldWords(items[k])
                 len == items[k].declared
      <4>1. now \in Nat /\ old \in Nat /\ len = 4 * now /\ len = 4 * old + 0
        BY <1>8, <2>1, <3>1
      <4> HIDE DEF now, old, len
      <4>2. now = old
        BY <4>1
      <4> QED
        BY <4>2 DEF now, old
    <3> QED
      BY <1>8, <3>2
  <2> QED
    BY <2>2
<1>14. ASSUME out.boxed, Longer \subseteq {1}, out.left = "return" => Longer = {}
       PROVE  Framed
  <2>1. out.payload = PayloadLen(out.boxed, items)
    BY <1>11, <1>12, <1>14
  <2>2. ASSUME NEW k \in DOMAIN items
        PROVE  items[k].declared = 4 * BodyWords(items[k])
    <3> DEFINE now == BodyWords(items[k])
               old == OldWords(items[k])
               len == items[k].declared
    <3>1. now \in Nat /\ old \in Nat
      BY <1>8
    <3>2. CASE k = 1 /\ out.left = "end"
      <4>1. len = 4 * old + out.growth
        BY <1>5, <1>14, <3>2
      <4>2. out.growth = 4 * (now - old)
        BY <1>5, <1>9, <1>14, <3>2
      <4> HIDE DEF now, old, len
      <4>3. len = 4 * now
        BY <3>1, <4>1, <4>2
      <4> QED
        BY <4>3 DEF len, now
    <3>3. CASE ~(k = 1 /\ out.left = "end")
      <4>1. len = 4 * old + 0
        BY <1>5, <3>3
      <4>2. k \notin Longer
        BY <1>2, <1>14, <3>3
      <4>3. now = old
        BY <1>8, <4>2
      <4> HIDE DEF now, old, len
      <4>4. len = 4 * now
        BY <3>1, <4>1, <4>3
      <4> QED
        BY <4>4 DEF len, now
    <3> QED
      BY <3>2, <3>3
  <2> QED
    BY <2>1, <2>2 DEF Framed
<1>15. CASE ~out.boxed
  <2>1. DOMAIN items = {1}
    BY <1>4, <1>7, <1>15
  <2>2. Longer \subseteq {1}
    BY <2>1
  <2>3. Framed <=> out.payload = PayloadLen(out.boxed, items)
    BY <1>15 DEF Framed
  <2> QED
    BY <1>11, <1>12, <2>2, <2>3
<1> QED
  BY <1>2, <1>13, <1>14, <1>15

LEMMA SkippedByInv == WireInv => NeighbourSkipped
<1> SUFFICES ASSUME WireInv, NoneShrinks(out), NEW k \in 2 .. Len(out.items),
                    out.items[k - 1].text # out.items[k - 1].sent,
                    Size(out.items[k - 1].sent) <= MaxKept
             PROVE  out.items[k].text = out.items[k].sent
  BY DEF NeighbourSkipped, NoneShrinks
<1>1. OutIndex(out) /\ out.items \in Seq(ItemSet)
  BY Parts DEF OutOK, BufferSet
<1>2. k - 1 \in DOMAIN out.items /\ k \in DOMAIN out.items /\ (k - 1) + 1 = k
  BY <1>1
<1> QED
  BY <1>1, <1>2 DEF OutIndex

LEMMA UnderstoodByInv == WireInv => Understood
<1> SUFFICES ASSUME WireInv, NEW e \in server, e.sent.nums # <<>>, ~e.sent.beyond
             PROVE  (e.text = e.sent /\ FillOptions(e.text) = "yes")
                      <=> \A i \in 1 .. 4 : e.sent.nums[i] >= 0
  BY DEF Understood
<1>1. e.sent \in TextSet /\ SentAs(e.text, e.sent)
  BY Parts DEF ServerOK
<1>2. e.sent.nums \in [1 .. 4 -> Int]
  BY <1>1 DEF TextSet
<1>3. FillOptions(e.sent) = IF \E i \in 1 .. 4 : e.sent.nums[i] < 0 THEN "no" ELSE "yes"
  BY <1>2 DEF FillOptions
<1>4. (\A i \in 1 .. 4 : e.sent.nums[i] >= 0) <=> ~\E i \in 1 .. 4 : e.sent.nums[i] < 0
  BY <1>2
<1>5. e.text # e.sent => FillOptions(e.sent) = "no"
  BY <1>1 DEF SentAs
<1> QED
  BY <1>3, <1>4, <1>5

(* What is known of a message of the buffer that is decrypted.             *)
LEMMA KnownOfMessage ==
  ASSUME NEW i, InOK(i), NEW k \in DOMAIN i.msgs
  PROVE  /\ i.list # "none" /\ i \in InputSet /\ i.wrap \in Wraps /\ i.list \in ListsIn(i.wrap)
         /\ i.msgs[k] \in MessageSet /\ MessageOK(i.wrap, i.list, i.msgs[k])
<1>1. i.list # "none"
  <2>1. NoInput.msgs = <<>>
    BY DEF NoInput
  <2>2. i.msgs # <<>>
    <3>1. DOMAIN <<>> = {}
      OBVIOUS
    <3> QED
      BY <3>1
  <2> QED
    BY <2>1, <2>2 DEF InOK
<1>2. i \in InputSet /\ i.list \in ListsIn(i.wrap) /\ MessageOK(i.wrap, i.list, i.msgs[k])
  BY <1>1 DEF InOK
<1>3. i.wrap \in Wraps /\ i.msgs \in Seq(MessageSet)
  BY <1>2 DEF InputSet
<1>4. i.msgs[k] \in MessageSet
  BY <1>3
<1> QED
  BY <1>1, <1>2, <1>3, <1>4

LEMMA ReadBackByInv == WireInv => ReadBack
<1> SUFFICES ASSUME WireInv, NEW k \in DOMAIN in.msgs, in.msgs[k].got.sealed,
                    in.msgs[k].shown # "no"
             PROVE  /\ in.msgs[k].got.clear <= MaxKept /\ in.msgs[k].shown = "clear"
                    /\ Size(in.msgs[k].text) = Max({3, in.msgs[k].got.clear})
  BY DEF ReadBack
<1>1. MessageOK(in.wrap, in.list, in.msgs[k])
  BY Parts, KnownOfMessage
<1> QED
  BY <1>1 DEF MessageOK

LEMMA EndsByInv == WireInv => EndsExplained
<1> SUFFICES ASSUME WireInv PROVE EndsExplained
  OBVIOUS
<1>1. Together(out, in, fault) /\ InOK(in) /\ out \in BufferSet /\ OutIndex(out)
  BY Parts DEF OutOK
<1>2. in # NoInput <=> in.list # "none"
  BY <1>1, NothingThere DEF InOK
<1>3. Pending = Waiting(out) /\ Ahead = AheadIn(in)
  BY DEF Pending, Waiting, Ahead, AheadIn
<1>4. out.at < 0 => \E k \in DOMAIN out.items : Size(out.items[k].sent) > 4096
  <2> SUFFICES ASSUME out.at < 0 PROVE \E k \in DOMAIN out.items : Size(out.items[k].sent) > 4096
    OBVIOUS
  <2>1. out.at \in Int /\ out.items \in Seq(ItemSet)
    BY <1>1 DEF BufferSet
  <2>2. ~NoneShrinks(out)
    BY <1>1, <2>1 DEF OutIndex
  <2>3. PICK k \in DOMAIN out.items : ~(Size(out.items[k].sent) <= MaxTelegramMessageLen)
    BY <2>2 DEF NoneShrinks
  <2> DEFINE item == out.items[k]
  <2>4. item \in ItemSet
    BY <2>1
  <2> HIDE DEF item
  <2>5. Size(item.sent) \in Nat
    BY <2>4, SizeOfText DEF ItemSet
  <2>6. Size(item.sent) > 4096
    BY <2>3, <2>5 DEF item, MaxTelegramMessageLen
  <2> QED
    BY <2>6 DEF item
<1>5. ASSUME NEW k \in DOMAIN in.msgs, in.msgs[k].word # NoWord
      PROVE  \/ in.list = "updates" /\ in.wrap # "rpc"
             \/ in.msgs[k].layout.extra > 0 \/ in.msgs[k].layout.saved # "none"
             \/ (in.msgs[k].layout.from /\ in.msgs[k].layout.peer = "channel")
  <2> DEFINE m == in.msgs[k]
  <2>1. /\ in.wrap \in Wraps /\ in.list \in ListsIn(in.wrap) /\ m \in MessageSet
        /\ MessageOK(in.wrap, in.list, m)
    BY <1>1, KnownOfMessage
  <2>2. m.word # NoWord
    BY <1>5
  <2> HIDE DEF m
  <2>3. m.kind \in Kinds(in.list) /\ m.kind # "other" /\ LookedAt(in.wrap, m) # TextAt(m)
    BY <2>1, <2>2 DEF MessageOK
  <2>4. \/ in.list = "updates" /\ in.wrap # "rpc"
        \/ m.layout.extra > 0 \/ m.layout.saved # "none"
        \/ (m.layout.from /\ m.layout.peer = "channel")
    BY <2>1, <2>3, PlaceLookedAt
  <2> QED
    BY <2>4 DEF m
<1>6. /\ fault = "stoi" => IF in # NoInput THEN in.msgs[Min(Ahead)].got.beyond
                           ELSE out.items[Min(Pending)].sent.beyond
      /\ fault = "throws" => in.msgs[Min(Ahead)].got.clear > MaxKept
      /\ fault = "outside" /\ in # NoInput =>
           \E k \in DOMAIN in.msgs : LenOf(in.msgs[k].word) > 4 * in.behind
  BY <1>1, <1>2, <1>3 DEF Together
<1> QED
  BY <1>4, <1>5, <1>6 DEF EndsExplained

LEMMA LengthsByInv == WireInv => LengthsAgree
<1> SUFFICES ASSUME WireInv, in.left \in {"return", "done"} PROVE LengthsAgree
  BY DEF LengthsAgree
<1>1. InOK(in) /\ Together(out, in, fault)
  BY Parts
<1>2. in.list # "none" /\ fault = "none"
  BY <1>1, NothingThere DEF InOK, Together
<1>3. in \in InputSet /\ Walk(in) /\ InLengths(in) /\ in.msgs # <<>>
  BY <1>1, <1>2 DEF InOK, Together
<1>4. /\ in.payload \in Int /\ in.first \in Int /\ in.zip \in Int /\ in.delta \in Int
      /\ in.msgs \in Seq(MessageSet)
  BY <1>3 DEF InputSet
<1>5. 1 \in DOMAIN in.msgs
  BY <1>3, <1>4
<1>6. Content(in) \in Int /\ Wrapper(in.wrap) \in Int
  BY <1>3, ContentIsSum DEF Wrapper
<1>7. in.left = "return" => in.delta = 0
  BY <1>3 DEF Walk
<1> DEFINE rest == IF in.left = "done" THEN 0 ELSE in.delta
<1>8. rest = 0
  BY <1>7
<1>9. in.wrap = "none" => in.payload = 4 * Content(in)
  <2>1. in.wrap = "none" => in.payload + rest = 4 * Content(in)
    BY <1>3 DEF InLengths
  <2>2. in.payload + 0 = in.payload
    BY <1>4
  <2> HIDE DEF rest
  <2> QED
    BY <1>8, <2>1, <2>2
<1>10. ASSUME in.list = "container"
       PROVE  in.first = 4 * MessageWords(in.msgs[1]) <=>
                in.wrap = "none" \/ Words(Size(in.msgs[1].text)) = Words(Size(in.msgs[1].got))
  <2> DEFINE m == in.msgs[1]
             place == TextAt(m)
             text == Words(Size(m.text))
             got == Words(Size(m.got))
             fields == m.fields
  <2>1. /\ m \in MessageSet /\ MessageOK(in.wrap, in.list, m)
        /\ in.wrap \in Wraps /\ in.list \in ListsIn(in.wrap)
    BY <1>1, <1>5, KnownOfMessage
  <2>2. CASE in.wrap = "none"
    <3>1. in.first + rest = 4 * MessageWords(m)
      BY <1>3, <1>10, <2>2 DEF InLengths
    <3>2. in.first + 0 = in.first
      BY <1>4
    <3> HIDE DEF rest, m
    <3>3. in.first = 4 * MessageWords(m)
      BY <1>8, <3>1, <3>2
    <3> QED
      BY <2>2, <3>3 DEF m
  <2>3. CASE in.wrap # "none"
    <3>1. in.first = 4 * WordsGot(m)
      BY <1>3, <1>10, <2>3 DEF InLengths
    <3> HIDE DEF m
    <3>2. place \in Nat /\ text \in Nat /\ got \in Nat /\ fields \in Nat
          /\ WordsGot(m) = place + got + fields
      BY <2>1, SizesOfMessage
    <3>3. m.word = NoWord
      <4>1. ASSUME m.word # NoWord PROVE FALSE
        <5>1. m.kind \in Kinds(in.list) /\ m.kind # "other" /\ LookedAt(in.wrap, m) # TextAt(m)
          BY <2>1, <4>1 DEF MessageOK
        <5> QED
          BY <1>10, <2>1, <5>1, PlaceLookedAt
      <4> QED
        BY <4>1
    <3>4. MessageWords(m) = place + text + fields + 0
      BY <3>3 DEF MessageWords
    <3> HIDE DEF place, text, got, fields
    <3>5. in.first = 4 * MessageWords(m) <=> text = got
      BY ONLY <1>4, <3>1, <3>2, <3>4
    <3> QED
      BY <2>3, <3>5 DEF text, got, m
  <2> QED
    BY <2>2, <2>3
<1>11. ASSUME in.left = "done", in.wrap # "none"
       PROVE  4 * (Wrapper(in.wrap) + in.zip) <= in.payload <=> in.zip <= Content(in)
  <2> DEFINE content == Content(in)
             wrapper == Wrapper(in.wrap)
  <2>1. in.payload = 4 * (wrapper + content)
    BY <1>3, <1>11 DEF InLengths
  <2> HIDE DEF content, wrapper
  <2>2. 4 * (wrapper + in.zip) <= in.payload <=> in.zip <= content
    BY <1>4, <1>6, <2>1 DEF content, wrapper
  <2> QED
    BY <2>2 DEF content, wrapper
<1> QED
  BY <1>9, <1>10, <1>11 DEF LengthsAgree

(* Of the messages with their text in its place: where the text ends.      *)
LEMMA EndsInPlace ==
  ASSUME NEW i, InOK(i), NEW j \in DOMAIN i.msgs, InPlace(i.wrap, i.msgs[j]),
         i.msgs[j].word = NoWord, i.list # "dialogs", NEW l \in DOMAIN i.msgs, j < l
  PROVE  /\ EndAt(i, j) <= StartOf(i, l)
         /\ EndAt(i, j) = StartOf(i, l) <=>
              l = j + 1 /\ i.list = "slice" /\ i.msgs[j].fields = 0
<1> DEFINE n == Len(i.msgs)
           fields == i.msgs[j].fields
           header == Header(i.list)
           end == EndAt(i, j)
           next == StartOf(i, j + 1)
           start == StartOf(i, l)
<1>1. i \in InputSet /\ i.list # "none" /\ i.list \in ListsIn(i.wrap) /\ i.wrap \in Wraps
      /\ i.msgs[j] \in MessageSet
  BY KnownOfMessage
<1>2. DOMAIN i.msgs = 1 .. n /\ n \in Nat
  BY <1>1 DEF InputSet
<1>3. j \in 1 .. n /\ l \in 1 .. n + 1 /\ j + 1 \in 1 .. n + 1 /\ l \in Nat /\ j \in Nat
      /\ n # 1
  <2>1. j \in 1 .. n /\ l \in 1 .. n
    BY <1>2
  <2> HIDE DEF n
  <2> QED
    BY ONLY <1>2, <2>1, j < l
<1>4. end \in Nat /\ end + fields + header = next
  BY <1>1, Ends
<1>5. next \in Nat /\ start \in Nat /\ (j + 1 < l => next < start)
  BY <1>1, <1>3, Starts
<1>6. fields \in Nat
  <2> DEFINE m == i.msgs[j]
  <2>1. m \in MessageSet
    BY <1>1
  <2> HIDE DEF m
  <2>2. m.fields \in Nat
    BY <2>1 DEF MessageSet
  <2> QED
    BY <2>2 DEF m
<1>7. header \in Nat /\ (header = 0 <=> i.list = "slice")
  <2>1. i.list # "single"
    BY <1>1, <1>3 DEF InOK
  <2>2. header \in Nat /\ (header = 0 <=> i.list \notin {"container", "updates"})
    BY HeaderIsNat
  <2>3. i.list \in {"single", "container", "updates", "slice", "dialogs"}
    BY <1>1 DEF ListsIn
  <2> HIDE DEF header
  <2> QED
    BY <2>1, <2>2, <2>3
<1>8. l = j + 1 => next = start
  OBVIOUS
<1> HIDE DEF fields, header, end, next, start
<1>9. end <= start /\ (end = start <=> l = j + 1 /\ fields = 0 /\ header = 0)
  <2>1. CASE l = j + 1
    <3>1. next = start
      BY <1>8, <2>1
    <3> QED
      BY ONLY <1>4, <1>5, <1>6, <1>7, <2>1, <3>1
  <2>2. CASE l # j + 1
    <3>1. j + 1 < l
      BY <1>3, <2>2
    <3> QED
      BY ONLY <1>4, <1>5, <1>6, <1>7, <2>2, <3>1
  <2> QED
    BY <2>1, <2>2
<1> QED
  BY <1>7, <1>9 DEF fields, header, end, start

LEMMA CoveredByInv == WireInv => ListCovered
<1> DEFINE Jumped(k) == \E j \in 1 .. k - 1 : in.msgs[j].word # NoWord /\ EndAt(in, j) > StartOf(in, k)
           Reached(k) == \E i \in 1 .. k :
             /\ \/ i = 1
                \/ in.wrap # "none" /\ \E j \in 1 .. i - 1 :
                     in.msgs[j].word # NoWord /\ EndAt(in, j) = StartOf(in, i)
             /\ \A j \in i .. k - 1 : Adjacent(j)
<1> SUFFICES ASSUME WireInv, in.left = "done", NEW k \in DOMAIN in.msgs
             PROVE  in.msgs[k].shown # "no" <=>
                      Placed(in, k) /\ IF in.list = "dialogs" THEN ~Jumped(k) ELSE Reached(k)
  BY DEF ListCovered
<1>1. InOK(in) /\ Together(out, in, fault)
  BY Parts
<1>2. in.list # "none" /\ in \in InputSet /\ in.list \in ListsIn(in.wrap)
  BY <1>1, KnownOfMessage
<1>3. Walk(in)
  BY <1>1, <1>2 DEF Together
<1> DEFINE n == Len(in.msgs)
           S == StartsOf(in)
           E == EndsOf(in)
           K == KnownIn(in)
           R == ReadIn(in)
           M == MisreadIn(in)
           P == {j \in DOMAIN in.msgs : Placed(in, j)}
           A == {j \in P : Adjacent(j)}
<1>4. /\ DOMAIN in.msgs = 1 .. n /\ n \in Nat
      /\ Ascending(n, S) /\ E \in [1 .. n -> Nat]
      /\ \A j \in 1 .. n : S[j] = StartOf(in, j) /\ E[j] = EndAt(in, j) /\ S[j] < E[j]
      /\ K \in SUBSET (1 .. n) /\ R \in SUBSET (1 .. n) /\ M \in SUBSET R
  BY <1>2, Abstraction
<1>5. \A j \in DOMAIN in.msgs : MessageOK(in.wrap, in.list, in.msgs[j])
  BY <1>1, KnownOfMessage
<1>6. \A j \in DOMAIN in.msgs : Placed(in, j) <=> InPlace(in.wrap, in.msgs[j])
  BY DEF Placed, InPlace
<1>7. \A j \in M : j \notin P /\ j \in K /\ in.msgs[j].word # NoWord
  BY <1>5 DEF MisreadIn, MessageOK, Placed, KnownIn
<1>8. \A j \in R : j \notin M => j \in P /\ in.msgs[j].shown # "no"
  BY <1>5, <1>6 DEF ReadIn, MisreadIn, WasRead, MessageOK
<1>9. \A j \in P : j \in K /\ j \in 1 .. n
  BY <1>4 DEF Placed, KnownIn
<1>10. in.msgs[k].shown # "no" <=> k \in P /\ k \in R
  <2>1. in.msgs[k].shown # "no" => k \in P /\ k \in R
    BY <1>5, <1>6 DEF MessageOK, ReadIn, WasRead
  <2>2. k \in P /\ k \in R => in.msgs[k].shown # "no"
    BY <1>7, <1>8
  <2> QED
    BY <2>1, <2>2
<1>11. \A j \in DOMAIN in.msgs : j \in M <=> in.msgs[j].word # NoWord
  BY DEF MisreadIn
<1>12. k \in 1 .. n
  BY <1>4
<1>13. in.at \in Nat /\ InOrder(S, E, R, in.at)
  BY <1>2, <1>3 DEF Walk, InputSet
<1>14. CASE in.list = "dialogs"
  <2>1. AllSeen(S, E, K, R, M, in.at, "done")
    BY <1>3, <1>14 DEF Walk
  <2>2. Jumped(k) <=> \E j \in M : j < k /\ E[j] > S[k]
    <3> HIDE DEF S, E, M
    <3>1. \A j \in 1 .. k - 1 : j \in DOMAIN in.msgs /\ j \in 1 .. n /\ j < k
      BY <1>4, <1>12
    <3>2. \A j \in M : j < k => j \in 1 .. k - 1 /\ j \in DOMAIN in.msgs
      BY <1>4, <1>12
    <3> QED
      BY <1>4, <1>11, <1>12, <3>1, <3>2
  <2>3. ASSUME k \in P PROVE k \in R <=> ~\E j \in M : j < k /\ E[j] > S[k]
    <3>1. k \in K
      BY <1>9, <2>3
    <3> HIDE DEF S, E, M, K, R, n
    <3> QED
      BY ONLY <1>4, <1>13, <2>1, <3>1, ReadOfAll
  <2> HIDE DEF Jumped, S, E, M, K, R
  <2> QED
    BY <1>10, <1>14, <2>2, <2>3
<1>15. CASE in.list # "dialogs"
  <2>1. OneAfterAnother(S, E, K, R, in.at, in.wrap, "done")
    BY <1>3, <1>15 DEF Walk
  <2>2. A # {} => in.wrap # "none"
    BY <1>2 DEF Adjacent, ListsIn
  <2>3. ASSUME NEW j \in P, j \notin M, NEW l \in 1 .. n, j < l
        PROVE  E[j] <= S[l] /\ (E[j] = S[l] <=> l = j + 1 /\ j \in A)
    <3>1. InPlace(in.wrap, in.msgs[j]) /\ in.msgs[j].word = NoWord /\ j \in DOMAIN in.msgs
          /\ l \in DOMAIN in.msgs /\ j \in 1 .. n
      BY <1>4, <1>6, <1>11, <2>3
    <3>2. /\ EndAt(in, j) <= StartOf(in, l)
          /\ EndAt(in, j) = StartOf(in, l) <=> l = j + 1 /\ in.list = "slice" /\ in.msgs[j].fields = 0
      BY <1>1, <1>15, <2>3, <3>1, EndsInPlace
    <3>3. j \in A <=> in.list = "slice" /\ in.msgs[j].fields = 0
      BY <2>3 DEF Adjacent
    <3>4. E[j] = EndAt(in, j) /\ S[l] = StartOf(in, l)
      BY <1>4, <3>1
    <3> HIDE DEF A, E, S, P, M, n
    <3> QED
      BY <3>2, <3>3, <3>4
  <2>4. R \in SUBSET K
    BY <1>7, <1>8, <1>9
  <2>5. /\ P \in SUBSET K /\ A \in SUBSET P /\ P \cap M = {}
        /\ \A j \in R : S[j] < E[j] /\ (j \notin M => j \in P)
    BY <1>4, <1>7, <1>8, <1>9
  <2>6. ASSUME k \in P
        PROVE  k \in R <=> \E i \in 1 .. k :
                             /\ i = 1 \/ (in.wrap # "none" /\ \E j \in M : j < i /\ E[j] = S[i])
                             /\ \A j \in i .. k - 1 : j \in A
    <3>1. \A j \in P : j \notin M => \A i \in 1 .. n : j < i =>
            E[j] <= S[i] /\ (E[j] = S[i] <=> i = j + 1 /\ j \in A)
      <4> HIDE DEF S, E, M, P, A, n
      <4> QED
        BY <2>3
    <3> HIDE DEF S, E, M, K, R, P, A, n
    <3>2. /\ Ascending(n, S) /\ E \in [1 .. n -> Nat] /\ K \in SUBSET (1 .. n) /\ M \in SUBSET R
      BY <1>4
    <3>3. SomeRead(n, S, E, K, R, M, P, A, in.at, in.wrap)
      BY ONLY <2>1, <2>2, <2>4, <2>5, <3>1, <3>2 DEF SomeRead
    <3> QED
      BY ONLY <2>6, <3>3, ReadOfSome
  <2>7. Reached(k) <=> \E i \in 1 .. k :
                         /\ i = 1 \/ (in.wrap # "none" /\ \E j \in M : j < i /\ E[j] = S[i])
                         /\ \A j \in i .. k - 1 : j \in A
    <3>1. ASSUME NEW i \in 1 .. k
          PROVE  (\E j \in 1 .. i - 1 : in.msgs[j].word # NoWord /\ EndAt(in, j) = StartOf(in, i))
                   <=> \E j \in M : j < i /\ E[j] = S[i]
      <4>1. \A j \in 1 .. i - 1 : j \in DOMAIN in.msgs /\ j \in 1 .. n /\ j < i
        BY <1>4, <1>12
      <4>2. \A j \in M : j < i => j \in 1 .. i - 1 /\ j \in DOMAIN in.msgs
        BY <1>4, <1>12
      <4>3. i \in 1 .. n
        BY <1>4, <1>12
      <4> HIDE DEF S, E, M, n
      <4> QED
        BY <1>4, <1>11, <4>1, <4>2, <4>3
    <3>2. ASSUME NEW i \in 1 .. k, NEW j \in i .. k - 1
          PROVE  Adjacent(j) <=> j \in A
      <4>1. j \in DOMAIN in.msgs
        BY <1>4, <1>12
      <4> QED
        BY <4>1 DEF Adjacent
    <3> HIDE DEF S, E, M, A
    <3> QED
      BY <3>1, <3>2
  <2> HIDE DEF Reached, S, E, M, K, R, A
  <2> QED
    BY <1>10, <1>15, <2>6, <2>7
<1> QED
  BY <1>14, <1>15

-----------------------------------------------------------------------------
(* FramedExactly, for any texts and any number of messages: encrypt_the_buffer
   leaves lengths the server can read exactly if no text but that of the first
   message has changed its length and the loop came to its end.            *)
THEOREM LengthsAreFramed == Spec => []FramedExactly
BY WireInvariant, FramedByInv, PTL

(* NeighbourSkipped: encrypt_the_buffer jumps over the message right behind a
   text it encrypted, however many messages the container has.             *)
THEOREM NeighbourIsSkipped == Spec => []NeighbourSkipped
BY WireInvariant, SkippedByInv, PTL

(* Understood: init_rsa_encryption's message leaves as it was formed, and is
   taken for one of the protocol, exactly if no number in it is negative.  *)
THEOREM StartIsUnderstood == Spec => []Understood
BY WireInvariant, UnderstoodByInv, PTL

(* ReadBack: what decrypt_the_buffer shows of an encrypted text is what was
   encrypted, for a text of any length.                                    *)
THEOREM TextsReadBack == Spec => []ReadBack
BY WireInvariant, ReadBackByInv, PTL

(* EndsExplained: what ends the program in encrypt_the_buffer and in
   decrypt_the_buffer, whatever the layouts of the messages that arrive and
   the words in them that are taken for the length of a text.              *)
THEOREM EndsHaveCauses == Spec => []EndsExplained
BY WireInvariant, EndsByInv, PTL

(* LengthsAgree: the lengths decrypt_the_buffer leaves are those of the buffer,
   or, of a gzip_packed, those of what is inside, also if it took something
   else for a text.                                                        *)
THEOREM LengthsAreTrue == Spec => []LengthsAgree
BY WireInvariant, LengthsByInv, PTL

(* ListCovered: which messages of a list decrypt_the_buffer has decrypted,
   where it looks in the wrong place and where it jumps over some.         *)
THEOREM ListsAreCovered == Spec => []ListCovered
BY WireInvariant, CoveredByInv, PTL

=============================================================================
