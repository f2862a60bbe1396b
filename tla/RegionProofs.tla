----------------------------- MODULE RegionProofs -----------------------------
(***************************************************************************)
(* Lemmas about the operators of Region, and the induction they rest on:   *)
(* over a set of numbers, drawn from the library's theorem that `<` is     *)
(* well-founded on the naturals.                                           *)
(***************************************************************************)
EXTENDS Region, TLAPS, WellFoundedInduction

LEMMA LeastNumber ==
  ASSUME NEW T, T \subseteq Nat, T # {}
  PROVE  \E x \in T : \A y \in T : x <= y
<1> DEFINE Less == OpToRel(<, Nat)
<1>1. Less = {p \in Nat \X Nat : p[1] < p[2]}
  BY DEF OpToRel
<1>2. IsWellFoundedOn(Less, Nat)
  BY NatLessThanWellFounded
<1> HIDE DEF Less
<1>3. PICK x \in T : \A y \in T : ~ (<<y, x>> \in Less)
  BY <1>2, WFMin
<1>4. \A y \in T : ~ (y < x)
  BY <1>1, <1>3
<1> QED
  BY <1>4

(* A set of numbers with 0 in it, and the successor of each up to n.       *)
LEMMA InductionTo ==
  ASSUME NEW n \in Nat, NEW S, 0 \in S,
         \A i \in 0 .. n - 1 : i \in S => i + 1 \in S
  PROVE  0 .. n \subseteq S
<1> SUFFICES ASSUME (0 .. n) \ S # {} PROVE FALSE
  OBVIOUS
<1>1. (0 .. n) \ S \subseteq Nat
  OBVIOUS
<1>2. PICK x \in (0 .. n) \ S : \A y \in (0 .. n) \ S : x <= y
  BY <1>1, LeastNumber
<1>3. x # 0 /\ x - 1 \in 0 .. n - 1 /\ x - 1 \in 0 .. n
  BY <1>2
<1>4. x - 1 \in S
  BY <1>2, <1>3
<1> QED
  BY <1>2, <1>3, <1>4

-----------------------------------------------------------------------------
IsSum(f, numbers) ==
  f = [n \in 0 .. Len(numbers) |->
         IF n = 0 THEN 0 ELSE f[n - 1] + numbers[n]]

(* The recursive function that SumOf is read off exists.                   *)
LEMMA SumExists ==
  ASSUME NEW numbers \in Seq(Nat)
  PROVE  \E f : IsSum(f, numbers)
<1> DEFINE L == Len(numbers)
           UpTo(m, f) == f = [n \in 0 .. m |->
                                IF n = 0 THEN 0 ELSE f[n - 1] + numbers[n]]
           S == {m \in 0 .. L : \E f : UpTo(m, f)}
<1>1. L \in Nat
  OBVIOUS
<1>2. 0 \in S
  <2>1. UpTo(0, [n \in 0 .. 0 |-> 0])
    OBVIOUS
  <2>2. \E f : UpTo(0, f)
    BY <2>1
  <2>3. 0 \in 0 .. L
    BY <1>1
  <2> HIDE DEF UpTo, L
  <2> QED
    BY <2>2, <2>3
<1>3. ASSUME NEW i \in 0 .. L - 1, i \in S PROVE i + 1 \in S
  <2>1. PICK f : UpTo(i, f)
    BY <1>3
  <2> DEFINE g == [n \in 0 .. i + 1 |->
                     IF n = i + 1 THEN f[i] + numbers[i + 1] ELSE f[n]]
  <2>2. /\ \A n \in 0 .. i : g[n] = f[n]
        /\ g[i + 1] = f[i] + numbers[i + 1]
    BY <1>1
  <2>3. \A n \in 0 .. i : f[n] = IF n = 0 THEN 0 ELSE f[n - 1] + numbers[n]
    BY <2>1
  <2>4. ASSUME NEW n \in 0 .. i + 1
        PROVE  g[n] = IF n = 0 THEN 0 ELSE g[n - 1] + numbers[n]
    <3>1. CASE n = 0
      BY <1>1, <2>2, <2>3, <3>1
    <3>2. CASE n \in 1 .. i
      <4>1. n - 1 \in 0 .. i /\ n \in 0 .. i /\ n # 0
        BY <1>1, <3>2
      <4> QED
        BY <2>2, <2>3, <4>1
    <3>3. CASE n = i + 1
      <4>1. n - 1 = i /\ i \in 0 .. i /\ n # 0
        BY <1>1, <3>3
      <4> QED
        BY <2>2, <3>3, <4>1
    <3> QED
      BY <1>1, <3>1, <3>2, <3>3
  <2>5. UpTo(i + 1, g)
    BY <2>4
  <2>6. i + 1 \in 0 .. L
    BY <1>1
  <2> HIDE DEF UpTo, g
  <2> QED
    BY <2>5, <2>6
<1> HIDE DEF S, L
<1>4. 0 .. L \subseteq S
  BY <1>1, <1>2, <1>3, InductionTo
<1>5. L \in S
  BY <1>1, <1>4
<1>6. \E f : UpTo(L, f)
  BY <1>5 DEF S
<1> QED
  BY <1>6 DEF L, IsSum

LEMMA SumIs ==
  ASSUME NEW numbers \in Seq(Nat)
  PROVE  \E f : IsSum(f, numbers) /\ SumOf(numbers) = f[Len(numbers)]
<1> DEFINE sum == CHOOSE f : IsSum(f, numbers)
<1>1. IsSum(sum, numbers)
  BY SumExists
<1>2. SumOf(numbers) = sum[Len(numbers)]
  BY DEF SumOf, IsSum
<1> QED
  BY <1>1, <1>2

LEMMA SumSteps ==
  ASSUME NEW numbers \in Seq(Nat), NEW f, IsSum(f, numbers)
  PROVE  /\ f[0] = 0
         /\ \A n \in 1 .. Len(numbers) : f[n] = f[n - 1] + numbers[n]
         /\ \A n \in 0 .. Len(numbers) : f[n] \in Nat
<1> DEFINE L == Len(numbers)
           S == {n \in 0 .. L : f[n] \in Nat}
<1>1. L \in Nat
  OBVIOUS
<1>2. \A n \in 0 .. L : f[n] = IF n = 0 THEN 0 ELSE f[n - 1] + numbers[n]
  BY DEF IsSum
<1>3. f[0] = 0 /\ 0 \in S
  BY <1>1, <1>2
<1>4. ASSUME NEW n \in 1 .. L PROVE f[n] = f[n - 1] + numbers[n]
  BY <1>1, <1>2
<1>5. ASSUME NEW n \in 0 .. L - 1, n \in S PROVE n + 1 \in S
  <2>1. n + 1 \in 1 .. L /\ n + 1 \in 0 .. L /\ (n + 1) - 1 = n
    BY <1>1
  <2>2. f[n + 1] = f[n] + numbers[n + 1]
    BY <1>4, <2>1
  <2>3. f[n] \in Nat /\ numbers[n + 1] \in Nat
    BY <1>5, <2>1
  <2> QED
    BY <2>1, <2>2, <2>3
<1> HIDE DEF S, L
<1>6. 0 .. L \subseteq S
  BY <1>1, <1>3, <1>5, InductionTo
<1> QED
  BY <1>3, <1>4, <1>6 DEF S, L

LEMMA SumOfNone == SumOf(<< >>) = 0
<1>1. << >> \in Seq(Nat) /\ Len(<< >>) = 0
  OBVIOUS
<1> QED
  BY <1>1, SumIs, SumSteps

LEMMA SumOfAppend ==
  ASSUME NEW numbers \in Seq(Nat), NEW x \in Nat
  PROVE  /\ SumOf(numbers) \in Nat
         /\ SumOf(Append(numbers, x)) = SumOf(numbers) + x
<1> DEFINE L == Len(numbers)
           more == Append(numbers, x)
<1>1. /\ L \in Nat
      /\ more \in Seq(Nat)
      /\ Len(more) = L + 1
      /\ more[L + 1] = x
      /\ \A i \in 1 .. L : more[i] = numbers[i]
  OBVIOUS
<1>2. PICK f : IsSum(f, numbers) /\ SumOf(numbers) = f[L]
  BY SumIs
<1> HIDE DEF more
<1>3. PICK g : IsSum(g, more) /\ SumOf(more) = g[Len(more)]
  BY <1>1, SumIs
<1>4. /\ f[0] = 0
      /\ \A n \in 1 .. L : f[n] = f[n - 1] + numbers[n]
      /\ \A n \in 0 .. L : f[n] \in Nat
  BY <1>2, SumSteps
<1>5. /\ g[0] = 0
      /\ \A n \in 1 .. L + 1 : g[n] = g[n - 1] + more[n]
  BY <1>1, <1>3, SumSteps
<1> DEFINE S == {n \in 0 .. L : g[n] = f[n]}
<1> HIDE DEF L
<1>6. 0 \in S
  BY <1>1, <1>4, <1>5
<1>7. ASSUME NEW n \in 0 .. L - 1, n \in S PROVE n + 1 \in S
  <2>1. /\ n + 1 \in 1 .. L /\ n + 1 \in 1 .. L + 1
        /\ n + 1 \in 0 .. L /\ (n + 1) - 1 = n
    BY <1>1
  <2>2. g[n + 1] = g[n] + more[n + 1] /\ f[n + 1] = f[n] + numbers[n + 1]
    BY <1>4, <1>5, <2>1
  <2> QED
    BY <1>1, <1>7, <2>1, <2>2
<1> HIDE DEF S
<1>8. 0 .. L \subseteq S
  BY <1>1, <1>6, <1>7, InductionTo
<1>9. g[L] = f[L] /\ f[L] \in Nat
  BY <1>1, <1>4, <1>8 DEF S
<1>10. g[L + 1] = g[L] + x
  <2>1. L + 1 \in 1 .. L + 1 /\ (L + 1) - 1 = L
    BY <1>1
  <2> QED
    BY <1>1, <1>5, <2>1
<1> QED
  BY <1>1, <1>2, <1>3, <1>9, <1>10 DEF more

LEMMA SizeOfNone == EncodedSize(<< >>) = 0
<1>1. [i \in 1 .. Len(<< >>) |-> HEADER_SIZE + << >>[i].size] = << >>
  OBVIOUS
<1> QED
  BY <1>1, SumOfNone DEF EncodedSize

LEMMA SizeOfType ==
  ASSUME NEW T, \A t \in T : t.size \in Nat, NEW regions \in Seq(T)
  PROVE  EncodedSize(regions) \in Nat
<1> DEFINE sizes == [i \in 1 .. Len(regions) |-> HEADER_SIZE + regions[i].size]
<1>1. Len(regions) \in Nat /\ \A i \in 1 .. Len(regions) : regions[i] \in T
  OBVIOUS
<1>2. sizes \in Seq(Nat)
  BY <1>1 DEF HEADER_SIZE
<1> HIDE DEF sizes
<1>3. SumOf(sizes) \in Nat
  BY <1>2, SumOfAppend, 0 \in Nat
<1> QED
  BY <1>3 DEF EncodedSize, sizes

LEMMA SizeOfAppend ==
  ASSUME NEW T, \A t \in T : t.size \in Nat, NEW regions \in Seq(T), NEW r \in T
  PROVE  /\ EncodedSize(regions) \in Nat
         /\ EncodedSize(Append(regions, r))
              = EncodedSize(regions) + HEADER_SIZE + r.size
<1> DEFINE sizes == [i \in 1 .. Len(regions) |-> HEADER_SIZE + regions[i].size]
           more == Append(regions, r)
           x == HEADER_SIZE + r.size
<1>1. /\ Len(regions) \in Nat
      /\ Len(more) = Len(regions) + 1
      /\ more[Len(regions) + 1] = r
      /\ \A i \in 1 .. Len(regions) : more[i] = regions[i] /\ regions[i] \in T
  OBVIOUS
<1>2. sizes \in Seq(Nat) /\ Len(sizes) = Len(regions) /\ x \in Nat
  BY <1>1 DEF HEADER_SIZE
<1> HIDE DEF more
<1>3. [i \in 1 .. Len(more) |-> HEADER_SIZE + more[i].size] = Append(sizes, x)
  <2>1. Append(sizes, x) = [i \in 1 .. Len(regions) + 1 |->
                              IF i = Len(regions) + 1 THEN x ELSE sizes[i]]
    BY <1>1, <1>2
  <2>2. ASSUME NEW i \in 1 .. Len(regions) + 1
        PROVE  HEADER_SIZE + more[i].size
                 = IF i = Len(regions) + 1 THEN x ELSE sizes[i]
    BY <1>1
  <2> QED
    BY <1>1, <2>1, <2>2
<1> HIDE DEF sizes, x
<1>4. SumOf(sizes) \in Nat /\ SumOf(Append(sizes, x)) = SumOf(sizes) + x
  BY <1>2, SumOfAppend
<1>5. EncodedSize(regions) = SumOf(sizes) /\ EncodedSize(more) = SumOf(Append(sizes, x))
  BY <1>3 DEF EncodedSize, sizes
<1>6. EncodedSize(more) = EncodedSize(regions) + x
  BY <1>4, <1>5
<1>7. x = HEADER_SIZE + r.size /\ r.size \in Nat /\ HEADER_SIZE \in Nat
  BY DEF x, HEADER_SIZE
<1>8. EncodedSize(regions) \in Nat
  BY <1>4, <1>5
<1>9. EncodedSize(regions) + x = EncodedSize(regions) + HEADER_SIZE + r.size
  BY <1>7, <1>8
<1> QED
  BY <1>6, <1>8, <1>9 DEF more

-----------------------------------------------------------------------------
(* Division with remainder has one outcome.                                *)
LEMMA DivIs ==
  ASSUME NEW d \in Nat \ {0}, NEW q \in Nat, NEW r \in 0 .. d - 1
  PROVE  (q * d + r) \div d = q /\ (q * d + r) % d = r
<1> DEFINE a == q * d + r
           p == a \div d
           s == a % d
<1>1. a \in Nat /\ p \in Nat /\ s \in 0 .. d - 1 /\ a = p * d + s
  OBVIOUS
<1> HIDE DEF p, s
<1>2. p * d + s = q * d + r
  BY <1>1
<1>3. CASE p > q
  <2>1. p * d >= (q + 1) * d
    BY <1>1, <1>3
  <2>2. (q + 1) * d = q * d + d
    OBVIOUS
  <2> QED
    BY <1>1, <1>2, <2>1, <2>2
<1>4. CASE p < q
  <2>1. q * d >= (p + 1) * d
    BY <1>1, <1>4
  <2>2. (p + 1) * d = p * d + d
    BY <1>1
  <2> QED
    BY <1>1, <1>2, <2>1, <2>2
<1>5. CASE p = q
  BY <1>1, <1>2, <1>5 DEF p, s
<1> QED
  BY <1>1, <1>3, <1>4, <1>5
=============================================================================
