------------------------- MODULE DecodeGuardsProofs -------------------------
(***************************************************************************)
(* Proofs about DecodeGuards for values of any shape and depth, with a     *)
(* failure at any part of them.                                            *)
(*                                                                         *)
(* The invariant speaks of a tree t, of what the places of its nodes hold  *)
(* (s), of their allocations (h) and of the counts of the guards (c), so   *)
(* that its parts are lemmas about values, before and after a step.        *)
(***************************************************************************)
EXTENDS DecodeGuards, TLAPS

NodesOf(t) == DOMAIN t.kind

(* The part that a call is decoding, or that has failed.                   *)
Busy(t, c, n) == c[n] < Len(t.parts[n])
Child(t, c, n) == t.parts[n][c[n] + 1]

(* What has been decoded, and what has not been begun.                     *)
Whole(t, s, h, n) ==
  \A m \in t.below[n] :
    s[m] = "init" /\ (t.kind[m] \in {"slice", "vec"} => h[m] = "live")
Untouched(t, s, h, c, n) ==
  \A m \in t.below[n] : s[m] = "uninit" /\ h[m] = "none" /\ c[m] = 0

(* What has failed and been cleaned up, but for what a guard forgets.      *)
Excused(t, s, m) ==
  \E a \in NodesOf(t) :
    /\ s[a] = "uninit"
    /\ m \in t.below[a] \ {a}
    /\ \/ t.kind[a] \in {"array", "slice"}
       \/ t.kind[a] = "struct" /\ t.kind[m] = "skipped"
Failed(t, s, h, n) ==
  \A m \in t.below[n] : ~Excused(t, s, m) => s[m] # "init" /\ h[m] # "live"

(* A running call: its parts up to the count are whole, those behind the   *)
(* next one untouched.                                                     *)
Frame(t, s, h, c, n) ==
  /\ n \in NodesOf(t)
  /\ t.kind[n] \notin {"leaf", "skipped"}
  /\ s[n] = "uninit"
  /\ t.kind[n] \in Allocating => h[n] = "live"
  /\ c[n] \in 0 .. Len(t.parts[n])
  /\ \A k \in 1 .. Len(t.parts[n]) :
       /\ k <= c[n] => Whole(t, s, h, t.parts[n][k])
       /\ k > c[n] + 1 => Untouched(t, s, h, c, t.parts[n][k])

(* The running calls are nested as the value is.                           *)
Inside(t, c, n, m) ==
  Busy(t, c, n) /\ t.below[m] \subseteq t.below[Child(t, c, n)]
Path(t, s, h, c, p) ==
  /\ p # << >> => p[1] = t.root
  /\ \A i \in 1 .. Len(p) : Frame(t, s, h, c, p[i])
  /\ \A i \in 1 .. Len(p) - 1 : p[i + 1] = Child(t, c, p[i])
  /\ \A i, j \in 1 .. Len(p) : i < j => Inside(t, c, p[i], p[j])

-----------------------------------------------------------------------------
LEMMA TreeFacts ==
  ASSUME NEW t, IsTree(t), NEW n \in NodesOf(t)
  PROVE  /\ t.kind[n] \in Kinds
         /\ t.parts[n] \in Seq(NodesOf(t)) /\ Len(t.parts[n]) \in Nat
         /\ t.below[n] \subseteq NodesOf(t) /\ n \in t.below[n]
         /\ \A m \in t.below[n] : t.below[m] \subseteq t.below[n]
         /\ t.kind[n] \in {"leaf", "skipped"}
              => Len(t.parts[n]) = 0 /\ t.below[n] = {n}
         /\ t.kind[n] = "pointer" => Len(t.parts[n]) = 1
<1>1. /\ t.kind[n] \in Kinds
      /\ t.parts[n] \in Seq(NodesOf(t))
      /\ t.below[n] \subseteq NodesOf(t)
  BY DEF IsTree, NodesOf
<1>2. t.below[n] =
        {n} \cup UNION {t.below[t.parts[n][i]] : i \in DOMAIN t.parts[n]}
  BY DEF IsTree, NodesOf
<1>3. \A m \in t.below[n] : t.below[m] \subseteq t.below[n]
  BY DEF IsTree, NodesOf
<1>4. t.kind[n] \in {"leaf", "skipped"} => t.parts[n] = << >>
  BY DEF IsTree, NodesOf
<1>5. t.kind[n] = "pointer" => Len(t.parts[n]) = 1
  BY DEF IsTree, NodesOf
<1>6. n \in t.below[n]
  BY <1>2
<1>7. ASSUME t.parts[n] = << >> PROVE Len(t.parts[n]) = 0 /\ t.below[n] = {n}
  <2>1. DOMAIN t.parts[n] = {}
    BY <1>7
  <2>2. t.below[n] = {n}
    BY <1>2, <2>1, Zenon
  <2> QED
    BY <1>7, <2>2
<1>8. Len(t.parts[n]) \in Nat
  BY <1>1
<1> QED
  BY <1>1, <1>3, <1>4, <1>5, <1>6, <1>7, <1>8

(* What lies below a node is the node and what lies below its parts, of    *)
(* which each has its own.                                                 *)
LEMMA PartFacts ==
  ASSUME NEW t, IsTree(t), NEW n \in NodesOf(t)
  PROVE  /\ \A k \in 1 .. Len(t.parts[n]) :
              /\ t.parts[n][k] \in NodesOf(t)
              /\ t.below[t.parts[n][k]] \subseteq t.below[n]
              /\ n \notin t.below[t.parts[n][k]]
         /\ \A k, l \in 1 .. Len(t.parts[n]) : \A m :
              m \in t.below[t.parts[n][k]] /\ m \in t.below[t.parts[n][l]]
                => k = l
         /\ \A m \in t.below[n] : m # n =>
              \E k \in 1 .. Len(t.parts[n]) : m \in t.below[t.parts[n][k]]
<1>1. t.parts[n] \in Seq(NodesOf(t))
  BY TreeFacts
<1>2. DOMAIN t.parts[n] = 1 .. Len(t.parts[n])
  BY <1>1
<1>3. t.below[n] =
        {n} \cup UNION {t.below[t.parts[n][i]] : i \in DOMAIN t.parts[n]}
  BY DEF IsTree, NodesOf
<1>4. \A i \in DOMAIN t.parts[n] : n \notin t.below[t.parts[n][i]]
  BY DEF IsTree, NodesOf
<1>5. \A i, j \in DOMAIN t.parts[n] :
        i # j => t.below[t.parts[n][i]] \cap t.below[t.parts[n][j]] = {}
  BY DEF IsTree, NodesOf
<1>6. \A i \in DOMAIN t.parts[n] : t.parts[n][i] \in NodesOf(t)
  BY <1>1
<1> QED
  BY <1>2, <1>3, <1>4, <1>5, <1>6, Zenon

(* A step that changes nothing but below the part a call is busy with.     *)
Aside(t, s, s2, n) == \A m \in NodesOf(t) \ t.below[n] : s2[m] = s[m]

LEMMA ChildFacts ==
  ASSUME NEW t, IsTree(t), NEW c, NEW n \in NodesOf(t),
         c[n] \in Nat, Busy(t, c, n)
  PROVE  /\ c[n] + 1 \in 1 .. Len(t.parts[n])
         /\ Child(t, c, n) \in NodesOf(t)
         /\ t.below[Child(t, c, n)] \subseteq t.below[n]
         /\ n \notin t.below[Child(t, c, n)]
         /\ Child(t, c, n) \in t.below[Child(t, c, n)]
         /\ \A k \in 1 .. Len(t.parts[n]) : k # c[n] + 1 =>
              \A m \in t.below[t.parts[n][k]] :
                m \in NodesOf(t) \ t.below[Child(t, c, n)]
<1>1. c[n] + 1 \in 1 .. Len(t.parts[n])
  BY TreeFacts DEF Busy
<1> DEFINE j == c[n] + 1
<1> HIDE DEF j
<1>2. j \in 1 .. Len(t.parts[n]) /\ Child(t, c, n) = t.parts[n][j]
  BY <1>1 DEF j, Child
<1>3. /\ t.parts[n][j] \in NodesOf(t)
      /\ t.below[t.parts[n][j]] \subseteq t.below[n]
      /\ n \notin t.below[t.parts[n][j]]
  BY <1>2, PartFacts
<1>4. t.parts[n][j] \in t.below[t.parts[n][j]]
  BY <1>3, TreeFacts
<1>5. ASSUME NEW k \in 1 .. Len(t.parts[n]), k # j,
             NEW m \in t.below[t.parts[n][k]]
      PROVE  m \in NodesOf(t) \ t.below[t.parts[n][j]]
  <2>1. t.parts[n][k] \in NodesOf(t)
    BY <1>5, PartFacts
  <2>2. m \in NodesOf(t)
    BY <2>1, <1>5, TreeFacts
  <2>3. m \notin t.below[t.parts[n][j]]
    BY <1>2, <1>5, PartFacts
  <2> QED
    BY <2>2, <2>3
<1> QED
  BY <1>1, <1>2, <1>3, <1>4, <1>5 DEF j

LEMMA FrameKept ==
  ASSUME NEW t, IsTree(t), NEW s, NEW h, NEW c, NEW s2, NEW h2, NEW c2, NEW n,
         Frame(t, s, h, c, n), Busy(t, c, n),
         Aside(t, s, s2, Child(t, c, n)), Aside(t, h, h2, Child(t, c, n)),
         Aside(t, c, c2, Child(t, c, n))
  PROVE  Frame(t, s2, h2, c2, n) /\ c2[n] = c[n]
<1>1. n \in NodesOf(t) /\ c[n] \in Nat
  BY DEF Frame
<1>2. s2[n] = s[n] /\ h2[n] = h[n] /\ c2[n] = c[n]
  BY <1>1, ChildFacts DEF Aside
<1>3. ASSUME NEW k \in 1 .. Len(t.parts[n]), k # c[n] + 1,
             NEW m \in t.below[t.parts[n][k]]
      PROVE  s2[m] = s[m] /\ h2[m] = h[m] /\ c2[m] = c[m]
  BY <1>1, <1>3, ChildFacts DEF Aside
<1>4. \A k \in 1 .. Len(t.parts[n]) :
        /\ k <= c[n] => Whole(t, s2, h2, t.parts[n][k])
        /\ k > c[n] + 1 => Untouched(t, s2, h2, c2, t.parts[n][k])
  <2> SUFFICES ASSUME NEW k \in 1 .. Len(t.parts[n])
               PROVE  /\ k <= c[n] => Whole(t, s2, h2, t.parts[n][k])
                      /\ k > c[n] + 1 => Untouched(t, s2, h2, c2, t.parts[n][k])
    OBVIOUS
  <2>1. k <= c[n] \/ k > c[n] + 1 => k # c[n] + 1
    BY <1>1
  <2>2. CASE k <= c[n]
    BY <1>1, <1>3, <2>1, <2>2 DEF Frame, Whole
  <2>3. CASE k > c[n] + 1
    BY <1>1, <1>3, <2>1, <2>3 DEF Frame, Untouched
  <2> QED
    BY <2>2, <2>3
<1> QED
  BY <1>1, <1>2, <1>4 DEF Frame

(* The part a call is busy with is whole, and counted.                     *)
LEMMA FrameAdvances ==
  ASSUME NEW t, IsTree(t), NEW s, NEW h, NEW c, NEW s2, NEW h2, NEW c2, NEW n,
         Frame(t, s, h, c, n), Busy(t, c, n),
         Aside(t, s, s2, Child(t, c, n)), Aside(t, h, h2, Child(t, c, n)),
         c2[n] = c[n] + 1, \A m \in NodesOf(t) \ {n} : c2[m] = c[m],
         Whole(t, s2, h2, Child(t, c, n))
  PROVE  /\ Frame(t, s2, h2, c2, n)
         /\ Busy(t, c2, n) => Untouched(t, s2, h2, c2, Child(t, c2, n))
<1>1. n \in NodesOf(t) /\ c[n] \in Nat /\ c[n] + 1 \in 1 .. Len(t.parts[n])
  BY ChildFacts DEF Frame
<1>2. s2[n] = s[n] /\ h2[n] = h[n]
  BY <1>1, ChildFacts DEF Aside
<1>3. ASSUME NEW k \in 1 .. Len(t.parts[n]), k # c[n] + 1,
             NEW m \in t.below[t.parts[n][k]]
      PROVE  s2[m] = s[m] /\ h2[m] = h[m] /\ c2[m] = c[m]
  <2>1. m \in NodesOf(t) \ t.below[Child(t, c, n)]
    BY <1>1, <1>3, ChildFacts
  <2>2. m # n
    BY <1>1, <1>3, PartFacts
  <2> QED
    BY <2>1, <2>2 DEF Aside
<1>4. ASSUME NEW k \in 1 .. Len(t.parts[n]), k < c[n] + 1
      PROVE  Whole(t, s2, h2, t.parts[n][k])
  <2>1. k # c[n] + 1 /\ k <= c[n]
    BY <1>1, <1>4
  <2> QED
    BY <1>3, <2>1 DEF Frame, Whole
<1>5. ASSUME NEW k \in 1 .. Len(t.parts[n]), k > c[n] + 1
      PROVE  Untouched(t, s2, h2, c2, t.parts[n][k])
  <2>1. k # c[n] + 1
    BY <1>1, <1>5
  <2> QED
    BY <1>3, <1>5, <2>1 DEF Frame, Untouched
<1>6. Whole(t, s2, h2, t.parts[n][c[n] + 1])
  BY DEF Child
<1>7. Len(t.parts[n]) \in Nat
  BY <1>1, TreeFacts
<1>8. Frame(t, s2, h2, c2, n)
  <2>1. c2[n] \in 0 .. Len(t.parts[n])
    BY <1>1
  <2>2. \A k \in 1 .. Len(t.parts[n]) :
          /\ k <= c2[n] => Whole(t, s2, h2, t.parts[n][k])
          /\ k > c2[n] + 1 => Untouched(t, s2, h2, c2, t.parts[n][k])
    <3> SUFFICES ASSUME NEW k \in 1 .. Len(t.parts[n])
                 PROVE  /\ k <= c2[n] => Whole(t, s2, h2, t.parts[n][k])
                        /\ k > c2[n] + 1
                             => Untouched(t, s2, h2, c2, t.parts[n][k])
      OBVIOUS
    <3>1. k <= c2[n] => k < c[n] + 1 \/ k = c[n] + 1
      BY <1>1
    <3>2. k > c2[n] + 1 => k > c[n] + 1
      BY <1>1
    <3> QED
      BY <1>4, <1>5, <1>6, <3>1, <3>2
  <2> QED
    BY <1>1, <1>2, <2>1, <2>2 DEF Frame
<1>9. ASSUME Busy(t, c2, n) PROVE Untouched(t, s2, h2, c2, Child(t, c2, n))
  <2>1. c2[n] + 1 \in 1 .. Len(t.parts[n]) /\ c2[n] + 1 > c[n] + 1
    BY <1>1, <1>7, <1>9 DEF Busy
  <2> QED
    BY <1>5, <2>1 DEF Child
<1> QED
  BY <1>8, <1>9

-----------------------------------------------------------------------------
(* The running calls, all but the last of them, and one more.              *)
LEMMA Beginning ==
  ASSUME NEW S, NEW p \in Seq(S), NEW n \in 0 .. Len(p)
  PROVE  /\ SubSeq(p, 1, n) \in Seq(S)
         /\ Len(SubSeq(p, 1, n)) = n
         /\ \A i \in 1 .. n : SubSeq(p, 1, n)[i] = p[i]
  OBVIOUS

LEMMA Callers ==
  ASSUME NEW S, NEW p \in Seq(S), p # << >>
  PROVE  /\ Len(p) \in Nat /\ Len(p) >= 1
         /\ \A i \in 1 .. Len(p) : p[i] \in S
         /\ Caller(p) \in Seq(S)
         /\ Len(Caller(p)) = Len(p) - 1
         /\ \A i \in 1 .. Len(p) - 1 : Caller(p)[i] = p[i]
         /\ Caller(p) = << >> <=> Len(p) = 1
<1>1. Len(p) \in Nat /\ Len(p) >= 1 /\ \A i \in 1 .. Len(p) : p[i] \in S
  OBVIOUS
<1>2. Len(p) - 1 \in 0 .. Len(p) /\ 1 .. Len(p) - 1 \subseteq 1 .. Len(p)
  BY <1>1
<1>3. /\ Caller(p) \in Seq(S)
      /\ Len(Caller(p)) = Len(p) - 1
      /\ \A i \in 1 .. Len(p) - 1 : Caller(p)[i] = p[i]
  BY <1>2, Beginning DEF Caller
<1>4. Caller(p) = << >> <=> Len(p) = 1
  BY <1>1, <1>3
<1> QED
  BY <1>1, <1>3, <1>4

LEMMA Callees ==
  ASSUME NEW S, NEW p \in Seq(S), NEW x \in S
  PROVE  /\ Append(p, x) \in Seq(S) /\ Append(p, x) # << >>
         /\ Len(p) \in Nat
         /\ Len(Append(p, x)) = Len(p) + 1
         /\ \A i \in 1 .. Len(p) : Append(p, x)[i] = p[i]
         /\ Append(p, x)[Len(p) + 1] = x
  OBVIOUS

LEMMA PathShorter ==
  ASSUME NEW t, IsTree(t), NEW s, NEW h, NEW c, NEW p \in Seq(NodesOf(t)),
         Path(t, s, h, c, p), p # << >>, NEW x, x = p[Len(p)],
         NEW r, r = Caller(p), NEW q, q = r[Len(r)]
  PROVE  /\ Path(t, s, h, c, r)
         /\ r = << >> => x = t.root
         /\ r # << >> => Busy(t, c, q) /\ x = Child(t, c, q)
<1> DEFINE l == Len(r)
<1>1. /\ r \in Seq(NodesOf(t)) /\ l = Len(p) - 1
      /\ Len(p) \in Nat /\ Len(p) >= 1
      /\ \A i \in 1 .. l : r[i] = p[i]
      /\ r = << >> <=> Len(p) = 1
  BY Callers
<1>2. l \in Nat /\ (r # << >> => l >= 1)
  BY <1>1
<1> HIDE DEF l
<1>3. \A i \in 1 .. l : i \in 1 .. Len(p)
  BY <1>1, <1>2
<1>4. r # << >> => r[1] = t.root
  BY <1>1, <1>2 DEF Path
<1>5. \A i \in 1 .. l : Frame(t, s, h, c, r[i])
  BY <1>1, <1>3 DEF Path
<1>6. ASSUME NEW i \in 1 .. l - 1 PROVE r[i + 1] = Child(t, c, r[i])
  <2>1. i \in 1 .. l /\ i + 1 \in 1 .. l /\ i \in 1 .. Len(p) - 1
    BY <1>1, <1>2
  <2> QED
    BY <1>1, <2>1 DEF Path
<1>7. \A i, j \in 1 .. l : i < j => Inside(t, c, r[i], r[j])
  BY <1>1, <1>3 DEF Path
<1>8. Path(t, s, h, c, r)
  BY <1>4, <1>5, <1>6, <1>7 DEF Path, l
<1>9. r = << >> => p[Len(p)] = t.root
  BY <1>1 DEF Path
<1>10. ASSUME r # << >>
       PROVE  Busy(t, c, r[l]) /\ p[Len(p)] = Child(t, c, r[l])
  <2>1. l \in 1 .. Len(p) - 1 /\ l \in 1 .. Len(p) /\ l + 1 = Len(p)
        /\ Len(p) \in 1 .. Len(p) /\ l < Len(p)
    BY <1>1, <1>2, <1>10
  <2>2. r[l] = p[l]
    BY <1>1, <1>2, <1>10
  <2>3. Inside(t, c, p[l], p[Len(p)])
    BY <2>1 DEF Path
  <2>4. p[l + 1] = Child(t, c, p[l])
    BY <2>1 DEF Path
  <2> QED
    BY <2>1, <2>2, <2>3, <2>4 DEF Inside
<1> QED
  BY <1>8, <1>9, <1>10 DEF l

LEMMA PathLonger ==
  ASSUME NEW t, IsTree(t), NEW s, NEW h, NEW c, NEW p \in Seq(NodesOf(t)),
         NEW x \in NodesOf(t), Path(t, s, h, c, p), Frame(t, s, h, c, x),
         p = << >> => x = t.root,
         p # << >> => /\ Busy(t, c, p[Len(p)])
                      /\ x = Child(t, c, p[Len(p)])
  PROVE  Path(t, s, h, c, Append(p, x))
<1> DEFINE r == Append(p, x)
           l == Len(p)
<1>1. /\ l \in Nat /\ Len(r) = l + 1 /\ r # << >>
      /\ \A i \in 1 .. l : r[i] = p[i]
      /\ r[l + 1] = x
  BY Callees
<1>2. p # << >> => l >= 1
  OBVIOUS
<1>3. \A i \in 1 .. l : p[i] \in NodesOf(t)
  OBVIOUS
<1>4. p = << >> => l = 0
  OBVIOUS
<1> HIDE DEF r, l
<1>5. r[1] = t.root
  <2>1. CASE p = << >>
    BY <1>1, <1>4, <2>1
  <2>2. CASE p # << >>
    BY <1>1, <1>2, <2>2 DEF Path
  <2> QED
    BY <2>1, <2>2
<1>6. \A i \in 1 .. l + 1 : i \in 1 .. l \/ i = l + 1
  BY <1>1
<1>7. \A i \in 1 .. l + 1 : Frame(t, s, h, c, r[i])
  BY <1>1, <1>6 DEF Path, l
<1>8. ASSUME NEW i \in 1 .. (l + 1) - 1 PROVE r[i + 1] = Child(t, c, r[i])
  <2>1. i \in 1 .. l
    BY <1>1
  <2>2. CASE i = l
    <3>1. p # << >>
      BY <1>4, <2>1
    <3> QED
      BY <1>1, <2>1, <2>2, <3>1 DEF l
  <2>3. CASE i # l
    <3>1. i \in 1 .. l - 1 /\ i + 1 \in 1 .. l
      BY <1>1, <2>1, <2>3
    <3> QED
      BY <1>1, <2>1, <3>1 DEF Path, l
  <2> QED
    BY <2>2, <2>3
<1>9. ASSUME NEW i \in 1 .. l + 1, NEW j \in 1 .. l + 1, i < j
      PROVE  Inside(t, c, r[i], r[j])
  <2>1. i \in 1 .. l
    BY <1>1, <1>9
  <2>2. CASE j \in 1 .. l
    BY <1>1, <1>9, <2>1, <2>2 DEF Path, l
  <2>3. CASE j = l + 1
    <3>1. p # << >> /\ l \in 1 .. l
      BY <1>1, <1>4, <2>1
    <3>2. /\ Busy(t, c, p[l]) /\ x = Child(t, c, p[l])
          /\ p[l] \in NodesOf(t) /\ c[p[l]] \in Nat
      BY <1>3, <3>1 DEF l, Path, Frame
    <3>3. CASE i = l
      BY <1>1, <2>1, <2>3, <3>2, <3>3 DEF Inside
    <3>4. CASE i # l
      <4>1. i < l
        BY <1>1, <2>1, <3>4
      <4>2. Inside(t, c, p[i], p[l])
        BY <2>1, <3>1, <4>1 DEF Path, l
      <4>3. t.below[x] \subseteq t.below[p[l]]
        BY <3>2, ChildFacts
      <4> QED
        BY <1>1, <2>1, <2>3, <4>2, <4>3 DEF Inside
    <3> QED
      BY <3>3, <3>4
  <2> QED
    BY <1>6, <2>2, <2>3
<1> QED
  BY <1>1, <1>5, <1>7, <1>8, <1>9 DEF Path, r

LEMMA Wider ==
  ASSUME NEW t, NEW s, NEW s2, NEW x, NEW y,
         Aside(t, s, s2, x), t.below[x] \subseteq t.below[y]
  PROVE  Aside(t, s, s2, y)
BY DEF Aside

(* What happens below the part that the innermost call is busy with does   *)
(* not concern the calls.                                                  *)
LEMMA Innermost ==
  ASSUME NEW t, IsTree(t), NEW s, NEW h, NEW c, NEW p \in Seq(NodesOf(t)),
         Path(t, s, h, c, p), p # << >>, NEW q, q = p[Len(p)]
  PROVE  /\ q \in NodesOf(t) /\ c[q] \in Nat /\ Frame(t, s, h, c, q)
         /\ \A i \in 1 .. Len(p) : i # Len(p) => Inside(t, c, p[i], q)
<1> DEFINE l == Len(p)
<1>1. l \in Nat /\ l >= 1
  OBVIOUS
<1> HIDE DEF l
<1>2. l \in 1 .. l /\ \A i \in 1 .. l : i # l => i < l
  BY <1>1
<1>3. Frame(t, s, h, c, q) /\ \A i \in 1 .. l : i # l => Inside(t, c, p[i], q)
  BY <1>2 DEF Path, l
<1> QED
  BY <1>3 DEF Frame, l

LEMMA PathKept ==
  ASSUME NEW t, IsTree(t), NEW s, NEW h, NEW c, NEW s2, NEW h2, NEW c2,
         NEW p \in Seq(NodesOf(t)), Path(t, s, h, c, p),
         p # << >>, NEW q, q = p[Len(p)], Busy(t, c, q),
         Aside(t, s, s2, Child(t, c, q)), Aside(t, h, h2, Child(t, c, q)),
         Aside(t, c, c2, Child(t, c, q))
  PROVE  Path(t, s2, h2, c2, p) /\ c2[q] = c[q]
<1> DEFINE l == Len(p)
<1>1. l \in Nat /\ l >= 1 /\ q = p[l]
  OBVIOUS
<1>2. q \in NodesOf(t) /\ c[q] \in Nat
  BY Innermost
<1>3. \A i \in 1 .. l : i # l => Inside(t, c, p[i], q)
  BY Innermost
<1>4. t.below[Child(t, c, q)] \subseteq t.below[q]
  BY <1>2, ChildFacts
<1> HIDE DEF l
<1>5. ASSUME NEW i \in 1 .. l
      PROVE  Frame(t, s2, h2, c2, p[i]) /\ c2[p[i]] = c[p[i]]
  <2> DEFINE n == p[i]
  <2>1. /\ Busy(t, c, n)
        /\ t.below[Child(t, c, q)] \subseteq t.below[Child(t, c, n)]
    BY <1>1, <1>3, <1>4 DEF Inside
  <2>2. Frame(t, s, h, c, n)
    BY DEF Path, l
  <2> HIDE DEF n
  <2>3. Aside(t, s, s2, Child(t, c, n))
    BY <2>1, Wider
  <2>4. Aside(t, h, h2, Child(t, c, n))
    BY <2>1, Wider
  <2>5. Aside(t, c, c2, Child(t, c, n))
    BY <2>1, Wider
  <2>6. Frame(t, s2, h2, c2, n) /\ c2[n] = c[n]
    BY <2>1, <2>2, <2>3, <2>4, <2>5, FrameKept
  <2> QED
    BY <2>6 DEF n
<1>6. \A i \in 1 .. l : /\ Child(t, c2, p[i]) = Child(t, c, p[i])
                        /\ Busy(t, c2, p[i]) <=> Busy(t, c, p[i])
  BY <1>5 DEF Child, Busy
<1>7. \A i \in 1 .. l - 1 : p[i + 1] = Child(t, c2, p[i])
  <2>1. \A i \in 1 .. l - 1 : i \in 1 .. l
    BY <1>1
  <2> QED
    BY <1>6, <2>1 DEF Path, l
<1>8. \A i, j \in 1 .. l : i < j => Inside(t, c2, p[i], p[j])
  BY <1>6 DEF Path, Inside, l
<1>9. l \in 1 .. l
  BY <1>1
<1> QED
  BY <1>1, <1>5, <1>7, <1>8, <1>9 DEF Path, l

(* The call n has counted one more part.                                   *)
Advanced(t, c, c2, n) ==
  c2[n] = c[n] + 1 /\ \A m \in NodesOf(t) \ {n} : c2[m] = c[m]

(* A part is decoded, and the innermost call counts it.                    *)
LEMMA PartDone ==
  ASSUME NEW t, IsTree(t), NEW s, NEW h, NEW c, NEW s2, NEW h2, NEW c2,
         NEW p \in Seq(NodesOf(t)), Path(t, s, h, c, p),
         p # << >>, NEW q, q = p[Len(p)], Busy(t, c, q),
         Aside(t, s, s2, Child(t, c, q)), Aside(t, h, h2, Child(t, c, q)),
         Advanced(t, c, c2, q), Whole(t, s2, h2, Child(t, c, q))
  PROVE  /\ Path(t, s2, h2, c2, p)
         /\ Busy(t, c2, q) => Untouched(t, s2, h2, c2, Child(t, c2, q))
<1> DEFINE l == Len(p)
<1>1. l \in Nat /\ l >= 1 /\ q = p[l]
  OBVIOUS
<1>2. q \in NodesOf(t) /\ c[q] \in Nat /\ Frame(t, s, h, c, q)
  BY Innermost
<1>3. \A i \in 1 .. l : i # l => Inside(t, c, p[i], q)
  BY Innermost
<1>4. /\ t.below[Child(t, c, q)] \subseteq t.below[q] /\ q \in t.below[q]
  BY <1>2, ChildFacts, TreeFacts
<1> HIDE DEF l
<1>5. /\ Frame(t, s2, h2, c2, q)
      /\ Busy(t, c2, q) => Untouched(t, s2, h2, c2, Child(t, c2, q))
  BY <1>2, FrameAdvances DEF Advanced
<1>6. ASSUME NEW i \in 1 .. l, i # l
      PROVE  Frame(t, s2, h2, c2, p[i]) /\ c2[p[i]] = c[p[i]]
  <2> DEFINE n == p[i]
  <2>1. /\ Busy(t, c, n)
        /\ t.below[q] \subseteq t.below[Child(t, c, n)]
        /\ t.below[Child(t, c, q)] \subseteq t.below[Child(t, c, n)]
    BY <1>3, <1>4, <1>6 DEF Inside
  <2>2. Frame(t, s, h, c, n)
    BY DEF Path, l
  <2> HIDE DEF n
  <2>3. Aside(t, s, s2, Child(t, c, n)) /\ Aside(t, h, h2, Child(t, c, n))
    BY <2>1, Wider
  <2>4. Aside(t, c, c2, Child(t, c, n))
    BY <1>4, <2>1 DEF Aside, Advanced
  <2>5. Frame(t, s2, h2, c2, n) /\ c2[n] = c[n]
    BY <2>1, <2>2, <2>3, <2>4, FrameKept
  <2> QED
    BY <2>5 DEF n
<1>7. \A i \in 1 .. l : i # l =>
        /\ Child(t, c2, p[i]) = Child(t, c, p[i])
        /\ Busy(t, c2, p[i]) <=> Busy(t, c, p[i])
  BY <1>6 DEF Child, Busy
<1>8. \A i \in 1 .. l - 1 : p[i + 1] = Child(t, c2, p[i])
  <2>1. \A i \in 1 .. l - 1 : i \in 1 .. l /\ i # l
    BY <1>1
  <2> QED
    BY <1>7, <2>1 DEF Path, l
<1>9. \A i, j \in 1 .. l : i < j => Inside(t, c2, p[i], p[j])
  <2>1. \A i, j \in 1 .. l : i < j => i # l
    BY <1>1
  <2> QED
    BY <1>7, <2>1 DEF Path, Inside, l
<1>10. \A i \in 1 .. l : Frame(t, s2, h2, c2, p[i])
  BY <1>1, <1>5, <1>6
<1> QED
  BY <1>5, <1>8, <1>9, <1>10 DEF Path, l

-----------------------------------------------------------------------------
(* What a heap pointer owns whose decode has returned.                     *)
Loose(t, s, n) ==
  \E p \in NodesOf(t) :
    t.kind[p] = "pointer" /\ s[p] # "uninit" /\ n \in t.below[p]

(* Where the innermost call stands, and what the outcome says of the rest. *)
Deciding ==
  outcome = "decoding" =>
    IF stack = << >> THEN Untouched(tree, slot, heap, count, tree.root)
    ELSE Busy(tree, count, Top) =>
           Untouched(tree, slot, heap, count, Child(tree, count, Top))
Leaving ==
  outcome = "failing" =>
    /\ stack # << >>
    /\ Busy(tree, count, Top)
    /\ Failed(tree, slot, heap, Child(tree, count, Top))
Ended ==
  /\ outcome \in {"ok", "err", "dropped"} => stack = << >>
  /\ outcome = "ok" => Whole(tree, slot, heap, tree.root)
  /\ outcome = "err" => Failed(tree, slot, heap, tree.root)
  /\ outcome = "dropped" =>
       \A n \in Nodes : slot[n] = "dropped" /\ heap[n] # "live"

(* Only what makes allocations has one; one that is freed belonged to a    *)
(* heap pointer that was decoded, or to what has failed; and nothing was   *)
(* misused but what such a pointer owns.                                   *)
Allocations ==
  /\ \A n \in Nodes : heap[n] # "none" => tree.kind[n] \in Allocating
  /\ outcome \in {"decoding", "failing", "ok"} =>
       \A n \in Nodes : heap[n] = "freed" =>
         \/ tree.kind[n] = "pointer" /\ slot[n] # "uninit"
         \/ outcome = "failing" /\ n \in tree.below[Child(tree, count, Top)]
  /\ \A n \in misused : Loose(tree, slot, n)

Guarding ==
  /\ TypeOK
  /\ Path(tree, slot, heap, count, stack)
  /\ Deciding
  /\ Leaving
  /\ Ended
  /\ Allocations

LEMMA NoCalls ==
  ASSUME NEW t, NEW s, NEW h, NEW c
  PROVE  Path(t, s, h, c, << >>)
  BY DEF Path

LEMMA Root ==
  ASSUME TypeOK
  PROVE  /\ tree.root \in NodesOf(tree)
         /\ tree.below[tree.root] = NodesOf(tree)
  BY DEF TypeOK, IsTree, NodesOf

LEMMA LooseStays ==
  ASSUME NEW t, NEW s, NEW s2, NEW n, Loose(t, s, n),
         \A p \in NodesOf(t) : s[p] # "uninit" => s2[p] # "uninit"
  PROVE  Loose(t, s2, n)
  BY DEF Loose

LEMMA GuardingInit == Init => Guarding
<1> SUFFICES ASSUME Init PROVE Guarding
  OBVIOUS
<1>1. IsTree(tree)
  BY TreesAssumption DEF Init
<1>2. \A n \in Nodes :
        tree.parts[n] \in Seq(Nodes) /\ Len(tree.parts[n]) \in Nat
  BY <1>1, TreeFacts DEF Nodes, NodesOf
<1>3. TypeOK
  <2>1. \A n \in Nodes : count[n] <= Len(tree.parts[n])
    BY <1>2 DEF Init
  <2> QED
    BY <1>1, <2>1 DEF Init, TypeOK
<1>4. Path(tree, slot, heap, count, stack)
  BY NoCalls DEF Init
<1>5. \A m \in tree.below[tree.root] : m \in Nodes
  BY <1>3, Root DEF Nodes, NodesOf
<1>6. Untouched(tree, slot, heap, count, tree.root)
  BY <1>5 DEF Init, Untouched
<1>7. Deciding /\ Leaving /\ Ended /\ Allocations
  BY <1>6 DEF Init, Deciding, Leaving, Ended, Allocations
<1> QED
  BY <1>3, <1>4, <1>7 DEF Guarding

(* The part that comes next has not been begun.                            *)
LEMMA NextPart ==
  ASSUME Guarding, HasNext
  PROVE  /\ Upcoming \in NodesOf(tree)
         /\ Untouched(tree, slot, heap, count, Upcoming)
         /\ stack = << >> => Upcoming = tree.root
         /\ stack # << >> => /\ Busy(tree, count, Top)
                             /\ Upcoming = Child(tree, count, Top)
                             /\ Top \in NodesOf(tree) /\ count[Top] \in Nat
<1>1. CASE stack = << >>
  <2>1. Upcoming = tree.root /\ Untouched(tree, slot, heap, count, tree.root)
    BY <1>1 DEF HasNext, Upcoming, Guarding, Deciding
  <2> QED
    BY <1>1, <2>1, Root DEF Guarding
<1>2. CASE stack # << >>
  <2>1. Busy(tree, count, Top) /\ Upcoming = Child(tree, count, Top)
    BY <1>2 DEF HasNext, Upcoming, Busy, Child
  <2>2. Untouched(tree, slot, heap, count, Upcoming)
    BY <1>2, <2>1 DEF HasNext, Guarding, Deciding
  <2>3. /\ IsTree(tree) /\ stack \in Seq(NodesOf(tree))
        /\ Path(tree, slot, heap, count, stack)
    BY DEF Guarding, TypeOK, Nodes, NodesOf
  <2> DEFINE q == Top
  <2>4. q = stack[Len(stack)]
    BY DEF Top
  <2> HIDE DEF q
  <2>5. q \in NodesOf(tree) /\ count[q] \in Nat
    BY <1>2, <2>3, <2>4, Innermost
  <2>6. Top \in NodesOf(tree) /\ count[Top] \in Nat
    BY <2>5 DEF q
  <2>7. Upcoming \in NodesOf(tree)
    BY <2>1, <2>3, <2>6, ChildFacts
  <2> QED
    BY <1>2, <2>1, <2>2, <2>6, <2>7
<1> QED
  BY <1>1, <1>2

-----------------------------------------------------------------------------
(* A call begins.                                                          *)
LEMMA Entering ==
  ASSUME Guarding, Enter
  PROVE  Guarding'
<1> DEFINE x == Upcoming
<1>1. /\ IsTree(tree) /\ stack \in Seq(NodesOf(tree))
      /\ Path(tree, slot, heap, count, stack)
      /\ heap \in [NodesOf(tree) -> {"none", "live", "freed"}]
  BY DEF Guarding, TypeOK, Nodes, NodesOf
<1>2. /\ x \in NodesOf(tree)
      /\ Untouched(tree, slot, heap, count, x)
      /\ stack = << >> => x = tree.root
      /\ stack # << >> => /\ Busy(tree, count, Top)
                          /\ x = Child(tree, count, Top)
  BY NextPart DEF Enter
<1>3. /\ tree.kind[x] \notin {"leaf", "skipped"}
      /\ stack' = Append(stack, x)
      /\ heap' = [heap EXCEPT ![x] =
                    IF tree.kind[x] \in Allocating THEN "live" ELSE @]
      /\ outcome = "decoding"
      /\ UNCHANGED <<tree, count, slot, misused, outcome>>
  BY DEF Enter, HasNext, Is
<1> HIDE DEF x
<1>4. x \in tree.below[x] /\ \A m \in tree.below[x] : m \in NodesOf(tree)
  BY <1>1, <1>2, TreeFacts
<1>5. /\ heap' \in [NodesOf(tree) -> {"none", "live", "freed"}]
      /\ \A m \in NodesOf(tree) \ {x} : heap'[m] = heap[m]
      /\ heap'[x] = IF tree.kind[x] \in Allocating THEN "live" ELSE heap[x]
      /\ slot[x] = "uninit" /\ heap[x] = "none" /\ count[x] = 0
  BY <1>1, <1>2, <1>3, <1>4 DEF Untouched
<1>6. /\ Aside(tree, heap, heap', x)
      /\ Aside(tree, slot, slot, x) /\ Aside(tree, count, count, x)
  BY <1>4, <1>5 DEF Aside
<1>7. Path(tree, slot, heap', count, stack)
  <2>1. CASE stack = << >>
    BY <2>1, NoCalls
  <2>2. CASE stack # << >>
    BY <1>1, <1>2, <1>6, <2>2, PathKept DEF Top
  <2> QED
    BY <2>1, <2>2
<1>8. ASSUME NEW k \in 1 .. Len(tree.parts[x])
      PROVE  Untouched(tree, slot, heap', count, tree.parts[x][k])
  <2> SUFFICES ASSUME NEW m \in tree.below[tree.parts[x][k]]
               PROVE  slot[m] = "uninit" /\ heap'[m] = "none" /\ count[m] = 0
    BY DEF Untouched
  <2>1. m \in tree.below[x] /\ m # x
    BY <1>1, <1>2, PartFacts
  <2> QED
    BY <1>2, <1>4, <1>5, <2>1 DEF Untouched
<1>9. Len(tree.parts[x]) \in Nat
  BY <1>1, <1>2, TreeFacts
<1>10. Frame(tree, slot, heap', count, x)
  <2>1. count[x] \in 0 .. Len(tree.parts[x])
    BY <1>5, <1>9
  <2>2. \A k \in 1 .. Len(tree.parts[x]) : ~(k <= count[x])
    BY <1>5
  <2> QED
    BY <1>2, <1>3, <1>5, <1>8, <2>1, <2>2 DEF Frame
<1>11. Path(tree', slot', heap', count', stack')
  <2>1. Path(tree, slot, heap', count, Append(stack, x))
    BY <1>1, <1>2, <1>7, <1>10, PathLonger DEF Top
  <2> QED
    BY <1>3, <2>1
<1>12. stack' \in Seq(NodesOf(tree)) /\ stack' # << >> /\ Top' = x
  BY <1>1, <1>2, <1>3, Callees DEF Top
<1>13. Busy(tree, count, x)
         => Untouched(tree, slot, heap', count, Child(tree, count, x))
  <2> SUFFICES ASSUME Busy(tree, count, x)
               PROVE  Untouched(tree, slot, heap', count, Child(tree, count, x))
    OBVIOUS
  <2>1. count[x] + 1 \in 1 .. Len(tree.parts[x])
    BY <1>1, <1>2, <1>5, ChildFacts
  <2> QED
    BY <1>8, <2>1 DEF Child
<1>14. Deciding' /\ Leaving' /\ Ended'
  BY <1>3, <1>12, <1>13 DEF Deciding, Leaving, Ended
<1>15. Allocations'
  <2>1. \A n \in Nodes : heap'[n] # "none" => tree.kind[n] \in Allocating
    BY <1>3, <1>5 DEF Guarding, Allocations, Nodes, NodesOf
  <2>2. \A n \in Nodes : heap'[n] = "freed" =>
          tree.kind[n] = "pointer" /\ slot[n] # "uninit"
    BY <1>3, <1>5 DEF Guarding, Allocations, Nodes, NodesOf
  <2>3. \A n \in misused : Loose(tree, slot, n)
    BY DEF Guarding, Allocations
  <2> QED
    BY <1>3, <2>1, <2>2, <2>3 DEF Allocations, Nodes
<1>16. TypeOK'
  BY <1>3, <1>5, <1>12 DEF Guarding, TypeOK, Nodes, NodesOf
<1> QED
  BY <1>11, <1>14, <1>15, <1>16 DEF Guarding

(* Counting a part of the innermost of the calls p.                        *)
LEMMA Counting ==
  ASSUME NEW p \in Seq(NodesOf(tree)), p # << >>, IsTree(tree),
         count \in [NodesOf(tree) -> Nat], NEW q, q = p[Len(p)],
         \A n \in NodesOf(tree) : count[n] <= Len(tree.parts[n]),
         Busy(tree, count, q), q \in NodesOf(tree)
  PROVE  /\ Counted(p) \in [NodesOf(tree) -> Nat]
         /\ Counted(p)[q] = count[q] + 1
         /\ \A m \in NodesOf(tree) \ {q} : Counted(p)[m] = count[m]
         /\ \A n \in NodesOf(tree) : Counted(p)[n] <= Len(tree.parts[n])
<1>1. Counted(p) = [count EXCEPT ![q] = count[q] + 1]
  BY DEF Counted
<1>2. /\ Counted(p) \in [NodesOf(tree) -> Nat]
      /\ Counted(p)[q] = count[q] + 1
      /\ \A m \in NodesOf(tree) \ {q} : Counted(p)[m] = count[m]
  BY <1>1
<1>3. count[q] + 1 <= Len(tree.parts[q])
  BY ChildFacts
<1> QED
  BY <1>2, <1>3

(* A part x is complete: the calls p go on, or there is none left.         *)
LEMMA Completing ==
  ASSUME Guarding, tree' = tree, misused' = misused,
         outcome = "decoding",
         NEW x \in NodesOf(tree),
         NEW p \in Seq(NodesOf(tree)), stack' = p,
         Path(tree, slot, heap, count, p),
         p = << >> => x = tree.root /\ outcome' = "ok",
         NEW q, q = p[Len(p)],
         p # << >> => /\ Busy(tree, count, q) /\ x = Child(tree, count, q)
                           /\ outcome' = "decoding",
         count' = Counted(p),
         slot' \in [NodesOf(tree) -> {"uninit", "init", "dropped"}],
         heap' \in [NodesOf(tree) -> {"none", "live", "freed"}],
         \A m \in NodesOf(tree) \ {x} :
           slot'[m] = slot[m] /\ heap'[m] = heap[m],
         slot'[x] = "init",
         heap'[x] # heap[x] => tree.kind[x] = "pointer",
         Whole(tree, slot', heap', x)
  PROVE  Guarding'
<1>1. /\ IsTree(tree)
      /\ count \in [NodesOf(tree) -> Nat]
      /\ \A n \in NodesOf(tree) : count[n] <= Len(tree.parts[n])
      /\ misused \subseteq NodesOf(tree)
  BY DEF Guarding, TypeOK, Nodes, NodesOf
<1>2. x \in tree.below[x]
  BY <1>1, TreeFacts
<1>3. Aside(tree, slot, slot', x) /\ Aside(tree, heap, heap', x)
  BY <1>2 DEF Aside
<1>4. \A n \in NodesOf(tree) : slot[n] # "uninit" => slot'[n] # "uninit"
  OBVIOUS
<1>5. Allocations'
  <2>1. \A n \in Nodes : heap'[n] # "none" => tree.kind[n] \in Allocating
    <3> SUFFICES ASSUME NEW n \in NodesOf(tree), heap'[n] # "none"
                 PROVE  tree.kind[n] \in Allocating
      BY DEF Nodes, NodesOf
    <3>1. heap[n] # "none" \/ tree.kind[n] = "pointer"
      OBVIOUS
    <3> QED
      BY <3>1 DEF Guarding, Allocations, Allocating, Nodes, NodesOf
  <2>2. \A n \in Nodes : heap'[n] = "freed" =>
          tree.kind[n] = "pointer" /\ slot'[n] # "uninit"
    <3> SUFFICES ASSUME NEW n \in NodesOf(tree), heap'[n] = "freed"
                 PROVE  tree.kind[n] = "pointer" /\ slot'[n] # "uninit"
      BY DEF Nodes, NodesOf
    <3>1. CASE heap[n] = "freed"
      BY <1>4, <3>1 DEF Guarding, Allocations, Nodes, NodesOf
    <3>2. CASE heap[n] # "freed"
      BY <3>2
    <3> QED
      BY <3>1, <3>2
  <2>3. \A n \in misused : Loose(tree, slot', n)
    BY <1>4, LooseStays DEF Guarding, Allocations
  <2> QED
    BY <2>1, <2>2, <2>3 DEF Allocations, Nodes
<1>6. CASE p = << >>
  <2>1. count' = count
    BY <1>6 DEF Counted
  <2>2. TypeOK'
    BY <1>1, <1>6, <2>1 DEF TypeOK, Nodes, NodesOf
  <2>3. Path(tree, slot', heap', count', p)
    BY <1>6, NoCalls
  <2>4. Deciding' /\ Leaving' /\ Ended'
    BY <1>6 DEF Deciding, Leaving, Ended
  <2> QED
    BY <1>5, <2>2, <2>3, <2>4 DEF Guarding
<1>7. CASE p # << >>
  <2>1. q \in NodesOf(tree)
    BY <1>1, <1>7, Innermost
  <2>2. /\ count' \in [NodesOf(tree) -> Nat]
        /\ count'[q] = count[q] + 1
        /\ \A m \in NodesOf(tree) \ {q} : count'[m] = count[m]
        /\ \A n \in NodesOf(tree) : count'[n] <= Len(tree.parts[n])
    BY <1>1, <1>7, <2>1, Counting
  <2>3. /\ Path(tree, slot', heap', count', p)
        /\ Busy(tree, count', q)
             => Untouched(tree, slot', heap', count', Child(tree, count', q))
    <3>1. /\ Busy(tree, count, q)
          /\ Aside(tree, slot, slot', Child(tree, count, q))
          /\ Aside(tree, heap, heap', Child(tree, count, q))
          /\ Whole(tree, slot', heap', Child(tree, count, q))
          /\ Advanced(tree, count, count', q)
      BY <1>3, <1>7, <2>2 DEF Advanced
    <3>2. IsTree(tree) /\ p # << >> /\ Path(tree, slot, heap, count, p)
      BY <1>1, <1>7
    <3> QED
      BY <3>1, <3>2, PartDone
  <2>4. Top' = q
    BY DEF Top
  <2>5. Deciding' /\ Leaving' /\ Ended'
    BY <1>7, <2>3, <2>4 DEF Deciding, Leaving, Ended
  <2>6. TypeOK'
    BY <1>1, <1>7, <2>2 DEF TypeOK, Nodes, NodesOf
  <2> QED
    BY <1>5, <2>3, <2>5, <2>6 DEF Guarding
<1> QED
  BY <1>6, <1>7

(* A part without parts is decoded.                                        *)
LEMMA Decoding ==
  ASSUME Guarding, Decoded
  PROVE  Guarding'
<1> DEFINE x == Upcoming
<1>1. /\ IsTree(tree) /\ stack \in Seq(NodesOf(tree))
      /\ Path(tree, slot, heap, count, stack)
      /\ slot \in [NodesOf(tree) -> {"uninit", "init", "dropped"}]
      /\ heap \in [NodesOf(tree) -> {"none", "live", "freed"}]
  BY DEF Guarding, TypeOK, Nodes, NodesOf
<1>2. /\ x \in NodesOf(tree)
      /\ Untouched(tree, slot, heap, count, x)
      /\ stack = << >> => x = tree.root
      /\ stack # << >> => /\ Busy(tree, count, Top)
                          /\ x = Child(tree, count, Top)
  BY NextPart DEF Decoded
<1>3. /\ tree.kind[x] \in {"leaf", "skipped"}
      /\ slot' = [slot EXCEPT ![x] = "init"]
      /\ count' = Counted(stack)
      /\ outcome = "decoding"
      /\ outcome' = IF stack = << >> THEN "ok" ELSE outcome
      /\ UNCHANGED <<tree, stack, heap, misused>>
  BY DEF Decoded, HasNext, Is
<1> HIDE DEF x
<1>4. /\ slot' \in [NodesOf(tree) -> {"uninit", "init", "dropped"}]
      /\ \A m \in NodesOf(tree) \ {x} : slot'[m] = slot[m]
      /\ slot'[x] = "init"
  BY <1>1, <1>2, <1>3
<1>5. Whole(tree, slot', heap', x)
  <2>1. tree.below[x] = {x}
    BY <1>1, <1>2, <1>3, TreeFacts
  <2> QED
    BY <1>3, <1>4, <2>1 DEF Whole
<1>6. stack' # << >> =>
        /\ Busy(tree, count, stack'[Len(stack')])
        /\ x = Child(tree, count, stack'[Len(stack')])
        /\ outcome' = "decoding"
  BY <1>2, <1>3 DEF Top
<1>7. stack' = stack /\ heap' = heap /\ tree' = tree /\ misused' = misused
  BY <1>3
<1>8. stack' = << >> => x = tree.root /\ outcome' = "ok"
  BY <1>2, <1>3
<1> QED
  BY <1>1, <1>2, <1>3, <1>4, <1>5, <1>6, <1>7, <1>8, Completing

(* A part fails before it has begun.                                       *)
LEMMA Failing ==
  ASSUME Guarding, Fails
  PROVE  Guarding'
<1> DEFINE x == Upcoming
<1>1. /\ Untouched(tree, slot, heap, count, x)
      /\ stack = << >> => x = tree.root
      /\ stack # << >> => /\ Busy(tree, count, Top)
                          /\ x = Child(tree, count, Top)
  BY NextPart DEF Fails
<1>2. /\ outcome = "decoding"
      /\ outcome' = IF stack = << >> THEN "err" ELSE "failing"
      /\ UNCHANGED <<tree, stack, count, slot, heap, misused>>
  BY DEF Fails, HasNext
<1> HIDE DEF x
<1>3. Failed(tree, slot, heap, x)
  BY <1>1 DEF Untouched, Failed
<1>4. Top' = Top
  BY <1>2 DEF Top
<1>5. Deciding' /\ Leaving' /\ Ended'
  BY <1>1, <1>2, <1>3, <1>4 DEF Deciding, Leaving, Ended
<1>6. Allocations'
  <2>1. \A n \in Nodes : heap[n] = "freed" =>
          tree.kind[n] = "pointer" /\ slot[n] # "uninit"
    BY <1>2 DEF Guarding, Allocations
  <2>2. /\ \A n \in Nodes : heap[n] # "none" => tree.kind[n] \in Allocating
        /\ \A n \in misused : Loose(tree, slot, n)
    BY DEF Guarding, Allocations
  <2> QED
    BY <1>2, <2>1, <2>2 DEF Allocations, Nodes
<1>7. TypeOK'
  BY <1>2 DEF Guarding, TypeOK, Nodes
<1>8. Path(tree', slot', heap', count', stack')
  BY <1>2 DEF Guarding
<1> QED
  BY <1>5, <1>6, <1>7, <1>8 DEF Guarding

(* A call returns.                                                         *)
LEMMA Returning ==
  ASSUME Guarding, Returns
  PROVE  Guarding'
<1> DEFINE x == Top
           q == stack'[Len(stack')]
<1>1. /\ IsTree(tree) /\ stack \in Seq(NodesOf(tree))
      /\ Path(tree, slot, heap, count, stack)
      /\ slot \in [NodesOf(tree) -> {"uninit", "init", "dropped"}]
      /\ heap \in [NodesOf(tree) -> {"none", "live", "freed"}]
  BY DEF Guarding, TypeOK, Nodes, NodesOf
<1>2. /\ outcome = "decoding" /\ stack # << >>
      /\ count[x] = Len(tree.parts[x])
      /\ slot' = [slot EXCEPT ![x] = "init"]
      /\ heap' = [heap EXCEPT ![x] =
                    IF tree.kind[x] \in {"pointer"} THEN "freed" ELSE @]
      /\ stack' = Caller(stack)
      /\ count' = Counted(Caller(stack))
      /\ outcome' = IF Len(stack) = 1 THEN "ok" ELSE outcome
      /\ UNCHANGED <<tree, misused>>
  BY DEF Returns, FreedOnReturn, Is
<1>3. x = stack[Len(stack)]
  BY DEF Top
<1>12. q = stack'[Len(stack')]
  OBVIOUS
<1> HIDE DEF x, q
<1>4. x \in NodesOf(tree) /\ Frame(tree, slot, heap, count, x)
  BY <1>1, <1>2, <1>3, Innermost
<1>5. /\ stack' \in Seq(NodesOf(tree))
      /\ stack' = << >> <=> Len(stack) = 1
  BY <1>1, <1>2, Callers
<1>6. /\ Path(tree, slot, heap, count, stack')
      /\ stack' = << >> => x = tree.root
      /\ stack' # << >> => Busy(tree, count, q) /\ x = Child(tree, count, q)
  <2>1. stack # << >> /\ stack' = Caller(stack)
    BY <1>2
  <2> QED
    BY <1>1, <1>3, <1>12, <2>1, PathShorter
<1>7. /\ slot' \in [NodesOf(tree) -> {"uninit", "init", "dropped"}]
      /\ heap' \in [NodesOf(tree) -> {"none", "live", "freed"}]
      /\ \A m \in NodesOf(tree) \ {x} : slot'[m] = slot[m] /\ heap'[m] = heap[m]
      /\ slot'[x] = "init"
      /\ heap'[x] # heap[x] => tree.kind[x] = "pointer"
  BY <1>1, <1>2, <1>4
<1>8. Whole(tree, slot', heap', x)
  <2> SUFFICES ASSUME NEW m \in tree.below[x]
               PROVE  /\ slot'[m] = "init"
                      /\ tree.kind[m] \in {"slice", "vec"} => heap'[m] = "live"
    BY DEF Whole
  <2>1. CASE m = x
    BY <1>4, <1>7, <2>1 DEF Frame, Allocating
  <2>2. CASE m # x
    <3>1. PICK k \in 1 .. Len(tree.parts[x]) :
            m \in tree.below[tree.parts[x][k]]
      BY <1>1, <1>4, <2>2, PartFacts
    <3>2. k <= count[x]
      BY <1>2
    <3>3. Whole(tree, slot, heap, tree.parts[x][k])
      BY <1>4, <3>2 DEF Frame
    <3>4. m \in NodesOf(tree)
      BY <1>1, <1>4, TreeFacts
    <3> QED
      BY <1>7, <2>2, <3>1, <3>3, <3>4 DEF Whole
  <2> QED
    BY <2>1, <2>2
<1>9. stack' = << >> => x = tree.root /\ outcome' = "ok"
  BY <1>2, <1>5, <1>6
<1>10. stack' # << >> => /\ Busy(tree, count, q) /\ x = Child(tree, count, q)
                         /\ outcome' = "decoding"
  BY <1>2, <1>5, <1>6
<1>11. count' = Counted(stack') /\ tree' = tree /\ misused' = misused
  BY <1>2
<1> QED
  BY <1>2, <1>4, <1>5, <1>6, <1>7, <1>8, <1>9, <1>10, <1>11, <1>12, Completing

-----------------------------------------------------------------------------
(* What a drop reaches, and what it then leaves.                           *)
Reached(t, roots) == UNION {t.below[n] : n \in roots}

LEMMA Dropping ==
  ASSUME TypeOK, NEW roots \in SUBSET NodesOf(tree),
         NEW also \in SUBSET NodesOf(tree), Drops(roots, also), NEW all,
         all = Reached(tree, roots)
  PROVE  /\ all \subseteq NodesOf(tree)
         /\ slot' \in [NodesOf(tree) -> {"uninit", "init", "dropped"}]
         /\ heap' \in [NodesOf(tree) -> {"none", "live", "freed"}]
         /\ misused' \subseteq NodesOf(tree)
         /\ \A n \in all : slot'[n] = "dropped"
         /\ \A n \in NodesOf(tree) \ all : slot'[n] = slot[n]
         /\ \A n \in NodesOf(tree) :
              IF n \in also \/ (n \in all /\ tree.kind[n] \in Allocating)
              THEN heap'[n] = "freed" ELSE heap'[n] = heap[n]
         /\ \A n \in misused' :
              \/ n \in misused
              \/ n \in all /\ (slot[n] # "init" \/ Gone(n))
              \/ n \in all /\ tree.kind[n] \in Allocating /\ heap[n] # "live"
              \/ n \in also /\ heap[n] # "live"
<1>1. /\ IsTree(tree)
      /\ slot \in [NodesOf(tree) -> {"uninit", "init", "dropped"}]
      /\ heap \in [NodesOf(tree) -> {"none", "live", "freed"}]
      /\ misused \subseteq NodesOf(tree)
  BY DEF TypeOK, Nodes, NodesOf
<1> DEFINE frees == {n \in all : tree.kind[n] \in Allocating} \cup also
<1>2. all \subseteq NodesOf(tree)
  BY <1>1, TreeFacts DEF Reached
<1>3. /\ misused' = misused
           \cup {n \in all : slot[n] # "init" \/ Gone(n)}
           \cup {n \in frees : heap[n] # "live"}
      /\ slot' = [n \in NodesOf(tree) |->
                    IF n \in all THEN "dropped" ELSE slot[n]]
      /\ heap' = [n \in NodesOf(tree) |->
                    IF n \in frees THEN "freed" ELSE heap[n]]
  BY DEF Drops, Reached, Is, Nodes, NodesOf
<1>4. \A n \in NodesOf(tree) :
        n \in frees <=> n \in also \/ (n \in all /\ tree.kind[n] \in Allocating)
  OBVIOUS
<1>5. frees \subseteq NodesOf(tree)
  BY <1>2
<1> HIDE DEF frees
<1>6. /\ slot' \in [NodesOf(tree) -> {"uninit", "init", "dropped"}]
      /\ \A n \in all : slot'[n] = "dropped"
      /\ \A n \in NodesOf(tree) \ all : slot'[n] = slot[n]
  BY <1>1, <1>2, <1>3
<1>7. /\ heap' \in [NodesOf(tree) -> {"none", "live", "freed"}]
      /\ \A n \in NodesOf(tree) : n \in frees => heap'[n] = "freed"
      /\ \A n \in NodesOf(tree) : n \notin frees => heap'[n] = heap[n]
  BY <1>1, <1>3
<1>8. misused' \subseteq NodesOf(tree)
  BY <1>1, <1>2, <1>3, <1>5
<1>9. \A n \in misused' :
        \/ n \in misused
        \/ n \in all /\ (slot[n] # "init" \/ Gone(n))
        \/ n \in frees /\ heap[n] # "live"
  BY <1>3
<1> QED
  BY <1>2, <1>4, <1>5, <1>6, <1>7, <1>8, <1>9

(* The guard of a call drops parts it has counted: all of them, but for    *)
(* those that are forgotten.                                               *)
LEMMA Dropped ==
  ASSUME IsTree(tree), NEW n \in NodesOf(tree), count[n] \in Nat,
         count[n] <= Len(tree.parts[n]),
         tree.kind[n] \notin {"leaf", "skipped"}
  PROVE  /\ GuardDrops(n) \subseteq NodesOf(tree)
         /\ \A m \in GuardDrops(n) :
              \E k \in 1 .. count[n] : m = tree.parts[n][k]
         /\ \A k \in 1 .. count[n] :
              \/ tree.parts[n][k] \in GuardDrops(n)
              \/ tree.kind[n] \in {"array", "slice", "pointer"}
              \/ /\ tree.kind[n] = "struct"
                 /\ tree.kind[tree.parts[n][k]] = "skipped"
<1> DEFINE first == {tree.parts[n][i] : i \in 1 .. count[n]}
<1>1. /\ tree.kind[n] \in Kinds /\ Len(tree.parts[n]) \in Nat
      /\ \A k \in 1 .. Len(tree.parts[n]) : tree.parts[n][k] \in NodesOf(tree)
  BY TreeFacts, PartFacts
<1>2. \A k \in 1 .. count[n] : k \in 1 .. Len(tree.parts[n])
  BY <1>1
<1>3. GuardDrops(n) =
        CASE tree.kind[n] \in {"vec", "tuple", "owned"}     -> first
          [] tree.kind[n] \in {"struct"}                    ->
               {m \in first : tree.kind[m] \notin {"skipped"}}
          [] tree.kind[n] \in {"pointer", "slice", "array"} -> {}
  BY DEF GuardDrops, DroppedAfter, Is
<1>4. /\ first \subseteq NodesOf(tree)
      /\ \A m \in first : \E k \in 1 .. count[n] : m = tree.parts[n][k]
      /\ \A k \in 1 .. count[n] : tree.parts[n][k] \in first
  BY <1>1, <1>2
<1> HIDE DEF first
<1>5. CASE tree.kind[n] \in {"vec", "tuple", "owned"}
  <2>1. GuardDrops(n) = first
    BY <1>3, <1>5
  <2> QED
    BY <1>4, <2>1
<1>6. CASE tree.kind[n] = "struct"
  <2>1. GuardDrops(n) = {m \in first : tree.kind[m] \notin {"skipped"}}
    BY <1>3, <1>6
  <2> QED
    BY <1>4, <1>6, <2>1
<1>7. CASE tree.kind[n] \in {"pointer", "slice", "array"}
  <2>1. GuardDrops(n) = {}
    BY <1>3, <1>7
  <2> QED
    BY <1>7, <2>1
<1> QED
  BY <1>1, <1>5, <1>6, <1>7 DEF Kinds

(* The value of a call is cleaned up when the guard of the call has        *)
(* dropped what it drops, and the part that failed has been cleaned up.    *)
LEMMA CleanedUp ==
  ASSUME TypeOK, Allocations, NEW x \in NodesOf(tree),
         Frame(tree, slot, heap, count, x), Busy(tree, count, x),
         Failed(tree, slot, heap, Child(tree, count, x)),
         NEW all, all = Reached(tree, GuardDrops(x)), NEW s2, NEW h2,
         \A n \in all : s2[n] = "dropped",
         \A n \in NodesOf(tree) \ all : s2[n] = slot[n],
         \A n \in NodesOf(tree) :
           IF \/ n = x /\ tree.kind[x] \in Allocating
              \/ n \in all /\ tree.kind[n] \in Allocating
           THEN h2[n] = "freed" ELSE h2[n] = heap[n]
  PROVE  /\ \A m \in all : /\ m \in tree.below[x] /\ m # x
                           /\ m \notin tree.below[Child(tree, count, x)]
                           /\ slot[m] = "init"
                           /\ tree.kind[m] \in {"slice", "vec"}
                                => heap[m] = "live"
         /\ Failed(tree, s2, h2, x)
<1>1. /\ IsTree(tree) /\ count[x] \in Nat /\ count[x] <= Len(tree.parts[x])
      /\ tree.kind[x] \notin {"leaf", "skipped"}
      /\ slot[x] = "uninit"
      /\ Len(tree.parts[x]) \in Nat
      /\ \A k \in 1 .. count[x] : k \in 1 .. Len(tree.parts[x])
  <2>1. IsTree(tree)
    BY DEF TypeOK
  <2>2. Len(tree.parts[x]) \in Nat
    BY <2>1, TreeFacts
  <2> QED
    BY <2>1, <2>2 DEF Frame
<1>2. /\ \A m \in GuardDrops(x) : \E k \in 1 .. count[x] : m = tree.parts[x][k]
      /\ \A k \in 1 .. count[x] :
           \/ tree.parts[x][k] \in GuardDrops(x)
           \/ tree.kind[x] \in {"array", "slice", "pointer"}
           \/ tree.kind[x] = "struct" /\ tree.kind[tree.parts[x][k]] = "skipped"
  BY <1>1, Dropped
<1>3. ASSUME NEW m \in all
      PROVE  /\ m \in tree.below[x] /\ m # x
             /\ m \notin tree.below[Child(tree, count, x)]
             /\ slot[m] = "init"
             /\ tree.kind[m] \in {"slice", "vec"} => heap[m] = "live"
  <2>1. PICK k \in 1 .. count[x] : m \in tree.below[tree.parts[x][k]]
    BY <1>2 DEF Reached
  <2>2. k \in 1 .. Len(tree.parts[x]) /\ k # count[x] + 1 /\ k <= count[x]
    BY <1>1
  <2>3. Whole(tree, slot, heap, tree.parts[x][k])
    BY <2>2 DEF Frame
  <2>4. m \in tree.below[x] /\ m # x
    BY <1>1, <2>1, <2>2, PartFacts
  <2>5. m \notin tree.below[Child(tree, count, x)]
    BY <1>1, <2>1, <2>2, ChildFacts
  <2> QED
    BY <2>1, <2>3, <2>4, <2>5 DEF Whole
<1>4. x \notin all /\ s2[x] = "uninit"
  BY <1>1, <1>3
<1>5. ASSUME NEW m \in NodesOf(tree), tree.kind[m] \notin Allocating
      PROVE  heap[m] = "none"
  BY <1>5 DEF Allocations, Nodes, NodesOf
<1>6. ASSUME NEW m \in tree.below[x], ~Excused(tree, s2, m)
      PROVE  s2[m] # "init" /\ h2[m] # "live"
  <2>1. m \in NodesOf(tree)
    BY <1>1, TreeFacts
  <2>2. CASE m = x
    <3>1. CASE tree.kind[x] \in Allocating
      BY <1>4, <2>1, <2>2, <3>1
    <3>2. CASE tree.kind[x] \notin Allocating
      <4>1. heap[x] = "none"
        BY <1>5, <3>2
      <4> QED
        BY <1>4, <2>1, <2>2, <3>2, <4>1
    <3> QED
      BY <3>1, <3>2
  <2>3. CASE m \in all
    <3>1. CASE tree.kind[m] \in Allocating
      BY <2>1, <2>3, <3>1
    <3>2. CASE tree.kind[m] \notin Allocating
      <4>1. heap[m] = "none" /\ m # x
        BY <1>4, <1>5, <2>1, <2>3, <3>2
      <4> QED
        BY <2>1, <2>3, <3>2, <4>1
    <3> QED
      BY <3>1, <3>2
  <2>4. CASE m # x /\ m \notin all
    <3>1. s2[m] = slot[m] /\ h2[m] = heap[m]
      BY <2>1, <2>4
    <3>2. PICK k \in 1 .. Len(tree.parts[x]) :
            m \in tree.below[tree.parts[x][k]]
      BY <1>1, <2>4, PartFacts
    <3>3. CASE k <= count[x]
      <4>1. k \in 1 .. count[x]
        BY <3>3, <1>1
      <4>2. tree.parts[x][k] \notin GuardDrops(x)
        BY <2>4, <3>2 DEF Reached
      <4>3. m \in tree.below[x] \ {x}
        BY <2>4
      <4>4. tree.kind[x] \notin {"array", "slice"}
        BY <1>4, <1>6, <4>3 DEF Excused
      <4>5. CASE tree.kind[x] = "pointer"
        <5>1. Len(tree.parts[x]) = 1
          BY <1>1, <4>5, TreeFacts
        <5> QED
          BY <1>1, <3>3, <5>1 DEF Busy
      <4>6. CASE /\ tree.kind[x] = "struct"
                 /\ tree.kind[tree.parts[x][k]] = "skipped"
        <5>1. tree.parts[x][k] \in NodesOf(tree)
          BY <1>1, PartFacts
        <5>2. tree.below[tree.parts[x][k]] = {tree.parts[x][k]}
          BY <1>1, <4>6, <5>1, TreeFacts
        <5>3. tree.kind[m] = "skipped"
          BY <3>2, <4>6, <5>2
        <5>4. Excused(tree, s2, m)
          BY <1>4, <4>3, <4>6, <5>3 DEF Excused
        <5> QED
          BY <1>6, <5>4
      <4> QED
        BY <1>2, <4>1, <4>2, <4>4, <4>5, <4>6
    <3>4. CASE k = count[x] + 1
      <4>1. m \in tree.below[Child(tree, count, x)]
        BY <3>2, <3>4 DEF Child
      <4>2. ~Excused(tree, slot, m)
        <5> SUFFICES ASSUME NEW a \in NodesOf(tree), slot[a] = "uninit",
                            m \in tree.below[a] \ {a},
                            \/ tree.kind[a] \in {"array", "slice"}
                            \/ /\ tree.kind[a] = "struct"
                               /\ tree.kind[m] = "skipped"
                     PROVE  FALSE
          BY DEF Excused
        <5>1. a \notin all
          BY <1>3
        <5>2. s2[a] = "uninit"
          BY <5>1
        <5> QED
          BY <1>6, <5>2 DEF Excused
      <4> QED
        BY <3>1, <4>1, <4>2 DEF Failed
    <3>5. CASE k > count[x] + 1
      BY <3>1, <3>2, <3>5 DEF Frame, Untouched
    <3> QED
      BY <1>1, <3>3, <3>4, <3>5
  <2> QED
    BY <2>2, <2>3, <2>4
<1> QED
  BY <1>3, <1>6 DEF Failed

(* A failure leaves a call.                                                *)
LEMMA Unwinding ==
  ASSUME Guarding, Unwind
  PROVE  Guarding'
<1> DEFINE x == Top
           d == Child(tree, count, x)
           all == Reached(tree, GuardDrops(x))
           also == IF tree.kind[x] \in Allocating THEN {x} ELSE {}
           p == Caller(stack)
           q == p[Len(p)]
<1>1. /\ TypeOK /\ Allocations
      /\ IsTree(tree) /\ stack \in Seq(NodesOf(tree))
      /\ Path(tree, slot, heap, count, stack)
      /\ count \in [NodesOf(tree) -> Nat]
      /\ \A n \in NodesOf(tree) : count[n] <= Len(tree.parts[n])
  BY DEF Guarding, TypeOK, Nodes, NodesOf
<1>2. /\ outcome = "failing" /\ stack # << >>
      /\ Busy(tree, count, x) /\ Failed(tree, slot, heap, d)
  BY DEF Guarding, Leaving, Unwind
<1>3. /\ Drops(GuardDrops(x), also)
      /\ stack' = p
      /\ outcome' = IF Len(stack) = 1 THEN "err" ELSE outcome
      /\ UNCHANGED <<tree, count>>
  BY DEF Unwind, Is
<1>4. x = stack[Len(stack)]
  BY DEF Top
<1> HIDE DEF x
<1>5. /\ x \in NodesOf(tree) /\ count[x] \in Nat
      /\ Frame(tree, slot, heap, count, x)
  BY <1>1, <1>2, <1>4, Innermost
<1>6. GuardDrops(x) \in SUBSET NodesOf(tree)
  BY <1>1, <1>5, Dropped DEF Frame
<1>7. /\ also \in SUBSET NodesOf(tree)
      /\ \A n \in NodesOf(tree) :
           n \in also <=> n = x /\ tree.kind[x] \in Allocating
  BY <1>5
<1> HIDE DEF also, all, d
<1>8. all = Reached(tree, GuardDrops(x)) /\ d = Child(tree, count, x)
  BY DEF all, d
<1>9. /\ all \subseteq NodesOf(tree)
      /\ slot' \in [NodesOf(tree) -> {"uninit", "init", "dropped"}]
      /\ heap' \in [NodesOf(tree) -> {"none", "live", "freed"}]
      /\ misused' \subseteq NodesOf(tree)
      /\ \A n \in all : slot'[n] = "dropped"
      /\ \A n \in NodesOf(tree) \ all : slot'[n] = slot[n]
      /\ \A n \in NodesOf(tree) :
           IF n \in also \/ (n \in all /\ tree.kind[n] \in Allocating)
           THEN heap'[n] = "freed" ELSE heap'[n] = heap[n]
      /\ \A n \in misused' :
           \/ n \in misused
           \/ n \in all /\ (slot[n] # "init" \/ Gone(n))
           \/ n \in all /\ tree.kind[n] \in Allocating /\ heap[n] # "live"
           \/ n \in also /\ heap[n] # "live"
  BY <1>1, <1>3, <1>6, <1>7, <1>8, Dropping
<1>10. \A n \in NodesOf(tree) :
         IF \/ n = x /\ tree.kind[x] \in Allocating
            \/ n \in all /\ tree.kind[n] \in Allocating
         THEN heap'[n] = "freed" ELSE heap'[n] = heap[n]
  BY <1>7, <1>9
<1>11. /\ \A m \in all : /\ m \in tree.below[x] /\ m # x
                         /\ m \notin tree.below[d]
                         /\ slot[m] = "init"
                         /\ tree.kind[m] \in {"slice", "vec"}
                              => heap[m] = "live"
       /\ Failed(tree, slot', heap', x)
  <2>1. /\ TypeOK /\ Allocations
        /\ Busy(tree, count, x)
        /\ Failed(tree, slot, heap, Child(tree, count, x))
    BY <1>1, <1>2, <1>8
  <2>2. /\ \A n \in all : slot'[n] = "dropped"
        /\ \A n \in NodesOf(tree) \ all : slot'[n] = slot[n]
    BY <1>9
  <2>3. all = Reached(tree, GuardDrops(x))
    BY <1>8
  <2>4. /\ \A m \in all : /\ m \in tree.below[x] /\ m # x
                          /\ m \notin tree.below[Child(tree, count, x)]
                          /\ slot[m] = "init"
                          /\ tree.kind[m] \in {"slice", "vec"}
                               => heap[m] = "live"
        /\ Failed(tree, slot', heap', x)
    BY <1>5, <1>10, <2>1, <2>2, <2>3, CleanedUp
  <2> QED
    BY <1>8, <2>4
<1>12. x \in tree.below[x] /\ tree.below[d] \subseteq tree.below[x]
  BY <1>1, <1>2, <1>5, <1>8, TreeFacts, ChildFacts
<1>13. /\ Aside(tree, slot, slot', x)
       /\ Aside(tree, heap, heap', x)
       /\ Aside(tree, count, count, x)
  BY <1>9, <1>10, <1>11, <1>12 DEF Aside
<1>14. /\ p \in Seq(NodesOf(tree)) /\ (p = << >> <=> Len(stack) = 1)
       /\ Path(tree, slot, heap, count, p)
       /\ p = << >> => x = tree.root
       /\ p # << >> => Busy(tree, count, q) /\ x = Child(tree, count, q)
  <2>1. p \in Seq(NodesOf(tree)) /\ (p = << >> <=> Len(stack) = 1)
    BY <1>1, <1>2, Callers
  <2>2. stack # << >>
    BY <1>2
  <2>3. p = Caller(stack) /\ q = p[Len(p)]
    OBVIOUS
  <2> HIDE DEF p, q
  <2>4. /\ Path(tree, slot, heap, count, p)
        /\ p = << >> => x = tree.root
        /\ p # << >> => Busy(tree, count, q) /\ x = Child(tree, count, q)
    <3>1. /\ IsTree(tree) /\ stack \in Seq(NodesOf(tree))
          /\ Path(tree, slot, heap, count, stack)
      BY <1>1
    <3> QED
      BY <1>4, <2>2, <2>3, <3>1, PathShorter
  <2> QED
    BY <2>1, <2>4
<1> HIDE DEF p, q
<1>15. q = p[Len(p)]
  BY DEF q
<1>16. Path(tree, slot', heap', count, p)
  <2>1. CASE p = << >>
    BY <2>1, NoCalls
  <2>2. CASE p # << >>
    BY <1>1, <1>13, <1>14, <1>15, <2>2, PathKept
  <2> QED
    BY <2>1, <2>2
<1>17. Top' = q
  BY <1>3, <1>15 DEF Top
<1>18. Path(tree', slot', heap', count', stack')
  BY <1>3, <1>16
<1>19. Deciding' /\ Leaving' /\ Ended'
  <2>1. CASE p = << >>
    <3>1. outcome' = "err" /\ stack' = << >>
      BY <1>3, <1>14, <2>1
    <3> QED
      BY <1>3, <1>11, <1>14, <2>1, <3>1 DEF Deciding, Leaving, Ended
  <2>2. CASE p # << >>
    <3>1. outcome' = "failing" /\ stack' # << >>
      BY <1>2, <1>3, <1>14, <2>2
    <3> QED
      BY <1>3, <1>11, <1>14, <1>17, <2>2, <3>1 DEF Deciding, Leaving, Ended
  <2> QED
    BY <2>1, <2>2
<1>20. \A n \in NodesOf(tree) : slot[n] # "uninit" => slot'[n] # "uninit"
  BY <1>9
<1>21. /\ \A n \in NodesOf(tree) :
            heap[n] # "none" => tree.kind[n] \in Allocating
       /\ \A n \in NodesOf(tree) : heap[n] = "freed" =>
            \/ tree.kind[n] = "pointer" /\ slot[n] # "uninit"
            \/ n \in tree.below[d]
       /\ \A n \in misused : Loose(tree, slot, n)
  BY <1>1, <1>2, <1>8 DEF Allocations, Nodes, NodesOf, x
<1>22. \A n \in NodesOf(tree) : heap'[n] # "none" => tree.kind[n] \in Allocating
  BY <1>10, <1>21
<1>23. ASSUME outcome' = "failing", NEW n \in NodesOf(tree), heap'[n] = "freed"
       PROVE  \/ tree.kind[n] = "pointer" /\ slot'[n] # "uninit"
              \/ n \in tree.below[Child(tree, count, q)]
  <2>1. tree.below[x] = tree.below[Child(tree, count, q)]
    BY <1>2, <1>3, <1>14, <1>23
  <2>2. heap[n] = "freed" \/ n = x \/ n \in all
    BY <1>10, <1>23
  <2> QED
    BY <1>11, <1>12, <1>20, <1>21, <2>1, <2>2
<1>24. ASSUME NEW n \in misused' PROVE Loose(tree, slot', n)
  <2>1. CASE Loose(tree, slot, n)
    BY <1>20, <2>1, LooseStays
  <2>2. CASE n \in all /\ Gone(n)
    <3>1. PICK a \in NodesOf(tree) : n \in tree.below[a] /\ heap[a] = "freed"
      BY <2>2 DEF Gone, Nodes, NodesOf
    <3>2. a \notin tree.below[d]
      <4>1. d \in NodesOf(tree)
        BY <1>1, <1>2, <1>5, <1>8, ChildFacts
      <4>2. a \in tree.below[d] => tree.below[a] \subseteq tree.below[d]
        BY <1>1, <4>1, TreeFacts
      <4> QED
        BY <1>11, <2>2, <3>1, <4>2
    <3>3. tree.kind[a] = "pointer" /\ slot[a] # "uninit"
      BY <1>21, <3>1, <3>2
    <3>4. Loose(tree, slot, n)
      BY <3>1, <3>3 DEF Loose
    <3> QED
      BY <2>1, <3>4
  <2>3. CASE n \in all /\ tree.kind[n] \in Allocating /\ heap[n] # "live"
    <3>1. n \in NodesOf(tree) /\ slot[n] = "init" /\ tree.kind[n] = "pointer"
      BY <1>9, <1>11, <2>3 DEF Allocating
    <3>2. n \in tree.below[n]
      BY <1>1, <3>1, TreeFacts
    <3>3. Loose(tree, slot, n)
      BY <3>1, <3>2 DEF Loose
    <3> QED
      BY <2>1, <3>3
  <2>4. ~(n \in also /\ heap[n] # "live")
    BY <1>5, <1>7 DEF Frame
  <2>5. n \in all => slot[n] = "init"
    BY <1>11
  <2> QED
    BY <1>9, <1>21, <2>1, <2>2, <2>3, <2>4, <2>5
<1>25. Allocations'
  <2>1. outcome' \in {"err", "failing"}
    BY <1>2, <1>3
  <2>2. \A n \in NodesOf(tree) : outcome' = "failing" /\ heap'[n] = "freed" =>
          \/ tree.kind[n] = "pointer" /\ slot'[n] # "uninit"
          \/ n \in tree.below[Child(tree, count, q)]
    BY <1>23
  <2>3. \A n \in misused' : Loose(tree, slot', n)
    BY <1>24
  <2> QED
    BY <1>3, <1>17, <1>22, <2>1, <2>2, <2>3 DEF Allocations, Nodes, NodesOf
<1>26. TypeOK'
  <2>1. outcome' \in {"err", "failing"} /\ stack' \in Seq(NodesOf(tree))
    BY <1>2, <1>3, <1>14
  <2> QED
    BY <1>1, <1>3, <1>9, <2>1 DEF TypeOK, Nodes, NodesOf
<1> QED
  BY <1>18, <1>19, <1>25, <1>26 DEF Guarding

(* The caller drops the value.                                             *)
LEMMA CallerDrops ==
  ASSUME Guarding, DropResult
  PROVE  Guarding'
<1> DEFINE roots == {tree.root}
           all == Reached(tree, roots)
           none == {}
<1>1. /\ TypeOK /\ IsTree(tree)
      /\ tree.root \in NodesOf(tree) /\ tree.below[tree.root] = NodesOf(tree)
  BY Root DEF Guarding, TypeOK
<1>2. /\ outcome = "ok" /\ stack = << >>
      /\ Whole(tree, slot, heap, tree.root)
      /\ Drops(roots, none)
      /\ outcome' = "dropped"
      /\ UNCHANGED <<tree, stack, count>>
  BY DEF Guarding, Ended, DropResult
<1>3. all = NodesOf(tree)
  BY <1>1 DEF Reached
<1>4. \A n \in NodesOf(tree) :
        /\ slot[n] = "init"
        /\ tree.kind[n] \in {"slice", "vec"} => heap[n] = "live"
  BY <1>1, <1>2 DEF Whole
<1> HIDE DEF all
<1>5. all = Reached(tree, roots)
  BY DEF all
<1>6. roots \in SUBSET NodesOf(tree) /\ none \in SUBSET NodesOf(tree)
  BY <1>1
<1>7. none = {}
  OBVIOUS
<1> HIDE DEF none, roots
<1>8. /\ slot' \in [NodesOf(tree) -> {"uninit", "init", "dropped"}]
      /\ heap' \in [NodesOf(tree) -> {"none", "live", "freed"}]
      /\ misused' \subseteq NodesOf(tree)
      /\ \A n \in all : slot'[n] = "dropped"
      /\ \A n \in NodesOf(tree) :
           IF n \in none \/ (n \in all /\ tree.kind[n] \in Allocating)
           THEN heap'[n] = "freed" ELSE heap'[n] = heap[n]
      /\ \A n \in misused' :
           \/ n \in misused
           \/ n \in all /\ (slot[n] # "init" \/ Gone(n))
           \/ n \in all /\ tree.kind[n] \in Allocating /\ heap[n] # "live"
           \/ n \in none /\ heap[n] # "live"
  BY <1>1, <1>2, <1>5, <1>6, Dropping
<1>9. /\ \A n \in NodesOf(tree) :
           heap[n] # "none" => tree.kind[n] \in Allocating
      /\ \A n \in NodesOf(tree) : heap[n] = "freed" => tree.kind[n] = "pointer"
      /\ \A n \in misused : Loose(tree, slot, n)
  BY <1>2 DEF Guarding, Allocations, Nodes, NodesOf
<1>10. \A n \in NodesOf(tree) : heap'[n] # "live" /\ slot'[n] = "dropped"
  BY <1>3, <1>8, <1>9
<1>11. \A n \in NodesOf(tree) : heap'[n] # "none" => tree.kind[n] \in Allocating
  BY <1>7, <1>8, <1>9
<1>12. ASSUME NEW n \in misused' PROVE Loose(tree, slot', n)
  <2>1. ASSUME NEW a \in NodesOf(tree), tree.kind[a] = "pointer",
               n \in tree.below[a]
        PROVE  Loose(tree, slot', n)
    <3>1. slot'[a] # "uninit"
      BY <1>10
    <3> QED
      BY <2>1, <3>1 DEF Loose
  <2>2. CASE n \in misused
    <3>1. PICK a \in NodesOf(tree) :
            tree.kind[a] = "pointer" /\ n \in tree.below[a]
      BY <1>9, <2>2 DEF Loose
    <3> QED
      BY <2>1, <3>1
  <2>3. CASE Gone(n)
    <3>1. PICK a \in NodesOf(tree) : n \in tree.below[a] /\ heap[a] = "freed"
      BY <2>3 DEF Gone, Nodes, NodesOf
    <3> QED
      BY <1>9, <2>1, <3>1
  <2>4. CASE n \in all /\ tree.kind[n] \in Allocating /\ heap[n] # "live"
    <3>1. n \in NodesOf(tree) /\ tree.kind[n] = "pointer"
      BY <1>3, <1>4, <2>4 DEF Allocating
    <3>2. n \in tree.below[n]
      BY <1>1, <3>1, TreeFacts
    <3> QED
      BY <2>1, <3>1, <3>2
  <2> QED
    BY <1>3, <1>4, <1>7, <1>8, <2>2, <2>3, <2>4
<1>13. Allocations'
  <2>1. \A n \in misused' : Loose(tree, slot', n)
    BY <1>12
  <2> QED
    BY <1>2, <1>11, <2>1 DEF Allocations, Nodes, NodesOf
<1>14. Deciding' /\ Leaving' /\ Ended'
  BY <1>2, <1>10 DEF Deciding, Leaving, Ended, Nodes, NodesOf
<1>15. Path(tree', slot', heap', count', stack')
  <2>1. stack' = << >>
    BY <1>2
  <2> QED
    BY <2>1, NoCalls
<1>16. TypeOK'
  BY <1>1, <1>2, <1>8 DEF TypeOK, Nodes, NodesOf
<1> QED
  BY <1>13, <1>14, <1>15, <1>16 DEF Guarding

LEMMA GuardingNext == Guarding /\ [Next]_vars => Guarding'
<1> SUFFICES ASSUME Guarding, [Next]_vars PROVE Guarding'
  OBVIOUS
<1>1. CASE Enter
  BY <1>1, Entering
<1>2. CASE Decoded
  BY <1>2, Decoding
<1>3. CASE Fails
  BY <1>3, Failing
<1>4. CASE Returns
  BY <1>4, Returning
<1>5. CASE Unwind
  BY <1>5, Unwinding
<1>6. CASE DropResult
  BY <1>6, CallerDrops
<1>7. CASE UNCHANGED vars
  <2>1. /\ TypeOK' /\ Deciding' /\ Leaving' /\ Ended' /\ Allocations'
    BY <1>7 DEF vars, Guarding, TypeOK, Deciding, Leaving, Ended, Allocations,
                Nodes, Top
  <2>2. Path(tree', slot', heap', count', stack')
    BY <1>7 DEF vars, Guarding
  <2> QED
    BY <2>1, <2>2 DEF Guarding
<1> QED
  BY <1>1, <1>2, <1>3, <1>4, <1>5, <1>6, <1>7 DEF Next

LEMMA GuardingAlways == Spec => []Guarding
  BY GuardingInit, GuardingNext, PTL DEF Spec

-----------------------------------------------------------------------------
(* The variables stay in their types; the guard of a call never counts     *)
(* more parts than its value has.                                          *)
THEOREM GuardsTyping == Spec => []TypeOK
<1>1. Guarding => TypeOK
  BY DEF Guarding
<1> QED
  BY <1>1, GuardingAlways, PTL

(* A decode that succeeds has initialised every part of the value, however *)
(* it is nested, and what its collections allocated is live, except for    *)
(* what a heap pointer owns.                                               *)
THEOREM OwnedWhenOkAlways == Spec => []OwnedWhenOk
<1>1. Guarding => OwnedWhenOk
  <2> SUFFICES ASSUME Guarding, outcome = "ok", NEW n \in NodesOf(tree)
               PROVE  /\ slot[n] = "init"
                      /\ Is(n, Allocating) /\ ~BelowDangling(n)
                           => heap[n] = "live"
    BY DEF OwnedWhenOk, Nodes, NodesOf
  <2>1. Whole(tree, slot, heap, tree.root) /\ n \in tree.below[tree.root]
    BY Root DEF Guarding, Ended
  <2>2. /\ slot[n] = "init"
        /\ tree.kind[n] \in {"slice", "vec"} => heap[n] = "live"
    BY <2>1 DEF Whole
  <2>3. n \in tree.below[n]
    BY TreeFacts DEF Guarding, TypeOK
  <2>4. tree.kind[n] = "pointer" => BelowDangling(n)
    BY <2>2, <2>3 DEF BelowDangling, Dangling, Is, Nodes, NodesOf
  <2> QED
    BY <2>2, <2>4 DEF Is, Allocating
<1> QED
  BY <1>1, GuardingAlways, PTL

(* Whichever part of a value fails, and after success: what is dropped     *)
(* twice, or dropped without having been decoded, or freed twice, is owned *)
(* by a heap pointer that was decoded.                                     *)
THEOREM DroppedOnceAlways == Spec => []DroppedOnce
<1>1. Guarding => DroppedOnce
  <2> SUFFICES ASSUME Guarding, NEW n \in misused PROVE BelowDangling(n)
    BY DEF DroppedOnce
  <2>1. Loose(tree, slot, n)
    BY DEF Guarding, Allocations
  <2> QED
    BY <2>1 DEF Loose, BelowDangling, Dangling, Is, Nodes, NodesOf
<1> QED
  BY <1>1, GuardingAlways, PTL

(* Whichever part fails, what was decoded before it has been dropped and   *)
(* what was allocated has been freed, except for the elements of an array  *)
(* or slice that failed and for the skipped fields of a struct that failed.*)
THEOREM NothingLeaksAlways == Spec => []NothingLeaks
<1>1. Guarding => NothingLeaks
  <2> SUFFICES ASSUME Guarding, outcome \in {"err", "dropped"},
                      NEW n \in NodesOf(tree), ~Forgotten(n)
               PROVE  slot[n] # "init" /\ heap[n] # "live"
    BY DEF NothingLeaks, Nodes, NodesOf
  <2>1. CASE outcome = "dropped"
    BY <2>1 DEF Guarding, Ended, Nodes, NodesOf
  <2>2. CASE outcome = "err"
    <3>1. Failed(tree, slot, heap, tree.root) /\ n \in tree.below[tree.root]
      BY <2>2, Root DEF Guarding, Ended
    <3>2. ~Excused(tree, slot, n)
      BY DEF Forgotten, Excused, Is, Nodes, NodesOf
    <3> QED
      BY <3>1, <3>2 DEF Failed
  <2> QED
    BY <2>1, <2>2
<1> QED
  BY <1>1, GuardingAlways, PTL
=============================================================================
