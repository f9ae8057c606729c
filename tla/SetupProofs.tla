----------------------------- MODULE SetupProofs ------------------------------
(***************************************************************************)
(* Theorems about pairing, placement and the configuration files, for any  *)
(* number of pairings, processes and faults.                               *)
(*                                                                         *)
(* First what loading gives back of what was saved; then what each change  *)
(* of a copy does to the set of its records; then the steps, part by part  *)
(* of the invariant.                                                       *)
(***************************************************************************)
EXTENDS SetupInvariant, WellFoundedInduction, TLAPS

-----------------------------------------------------------------------------
(* Induction                                                               *)

Less == {ss \in Nat \X Nat : ss[1] < ss[2]}

\* A set of numbers that is not empty has a least element.
LEMMA LeastNumber ==
  ASSUME NEW T \in SUBSET Nat, T # {}
  PROVE  \E x \in T : \A y \in T : x <= y
<1>1. OpToRel(<, Nat) = Less
  BY DEF OpToRel, Less
<1>2. IsWellFoundedOn(Less, Nat)
  BY <1>1, NatLessThanWellFounded
<1>3. PICK x \in T : \A y \in T : <<y, x>> \notin Less
  BY <1>2, WFMin
<1>4. ASSUME NEW y \in T PROVE x <= y
  <2>1. <<y, x>> \notin Less /\ <<y, x>> \in Nat \X Nat
    BY <1>3
  <2>2. ~ (y < x)
    BY <2>1 DEF Less
  <2> QED BY <2>2
<1> QED BY <1>4

\* What holds of 0, and of the number after each of which it holds, holds of all
\* of an initial segment.
LEMMA Induction ==
  ASSUME NEW n \in Nat, NEW T, 0 \in T,
         \A i \in 1..n : i - 1 \in T => i \in T
  PROVE  \A i \in 0..n : i \in T
<1> DEFINE U == {i \in 0..n : i \notin T}
<1> SUFFICES ASSUME U # {} PROVE FALSE
  OBVIOUS
<1>0. U \in SUBSET Nat
  OBVIOUS
<1>1. PICK x \in U : \A y \in U : x <= y
  BY <1>0, LeastNumber
<1>2. x \in 1..n
  BY <1>1
<1>3. x - 1 \in T
  BY <1>1, <1>2
<1> QED BY <1>1, <1>2, <1>3

\* The states of a step that is taken n times.
Iterates(f, n, S, base, step) ==
  /\ f \in [0..n -> S] /\ f[0] = base
  /\ \A i \in 1..n : f[i] = step[<<i, f[i - 1]>>]

\* A step can be taken n times.
LEMMA Iterate ==
  ASSUME NEW n \in Nat, NEW S, NEW base \in S, NEW step \in [(1..n) \X S -> S]
  PROVE  \E f : Iterates(f, n, S, base, step)
<1> DEFINE Good(m, f) == f[0] = base /\ \A i \in 1..m : f[i] = step[<<i, f[i - 1]>>]
           T == {m \in 0..n : \E f \in [0..m -> S] : Good(m, f)}
<1>1. 0 \in T
  <2>1. PICK f : f = [i \in 0..0 |-> base]
    OBVIOUS
  <2>2. f \in [0..0 -> S] /\ f[0] = base
    BY <2>1
  <2>3. Good(0, f)
    BY <2>2
  <2> HIDE DEF Good
  <2> QED BY <2>2, <2>3
<1>2. ASSUME NEW m \in 1..n, m - 1 \in T PROVE m \in T
  <2>1. PICK f \in [0..(m - 1) -> S] : Good(m - 1, f)
    BY <1>2
  <2>2. PICK v \in S : v = step[<<m, f[m - 1]>>]
    OBVIOUS
  <2> DEFINE g == [i \in 0..m |-> IF i = m THEN v ELSE f[i]]
  <2>3. g \in [0..m -> S] /\ g[m] = v /\ \A i \in 0..(m - 1) : g[i] = f[i]
    OBVIOUS
  <2> HIDE DEF g
  <2>4. \A i \in 1..m : g[i] = step[<<i, g[i - 1]>>]
    <3> SUFFICES ASSUME NEW i \in 1..m PROVE g[i] = step[<<i, g[i - 1]>>]
      OBVIOUS
    <3>1. CASE i = m
      <4>1. m - 1 \in 0..(m - 1) /\ g[m - 1] = f[m - 1]
        BY <2>3
      <4>2. g[m] = step[<<m, g[m - 1]>>]
        BY <4>1, <2>2, <2>3
      <4> QED BY <3>1, <4>2
    <3>2. CASE i # m
      <4>1. i \in 1..(m - 1) /\ i \in 0..(m - 1) /\ i - 1 \in 0..(m - 1)
        BY <3>2
      <4> QED BY <4>1, <2>1, <2>3
    <3> QED BY <3>1, <3>2
  <2> QED BY <2>1, <2>3, <2>4
<1> HIDE DEF T
<1>3. n \in T
  BY <1>1, <1>2, Induction
<1>4. PICK f \in [0..n -> S] : Good(n, f)
  BY <1>3 DEF T
<1> QED BY <1>4 DEF Iterates

-----------------------------------------------------------------------------
(* Some elements of a sequence                                             *)

\* What Those goes through, position by position.
Collects(f, S, s, I) ==
  /\ f \in [0..Len(s) -> Seq(S)] /\ f[0] = <<>>
  /\ \A i \in 1..Len(s) : i \in I => f[i] = Append(f[i - 1], s[i])
  /\ \A i \in 1..Len(s) : i \notin I => f[i] = f[i - 1]

\* Those goes through the positions one by one.
LEMMA ThoseFold ==
  ASSUME NEW S, NEW s \in Seq(S), NEW I
  PROVE  \E f : Collects(f, S, s, I) /\ Those(s, I) = f[Len(s)]
<1>0. PICK n \in Nat : n = Len(s) /\ DOMAIN s = 1..n /\ \A i \in 1..n : s[i] \in S
  OBVIOUS
<1> DEFINE Take(q, i) == IF i \in I THEN Append(q, s[i]) ELSE q
           Is(f) == f = [i \in 0..n |-> IF i = 0 THEN <<>> ELSE Take(f[i - 1], i)]
<1>1. \A q \in Seq(S), i \in 1..n : /\ Take(q, i) \in Seq(S)
                                    /\ i \in I => Take(q, i) = Append(q, s[i])
                                    /\ i \notin I => Take(q, i) = q
  BY <1>0
<1>2. Those(s, I) = (CHOOSE f : Is(f))[n]
  BY <1>0 DEF Those
<1> HIDE DEF Take
<1> DEFINE step == [x \in (1..n) \X Seq(S) |-> Take(x[2], x[1])]
<1>2b. <<>> \in Seq(S)
  OBVIOUS
<1>3. step \in [(1..n) \X Seq(S) -> Seq(S)]
  <2>1. \A q \in Seq(S), i \in 1..n : Take(q, i) \in Seq(S)
    BY <1>1
  <2> QED BY <2>1
<1>4. \A i \in 1..n, q \in Seq(S) : step[<<i, q>>] = Take(q, i)
  OBVIOUS
<1> HIDE DEF step
<1>5. PICK f : Iterates(f, n, Seq(S), <<>>, step)
  BY <1>2b, <1>3, Iterate
<1>51. f \in [0..n -> Seq(S)] /\ f[0] = <<>> /\ \A i \in 1..n : f[i] = step[<<i, f[i - 1]>>]
  BY <1>5 DEF Iterates
<1>6. \A i \in 1..n : f[i] = Take(f[i - 1], i)
  <2> SUFFICES ASSUME NEW i \in 1..n PROVE f[i] = Take(f[i - 1], i)
    OBVIOUS
  <2>1. f[i - 1] \in Seq(S)
    BY <1>51
  <2> QED BY <2>1, <1>4, <1>51
<1>7. Is(f)
  <2>1. f = [i \in 0..n |-> f[i]]
    BY <1>51
  <2>2. \A i \in 0..n : f[i] = IF i = 0 THEN <<>> ELSE Take(f[i - 1], i)
    BY <1>0, <1>51, <1>6
  <2> QED BY <2>1, <2>2
<1> DEFINE some == CHOOSE g : Is(g)
<1>8. Is(some)
  <2> HIDE DEF Is
  <2> QED BY <1>7
<1>9. Those(s, I) = some[n]
  BY <1>2
<1> HIDE DEF some
<1>10. some[0] = <<>> /\ \A i \in 1..n : some[i] = Take(some[i - 1], i)
  BY <1>0, <1>8
<1>11. \A i \in 0..n : some[i] \in Seq(S)
  <2> DEFINE T == {i \in 0..n : some[i] \in Seq(S)}
  <2>1. 0 \in T
    <3>1. PICK z \in 0..n : z = 0
      BY <1>0
    <3>2. some[z] \in Seq(S)
      BY <1>2b, <1>10, <3>1
    <3> QED BY <3>1, <3>2
  <2>2. ASSUME NEW i \in 1..n, i - 1 \in T PROVE i \in T
    <3>1. some[i - 1] \in Seq(S) /\ i \in 0..n
      BY <2>2
    <3>2. some[i] = Take(some[i - 1], i) /\ Take(some[i - 1], i) \in Seq(S)
      BY <1>1, <1>10, <3>1
    <3> QED BY <3>1, <3>2
  <2> HIDE DEF T
  <2>3. \A i \in 0..n : i \in T
    BY <1>0, <2>1, <2>2, Induction
  <2> QED BY <2>3 DEF T
<1>12. some \in [0..n -> Seq(S)]
  <2>1. DOMAIN some = 0..n /\ some = [i \in 0..n |-> some[i]]
    BY <1>8
  <2> QED BY <1>11, <2>1
<1>13. ASSUME NEW i \in 1..n
      PROVE  /\ i \in I => some[i] = Append(some[i - 1], s[i])
             /\ i \notin I => some[i] = some[i - 1]
  <2>1. PICK q \in Seq(S) : q = some[i - 1]
    BY <1>0, <1>11
  <2>2. some[i] = Take(q, i)
    BY <2>1, <1>10
  <2>3. (i \in I => Take(q, i) = Append(q, s[i])) /\ (i \notin I => Take(q, i) = q)
    BY <1>1
  <2> QED BY <2>1, <2>2, <2>3
<1>14. Collects(some, S, s, I)
  BY <1>0, <1>10, <1>12, <1>13 DEF Collects
<1> QED BY <1>0, <1>9, <1>14

\* Those takes elements at increasing positions, and leaves none out.
LEMMA ThoseIs ==
  ASSUME NEW S, NEW s \in Seq(S), NEW I
  PROVE  /\ Those(s, I) \in Seq(S)
         /\ \E e \in [1..Len(Those(s, I)) -> 1..Len(s)] :
              /\ \A n \in 1..Len(Those(s, I)) : e[n] \in I /\ Those(s, I)[n] = s[e[n]]
              /\ \A n, k \in 1..Len(Those(s, I)) : n < k => e[n] < e[k]
              /\ \A i \in 1..Len(s) : i \in I => \E n \in 1..Len(Those(s, I)) : e[n] = i
<1>0. Len(s) \in Nat /\ DOMAIN s = 1..Len(s) /\ \A i \in 1..Len(s) : s[i] \in S
  OBVIOUS
<1>10. PICK f : Collects(f, S, s, I) /\ Those(s, I) = f[Len(s)]
  BY ThoseFold
<1>1. /\ f \in [0..Len(s) -> Seq(S)] /\ f[0] = <<>> /\ Those(s, I) = f[Len(s)]
      /\ \A i \in 1..Len(s) : i \in I => f[i] = Append(f[i - 1], s[i])
      /\ \A i \in 1..Len(s) : i \notin I => f[i] = f[i - 1]
  BY <1>10 DEF Collects
<1> DEFINE Good(i, e) ==
      /\ \A n \in 1..Len(f[i]) : e[n] \in I /\ f[i][n] = s[e[n]]
      /\ \A n, k \in 1..Len(f[i]) : n < k => e[n] < e[k]
      /\ \A j \in 1..i : j \in I => \E n \in 1..Len(f[i]) : e[n] = j
    T == {i \in 0..Len(s) : \E e \in [1..Len(f[i]) -> 1..i] : Good(i, e)}
<1>2. 0 \in T
  <2>1. Len(f[0]) = 0 /\ 1..0 = {}
    BY <1>1
  <2>2. PICK e : e = [n \in {} |-> 0]
    OBVIOUS
  <2>3. e \in [1..Len(f[0]) -> 1..0] /\ Good(0, e)
    BY <2>1, <2>2
  <2> HIDE DEF Good
  <2> QED BY <1>0, <2>3
<1>3. ASSUME NEW i \in 1..Len(s), i - 1 \in T PROVE i \in T
  <2>0. i \in Nat /\ i - 1 \in 0..Len(s) /\ i \in 0..Len(s)
    BY <1>0
  <2>1. PICK e \in [1..Len(f[i - 1]) -> 1..(i - 1)] : Good(i - 1, e)
    BY <1>3
  <2>2. PICK m \in Nat : m = Len(f[i - 1])
    BY <2>0
  <2>3. CASE i \in I
    <3>1. f[i] = Append(f[i - 1], s[i]) /\ f[i - 1] \in Seq(S) /\ s[i] \in S
      BY <1>0, <1>1, <2>0, <2>3
    <3>2. /\ Len(f[i]) = m + 1 /\ f[i][m + 1] = s[i]
          /\ \A n \in 1..m : f[i][n] = f[i - 1][n]
      BY <3>1, <2>2
    <3> DEFINE g == [n \in 1..(m + 1) |-> IF n = m + 1 THEN i ELSE e[n]]
    <3>3. /\ g[m + 1] = i /\ \A n \in 1..m : g[n] = e[n] /\ g[n] \in 1..(i - 1)
          /\ g \in [1..(m + 1) -> 1..i]
      BY <2>0, <2>2
    <3> HIDE DEF g
    <3>4. \A n \in 1..(m + 1) : n = m + 1 \/ n \in 1..m
      OBVIOUS
    <3>5. \A n \in 1..(m + 1) : g[n] \in I /\ f[i][n] = s[g[n]]
      BY <2>1, <2>2, <2>3, <3>2, <3>3, <3>4
    <3>6. \A n, k \in 1..(m + 1) : n < k => g[n] < g[k]
      BY <2>0, <2>1, <2>2, <3>3, <3>4
    <3>7. ASSUME NEW j \in 1..i, j \in I PROVE \E n \in 1..(m + 1) : g[n] = j
      <4>1. CASE j = i
        BY <4>1, <3>3
      <4>2. CASE j # i
        <5>1. j \in 1..(i - 1)
          BY <4>2
        <5>2. PICK n \in 1..m : e[n] = j
          BY <5>1, <2>1, <2>2, <3>7
        <5> QED BY <5>2, <3>3
      <4> QED BY <4>1, <4>2
    <3>8. g \in [1..Len(f[i]) -> 1..i] /\ Good(i, g)
      BY <3>2, <3>3, <3>5, <3>6, <3>7
    <3> HIDE DEF Good
    <3> QED BY <2>0, <3>8
  <2>4. CASE i \notin I
    <3>1. f[i] = f[i - 1] /\ Len(f[i]) = m
      BY <1>1, <2>2, <2>4
    <3>2. \A j \in 1..i : j = i \/ j \in 1..(i - 1)
      OBVIOUS
    <3>3. e \in [1..m -> 1..i]
      BY <2>0, <2>2
    <3>4. Good(i, e)
      BY <2>1, <2>4, <3>1, <3>2
    <3> HIDE DEF Good
    <3> QED BY <2>0, <3>1, <3>3, <3>4
  <2> QED BY <2>3, <2>4
<1>4. Len(s) \in T
  <2> HIDE DEF T
  <2>1. \A i \in 0..Len(s) : i \in T
    BY <1>0, <1>2, <1>3, Induction
  <2> QED BY <1>0, <2>1
<1>5. Those(s, I) \in Seq(S)
  BY <1>0, <1>1
<1> QED BY <1>1, <1>4, <1>5

\* The elements at positions that are given in increasing order.
LEMMA ThoseInOrder ==
  ASSUME NEW S, NEW s \in Seq(S), NEW k \in Nat, NEW e \in [1..k -> 1..Len(s)],
         \A n, l \in 1..k : n < l => e[n] < e[l]
  PROVE  Those(s, {e[n] : n \in 1..k}) = [n \in 1..k |-> s[e[n]]]
<1> DEFINE I == {e[n] : n \in 1..k}
<1>0. Len(s) \in Nat /\ DOMAIN s = 1..Len(s) /\ \A i \in 1..Len(s) : s[i] \in S
  OBVIOUS
<1>01. \A n \in 1..k : e[n] \in 1..Len(s) /\ e[n] \in Int /\ e[n] >= 1
  BY <1>0
<1>02. /\ \A n \in 1..k : e[n] \in I
       /\ \A i \in I : \E n \in 1..k : e[n] = i
  OBVIOUS
<1> HIDE DEF I
<1>10. PICK f : Collects(f, S, s, I) /\ Those(s, I) = f[Len(s)]
  BY ThoseFold
<1>1. /\ f \in [0..Len(s) -> Seq(S)] /\ f[0] = <<>> /\ Those(s, I) = f[Len(s)]
      /\ \A i \in 1..Len(s) : i \in I => f[i] = Append(f[i - 1], s[i])
      /\ \A i \in 1..Len(s) : i \notin I => f[i] = f[i - 1]
  BY <1>10 DEF Collects
<1> DEFINE Good(i, m) == /\ Len(f[i]) = m /\ \A n \in 1..m : f[i][n] = s[e[n]]
                         /\ \A n \in 1..k : e[n] <= i <=> n <= m
           T == {i \in 0..Len(s) : \E m \in 0..k : Good(i, m)}
<1>2. 0 \in T
  <2>1. PICK z \in Nat : z = 0
    OBVIOUS
  <2>2. Good(z, z)
    BY <1>01, <1>1, <2>1
  <2>3. z \in 0..Len(s) /\ z \in 0..k
    BY <1>0, <2>1
  <2> HIDE DEF Good
  <2> QED BY <2>1, <2>2, <2>3
<1>3. ASSUME NEW i \in 1..Len(s), i - 1 \in T PROVE i \in T
  <2>0. i \in Nat /\ i - 1 \in 0..Len(s) /\ i \in 0..Len(s)
    BY <1>0
  <2>1. PICK m \in 0..k : Good(i - 1, m)
    BY <1>3
  <2>2. CASE i \in I
    <3>1. PICK x \in 1..k : e[x] = i
      BY <1>02, <2>2
    <3>0. \A n \in 1..k : e[n] <= i - 1 <=> n <= m
      BY <2>1
    <3>2. x > m
      BY <2>0, <3>0, <3>1
    <3>3. ASSUME NEW n \in 1..k, n < x PROVE n <= m
      <4>1. e[n] < i
        BY <3>1, <3>3
      <4>2. e[n] <= i - 1
        BY <4>1, <1>01, <2>0
      <4> QED BY <4>2, <3>0
    <3>4. x = m + 1
      <4>1. CASE x > m + 1
        <5>1. m + 1 \in 1..k /\ m + 1 < x
          BY <4>1
        <5> QED BY <5>1, <3>3
      <4> QED BY <4>1, <3>2
    <3>5. f[i] = Append(f[i - 1], s[i]) /\ f[i - 1] \in Seq(S) /\ s[i] \in S
      BY <1>0, <1>1, <2>0, <2>2
    <3>6. /\ Len(f[i]) = m + 1 /\ f[i][m + 1] = s[i]
          /\ \A n \in 1..m : f[i][n] = f[i - 1][n]
      BY <3>5, <2>1
    <3>7. \A n \in 1..(m + 1) : f[i][n] = s[e[n]]
      <4>1. \A n \in 1..(m + 1) : n = m + 1 \/ n \in 1..m
        OBVIOUS
      <4> QED BY <4>1, <2>1, <3>1, <3>4, <3>6
    <3>8. \A n \in 1..k : e[n] <= i <=> n <= m + 1
      <4> SUFFICES ASSUME NEW n \in 1..k PROVE e[n] <= i <=> n <= x
        BY <3>4
      <4>1. CASE n < x
        <5>1. e[n] < e[x]
          BY <4>1
        <5> QED BY <4>1, <5>1, <3>1, <1>01
      <4>2. CASE n = x
        BY <4>2, <3>1, <1>01
      <4>3. CASE n > x
        <5>1. e[x] < e[n]
          BY <4>3
        <5> QED BY <4>3, <5>1, <3>1, <1>01
      <4> QED BY <4>1, <4>2, <4>3
    <3>9. Good(i, m + 1) /\ m + 1 \in 0..k
      BY <3>4, <3>6, <3>7, <3>8
    <3> HIDE DEF Good
    <3> QED BY <2>0, <3>9
  <2>3. CASE i \notin I
    <3>1. f[i] = f[i - 1] /\ \A n \in 1..k : e[n] # i
      BY <1>02, <1>1, <2>3
    <3>2. \A n \in 1..k : e[n] <= i <=> e[n] <= i - 1
      BY <1>01, <2>0, <3>1
    <3>3. Good(i, m)
      BY <2>1, <3>1, <3>2
    <3> HIDE DEF Good
    <3> QED BY <2>0, <3>3
  <2> QED BY <2>2, <2>3
<1>4. Len(s) \in T
  <2> HIDE DEF T
  <2>1. \A i \in 0..Len(s) : i \in T
    BY <1>0, <1>2, <1>3, Induction
  <2> QED BY <1>0, <2>1
<1>5. PICK m \in 0..k : Good(Len(s), m)
  BY <1>4
<1>6. m = k
  <2>1. CASE k = 0
    BY <2>1
  <2>2. CASE k # 0
    <3>1. k \in 1..k /\ e[k] <= Len(s)
      BY <2>2, <1>01
    <3> QED BY <3>1, <1>5
  <2> QED BY <2>1, <2>2
<1>61. Len(s) \in 0..Len(s)
  BY <1>0
<1>7. Those(s, I) \in Seq(S) /\ Len(Those(s, I)) = k /\ \A n \in 1..k : Those(s, I)[n] = s[e[n]]
  BY <1>61, <1>1, <1>5, <1>6
<1>8. Those(s, I) = [n \in 1..k |-> s[e[n]]]
  BY <1>7
<1> QED BY <1>8 DEF I

-----------------------------------------------------------------------------
(* Lines that describe peers                                               *)

Keys == {"[[peer]]"} \cup HeaderKeys \cup PeerKeys
Vals == Nat \cup BOOLEAN \cup Placements \cup Addresses \cup Names
Lines == [key : Keys, val : Vals]

\* The lines from lo to hi are those of a peer that loads as p.
Describes(ls, lo, hi, p) ==
  /\ \A j \in lo..hi : ls[j].key \in PeerKeys
  /\ \A j, k \in lo..hi : ls[j].key = ls[k].key => j = k
  /\ \A key \in RequiredKeys : \E j \in lo..hi : ls[j].key = key
  /\ \A j \in lo..hi : /\ ls[j].key = "id" => ls[j].val = p.id
                       /\ ls[j].key = "client_endpoint" => ls[j].val = p.at
                       /\ ls[j].key = "placement" => ls[j].val = p.side
                       /\ ls[j].key = "persistent_permissions" => ls[j].val = p.keep
                       /\ ls[j].key = "capture_restore_token" => ls[j].val = p.capture
                       /\ ls[j].key = "remote_restore_token" => ls[j].val = p.remote
  /\ (\A j \in lo..hi : ls[j].key # "persistent_permissions") => p.keep = FALSE
  /\ (\A j \in lo..hi : ls[j].key # "capture_restore_token") => p.capture = 0
  /\ (\A j \in lo..hi : ls[j].key # "remote_restore_token") => p.remote = 0

\* The same lines further down describe the same peer.
LEMMA DescribesMoved ==
  ASSUME NEW ls, NEW b, NEW lo \in Nat, NEW hi \in Nat, NEW d \in Nat, NEW p,
         \A j \in lo..hi : ls[j + d] = b[j], Describes(b, lo, hi, p)
  PROVE  Describes(ls, lo + d, hi + d, p)
<1>1. ASSUME NEW j \in (lo + d)..(hi + d)
      PROVE  j - d \in lo..hi /\ ls[j] = b[j - d]
  <2>1. j - d \in lo..hi /\ (j - d) + d = j
    OBVIOUS
  <2> QED BY <2>1
<1>2. \A j \in lo..hi : j + d \in (lo + d)..(hi + d) /\ ls[j + d] = b[j]
  OBVIOUS
<1> DEFINE L == (lo + d)..(hi + d)
           M == lo..hi
<1>3. /\ \A j \in L : j \in Int /\ j - d \in M /\ ls[j] = b[j - d]
      /\ \A j \in M : j \in Int /\ j + d \in L /\ ls[j + d] = b[j]
  BY <1>1, <1>2
<1>4. Describes(b, lo, hi, p) <=> Describes(b, lo, hi, p)
  OBVIOUS
<1> HIDE DEF L, M
<1>5. \A j \in L : ls[j].key \in PeerKeys
  BY <1>3 DEF Describes, M
<1>6. \A j, k \in L : ls[j].key = ls[k].key => j = k
  <2> SUFFICES ASSUME NEW j \in L, NEW k \in L, ls[j].key = ls[k].key PROVE j = k
    OBVIOUS
  <2>1. j - d \in M /\ k - d \in M /\ b[j - d].key = b[k - d].key /\ j \in Int /\ k \in Int
    BY <1>3
  <2>2. j - d = k - d
    BY <2>1 DEF Describes, M
  <2> QED BY <2>1, <2>2
<1>7. \A key \in RequiredKeys : \E j \in L : ls[j].key = key
  <2> SUFFICES ASSUME NEW key \in RequiredKeys PROVE \E j \in L : ls[j].key = key
    OBVIOUS
  <2>1. PICK j \in M : b[j].key = key
    BY DEF Describes, M
  <2> QED BY <2>1, <1>3
<1>8. ASSUME NEW j \in L
      PROVE  /\ ls[j].key = "id" => ls[j].val = p.id
             /\ ls[j].key = "client_endpoint" => ls[j].val = p.at
             /\ ls[j].key = "placement" => ls[j].val = p.side
             /\ ls[j].key = "persistent_permissions" => ls[j].val = p.keep
             /\ ls[j].key = "capture_restore_token" => ls[j].val = p.capture
             /\ ls[j].key = "remote_restore_token" => ls[j].val = p.remote
  <2>1. j - d \in M /\ ls[j] = b[j - d]
    BY <1>3
  <2> QED BY <2>1 DEF Describes, M
<1>9. ASSUME NEW key, \A j \in L : ls[j].key # key
      PROVE  \A j \in M : b[j].key # key
  <2> SUFFICES ASSUME NEW j \in M PROVE b[j].key # key
    OBVIOUS
  <2>1. j + d \in L /\ ls[j + d] = b[j]
    BY <1>3
  <2> QED BY <2>1, <1>9
<1>10. (\A j \in L : ls[j].key # "persistent_permissions") => p.keep = FALSE
  BY <1>9 DEF Describes, M
<1>11. (\A j \in L : ls[j].key # "capture_restore_token") => p.capture = 0
  BY <1>9 DEF Describes, M
<1>12. (\A j \in L : ls[j].key # "remote_restore_token") => p.remote = 0
  BY <1>9 DEF Describes, M
<1> QED
  BY <1>5, <1>6, <1>7, <1>8, <1>10, <1>11, <1>12 DEF Describes, L

\* render writes lines that describe the peer (src/config.rs:299).
LEMMA PeerLinesAre ==
  ASSUME NEW p \in PeerRecs
  PROVE  /\ PeerLines(p) \in Seq(Lines) /\ Len(PeerLines(p)) \in Nat
         /\ Len(PeerLines(p)) >= 5 /\ IsStart(PeerLines(p)[1])
         /\ Describes(PeerLines(p), 2, Len(PeerLines(p)), p)
<1>1. /\ p.id \in Nat /\ p.at \in Addresses /\ p.side \in Placements
      /\ p.keep \in BOOLEAN /\ p.capture \in Nat /\ p.remote \in Nat
  BY DEF PeerRecs
<1>2. /\ Line("[[peer]]", "none") \in Lines /\ Line("id", p.id) \in Lines
      /\ Line("client_endpoint", p.at) \in Lines /\ Line("placement", p.side) \in Lines
      /\ Line("persistent_permissions", p.keep) \in Lines
      /\ Line("capture_restore_token", p.capture) \in Lines
      /\ Line("remote_restore_token", p.remote) \in Lines
  BY <1>1 DEF Lines, Line, Keys, PeerKeys, RequiredKeys, Vals, Names
<1> DEFINE b == PeerLines(p)
           base == <<Line("[[peer]]", "none"), Line("id", p.id), Line("client_endpoint", p.at),
                     Line("placement", p.side), Line("persistent_permissions", p.keep)>>
           cap == IF p.capture = 0 THEN <<>> ELSE <<Line("capture_restore_token", p.capture)>>
           rem == IF p.remote = 0 THEN <<>> ELSE <<Line("remote_restore_token", p.remote)>>
<1>3. b = base \o cap \o rem
  BY DEF PeerLines
<1>40. /\ \A v, w, x, y, z \in Lines : <<v, w, x, y, z>> \in Seq(Lines)
       /\ \A v \in Lines : <<v>> \in Seq(Lines)
       /\ <<>> \in Seq(Lines)
  OBVIOUS
<1>4. base \in Seq(Lines) /\ Len(base) = 5
  <2>1. base \in Seq(Lines)
    BY <1>2, <1>40, Zenon
  <2>2. Len(base) = 5
    OBVIOUS
  <2> QED BY <2>1, <2>2
<1>5. cap \in Seq(Lines) /\ rem \in Seq(Lines)
  BY <1>2, <1>40, Zenon
<1>6. /\ base[1].key = "[[peer]]"
      /\ base[2].key = "id" /\ base[2].val = p.id
      /\ base[3].key = "client_endpoint" /\ base[3].val = p.at
      /\ base[4].key = "placement" /\ base[4].val = p.side
      /\ base[5].key = "persistent_permissions" /\ base[5].val = p.keep
  BY DEF Line
<1>7. /\ p.capture = 0 => cap = <<>> /\ Len(cap) = 0
      /\ p.capture # 0 => Len(cap) = 1 /\ cap[1].key = "capture_restore_token"
                                       /\ cap[1].val = p.capture
      /\ p.remote = 0 => rem = <<>> /\ Len(rem) = 0
      /\ p.remote # 0 => Len(rem) = 1 /\ rem[1].key = "remote_restore_token"
                                      /\ rem[1].val = p.remote
  BY DEF Line
<1>8. /\ b \in Seq(Lines) /\ Len(b) = 5 + Len(cap) + Len(rem)
      /\ \A i \in 1..5 : b[i] = base[i]
      /\ \A i \in 6..(5 + Len(cap)) : b[i] = cap[i - 5]
      /\ \A i \in (6 + Len(cap))..(5 + Len(cap) + Len(rem)) : b[i] = rem[i - 5 - Len(cap)]
  <2>1. PICK x \in Seq(Lines) : x = base
    BY <1>4
  <2>2. PICK y \in Seq(Lines) : y = cap
    BY <1>5
  <2>3. PICK z \in Seq(Lines) : z = rem
    BY <1>5
  <2>4. b = x \o y \o z /\ Len(x) = 5
    BY <1>3, <1>4, <2>1, <2>2, <2>3
  <2>40. x \o y \in Seq(Lines)
    OBVIOUS
  <2>5. PICK w \in Seq(Lines) : w = x \o y
    BY <2>40
  <2>60. /\ Len(w) = Len(x) + Len(y) /\ \A i \in 1..Len(x) : w[i] = x[i]
         /\ \A i \in (Len(x) + 1)..(Len(x) + Len(y)) : w[i] = y[i - Len(x)]
    BY <2>5
  <2>6. /\ Len(w) = 5 + Len(y) /\ \A i \in 1..5 : w[i] = x[i]
        /\ \A i \in 6..(5 + Len(y)) : w[i] = y[i - 5]
    BY <2>4, <2>60
  <2>7. /\ b = w \o z /\ b \in Seq(Lines) /\ Len(b) = Len(w) + Len(z)
        /\ \A i \in 1..Len(w) : b[i] = w[i]
        /\ \A i \in (Len(w) + 1)..(Len(w) + Len(z)) : b[i] = z[i - Len(w)]
    BY <2>4, <2>5
  <2>8. Len(y) \in Nat /\ Len(z) \in Nat
    OBVIOUS
  <2> HIDE DEF b, base, cap, rem
  <2>9. \A i \in 1..5 : b[i] = x[i]
    BY <2>6, <2>7, <2>8
  <2>10. \A i \in 6..(5 + Len(y)) : b[i] = y[i - 5]
    BY <2>6, <2>7, <2>8
  <2>11. \A i \in (6 + Len(y))..(5 + Len(y) + Len(z)) : b[i] = z[i - 5 - Len(y)]
    BY <2>6, <2>7, <2>8
  <2> QED BY <2>1, <2>2, <2>3, <2>6, <2>7, <2>9, <2>10, <2>11
<1> HIDE DEF b, base, cap, rem
<1>9. /\ b[1].key = "[[peer]]"
      /\ b[2].key = "id" /\ b[2].val = p.id
      /\ b[3].key = "client_endpoint" /\ b[3].val = p.at
      /\ b[4].key = "placement" /\ b[4].val = p.side
      /\ b[5].key = "persistent_permissions" /\ b[5].val = p.keep
  BY <1>6, <1>8
<1>10. Describes(b, 2, Len(b), p)
  <2>1. CASE p.capture = 0 /\ p.remote = 0
    <3>1. Len(b) = 5
      BY <1>7, <1>8, <2>1
    <3>2. \A j \in 2..5 : j = 2 \/ j = 3 \/ j = 4 \/ j = 5
      OBVIOUS
    <3> QED BY <3>1, <3>2, <1>9, <2>1 DEF Describes, PeerKeys, RequiredKeys
  <2>2. CASE p.capture # 0 /\ p.remote = 0
    <3>1. /\ Len(b) = 6 /\ b[6].key = "capture_restore_token" /\ b[6].val = p.capture
      BY <1>7, <1>8, <2>2
    <3>2. \A j \in 2..6 : j = 2 \/ j = 3 \/ j = 4 \/ j = 5 \/ j = 6
      OBVIOUS
    <3> QED BY <3>1, <3>2, <1>9, <2>2 DEF Describes, PeerKeys, RequiredKeys
  <2>3. CASE p.capture = 0 /\ p.remote # 0
    <3>1. /\ Len(b) = 6 /\ b[6].key = "remote_restore_token" /\ b[6].val = p.remote
      BY <1>7, <1>8, <2>3
    <3>2. \A j \in 2..6 : j = 2 \/ j = 3 \/ j = 4 \/ j = 5 \/ j = 6
      OBVIOUS
    <3> QED BY <3>1, <3>2, <1>9, <2>3 DEF Describes, PeerKeys, RequiredKeys
  <2>4. CASE p.capture # 0 /\ p.remote # 0
    <3>1. /\ Len(b) = 7 /\ b[6].key = "capture_restore_token" /\ b[6].val = p.capture
          /\ b[7].key = "remote_restore_token" /\ b[7].val = p.remote
      BY <1>7, <1>8, <2>4
    <3>2. \A j \in 2..7 : j = 2 \/ j = 3 \/ j = 4 \/ j = 5 \/ j = 6 \/ j = 7
      OBVIOUS
    <3> QED BY <3>1, <3>2, <1>9, <2>4 DEF Describes, PeerKeys, RequiredKeys
  <2> QED BY <2>1, <2>2, <2>3, <2>4
<1>11. Len(b) \in Nat /\ Len(b) >= 5
  BY <1>5, <1>8
<1> QED BY <1>8, <1>9, <1>10, <1>11 DEF b, IsStart

-----------------------------------------------------------------------------
(* Files as render writes them                                             *)

\* The lines ls are those of a configuration with this name and the first n of
\* the peers ps; the section of each begins at the line at[i].
Written(ls, name, ps, n, at) ==
  /\ ls \in Seq(Lines) /\ n \in Nat
  /\ at \in [1..(n + 1) -> Nat]
  /\ at[n + 1] = Len(ls) + 1
  /\ \A i \in 1..n : at[i] < at[i + 1]
  /\ \/ at[1] = 2 /\ ls[1].key = "local_name" /\ ls[1].val = name
     \/ at[1] = 1 /\ name = "This computer"
  /\ \A i \in 1..n : IsStart(ls[at[i]]) /\ Describes(ls, at[i] + 1, at[i + 1] - 1, ps[i])

\* A file of one line has the name and no peer.
LEMMA WrittenHeader ==
  ASSUME NEW name \in Names, NEW ps
  PROVE  \E at : Written(<<Line("local_name", name)>>, name, ps, 0, at)
<1> DEFINE l == Line("local_name", name)
<1>1. l \in Lines /\ l.key = "local_name" /\ l.val = name
  BY DEF Line, Lines, Keys, HeaderKeys, Vals
<1> HIDE DEF l
<1>2. <<l>> \in Seq(Lines) /\ Len(<<l>>) = 1 /\ <<l>>[1] = l
  <2>1. \A x \in Lines : <<x>> \in Seq(Lines) /\ Len(<<x>>) = 1 /\ <<x>>[1] = x
    OBVIOUS
  <2> QED BY <1>1, <2>1, Zenon
<1>3. PICK at : at = [i \in 1..1 |-> 2]
  OBVIOUS
<1>4. at \in [1..(0 + 1) -> Nat] /\ at[1] = 2 /\ at[0 + 1] = 2 /\ 1..0 = {}
  <2>1. at \in [1..1 -> Nat] /\ at[1] = 2 /\ 0 + 1 = 1
    BY <1>3
  <2>2. 1..0 = {}
    OBVIOUS
  <2> QED BY <2>1, <2>2
<1>40. 0 \in Nat /\ 2 = 1 + 1
  OBVIOUS
<1>5. Written(<<l>>, name, ps, 0, at)
  BY <1>1, <1>2, <1>4, <1>40 DEF Written
<1> QED BY <1>5 DEF l

\* The lines of one more peer.
LEMMA WrittenMore ==
  ASSUME NEW ls, NEW name, NEW ps, NEW n, NEW at, Written(ls, name, ps, n, at),
         NEW b \in Seq(Lines), Len(b) \in Nat \ {0}, IsStart(b[1]),
         Describes(b, 2, Len(b), ps[n + 1])
  PROVE  \E nt : Written(ls \o b, name, ps, n + 1, nt)
<1>0. Written(ls, name, ps, n, at)
  OBVIOUS
<1>1a. ls \in Seq(Lines)
  BY <1>0 DEF Written
<1>1b. n \in Nat /\ at \in [1..(n + 1) -> Nat]
  BY <1>0 DEF Written
<1>1c. at[n + 1] = Len(ls) + 1 /\ \A i \in 1..n : at[i] < at[i + 1]
  BY <1>0 DEF Written
<1>1d. \/ at[1] = 2 /\ ls[1].key = "local_name" /\ ls[1].val = name
       \/ at[1] = 1 /\ name = "This computer"
  BY <1>0 DEF Written
<1>1e. \A i \in 1..n : IsStart(ls[at[i]]) /\ Describes(ls, at[i] + 1, at[i + 1] - 1, ps[i])
  BY <1>0 DEF Written
<1>2. PICK len \in Nat, m \in Nat \ {0} : len = Len(ls) /\ m = Len(b)
  BY <1>1a, <1>1b, <1>1c
<1>20. ls \o b \in Seq(Lines)
  BY <1>1a, <1>1b, <1>1c
<1>3. PICK w \in Seq(Lines) : w = ls \o b
  BY <1>20
<1>4. /\ Len(w) = Len(ls) + Len(b) /\ \A i \in 1..Len(ls) : w[i] = ls[i]
      /\ \A i \in (Len(ls) + 1)..(Len(ls) + Len(b)) : w[i] = b[i - Len(ls)]
  BY <1>1a, <1>1b, <1>1c, <1>3
<1>5. Len(w) = len + m /\ \A i \in 1..len : w[i] = ls[i]
  BY <1>2, <1>4
<1>6. \A i \in 1..m : w[i + len] = b[i]
  <2> SUFFICES ASSUME NEW i \in 1..m PROVE w[i + len] = b[i]
    OBVIOUS
  <2>1. i + len \in (len + 1)..(len + m) /\ (i + len) - len = i
    OBVIOUS
  <2> QED BY <2>1, <1>2, <1>4
<1> DEFINE nt == [i \in 1..(n + 2) |-> IF i = n + 2 THEN len + m + 1 ELSE at[i]]
<1>7. /\ nt \in [1..(n + 2) -> Nat] /\ nt[n + 2] = len + m + 1
      /\ \A i \in 1..(n + 1) : nt[i] = at[i]
  BY <1>1a, <1>1b, <1>1c
<1> HIDE DEF nt
<1>8. at[n + 1] = len + 1 /\ n + 1 \in 1..(n + 1) /\ 1 \in 1..(n + 1)
  BY <1>1a, <1>1b, <1>1c, <1>2
<1>9. \A i \in 1..(n + 1) : nt[i] < nt[i + 1]
  <2> SUFFICES ASSUME NEW i \in 1..(n + 1) PROVE nt[i] < nt[i + 1]
    OBVIOUS
  <2>1. CASE i = n + 1
    <3>1. i + 1 = n + 2
      BY <2>1, <1>1a, <1>1b, <1>1c
    <3> QED BY <3>1, <2>1, <1>7, <1>8
  <2>2. CASE i # n + 1
    <3>1. i \in 1..n /\ i + 1 \in 1..(n + 1)
      BY <2>2, <1>1a, <1>1b, <1>1c
    <3> QED BY <3>1, <1>1a, <1>1b, <1>1c, <1>7
  <2> QED BY <2>1, <2>2
<1>10. \A i \in 1..(n + 1) : at[i] \in 1..(len + 1) /\ (i \in 1..n => at[i] \in 1..len)
  <2> DEFINE T == {i \in 0..n : \A j \in 1..(i + 1) : at[j] >= 1 /\ (j <= i => at[j] < at[i + 1])}
  <2>1. 0 \in T
    <3>1. at[1] >= 1
      <4>1. at[1] = 2 \/ at[1] = 1
        BY <1>1d, Zenon
      <4> QED BY <4>1
    <3>2. PICK z \in Nat : z = 0
      OBVIOUS
    <3>3. z \in 0..n /\ z + 1 = 1
      BY <1>1a, <1>1b, <1>1c, <3>2
    <3>4. \A j \in 1..(z + 1) : j = 1 /\ ~ (j <= z)
      BY <3>2
    <3>5. z \in T
      BY <3>1, <3>3, <3>4
    <3> QED BY <3>2, <3>5
  <2>2. ASSUME NEW i \in 1..n, i - 1 \in T PROVE i \in T
    <3>1. i \in 0..n /\ (i - 1) + 1 = i /\ at[i] < at[i + 1] /\ i + 1 \in 1..(n + 1)
      BY <1>1a, <1>1b, <1>1c
    <3>2. \A j \in 1..i : at[j] >= 1 /\ (j <= i - 1 => at[j] < at[i])
      BY <2>2, <3>1
    <3>3. \A j \in 1..(n + 1) : at[j] \in Int
      BY <1>1a, <1>1b, <1>1c
    <3>4. ASSUME NEW j \in 1..(i + 1) PROVE at[j] >= 1 /\ (j <= i => at[j] < at[i + 1])
      <4>1. CASE j = i + 1
        <5>0. i \in 1..i /\ i \in 1..(n + 1)
          BY <3>1, <1>1b
        <5>1. at[i] >= 1 /\ at[i] \in Int /\ at[i + 1] \in Int
          BY <5>0, <3>1, <3>2, <3>3
        <5> QED BY <4>1, <3>1, <5>1
      <4>2. CASE j = i
        BY <4>2, <3>1, <3>2
      <4>3. CASE j < i
        <5>0. j \in 1..i /\ j <= i - 1 /\ i \in 1..(n + 1) /\ j \in 1..(n + 1)
          BY <4>3, <3>1, <1>1b
        <5>1. at[j] < at[i] /\ at[j] >= 1 /\ at[i] \in Int /\ at[i + 1] \in Int /\ at[j] \in Int
          BY <5>0, <3>1, <3>2, <3>3
        <5> QED BY <5>1, <3>1
      <4> QED BY <4>1, <4>2, <4>3
    <3> QED BY <3>1, <3>4
  <2> HIDE DEF T
  <2>3. \A i \in 0..n : i \in T
    BY <1>1a, <1>1b, <1>1c, <2>1, <2>2, Induction
  <2>4. n \in T
    BY <1>1a, <1>1b, <1>1c, <2>3
  <2>5. \A j \in 1..(n + 1) : at[j] >= 1 /\ (j <= n => at[j] < at[n + 1])
    BY <2>4 DEF T
  <2> QED BY <2>5, <1>1a, <1>1b, <1>1c, <1>8
<1>11. \A i \in 1..(n + 1) : IsStart(w[nt[i]]) /\ Describes(w, nt[i] + 1, nt[i + 1] - 1, ps[i])
  <2> SUFFICES ASSUME NEW i \in 1..(n + 1)
               PROVE  IsStart(w[nt[i]]) /\ Describes(w, nt[i] + 1, nt[i + 1] - 1, ps[i])
    OBVIOUS
  <2>1. CASE i = n + 1
    <3>1. nt[i] = len + 1 /\ nt[i + 1] = len + m + 1
      <4>1. i + 1 = n + 2
        BY <2>1, <1>1a, <1>1b, <1>1c
      <4> QED BY <4>1, <2>1, <1>7, <1>8
    <3>2. w[len + 1] = b[1]
      <4>1. 1 \in 1..m /\ 1 + len = len + 1
        OBVIOUS
      <4> QED BY <4>1, <1>6
    <3>3. Describes(w, 2 + len, m + len, ps[n + 1])
      <4>1. \A j \in 2..m : w[j + len] = b[j]
        BY <1>6
      <4>2. Describes(b, 2, m, ps[n + 1])
        BY <1>2
      <4> QED BY <4>1, <4>2, DescribesMoved
    <3>4. nt[i] + 1 = 2 + len /\ nt[i + 1] - 1 = m + len
      BY <3>1
    <3> QED BY <2>1, <3>1, <3>2, <3>3, <3>4
  <2>2. CASE i # n + 1
    <3>1. i \in 1..n /\ i + 1 \in 1..(n + 1)
      BY <2>2, <1>1a, <1>1b, <1>1c
    <3>2. nt[i] = at[i] /\ nt[i + 1] = at[i + 1] /\ at[i] \in 1..len /\ at[i + 1] \in 1..(len + 1)
      BY <3>1, <1>7, <1>10
    <3>3. IsStart(w[at[i]])
      BY <3>1, <3>2, <1>1e, <1>5
    <3> DEFINE lo == at[i] + 1
               hi == at[i + 1] - 1
    <3>4. lo \in Nat /\ hi \in Nat /\ lo + 0 = lo /\ hi + 0 = hi /\ hi <= len /\ lo >= 1
      BY <3>2
    <3>5. \A j \in lo..hi : w[j] = ls[j]
      BY <3>4, <1>5
    <3> HIDE DEF lo, hi
    <3>6. Describes(w, lo + 0, hi + 0, ps[i])
      <4>1. \A j \in lo..hi : w[j + 0] = ls[j]
        <5>1. \A j \in lo..hi : j + 0 = j
          BY <3>4
        <5> QED BY <5>1, <3>5
      <4>2. Describes(ls, lo, hi, ps[i])
        BY <3>1, <1>1e DEF lo, hi
      <4>3. PICK z \in Nat : z = 0
        OBVIOUS
      <4>4. Describes(w, lo + z, hi + z, ps[i])
        BY <4>1, <4>2, <4>3, <3>4, DescribesMoved
      <4> QED BY <4>3, <4>4
    <3>7. Describes(w, lo, hi, ps[i])
      BY <3>4, <3>6
    <3> QED BY <3>2, <3>3, <3>7 DEF lo, hi
  <2> QED BY <2>1, <2>2
<1>12. \/ nt[1] = 2 /\ w[1].key = "local_name" /\ w[1].val = name
       \/ nt[1] = 1 /\ name = "This computer"
  <2>1. nt[1] = at[1]
    BY <1>7, <1>8
  <2>2. CASE at[1] = 2
    <3>1. at[1] <= len + 1
      BY <1>8, <1>10
    <3>2. w[1] = ls[1]
      BY <2>2, <3>1, <1>5
    <3> QED BY <2>1, <2>2, <3>2, <1>1d
  <2>3. CASE at[1] = 1
    <3>1. at[1] # 2
      BY <2>3
    <3> QED BY <2>1, <2>3, <3>1, <1>1d, Zenon
  <2> QED BY <2>2, <2>3, <1>1d
<1>13. (n + 1) + 1 = n + 2 /\ n + 1 \in Nat
  BY <1>1a, <1>1b, <1>1c
<1>14. Written(w, name, ps, n + 1, nt)
  BY <1>2, <1>5, <1>7, <1>9, <1>11, <1>12, <1>13 DEF Written
<1> QED BY <1>3, <1>14

\* What Render goes through, peer by peer.
RendersTo(f, c) ==
  /\ f \in [0..Len(c.peers) -> Seq(Lines)] /\ f[0] = <<Line("local_name", c.name)>>
  /\ \A i \in 1..Len(c.peers) : f[i] = f[i - 1] \o PeerLines(c.peers[i])

\* The text of a configuration is made peer by peer, from its name.
LEMMA RenderFold ==
  ASSUME NEW c \in Configs
  PROVE  \E f : RendersTo(f, c) /\ Render(c) = f[Len(c.peers)]
<1>0. c.name \in Names /\ c.peers \in Seq(PeerRecs)
  BY DEF Configs
<1>00. PICK n \in Nat : n = Len(c.peers) /\ \A i \in 1..n : c.peers[i] \in PeerRecs
  BY <1>0
<1>01. PICK h \in Seq(Lines) : h = <<Line("local_name", c.name)>>
  <2>1. Line("local_name", c.name) \in Lines
    BY <1>0 DEF Line, Lines, Keys, HeaderKeys, Vals
  <2>2. \A x \in Lines : <<x>> \in Seq(Lines)
    OBVIOUS
  <2> QED BY <2>1, <2>2
<1> DEFINE Is(f) == f = [i \in 0..n |-> IF i = 0 THEN h
                                         ELSE f[i - 1] \o PeerLines(c.peers[i])]
           step == [x \in (1..n) \X Seq(Lines) |-> x[2] \o PeerLines(c.peers[x[1]])]
<1>1. Render(c) = (CHOOSE f : Is(f))[n]
  BY <1>00, <1>01 DEF Render
<1>2. \A i \in 1..n, q \in Seq(Lines) :
        step[<<i, q>>] = q \o PeerLines(c.peers[i]) /\ q \o PeerLines(c.peers[i]) \in Seq(Lines)
  <2> SUFFICES ASSUME NEW i \in 1..n, NEW q \in Seq(Lines)
      PROVE  step[<<i, q>>] = q \o PeerLines(c.peers[i])
             /\ q \o PeerLines(c.peers[i]) \in Seq(Lines)
    OBVIOUS
  <2>1. PeerLines(c.peers[i]) \in Seq(Lines)
    BY <1>00, PeerLinesAre
  <2>2. \A b \in Seq(Lines) : q \o b \in Seq(Lines)
    OBVIOUS
  <2> QED BY <2>1, <2>2
<1>3. step \in [(1..n) \X Seq(Lines) -> Seq(Lines)]
  <2>1. \A x \in (1..n) \X Seq(Lines) : x[2] \o PeerLines(c.peers[x[1]]) \in Seq(Lines)
    BY <1>2
  <2> QED BY <2>1
<1> HIDE DEF step
<1>4. PICK f : Iterates(f, n, Seq(Lines), h, step)
  BY <1>3, Iterate
<1>5. f \in [0..n -> Seq(Lines)] /\ f[0] = h /\ \A i \in 1..n : f[i] = step[<<i, f[i - 1]>>]
  BY <1>4 DEF Iterates
<1>6. \A i \in 1..n : f[i] = f[i - 1] \o PeerLines(c.peers[i])
  <2> SUFFICES ASSUME NEW i \in 1..n PROVE f[i] = f[i - 1] \o PeerLines(c.peers[i])
    OBVIOUS
  <2>1. f[i - 1] \in Seq(Lines)
    BY <1>5
  <2> QED BY <2>1, <1>2, <1>5
<1>7. Is(f)
  <2>1. f = [i \in 0..n |-> f[i]]
    BY <1>5
  <2>2. \A i \in 0..n : f[i] = IF i = 0 THEN h ELSE f[i - 1] \o PeerLines(c.peers[i])
    <3>1. \A i \in 0..n : i = 0 \/ i \in 1..n
      OBVIOUS
    <3> QED BY <1>5, <1>6, <3>1, Zenon
  <2> QED BY <2>1, <2>2
<1> DEFINE lines == CHOOSE g : Is(g)
<1>8. Is(lines)
  <2> HIDE DEF Is
  <2> QED BY <1>7
<1>9. Render(c) = lines[n]
  BY <1>1
<1> HIDE DEF lines
<1>10. lines[0] = h /\ \A i \in 1..n : lines[i] = lines[i - 1] \o PeerLines(c.peers[i])
  <2>1. \A i \in 0..n : lines[i] = IF i = 0 THEN h ELSE lines[i - 1] \o PeerLines(c.peers[i])
    BY <1>8, Zenon
  <2>2. 0 \in 0..n /\ \A i \in 1..n : i \in 0..n /\ i # 0
    OBVIOUS
  <2> QED BY <2>1, <2>2, Zenon
<1>11. \A i \in 0..n : lines[i] \in Seq(Lines)
  <2> DEFINE T == {i \in 0..n : lines[i] \in Seq(Lines)}
  <2>1. 0 \in T
    <3>1. PICK z \in 0..n : z = 0
      OBVIOUS
    <3> QED BY <1>10, <3>1
  <2>2. ASSUME NEW i \in 1..n, i - 1 \in T PROVE i \in T
    <3>1. lines[i - 1] \in Seq(Lines) /\ i \in 0..n
      BY <2>2
    <3> QED BY <3>1, <1>2, <1>10
  <2> HIDE DEF T
  <2>3. \A i \in 0..n : i \in T
    BY <2>1, <2>2, Induction
  <2> QED BY <2>3 DEF T
<1>12. lines \in [0..n -> Seq(Lines)]
  <2>1. lines = [i \in 0..n |-> lines[i]]
    BY <1>8
  <2> QED BY <1>11, <2>1
<1>13. RendersTo(lines, c)
  BY <1>00, <1>01, <1>10, <1>12 DEF RendersTo
<1> QED BY <1>00, <1>9, <1>13

\* A saved file is written as WrittenMore says, peer after peer.
LEMMA RenderWritten ==
  ASSUME NEW c \in Configs
  PROVE  \E at : Written(Render(c), c.name, c.peers, Len(c.peers), at)
<1>0. c.name \in Names /\ c.peers \in Seq(PeerRecs)
  BY DEF Configs
<1>1. PICK f : RendersTo(f, c) /\ Render(c) = f[Len(c.peers)]
  BY RenderFold
<1>2. PICK n \in Nat : n = Len(c.peers) /\ \A i \in 1..n : c.peers[i] \in PeerRecs
  BY <1>0
<1>3. /\ f[0] = <<Line("local_name", c.name)>>
      /\ \A i \in 1..n : f[i] = f[i - 1] \o PeerLines(c.peers[i])
  BY <1>1, <1>2 DEF RendersTo
<1> DEFINE W(i, at) == Written(f[i], c.name, c.peers, i, at)
           T == {i \in 0..n : \E at : W(i, at)}
<1>4. 0 \in T
  <2>1. PICK z \in 0..n : z = 0
    OBVIOUS
  <2>2. \E at : W(z, at)
    BY <1>0, <1>3, <2>1, WrittenHeader
  <2> HIDE DEF W
  <2> QED BY <2>1, <2>2
<1>5. ASSUME NEW i \in 1..n, i - 1 \in T PROVE i \in T
  <2>1. PICK at : Written(f[i - 1], c.name, c.peers, i - 1, at)
    BY <1>5
  <2>2. PICK b \in Seq(Lines) : b = PeerLines(c.peers[i])
    BY <1>2, PeerLinesAre
  <2>3. Len(b) \in Nat /\ Len(b) >= 5 /\ IsStart(b[1]) /\ Describes(b, 2, Len(b), c.peers[i])
    BY <1>2, <2>2, PeerLinesAre
  <2>4. (i - 1) + 1 = i /\ Len(b) \in Nat \ {0} /\ i \in 0..n
    BY <2>3
  <2>5. Describes(b, 2, Len(b), c.peers[(i - 1) + 1])
    BY <2>3, <2>4
  <2>6. PICK nt : Written(f[i - 1] \o b, c.name, c.peers, (i - 1) + 1, nt)
    BY <2>1, <2>3, <2>4, <2>5, WrittenMore
  <2>7. W(i, nt)
    BY <1>3, <2>2, <2>4, <2>6
  <2> HIDE DEF W
  <2> QED BY <2>4, <2>7
<1> HIDE DEF T
<1>6. n \in T
  BY <1>4, <1>5, Induction
<1> QED BY <1>1, <1>2, <1>6 DEF T

-----------------------------------------------------------------------------
(* Loading what was written                                                *)

\* The lines give the field the value v: some line, or the default of none.
Gives(ls, sec, key, default, v) ==
  /\ \A j \in sec : ls[j].key = key => ls[j].val = v
  /\ (\A j \in sec : ls[j].key # key) => v = default

\* A field has the value that the lines give it.
LEMMA FieldIs ==
  ASSUME NEW ls, NEW sec, NEW key, NEW default, NEW v, Gives(ls, sec, key, default, v)
  PROVE  Field(ls, sec, key, default) = v
<1>1. CASE \E j \in sec : ls[j].key = key
  <2>1. (CHOOSE j \in sec : ls[j].key = key) \in {j \in sec : ls[j].key = key}
    BY <1>1
  <2> QED BY <1>1, <2>1 DEF Field, Gives
<1>2. CASE ~ \E j \in sec : ls[j].key = key
  BY <1>2 DEF Field, Gives
<1> QED BY <1>1, <1>2

\* finish takes a peer's lines for the peer they describe (src/config.rs:385).
LEMMA DescribesFinish ==
  ASSUME NEW ls, NEW lo \in Nat, NEW hi \in Nat, NEW p \in PeerRecs, Describes(ls, lo, hi, p)
  PROVE  /\ ValidSection(ls, lo..hi, PeerKeys)
         /\ \A key \in RequiredKeys : \E j \in lo..hi : ls[j].key = key
         /\ Field(ls, lo..hi, "id", 0) = p.id
         /\ Finish(ls, lo..hi) = p
<1> DEFINE sec == lo..hi
<1>1. /\ \A j \in sec : ls[j].key \in PeerKeys
      /\ \A j, k \in sec : ls[j].key = ls[k].key => j = k
      /\ \A key \in RequiredKeys : \E j \in sec : ls[j].key = key
  BY DEF Describes
<1>2. /\ \A j \in sec : ls[j].key = "id" => ls[j].val = p.id
      /\ \A j \in sec : ls[j].key = "client_endpoint" => ls[j].val = p.at
      /\ \A j \in sec : ls[j].key = "placement" => ls[j].val = p.side
      /\ \A j \in sec : ls[j].key = "persistent_permissions" => ls[j].val = p.keep
      /\ \A j \in sec : ls[j].key = "capture_restore_token" => ls[j].val = p.capture
      /\ \A j \in sec : ls[j].key = "remote_restore_token" => ls[j].val = p.remote
      /\ (\A j \in sec : ls[j].key # "persistent_permissions") => p.keep = FALSE
      /\ (\A j \in sec : ls[j].key # "capture_restore_token") => p.capture = 0
      /\ (\A j \in sec : ls[j].key # "remote_restore_token") => p.remote = 0
  BY DEF Describes
<1> HIDE DEF sec
<1>3. \A key \in {"id", "client_endpoint", "placement"} : ~ \A j \in sec : ls[j].key # key
  BY <1>1 DEF RequiredKeys
<1>4. Field(ls, sec, "id", 0) = p.id
  <2>1. Gives(ls, sec, "id", 0, p.id)
    BY <1>2, <1>3, Zenon DEF Gives
  <2> QED BY <2>1, FieldIs, Zenon
<1>5. Field(ls, sec, "client_endpoint", "none") = p.at
  <2>1. Gives(ls, sec, "client_endpoint", "none", p.at)
    BY <1>2, <1>3, Zenon DEF Gives
  <2> QED BY <2>1, FieldIs, Zenon
<1>6. Field(ls, sec, "placement", "left") = p.side
  <2>1. Gives(ls, sec, "placement", "left", p.side)
    BY <1>2, <1>3, Zenon DEF Gives
  <2> QED BY <2>1, FieldIs, Zenon
<1>7. Field(ls, sec, "persistent_permissions", FALSE) = p.keep
  <2>1. Gives(ls, sec, "persistent_permissions", FALSE, p.keep)
    BY <1>2, <1>3, Zenon DEF Gives
  <2> QED BY <2>1, FieldIs, Zenon
<1>8. Field(ls, sec, "capture_restore_token", 0) = p.capture
  <2>1. Gives(ls, sec, "capture_restore_token", 0, p.capture)
    BY <1>2, <1>3, Zenon DEF Gives
  <2> QED BY <2>1, FieldIs, Zenon
<1>9. Field(ls, sec, "remote_restore_token", 0) = p.remote
  <2>1. Gives(ls, sec, "remote_restore_token", 0, p.remote)
    BY <1>2, <1>3, Zenon DEF Gives
  <2> QED BY <2>1, FieldIs, Zenon
<1>10. p = [id |-> p.id, at |-> p.at, side |-> p.side, keep |-> p.keep,
            capture |-> p.capture, remote |-> p.remote]
  BY DEF PeerRecs
<1>11. Finish(ls, sec) = p
  BY <1>4, <1>5, <1>6, <1>7, <1>8, <1>9, <1>10, Zenon DEF Finish
<1>12. ValidSection(ls, sec, PeerKeys)
  BY <1>1, Zenon DEF ValidSection
<1> QED BY <1>1, <1>4, <1>11, <1>12 DEF sec

\* Positions that increase from each to the next increase.
LEMMA Increasing ==
  ASSUME NEW n \in Nat, NEW at \in [1..(n + 1) -> Nat], \A i \in 1..n : at[i] < at[i + 1]
  PROVE  \A i, k \in 1..(n + 1) : i < k => at[i] < at[k]
<1> DEFINE T == {k \in 0..n : \A i \in 1..k : at[i] < at[k + 1]}
<1>1. 0 \in T
  <2>1. PICK z \in 0..n : z = 0
    OBVIOUS
  <2>2. z \in T
    BY <2>1
  <2> QED BY <2>1, <2>2
<1>2. ASSUME NEW k \in 1..n, k - 1 \in T PROVE k \in T
  <2>1. k \in 0..n /\ k \in 1..(n + 1) /\ k + 1 \in 1..(n + 1) /\ (k - 1) + 1 = k
    OBVIOUS
  <2>2. \A i \in 1..(k - 1) : at[i] < at[k]
    BY <1>2, <2>1
  <2>3. at[k] < at[k + 1]
    OBVIOUS
  <2>4. ASSUME NEW i \in 1..k PROVE at[i] < at[k + 1]
    <3>1. i \in 1..(n + 1)
      BY <2>1
    <3>2. at[i] \in Nat /\ at[k] \in Nat /\ at[k + 1] \in Nat
      BY <2>1, <3>1
    <3>3. CASE i = k
      BY <3>3, <2>3
    <3>4. CASE i # k
      <4>1. i \in 1..(k - 1)
        BY <3>4
      <4> QED BY <4>1, <2>2, <2>3, <3>2
    <3> QED BY <3>3, <3>4
  <2> QED BY <2>1, <2>4
<1>3. \A k \in 0..n : k \in T
  <2> HIDE DEF T
  <2> QED BY <1>1, <1>2, Induction
<1>4. ASSUME NEW i \in 1..(n + 1), NEW k \in 1..(n + 1), i < k PROVE at[i] < at[k]
  <2>1. k - 1 \in 0..n /\ i \in 1..(k - 1) /\ (k - 1) + 1 = k
    BY <1>4
  <2>2. k - 1 \in T
    BY <1>3, <2>1
  <2>3. at[i] < at[(k - 1) + 1]
    BY <2>1, <2>2
  <2> QED BY <2>1, <2>3
<1> QED BY <1>4

\* Loading a file that was written so gives the configuration back (render and
\* parse, src/config.rs:299, 327).
LEMMA WrittenLoads ==
  ASSUME NEW ls, NEW c, Config(c), NEW at,
         Written(ls, c.name, c.peers, Len(c.peers), at)
  PROVE  Loads(ls) /\ Parse(ls) = c
<1>0. c.name \in Names /\ c.peers \in Seq(PeerRecs) /\ c = [name |-> c.name, peers |-> c.peers]
  BY DEF Config, Configs
<1>00. PICK n \in Nat : /\ n = Len(c.peers) /\ DOMAIN c.peers = 1..n
                        /\ \A i \in 1..n : c.peers[i] \in PeerRecs
  BY <1>0
<1>01. \A i, k \in 1..n : c.peers[i].id = c.peers[k].id => i = k
  BY <1>00 DEF Config
<1> DEFINE ps == c.peers
           name == c.name
<1>w. Written(ls, name, ps, n, at)
  BY <1>00
<1> HIDE DEF ps, name
<1>1a. ls \in Seq(Lines) /\ Len(ls) \in Nat /\ DOMAIN ls = 1..Len(ls)
  <2>1. ls \in Seq(Lines)
    BY <1>w DEF Written
  <2> QED BY <2>1
<1>1b. at \in [1..(n + 1) -> Nat]
  BY <1>w DEF Written
<1>1c. at[n + 1] = Len(ls) + 1 /\ \A i \in 1..n : at[i] < at[i + 1]
  BY <1>w DEF Written
<1>1d. \/ at[1] = 2 /\ ls[1].key = "local_name" /\ ls[1].val = name
       \/ at[1] = 1 /\ name = "This computer"
  BY <1>w DEF Written
<1>1e. \A i \in 1..n : IsStart(ls[at[i]]) /\ Describes(ls, at[i] + 1, at[i + 1] - 1, ps[i])
  BY <1>w DEF Written
<1>2. \A i, k \in 1..(n + 1) : i < k => at[i] < at[k]
  BY <1>1b, <1>1c, Increasing
<1>3. at[1] \in {1, 2}
  BY <1>1d, Zenon
<1>4. \A i \in 1..(n + 1) : /\ at[i] \in Nat /\ at[i] >= at[1] /\ at[i] <= Len(ls) + 1
                            /\ i \in 1..n => at[i] <= Len(ls)
  <2> SUFFICES ASSUME NEW i \in 1..(n + 1)
               PROVE  /\ at[i] \in Nat /\ at[i] >= at[1] /\ at[i] <= Len(ls) + 1
                      /\ i \in 1..n => at[i] <= Len(ls)
    OBVIOUS
  <2>1. 1 \in 1..(n + 1) /\ n + 1 \in 1..(n + 1) /\ at[1] \in Nat /\ at[i] \in Nat
        /\ at[n + 1] \in Nat
    BY <1>1b
  <2>2. i = 1 \/ at[1] < at[i]
    BY <2>1, <1>2
  <2>3. i = n + 1 \/ at[i] < at[n + 1]
    BY <2>1, <1>2
  <2>4. i \in 1..n => i # n + 1
    OBVIOUS
  <2> QED BY <2>1, <2>2, <2>3, <2>4, <1>1a, <1>1c
<1>5. \A j \in at[1]..Len(ls) : \E i \in 1..n : at[i] <= j /\ j < at[i + 1]
  <2> DEFINE T == {k \in 0..n : \A j \in at[1]..(at[k + 1] - 1) :
                      \E i \in 1..n : at[i] <= j /\ j < at[i + 1]}
  <2>1. 0 \in T
    <3>1. PICK z \in 0..n : z = 0
      OBVIOUS
    <3>2. at[z + 1] = at[1] /\ at[1] \in Nat
      BY <3>1, <1>3
    <3>3. at[1]..(at[z + 1] - 1) = {}
      BY <3>2
    <3>4. z \in T
      BY <3>3
    <3> QED BY <3>1, <3>4
  <2>2. ASSUME NEW k \in 1..n, k - 1 \in T PROVE k \in T
    <3>1. (k - 1) + 1 = k /\ k \in 0..n /\ k \in 1..(n + 1) /\ k + 1 \in 1..(n + 1)
      OBVIOUS
    <3>2. \A j \in at[1]..(at[k] - 1) : \E i \in 1..n : at[i] <= j /\ j < at[i + 1]
      BY <2>2, <3>1
    <3>3. ASSUME NEW j \in at[1]..(at[k + 1] - 1)
          PROVE  \E i \in 1..n : at[i] <= j /\ j < at[i + 1]
      <4>1. at[1] \in Nat /\ at[k] \in Nat /\ at[k + 1] \in Nat /\ j \in Int
        BY <3>1, <1>3, <1>4
      <4>2. CASE j < at[k]
        <5>1. j \in at[1]..(at[k] - 1)
          BY <4>1, <4>2
        <5> QED BY <5>1, <3>2
      <4>3. CASE j >= at[k]
        <5>1. at[k] <= j /\ j < at[k + 1]
          BY <4>1, <4>3
        <5> QED BY <5>1
      <4> QED BY <4>1, <4>2, <4>3
    <3> QED BY <3>1, <3>3
  <2> HIDE DEF T
  <2>3. n \in T
    <3>1. \A k \in 0..n : k \in T
      BY <2>1, <2>2, Induction
    <3> QED BY <3>1
  <2>4. at[n + 1] - 1 = Len(ls)
    BY <1>1a, <1>1c
  <2> QED BY <2>3, <2>4 DEF T
<1> DEFINE lo(i) == at[i] + 1
           hi(i) == at[i + 1] - 1
<1>6. \A i \in 1..n : /\ lo(i) \in Nat /\ hi(i) \in Nat
                      /\ at[i] \in Nat /\ at[i + 1] \in Nat
                      /\ at[i] >= 1 /\ at[i] < at[i + 1] /\ at[i + 1] <= Len(ls) + 1
  <2> SUFFICES ASSUME NEW i \in 1..n
               PROVE  /\ lo(i) \in Nat /\ hi(i) \in Nat
                      /\ at[i] \in Nat /\ at[i + 1] \in Nat
                      /\ at[i] >= 1 /\ at[i] < at[i + 1] /\ at[i + 1] <= Len(ls) + 1
    OBVIOUS
  <2>1. i \in 1..(n + 1) /\ i + 1 \in 1..(n + 1)
    OBVIOUS
  <2> QED BY <2>1, <1>1c, <1>3, <1>4
<1>7. \A i \in 1..n : \A j \in lo(i)..hi(i) : ~IsStart(ls[j])
  <2> SUFFICES ASSUME NEW i \in 1..n, NEW j \in lo(i)..hi(i) PROVE ~IsStart(ls[j])
    OBVIOUS
  <2>1. Describes(ls, lo(i), hi(i), ps[i])
    BY <1>1e
  <2>2. ls[j].key \in PeerKeys
    BY <2>1 DEF Describes
  <2> QED BY <2>2 DEF PeerKeys, RequiredKeys, IsStart
<1>8. \A i \in 1..n : Section(ls, at[i]) = lo(i)..hi(i)
  <2> SUFFICES ASSUME NEW i \in 1..n PROVE Section(ls, at[i]) = lo(i)..hi(i)
    OBVIOUS
  <2>1. ASSUME NEW j \in lo(i)..hi(i) PROVE j \in Section(ls, at[i])
    <3>1. j \in (at[i] + 1)..Len(ls)
      BY <1>1a, <1>6
    <3>2. \A k \in (at[i] + 1)..j : k \in lo(i)..hi(i)
      BY <1>6
    <3> QED BY <3>1, <3>2, <1>7 DEF Section
  <2>2. ASSUME NEW j \in Section(ls, at[i]) PROVE j \in lo(i)..hi(i)
    <3>1. j \in (at[i] + 1)..Len(ls) /\ \A k \in (at[i] + 1)..j : ~IsStart(ls[k])
      BY <2>2 DEF Section
    <3>2. CASE j < at[i + 1]
      BY <3>1, <3>2, <1>6, <1>1a
    <3>3. CASE j >= at[i + 1]
      <4>1. at[i + 1] \in (at[i] + 1)..j
        BY <3>1, <3>3, <1>6
      <4>2. i + 1 \in 1..n
        <5>1. CASE i = n
          <6>1. at[i + 1] = Len(ls) + 1
            BY <5>1, <1>1c
          <6> QED BY <6>1, <3>1, <3>3, <1>1a
        <5> QED BY <5>1
      <4> QED BY <4>1, <4>2, <3>1, <1>1e
    <3> QED BY <3>1, <3>2, <3>3, <1>6
  <2> QED BY <2>1, <2>2
<1>9. {i \in DOMAIN ls : IsStart(ls[i])} = {at[i] : i \in 1..n}
  <2>1. ASSUME NEW i \in 1..n PROVE at[i] \in DOMAIN ls /\ IsStart(ls[at[i]])
    BY <1>1a, <1>1e, <1>6
  <2>2. ASSUME NEW j \in DOMAIN ls, IsStart(ls[j]) PROVE \E i \in 1..n : at[i] = j
    <3>1. j \in 1..Len(ls) /\ at[1] \in Nat
      BY <1>1a, <1>3
    <3>2. j >= at[1]
      <4>1. CASE j < at[1]
        <5>1. at[1] = 2 /\ j = 1
          BY <4>1, <3>1, <1>3
        <5>2. at[1] # 1
          BY <5>1
        <5>3. ls[1].key = "local_name"
          BY <5>2, <1>1d, Zenon
        <5> QED BY <5>1, <5>3, <2>2 DEF IsStart
      <4> QED BY <4>1, <3>1
    <3>3. PICK i \in 1..n : at[i] <= j /\ j < at[i + 1]
      BY <1>5, <3>1, <3>2, <1>1a
    <3>4. j \notin lo(i)..hi(i)
      BY <2>2, <1>7
    <3>5. at[i] = j
      BY <3>1, <3>3, <3>4, <1>6
    <3> QED BY <3>5
  <2> QED BY <2>1, <2>2
<1>10. \A i \in 1..n : /\ ValidSection(ls, Section(ls, at[i]), PeerKeys)
                       /\ \A key \in RequiredKeys :
                            \E j \in Section(ls, at[i]) : ls[j].key = key
                       /\ Field(ls, Section(ls, at[i]), "id", 0) = ps[i].id
                       /\ Finish(ls, Section(ls, at[i])) = ps[i]
  <2> SUFFICES ASSUME NEW i \in 1..n
               PROVE  /\ ValidSection(ls, Section(ls, at[i]), PeerKeys)
                      /\ \A key \in RequiredKeys :
                           \E j \in Section(ls, at[i]) : ls[j].key = key
                      /\ Field(ls, Section(ls, at[i]), "id", 0) = ps[i].id
                      /\ Finish(ls, Section(ls, at[i])) = ps[i]
    BY Zenon
  <2>0. Section(ls, at[i]) = lo(i)..hi(i)
    BY <1>8
  <2>1. Describes(ls, lo(i), hi(i), ps[i]) /\ ps[i] \in PeerRecs
    BY <1>1e, <1>00 DEF ps
  <2>2. PICK l \in Nat, h \in Nat : l = lo(i) /\ h = hi(i)
    BY <1>6
  <2> HIDE DEF lo, hi
  <2>3. /\ ValidSection(ls, l..h, PeerKeys)
        /\ \A key \in RequiredKeys : \E j \in l..h : ls[j].key = key
        /\ Field(ls, l..h, "id", 0) = ps[i].id
        /\ Finish(ls, l..h) = ps[i]
    BY <2>1, <2>2, DescribesFinish, Zenon
  <2> QED BY <2>0, <2>2, <2>3, Zenon
<1>11. Section(ls, 0) = 1..(at[1] - 1)
  <2>1. ASSUME NEW j \in 1..(at[1] - 1) PROVE j \in Section(ls, 0)
    <3>1. at[1] = 2 /\ j = 1
      BY <1>3
    <3>2. at[1] # 1 /\ at[1] <= Len(ls) + 1
      <4>1. 1 \in 1..(n + 1)
        OBVIOUS
      <4> QED BY <3>1, <4>1, <1>4
    <3>3. ls[1].key = "local_name"
      BY <3>2, <1>1d, Zenon
    <3>4. ~IsStart(ls[1])
      BY <3>3 DEF IsStart
    <3>5. j \in (0 + 1)..Len(ls) /\ \A k \in (0 + 1)..j : k = 1
      BY <3>1, <3>2, <1>1a
    <3> QED BY <3>4, <3>5 DEF Section
  <2>2. ASSUME NEW j \in Section(ls, 0) PROVE j \in 1..(at[1] - 1)
    <3>1. j \in 1..Len(ls) /\ \A k \in 1..j : ~IsStart(ls[k])
      BY <2>2 DEF Section
    <3>2. at[1] \in Nat /\ at[1] >= 1
      BY <1>3
    <3>3. CASE j < at[1]
      BY <3>1, <3>2, <3>3, <1>1a
    <3>4. CASE j >= at[1]
      <4>1. at[1] \in 1..j
        BY <3>1, <3>2, <3>4
      <4>2. 1 \in 1..n
        <5>1. CASE n = 0
          <6>1. at[1] = Len(ls) + 1
            BY <5>1, <1>1c
          <6> QED BY <6>1, <3>1, <3>4, <1>1a
        <5> QED BY <5>1
      <4> QED BY <4>1, <4>2, <3>1, <1>1e
    <3> QED BY <3>1, <3>2, <3>3, <3>4
  <2> QED BY <2>1, <2>2
<1>12. /\ ValidSection(ls, Section(ls, 0), HeaderKeys)
       /\ Field(ls, Section(ls, 0), "local_name", "This computer") = name
  <2> DEFINE sec == 1..(at[1] - 1)
  <2>1. \A j \in sec : j = 1
    BY <1>3
  <2>2. CASE at[1] = 2
    <3>1. at[1] # 1
      BY <2>2
    <3>2. ls[1].key = "local_name" /\ ls[1].val = name
      BY <3>1, <1>1d, Zenon
    <3>3. 1 \in sec
      BY <2>2
    <3> HIDE DEF sec
    <3>4. Field(ls, sec, "local_name", "This computer") = name
      <4>1. Gives(ls, sec, "local_name", "This computer", name)
        BY <2>1, <3>2, <3>3, Zenon DEF Gives
      <4> QED BY <4>1, FieldIs, Zenon
    <3>5. ValidSection(ls, sec, HeaderKeys)
      BY <2>1, <3>2 DEF ValidSection, HeaderKeys
    <3> QED BY <3>4, <3>5, <1>11 DEF sec
  <2>3. CASE at[1] = 1
    <3>1. at[1] # 2
      BY <2>3
    <3>2. name = "This computer"
      BY <3>1, <1>1d, Zenon
    <3>3. sec = {}
      BY <2>3
    <3> HIDE DEF sec
    <3>4. Field(ls, sec, "local_name", "This computer") = name
      <4>1. Gives(ls, sec, "local_name", "This computer", name)
        BY <3>2, <3>3, Zenon DEF Gives
      <4> QED BY <4>1, FieldIs, Zenon
    <3>5. ValidSection(ls, sec, HeaderKeys)
      BY <3>3 DEF ValidSection
    <3> QED BY <3>4, <3>5, <1>11 DEF sec
  <2> QED BY <2>2, <2>3, <1>3
<1>13. Loads(ls)
  <2>1. \A i \in DOMAIN ls : IsStart(ls[i]) => \E k \in 1..n : at[k] = i
    BY <1>9
  <2>2. ASSUME NEW i \in DOMAIN ls, IsStart(ls[i])
        PROVE  /\ ValidSection(ls, Section(ls, i), PeerKeys)
               /\ \A key \in RequiredKeys : \E j \in Section(ls, i) : ls[j].key = key
    BY <2>1, <2>2, <1>10
  <2>3. ASSUME NEW i \in DOMAIN ls, IsStart(ls[i]), NEW k \in DOMAIN ls, IsStart(ls[k]),
               Field(ls, Section(ls, i), "id", 0) = Field(ls, Section(ls, k), "id", 0)
        PROVE  i = k
    <3>1. PICK x \in 1..n : at[x] = i
      BY <2>1, <2>3
    <3>2. PICK y \in 1..n : at[y] = k
      BY <2>1, <2>3
    <3>3. ps[x].id = ps[y].id
      BY <3>1, <3>2, <2>3, <1>10
    <3>4. x = y
      BY <3>3, <1>01 DEF ps
    <3> QED BY <3>1, <3>2, <3>4
  <2> QED BY <2>2, <2>3, <1>12 DEF Loads
<1>14. Those([i \in DOMAIN ls |-> i], {i \in DOMAIN ls : IsStart(ls[i])}) = [i \in 1..n |-> at[i]]
  <2>1. PICK s \in Seq(Nat) : s = [i \in DOMAIN ls |-> i]
    <3>1. [i \in DOMAIN ls |-> i] \in Seq(Nat)
      BY <1>1a
    <3> QED BY <3>1
  <2>2. Len(s) = Len(ls) /\ \A i \in 1..Len(ls) : s[i] = i
    BY <1>1a, <2>1
  <2> DEFINE e == [i \in 1..n |-> at[i]]
  <2>3. e \in [1..n -> 1..Len(s)] /\ \A i \in 1..n : e[i] = at[i]
    <3>1. ASSUME NEW i \in 1..n PROVE at[i] \in 1..Len(ls)
      <4>1. at[i] \in Nat /\ at[i] >= 1 /\ at[i + 1] \in Nat /\ at[i] < at[i + 1]
            /\ at[i + 1] <= Len(ls) + 1
        BY <1>6, Zenon
      <4> QED BY <4>1, <1>1a
    <3> QED BY <3>1, <2>2
  <2>4. \A i, k \in 1..n : i < k => e[i] < e[k]
    <3>1. \A i \in 1..n : i \in 1..(n + 1)
      OBVIOUS
    <3> QED BY <3>1, <1>2, <2>3
  <2> HIDE DEF e
  <2>5. Those(s, {e[i] : i \in 1..n}) = [i \in 1..n |-> s[e[i]]]
    BY <2>3, <2>4, ThoseInOrder
  <2>6. {e[i] : i \in 1..n} = {i \in DOMAIN ls : IsStart(ls[i])}
    BY <2>3, <1>9
  <2>7. \A i \in 1..n : s[e[i]] = at[i]
    BY <2>2, <2>3
  <2>8. [i \in 1..n |-> s[e[i]]] = [i \in 1..n |-> at[i]]
    BY <2>7
  <2> QED BY <2>1, <2>5, <2>6, <2>8
<1>15. Parse(ls) = c
  <2> DEFINE pos == Those([i \in DOMAIN ls |-> i], {i \in DOMAIN ls : IsStart(ls[i])})
             peers == [m \in DOMAIN pos |-> Finish(ls, Section(ls, pos[m]))]
  <2>1. Parse(ls) = [name |-> Field(ls, Section(ls, 0), "local_name", "This computer"),
                     peers |-> peers]
    BY DEF Parse
  <2>2. DOMAIN pos = 1..n /\ \A m \in 1..n : pos[m] = at[m]
    BY <1>14
  <2> HIDE DEF pos
  <2>3. DOMAIN peers = 1..n /\ \A m \in 1..n : peers[m] = ps[m]
    BY <2>2, <1>10
  <2>4. peers = [m \in 1..n |-> peers[m]]
    BY <2>3
  <2>5. ps = [m \in 1..n |-> ps[m]]
    BY <1>0, <1>00 DEF ps
  <2> HIDE DEF peers
  <2>6. peers = ps
    BY <2>3, <2>4, <2>5
  <2> QED BY <2>1, <2>6, <1>0, <1>12 DEF ps, name
<1> QED BY <1>13, <1>15

\* What a process has saved, any process loads as it was (src/config.rs:299, 327).
THEOREM SavesLoad ==
  ASSUME NEW c, Config(c)
  PROVE  Loads(Render(c)) /\ Parse(Render(c)) = c
<1>1. c \in Configs
  BY DEF Config
<1>2. PICK at : Written(Render(c), c.name, c.peers, Len(c.peers), at)
  BY <1>1, RenderWritten
<1> QED BY <1>2, WrittenLoads

-----------------------------------------------------------------------------
(* The files there are at the start                                        *)

FirstName == "This computer"
FirstAt == CHOOSE a \in Addresses : TRUE
FirstPeer(m) == Peer(1, FirstAt, IF m = "host" THEN "left" ELSE "right")
First(peers) == [name |-> FirstName, peers |-> peers]

\* The pairing that a machine may start with.
LEMMA FirstPeerIs ==
  ASSUME NEW m \in Machines
  PROVE  /\ FirstPeer(m) \in PeerRecs
         /\ [FirstPeer(m) EXCEPT !.keep = TRUE] \in PeerRecs
         /\ FirstPeer(m).id = 1 /\ FirstPeer(m).at = FirstAt
         /\ FirstPeer(m).side = IF m = "host" THEN "left" ELSE "right"
         /\ FirstPeer(m).capture = 0 /\ FirstPeer(m).remote = 0
         /\ FirstPeer(m).keep = FALSE
<1>1. FirstAt \in Addresses
  BY SetupAssumption DEF FirstAt
<1>2. FirstPeer(m) = [id |-> 1, at |-> FirstAt, side |-> IF m = "host" THEN "left" ELSE "right",
                      keep |-> FALSE, capture |-> 0, remote |-> 0]
  BY DEF FirstPeer, Peer
<1>3. (IF m = "host" THEN "left" ELSE "right") \in Placements
  BY DEF Placements
<1>4. FirstPeer(m) \in PeerRecs
  BY <1>1, <1>2, <1>3 DEF PeerRecs
<1>5. [FirstPeer(m) EXCEPT !.keep = TRUE] \in PeerRecs
  BY <1>4 DEF PeerRecs
<1> QED BY <1>2, <1>4, <1>5

\* A file with the lines of one peer and no name.
LEMMA OnePeerLoads ==
  ASSUME NEW b \in Seq(Lines), Len(b) \in Nat \ {0}, IsStart(b[1]), NEW p \in PeerRecs,
         Describes(b, 2, Len(b), p)
  PROVE  Loads(b) /\ Parse(b) = First(<<p>>) /\ Config(First(<<p>>))
<1> DEFINE ps == <<p>>
           c == First(ps)
<1>1. ps \in Seq(PeerRecs) /\ Len(ps) = 1 /\ ps[1] = p /\ DOMAIN ps = 1..1
  OBVIOUS
<1> HIDE DEF ps
<1>2. c.name = FirstName /\ c.peers = ps /\ c \in Configs
  BY <1>1 DEF First, FirstName, Configs, Names
<1>3. Config(c)
  BY <1>1, <1>2 DEF Config
<1> HIDE DEF c
<1>4. PICK at : at = [i \in 1..1 |-> 1]
  OBVIOUS
<1>50. <<>> \in Seq(Lines)
  OBVIOUS
<1>5. PICK e \in Seq(Lines) : e = <<>>
  BY <1>50, Zenon
<1>6. Len(e) = 0 /\ e \o b = b
  BY <1>5
<1>7. PICK z \in Nat : z = 0
  OBVIOUS
<1>8. Written(e, FirstName, ps, z, at)
  <2>1. at \in [1..(z + 1) -> Nat] /\ at[z + 1] = 1 /\ at[1] = 1 /\ 1..z = {}
    BY <1>4, <1>7
  <2>2. at[z + 1] = Len(e) + 1
    BY <2>1, <1>6
  <2> QED BY <2>1, <2>2, <1>7, Zenon DEF Written, FirstName
<1>9. ps[z + 1] = p /\ z + 1 = 1
  BY <1>1, <1>7
<1>10. Describes(b, 2, Len(b), ps[z + 1])
  BY <1>9
<1>11. \E nt : Written(e \o b, FirstName, ps, z + 1, nt)
  BY <1>8, <1>10, WrittenMore
<1>12. PICK nt : Written(b, c.name, c.peers, Len(c.peers), nt)
  BY <1>1, <1>2, <1>6, <1>9, <1>11
<1>13. Loads(b) /\ Parse(b) = c
  BY <1>3, <1>12, WrittenLoads
<1> QED BY <1>3, <1>13 DEF c, ps

\* The files of Init load: empty ones, those of peer-add, and those of an early
\* preview, whose peer has no persistent permissions (src/config.rs:385-407).
LEMMA FirstFiles ==
  ASSUME NEW m \in Machines
  PROVE  /\ Loads(<<>>) /\ Parse(<<>>) = First(<<>>) /\ Config(First(<<>>))
         /\ Loads(Added(m)) /\ Config(Parse(Added(m)))
         /\ Parse(Added(m)) = First(<<[FirstPeer(m) EXCEPT !.keep = TRUE]>>)
         /\ Loads(Preview(m)) /\ Config(Parse(Preview(m)))
         /\ Parse(Preview(m)) = First(<<FirstPeer(m)>>)
<1>1. Loads(<<>>) /\ Parse(<<>>) = First(<<>>) /\ Config(First(<<>>))
  <2> DEFINE c == First(<<>>)
  <2>0. <<>> \in Seq(PeerRecs) /\ <<>> \in Seq(Lines)
    OBVIOUS
  <2>1. PICK ps \in Seq(PeerRecs) : ps = <<>>
    BY <2>0, Zenon
  <2>2. Len(ps) = 0 /\ DOMAIN ps = {}
    BY <2>1
  <2>3. c = First(ps)
    BY <2>1
  <2> HIDE DEF c
  <2>4. c.name = FirstName /\ c.peers = ps /\ c \in Configs
    BY <2>3 DEF First, FirstName, Configs, Names
  <2>5. Config(c)
    BY <2>2, <2>4 DEF Config
  <2>6. PICK e \in Seq(Lines) : e = <<>>
    BY <2>0, Zenon
  <2>7. PICK z \in Nat : z = 0
    OBVIOUS
  <2>8. PICK at : at = [i \in 1..1 |-> 1]
    OBVIOUS
  <2>9. Written(e, FirstName, ps, z, at)
    <3>1. at \in [1..(z + 1) -> Nat] /\ at[z + 1] = 1 /\ at[1] = 1 /\ 1..z = {}
      BY <2>7, <2>8
    <3>2. at[z + 1] = Len(e) + 1
      BY <3>1, <2>6
    <3> QED BY <3>1, <3>2, <2>7, Zenon DEF Written, FirstName
  <2>10. Written(e, c.name, c.peers, Len(c.peers), at)
    BY <2>2, <2>4, <2>7, <2>9
  <2>11. Loads(e) /\ Parse(e) = c
    BY <2>5, <2>10, WrittenLoads
  <2> QED BY <2>5, <2>6, <2>11 DEF c
<1> DEFINE p == [FirstPeer(m) EXCEPT !.keep = TRUE]
           b == PeerLines(p)
<1>2. /\ p \in PeerRecs /\ p.id = 1 /\ p.at = FirstAt /\ p.keep = TRUE
      /\ p.side = FirstPeer(m).side /\ p.capture = 0 /\ p.remote = 0
      /\ FirstPeer(m) \in PeerRecs /\ FirstPeer(m).id = 1 /\ FirstPeer(m).at = FirstAt
      /\ FirstPeer(m).capture = 0 /\ FirstPeer(m).remote = 0 /\ FirstPeer(m).keep = FALSE
  BY FirstPeerIs DEF PeerRecs
<1>3. Added(m) = b
  BY DEF Added, FirstPeer, FirstAt
<1> HIDE DEF p
<1>4. b \in Seq(Lines) /\ Len(b) \in Nat \ {0} /\ IsStart(b[1]) /\ Describes(b, 2, Len(b), p)
  <2> HIDE DEF b
  <2>1. /\ b \in Seq(Lines) /\ Len(b) \in Nat /\ Len(b) >= 5 /\ IsStart(b[1])
        /\ Describes(b, 2, Len(b), p)
    BY <1>2, PeerLinesAre DEF b
  <2> QED BY <2>1
<1>5. Loads(b) /\ Parse(b) = First(<<p>>) /\ Config(First(<<p>>))
  <2> HIDE DEF b
  <2> QED BY <1>2, <1>4, OnePeerLoads
<1> DEFINE base == <<Line("[[peer]]", "none"), Line("id", p.id), Line("client_endpoint", p.at),
                     Line("placement", p.side), Line("persistent_permissions", p.keep)>>
<1>6. b = base
  <2>1. b = base \o <<>> \o <<>>
    BY <1>2 DEF PeerLines
  <2>2. base \in Seq({base[i] : i \in 1..5})
    OBVIOUS
  <2> HIDE DEF base, b
  <2>3. base \o <<>> = base
    BY <2>2
  <2> QED BY <2>1, <2>3
<1>7. /\ Len(base) = 5
      /\ base[1].key = "[[peer]]"
      /\ base[2].key = "id" /\ base[2].val = p.id
      /\ base[3].key = "client_endpoint" /\ base[3].val = p.at
      /\ base[4].key = "placement" /\ base[4].val = p.side
      /\ base[5].key = "persistent_permissions"
  BY DEF Line
<1> HIDE DEF b, base
<1> DEFINE e == [i \in 1..4 |-> i]
<1>8. e \in [1..4 -> 1..Len(b)] /\ \A i \in 1..4 : e[i] = i
  BY <1>6, <1>7
<1>9. \A i, k \in 1..4 : i < k => e[i] < e[k]
  BY <1>8
<1> HIDE DEF e
<1>10. {e[i] : i \in 1..4} = {i \in DOMAIN b : b[i].key # "persistent_permissions"}
  <2>1. DOMAIN b = 1..5
    <3>1. DOMAIN b = 1..Len(b)
      BY <1>4
    <3> QED BY <3>1, <1>6, <1>7
  <2>2. \A i \in 1..5 : i = 1 \/ i = 2 \/ i = 3 \/ i = 4 \/ i = 5
    OBVIOUS
  <2>3. \A i \in 1..5 : b[i].key # "persistent_permissions" <=> i # 5
    BY <2>2, <1>6, <1>7
  <2>4. \A i \in 1..4 : i \in 1..5 /\ i # 5
    OBVIOUS
  <2>5. \A i \in 1..5 : i # 5 => i \in 1..4
    OBVIOUS
  <2> QED BY <2>1, <2>3, <2>4, <2>5, <1>8
<1>11. Those(b, {e[i] : i \in 1..4}) = [i \in 1..4 |-> b[e[i]]]
  <2>1. PICK k \in Nat : k = 4
    OBVIOUS
  <2>2. Those(b, {e[i] : i \in 1..k}) = [i \in 1..k |-> b[e[i]]]
    <3>1. e \in [1..k -> 1..Len(b)] /\ \A i, l \in 1..k : i < l => e[i] < e[l]
      BY <2>1, <1>8, <1>9
    <3>2. b \in Seq(Lines)
      BY <1>4
    <3> QED BY <3>1, <3>2, ThoseInOrder, Zenon
  <2> QED BY <2>1, <2>2
<1> DEFINE v == [i \in 1..4 |-> b[e[i]]]
<1>12. Preview(m) = v
  BY <1>3, <1>10, <1>11 DEF Preview
<1>13. v \in Seq(Lines) /\ Len(v) = 4 /\ \A i \in 1..4 : v[i] = b[i]
  <2>1. \A i \in 1..4 : b[e[i]] = b[i] /\ b[i] \in Lines
    <3>1. \A i \in 1..4 : i \in 1..Len(b)
      BY <1>6, <1>7
    <3>2. \A i \in 1..Len(b) : b[i] \in Lines
      BY <1>4
    <3> QED BY <3>1, <3>2, <1>8
  <2> QED BY <2>1
<1> HIDE DEF v
<1>14. /\ v[1].key = "[[peer]]"
       /\ v[2].key = "id" /\ v[2].val = p.id
       /\ v[3].key = "client_endpoint" /\ v[3].val = p.at
       /\ v[4].key = "placement" /\ v[4].val = p.side
  BY <1>6, <1>7, <1>13
<1>15. IsStart(v[1]) /\ Describes(v, 2, Len(v), FirstPeer(m))
  <2>1. \A j \in 2..4 : j = 2 \/ j = 3 \/ j = 4
    OBVIOUS
  <2> QED BY <2>1, <1>2, <1>13, <1>14 DEF IsStart, Describes, PeerKeys, RequiredKeys
<1>16. Loads(v) /\ Parse(v) = First(<<FirstPeer(m)>>) /\ Config(First(<<FirstPeer(m)>>))
  <2>1. Len(v) \in Nat \ {0}
    BY <1>13
  <2> QED BY <1>2, <1>13, <1>15, <2>1, OnePeerLoads
<1> QED BY <1>1, <1>3, <1>5, <1>12, <1>16 DEF p

-----------------------------------------------------------------------------
(* Changing a copy                                                         *)

\* What Those leaves of the peers of a configuration.
LEMMA KeepsSome ==
  ASSUME NEW c, Config(c), NEW I, I \subseteq DOMAIN c.peers
  PROVE  /\ Config([c EXCEPT !.peers = Those(@, I)])
         /\ Recs([c EXCEPT !.peers = Those(@, I)]) = {c.peers[i] : i \in I}
         /\ Those(c.peers, I) \in Seq(PeerRecs)
<1>0. c.name \in Names /\ c.peers \in Seq(PeerRecs) /\ c = [name |-> c.name, peers |-> c.peers]
  BY DEF Config, Configs
<1>1. PICK s \in Seq(PeerRecs) : s = c.peers
  BY <1>0
<1>2. Len(s) \in Nat /\ DOMAIN s = 1..Len(s)
  OBVIOUS
<1> DEFINE t == Those(s, I)
           d == [c EXCEPT !.peers = Those(@, I)]
<1>3. t \in Seq(PeerRecs)
  BY ThoseIs
<1>4. PICK e \in [1..Len(t) -> 1..Len(s)] :
        /\ \A n \in 1..Len(t) : e[n] \in I /\ t[n] = s[e[n]]
        /\ \A n, k \in 1..Len(t) : n < k => e[n] < e[k]
        /\ \A i \in 1..Len(s) : i \in I => \E n \in 1..Len(t) : e[n] = i
  BY ThoseIs
<1>5. d.name = c.name /\ d.peers = t /\ d = [name |-> c.name, peers |-> t]
  BY <1>0, <1>1
<1> HIDE DEF t, d
<1>6. Len(t) \in Nat /\ DOMAIN t = 1..Len(t)
  BY <1>3
<1>7. d \in Configs
  BY <1>0, <1>3, <1>5 DEF Configs
<1>8. \A n, k \in 1..Len(t) : t[n].id = t[k].id => n = k
  <2> SUFFICES ASSUME NEW n \in 1..Len(t), NEW k \in 1..Len(t), t[n].id = t[k].id PROVE n = k
    OBVIOUS
  <2>1. s[e[n]].id = s[e[k]].id /\ e[n] \in DOMAIN s /\ e[k] \in DOMAIN s
    BY <1>2, <1>4
  <2>2. e[n] = e[k]
    BY <2>1, <1>1 DEF Config
  <2>3. n < k => e[n] < e[k]
    BY <1>4
  <2>4. k < n => e[k] < e[n]
    BY <1>4
  <2>5. e[n] \in Int /\ e[k] \in Int
    BY <1>2, <1>4
  <2> QED BY <2>2, <2>3, <2>4, <2>5, <1>6
<1>9. Config(d)
  BY <1>5, <1>6, <1>7, <1>8 DEF Config
<1>10. Recs(d) = {c.peers[i] : i \in I}
  <2>1. Recs(d) = {t[n] : n \in 1..Len(t)}
    BY <1>5, <1>6 DEF Recs
  <2>2. \A n \in 1..Len(t) : t[n] = s[e[n]] /\ e[n] \in I
    BY <1>4
  <2>3. \A i \in I : \E n \in 1..Len(t) : t[n] = s[i]
    BY <1>1, <1>2, <1>4
  <2>4. {t[n] : n \in 1..Len(t)} = {s[i] : i \in I}
    <3> DEFINE A == {t[n] : n \in 1..Len(t)}
               B == {s[i] : i \in I}
    <3>1. ASSUME NEW x \in A PROVE x \in B
      <4>1. PICK n \in 1..Len(t) : x = t[n]
        OBVIOUS
      <4> QED BY <4>1, <2>2
    <3>2. ASSUME NEW x \in B PROVE x \in A
      <4>1. PICK i \in I : x = s[i]
        OBVIOUS
      <4>2. PICK n \in 1..Len(t) : t[n] = s[i]
        BY <2>3
      <4> QED BY <4>1, <4>2
    <3> QED BY <3>1, <3>2
  <2> QED BY <2>1, <2>4, <1>1
<1> QED BY <1>1, <1>3, <1>9, <1>10 DEF d, t

\* Another peer, whose id is not there yet, supersedes those at its address
\* (add_peer, src/config.rs).
LEMMA AddPeerJoins ==
  ASSUME NEW c, Config(c), NEW p \in PeerRecs, \A q \in Recs(c) : q.id # p.id
  PROVE  Config(AddPeer(c, p)) /\ Recs(AddPeer(c, p)) = Joined(Recs(c), p)
<1> DEFINE I == {n \in DOMAIN c.peers : c.peers[n].at # p.at}
           t == Those(c.peers, I)
           k == [c EXCEPT !.peers = Those(@, I)]
           d == AddPeer(c, p)
<1>0. c.name \in Names /\ c.peers \in Seq(PeerRecs) /\ c = [name |-> c.name, peers |-> c.peers]
  BY DEF Config, Configs
<1>1. Config(k) /\ Recs(k) = {c.peers[i] : i \in I} /\ t \in Seq(PeerRecs)
  <2>1. I \subseteq DOMAIN c.peers
    OBVIOUS
  <2> HIDE DEF I
  <2> QED BY <2>1, KeepsSome
<1>2. k.peers = t
  BY <1>0
<1>3. d.name = c.name /\ d.peers = Append(t, p) /\ d = [name |-> c.name, peers |-> Append(t, p)]
  <2>1. d = [c EXCEPT !.peers = Append(t, p)]
    BY DEF AddPeer
  <2> HIDE DEF d, t, I
  <2>2. PICK u : u = Append(t, p)
    OBVIOUS
  <2>3. d = [c EXCEPT !.peers = u]
    BY <2>1, <2>2
  <2>4. d = [name |-> c.name, peers |-> u]
    BY <1>0, <2>3
  <2> QED BY <2>2, <2>4
<1>4. Recs(k) = {q \in Recs(c) : q.at # p.at}
  BY <1>1 DEF Recs
<1> HIDE DEF I, t, k, d
<1>5. PICK n \in Nat : n = Len(t) /\ DOMAIN t = 1..n
  BY <1>1
<1>60. Append(t, p) \in Seq(PeerRecs)
  BY <1>1
<1>6. PICK s \in Seq(PeerRecs) : s = Append(t, p)
  BY <1>60, Zenon
<1>7. /\ Len(s) = n + 1 /\ DOMAIN s = 1..(n + 1) /\ s[n + 1] = p
      /\ \A i \in 1..n : s[i] = t[i]
  BY <1>1, <1>5, <1>6
<1>8. \A i \in 1..(n + 1) : i = n + 1 \/ i \in 1..n
  OBVIOUS
<1>9. \A i \in 1..n : t[i] \in Recs(k) /\ t[i] \in Recs(c)
  <2>1. \A i \in 1..n : t[i] \in Recs(k)
    BY <1>2, <1>5 DEF Recs
  <2> QED BY <2>1, <1>4
<1>10. \A i, j \in 1..n : t[i].id = t[j].id => i = j
  BY <1>1, <1>2, <1>5 DEF Config
<1>11. \A i, j \in 1..(n + 1) : s[i].id = s[j].id => i = j
  BY <1>7, <1>8, <1>9, <1>10
<1>12. d \in Configs
  BY <1>0, <1>3, <1>6 DEF Configs
<1>13. Config(d)
  BY <1>3, <1>6, <1>7, <1>11, <1>12 DEF Config
<1>14. Recs(d) = Joined(Recs(c), p)
  <2>1. Recs(d) = {s[i] : i \in 1..(n + 1)}
    BY <1>3, <1>6, <1>7 DEF Recs
  <2>2. Recs(k) = {t[i] : i \in 1..n}
    BY <1>2, <1>5 DEF Recs
  <2>3. n + 1 \in 1..(n + 1) /\ \A i \in 1..n : i \in 1..(n + 1)
    OBVIOUS
  <2>4. {s[i] : i \in 1..(n + 1)} = {t[i] : i \in 1..n} \cup {p}
    BY <2>3, <1>7, <1>8
  <2> QED BY <2>1, <2>2, <2>4, <1>4 DEF Joined
<1> QED BY <1>13, <1>14 DEF d

\* remove_peer takes one peer out.
LEMMA RemovePeerLeaves ==
  ASSUME NEW c, Config(c), NEW id
  PROVE  Config(RemovePeer(c, id)) /\ Recs(RemovePeer(c, id)) = Without(Recs(c), id)
<1> DEFINE I == {n \in DOMAIN c.peers : c.peers[n].id # id}
           k == [c EXCEPT !.peers = Those(@, I)]
<1>1. Config(k) /\ Recs(k) = {c.peers[i] : i \in I}
  <2>1. I \subseteq DOMAIN c.peers
    OBVIOUS
  <2> HIDE DEF I
  <2> QED BY <2>1, KeepsSome
<1>2. {c.peers[i] : i \in I} = Without(Recs(c), id)
  BY DEF Recs, Without
<1>3. k = RemovePeer(c, id)
  <2>1. c = [name |-> c.name, peers |-> c.peers]
    BY DEF Config, Configs
  <2> QED BY <2>1 DEF RemovePeer
<1> QED BY <1>1, <1>2, <1>3

\* The peer with an id is the only one.
LEMMA PeerOfIs ==
  ASSUME NEW c, Config(c), NEW id, Has(c, id)
  PROVE  /\ PeerOf(c, id) \in Recs(c) /\ PeerOf(c, id).id = id /\ PeerOf(c, id) \in PeerRecs
         /\ \A q \in Recs(c) : q.id = id => q = PeerOf(c, id)
<1> DEFINE n == CHOOSE n \in DOMAIN c.peers : c.peers[n].id = id
<1>1. n \in DOMAIN c.peers /\ c.peers[n].id = id
  BY DEF Has
<1> HIDE DEF n
<1>2. PeerOf(c, id) = c.peers[n]
  BY DEF PeerOf, n
<1>3. c.peers \in Seq(PeerRecs)
  BY DEF Config, Configs
<1>4. c.peers[n] \in PeerRecs
  BY <1>1, <1>3
<1>5. \A q \in Recs(c) : q.id = id => q = c.peers[n]
  BY <1>1 DEF Recs, Config
<1> QED BY <1>1, <1>2, <1>4, <1>5 DEF Recs

\* The records of a configuration.
LEMMA RecsAre ==
  ASSUME NEW c, Config(c)
  PROVE  /\ Recs(c) \subseteq PeerRecs
         /\ \A p, q \in Recs(c) : p.id = q.id => p = q
         /\ \A id : Has(c, id) <=> \E p \in Recs(c) : p.id = id
<1>1. c.peers \in Seq(PeerRecs)
  BY DEF Config, Configs
<1>2. \A n \in DOMAIN c.peers : c.peers[n] \in PeerRecs
  BY <1>1
<1>3. \A p, q \in Recs(c) : p.id = q.id => p = q
  BY DEF Config, Recs
<1> QED BY <1>2, <1>3 DEF Recs, Has

\* What Update makes of the records.
LEMMA UpdateIs ==
  ASSUME NEW c, Config(c), NEW p \in PeerRecs
  PROVE  /\ Config(Update(c, p.id, p))
         /\ Recs(Update(c, p.id, p)) = {IF q.id = p.id THEN p ELSE q : q \in Recs(c)}
<1>0. c.name \in Names /\ c.peers \in Seq(PeerRecs) /\ c = [name |-> c.name, peers |-> c.peers]
  BY DEF Config, Configs
<1>1. PICK n \in Nat : n = Len(c.peers) /\ DOMAIN c.peers = 1..n
                       /\ \A i \in 1..n : c.peers[i] \in PeerRecs
  BY <1>0
<1> DEFINE s == [i \in 1..n |-> IF c.peers[i].id = p.id THEN p ELSE c.peers[i]]
           d == Update(c, p.id, p)
<1>2. d.name = c.name /\ d.peers = s /\ d = [name |-> c.name, peers |-> s]
  BY <1>0, <1>1 DEF Update
<1>3. \A i \in 1..n : s[i] \in PeerRecs /\ s[i].id = c.peers[i].id
  BY <1>1
<1>30. \A i \in 1..n : s[i] = IF c.peers[i].id = p.id THEN p ELSE c.peers[i]
  OBVIOUS
<1>4. s \in Seq(PeerRecs) /\ DOMAIN s = 1..n
  BY <1>3
<1> HIDE DEF s, d
<1>5. d \in Configs
  BY <1>0, <1>2, <1>4 DEF Configs
<1>6. \A i, j \in 1..n : s[i].id = s[j].id => i = j
  BY <1>1, <1>3 DEF Config
<1>7. Config(d)
  BY <1>2, <1>4, <1>5, <1>6 DEF Config
<1>8. Recs(d) = {IF q.id = p.id THEN p ELSE q : q \in Recs(c)}
  <2>1. Recs(d) = {s[i] : i \in 1..n}
    BY <1>2, <1>4 DEF Recs
  <2>2. Recs(c) = {c.peers[i] : i \in 1..n}
    BY <1>1 DEF Recs
  <2> QED BY <2>1, <2>2, <1>30
<1> QED BY <1>7, <1>8 DEF d

\* update_placement changes the place of one peer.
LEMMA SetPlacementPlaces ==
  ASSUME NEW c, Config(c), NEW id, Has(c, id), NEW s \in Placements
  PROVE  /\ Config(SetPlacement(c, id, s))
         /\ Recs(SetPlacement(c, id, s)) = Placed(Recs(c), id, s)
<1>1. PICK q \in PeerRecs : q = PeerOf(c, id)
  BY PeerOfIs
<1>2. q \in Recs(c) /\ q.id = id /\ \A r \in Recs(c) : r.id = id => r = q
  BY <1>1, PeerOfIs
<1>3. PICK p \in PeerRecs : p = [q EXCEPT !.side = s]
  BY DEF PeerRecs
<1>4. p.id = id
  BY <1>2, <1>3 DEF PeerRecs
<1>5. SetPlacement(c, id, s) = Update(c, p.id, p)
  BY <1>1, <1>3, <1>4 DEF SetPlacement
<1>6. \A r \in Recs(c) : (IF r.id = p.id THEN p ELSE r)
                         = (IF r.id = id THEN [r EXCEPT !.side = s] ELSE r)
  BY <1>2, <1>3, <1>4
<1>7. {IF r.id = p.id THEN p ELSE r : r \in Recs(c)} = Placed(Recs(c), id, s)
  BY <1>6 DEF Placed
<1> QED BY <1>5, <1>7, UpdateIs

\* The tokens a record has after some were given.
Given(q, kinds, tokens) ==
  [q EXCEPT !.capture = IF "capture" \in kinds THEN tokens.capture ELSE @,
            !.remote  = IF "remote"  \in kinds THEN tokens.remote  ELSE @]

\* apply_restore_token_updates changes the tokens of one peer.
LEMMA SetTokensIs ==
  ASSUME NEW c, Config(c), NEW id, Has(c, id), NEW kinds,
         NEW tokens \in [capture : Nat, remote : Nat]
  PROVE  /\ Config(SetTokens(c, id, kinds, tokens))
         /\ SameBut(Recs(c), Recs(SetTokens(c, id, kinds, tokens)), id)
         /\ \A p \in Recs(SetTokens(c, id, kinds, tokens)) :
              p.id = id => \E q \in Recs(c) : q.id = id /\ p.keep = q.keep
                             /\ p = Given(q, kinds, tokens)
<1>1. PICK q \in PeerRecs : q = PeerOf(c, id)
  BY PeerOfIs
<1>2. q \in Recs(c) /\ q.id = id /\ \A r \in Recs(c) : r.id = id => r = q
  BY <1>1, PeerOfIs
<1>3. Given(q, kinds, tokens) \in PeerRecs
  BY DEF PeerRecs, Given
<1>30. PICK p \in PeerRecs : p = Given(q, kinds, tokens)
  BY <1>3
<1>4. p.id = id /\ p.at = q.at /\ p.side = q.side /\ p.keep = q.keep
  BY <1>2, <1>30 DEF PeerRecs, Given
<1>5. SetTokens(c, id, kinds, tokens) = Update(c, p.id, p)
  BY <1>1, <1>30, <1>4 DEF SetTokens, Given
<1> DEFINE S == Recs(Update(c, p.id, p))
<1>6. Config(Update(c, p.id, p)) /\ S = {IF r.id = p.id THEN p ELSE r : r \in Recs(c)}
  BY UpdateIs
<1> HIDE DEF S
<1>7. ASSUME NEW t \in S
      PROVE  \E r \in Recs(c) : /\ t.id = r.id /\ t.at = r.at /\ t.side = r.side
                                /\ t.keep = r.keep /\ (r.id # id => t = r)
  <2>1. PICK r \in Recs(c) : t = IF r.id = p.id THEN p ELSE r
    BY <1>6
  <2> QED BY <2>1, <1>2, <1>4
<1>8. ASSUME NEW r \in Recs(c)
      PROVE  \E t \in S : /\ t.id = r.id /\ t.at = r.at /\ t.side = r.side
                          /\ t.keep = r.keep /\ (r.id # id => t = r)
  <2>1. PICK t : t = IF r.id = p.id THEN p ELSE r
    OBVIOUS
  <2>2. t \in S
    BY <2>1, <1>6
  <2> QED BY <2>1, <2>2, <1>2, <1>4
<1>9. ASSUME NEW t \in S, t.id = id PROVE t = p
  BY <1>2, <1>4, <1>6, <1>9
<1>10. SameBut(Recs(c), S, id)
  BY <1>7, <1>8 DEF SameBut
<1>11. \A t \in S : t.id = id => \E r \in Recs(c) : r.id = id /\ t.keep = r.keep
                                   /\ t = Given(r, kinds, tokens)
  BY <1>2, <1>4, <1>9, <1>30
<1> QED BY <1>5, <1>6, <1>10, <1>11 DEF S

-----------------------------------------------------------------------------
(* Steps in which processes only end                                       *)

\* A process ends, or pair-client waits for another attempt.  What it had yet to
\* save is lost.
Quit(k) ==
  /\ \/ job'[k] = Nobody
     \/ /\ k = "pairClient" /\ job[k].pc # "idle"
        /\ job'[k] = [job[k] EXCEPT !.pc = "listening"]
  /\ job[k].pc \in Saving \cup {"watcher", "ack"} => torn'[On(k)]
  /\ k \in {"pairHost", "pairClient"} /\ job[k].pc \in Saving => unpaired'

QuitJobs ==
  /\ DOMAIN job' = Jobs
  /\ \A k \in Jobs : job'[k] = job[k] \/ Quit(k)
  /\ job'["clientSession"] # job["clientSession"] => job'["control"].pc = "idle"
  /\ job'["apply"] # job["apply"] /\ job["apply"].pc = "asked" =>
       faults' > 0 \/ (job["control"].pc = "idle" /\ topoLink = NoRecord)

QuitLinks ==
  /\ pairLink' \in {pairLink, NoRecord} /\ topoLink' \in {topoLink, NoRecord}
  /\ job'["pairHost"] # job["pairHost"] => pairLink' = NoRecord
  /\ pairLink.kind = "grant" /\ pairLink' = NoRecord => unpaired'
  /\ job'["apply"] # job["apply"] => topoLink' = NoRecord
  /\ job'["apply"] = job["apply"] => topoLink' = topoLink \/ topoLink.kind = "request"
  /\ job'["clientSession"] # job["clientSession"] => topoLink'.kind # "request"

QuitRest ==
  /\ UNCHANGED <<file, tmp, portal, made, starts, behind, removed>>
  /\ failures' \in Nat /\ faults' \in 0..MaxFaults /\ faults' >= faults
  /\ torn' \in [Machines -> BOOLEAN] /\ \A m \in Machines : torn[m] => torn'[m]
  /\ unpaired' \in BOOLEAN /\ (unpaired => unpaired')
  /\ restart' \in BOOLEAN /\ (restart' => restart)
  /\ restart /\ ~restart' => job'["clientSession"].pc = "idle"

Quits == QuitJobs /\ QuitLinks /\ QuitRest

-----------------------------------------------------------------------------
(* Jobs                                                                    *)

\* What Typing says of the jobs.
LEMMA JobsTyped ==
  ASSUME Typing
  PROVE  JobsOk
BY DEF Typing

\* The state of a process that does not run.
LEMMA NobodyOk ==
  ASSUME NEW j \in Jobs
  PROVE  /\ Nobody.pc = "idle" /\ Nobody.cfg = NoCopy /\ Nobody.id = 0 /\ Nobody.then = "idle"
         /\ Nobody.side = "left" /\ Recs(NoCopy) = {} /\ JobOk(j, Nobody)
<1>1. Nobody.pc = "idle" /\ Nobody.cfg = NoCopy /\ Nobody.id = 0 /\ Nobody.then = "idle"
      /\ Nobody.side = "left"
  BY DEF Nobody
<1>2. Config(NoCopy) /\ Recs(NoCopy) = {} /\ NoCopy \in Configs
  <2>1. NoCopy.name = "none" /\ NoCopy.peers = <<>>
    BY DEF NoCopy
  <2>2. PICK ps \in Seq(PeerRecs) : ps = <<>>
    <3>1. <<>> \in Seq(PeerRecs)
      OBVIOUS
    <3> QED BY <3>1, Zenon
  <2>3. DOMAIN ps = {}
    BY <2>2
  <2>4. NoCopy = [name |-> "none", peers |-> ps]
    BY <2>2 DEF NoCopy
  <2>5. NoCopy \in Configs
    BY <2>4 DEF Configs, Names
  <2> QED BY <2>1, <2>2, <2>3, <2>5 DEF Config, Recs
<1>3. "idle" \in Pcs(j)
  BY DEF Pcs
<1>4. Nobody \in JobRecs
  <2>1. "idle" \in UNION {Pcs(k) : k \in Jobs}
    BY <1>3
  <2>2. Nobody = [pc |-> "idle", cfg |-> NoCopy, id |-> 0, side |-> "left", then |-> "idle"]
    BY DEF Nobody
  <2>3. 0 \in Nat /\ "left" \in Placements
    BY DEF Placements
  <2> QED BY <1>2, <2>1, <2>2, <2>3 DEF JobRecs
<1>5. "idle" \notin Saving /\ (j # "control" => "idle" \in Thens(j))
  BY DEF Saving, Thens
<1> QED BY <1>1, <1>2, <1>3, <1>4, <1>5 DEF JobOk

\* The state of a job is its fields.
LEMMA JobFields ==
  ASSUME NEW j \in Jobs, NEW r, JobOk(j, r)
  PROVE  /\ r = [pc |-> r.pc, cfg |-> r.cfg, id |-> r.id, side |-> r.side, then |-> r.then]
         /\ r.pc \in Pcs(j) /\ Config(r.cfg) /\ r.id \in Nat /\ r.side \in Placements
         /\ r.cfg \in Configs /\ r.then \in {"idle", "running", "ack"}
BY DEF JobOk, JobRecs, Config

\* A state put together from its parts is one that a process can be in.
LEMMA JobOf ==
  ASSUME NEW j \in Jobs, NEW pc \in Pcs(j), NEW c, Config(c), NEW id \in Nat,
         NEW side \in Placements, NEW then \in {"idle", "running", "ack"},
         pc \in Saving \/ j # "control" => then \in Thens(j)
  PROVE  JobOk(j, [pc |-> pc, cfg |-> c, id |-> id, side |-> side, then |-> then])
<1>1. pc \in UNION {Pcs(k) : k \in Jobs}
  OBVIOUS
<1>2. c \in Configs
  BY DEF Config
<1> QED BY <1>1, <1>2 DEF JobOk, JobRecs

\* pair-client that waits again is in one of its states.
LEMMA ListensOk ==
  ASSUME NEW r, JobOk("pairClient", r)
  PROVE  /\ JobOk("pairClient", [r EXCEPT !.pc = "listening"])
         /\ [r EXCEPT !.pc = "listening"].pc = "listening"
         /\ [r EXCEPT !.pc = "listening"].cfg = r.cfg
         /\ [r EXCEPT !.pc = "listening"].id = r.id
<1>1. "pairClient" \in Jobs /\ "listening" \in Pcs("pairClient") /\ "listening" \notin Saving
  BY DEF Jobs, Pcs, Saving
<1>2. PICK q : q = [r EXCEPT !.pc = "listening"]
  OBVIOUS
<1>3. q = [pc |-> "listening", cfg |-> r.cfg, id |-> r.id, side |-> r.side, then |-> r.then]
  BY <1>1, <1>2, JobFields
<1>4. JobOk("pairClient", q)
  <2>1. r.then \in Thens("pairClient")
    BY DEF JobOk
  <2>2. Config(r.cfg) /\ r.id \in Nat /\ r.side \in Placements
        /\ r.then \in {"idle", "running", "ack"}
    BY <1>1, JobFields
  <2> QED BY <1>1, <1>3, <2>1, <2>2, JobOf
<1> QED BY <1>2, <1>3, <1>4

\* The pcs of each process.
LEMMA PcsAre ==
  ASSUME JobsOk
  PROVE  /\ job["pairHost"].pc \in {"idle", "asked", "create", "write"}
         /\ job["apply"].pc \in {"idle", "asked", "create", "write"}
         /\ job["pairClient"].pc \in {"idle", "listening", "create", "write"}
         /\ job["control"].pc \in {"idle", "ack", "create", "write"}
         /\ job["hostSession"].pc \in {"idle", "portals", "running", "create", "write"}
         /\ job["clientSession"].pc \in {"idle", "portals", "watcher", "running", "create", "write"}
         /\ job["hostEdit"].pc \in {"idle", "create", "write"}
         /\ job["clientEdit"].pc \in {"idle", "create", "write"}
<1>1. \A j \in Jobs : job[j].pc \in Pcs(j)
  BY DEF JobsOk, JobOk
<1>2. "pairHost" \in Jobs /\ "apply" \in Jobs /\ "pairClient" \in Jobs /\ "control" \in Jobs
      /\ "hostSession" \in Jobs /\ "clientSession" \in Jobs /\ "hostEdit" \in Jobs
      /\ "clientEdit" \in Jobs
  BY DEF Jobs
<1> QED BY <1>1, <1>2 DEF Pcs, Saving

-----------------------------------------------------------------------------
(* Which steps those are                                                   *)

\* A record on its way is one of few kinds.
LEMMA LinkKinds ==
  ASSUME Typing
  PROVE  /\ NoRecord.kind = "none"
         /\ \/ pairLink = NoRecord
            \/ pairLink.kind = "request" /\ pairLink.side \in Placements /\ pairLink.keep \in BOOLEAN
            \/ /\ pairLink.kind = "grant" /\ pairLink.id \in Ids /\ pairLink.side \in Placements
               /\ pairLink.at \in Addresses /\ pairLink.keep \in BOOLEAN
         /\ \/ topoLink = NoRecord
            \/ topoLink = [kind |-> "ack"] /\ topoLink.kind = "ack"
            \/ topoLink.kind = "request" /\ topoLink.side \in Placements
<1>1. NoRecord.kind = "none"
  BY DEF NoRecord
<1>2. pairLink \in PairRecords /\ topoLink \in TopoRecords
  BY DEF Typing
<1> QED BY <1>1, <1>2 DEF PairRecords, TopoRecords

\* Only a process that waits for the answer has a record on its way.
LEMMA LinksAre ==
  ASSUME Typing, Pairings, Exchange
  PROVE  /\ pairLink = NoRecord \/ job["pairHost"].pc = "asked"
         /\ topoLink = NoRecord \/ job["apply"].pc = "asked"
         /\ job["control"].pc = "idle" \/ job["clientSession"].pc = "running"
         /\ topoLink.kind = "request" => job["clientSession"].pc = "running"
BY LinkKinds DEF Pairings, Exchange, Applying, Controlling

\* What does not change may be taken as quitting.
LEMMA SameQuits ==
  ASSUME Typing
  PROVE  /\ failures \in Nat /\ faults \in 0..MaxFaults /\ torn \in [Machines -> BOOLEAN]
         /\ unpaired \in BOOLEAN /\ restart \in BOOLEAN /\ DOMAIN job = Jobs
         /\ tmp \in [Machines -> BOOLEAN] /\ faults \in Int /\ MaxFaults \in Nat
BY SetupAssumption DEF Typing, JobsOk

\* A job that fails ends or, for pair-client, waits again.
LEMMA FailsQuits ==
  ASSUME Typing, Pairings, Exchange, NEW j \in Jobs, Failed(j),
         job[j].pc \in Saving \/ (j = "pairClient" /\ job[j].pc = "listening"),
         job[j].pc \in Saving => torn' = [torn EXCEPT ![On(j)] = TRUE] /\ LosesGrant(j),
         job[j].pc \notin Saving => UNCHANGED <<torn, unpaired>>,
         UNCHANGED <<file, tmp, portal, made, starts, behind, removed, network, restart>>,
         faults' \in {faults, faults + 1}, faults' = faults \/ faults < MaxFaults
  PROVE  Quits
<1>0. /\ failures \in Nat /\ faults \in 0..MaxFaults /\ torn \in [Machines -> BOOLEAN]
      /\ unpaired \in BOOLEAN /\ restart \in BOOLEAN /\ DOMAIN job = Jobs
      /\ tmp \in [Machines -> BOOLEAN] /\ faults \in Int /\ MaxFaults \in Nat
  BY SameQuits
<1>1. job' = [job EXCEPT ![j] = EndOf(j)] /\ failures' \in {failures, failures + 1}
  BY DEF Failed
<1>2. job'[j] = EndOf(j) /\ DOMAIN job' = Jobs /\ \A k \in Jobs : k # j => job'[k] = job[k]
  BY <1>0, <1>1
<1>3. \/ EndOf(j) = Nobody
      \/ j = "pairClient" /\ EndOf(j) = [job[j] EXCEPT !.pc = "listening"]
  BY Zenon DEF EndOf
<1>4. On(j) \in Machines
  BY DEF On, Machines
<1>5. torn' \in [Machines -> BOOLEAN] /\ \A m \in Machines : torn[m] => torn'[m]
  BY <1>0
<1>6. unpaired' \in BOOLEAN /\ (unpaired => unpaired')
  BY <1>0, Zenon DEF LosesGrant
<1>7. JobsOk
  BY JobsTyped
<1>8. job["pairClient"].pc \in {"idle", "listening", "create", "write"}
  BY <1>7, PcsAre
<1>9. job[j].pc \notin {"idle", "watcher", "ack", "asked", "running"}
  BY <1>8 DEF Saving
<1>10. Quit(j)
  <2>1. job[j].pc \in Saving => torn'[On(j)]
    BY <1>0, <1>4
  <2>2. j \in {"pairHost", "pairClient"} /\ job[j].pc \in Saving => unpaired'
    BY DEF LosesGrant
  <2> QED BY <1>2, <1>3, <1>9, <2>1, <2>2 DEF Quit
<1>11. pairLink' = pairLink /\ topoLink' = topoLink
  BY DEF network
<1>12. QuitJobs
  <2>1. \A k \in Jobs : job'[k] = job[k] \/ Quit(k)
    BY <1>2, <1>10
  <2>2. j = "clientSession" => job["control"].pc = "idle"
    BY <1>9, LinksAre
  <2>3. "control" \in Jobs /\ "clientSession" \in Jobs /\ "apply" \in Jobs
    BY DEF Jobs
  <2> QED BY <2>1, <2>2, <2>3, <1>2, <1>9 DEF QuitJobs
<1>13. QuitLinks
  <2>1. "pairHost" \in Jobs /\ "clientSession" \in Jobs /\ "apply" \in Jobs
    BY DEF Jobs
  <2>2. NoRecord.kind = "none"
    BY LinkKinds
  <2> QED BY <2>1, <2>2, <1>2, <1>9, <1>11, LinksAre DEF QuitLinks
<1>14. QuitRest
  <2>1. faults' \in 0..MaxFaults /\ faults' >= faults
    BY <1>0
  <2> QED BY <1>0, <1>1, <1>5, <1>6, <2>1 DEF QuitRest
<1> QED BY <1>12, <1>13, <1>14 DEF Quits

\* The steps in which one job ends and no more.
LEMMA OneQuits ==
  ASSUME Typing, Pairings, Exchange, NEW j \in Jobs, job' = [job EXCEPT ![j] = Nobody],
         job[j].pc \notin Saving \cup {"watcher", "ack", "running"},
         j = "apply" => faults' > 0 \/ (job["control"].pc = "idle" /\ topoLink = NoRecord),
         UNCHANGED <<file, tmp, portal, made, starts, behind, removed, restart, failures, torn>>,
         faults' \in {faults, faults + 1}, faults' = faults \/ faults < MaxFaults,
         unpaired' \in BOOLEAN, unpaired => unpaired',
         pairLink' \in {pairLink, NoRecord},
         j = "pairHost" => pairLink' = NoRecord,
         pairLink.kind = "grant" /\ pairLink' = NoRecord => unpaired',
         topoLink' = IF j = "apply" THEN NoRecord ELSE topoLink
  PROVE  Quits
<1>0. /\ failures \in Nat /\ faults \in 0..MaxFaults /\ torn \in [Machines -> BOOLEAN]
      /\ unpaired \in BOOLEAN /\ restart \in BOOLEAN /\ DOMAIN job = Jobs
      /\ tmp \in [Machines -> BOOLEAN] /\ faults \in Int /\ MaxFaults \in Nat
  BY SameQuits
<1>2. job'[j] = Nobody /\ DOMAIN job' = Jobs /\ \A k \in Jobs : k # j => job'[k] = job[k]
  BY <1>0
<1>3. Quit(j)
  BY <1>2 DEF Quit
<1>4. "control" \in Jobs /\ "clientSession" \in Jobs /\ "apply" \in Jobs /\ "pairHost" \in Jobs
  BY DEF Jobs
<1>5. NoRecord.kind = "none"
  BY LinkKinds
<1>6. QuitJobs
  <2>1. \A k \in Jobs : job'[k] = job[k] \/ Quit(k)
    BY <1>2, <1>3
  <2>2. j = "clientSession" => job["control"].pc = "idle"
    BY LinksAre
  <2> QED BY <2>1, <2>2, <1>2, <1>4 DEF QuitJobs
<1>7. QuitLinks
  <2>1. j = "clientSession" => topoLink.kind # "request"
    BY LinksAre
  <2>2. j # "apply" => topoLink' = topoLink
    OBVIOUS
  <2>3. j = "apply" => topoLink' = NoRecord
    OBVIOUS
  <2>4. job["apply"] = Nobody => topoLink = NoRecord
    BY <1>4, LinksAre, NobodyOk
  <2> QED BY <2>1, <2>2, <2>3, <2>4, <1>2, <1>4, <1>5 DEF QuitLinks
<1>8. QuitRest
  <2>1. faults' \in 0..MaxFaults /\ faults' >= faults
    BY <1>0
  <2> QED BY <1>0, <2>1 DEF QuitRest
<1> QED BY <1>6, <1>7, <1>8 DEF Quits

\* A process that is killed, and the control thread with its session.
LEMMA KillQuits ==
  ASSUME Typing, Pairings, Exchange, NEW j \in Jobs, j # "control", Kill(j),
         job[j].pc \notin {"idle", "asked"},
         j \in {"pairHost", "pairClient"} /\ job[j].pc \in Saving => unpaired',
         unpaired' \in BOOLEAN, unpaired => unpaired',
         UNCHANGED <<file, tmp, portal, made, starts, behind, removed, failures>>,
         faults' \in {faults, faults + 1}, faults' = faults \/ faults < MaxFaults
  PROVE  Quits
<1>0. /\ failures \in Nat /\ faults \in 0..MaxFaults /\ torn \in [Machines -> BOOLEAN]
      /\ unpaired \in BOOLEAN /\ restart \in BOOLEAN /\ DOMAIN job = Jobs
      /\ tmp \in [Machines -> BOOLEAN] /\ faults \in Int /\ MaxFaults \in Nat
  BY SameQuits
<1> DEFINE dead == IF j = "clientSession" THEN {j, "control"} ELSE {j}
<1>1. /\ job' = [k \in Jobs |-> IF k \in dead THEN Nobody ELSE job[k]]
      /\ torn' = [torn EXCEPT ![On(j)] = @ \/ \E k \in dead : Working(k)]
      /\ restart' = (restart /\ j # "clientSession")
      /\ topoLink' = Unread(topoLink, j = "clientSession")
      /\ pairLink' = Unread(pairLink, j = "pairClient")
  BY DEF Kill
<1>2. j \in dead /\ (j = "clientSession" => "control" \in dead) /\ dead \subseteq Jobs
      /\ \A k \in dead : k = j \/ (k = "control" /\ j = "clientSession")
  BY DEF Jobs
<1> HIDE DEF dead
<1>3. /\ DOMAIN job' = Jobs /\ \A k \in dead : job'[k] = Nobody
      /\ \A k \in Jobs : k \notin dead => job'[k] = job[k]
  BY <1>1, <1>2
<1>4. On(j) \in Machines /\ \A k \in dead : On(k) = On(j)
  BY <1>2 DEF On, Machines
<1>5. torn'[On(j)] = (torn[On(j)] \/ \E k \in dead : Working(k))
  BY <1>0, <1>1, <1>4
<1>6. torn' \in [Machines -> BOOLEAN] /\ \A m \in Machines : torn[m] => torn'[m]
  <2>1. (torn[On(j)] \/ \E k \in dead : Working(k)) \in BOOLEAN
    OBVIOUS
  <2>2. PICK w \in BOOLEAN : w = (torn[On(j)] \/ \E k \in dead : Working(k))
    BY <2>1, Zenon
  <2>3. torn' = [torn EXCEPT ![On(j)] = w] /\ (torn[On(j)] => w)
    BY <1>1, <2>2
  <2> QED BY <2>3, <1>0, <1>4
<1>7. \A k \in Jobs : job'[k] = job[k] \/ Quit(k)
  <2> SUFFICES ASSUME NEW k \in dead PROVE Quit(k)
    BY <1>3
  <2>1. job[k].pc \in Saving \cup {"watcher", "ack"} => Working(k)
    BY DEF Saving, Working
  <2>2. job[k].pc \in Saving \cup {"watcher", "ack"} => torn'[On(k)]
    BY <2>1, <1>4, <1>5
  <2>3. k \in {"pairHost", "pairClient"} => k = j
    BY <1>2
  <2> QED BY <2>2, <2>3, <1>3 DEF Quit
<1>8. "control" \in Jobs /\ "clientSession" \in Jobs /\ "apply" \in Jobs /\ "pairHost" \in Jobs
  BY DEF Jobs
<1>9. NoRecord.kind = "none" /\ Nobody.pc = "idle"
  BY <1>8, LinkKinds, NobodyOk
<1>10. JobsOk
  BY JobsTyped
<1>11. QuitJobs
  <2>1. "clientSession" \in dead => "control" \in dead
    BY <1>2
  <2>2. "apply" \in dead => job["apply"].pc # "asked"
    BY <1>2
  <2> QED BY <2>1, <2>2, <1>3, <1>7, <1>8, <1>9 DEF QuitJobs
<1>12. QuitLinks
  <2>1. pairLink' \in {pairLink, NoRecord} /\ (pairLink.kind = "grant" => pairLink' = pairLink)
    BY <1>1 DEF Unread
  <2>2. topoLink' \in {topoLink, NoRecord} /\ (topoLink' = topoLink \/ topoLink.kind = "request")
    BY <1>1 DEF Unread
  <2>3. "pairHost" \in dead => pairLink' = NoRecord
    BY <2>1, <1>2, LinksAre
  <2>4. "apply" \in dead => topoLink' = NoRecord
    BY <2>2, <1>2, LinksAre
  <2>5. "clientSession" \in dead => topoLink'.kind # "request"
    BY <1>1, <1>2, <1>9 DEF Unread
  <2> QED BY <2>1, <2>2, <2>3, <2>4, <2>5, <1>3, <1>8, <1>9 DEF QuitLinks
<1>13. QuitRest
  <2>1. faults' \in 0..MaxFaults /\ faults' >= faults
    BY <1>0
  <2>2. restart' \in BOOLEAN /\ (restart' => restart)
        /\ (restart /\ ~restart' => job'["clientSession"].pc = "idle")
    BY <1>0, <1>1, <1>2, <1>3, <1>9, Zenon
  <2> QED BY <1>0, <1>6, <2>1, <2>2 DEF QuitRest
<1> QED BY <1>11, <1>12, <1>13 DEF Quits

\* A save that may go on has its temporary file.
Creates(j) ==
  /\ job[j].pc = "create" /\ ~tmp[On(j)]
  /\ tmp' = [tmp EXCEPT ![On(j)] = TRUE]
  /\ job' = [job EXCEPT ![j].pc = "write"]
  /\ UNCHANGED <<file, failures, network, restart, portal, made, starts, faults, behind,
                 torn, unpaired, removed>>

\* Commands that edit the file.
Edits(m) == SetLocalName(m, "renamed") \/ \E id \in Ids : PeerRemove(m, id)

\* A step in which processes do more than end.
Works ==
  \/ \E j \in Jobs : Creates(j) \/ Rename(j)
  \/ PairClientStarts
  \/ \E side \in Asked, keep \in BOOLEAN : PairHostStarts(side, keep)
  \/ \E at \in Addresses, keep \in BOOLEAN : Grant(at, keep)
  \/ TakeGrant
  \/ \E id \in Ids, side \in Asked : ApplyStarts(id, side)
  \/ ControlTakes \/ (\E sent \in BOOLEAN : ControlAck(sent)) \/ TakeAck
  \/ \E m \in Machines, id \in Ids : SessionStarts(m, id)
  \/ HostPortalStarts \/ RemoteDesktopStarts \/ WatcherStarts \/ WatcherRefused
  \/ \E m \in Machines : Edits(m)

\* Every step is one of these.
LEMMA Steps ==
  ASSUME Typing, Pairings, Exchange, Next
  PROVE  Quits \/ Works
<1>0. JobsOk
  BY JobsTyped
<1>00. /\ failures \in Nat /\ faults \in 0..MaxFaults /\ torn \in [Machines -> BOOLEAN]
       /\ unpaired \in BOOLEAN /\ restart \in BOOLEAN /\ DOMAIN job = Jobs
       /\ tmp \in [Machines -> BOOLEAN] /\ faults \in Int /\ MaxFaults \in Nat
  BY SameQuits
<1>1. ASSUME NEW j \in Jobs, CreateTmp(j) PROVE Quits \/ Works
  <2>1. CASE tmp[On(j)]
    <3>1. Failed(j) /\ LosesGrant(j) /\ torn' = [torn EXCEPT ![On(j)] = TRUE]
          /\ UNCHANGED <<tmp, file, portal, made, starts, faults, behind, removed, network, restart>>
      BY <1>1, <2>1, Zenon DEF CreateTmp
    <3>2. job[j].pc = "create"
      BY <1>1 DEF CreateTmp
    <3>3. Quits
      BY <3>1, <3>2, FailsQuits DEF Saving
    <3> QED BY <3>3
  <2>2. CASE ~tmp[On(j)]
    <3>1. Creates(j)
      BY <1>1, <2>2, Zenon DEF CreateTmp, Creates
    <3> QED BY <3>1 DEF Works
  <2> QED BY <2>1, <2>2
<1>2. ASSUME NEW j \in Jobs, WriteFails(j) PROVE Quits
  <2>1. job[j].pc = "write" /\ Failed(j) /\ LosesGrant(j) /\ torn' = [torn EXCEPT ![On(j)] = TRUE]
        /\ UNCHANGED <<file, tmp, portal, made, starts, behind, removed, network, restart>>
        /\ faults' = faults + 1 /\ faults < MaxFaults
    BY <1>2 DEF WriteFails
  <2>2. job[j].pc \in Saving
    BY <2>1 DEF Saving
  <2> QED BY <2>1, <2>2, FailsQuits
<1>3. ASSUME NEW j \in Jobs, Crash(j) PROVE Quits
  <2>1. /\ j # "control" /\ job[j].pc \notin {"idle", "asked"} /\ Kill(j)
        /\ UNCHANGED <<file, tmp, portal, made, starts, behind, removed, failures>>
        /\ faults' = faults + 1 /\ faults < MaxFaults
    BY <1>3 DEF Crash
  <2>2. job[j].pc \in Saving => Working(j)
    BY DEF Saving, Working
  <2>3. Working(j) => LosesGrant(j)
    BY <1>3, Zenon DEF Crash
  <2>4. ~Working(j) => unpaired' = unpaired
    BY <1>3, Zenon DEF Crash
  <2>5. unpaired' \in BOOLEAN /\ (unpaired => unpaired')
        /\ (j \in {"pairHost", "pairClient"} /\ job[j].pc \in Saving => unpaired')
    BY <1>00, <2>2, <2>3, <2>4, Zenon DEF LosesGrant
  <2> QED BY <2>1, <2>5, KillQuits
<1>4. ASSUME PairClientGivesUp PROVE Quits
  <2>1. job["pairClient"].pc = "listening" /\ job' = [job EXCEPT !["pairClient"] = Nobody]
        /\ UNCHANGED <<file, tmp, portal, made, starts, behind, removed, restart, failures, torn>>
        /\ UNCHANGED <<faults, unpaired, pairLink, topoLink>>
    BY <1>4 DEF PairClientGivesUp, Waiting, store, network
  <2>2. "pairClient" \in Jobs /\ NoRecord.kind = "none"
    BY LinkKinds DEF Jobs
  <2> QED BY <2>1, <2>2, <1>00, OneQuits DEF Saving
<1>5. ASSUME WrongCode PROVE Quits
  <2>1. job["pairClient"].pc = "listening" /\ Failed("pairClient")
        /\ UNCHANGED <<file, tmp, portal, made, starts, behind, removed, network, restart>>
        /\ UNCHANGED <<torn, unpaired, faults>>
    BY <1>5 DEF WrongCode, Waiting, store
  <2>2. "pairClient" \in Jobs /\ "listening" \notin Saving
    BY DEF Jobs, Saving
  <2> QED BY <2>1, <2>2, FailsQuits
<1>6. ASSUME PairRefused PROVE Quits
  <2>1. job["pairHost"].pc = "asked" /\ job' = [job EXCEPT !["pairHost"] = Nobody]
        /\ UNCHANGED <<file, tmp, portal, made, starts, behind, removed, restart, failures, torn>>
        /\ UNCHANGED <<faults, unpaired, pairLink, topoLink>> /\ pairLink = NoRecord
    BY <1>6 DEF PairRefused, store, network
  <2>2. "pairHost" \in Jobs /\ NoRecord.kind = "none"
    BY LinkKinds DEF Jobs
  <2> QED BY <2>1, <2>2, <1>00, OneQuits DEF Saving
<1>7. ASSUME ApplyRefused PROVE Quits
  <2>1. job["apply"].pc = "asked" /\ job' = [job EXCEPT !["apply"] = Nobody]
        /\ UNCHANGED <<file, tmp, portal, made, starts, behind, removed, restart, failures, torn>>
        /\ UNCHANGED <<faults, unpaired, pairLink, topoLink>> /\ topoLink = NoRecord
        /\ job["control"].pc = "idle"
    BY <1>7 DEF ApplyRefused, store, network
  <2>2. "apply" \in Jobs /\ NoRecord.kind = "none"
    BY LinkKinds DEF Jobs
  <2> QED BY <2>1, <2>2, <1>00, OneQuits DEF Saving
<1>8. ASSUME TopoLinkLost PROVE Quits
  <2>1. job["apply"].pc = "asked" /\ job' = [job EXCEPT !["apply"] = Nobody]
        /\ UNCHANGED <<file, tmp, portal, made, starts, behind, removed, restart, failures, torn>>
        /\ UNCHANGED <<unpaired, pairLink>> /\ topoLink' = NoRecord
        /\ faults' = faults + 1 /\ faults < MaxFaults
    BY <1>8 DEF TopoLinkLost, store
  <2>2. "apply" \in Jobs /\ NoRecord.kind = "none"
    BY LinkKinds DEF Jobs
  <2>3. faults' > 0
    BY <2>1, <1>00
  <2> QED BY <2>1, <2>2, <2>3, <1>00, OneQuits DEF Saving
<1>9. ASSUME NEW m \in Machines, PortalRefused(Session(m)) PROVE Quits
  <2> DEFINE j == Session(m)
  <2>1. job[j].pc = "portals" /\ job' = [job EXCEPT ![j] = Nobody]
        /\ UNCHANGED <<file, tmp, portal, made, starts, behind, removed, restart, failures, torn>>
        /\ UNCHANGED <<faults, unpaired, pairLink, topoLink>>
    BY <1>9 DEF PortalRefused, Elsewhere, store, network
  <2>2. j \in Jobs /\ j # "apply" /\ j # "pairHost" /\ NoRecord.kind = "none"
    BY LinkKinds DEF Jobs, Session
  <2> HIDE DEF j
  <2> QED BY <2>1, <2>2, <1>00, OneQuits DEF Saving
<1>10. ASSUME NEW m \in Machines, SessionEnds(m) PROVE Quits
  <2> DEFINE j == Session(m)
  <2>1. job[j].pc = "running" /\ Kill(j)
        /\ UNCHANGED <<file, tmp, portal, made, starts, behind, removed, failures>>
        /\ UNCHANGED <<faults, unpaired>>
    BY <1>10 DEF SessionEnds
  <2>2. j \in Jobs /\ j # "control" /\ j \notin {"pairHost", "pairClient"}
    BY DEF Jobs, Session
  <2> HIDE DEF j
  <2> QED BY <2>1, <2>2, <1>00, KillQuits
<1>11. ASSUME PairLinkLost PROVE Quits
  <2> DEFINE asking == pairLink.kind = "request" /\ job["pairClient"].pc = "listening"
             ends == IF asking THEN EndOf("pairClient") ELSE job["pairClient"]
  <2>1. /\ job["pairHost"].pc = "asked" /\ faults' = faults + 1 /\ faults < MaxFaults
        /\ pairLink' = NoRecord /\ unpaired' = (unpaired \/ ~asking)
        /\ failures' \in {failures, failures + 1}
        /\ UNCHANGED <<file, tmp, portal, made, starts, behind, removed, restart, torn, topoLink>>
    BY <1>11 DEF PairLinkLost, store
  <2>2. job' = [job EXCEPT !["pairHost"] = Nobody, !["pairClient"] = ends]
    BY <1>11 DEF PairLinkLost
  <2>3. /\ "control" \in Jobs /\ "clientSession" \in Jobs /\ "apply" \in Jobs
        /\ "pairHost" \in Jobs /\ "pairClient" \in Jobs /\ NoRecord.kind = "none"
    BY LinkKinds DEF Jobs
  <2>4. \/ ends = job["pairClient"]
        \/ /\ job["pairClient"].pc = "listening"
           /\ ends = Nobody \/ ends = [job["pairClient"] EXCEPT !.pc = "listening"]
    BY Zenon DEF EndOf
  <2>5. asking => pairLink.kind # "grant"
    OBVIOUS
  <2>6. unpaired' \in BOOLEAN /\ (unpaired => unpaired') /\ (pairLink.kind = "grant" => unpaired')
    BY <1>00, <2>1, <2>5, Zenon
  <2> HIDE DEF asking, ends
  <2>7. /\ DOMAIN job' = Jobs /\ job'["pairHost"] = Nobody /\ job'["pairClient"] = ends
        /\ \A k \in Jobs : k # "pairHost" /\ k # "pairClient" => job'[k] = job[k]
    BY <1>00, <2>2, <2>3
  <2>8. Quit("pairHost")
    BY <2>1, <2>7 DEF Quit, Saving
  <2>9. job'["pairClient"] = job["pairClient"] \/ Quit("pairClient")
    BY <2>4, <2>7 DEF Quit, Saving
  <2>10. QuitJobs
    BY <2>3, <2>7, <2>8, <2>9 DEF QuitJobs
  <2>11. QuitLinks
    BY <2>1, <2>3, <2>6, <2>7 DEF QuitLinks
  <2>12. QuitRest
    <3>1. faults' \in 0..MaxFaults /\ faults' >= faults
      BY <1>00, <2>1
    <3> QED BY <1>00, <2>1, <2>6, <3>1 DEF QuitRest
  <2> QED BY <2>10, <2>11, <2>12 DEF Quits
<1>12. ASSUME Pairing PROVE Quits \/ Works
  BY <1>4, <1>5, <1>6, <1>11, <1>12 DEF Pairing, Works
<1>13. ASSUME Topology PROVE Quits \/ Works
  BY <1>7, <1>8, <1>13 DEF Topology, Works
<1>14. ASSUME Sessions PROVE Quits \/ Works
  BY <1>9, <1>10, <1>14 DEF Sessions, Works
<1>15. ASSUME NEW m \in Machines, \/ SetLocalName(m, "renamed")
                                  \/ \E id \in Ids : PeerRemove(m, id)
       PROVE  Works
  BY <1>15 DEF Works, Edits
<1>16. ASSUME NEW j \in Jobs, CreateTmp(j) \/ Rename(j) \/ WriteFails(j) \/ Crash(j)
       PROVE  Quits \/ Works
  <2>1. Rename(j) => Works
    BY DEF Works
  <2> QED BY <1>1, <1>2, <1>3, <1>16, <2>1
<1> QED BY <1>12, <1>13, <1>14, <1>15, <1>16 DEF Next

-----------------------------------------------------------------------------
(* What each of the other steps does                                       *)

\* One process is in another state, which is one of its own.
OneJob(j) ==
  /\ DOMAIN job' = Jobs /\ JobOk(j, job'[j])
  /\ \A k \in Jobs : k # j => job'[k] = job[k]

\* A step that gives one process a state it can be in leaves the others theirs.
LEMMA OneJobOk ==
  ASSUME JobsOk, NEW j \in Jobs, NEW r, JobOk(j, r), job' = [job EXCEPT ![j] = r]
  PROVE  OneJob(j) /\ job'[j] = r
BY DEF JobsOk, OneJob

\* The processes, and the machine that each runs on.
LEMMA JobNames ==
         /\ "pairHost" \in Jobs /\ "apply" \in Jobs /\ "hostSession" \in Jobs /\ "hostEdit" \in Jobs
         /\ "pairClient" \in Jobs /\ "control" \in Jobs /\ "clientSession" \in Jobs
         /\ "clientEdit" \in Jobs
         /\ \A j \in Jobs : On(j) \in Machines
         /\ "host" \in Machines /\ "client" \in Machines
         /\ \A m \in Machines : m = "host" \/ m = "client"
         /\ \A m \in Machines : Session(m) \in Jobs /\ Edit(m) \in Jobs /\ On(Session(m)) = m
                                /\ On(Edit(m)) = m
BY DEF Jobs, On, Machines, Session, Edit

\* A state of a process with other values in some of its fields.
LEMMA JobWith ==
  ASSUME NEW j \in Jobs, NEW r, JobOk(j, r), NEW pc
  PROVE  /\ [r EXCEPT !.pc = pc]
              = [pc |-> pc, cfg |-> r.cfg, id |-> r.id, side |-> r.side, then |-> r.then]
         /\ \A c : [r EXCEPT !.pc = pc, !.cfg = c]
              = [pc |-> pc, cfg |-> c, id |-> r.id, side |-> r.side, then |-> r.then]
         /\ \A c, then : [r EXCEPT !.pc = pc, !.then = then, !.cfg = c]
              = [pc |-> pc, cfg |-> c, id |-> r.id, side |-> r.side, then |-> then]
<1>1. PICK a, b, i, s, t : r = [pc |-> a, cfg |-> b, id |-> i, side |-> s, then |-> t]
  BY JobFields
<1>2. [r EXCEPT !.pc = pc]
        = [pc |-> pc, cfg |-> r.cfg, id |-> r.id, side |-> r.side, then |-> r.then]
  BY <1>1
<1>3. ASSUME NEW c
      PROVE  [r EXCEPT !.pc = pc, !.cfg = c]
               = [pc |-> pc, cfg |-> c, id |-> r.id, side |-> r.side, then |-> r.then]
  <2>1. PICK x : x = [r EXCEPT !.pc = pc]
    OBVIOUS
  <2>2. [r EXCEPT !.pc = pc, !.cfg = c] = [x EXCEPT !.cfg = c]
    BY <1>1, <2>1
  <2>3. x = [pc |-> pc, cfg |-> r.cfg, id |-> r.id, side |-> r.side, then |-> r.then]
    BY <1>2, <2>1
  <2>4. [x EXCEPT !.cfg = c]
          = [pc |-> pc, cfg |-> c, id |-> r.id, side |-> r.side, then |-> r.then]
    BY <2>3
  <2> QED BY <2>2, <2>4
<1>4. ASSUME NEW c, NEW then
      PROVE  [r EXCEPT !.pc = pc, !.then = then, !.cfg = c]
               = [pc |-> pc, cfg |-> c, id |-> r.id, side |-> r.side, then |-> then]
  <2>1. PICK x : x = [r EXCEPT !.pc = pc]
    OBVIOUS
  <2>2. PICK y : y = [x EXCEPT !.then = then]
    OBVIOUS
  <2>3. y = [pc |-> pc, cfg |-> r.cfg, id |-> r.id, side |-> r.side, then |-> then]
    BY <1>2, <2>1, <2>2
  <2>4. [r EXCEPT !.pc = pc, !.then = then, !.cfg = c] = [y EXCEPT !.cfg = c]
    BY <1>1, <2>1, <2>2
  <2> QED BY <2>3, <2>4
<1> QED BY <1>2, <1>3, <1>4

\* The same, as a state of that process.
LEMMA JobStays ==
  ASSUME NEW j \in Jobs, NEW r, JobOk(j, r), NEW pc \in Pcs(j), NEW c, Config(c),
         NEW then \in {"idle", "running", "ack"}, pc \in Saving \/ j # "control" => then \in Thens(j)
  PROVE  JobOk(j, [pc |-> pc, cfg |-> c, id |-> r.id, side |-> r.side, then |-> then])
<1>1. r.id \in Nat /\ r.side \in Placements
  BY JobFields
<1> QED BY <1>1, JobOf

\* A save begins by creating the temporary file, which nobody else has.
LEMMA CreatesIs ==
  ASSUME Typing, NEW j \in Jobs, Creates(j)
  PROVE  /\ OneJob(j) /\ job[j].pc = "create" /\ job'[j].pc = "write"
         /\ job'[j].cfg = job[j].cfg /\ job'[j].id = job[j].id /\ job'[j].side = job[j].side
         /\ job'[j].then = job[j].then
         /\ ~tmp[On(j)] /\ tmp'[On(j)] /\ tmp' \in [Machines -> BOOLEAN]
         /\ \A m \in Machines : m # On(j) => tmp'[m] = tmp[m]
         /\ UNCHANGED <<file, failures, pairLink, topoLink, restart, portal, made, starts, faults,
                        behind, torn, unpaired, removed>>
<1>1. JobsOk /\ On(j) \in Machines /\ tmp \in [Machines -> BOOLEAN]
  BY JobsTyped, JobNames DEF Typing
<1>2. job[j].pc = "create" /\ JobOk(j, job[j])
  BY <1>1 DEF Creates, JobsOk
<1> DEFINE r == [job[j] EXCEPT !.pc = "write"]
<1>3. r = [pc |-> "write", cfg |-> job[j].cfg, id |-> job[j].id, side |-> job[j].side,
           then |-> job[j].then]
  BY <1>2, JobFields
<1>4. "write" \in Pcs(j) /\ job[j].then \in Thens(j)
  <2>1. \A k \in Jobs : "create" \in Pcs(k) => "write" \in Pcs(k)
    BY DEF Pcs, Saving
  <2> QED BY <2>1, <1>2 DEF JobOk, Saving
<1>5. JobOk(j, r)
  <2>1. Config(job[j].cfg) /\ job[j].then \in {"idle", "running", "ack"}
    BY <1>2, JobFields
  <2> HIDE DEF r
  <2> QED BY <2>1, <1>2, <1>3, <1>4, JobStays
<1>6. job' = [job EXCEPT ![j] = r]
  BY <1>1 DEF Creates, JobsOk
<1> HIDE DEF r
<1>7. OneJob(j) /\ job'[j] = r
  BY <1>1, <1>5, <1>6, OneJobOk
<1> QED BY <1>1, <1>2, <1>3, <1>7 DEF Creates, network

\* A save ends by putting the copy in place of the file, after which the process
\* goes on as it meant to.
LEMMA RenameIs ==
  ASSUME Typing, NEW j \in Jobs, Rename(j)
  PROVE  /\ OneJob(j) /\ job[j].pc = "write"
         /\ \/ job[j].then = "idle" /\ job'[j] = Nobody
            \/ /\ job[j].then # "idle" /\ job'[j].pc = job[j].then /\ job'[j].cfg = NoCopy
               /\ job'[j].id = job[j].id /\ job'[j].side = job[j].side
         /\ job[j].then \in Thens(j)
         /\ DOMAIN file' = Machines /\ Loads(file'[On(j)]) /\ Parse(file'[On(j)]) = job[j].cfg
         /\ Config(job[j].cfg)
         /\ \A m \in Machines : m # On(j) => file'[m] = file[m]
         /\ ~tmp'[On(j)] /\ tmp' \in [Machines -> BOOLEAN]
         /\ \A m \in Machines : m # On(j) => tmp'[m] = tmp[m]
         /\ behind' = (behind \cup {k \in Jobs : On(k) = On(j) /\ Holds(k)}) \ {j}
         /\ torn' \in [Machines -> BOOLEAN] /\ torn'[On(j)] = (torn[On(j)] \/ j \in behind)
         /\ \A m \in Machines : m # On(j) => torn'[m] = torn[m]
         /\ UNCHANGED <<failures, pairLink, topoLink, restart, portal, made, starts, faults,
                        unpaired, removed>>
<1>1. JobsOk /\ On(j) \in Machines /\ tmp \in [Machines -> BOOLEAN] /\ DOMAIN file = Machines
      /\ torn \in [Machines -> BOOLEAN]
  BY JobsTyped, JobNames DEF Typing
<1>2. job[j].pc = "write" /\ JobOk(j, job[j])
  BY <1>1 DEF Rename, JobsOk
<1>3. Config(job[j].cfg) /\ job[j].then \in Thens(j)
  BY <1>2 DEF JobOk, Saving
<1> DEFINE q == [job[j] EXCEPT !.pc = job[j].then, !.cfg = NoCopy]
           r == IF job[j].then = "idle" THEN Nobody ELSE q
<1>4. q = [pc |-> job[j].then, cfg |-> NoCopy, id |-> job[j].id, side |-> job[j].side,
           then |-> job[j].then]
  <2>1. \A c : [job[j] EXCEPT !.pc = job[j].then, !.cfg = c]
                 = [pc |-> job[j].then, cfg |-> c, id |-> job[j].id, side |-> job[j].side,
                    then |-> job[j].then]
    BY <1>2, JobWith, Zenon
  <2> QED BY <2>1
<1>5. job[j].then \in Pcs(j) /\ job[j].then \notin Saving
  BY <1>3 DEF Thens, Pcs, Saving
<1>6. Config(NoCopy) /\ JobOk(j, Nobody)
  BY NobodyOk DEF JobOk
<1>7. JobOk(j, q)
  <2>1. job[j].then \in {"idle", "running", "ack"}
    BY <1>2, JobFields
  <2> HIDE DEF q
  <2> QED BY <2>1, <1>2, <1>3, <1>4, <1>5, <1>6, JobStays
<1>8. job' = [job EXCEPT ![j] = r]
  BY <1>1 DEF Rename, JobsOk
<1> HIDE DEF q
<1>9. JobOk(j, r)
  BY <1>6, <1>7
<1>10. \/ r = Nobody /\ job[j].then = "idle"
       \/ r = q /\ job[j].then # "idle"
  OBVIOUS
<1> HIDE DEF r
<1>11. OneJob(j) /\ job'[j] = r
  BY <1>1, <1>8, <1>9, OneJobOk
<1>12. Loads(Render(job[j].cfg)) /\ Parse(Render(job[j].cfg)) = job[j].cfg
  BY <1>3, SavesLoad
<1>13. /\ file' = [file EXCEPT ![On(j)] = Render(job[j].cfg)]
       /\ tmp' = [tmp EXCEPT ![On(j)] = FALSE]
       /\ behind' = (behind \cup {k \in Jobs : On(k) = On(j) /\ Holds(k)}) \ {j}
       /\ torn' = [torn EXCEPT ![On(j)] = @ \/ j \in behind]
       /\ UNCHANGED <<failures, pairLink, topoLink, restart, portal, made, starts, faults,
                      unpaired, removed>>
  BY DEF Rename, network
<1>14. /\ DOMAIN file' = Machines /\ file'[On(j)] = Render(job[j].cfg)
       /\ \A m \in Machines : m # On(j) => file'[m] = file[m]
  BY <1>1, <1>13
<1>15. /\ ~tmp'[On(j)] /\ tmp' \in [Machines -> BOOLEAN]
       /\ \A m \in Machines : m # On(j) => tmp'[m] = tmp[m]
  BY <1>1, <1>13
<1>16. /\ torn' \in [Machines -> BOOLEAN] /\ torn'[On(j)] = (torn[On(j)] \/ j \in behind)
       /\ \A m \in Machines : m # On(j) => torn'[m] = torn[m]
  <2>1. PICK w \in BOOLEAN : w = (torn[On(j)] \/ j \in behind)
    <3>1. (torn[On(j)] \/ j \in behind) \in BOOLEAN
      OBVIOUS
    <3> QED BY <3>1, Zenon
  <2>2. torn' = [torn EXCEPT ![On(j)] = w]
    BY <1>13, <2>1
  <2>3. /\ torn' \in [Machines -> BOOLEAN] /\ torn'[On(j)] = w
        /\ \A m \in Machines : m # On(j) => torn'[m] = torn[m]
    BY <1>1, <2>2
  <2> QED BY <2>1, <2>3, Zenon
<1>17. \/ job[j].then = "idle" /\ job'[j] = Nobody
       \/ /\ job[j].then # "idle" /\ job'[j].pc = job[j].then /\ job'[j].cfg = NoCopy
          /\ job'[j].id = job[j].id /\ job'[j].side = job[j].side
  <2>1. q.pc = job[j].then /\ q.cfg = NoCopy /\ q.id = job[j].id /\ q.side = job[j].side
    BY <1>4
  <2> QED BY <2>1, <1>10, <1>11, Zenon
<1> QED BY <1>2, <1>3, <1>11, <1>12, <1>13, <1>14, <1>15, <1>16, <1>17

\* The states in which processes begin.
LEMMA NobodyWith ==
  ASSUME NEW pc, NEW c
  PROVE  /\ [Nobody EXCEPT !.pc = pc]
              = [pc |-> pc, cfg |-> NoCopy, id |-> 0, side |-> "left", then |-> "idle"]
         /\ [Nobody EXCEPT !.pc = pc, !.cfg = c]
              = [pc |-> pc, cfg |-> c, id |-> 0, side |-> "left", then |-> "idle"]
         /\ \A then : [Nobody EXCEPT !.pc = pc, !.then = then, !.cfg = c]
              = [pc |-> pc, cfg |-> c, id |-> 0, side |-> "left", then |-> then]
         /\ \A id, side : [Nobody EXCEPT !.pc = pc, !.cfg = c, !.id = id, !.side = side]
              = [pc |-> pc, cfg |-> c, id |-> id, side |-> side, then |-> "idle"]
         /\ \A id, side, then :
              [Nobody EXCEPT !.pc = pc, !.cfg = c, !.id = id, !.side = side, !.then = then]
              = [pc |-> pc, cfg |-> c, id |-> id, side |-> side, then |-> then]
<1>1. PICK x : x = [Nobody EXCEPT !.pc = pc]
  OBVIOUS
<1>2. x = [pc |-> pc, cfg |-> NoCopy, id |-> 0, side |-> "left", then |-> "idle"]
  BY <1>1 DEF Nobody
<1>3. PICK y : y = [x EXCEPT !.cfg = c]
  OBVIOUS
<1>4. y = [pc |-> pc, cfg |-> c, id |-> 0, side |-> "left", then |-> "idle"]
  BY <1>2, <1>3
<1>5. [Nobody EXCEPT !.pc = pc, !.cfg = c] = y
  BY <1>1, <1>3
<1>6. ASSUME NEW then
      PROVE  [Nobody EXCEPT !.pc = pc, !.then = then, !.cfg = c]
               = [pc |-> pc, cfg |-> c, id |-> 0, side |-> "left", then |-> then]
  <2>1. PICK z : z = [x EXCEPT !.then = then]
    OBVIOUS
  <2>2. z = [pc |-> pc, cfg |-> NoCopy, id |-> 0, side |-> "left", then |-> then]
    BY <1>2, <2>1
  <2>3. [Nobody EXCEPT !.pc = pc, !.then = then, !.cfg = c] = [z EXCEPT !.cfg = c]
    BY <1>1, <2>1
  <2> QED BY <2>2, <2>3
<1>7. ASSUME NEW id, NEW side
      PROVE  [Nobody EXCEPT !.pc = pc, !.cfg = c, !.id = id, !.side = side]
               = [pc |-> pc, cfg |-> c, id |-> id, side |-> side, then |-> "idle"]
  <2>1. PICK z : z = [y EXCEPT !.id = id]
    OBVIOUS
  <2>2. z = [pc |-> pc, cfg |-> c, id |-> id, side |-> "left", then |-> "idle"]
    BY <1>4, <2>1
  <2>3. [Nobody EXCEPT !.pc = pc, !.cfg = c, !.id = id, !.side = side] = [z EXCEPT !.side = side]
    BY <1>1, <1>3, <2>1
  <2> QED BY <2>2, <2>3
<1>8. ASSUME NEW id, NEW side, NEW then
      PROVE  [Nobody EXCEPT !.pc = pc, !.cfg = c, !.id = id, !.side = side, !.then = then]
               = [pc |-> pc, cfg |-> c, id |-> id, side |-> side, then |-> then]
  <2>1. PICK z : z = [Nobody EXCEPT !.pc = pc, !.cfg = c, !.id = id, !.side = side]
    OBVIOUS
  <2>2. [Nobody EXCEPT !.pc = pc, !.cfg = c, !.id = id, !.side = side, !.then = then]
          = [z EXCEPT !.then = then]
    BY <2>1
  <2>3. z = [pc |-> pc, cfg |-> c, id |-> id, side |-> side, then |-> "idle"]
    BY <1>7, <2>1
  <2>4. [z EXCEPT !.then = then]
          = [pc |-> pc, cfg |-> c, id |-> id, side |-> side, then |-> then]
    BY <2>3
  <2> QED BY <2>2, <2>4
<1> QED BY <1>1, <1>2, <1>4, <1>5, <1>6, <1>7, <1>8

\* A state with a chosen peer.
LEMMA NobodyChosen ==
  ASSUME NEW pc, NEW c, NEW id, NEW side, NEW r,
         r = [Nobody EXCEPT !.pc = pc, !.cfg = c, !.id = id, !.side = side]
  PROVE  r = [pc |-> pc, cfg |-> c, id |-> id, side |-> side, then |-> "idle"]
<1>1. PICK x : x = [Nobody EXCEPT !.pc = pc]
  OBVIOUS
<1>2. x = [pc |-> pc, cfg |-> NoCopy, id |-> 0, side |-> "left", then |-> "idle"]
  BY <1>1 DEF Nobody
<1>3. PICK y : y = [x EXCEPT !.cfg = c]
  OBVIOUS
<1>4. y = [pc |-> pc, cfg |-> c, id |-> 0, side |-> "left", then |-> "idle"]
  BY <1>2, <1>3
<1>5. PICK z : z = [y EXCEPT !.id = id]
  OBVIOUS
<1>6. z = [pc |-> pc, cfg |-> c, id |-> id, side |-> "left", then |-> "idle"]
  BY <1>4, <1>5
<1>7. r = [z EXCEPT !.side = side]
  BY <1>1, <1>3, <1>5
<1> QED BY <1>6, <1>7

\* A process is started.
Starts(j) ==
  /\ job[j].pc = "idle" /\ behind' = behind \ {j}
  /\ starts' \in 0..MaxStarts

\* A process starts in the state it is given.
LEMMA StartIs ==
  ASSUME Typing, NEW j \in Jobs, NEW r, JobOk(j, r), Start(j, r)
  PROVE  OneJob(j) /\ job'[j] = r /\ Starts(j)
<1>1. JobsOk /\ starts \in 0..MaxStarts /\ MaxStarts \in Nat
  BY JobsTyped, SetupAssumption DEF Typing
<1>2. job' = [job EXCEPT ![j] = r] /\ starts' = starts + 1 /\ starts < MaxStarts
      /\ job[j].pc = "idle" /\ behind' = behind \ {j}
  BY DEF Start
<1>3. starts' \in 0..MaxStarts
  BY <1>1, <1>2
<1>4. OneJob(j) /\ job'[j] = r
  BY <1>1, <1>2, OneJobOk
<1> QED BY <1>2, <1>3, <1>4 DEF Starts

\* The states in which processes begin are states of theirs.
LEMMA BeginsOk ==
  ASSUME NEW j \in Jobs, NEW pc \in Pcs(j), NEW c, Config(c),
         pc \notin Saving \/ j # "control"
  PROVE  JobOk(j, [pc |-> pc, cfg |-> c, id |-> 0, side |-> "left", then |-> "idle"])
<1>1. PICK z \in Nat, s \in Placements, t \in {"idle", "running", "ack"} :
        z = 0 /\ s = "left" /\ t = "idle"
  BY DEF Placements
<1>2. pc \in Saving \/ j # "control" => t \in Thens(j)
  BY <1>1 DEF Thens
<1>3. JobOk(j, [pc |-> pc, cfg |-> c, id |-> z, side |-> s, then |-> t])
  BY <1>2, JobOf
<1> QED BY <1>1, <1>3

\* The stored configurations.
LEMMA StoredIs ==
  ASSUME Typing, NEW m \in Machines
  PROVE  /\ Config(Stored(m)) /\ Recs(Stored(m)) = Records(m) /\ Records(m) \subseteq PeerRecs
         /\ \A p, q \in Records(m) : p.id = q.id => p = q
         /\ \A id : Has(Stored(m), id) <=> \E p \in Records(m) : p.id = id
<1>1. Config(Stored(m))
  BY DEF Typing
<1>2. Recs(Stored(m)) = Records(m)
  BY DEF Recs, Records
<1> QED BY <1>1, <1>2, RecsAre

\* The client that listens for pairings has loaded the file.
LEMMA PairClientStartsIs ==
  ASSUME Typing, PairClientStarts
  PROVE  /\ OneJob("pairClient") /\ Starts("pairClient")
         /\ job'["pairClient"].pc = "listening" /\ job'["pairClient"].cfg = Stored("client")
         /\ job'["pairClient"].id = 0 /\ failures' = 0
         /\ UNCHANGED <<file, tmp, pairLink, topoLink, restart, portal, made, faults, torn, unpaired,
                        removed>>
<1>1. Config(Stored("client"))
  BY JobNames, StoredIs
<1> DEFINE r == [Nobody EXCEPT !.pc = "listening", !.cfg = Stored("client")]
<1>2. r = [pc |-> "listening", cfg |-> Stored("client"), id |-> 0, side |-> "left",
           then |-> "idle"]
  BY NobodyWith
<1>3. "listening" \in Pcs("pairClient") /\ "listening" \notin Saving /\ "left" \in Placements
  BY DEF Pcs, Saving, Placements
<1>4. JobOk("pairClient", r)
  BY <1>1, <1>2, <1>3, BeginsOk, JobNames
<1>5. Start("pairClient", r) /\ failures' = 0
  BY DEF PairClientStarts, Stored
<1> HIDE DEF r
<1>6. OneJob("pairClient") /\ job'["pairClient"] = r /\ Starts("pairClient")
  BY <1>4, <1>5, StartIs, JobNames
<1> QED BY <1>2, <1>5, <1>6 DEF PairClientStarts, network

\* The host that asks to pair has put its request on the link.
LEMMA PairHostStartsIs ==
  ASSUME Typing, NEW side \in Asked, NEW keep \in BOOLEAN, PairHostStarts(side, keep)
  PROVE  /\ OneJob("pairHost") /\ Starts("pairHost")
         /\ job'["pairHost"].pc = "asked" /\ job'["pairHost"].cfg = NoCopy
         /\ job'["pairHost"].id = 0 /\ Recs(NoCopy) = {}
         /\ pairLink = NoRecord /\ pairLink' \in PairRecords
         /\ pairLink'.kind = "request" /\ job["pairClient"].pc = "listening"
         /\ UNCHANGED <<file, tmp, failures, topoLink, restart, portal, made, faults, torn, unpaired,
                        removed>>
<1> DEFINE r == [Nobody EXCEPT !.pc = "asked"]
<1>1. r = [pc |-> "asked", cfg |-> NoCopy, id |-> 0, side |-> "left", then |-> "idle"]
  BY NobodyWith
<1>2. "asked" \in Pcs("pairHost") /\ "asked" \notin Saving /\ "left" \in Placements
      /\ Config(NoCopy) /\ Recs(NoCopy) = {}
  BY JobNames, NobodyOk DEF Pcs, Saving, Placements, JobOk
<1>3. JobOk("pairHost", r)
  BY <1>1, <1>2, BeginsOk, JobNames
<1>4. Start("pairHost", r) /\ pairLink = NoRecord /\ job["pairClient"].pc = "listening"
      /\ pairLink' = [kind |-> "request", side |-> side, keep |-> keep]
  BY DEF PairHostStarts, Waiting
<1> HIDE DEF r
<1>5. OneJob("pairHost") /\ job'["pairHost"] = r /\ Starts("pairHost")
  BY <1>3, <1>4, StartIs, JobNames
<1>6. side \in Placements
  BY SetupAssumption
<1>7. pairLink' \in PairRecords /\ pairLink'.kind = "request"
  BY <1>4, <1>6 DEF PairRecords
<1> QED BY <1>1, <1>2, <1>4, <1>5, <1>7 DEF PairHostStarts

\* A peer as it is made, and the same with its permission.
LEMMA PeerIs ==
  ASSUME NEW id \in Nat \ {0}, NEW at \in Addresses, NEW side \in Placements
  PROVE  /\ Peer(id, at, side) \in PeerRecs
         /\ Peer(id, at, side).id = id /\ Peer(id, at, side).at = at
         /\ Peer(id, at, side).side = side /\ Peer(id, at, side).keep = FALSE
         /\ Peer(id, at, side).capture = 0 /\ Peer(id, at, side).remote = 0
<1>1. Peer(id, at, side) = [id |-> id, at |-> at, side |-> side, keep |-> FALSE,
                            capture |-> 0, remote |-> 0]
  BY DEF Peer
<1> QED BY <1>1 DEF PeerRecs

\* A new peer and its permission to keep the choice of the portal.
LEMMA KeptPeerIs ==
  ASSUME NEW id \in Nat \ {0}, NEW at \in Addresses, NEW side \in Placements,
         NEW keep \in BOOLEAN, NEW p, p = [Peer(id, at, side) EXCEPT !.keep = keep]
  PROVE  /\ p \in PeerRecs
         /\ p = [id |-> id, at |-> at, side |-> side, keep |-> keep, capture |-> 0, remote |-> 0]
<1>1. Peer(id, at, side) = [id |-> id, at |-> at, side |-> side, keep |-> FALSE,
                            capture |-> 0, remote |-> 0]
  BY DEF Peer
<1>2. p = [id |-> id, at |-> at, side |-> side, keep |-> keep, capture |-> 0, remote |-> 0]
  BY <1>1
<1>3. [id |-> id, at |-> at, side |-> side, keep |-> keep, capture |-> 0, remote |-> 0]
        \in PeerRecs
  BY DEF PeerRecs
<1> QED BY <1>2, <1>3

\* Turned round twice, a placement is as it was.
LEMMA Opposites ==
  ASSUME NEW s \in Placements
  PROVE  Opposite(s) \in Placements /\ Opposite(Opposite(s)) = s
BY DEF Opposite, Placements

\* The peer that is joined by a grant.
NewPeer(p) == p \in PeerRecs /\ p.id = made' /\ p.capture = 0 /\ p.remote = 0

\* The client that grants a pairing makes the next id, adds the peer to its copy
\* and sends the other desktop the same id.
LEMMA GrantIs ==
  ASSUME Typing, IdsMade, NEW at \in Addresses, NEW keep \in BOOLEAN, Grant(at, keep)
  PROVE  /\ OneJob("pairClient") /\ job["pairClient"].pc = "listening"
         /\ job'["pairClient"].pc = "create" /\ job'["pairClient"].id = job["pairClient"].id
         /\ made' = made + 1 /\ made' \in 0..MaxPairings /\ made' \in Ids
         /\ pairLink.kind = "request" /\ pairLink' \in PairRecords /\ pairLink'.kind = "grant"
         /\ pairLink'.id = made'
         /\ \E p : /\ NewPeer(p) /\ p.keep = pairLink'.keep /\ p.at = pairLink'.at
                   /\ p.side = Opposite(pairLink'.side) /\ pairLink'.side \in Placements
                   /\ Recs(job'["pairClient"].cfg) = Joined(Recs(job["pairClient"].cfg), p)
         /\ UNCHANGED <<file, tmp, behind, torn, failures, topoLink, restart, portal, starts, faults,
                        unpaired, removed>>
<1> DEFINE j == "pairClient"
           id == made + 1
           kept == keep \/ pairLink.keep
           p == [Peer(id, at, Opposite(pairLink.side)) EXCEPT !.keep = kept]
           c == AddPeer(job[j].cfg, p)
<1>1. /\ job[j].pc = "listening" /\ pairLink.kind = "request" /\ made < MaxPairings
      /\ made' = id
      /\ pairLink' = [kind |-> "grant", id |-> id, side |-> pairLink.side, at |-> at, keep |-> kept]
      /\ UNCHANGED <<file, tmp, behind, torn, failures, topoLink, restart, portal, starts, faults,
                     unpaired, removed>>
  BY DEF Grant, store
<1>2. JobsOk /\ j \in Jobs /\ JobOk(j, job[j]) /\ Config(job[j].cfg)
      /\ job[j].then \in Thens(j)
  BY JobsTyped, JobNames DEF JobsOk, JobOk
<1>3. /\ made \in Nat /\ id \in Nat \ {0} /\ id \in Ids /\ id \in 0..MaxPairings
  BY <1>1, SetupAssumption DEF Typing, Ids
<1>4. pairLink.side \in Placements /\ pairLink.keep \in BOOLEAN
  BY <1>1, LinkKinds
<1>5. Opposite(pairLink.side) \in Placements /\ kept \in BOOLEAN
  BY <1>4, Opposites
<1>6. /\ p \in PeerRecs
      /\ p = [id |-> id, at |-> at, side |-> Opposite(pairLink.side), keep |-> kept,
              capture |-> 0, remote |-> 0]
  <2>1. PICK i \in Nat \ {0}, o \in Placements, k \in BOOLEAN :
          i = id /\ o = Opposite(pairLink.side) /\ k = kept
    BY <1>3, <1>5, Zenon
  <2>2. p = [Peer(i, at, o) EXCEPT !.keep = k]
    BY <2>1
  <2> HIDE DEF kept, id, p
  <2>3. /\ p \in PeerRecs
        /\ p = [id |-> i, at |-> at, side |-> o, keep |-> k, capture |-> 0, remote |-> 0]
    BY <2>2, KeptPeerIs
  <2> QED BY <2>1, <2>3
<1>7. pairLink' \in PairRecords /\ pairLink'.kind = "grant" /\ pairLink'.id = id
      /\ pairLink'.side = pairLink.side /\ pairLink'.at = at /\ pairLink'.keep = kept
  <2> HIDE DEF kept, id
  <2> QED BY <1>1, <1>3, <1>4, <1>5 DEF PairRecords
<1>8. job' = [job EXCEPT ![j] = [job[j] EXCEPT !.pc = "create", !.cfg = c]]
  BY <1>2 DEF Grant, JobsOk
<1>9. p.id = id /\ p.at = at /\ p.side = Opposite(pairLink.side) /\ p.keep = kept
      /\ p.capture = 0 /\ p.remote = 0
  BY <1>6
<1> HIDE DEF p, kept
<1>10. \A q \in Recs(job[j].cfg) : q.id # p.id
  <2>1. job[j].cfg \in Copies("client")
    BY <1>2 DEF Copies, On
  <2>2. \A q \in Recs(job[j].cfg) : q.id <= made
    BY <2>1, JobNames DEF IdsMade
  <2>3. \A q \in Recs(job[j].cfg) : q.id \in Nat
    BY <1>2, RecsAre DEF PeerRecs
  <2> QED BY <2>2, <2>3, <1>3, <1>9
<1>11. Config(c) /\ Recs(c) = Joined(Recs(job[j].cfg), p)
  BY <1>2, <1>6, <1>10, AddPeerJoins
<1> HIDE DEF c
<1> DEFINE r == [job[j] EXCEPT !.pc = "create", !.cfg = c]
<1>12. r = [pc |-> "create", cfg |-> c, id |-> job[j].id, side |-> job[j].side,
            then |-> job[j].then]
  <2>1. \A d : [job[j] EXCEPT !.pc = "create", !.cfg = d]
                 = [pc |-> "create", cfg |-> d, id |-> job[j].id, side |-> job[j].side,
                    then |-> job[j].then]
    BY <1>2, JobWith, Zenon
  <2> QED BY <2>1
<1>13. JobOk(j, r)
  <2>1. "create" \in Pcs(j) /\ job[j].then \in {"idle", "running", "ack"}
    BY <1>2, JobFields DEF Pcs, Saving
  <2> HIDE DEF r
  <2> QED BY <2>1, <1>2, <1>11, <1>12, JobStays
<1> HIDE DEF r
<1>14. OneJob(j) /\ job'[j] = r
  BY <1>2, <1>8, <1>13, OneJobOk DEF r
<1>15. NewPeer(p)
  BY <1>1, <1>6, <1>9 DEF NewPeer
<1>16. job'[j].pc = "create" /\ job'[j].id = job[j].id /\ job'[j].cfg = c
  BY <1>12, <1>14
<1> HIDE DEF id
<1>17. pairLink'.side \in Placements /\ p.keep = pairLink'.keep /\ p.at = pairLink'.at
       /\ p.side = Opposite(pairLink'.side)
  BY <1>4, <1>7, <1>9
<1>18. Recs(job'["pairClient"].cfg) = Joined(Recs(job["pairClient"].cfg), p)
  BY <1>11, <1>16
<1> QED BY <1>1, <1>3, <1>7, <1>14, <1>15, <1>16, <1>17, <1>18 DEF id

\* The host that takes the grant adds the peer to what it loads at that moment.
LEMMA TakeGrantIs ==
  ASSUME Typing, Pairings, TakeGrant
  PROVE  /\ OneJob("pairHost") /\ job["pairHost"].pc = "asked"
         /\ job'["pairHost"].pc = "create" /\ job'["pairHost"].id = job["pairHost"].id
         /\ pairLink.kind = "grant" /\ pairLink' = NoRecord /\ behind' = behind \ {"pairHost"}
         /\ HostPeer(pairLink) \in PeerRecs /\ HostPeer(pairLink).id = made
         /\ HostPeer(pairLink).capture = 0 /\ HostPeer(pairLink).remote = 0
         /\ HostPeer(pairLink).keep = FALSE
         /\ Recs(job'["pairHost"].cfg) = Joined(Records("host"), HostPeer(pairLink))
         /\ UNCHANGED <<file, tmp, torn, failures, topoLink, restart, portal, made, starts, faults,
                        unpaired, removed>>
<1> DEFINE j == "pairHost"
           c == AddPeer(Stored("host"), HostPeer(pairLink))
<1>1. /\ job[j].pc = "asked" /\ pairLink.kind = "grant" /\ pairLink' = NoRecord
      /\ behind' = behind \ {"pairHost"}
      /\ UNCHANGED <<file, tmp, torn, failures, topoLink, restart, portal, made, starts, faults,
                     unpaired, removed>>
  BY DEF TakeGrant
<1>2. JobsOk /\ j \in Jobs /\ JobOk(j, job[j]) /\ job[j].then \in Thens(j)
  BY JobsTyped, JobNames DEF JobsOk, JobOk
<1>3. /\ pairLink.id \in Ids /\ pairLink.side \in Placements /\ pairLink.at \in Addresses
  BY <1>1, LinkKinds
<1>4. pairLink.id \in Nat \ {0} /\ pairLink.id = made /\ \A p \in Records("host") : p.id # made
  BY <1>1, <1>3, SetupAssumption DEF Ids, Pairings, HostPending, Unknown
<1>5. /\ HostPeer(pairLink) \in PeerRecs /\ HostPeer(pairLink).id = made
      /\ HostPeer(pairLink).capture = 0 /\ HostPeer(pairLink).remote = 0
      /\ HostPeer(pairLink).keep = FALSE
  <2>1. PICK i \in Nat \ {0}, a \in Addresses, s \in Placements :
          i = pairLink.id /\ a = pairLink.at /\ s = pairLink.side
    BY <1>3, <1>4, Zenon
  <2>2. HostPeer(pairLink) = [id |-> i, at |-> a, side |-> s, keep |-> FALSE,
                              capture |-> 0, remote |-> 0]
    BY <2>1 DEF HostPeer, Peer
  <2>3. [id |-> i, at |-> a, side |-> s, keep |-> FALSE, capture |-> 0, remote |-> 0] \in PeerRecs
    BY DEF PeerRecs
  <2> QED BY <1>4, <2>1, <2>2, <2>3
<1>6. job' = [job EXCEPT ![j] = [job[j] EXCEPT !.pc = "create", !.cfg = c]]
  BY <1>2 DEF TakeGrant, JobsOk, Stored
<1>7. Config(c) /\ Recs(c) = Joined(Records("host"), HostPeer(pairLink))
  BY <1>4, <1>5, StoredIs, AddPeerJoins, JobNames
<1> HIDE DEF c
<1> DEFINE r == [job[j] EXCEPT !.pc = "create", !.cfg = c]
<1>8. r = [pc |-> "create", cfg |-> c, id |-> job[j].id, side |-> job[j].side,
            then |-> job[j].then]
  <2>1. \A d : [job[j] EXCEPT !.pc = "create", !.cfg = d]
                 = [pc |-> "create", cfg |-> d, id |-> job[j].id, side |-> job[j].side,
                    then |-> job[j].then]
    BY <1>2, JobWith, Zenon
  <2> QED BY <2>1
<1>9. JobOk(j, r)
  <2>1. "create" \in Pcs(j) /\ job[j].then \in {"idle", "running", "ack"}
    BY <1>2, JobFields DEF Pcs, Saving
  <2> HIDE DEF r
  <2> QED BY <2>1, <1>2, <1>7, <1>8, JobStays
<1> HIDE DEF r
<1>10. OneJob(j) /\ job'[j] = r
  BY <1>2, <1>6, <1>9, OneJobOk DEF r
<1>11. job'[j].pc = "create" /\ job'[j].id = job[j].id /\ job'[j].cfg = c
  BY <1>8, <1>10
<1> QED BY <1>1, <1>5, <1>7, <1>10, <1>11

\* The host that moves a peer asks the client first, on a session that runs.
LEMMA ApplyStartsIs ==
  ASSUME Typing, NEW id \in Ids, NEW side \in Asked, ApplyStarts(id, side)
  PROVE  /\ OneJob("apply") /\ Starts("apply")
         /\ job'["apply"].pc = "asked" /\ job'["apply"].cfg = Stored("host")
         /\ job'["apply"].id = id /\ job'["apply"].side = side
         /\ Has(Stored("host"), id)
         /\ job["clientSession"].pc = "running" /\ job["clientSession"].id = id
         /\ job["control"].pc = "idle" /\ topoLink = NoRecord
         /\ topoLink' \in TopoRecords /\ topoLink'.kind = "request" /\ topoLink'.side = side
         /\ UNCHANGED <<file, tmp, failures, pairLink, restart, portal, made, faults, torn, unpaired,
                        removed>>
<1> DEFINE r == [Nobody EXCEPT !.pc = "asked", !.cfg = Stored("host"), !.id = id, !.side = side]
<1>1. r = [pc |-> "asked", cfg |-> Stored("host"), id |-> id, side |-> side, then |-> "idle"]
  <2>1. PICK pc, c, i, s : pc = "asked" /\ c = Stored("host") /\ i = id /\ s = side
    OBVIOUS
  <2>2. [Nobody EXCEPT !.pc = pc, !.cfg = c, !.id = i, !.side = s]
          = [pc |-> pc, cfg |-> c, id |-> i, side |-> s, then |-> "idle"]
    <3>1. PICK x : x = [Nobody EXCEPT !.pc = pc, !.cfg = c, !.id = i, !.side = s]
      OBVIOUS
    <3>2. x = [pc |-> pc, cfg |-> c, id |-> i, side |-> s, then |-> "idle"]
      BY <3>1, NobodyChosen
    <3> QED BY <3>1, <3>2
  <2> QED BY <2>1, <2>2
<1>2. "asked" \in Pcs("apply") /\ "idle" \in Thens("apply") /\ side \in Placements
  BY SetupAssumption DEF Pcs, Thens
<1>3. Config(Stored("host")) /\ id \in Nat /\ "apply" \in Jobs
  BY StoredIs, JobNames, SetupAssumption DEF Ids
<1>4. JobOk("apply", r)
  <2>1. PICK t \in {"idle", "running", "ack"} : t = "idle"
    OBVIOUS
  <2> HIDE DEF r
  <2> QED BY <1>1, <1>2, <1>3, <2>1, JobOf
<1>5. /\ Start("apply", r) /\ Has(Stored("host"), id)
      /\ job["clientSession"].pc = "running" /\ job["clientSession"].id = id
      /\ job["control"].pc = "idle" /\ topoLink = NoRecord
      /\ topoLink' = [kind |-> "request", side |-> side]
      /\ UNCHANGED <<file, tmp, failures, pairLink, restart, portal, made, faults, torn, unpaired,
                     removed>>
  BY DEF ApplyStarts, Stored
<1> HIDE DEF r
<1>6. OneJob("apply") /\ job'["apply"] = r /\ Starts("apply")
  BY <1>3, <1>4, <1>5, StartIs
<1>7. topoLink' \in TopoRecords /\ topoLink'.kind = "request" /\ topoLink'.side = side
  BY <1>2, <1>5 DEF TopoRecords
<1> QED BY <1>1, <1>5, <1>6, <1>7

\* The client that takes the request moves the peer in what it loads at that
\* moment, or refuses where it has no such peer.
LEMMA ControlTakesIs ==
  ASSUME Typing, ControlTakes, Exchange
  PROVE  /\ job["clientSession"].pc = "running" /\ topoLink.kind = "request"
         /\ topoLink' = NoRecord /\ job["control"].pc = "idle"
         /\ \/ /\ Has(Stored("client"), job["clientSession"].id)
               /\ OneJob("control") /\ behind' = behind \ {"control"}
               /\ job'["control"].pc = "create" /\ job'["control"].id = 0
               /\ Opposite(topoLink.side) \in Placements
               /\ Recs(job'["control"].cfg) =
                    Placed(Records("client"), job["clientSession"].id, Opposite(topoLink.side))
            \/ /\ ~Has(Stored("client"), job["clientSession"].id)
               /\ job' = job /\ behind' = behind
         /\ UNCHANGED <<file, tmp, failures, pairLink, restart, portal, made, starts, faults, torn,
                        unpaired, removed>>
<1> DEFINE id == job["clientSession"].id
           s == Opposite(topoLink.side)
           c == SetPlacement(Stored("client"), id, s)
           r == [Nobody EXCEPT !.pc = "create", !.then = "ack", !.cfg = c]
<1>1. /\ job["clientSession"].pc = "running" /\ topoLink.kind = "request"
      /\ topoLink' = NoRecord
      /\ UNCHANGED <<file, tmp, failures, pairLink, restart, portal, made, starts, faults, torn,
                     unpaired, removed>>
  BY DEF ControlTakes
<1>2. JobsOk
  BY JobsTyped
<1>3. job["control"].pc = "idle"
  BY <1>1 DEF Exchange, Controlling
<1>4. topoLink.side \in Placements
  BY <1>1, LinkKinds
<1>5. s \in Placements
  BY <1>4, Opposites
<1>6. ASSUME Has(Stored("client"), id)
      PROVE  /\ OneJob("control") /\ behind' = behind \ {"control"}
             /\ job'["control"].pc = "create" /\ job'["control"].id = 0
             /\ Recs(job'["control"].cfg) = Placed(Records("client"), id, s)
  <2>1. job' = [job EXCEPT !["control"] = r] /\ behind' = behind \ {"control"}
    BY <1>6 DEF ControlTakes, Stored
  <2>2. Config(c) /\ Recs(c) = Placed(Records("client"), id, s)
    BY <1>5, <1>6, StoredIs, SetPlacementPlaces, JobNames
  <2> HIDE DEF c
  <2>3. r = [pc |-> "create", cfg |-> c, id |-> 0, side |-> "left", then |-> "ack"]
    <3>1. \A then : [Nobody EXCEPT !.pc = "create", !.then = then, !.cfg = c]
             = [pc |-> "create", cfg |-> c, id |-> 0, side |-> "left", then |-> then]
      BY NobodyWith, Zenon
    <3> QED BY <3>1
  <2>4. PICK z \in Nat, l \in Placements, t \in {"idle", "running", "ack"} :
          z = 0 /\ l = "left" /\ t = "ack"
    BY DEF Placements
  <2>5. "create" \in Pcs("control") /\ t \in Thens("control") /\ "control" \in Jobs
    BY <2>4, JobNames DEF Pcs, Thens, Saving
  <2> HIDE DEF r
  <2>6. JobOk("control", [pc |-> "create", cfg |-> c, id |-> z, side |-> l, then |-> t])
    BY <2>2, <2>5, JobOf
  <2>7. JobOk("control", r)
    BY <2>3, <2>4, <2>6
  <2>8. OneJob("control") /\ job'["control"] = r
    BY <1>2, <2>1, <2>5, <2>7, OneJobOk
  <2> QED BY <2>1, <2>2, <2>3, <2>8
<1>7. ASSUME ~Has(Stored("client"), id) PROVE job' = job /\ behind' = behind
  BY <1>7 DEF ControlTakes, Stored
<1> QED BY <1>1, <1>3, <1>5, <1>6, <1>7

\* The client that has saved the placement tells the host so, if it still waits,
\* and has its session restarted.
LEMMA ControlAckIs ==
  ASSUME Typing, NEW sent \in BOOLEAN, ControlAck(sent)
  PROVE  /\ OneJob("control") /\ job["control"].pc = "ack" /\ job'["control"] = Nobody
         /\ sent \/ job["apply"].pc # "asked"
         /\ job["apply"].pc = "asked" => topoLink' = [kind |-> "ack"]
         /\ job["apply"].pc # "asked" => topoLink' = topoLink
         /\ topoLink' \in TopoRecords
         /\ restart' \in BOOLEAN /\ (restart => restart') /\ (sent => restart')
         /\ UNCHANGED <<file, tmp, behind, torn, failures, pairLink, portal, made, starts, faults,
                        unpaired, removed>>
<1>1. JobsOk /\ "control" \in Jobs /\ restart \in BOOLEAN /\ topoLink \in TopoRecords
  BY JobsTyped, JobNames DEF Typing
<1>2. JobOk("control", Nobody)
  BY <1>1, NobodyOk
<1>3. /\ job["control"].pc = "ack" /\ job' = [job EXCEPT !["control"] = Nobody]
      /\ topoLink' = IF job["apply"].pc = "asked" THEN [kind |-> "ack"] ELSE topoLink
      /\ UNCHANGED <<file, tmp, behind, torn, failures, pairLink, portal, made, starts, faults,
                     unpaired, removed>>
  BY DEF ControlAck, store
<1>30. sent \/ job["apply"].pc # "asked"
  BY DEF ControlAck
<1>31. restart' = (restart \/ sent)
  BY DEF ControlAck, Told
<1>4. OneJob("control") /\ job'["control"] = Nobody
  BY <1>1, <1>2, <1>3, OneJobOk
<1>5. restart' \in BOOLEAN /\ (restart => restart') /\ (sent => restart')
  BY <1>1, <1>31, Zenon
<1>6. topoLink' \in TopoRecords
  BY <1>1, <1>3 DEF TopoRecords
<1> QED BY <1>3, <1>30, <1>4, <1>5, <1>6

\* The host that is told saves the same placement in its copy.
LEMMA TakeAckIs ==
  ASSUME Typing, ChosenThere, TakeAck
  PROVE  /\ OneJob("apply") /\ job["apply"].pc = "asked" /\ topoLink.kind = "ack"
         /\ topoLink' = NoRecord
         /\ job'["apply"].pc = "create" /\ job'["apply"].id = job["apply"].id
         /\ job'["apply"].side = job["apply"].side
         /\ Recs(job'["apply"].cfg) =
              Placed(Recs(job["apply"].cfg), job["apply"].id, job["apply"].side)
         /\ UNCHANGED <<file, tmp, behind, torn, failures, pairLink, restart, portal, made, starts,
                        faults, unpaired, removed>>
<1> DEFINE j == "apply"
           c == SetPlacement(job[j].cfg, job[j].id, job[j].side)
<1>1. /\ job[j].pc = "asked" /\ topoLink.kind = "ack" /\ topoLink' = NoRecord
      /\ UNCHANGED <<file, tmp, behind, torn, failures, pairLink, restart, portal, made, starts,
                     faults, unpaired, removed>>
  BY DEF TakeAck, store, Acknowledged
<1>2. JobsOk /\ j \in Jobs /\ JobOk(j, job[j]) /\ job[j].then \in Thens(j)
  BY JobsTyped, JobNames DEF JobsOk, JobOk
<1>3. Config(job[j].cfg) /\ job[j].side \in Placements /\ Has(job[j].cfg, job[j].id)
  BY <1>1, <1>2, JobFields DEF ChosenThere
<1>4. Config(c) /\ Recs(c) = Placed(Recs(job[j].cfg), job[j].id, job[j].side)
  BY <1>3, SetPlacementPlaces
<1>5. job' = [job EXCEPT ![j] = [job[j] EXCEPT !.pc = "create", !.cfg = c]]
  BY <1>2 DEF TakeAck, JobsOk
<1> HIDE DEF c
<1> DEFINE r == [job[j] EXCEPT !.pc = "create", !.cfg = c]
<1>6. r = [pc |-> "create", cfg |-> c, id |-> job[j].id, side |-> job[j].side,
            then |-> job[j].then]
  <2>1. \A d : [job[j] EXCEPT !.pc = "create", !.cfg = d]
                 = [pc |-> "create", cfg |-> d, id |-> job[j].id, side |-> job[j].side,
                    then |-> job[j].then]
    BY <1>2, JobWith, Zenon
  <2> QED BY <2>1
<1>7. JobOk(j, r)
  <2>1. "create" \in Pcs(j) /\ job[j].then \in {"idle", "running", "ack"}
    BY <1>2, JobFields DEF Pcs, Saving
  <2> HIDE DEF r
  <2> QED BY <2>1, <1>2, <1>4, <1>6, JobStays
<1> HIDE DEF r
<1>8. OneJob(j) /\ job'[j] = r
  BY <1>2, <1>5, <1>7, OneJobOk DEF r
<1>9. job'[j].pc = "create" /\ job'[j].id = job[j].id /\ job'[j].cfg = c
      /\ job'[j].side = job[j].side
  BY <1>6, <1>8
<1> QED BY <1>1, <1>4, <1>8, <1>9

\* A session has loaded the file and chosen a peer in it.
LEMMA SessionStartsIs ==
  ASSUME Typing, NEW m \in Machines, NEW id \in Ids, SessionStarts(m, id)
  PROVE  /\ OneJob(Session(m)) /\ Starts(Session(m)) /\ id \in Ids
         /\ job'[Session(m)].pc = "portals" /\ job'[Session(m)].cfg = Stored(m)
         /\ job'[Session(m)].id = id
         /\ \E p \in Records(m) : p.id = id /\ p.side = job'[Session(m)].side
         /\ UNCHANGED <<file, tmp, failures, pairLink, topoLink, restart, portal, made, faults, torn,
                        unpaired, removed>>
<1> DEFINE j == Session(m)
           s == PeerOf(Stored(m), id).side
<1>1. PICK r : r = [Nobody EXCEPT !.pc = "portals", !.cfg = Stored(m), !.id = id, !.side = s,
                                  !.then = "running"]
  OBVIOUS
<1>2. /\ Has(Stored(m), id) /\ Start(j, r)
      /\ UNCHANGED <<file, tmp, failures, pairLink, topoLink, restart, portal, made, faults, torn,
                     unpaired, removed>>
  BY <1>1 DEF SessionStarts, Stored, network
<1>3. j \in Jobs /\ Config(Stored(m)) /\ Recs(Stored(m)) = Records(m)
  BY StoredIs, JobNames
<1>4. /\ PeerOf(Stored(m), id) \in Records(m) /\ PeerOf(Stored(m), id).id = id
      /\ s \in Placements
  <2>1. PeerOf(Stored(m), id) \in Records(m) /\ PeerOf(Stored(m), id).id = id
        /\ PeerOf(Stored(m), id) \in PeerRecs
    BY <1>2, <1>3, PeerOfIs
  <2> QED BY <2>1 DEF PeerRecs
<1>5. PICK pc, c, i, o : pc = "portals" /\ c = Stored(m) /\ i = id /\ o = s
  OBVIOUS
<1>50. PICK x : x = [Nobody EXCEPT !.pc = pc, !.cfg = c, !.id = i, !.side = o]
  OBVIOUS
<1>51. x = [pc |-> pc, cfg |-> c, id |-> i, side |-> o, then |-> "idle"]
  BY <1>50, NobodyChosen
<1>52. PICK t \in {"idle", "running", "ack"} : t = "running"
  OBVIOUS
<1>6. r = [pc |-> pc, cfg |-> c, id |-> i, side |-> o, then |-> t]
  <2>1. r = [x EXCEPT !.then = t]
    BY <1>1, <1>5, <1>50, <1>52
  <2> QED BY <1>51, <2>1
<1>7. pc \in Pcs(j) /\ t \in Thens(j) /\ i \in Nat /\ o \in Placements /\ Config(c)
  <2>1. pc \in Pcs(j)
    BY <1>5, JobNames DEF Pcs, Session, Saving
  <2>2. t \in Thens(j)
    BY <1>52, JobNames DEF Thens, Session
  <2>3. i \in Nat
    BY <1>5, SetupAssumption DEF Ids
  <2> QED BY <1>3, <1>4, <1>5, <2>1, <2>2, <2>3
<1> HIDE DEF j
<1>8. JobOk(j, r)
  <2>1. JobOk(j, [pc |-> pc, cfg |-> c, id |-> i, side |-> o, then |-> t])
    BY <1>3, <1>52, <1>7, JobOf
  <2> QED BY <1>6, <2>1
<1>9. OneJob(j) /\ job'[j] = r /\ Starts(j)
  BY <1>2, <1>3, <1>8, StartIs
<1>10. r.pc = "portals" /\ r.cfg = Stored(m) /\ r.id = id /\ r.side = s
  BY <1>5, <1>6
<1> QED BY <1>2, <1>4, <1>9, <1>10 DEF j

\* The portal replaces at most the one token of the chosen peer.
Renews(m, id, kind) ==
  /\ portal' \in [Machines -> [Ids -> [capture : Nat, remote : Nat]]]
  /\ \A n \in Machines, i \in Ids : n # m \/ i # id => portal'[n][i] = portal[n][i]
  /\ kind = "capture" => portal'[m][id].remote = portal[m][id].remote
  /\ kind = "remote" => portal'[m][id].capture = portal[m][id].capture
  /\ ~Chosen(Session(m)).keep => portal' = portal

\* A portal that is asked with a token gives a new one only to who may keep it.
LEMMA RestoredIs ==
  ASSUME Typing, NEW m \in Machines, NEW id \in Ids, NEW kind \in {"capture", "remote"},
         Restored(m, id, kind)
  PROVE  Renews(m, id, kind)
<1>1. portal \in [Machines -> [Ids -> [capture : Nat, remote : Nat]]]
  BY DEF Typing
<1>2. CASE ~Chosen(Session(m)).keep
  <2>1. portal' = portal
    BY <1>2 DEF Restored
  <2> QED BY <1>1, <2>1 DEF Renews
<1>3. CASE Chosen(Session(m)).keep
  <2>1. portal' = [portal EXCEPT ![m][id][kind] = @ + 1]
    BY <1>3 DEF Restored
  <2>2. portal[m] \in [Ids -> [capture : Nat, remote : Nat]]
    BY <1>1
  <2>3. portal[m][id] \in [capture : Nat, remote : Nat]
    BY <2>2
  <2>4. PICK t \in [capture : Nat, remote : Nat] :
          /\ t = [portal[m][id] EXCEPT ![kind] = @ + 1]
          /\ kind = "capture" => t.remote = portal[m][id].remote
          /\ kind = "remote" => t.capture = portal[m][id].capture
    <3>1. PICK a \in Nat, b \in Nat : portal[m][id] = [capture |-> a, remote |-> b]
      BY <2>3
    <3>2. CASE kind = "capture"
      <4>1. [portal[m][id] EXCEPT ![kind] = @ + 1] = [capture |-> a + 1, remote |-> b]
        BY <3>1, <3>2
      <4>2. [capture |-> a + 1, remote |-> b] \in [capture : Nat, remote : Nat]
        OBVIOUS
      <4> QED BY <3>1, <3>2, <4>1, <4>2
    <3>3. CASE kind = "remote"
      <4>1. [portal[m][id] EXCEPT ![kind] = @ + 1] = [capture |-> a, remote |-> b + 1]
        BY <3>1, <3>3
      <4>2. [capture |-> a, remote |-> b + 1] \in [capture : Nat, remote : Nat]
        OBVIOUS
      <4> QED BY <3>1, <3>3, <4>1, <4>2
    <3> QED BY <3>2, <3>3
  <2>5. PICK f : f = [portal[m] EXCEPT ![id] = t]
    OBVIOUS
  <2>6. portal' = [portal EXCEPT ![m] = f]
    BY <2>1, <2>4, <2>5
  <2>7. f \in [Ids -> [capture : Nat, remote : Nat]] /\ f[id] = t
        /\ \A i \in Ids : i # id => f[i] = portal[m][i]
    BY <2>2, <2>4, <2>5
  <2>8. portal' \in [Machines -> [Ids -> [capture : Nat, remote : Nat]]] /\ portal'[m] = f
        /\ \A n \in Machines : n # m => portal'[n] = portal[n]
    BY <1>1, <2>6, <2>7
  <2> QED BY <1>3, <2>4, <2>7, <2>8 DEF Renews
<1> QED BY <1>2, <1>3

\* What a session goes on with after the portal has answered.
Stores(j, kinds) ==
  /\ job'[j].pc = "create" /\ job'[j].id = job[j].id /\ job'[j].side = job[j].side
  /\ SameBut(Recs(job[j].cfg), Recs(job'[j].cfg), job[j].id)
  /\ \A p \in Recs(job'[j].cfg) : p.id = job[j].id =>
       \E q \in Recs(job[j].cfg) : /\ q.id = job[j].id /\ p.keep = q.keep
                                   /\ p = Given(q, kinds, portal'[On(j)][job[j].id])
GoesOn(j) ==
  /\ job'[j].pc = "running" /\ job'[j].id = job[j].id /\ job'[j].side = job[j].side
  /\ Recs(job'[j].cfg) = {} /\ job'[j].cfg = NoCopy

\* A session that saves its tokens keeps those of its peer, if it may.
LEMMA PersistIs ==
  ASSUME Typing, NEW j \in {"hostSession", "clientSession"}, NEW kinds,
         NEW then \in {"running", "idle"}, Has(job[j].cfg, job[j].id), job[j].id \in Ids,
         portal' \in [Machines -> [Ids -> [capture : Nat, remote : Nat]]],
         Persist(j, kinds, then)
  PROVE  /\ OneJob(j)
         /\ Chosen(j) \in Recs(job[j].cfg) /\ Chosen(j).id = job[j].id
         /\ \/ Chosen(j).keep /\ Stores(j, kinds)
            \/ ~Chosen(j).keep /\ then = "idle" /\ job'[j] = Nobody
            \/ ~Chosen(j).keep /\ then = "running" /\ GoesOn(j)
<1>1. JobsOk /\ j \in Jobs /\ On(j) \in Machines
  BY JobsTyped, JobNames
<1>2. JobOk(j, job[j])
  BY <1>1 DEF JobsOk
<1>3. Config(job[j].cfg) /\ job[j].then \in {"idle", "running", "ack"}
  BY <1>1, <1>2, JobFields
<1>4. Chosen(j) \in Recs(job[j].cfg) /\ Chosen(j).id = job[j].id
  BY <1>3, PeerOfIs DEF Chosen
<1>5. then \in Thens(j) /\ then \in {"idle", "running", "ack"} /\ "running" \in Pcs(j)
      /\ "create" \in Pcs(j)
  BY DEF Thens, Pcs, Saving
<1>6. CASE Chosen(j).keep
  <2>1. PICK tokens \in [capture : Nat, remote : Nat] : tokens = portal'[On(j)][job[j].id]
    <3>1. portal'[On(j)][job[j].id] \in [capture : Nat, remote : Nat]
      BY <1>1
    <3> QED BY <3>1, Zenon
  <2>2. PICK c : c = SetTokens(job[j].cfg, job[j].id, kinds, tokens)
    OBVIOUS
  <2>3. /\ Config(c) /\ SameBut(Recs(job[j].cfg), Recs(c), job[j].id)
        /\ \A p \in Recs(c) : p.id = job[j].id =>
             \E q \in Recs(job[j].cfg) : q.id = job[j].id /\ p.keep = q.keep
                                         /\ p = Given(q, kinds, tokens)
    BY <1>3, <2>2, SetTokensIs
  <2>4. PICK r : r = [job[j] EXCEPT !.pc = "create", !.then = then, !.cfg = c]
    OBVIOUS
  <2>5. job' = [job EXCEPT ![j] = r]
    BY <1>6, <2>1, <2>2, <2>4 DEF Persist
  <2>6. r = [pc |-> "create", cfg |-> c, id |-> job[j].id, side |-> job[j].side, then |-> then]
    <3>1. \A d, t : [job[j] EXCEPT !.pc = "create", !.then = t, !.cfg = d]
                      = [pc |-> "create", cfg |-> d, id |-> job[j].id, side |-> job[j].side,
                         then |-> t]
      BY <1>1, <1>2, JobWith, Zenon
    <3> QED BY <2>4, <3>1
  <2>7. JobOk(j, r)
    BY <1>1, <1>2, <1>5, <2>3, <2>6, JobStays
  <2>8. OneJob(j) /\ job'[j] = r
    BY <1>1, <2>5, <2>7, OneJobOk
  <2>9. r.pc = "create" /\ r.cfg = c /\ r.id = job[j].id /\ r.side = job[j].side
    BY <2>6
  <2>10. Stores(j, kinds)
    BY <2>1, <2>3, <2>8, <2>9 DEF Stores
  <2> QED BY <1>4, <1>6, <2>8, <2>10
<1>7. CASE ~Chosen(j).keep /\ then = "idle"
  <2>1. job' = [job EXCEPT ![j] = Nobody]
    BY <1>7 DEF Persist
  <2>2. OneJob(j) /\ job'[j] = Nobody
    BY <1>1, <2>1, NobodyOk, OneJobOk
  <2> QED BY <1>4, <1>7, <2>2
<1>8. CASE ~Chosen(j).keep /\ then = "running"
  <2>1. PICK r : r = [job[j] EXCEPT !.pc = then, !.cfg = NoCopy]
    OBVIOUS
  <2>2. job' = [job EXCEPT ![j] = r]
    BY <1>8, <2>1 DEF Persist
  <2>3. r = [pc |-> then, cfg |-> NoCopy, id |-> job[j].id, side |-> job[j].side,
             then |-> job[j].then]
    <3>1. \A d : [job[j] EXCEPT !.pc = then, !.cfg = d]
                   = [pc |-> then, cfg |-> d, id |-> job[j].id, side |-> job[j].side,
                      then |-> job[j].then]
      BY <1>1, <1>2, JobWith, Zenon
    <3> QED BY <2>1, <3>1
  <2>4. Config(NoCopy) /\ Recs(NoCopy) = {}
    BY <1>1, NobodyOk DEF JobOk
  <2>5. then \in Pcs(j) /\ job[j].then \in Thens(j)
    BY <1>2, <1>5, <1>8 DEF JobOk
  <2>6. JobOk(j, r)
    BY <1>1, <1>2, <1>3, <2>3, <2>4, <2>5, JobStays
  <2>7. OneJob(j) /\ job'[j] = r
    BY <1>1, <2>2, <2>6, OneJobOk
  <2>8. r.pc = "running" /\ r.cfg = NoCopy /\ r.id = job[j].id /\ r.side = job[j].side
    BY <1>8, <2>3
  <2>9. GoesOn(j)
    BY <2>4, <2>7, <2>8 DEF GoesOn
  <2> QED BY <1>4, <1>8, <2>7, <2>9
<1> QED BY <1>6, <1>7, <1>8

\* All that a session leaves alone when the portal answers.
LEMMA ElsewhereIs ==
  ASSUME UNCHANGED Elsewhere
  PROVE  UNCHANGED <<file, tmp, behind, torn, failures, pairLink, topoLink, restart, made, starts,
                     faults, unpaired, removed>>
BY DEF Elsewhere, store, network

\* The host's session has its input capture.
LEMMA HostPortalStartsIs ==
  ASSUME Typing, ChosenThere, HostPortalStarts
  PROVE  LET j == "hostSession" IN
         /\ OneJob(j) /\ job[j].pc = "portals" /\ job[j].id \in Ids
         /\ Renews("host", job[j].id, "capture")
         /\ Chosen(j) \in Recs(job[j].cfg) /\ Chosen(j).id = job[j].id
         /\ \/ Chosen(j).keep /\ Stores(j, {"capture"})
            \/ ~Chosen(j).keep /\ GoesOn(j)
         /\ UNCHANGED <<file, tmp, behind, torn, failures, pairLink, topoLink, restart, made, starts,
                        faults, unpaired, removed>>
<1> DEFINE j == "hostSession"
<1>1. /\ job[j].pc = "portals" /\ Restored("host", job[j].id, "capture")
      /\ Persist(j, {"capture"}, "running") /\ UNCHANGED Elsewhere
  BY DEF HostPortalStarts
<1>2. job[j].id \in Ids /\ Has(job[j].cfg, job[j].id) /\ "host" \in Machines
  BY <1>1, JobNames DEF ChosenThere
<1>3. Renews("host", job[j].id, "capture")
  BY <1>1, <1>2, RestoredIs
<1>4. /\ OneJob(j) /\ Chosen(j) \in Recs(job[j].cfg) /\ Chosen(j).id = job[j].id
      /\ \/ Chosen(j).keep /\ Stores(j, {"capture"})
         \/ ~Chosen(j).keep /\ GoesOn(j)
  <2>1. portal' \in [Machines -> [Ids -> [capture : Nat, remote : Nat]]]
    BY <1>3 DEF Renews
  <2>2. PICK t \in {"running", "idle"} : t = "running"
    OBVIOUS
  <2>7. PICK k : k = {"capture"}
    OBVIOUS
  <2>3. PICK i \in {"hostSession", "clientSession"} : i = j
    OBVIOUS
  <2>4. Persist(i, k, t) /\ Has(job[i].cfg, job[i].id) /\ job[i].id \in Ids
    BY <1>1, <1>2, <2>2, <2>3, <2>7
  <2> HIDE DEF j
  <2>5. /\ OneJob(i) /\ Chosen(i) \in Recs(job[i].cfg) /\ Chosen(i).id = job[i].id
        /\ \/ Chosen(i).keep /\ Stores(i, k)
           \/ ~Chosen(i).keep /\ t = "idle" /\ job'[i] = Nobody
           \/ ~Chosen(i).keep /\ t = "running" /\ GoesOn(i)
    BY <2>1, <2>2, <2>3, <2>4, PersistIs
  <2>6. t # "idle"
    BY <2>2
  <2> QED BY <2>2, <2>3, <2>5, <2>6, <2>7, Zenon
<1> QED BY <1>1, <1>2, <1>3, <1>4, ElsewhereIs

\* The client's session has its remote desktop and asks for the watcher.
LEMMA RemoteDesktopStartsIs ==
  ASSUME Typing, ChosenThere, RemoteDesktopStarts
  PROVE  LET j == "clientSession" IN
         /\ OneJob(j) /\ job[j].pc = "portals" /\ job[j].id \in Ids
         /\ Has(job[j].cfg, job[j].id)
         /\ job'[j].pc = "watcher" /\ job'[j].cfg = job[j].cfg /\ job'[j].id = job[j].id
         /\ job'[j].side = job[j].side
         /\ Renews("client", job[j].id, "remote")
         /\ Chosen(j) \in Recs(job[j].cfg) /\ Chosen(j).id = job[j].id
         /\ UNCHANGED <<file, tmp, behind, torn, failures, pairLink, topoLink, restart, made, starts,
                        faults, unpaired, removed>>
<1> DEFINE j == "clientSession"
<1>1. /\ job[j].pc = "portals" /\ Restored("client", job[j].id, "remote")
      /\ UNCHANGED Elsewhere
  BY DEF RemoteDesktopStarts
<1>2. job[j].id \in Ids /\ Has(job[j].cfg, job[j].id) /\ "client" \in Machines
  BY <1>1, JobNames DEF ChosenThere
<1>3. Renews("client", job[j].id, "remote")
  BY <1>1, <1>2, RestoredIs
<1>4. JobsOk /\ j \in Jobs /\ JobOk(j, job[j]) /\ Config(job[j].cfg)
      /\ job[j].then \in Thens(j) /\ job[j].then \in {"idle", "running", "ack"}
  BY JobsTyped, JobNames, JobFields DEF JobsOk, JobOk
<1>5. Chosen(j) \in Recs(job[j].cfg) /\ Chosen(j).id = job[j].id
  BY <1>2, <1>4, PeerOfIs DEF Chosen
<1>6. PICK r : r = [job[j] EXCEPT !.pc = "watcher"]
  OBVIOUS
<1>7. r = [pc |-> "watcher", cfg |-> job[j].cfg, id |-> job[j].id, side |-> job[j].side,
           then |-> job[j].then]
  BY <1>4, <1>6, JobFields
<1>8. job' = [job EXCEPT ![j] = r]
  BY <1>4, <1>6 DEF RemoteDesktopStarts, JobsOk
<1>9. JobOk(j, r)
  <2>1. "watcher" \in Pcs(j)
    BY DEF Pcs
  <2> QED BY <1>4, <1>7, <2>1, JobStays
<1>10. OneJob(j) /\ job'[j] = r
  BY <1>4, <1>8, <1>9, OneJobOk
<1>11. r.pc = "watcher" /\ r.cfg = job[j].cfg /\ r.id = job[j].id /\ r.side = job[j].side
  BY <1>7
<1> QED BY <1>1, <1>2, <1>3, <1>5, <1>10, <1>11, ElsewhereIs

\* The client's session has its watcher.
LEMMA WatcherStartsIs ==
  ASSUME Typing, ChosenThere, WatcherStarts
  PROVE  LET j == "clientSession" IN
         /\ OneJob(j) /\ job[j].pc = "watcher" /\ job[j].id \in Ids
         /\ Renews("client", job[j].id, "capture")
         /\ Chosen(j) \in Recs(job[j].cfg) /\ Chosen(j).id = job[j].id
         /\ \/ Chosen(j).keep /\ Stores(j, {"capture", "remote"})
            \/ ~Chosen(j).keep /\ GoesOn(j)
         /\ UNCHANGED <<file, tmp, behind, torn, failures, pairLink, topoLink, restart, made, starts,
                        faults, unpaired, removed>>
<1> DEFINE j == "clientSession"
<1>1. /\ job[j].pc = "watcher" /\ Restored("client", job[j].id, "capture")
      /\ Persist(j, {"capture", "remote"}, "running") /\ UNCHANGED Elsewhere
  BY DEF WatcherStarts
<1>2. job[j].id \in Ids /\ Has(job[j].cfg, job[j].id) /\ "client" \in Machines
  BY <1>1, JobNames DEF ChosenThere
<1>3. Renews("client", job[j].id, "capture")
  BY <1>1, <1>2, RestoredIs
<1>4. /\ OneJob(j) /\ Chosen(j) \in Recs(job[j].cfg) /\ Chosen(j).id = job[j].id
      /\ \/ Chosen(j).keep /\ Stores(j, {"capture", "remote"})
         \/ ~Chosen(j).keep /\ GoesOn(j)
  <2>1. portal' \in [Machines -> [Ids -> [capture : Nat, remote : Nat]]]
    BY <1>3 DEF Renews
  <2>2. PICK t \in {"running", "idle"} : t = "running"
    OBVIOUS
  <2>7. PICK k : k = {"capture", "remote"}
    OBVIOUS
  <2>3. PICK i \in {"hostSession", "clientSession"} : i = j
    OBVIOUS
  <2>4. Persist(i, k, t) /\ Has(job[i].cfg, job[i].id) /\ job[i].id \in Ids
    BY <1>1, <1>2, <2>2, <2>3, <2>7
  <2> HIDE DEF j
  <2>5. /\ OneJob(i) /\ Chosen(i) \in Recs(job[i].cfg) /\ Chosen(i).id = job[i].id
        /\ \/ Chosen(i).keep /\ Stores(i, k)
           \/ ~Chosen(i).keep /\ t = "idle" /\ job'[i] = Nobody
           \/ ~Chosen(i).keep /\ t = "running" /\ GoesOn(i)
    BY <2>1, <2>2, <2>3, <2>4, PersistIs
  <2>6. t # "idle"
    BY <2>2
  <2> QED BY <2>2, <2>3, <2>5, <2>6, <2>7, Zenon
<1> QED BY <1>1, <1>2, <1>3, <1>4, ElsewhereIs

\* The watcher is refused, and the session stores the token it was given.
LEMMA WatcherRefusedIs ==
  ASSUME Typing, ChosenThere, WatcherRefused
  PROVE  LET j == "clientSession" IN
         /\ OneJob(j) /\ job[j].pc = "watcher" /\ job[j].id \in Ids
         /\ Chosen(j) \in Recs(job[j].cfg) /\ Chosen(j).id = job[j].id
         /\ \/ Chosen(j).keep /\ Stores(j, {"remote"})
            \/ ~Chosen(j).keep /\ job'[j] = Nobody
         /\ UNCHANGED <<file, tmp, behind, torn, failures, pairLink, topoLink, restart, made, starts,
                        faults, unpaired, removed, portal>>
<1> DEFINE j == "clientSession"
<1>1. /\ job[j].pc = "watcher" /\ Persist(j, {"remote"}, "idle") /\ UNCHANGED Elsewhere
      /\ portal' = portal
  BY DEF WatcherRefused, Remembered
<1>2. job[j].id \in Ids /\ Has(job[j].cfg, job[j].id) /\ "client" \in Machines
  BY <1>1, JobNames DEF ChosenThere
<1>4. /\ OneJob(j) /\ Chosen(j) \in Recs(job[j].cfg) /\ Chosen(j).id = job[j].id
      /\ \/ Chosen(j).keep /\ Stores(j, {"remote"})
         \/ ~Chosen(j).keep /\ job'[j] = Nobody
  <2>1. portal' \in [Machines -> [Ids -> [capture : Nat, remote : Nat]]]
    BY <1>1 DEF Typing
  <2>2. PICK t \in {"running", "idle"} : t = "idle"
    OBVIOUS
  <2>7. PICK k : k = {"remote"}
    OBVIOUS
  <2>3. PICK i \in {"hostSession", "clientSession"} : i = j
    OBVIOUS
  <2>4. Persist(i, k, t) /\ Has(job[i].cfg, job[i].id) /\ job[i].id \in Ids
    BY <1>1, <1>2, <2>2, <2>3, <2>7
  <2> HIDE DEF j
  <2>5. /\ OneJob(i) /\ Chosen(i) \in Recs(job[i].cfg) /\ Chosen(i).id = job[i].id
        /\ \/ Chosen(i).keep /\ Stores(i, k)
           \/ ~Chosen(i).keep /\ t = "idle" /\ job'[i] = Nobody
           \/ ~Chosen(i).keep /\ t = "running" /\ GoesOn(i)
    BY <2>1, <2>2, <2>3, <2>4, PersistIs
  <2>6. t # "running"
    BY <2>2
  <2> QED BY <2>2, <2>3, <2>5, <2>6, <2>7, Zenon
<1> QED BY <1>1, <1>2, <1>4, ElsewhereIs

\* A command has loaded the file and changed its copy.
LEMMA EditsIs ==
  ASSUME Typing, NEW m \in Machines, Edits(m)
  PROVE  /\ OneJob(Edit(m)) /\ Starts(Edit(m)) /\ job'[Edit(m)].pc = "create"
         /\ job'[Edit(m)].id = 0
         /\ \/ removed' = removed /\ Recs(job'[Edit(m)].cfg) = Records(m)
            \/ \E id \in Ids : /\ removed' = removed \cup {id}
                               /\ Recs(job'[Edit(m)].cfg) = Without(Records(m), id)
         /\ UNCHANGED <<file, tmp, failures, pairLink, topoLink, restart, portal, made, faults, torn,
                        unpaired>>
<1> DEFINE j == Edit(m)
<1>1. Config(Stored(m)) /\ Recs(Stored(m)) = Records(m) /\ j \in Jobs
  BY StoredIs, JobNames
<1>2. ASSUME NEW c, Config(c), Start(j, [Nobody EXCEPT !.pc = "create", !.cfg = c])
      PROVE  OneJob(j) /\ Starts(j) /\ job'[j].pc = "create" /\ job'[j].id = 0 /\ job'[j].cfg = c
  <2>1. PICK r : r = [Nobody EXCEPT !.pc = "create", !.cfg = c]
    OBVIOUS
  <2>2. r = [pc |-> "create", cfg |-> c, id |-> 0, side |-> "left", then |-> "idle"]
    BY <2>1, NobodyWith
  <2>3. "create" \in Pcs(j) /\ j # "control"
    BY JobNames DEF Pcs, Saving, Edit
  <2>4. JobOk(j, r)
    BY <1>1, <1>2, <2>2, <2>3, BeginsOk
  <2>5. OneJob(j) /\ job'[j] = r /\ Starts(j)
    BY <1>1, <1>2, <2>1, <2>4, StartIs
  <2> QED BY <2>2, <2>5
<1>3. CASE SetLocalName(m, "renamed")
  <2>1. PICK c : c = [Stored(m) EXCEPT !.name = "renamed"]
    OBVIOUS
  <2>2. c = [name |-> "renamed", peers |-> Stored(m).peers]
    BY <1>1, <2>1 DEF Config, Configs
  <2>3. Config(c)
    BY <1>1, <2>2 DEF Config, Configs, Names
  <2>4. Recs(c) = Records(m)
    BY <1>1, <2>2 DEF Recs
  <2>5. Start(j, [Nobody EXCEPT !.pc = "create", !.cfg = c]) /\ removed' = removed
        /\ UNCHANGED <<file, tmp, failures, pairLink, topoLink, restart, portal, made, faults, torn,
                       unpaired>>
    BY <1>3, <2>1 DEF SetLocalName, Stored, network
  <2> HIDE DEF j
  <2>6. OneJob(j) /\ Starts(j) /\ job'[j].pc = "create" /\ job'[j].id = 0 /\ job'[j].cfg = c
    BY <1>2, <2>3, <2>5
  <2> QED BY <2>4, <2>5, <2>6 DEF j
<1>4. ASSUME NEW id \in Ids, PeerRemove(m, id)
      PROVE  /\ OneJob(j) /\ Starts(j) /\ job'[j].pc = "create" /\ job'[j].id = 0
             /\ removed' = removed \cup {id} /\ Recs(job'[j].cfg) = Without(Records(m), id)
             /\ UNCHANGED <<file, tmp, failures, pairLink, topoLink, restart, portal, made, faults,
                            torn, unpaired>>
  <2>1. PICK c : c = RemovePeer(Stored(m), id)
    OBVIOUS
  <2>2. Config(c) /\ Recs(c) = Without(Records(m), id)
    BY <1>1, <2>1, RemovePeerLeaves
  <2>3. Start(j, [Nobody EXCEPT !.pc = "create", !.cfg = c]) /\ removed' = removed \cup {id}
        /\ UNCHANGED <<file, tmp, failures, pairLink, topoLink, restart, portal, made, faults, torn,
                       unpaired>>
    BY <1>4, <2>1 DEF PeerRemove, Stored, network
  <2> HIDE DEF j
  <2>4. OneJob(j) /\ Starts(j) /\ job'[j].pc = "create" /\ job'[j].id = 0 /\ job'[j].cfg = c
    BY <1>2, <2>2, <2>3
  <2> QED BY <2>2, <2>3, <2>4
<1>5. SetLocalName(m, "renamed") \/ \E id \in Ids : PeerRemove(m, id)
  BY DEF Edits
<1> QED BY <1>3, <1>4, <1>5

-----------------------------------------------------------------------------
(* What the steps have in common                                           *)

\* A step that changes nothing is one in which nothing ends.
LEMMA StutterQuits ==
  ASSUME Typing, UNCHANGED vars
  PROVE  Quits
<1>1. /\ UNCHANGED <<file, tmp, job, failures, pairLink, topoLink, restart, portal, made, starts,
                     faults, behind, torn, unpaired, removed>>
  BY DEF vars
<1>2. /\ failures \in Nat /\ faults \in 0..MaxFaults /\ torn \in [Machines -> BOOLEAN]
      /\ unpaired \in BOOLEAN /\ restart \in BOOLEAN /\ DOMAIN job = Jobs
      /\ tmp \in [Machines -> BOOLEAN] /\ faults \in Int /\ MaxFaults \in Nat
  BY SameQuits
<1>3. NoRecord.kind = "none"
  BY DEF NoRecord
<1>4. QuitJobs
  BY <1>1, <1>2 DEF QuitJobs
<1>5. QuitLinks
  BY <1>1, <1>3 DEF QuitLinks
<1>6. QuitRest
  BY <1>1, <1>2 DEF QuitRest
<1> QED BY <1>4, <1>5, <1>6 DEF Quits

\* A record that is placed is the same but for its side.
LEMMA PlacedIs ==
  ASSUME NEW R, R \subseteq PeerRecs, NEW id, NEW s
  PROVE  /\ \A p \in Placed(R, id, s) : \E q \in R :
              /\ p.id = q.id /\ p.at = q.at /\ p.keep = q.keep
              /\ p.capture = q.capture /\ p.remote = q.remote
              /\ p.side = IF q.id = id THEN s ELSE q.side
         /\ \A q \in R : \E p \in Placed(R, id, s) :
              /\ p.id = q.id /\ p.at = q.at /\ p.keep = q.keep
              /\ p.capture = q.capture /\ p.remote = q.remote
              /\ p.side = IF q.id = id THEN s ELSE q.side
<1>1. ASSUME NEW q \in R, NEW p, p = IF q.id = id THEN [q EXCEPT !.side = s] ELSE q
      PROVE  /\ p.id = q.id /\ p.at = q.at /\ p.keep = q.keep
             /\ p.capture = q.capture /\ p.remote = q.remote
             /\ p.side = IF q.id = id THEN s ELSE q.side
  <2>1. q \in PeerRecs
    OBVIOUS
  <2>2. q = [id |-> q.id, at |-> q.at, side |-> q.side, keep |-> q.keep,
             capture |-> q.capture, remote |-> q.remote]
    BY <2>1 DEF PeerRecs
  <2>3. CASE q.id = id
    <3>1. p = [id |-> q.id, at |-> q.at, side |-> s, keep |-> q.keep,
               capture |-> q.capture, remote |-> q.remote]
      BY <1>1, <2>2, <2>3
    <3> QED BY <2>3, <3>1
  <2>4. CASE q.id # id
    BY <1>1, <2>4
  <2> QED BY <2>3, <2>4
<1>2. ASSUME NEW p \in Placed(R, id, s)
      PROVE  \E q \in R : p = IF q.id = id THEN [q EXCEPT !.side = s] ELSE q
  BY DEF Placed
<1>3. ASSUME NEW q \in R
      PROVE  \E p \in Placed(R, id, s) : p = IF q.id = id THEN [q EXCEPT !.side = s] ELSE q
  BY DEF Placed
<1> QED BY <1>1, <1>2, <1>3

\* What a process has in its copy it had before, or has from the file.
From(j) ==
  \A p \in Recs(job'[j].cfg) : \E q \in Records(On(j)) \cup Recs(job[j].cfg) :
    p.id = q.id /\ p.keep = q.keep

\* One process goes on; no file is written.
Moves(j) ==
  /\ OneJob(j) /\ job'[j].pc # "write" /\ job[j].pc \notin Saving
  /\ UNCHANGED <<file, tmp, torn, unpaired, faults>>
  /\ behind' \in {behind, behind \ {j}}
  /\ starts' \in 0..MaxStarts /\ failures' \in Nat
  /\ restart' \in BOOLEAN /\ (restart => restart')
  /\ removed \subseteq removed' /\ removed' \subseteq Ids
  /\ portal' \in [Machines -> [Ids -> [capture : Nat, remote : Nat]]]
  /\ \A m \in Machines, i \in Ids :
       portal'[m][i] = portal[m][i]
         \/ (m = On(j) /\ i = job[j].id /\ \E p \in Recs(job[j].cfg) : p.id = i)

\* The same, in a step that makes no id known that was not.
Known(j) ==
  /\ From(j) /\ made' = made
  /\ \/ job'[j].id \in {0, job[j].id}
     \/ /\ \E p \in Records(On(j)) : p.id = job'[j].id
        /\ j = "apply" => job'[j].id = job["clientSession"].id
  /\ j # "pairHost" => pairLink' = pairLink
  /\ j = "pairHost" => /\ pairLink = NoRecord /\ pairLink'.kind = "request"
                       /\ pairLink' \in PairRecords
  /\ j = "pairHost" => job'[j].pc = "asked"
  /\ j = "pairClient" => job'[j].pc = "listening"
  /\ topoLink' \in TopoRecords

\* A process that has chosen a peer has it in its copy.
Chooses(j) ==
  /\ job'[j].pc \in {"asked", "portals", "watcher"} =>
       j = "pairHost" \/ Has(job'[j].cfg, job'[j].id)
  /\ j \in {"hostSession", "clientSession"} /\ job'[j].pc # "idle" => job'[j].id \in Ids

\* What is typed and not file or processes.
OtherTypes ==
  /\ tmp \in [Machines -> BOOLEAN] /\ torn \in [Machines -> BOOLEAN]
  /\ failures \in Nat
  /\ pairLink \in PairRecords /\ topoLink \in TopoRecords
  /\ restart \in BOOLEAN /\ unpaired \in BOOLEAN
  /\ portal \in [Machines -> [Ids -> [capture : Nat, remote : Nat]]]
  /\ made \in 0..MaxPairings /\ starts \in 0..MaxStarts /\ faults \in 0..MaxFaults
  /\ behind \subseteq Jobs /\ removed \subseteq Ids

\* The types of what is neither a file nor a process.
LEMMA Typed ==
  ASSUME Typing
  PROVE  OtherTypes
BY DEF Typing, OtherTypes

\* A record of PeerRecs has the fields.
LEMMA RecFields ==
  ASSUME NEW p \in PeerRecs
  PROVE  /\ p.id \in Nat \ {0} /\ p.at \in Addresses /\ p.side \in Placements /\ p.keep \in BOOLEAN
         /\ p.capture \in Nat /\ p.remote \in Nat
BY DEF PeerRecs

\* A process that starts, with a copy of the file or none.
LEMMA StartsMove ==
  ASSUME Typing, NEW j \in Jobs, OneJob(j), Starts(j), job'[j].pc \notin {"write"},
         Recs(job'[j].cfg) \subseteq Records(On(j)), j \notin {"pairHost", "pairClient"},
         UNCHANGED <<file, tmp, torn, unpaired, faults, failures, restart, portal, made, pairLink>>,
         removed \subseteq removed', removed' \subseteq Ids, topoLink' \in TopoRecords,
         \/ job'[j].id = 0
         \/ /\ \E p \in Records(On(j)) : p.id = job'[j].id
            /\ j = "apply" => job'[j].id = job["clientSession"].id
  PROVE  Moves(j) /\ Known(j)
<1>1. OtherTypes
  BY Typed
<1>2. job[j].pc \notin Saving /\ behind' = behind \ {j} /\ starts' \in 0..MaxStarts
  BY DEF Starts, Saving
<1>3. Moves(j)
  BY <1>1, <1>2 DEF Moves, OtherTypes
<1>4. Known(j)
  BY DEF Known, From
<1> QED BY <1>3, <1>4

\* A process that goes on: its copy is what it was, or it is placed or given tokens.
LEMMA GoesMove ==
  ASSUME Typing, NEW j \in Jobs, OneJob(j), job'[j].pc \notin {"write"}, job[j].pc \notin Saving,
         j \notin {"pairHost", "pairClient"}, From(j), job'[j].id \in {0, job[j].id},
         UNCHANGED <<file, tmp, torn, unpaired, faults, failures, made, pairLink, removed, starts>>,
         behind' \in {behind, behind \ {j}}, restart' \in BOOLEAN, restart => restart',
         topoLink' \in TopoRecords,
         portal' \in [Machines -> [Ids -> [capture : Nat, remote : Nat]]],
         \A m \in Machines, i \in Ids :
           portal'[m][i] = portal[m][i]
             \/ (m = On(j) /\ i = job[j].id /\ \E p \in Recs(job[j].cfg) : p.id = i)
  PROVE  Moves(j) /\ Known(j)
<1>1. OtherTypes
  BY Typed
<1>2. Moves(j)
  BY <1>1 DEF Moves, OtherTypes
<1>3. Known(j)
  BY DEF Known
<1> QED BY <1>2, <1>3

\* The steps of a session whose portal answers.
LEMMA PortalMoves ==
  ASSUME Typing, ChosenThere, NEW j \in {"hostSession", "clientSession"}, OneJob(j),
         job[j].pc \in {"portals", "watcher"},
         NEW kinds, \/ Stores(j, kinds)
                    \/ GoesOn(j)
                    \/ job'[j] = Nobody
                    \/ /\ job'[j].pc = "watcher" /\ job'[j].cfg = job[j].cfg
                       /\ job'[j].id = job[j].id,
         \/ portal' = portal
         \/ \E kind : Renews(On(j), job[j].id, kind),
         Chosen(j) \in Recs(job[j].cfg), Chosen(j).id = job[j].id,
         UNCHANGED <<file, tmp, behind, torn, failures, pairLink, topoLink, restart, made, starts,
                     faults, unpaired, removed>>
  PROVE  Moves(j) /\ Known(j) /\ Chooses(j)
<1>1. OtherTypes /\ j \in Jobs /\ On(j) \in Machines
  BY Typed, JobNames
<1>2. Nobody.pc = "idle" /\ Nobody.cfg = NoCopy /\ Recs(NoCopy) = {} /\ Nobody.id = 0
  BY <1>1, NobodyOk
<1>3. From(j) /\ job'[j].id \in {0, job[j].id} /\ job'[j].pc # "write"
  <2>1. CASE Stores(j, kinds)
    BY <2>1 DEF Stores, From, SameBut
  <2>2. CASE GoesOn(j)
    BY <2>2 DEF GoesOn, From
  <2>3. CASE job'[j] = Nobody
    BY <1>2, <2>3 DEF From
  <2>4. CASE job'[j].pc = "watcher" /\ job'[j].cfg = job[j].cfg /\ job'[j].id = job[j].id
    BY <2>4 DEF From
  <2> QED BY <2>1, <2>2, <2>3, <2>4
<1>4. /\ portal' \in [Machines -> [Ids -> [capture : Nat, remote : Nat]]]
      /\ \A m \in Machines, i \in Ids :
           portal'[m][i] = portal[m][i]
             \/ (m = On(j) /\ i = job[j].id /\ \E p \in Recs(job[j].cfg) : p.id = i)
  <2>1. CASE portal' = portal
    BY <1>1, <2>1 DEF OtherTypes
  <2>2. ASSUME NEW kind, Renews(On(j), job[j].id, kind)
        PROVE  /\ portal' \in [Machines -> [Ids -> [capture : Nat, remote : Nat]]]
               /\ \A m \in Machines, i \in Ids : 
                    m # On(j) \/ i # job[j].id => portal'[m][i] = portal[m][i]
    BY <2>2 DEF Renews
  <2> QED BY <2>1, <2>2
<1>5. job[j].pc \notin Saving /\ j \notin {"pairHost", "pairClient"}
  BY DEF Saving
<1>6. Chooses(j)
  <2>1. job[j].id \in Ids /\ Has(job[j].cfg, job[j].id)
    BY DEF ChosenThere
  <2>2. CASE Stores(j, kinds)
    BY <2>1, <2>2 DEF Stores, Chooses
  <2>3. CASE GoesOn(j)
    BY <2>1, <2>3 DEF GoesOn, Chooses
  <2>4. CASE job'[j] = Nobody
    BY <1>2, <2>4 DEF Chooses
  <2>5. CASE job'[j].pc = "watcher" /\ job'[j].cfg = job[j].cfg /\ job'[j].id = job[j].id
    BY <2>1, <2>5 DEF Chooses
  <2> QED BY <2>2, <2>3, <2>4, <2>5
<1> QED BY <1>1, <1>3, <1>4, <1>5, <1>6, GoesMove DEF OtherTypes

\* Where ids come from in each of the steps.
LEMMA WorksAre ==
  ASSUME Typing, IdsMade, Pairings, Exchange, ChosenThere, Works
  PROVE  \/ \E j \in Jobs : Creates(j) \/ Rename(j) \/ (Moves(j) /\ Known(j) /\ Chooses(j))
         \/ \E at \in Addresses, keep \in BOOLEAN : Grant(at, keep)
         \/ TakeGrant
<1>0. OtherTypes /\ JobsOk /\ NoRecord.kind = "none"
  BY Typed, JobsTyped DEF NoRecord
<1>1. CASE PairClientStarts
  <2> DEFINE j == "pairClient"
  <2>1. /\ OneJob(j) /\ Starts(j) /\ job'[j].pc = "listening" /\ job'[j].cfg = Stored("client")
        /\ job'[j].id = 0 /\ failures' = 0
        /\ UNCHANGED <<file, tmp, pairLink, topoLink, restart, portal, made, faults, torn, unpaired,
                       removed>>
    BY <1>1, PairClientStartsIs
  <2>2. Recs(job'[j].cfg) = Records("client") /\ On(j) = "client" /\ j \in Jobs
    BY <2>1, JobNames, StoredIs DEF On
  <2>3. job[j].pc \notin Saving /\ behind' = behind \ {j} /\ starts' \in 0..MaxStarts
    BY <2>1 DEF Starts, Saving
  <2>4. failures' \in Nat
    BY <2>1
  <2>5. Moves(j)
    BY <1>0, <2>1, <2>3, <2>4 DEF Moves, OtherTypes
  <2>6. Known(j)
    BY <1>0, <2>1, <2>2 DEF Known, From, OtherTypes
  <2>7. Chooses(j)
    BY <2>1 DEF Chooses
  <2> QED BY <2>2, <2>5, <2>6, <2>7
<1>2. ASSUME NEW side \in Asked, NEW keep \in BOOLEAN, PairHostStarts(side, keep)
      PROVE  \E j \in Jobs : Moves(j) /\ Known(j) /\ Chooses(j)
  <2> DEFINE j == "pairHost"
  <2>1. /\ OneJob(j) /\ Starts(j) /\ job'[j].pc = "asked" /\ job'[j].cfg = NoCopy
        /\ job'[j].id = 0 /\ Recs(NoCopy) = {}
        /\ pairLink = NoRecord /\ pairLink' \in PairRecords /\ pairLink'.kind = "request"
        /\ UNCHANGED <<file, tmp, failures, topoLink, restart, portal, made, faults, torn, unpaired,
                       removed>>
    BY <1>2, PairHostStartsIs
  <2>2. On(j) = "host" /\ j \in Jobs /\ Recs(job'[j].cfg) = {}
    BY <2>1, JobNames DEF On
  <2>3. job[j].pc \notin Saving /\ behind' = behind \ {j} /\ starts' \in 0..MaxStarts
    BY <2>1 DEF Starts, Saving
  <2>4. Moves(j)
    BY <1>0, <2>1, <2>3 DEF Moves, OtherTypes
  <2>5. Known(j)
    BY <1>0, <2>1, <2>2 DEF Known, From, OtherTypes
  <2>6. Chooses(j)
    BY <2>1 DEF Chooses
  <2> QED BY <2>2, <2>4, <2>5, <2>6
<1>3. ASSUME NEW id \in Ids, NEW side \in Asked, ApplyStarts(id, side)
      PROVE  \E j \in Jobs : Moves(j) /\ Known(j) /\ Chooses(j)
  <2> DEFINE j == "apply"
  <2>1. /\ OneJob(j) /\ Starts(j) /\ job'[j].pc = "asked" /\ job'[j].cfg = Stored("host")
        /\ job'[j].id = id /\ Has(Stored("host"), id) /\ job["clientSession"].id = id
        /\ topoLink' \in TopoRecords
        /\ UNCHANGED <<file, tmp, failures, pairLink, restart, portal, made, faults, torn, unpaired,
                       removed>>
    BY <1>3, ApplyStartsIs
  <2>2. /\ On(j) = "host" /\ j \in Jobs /\ Recs(job'[j].cfg) = Records("host")
        /\ \E p \in Records("host") : p.id = id
    BY <2>1, JobNames, StoredIs DEF On
  <2>3. Moves(j) /\ Known(j)
    BY <1>0, <2>1, <2>2, StartsMove DEF OtherTypes
  <2>4. Chooses(j)
    BY <2>1 DEF Chooses
  <2> QED BY <2>2, <2>3, <2>4
<1>4. CASE ControlTakes
  <2> DEFINE j == "control"
  <2>1. /\ topoLink' = NoRecord /\ job[j].pc = "idle"
        /\ \/ /\ OneJob(j) /\ behind' = behind \ {j} /\ job'[j].pc = "create" /\ job'[j].id = 0
              /\ Opposite(topoLink.side) \in Placements
              /\ Recs(job'[j].cfg) =
                   Placed(Records("client"), job["clientSession"].id, Opposite(topoLink.side))
           \/ job' = job /\ behind' = behind
        /\ UNCHANGED <<file, tmp, failures, pairLink, restart, portal, made, starts, faults, torn,
                       unpaired, removed>>
    BY <1>4, ControlTakesIs
  <2>2. On(j) = "client" /\ j \in Jobs /\ job[j].pc \notin Saving
    BY <2>1, JobNames DEF On, Saving
  <2>3. topoLink' \in TopoRecords
    BY <2>1 DEF TopoRecords
  <2>4. OneJob(j) /\ From(j) /\ job'[j].id \in {0, job[j].id}
        /\ job'[j].pc \notin {"write", "asked", "portals", "watcher"}
    <3>1. CASE job' = job
      BY <1>0, <2>1, <2>2, <3>1 DEF OneJob, From, JobsOk
    <3>2. CASE /\ OneJob(j) /\ job'[j].pc = "create" /\ job'[j].id = 0
               /\ Recs(job'[j].cfg) =
                    Placed(Records("client"), job["clientSession"].id, Opposite(topoLink.side))
      <4>1. Records("client") \subseteq PeerRecs
        BY StoredIs, JobNames
      <4>2. From(j)
        BY <2>2, <3>2, <4>1, PlacedIs DEF From
      <4> QED BY <3>2, <4>2
    <3> QED BY <2>1, <3>1, <3>2
  <2>5. Moves(j) /\ Known(j)
    BY <1>0, <2>1, <2>2, <2>3, <2>4, GoesMove DEF OtherTypes
  <2>6. Chooses(j)
    BY <2>4 DEF Chooses
  <2> QED BY <2>2, <2>5, <2>6
<1>5. ASSUME NEW sent \in BOOLEAN, ControlAck(sent)
      PROVE  \E j \in Jobs : Moves(j) /\ Known(j) /\ Chooses(j)
  <2> DEFINE j == "control"
  <2>1. /\ OneJob(j) /\ job[j].pc = "ack" /\ job'[j] = Nobody /\ topoLink' \in TopoRecords
        /\ restart' \in BOOLEAN /\ (restart => restart')
        /\ UNCHANGED <<file, tmp, behind, torn, failures, pairLink, portal, made, starts, faults,
                       unpaired, removed>>
    BY <1>5, ControlAckIs
  <2>2. j \in Jobs /\ job[j].pc \notin Saving
    BY <2>1, JobNames DEF Saving
  <2>3. From(j) /\ job'[j].id \in {0, job[j].id}
        /\ job'[j].pc \notin {"write", "asked", "portals", "watcher"}
    <3>1. Nobody.pc = "idle" /\ Nobody.cfg = NoCopy /\ Recs(NoCopy) = {} /\ Nobody.id = 0
      BY <2>2, NobodyOk
    <3> QED BY <2>1, <3>1 DEF From
  <2>4. Moves(j) /\ Known(j)
    BY <1>0, <2>1, <2>2, <2>3, GoesMove DEF OtherTypes
  <2>5. Chooses(j)
    BY <2>3 DEF Chooses
  <2> QED BY <2>2, <2>4, <2>5
<1>6. CASE TakeAck
  <2> DEFINE j == "apply"
  <2>1. /\ OneJob(j) /\ job[j].pc = "asked" /\ topoLink' = NoRecord
        /\ job'[j].pc = "create" /\ job'[j].id = job[j].id
        /\ Recs(job'[j].cfg) = Placed(Recs(job[j].cfg), job[j].id, job[j].side)
        /\ UNCHANGED <<file, tmp, behind, torn, failures, pairLink, restart, portal, made, starts,
                       faults, unpaired, removed>>
    BY <1>6, TakeAckIs
  <2>2. j \in Jobs /\ job[j].pc \notin Saving
    BY <2>1, JobNames DEF Saving
  <2>3. topoLink' \in TopoRecords
    BY <2>1 DEF TopoRecords
  <2>4. From(j)
    <3>1. Config(job[j].cfg)
      BY <1>0, <2>2 DEF JobsOk, JobOk
    <3>2. Recs(job[j].cfg) \subseteq PeerRecs
      BY <3>1, RecsAre
    <3> QED BY <2>1, <3>2, PlacedIs DEF From
  <2>5. Moves(j) /\ Known(j)
    BY <1>0, <2>1, <2>2, <2>3, <2>4, GoesMove DEF OtherTypes
  <2>6. Chooses(j)
    BY <2>1 DEF Chooses
  <2> QED BY <2>2, <2>5, <2>6
<1>7. ASSUME NEW m \in Machines, NEW id \in Ids, SessionStarts(m, id)
      PROVE  \E j \in Jobs : Moves(j) /\ Known(j) /\ Chooses(j)
  <2> DEFINE j == Session(m)
  <2>1. /\ OneJob(j) /\ Starts(j) /\ job'[j].pc = "portals" /\ job'[j].cfg = Stored(m)
        /\ job'[j].id = id /\ \E p \in Records(m) : p.id = id
        /\ UNCHANGED <<file, tmp, failures, pairLink, topoLink, restart, portal, made, faults, torn,
                       unpaired, removed>>
    BY <1>7, SessionStartsIs
  <2>2. /\ On(j) = m /\ j \in Jobs /\ Recs(job'[j].cfg) = Records(m) /\ j # "apply"
        /\ j \notin {"pairHost", "pairClient"}
    BY <2>1, JobNames, StoredIs DEF Session
  <2> HIDE DEF j
  <2>3. Moves(j) /\ Known(j)
    BY <1>0, <2>1, <2>2, StartsMove DEF OtherTypes
  <2>4. Chooses(j)
    BY <2>1, StoredIs DEF Chooses
  <2> QED BY <2>2, <2>3, <2>4
<1>8. CASE HostPortalStarts
  <2> DEFINE j == "hostSession"
  <2>1. /\ OneJob(j) /\ job[j].pc = "portals" /\ Renews("host", job[j].id, "capture")
        /\ Chosen(j) \in Recs(job[j].cfg) /\ Chosen(j).id = job[j].id
        /\ Stores(j, {"capture"}) \/ GoesOn(j)
        /\ UNCHANGED <<file, tmp, behind, torn, failures, pairLink, topoLink, restart, made, starts,
                       faults, unpaired, removed>>
    BY <1>8, HostPortalStartsIs
  <2>2. j \in Jobs /\ On(j) = "host"
    BY JobNames DEF On
  <2>3. Moves(j) /\ Known(j) /\ Chooses(j)
    BY <2>1, <2>2, PortalMoves
  <2> QED BY <2>2, <2>3
<1>9. CASE RemoteDesktopStarts
  <2> DEFINE j == "clientSession"
  <2>1. /\ OneJob(j) /\ job[j].pc = "portals" /\ Renews("client", job[j].id, "remote")
        /\ Chosen(j) \in Recs(job[j].cfg) /\ Chosen(j).id = job[j].id
        /\ job'[j].pc = "watcher" /\ job'[j].cfg = job[j].cfg /\ job'[j].id = job[j].id
        /\ UNCHANGED <<file, tmp, behind, torn, failures, pairLink, topoLink, restart, made, starts,
                       faults, unpaired, removed>>
    BY <1>9, RemoteDesktopStartsIs
  <2>2. j \in Jobs /\ On(j) = "client"
    BY JobNames DEF On
  <2>3. Moves(j) /\ Known(j) /\ Chooses(j)
    BY <2>1, <2>2, PortalMoves
  <2> QED BY <2>2, <2>3
<1>10. CASE WatcherStarts
  <2> DEFINE j == "clientSession"
  <2>1. /\ OneJob(j) /\ job[j].pc = "watcher" /\ Renews("client", job[j].id, "capture")
        /\ Chosen(j) \in Recs(job[j].cfg) /\ Chosen(j).id = job[j].id
        /\ Stores(j, {"capture", "remote"}) \/ GoesOn(j)
        /\ UNCHANGED <<file, tmp, behind, torn, failures, pairLink, topoLink, restart, made, starts,
                       faults, unpaired, removed>>
    BY <1>10, WatcherStartsIs
  <2>2. j \in Jobs /\ On(j) = "client"
    BY JobNames DEF On
  <2>3. Moves(j) /\ Known(j) /\ Chooses(j)
    BY <2>1, <2>2, PortalMoves
  <2> QED BY <2>2, <2>3
<1>11. CASE WatcherRefused
  <2> DEFINE j == "clientSession"
  <2>1. /\ OneJob(j) /\ job[j].pc = "watcher" /\ portal' = portal
        /\ Chosen(j) \in Recs(job[j].cfg) /\ Chosen(j).id = job[j].id
        /\ Stores(j, {"remote"}) \/ job'[j] = Nobody
        /\ UNCHANGED <<file, tmp, behind, torn, failures, pairLink, topoLink, restart, made, starts,
                       faults, unpaired, removed>>
    BY <1>11, WatcherRefusedIs
  <2>2. j \in Jobs /\ On(j) = "client"
    BY JobNames DEF On
  <2>3. Moves(j) /\ Known(j) /\ Chooses(j)
    BY <2>1, <2>2, PortalMoves
  <2> QED BY <2>2, <2>3
<1>12. ASSUME NEW m \in Machines, Edits(m)
       PROVE  \E j \in Jobs : Moves(j) /\ Known(j) /\ Chooses(j)
  <2> DEFINE j == Edit(m)
  <2>1. /\ OneJob(j) /\ Starts(j) /\ job'[j].pc = "create" /\ job'[j].id = 0
        /\ \/ removed' = removed /\ Recs(job'[j].cfg) = Records(m)
           \/ \E id \in Ids : /\ removed' = removed \cup {id}
                              /\ Recs(job'[j].cfg) = Without(Records(m), id)
        /\ UNCHANGED <<file, tmp, failures, pairLink, topoLink, restart, portal, made, faults, torn,
                       unpaired>>
    BY <1>12, EditsIs
  <2>2. On(j) = m /\ j \in Jobs
        /\ j \notin {"pairHost", "pairClient", "hostSession", "clientSession"}
    BY JobNames DEF Edit
  <2>3. Recs(job'[j].cfg) \subseteq Records(On(j)) /\ removed \subseteq removed'
        /\ removed' \subseteq Ids
    BY <1>0, <2>1, <2>2 DEF Without, OtherTypes
  <2> HIDE DEF j
  <2>4. Moves(j) /\ Known(j)
    BY <1>0, <2>1, <2>2, <2>3, StartsMove DEF OtherTypes
  <2>5. Chooses(j)
    BY <2>1, <2>2 DEF Chooses
  <2> QED BY <2>2, <2>4, <2>5
<1> QED
  BY <1>1, <1>2, <1>3, <1>4, <1>5, <1>6, <1>7, <1>8, <1>9, <1>10, <1>11, <1>12 DEF Works

-----------------------------------------------------------------------------
(* Types, and who has the temporary file                                   *)

\* Processes that end, one by one.
LEMMA QuitsAre ==
  ASSUME Typing, Quits
  PROVE  /\ DOMAIN job' = Jobs
         /\ \A k \in Jobs :
              /\ JobOk(k, job'[k]) /\ Recs(job'[k].cfg) \subseteq Recs(job[k].cfg)
              /\ job'[k].cfg \in {job[k].cfg, NoCopy} /\ job'[k].id \in {0, job[k].id}
              /\ \/ job'[k] = job[k]
                 \/ job'[k] = Nobody /\ job'[k].pc = "idle"
                 \/ /\ k = "pairClient" /\ job'[k].pc = "listening" /\ job'[k].cfg = job[k].cfg
                    /\ job[k].pc # "idle" /\ job'[k].id = job[k].id
              /\ job'[k] # job[k] /\ job[k].pc \in Saving \cup {"watcher", "ack"} => torn'[On(k)]
              /\ job'[k] # job[k] /\ k \in {"pairHost", "pairClient"} /\ job[k].pc \in Saving =>
                   unpaired'
<1>1. JobsOk /\ DOMAIN job' = Jobs /\ \A k \in Jobs : job'[k] = job[k] \/ Quit(k)
  BY JobsTyped DEF Quits, QuitJobs
<1>2. ASSUME NEW k \in Jobs
      PROVE  /\ JobOk(k, job'[k]) /\ Recs(job'[k].cfg) \subseteq Recs(job[k].cfg)
             /\ job'[k].cfg \in {job[k].cfg, NoCopy} /\ job'[k].id \in {0, job[k].id}
             /\ \/ job'[k] = job[k]
                \/ job'[k] = Nobody /\ job'[k].pc = "idle"
                \/ /\ k = "pairClient" /\ job'[k].pc = "listening" /\ job'[k].cfg = job[k].cfg
                   /\ job[k].pc # "idle" /\ job'[k].id = job[k].id
             /\ job'[k] # job[k] /\ job[k].pc \in Saving \cup {"watcher", "ack"} => torn'[On(k)]
             /\ job'[k] # job[k] /\ k \in {"pairHost", "pairClient"} /\ job[k].pc \in Saving =>
                  unpaired'
  <2>1. JobOk(k, job[k])
    BY <1>1 DEF JobsOk
  <2>2. CASE job'[k] = job[k]
    BY <2>1, <2>2
  <2>3. CASE job'[k] = Nobody /\ Quit(k)
    BY <2>3, NobodyOk DEF Quit
  <2>4. CASE /\ k = "pairClient" /\ job[k].pc # "idle"
            /\ job'[k] = [job[k] EXCEPT !.pc = "listening"] /\ Quit(k)
    <3>1. /\ JobOk(k, job'[k]) /\ job'[k].pc = "listening" /\ job'[k].cfg = job[k].cfg
          /\ job'[k].id = job[k].id
      BY <2>1, <2>4, ListensOk
    <3> QED BY <2>4, <3>1 DEF Quit
  <2> QED BY <1>1, <2>2, <2>3, <2>4 DEF Quit
<1> QED BY <1>1, <1>2

\* What is stored in a file that is not written is the same.
LEMMA SameStored ==
  ASSUME file' = file, NEW m
  PROVE  Stored(m)' = Stored(m) /\ Records(m)' = Records(m)
BY DEF Records, Stored

\* The types follow from those of the files, the processes and the rest.
LEMMA TypingOf ==
  ASSUME \A m \in Machines : Loads(file'[m]) /\ Config(Stored(m)'),
         DOMAIN file' = Machines, JobsOk', OtherTypes'
  PROVE  Typing'
BY DEF Typing, OtherTypes

\* One process goes on, in a state of its own.
LEMMA OneTyped ==
  ASSUME Typing, NEW j \in Jobs, OneJob(j)
  PROVE  JobsOk'
BY JobsTyped DEF OneJob, JobsOk

\* Every step of a process keeps the types.
LEMMA TypingKept ==
  ASSUME Typing, IdsMade, Pairings, Exchange, ChosenThere, Quits \/ Works
  PROVE  Typing'
<1>1. OtherTypes /\ JobsOk
  BY Typed, JobsTyped
<1>2. ASSUME file' = file
      PROVE  DOMAIN file' = Machines
             /\ \A m \in Machines : Loads(file'[m]) /\ Config(Stored(m)')
  <2>1. \A m \in Machines : Stored(m)' = Stored(m)
    BY <1>2, SameStored
  <2> QED BY <1>2, <2>1 DEF Typing
<1>3. CASE Quits
  <2>1. JobsOk'
    BY <1>3, QuitsAre DEF JobsOk
  <2>2. file' = file
    BY <1>3 DEF Quits, QuitRest
  <2>3. OtherTypes'
    <3>1. QuitRest /\ QuitLinks
      BY <1>3 DEF Quits
    <3>2. NoRecord \in PairRecords /\ NoRecord \in TopoRecords
      BY DEF PairRecords, TopoRecords
    <3>3. pairLink' \in PairRecords /\ topoLink' \in TopoRecords
      BY <1>1, <3>1, <3>2 DEF QuitLinks, OtherTypes
    <3> QED BY <1>1, <3>1, <3>3 DEF QuitRest, OtherTypes
  <2> QED BY <1>2, <2>1, <2>2, <2>3, TypingOf
<1>4. ASSUME NEW j \in Jobs, Creates(j) PROVE Typing'
  <2>1. /\ OneJob(j) /\ tmp' \in [Machines -> BOOLEAN]
        /\ UNCHANGED <<file, failures, pairLink, topoLink, restart, portal, made, starts, faults,
                       behind, torn, unpaired, removed>>
    BY <1>4, CreatesIs
  <2>2. OtherTypes'
    BY <1>1, <2>1 DEF OtherTypes
  <2> QED BY <1>2, <2>1, <2>2, OneTyped, TypingOf
<1>5. ASSUME NEW j \in Jobs, Rename(j) PROVE Typing'
  <2>1. /\ OneJob(j) /\ DOMAIN file' = Machines /\ Loads(file'[On(j)])
        /\ Parse(file'[On(j)]) = job[j].cfg /\ Config(job[j].cfg)
        /\ \A m \in Machines : m # On(j) => file'[m] = file[m]
        /\ tmp' \in [Machines -> BOOLEAN] /\ torn' \in [Machines -> BOOLEAN]
        /\ behind' = (behind \cup {k \in Jobs : On(k) = On(j) /\ Holds(k)}) \ {j}
        /\ UNCHANGED <<failures, pairLink, topoLink, restart, portal, made, starts, faults,
                       unpaired, removed>>
    BY <1>5, RenameIs
  <2>2. OtherTypes'
    BY <1>1, <2>1 DEF OtherTypes
  <2>3. ASSUME NEW m \in Machines PROVE Loads(file'[m]) /\ Config(Stored(m)')
    BY <2>1 DEF Stored, Typing
  <2> QED BY <2>1, <2>2, <2>3, OneTyped, TypingOf
<1>6. ASSUME NEW j \in Jobs, Moves(j), Known(j) PROVE Typing'
  <2>1. OtherTypes'
    BY <1>1, <1>6 DEF OtherTypes, Moves, Known
  <2>2. OneJob(j) /\ file' = file
    BY <1>6 DEF Moves
  <2> QED BY <1>2, <2>1, <2>2, OneTyped, TypingOf
<1>7. ASSUME NEW at \in Addresses, NEW keep \in BOOLEAN, Grant(at, keep) PROVE Typing'
  <2>1. /\ OneJob("pairClient") /\ made' \in 0..MaxPairings /\ pairLink' \in PairRecords
        /\ UNCHANGED <<file, tmp, behind, torn, failures, topoLink, restart, portal, starts, faults,
                       unpaired, removed>>
    BY <1>7, GrantIs
  <2>2. OtherTypes'
    BY <1>1, <2>1 DEF OtherTypes
  <2> QED BY <1>2, <2>1, <2>2, JobNames, OneTyped, TypingOf
<1>8. CASE TakeGrant
  <2>1. /\ OneJob("pairHost") /\ pairLink' = NoRecord /\ behind' = behind \ {"pairHost"}
        /\ UNCHANGED <<file, tmp, torn, failures, topoLink, restart, portal, made, starts, faults,
                       unpaired, removed>>
    BY <1>8, TakeGrantIs
  <2>2. pairLink' \in PairRecords
    BY <2>1 DEF PairRecords
  <2>3. OtherTypes'
    BY <1>1, <2>1, <2>2 DEF OtherTypes
  <2> QED BY <1>2, <2>1, <2>3, JobNames, OneTyped, TypingOf
<1> QED BY <1>3, <1>4, <1>5, <1>6, <1>7, <1>8, WorksAre

\* Every step of a process leaves the temporary file to one at most.
LEMMA OneWriterKept ==
  ASSUME Typing, OneWriter, IdsMade, Pairings, Exchange, ChosenThere, Quits \/ Works
  PROVE  OneWriter'
<1>1. ASSUME NEW j \in Jobs, OneJob(j), job'[j].pc # "write", tmp' = tmp PROVE OneWriter'
  BY <1>1 DEF OneWriter, OneJob
<1>2. CASE Quits
  <2>1. \A k \in Jobs : job'[k].pc = "write" => job[k].pc = "write"
    BY <1>2, QuitsAre
  <2>2. tmp' = tmp
    BY <1>2 DEF Quits, QuitRest
  <2> QED BY <2>1, <2>2 DEF OneWriter
<1>3. ASSUME NEW j \in Jobs, Creates(j) PROVE OneWriter'
  <2>1. /\ OneJob(j) /\ ~tmp[On(j)] /\ tmp'[On(j)]
        /\ \A m \in Machines : m # On(j) => tmp'[m] = tmp[m]
    BY <1>3, CreatesIs
  <2>2. \A k \in Jobs : On(k) \in Machines /\ (k # j => job'[k] = job[k])
    BY <2>1, JobNames DEF OneJob
  <2>3. \A k \in Jobs : On(k) = On(j) => job[k].pc # "write"
    BY <2>1 DEF OneWriter
  <2> QED BY <2>1, <2>2, <2>3 DEF OneWriter
<1>4. ASSUME NEW j \in Jobs, Rename(j) PROVE OneWriter'
  <2>1. /\ OneJob(j) /\ job[j].pc = "write"
        /\ job'[j] = Nobody \/ job'[j].pc = job[j].then
        /\ job[j].then \in Thens(j)
        /\ \A m \in Machines : m # On(j) => tmp'[m] = tmp[m]
    BY <1>4, RenameIs
  <2>2. \A k \in Jobs : On(k) \in Machines /\ (k # j => job'[k] = job[k])
    BY <2>1, JobNames DEF OneJob
  <2>3. job'[j].pc # "write"
    BY <2>1, NobodyOk DEF Thens
  <2>4. \A k \in Jobs : On(k) = On(j) /\ k # j => job[k].pc # "write"
    BY <2>1 DEF OneWriter
  <2> QED BY <2>1, <2>2, <2>3, <2>4 DEF OneWriter
<1>5. ASSUME NEW j \in Jobs, Moves(j) PROVE OneWriter'
  BY <1>1, <1>5 DEF Moves
<1>6. ASSUME NEW at \in Addresses, NEW keep \in BOOLEAN, Grant(at, keep) PROVE OneWriter'
  BY <1>1, <1>6, GrantIs, JobNames
<1>7. CASE TakeGrant
  BY <1>1, <1>7, TakeGrantIs, JobNames
<1> QED BY <1>2, <1>3, <1>4, <1>5, <1>6, <1>7, WorksAre

\* Every step of a process leaves the chosen peer in its copy.
LEMMA ChosenThereKept ==
  ASSUME Typing, IdsMade, Pairings, Exchange, ChosenThere, Quits \/ Works
  PROVE  ChosenThere'
<1>0. "apply" \in Jobs /\ "hostSession" \in Jobs /\ "clientSession" \in Jobs
  BY JobNames
<1>1. CASE Quits
  <2>1. \A k \in {"apply", "hostSession", "clientSession"} :
          job'[k] = job[k] \/ job'[k].pc = "idle"
    BY <1>0, <1>1, QuitsAre
  <2> QED BY <2>1 DEF ChosenThere
<1>2. ASSUME NEW j \in Jobs, Creates(j) PROVE ChosenThere'
  <2>1. /\ OneJob(j) /\ job[j].pc = "create" /\ job'[j].pc = "write" /\ job'[j].id = job[j].id
    BY <1>2, CreatesIs
  <2> QED BY <1>0, <2>1 DEF ChosenThere, OneJob
<1>3. ASSUME NEW j \in Jobs, Rename(j) PROVE ChosenThere'
  <2>1. /\ OneJob(j) /\ job[j].pc = "write"
        /\ \/ job'[j] = Nobody
           \/ job'[j].pc = job[j].then /\ job'[j].id = job[j].id
        /\ job[j].then \in Thens(j)
    BY <1>3, RenameIs
  <2>2. job'[j].pc \in {"idle", "running", "ack"}
    BY <2>1, NobodyOk DEF Thens
  <2>3. job'[j].pc # "idle" => job'[j].id = job[j].id
    BY <2>1, NobodyOk
  <2> QED BY <1>0, <2>1, <2>2, <2>3 DEF ChosenThere, OneJob
<1>4. ASSUME NEW j \in Jobs, Moves(j), Chooses(j) PROVE ChosenThere'
  <2>1. OneJob(j)
    BY <1>4 DEF Moves
  <2> QED BY <1>0, <1>4, <2>1 DEF ChosenThere, OneJob, Chooses
<1>5. ASSUME NEW at \in Addresses, NEW keep \in BOOLEAN, Grant(at, keep) PROVE ChosenThere'
  <2>1. OneJob("pairClient")
    BY <1>5, GrantIs
  <2> QED BY <1>0, <2>1 DEF ChosenThere, OneJob
<1>6. CASE TakeGrant
  <2>1. OneJob("pairHost")
    BY <1>6, TakeGrantIs
  <2> QED BY <1>0, <2>1 DEF ChosenThere, OneJob
<1> QED BY <1>1, <1>2, <1>3, <1>4, <1>5, <1>6, WorksAre

-----------------------------------------------------------------------------
(* Ids                                                                     *)

\* The records a desktop has, in its file and in the copies of its processes.
All(m) == UNION {Recs(c) : c \in Copies(m)}

\* The peers that a machine knows of, in its file and in the copies.
LEMMA AllIs ==
  ASSUME NEW m \in Machines, NEW p
  PROVE  /\ p \in All(m) <=> \/ p \in Records(m)
                             \/ \E k \in Jobs : On(k) = m /\ p \in Recs(job[k].cfg)
         /\ p \in All(m)' <=> \/ p \in Records(m)'
                              \/ \E k \in Jobs : On(k) = m /\ p \in Recs(job'[k].cfg)
<1>1. p \in All(m) <=> \/ p \in Recs(Stored(m))
                       \/ \E k \in Jobs : On(k) = m /\ p \in Recs(job[k].cfg)
  BY DEF All, Copies
<1>2. p \in All(m)' <=> \/ p \in Recs(Stored(m)')
                        \/ \E k \in Jobs : On(k) = m /\ p \in Recs(job'[k].cfg)
  BY DEF All, Copies
<1>3. Records(m) = Recs(Stored(m)) /\ Records(m)' = Recs(Stored(m)')
  BY DEF Records, Recs
<1> QED BY <1>1, <1>2, <1>3

\* What they have in common.
LEMMA AllMade ==
  ASSUME Typing, IdsMade, NEW m \in Machines
  PROVE  /\ \A p \in All(m) : p \in PeerRecs /\ p.id \in Nat \ {0} /\ p.id <= made
         /\ \A p, q \in All(m) : p.id = q.id => p.keep = q.keep
         /\ made \in Nat
<1>1. ASSUME NEW p \in All(m) PROVE p \in PeerRecs
  <2>1. CASE p \in Records(m)
    BY <2>1, StoredIs
  <2>2. ASSUME NEW k \in Jobs, p \in Recs(job[k].cfg) PROVE p \in PeerRecs
    <3>1. Config(job[k].cfg)
      BY JobsTyped DEF JobsOk, JobOk
    <3> QED BY <2>2, <3>1, RecsAre
  <2> QED BY <2>1, <2>2, AllIs
<1>2. \A p \in All(m) : p.id <= made
  BY DEF IdsMade, All
<1>3. \A p, q \in All(m) : p.id = q.id => p.keep = q.keep
  BY DEF IdsMade, All
<1>4. made \in Nat
  BY SetupAssumption DEF Typing
<1> QED BY <1>1, <1>2, <1>3, <1>4, RecFields

\* The same, from what is known of the records.
LEMMA IdsMadeOf ==
  ASSUME \A m \in Machines : \A p \in All(m)' : p.id <= made',
         \A m \in Machines : \A p, q \in All(m)' : p.id = q.id => p.keep = q.keep,
         \A j \in Jobs : job'[j].id <= made',
         \A m \in Machines, i \in Ids : i > made' => portal'[m][i] = NoTokens
  PROVE  IdsMade'
<1>1. \A m \in Machines : \A c \in Copies(m)' : \A p \in Recs(c) : p \in All(m)'
  BY DEF All
<1> QED BY <1>1 DEF IdsMade

\* No record that was not there before.
LEMMA IdsInherit ==
  ASSUME Typing, IdsMade, made' = made,
         \A m \in Machines : \A p \in All(m)' : \E q \in All(m) : q.id = p.id /\ q.keep = p.keep,
         \A j \in Jobs : job'[j].id <= made,
         \A m \in Machines, i \in Ids : i > made => portal'[m][i] = portal[m][i]
  PROVE  IdsMade'
<1>1. \A m \in Machines : \A p \in All(m)' : p.id <= made'
  BY AllMade
<1>2. ASSUME NEW m \in Machines, NEW p \in All(m)', NEW q \in All(m)', p.id = q.id
      PROVE  p.keep = q.keep
  <2>1. PICK r \in All(m) : r.id = p.id /\ r.keep = p.keep
    OBVIOUS
  <2>2. PICK s \in All(m) : s.id = q.id /\ s.keep = q.keep
    OBVIOUS
  <2>3. r.id = s.id
    BY <1>2, <2>1, <2>2
  <2>4. r.keep = s.keep
    BY <2>3, AllMade
  <2> QED BY <2>1, <2>2, <2>4
<1>3. \A m \in Machines, i \in Ids : i > made' => portal'[m][i] = NoTokens
  BY DEF IdsMade
<1> QED BY <1>1, <1>2, <1>3, IdsMadeOf

\* The record of a new pairing is there, and nothing else has its id.
LEMMA IdsJoin ==
  ASSUME Typing, IdsMade, NEW n \in Machines, NEW new, made' \in Nat, made' >= made, new.id = made',
         \A m \in Machines : \A p \in All(m)' :
           \/ \E q \in All(m) : q.id = p.id /\ q.keep = p.keep /\ (m = n => q.id # made')
           \/ m = n /\ p = new,
         \A j \in Jobs : job'[j].id <= made', portal' = portal
  PROVE  IdsMade'
<1>1. ASSUME NEW m \in Machines, NEW p \in All(m)' PROVE p.id <= made'
  <2>1. CASE m = n /\ p = new
    BY <2>1
  <2>2. ASSUME NEW q \in All(m), q.id = p.id PROVE p.id <= made'
    <3>1. q.id \in Nat /\ q.id <= made /\ made \in Nat
      BY AllMade
    <3> QED BY <2>2, <3>1
  <2> QED BY <2>1, <2>2
<1>2. ASSUME NEW m \in Machines, NEW p \in All(m)', NEW q \in All(m)', p.id = q.id
      PROVE  p.keep = q.keep
  <2>1. CASE m = n /\ p.id = made'
    BY <1>2, <2>1
  <2>2. CASE ~(m = n /\ p.id = made')
    <3>1. PICK r \in All(m) : r.id = p.id /\ r.keep = p.keep
      BY <2>2
    <3>2. PICK s \in All(m) : s.id = q.id /\ s.keep = q.keep
      BY <1>2, <2>2
    <3>3. r.id = s.id
      BY <1>2, <3>1, <3>2
    <3>4. r.keep = s.keep
      BY <3>3, AllMade
    <3> QED BY <3>1, <3>2, <3>4
  <2> QED BY <2>1, <2>2
<1>3. ASSUME NEW m \in Machines, NEW i \in Ids, i > made' PROVE portal'[m][i] = NoTokens
  <2>1. i > made
    BY <1>3, AllMade DEF Ids
  <2> QED BY <2>1 DEF IdsMade
<1> QED BY <1>1, <1>2, <1>3, IdsMadeOf

\* Where records come from when one process goes on.
LEMMA OneAll ==
  ASSUME NEW j \in Jobs, OneJob(j), file' = file, NEW m \in Machines, NEW p \in All(m)'
  PROVE  \/ p \in All(m) /\ (p \in Records(m) \/ \E k \in Jobs \ {j} : On(k) = m /\ p \in Recs(job[k].cfg))
         \/ m = On(j) /\ p \in Recs(job'[j].cfg)
<1>1. Records(m)' = Records(m)
  BY SameStored
<1>2. CASE p \in Records(m)'
  BY <1>1, <1>2, AllIs
<1>3. ASSUME NEW k \in Jobs, On(k) = m, p \in Recs(job'[k].cfg), k # j
      PROVE  p \in All(m) /\ \E l \in Jobs \ {j} : On(l) = m /\ p \in Recs(job[l].cfg)
  <2>1. p \in Recs(job[k].cfg) /\ k \in Jobs \ {j}
    BY <1>3 DEF OneJob
  <2> QED BY <1>3, <2>1, AllIs
<1> QED BY <1>2, <1>3, AllIs

\* Every step of a process keeps to the ids made so far, and to the permissions.
LEMMA IdsMadeKept ==
  ASSUME Typing, IdsMade, Pairings, Exchange, ChosenThere, Quits \/ Works
  PROVE  IdsMade'
<1>0. /\ made \in Nat /\ \A j \in Jobs : job[j].id <= made /\ job[j].id \in Nat
  <2>1. \A j \in Jobs : job[j].id \in Nat
    BY JobsTyped, JobFields DEF JobsOk
  <2> QED BY <2>1, SetupAssumption DEF Typing, IdsMade
<1>1. CASE Quits
  <2>1. file' = file /\ portal' = portal /\ made' = made
    BY <1>1 DEF Quits, QuitRest
  <2>2. ASSUME NEW m \in Machines, NEW p \in All(m)' PROVE p \in All(m)
    <3>1. Records(m)' = Records(m)
      BY <2>1, SameStored
    <3>2. \A k \in Jobs : Recs(job'[k].cfg) \subseteq Recs(job[k].cfg)
      BY <1>1, QuitsAre
    <3> QED BY <3>1, <3>2, AllIs
  <2>3. \A j \in Jobs : job'[j].id \in {0, job[j].id}
    BY <1>1, QuitsAre
  <2>4. \A j \in Jobs : job'[j].id <= made
    BY <1>0, <2>3
  <2> QED BY <2>1, <2>2, <2>4, IdsInherit
<1>2. ASSUME NEW j \in Jobs, Creates(j) PROVE IdsMade'
  <2>1. /\ OneJob(j) /\ job'[j].cfg = job[j].cfg /\ job'[j].id = job[j].id
        /\ file' = file /\ portal' = portal /\ made' = made
    BY <1>2, CreatesIs
  <2>2. ASSUME NEW m \in Machines, NEW p \in All(m)' PROVE p \in All(m)
    BY <2>1, OneAll, AllIs
  <2>3. \A k \in Jobs : job'[k].id <= made
    BY <1>0, <2>1 DEF OneJob
  <2> QED BY <2>1, <2>2, <2>3, IdsInherit
<1>3. ASSUME NEW j \in Jobs, Rename(j) PROVE IdsMade'
  <2>1. /\ OneJob(j)
        /\ job'[j] = Nobody \/ (job'[j].cfg = NoCopy /\ job'[j].id = job[j].id)
        /\ Parse(file'[On(j)]) = job[j].cfg
        /\ \A m \in Machines : m # On(j) => file'[m] = file[m]
        /\ portal' = portal /\ made' = made
    BY <1>3, RenameIs
  <2>2. /\ Recs(job'[j].cfg) = {} /\ job'[j].id \in {0, job[j].id}
    BY <2>1, NobodyOk
  <2>3. ASSUME NEW m \in Machines, NEW p \in All(m)' PROVE p \in All(m)
    <3>1. ASSUME p \in Records(m)' PROVE p \in All(m)
      <4>1. CASE m = On(j)
        <5>1. Records(m)' = Recs(job[j].cfg)
          BY <2>1, <4>1 DEF Records, Recs, Stored
        <5> QED BY <3>1, <4>1, <5>1, AllIs
      <4>2. CASE m # On(j)
        <5>1. Records(m)' = Records(m)
          BY <2>1, <4>2 DEF Records, Stored
        <5> QED BY <3>1, <5>1, AllIs
      <4> QED BY <4>1, <4>2
    <3>2. ASSUME NEW k \in Jobs, On(k) = m, p \in Recs(job'[k].cfg) PROVE p \in All(m)
      <4>1. k # j
        BY <2>2, <3>2
      <4>2. p \in Recs(job[k].cfg)
        BY <2>1, <3>2, <4>1 DEF OneJob
      <4> QED BY <3>2, <4>2, AllIs
    <3> QED BY <3>1, <3>2, AllIs
  <2>4. \A k \in Jobs : job'[k].id <= made
    <3>1. job'[j].id <= made
      BY <1>0, <2>2
    <3> QED BY <1>0, <2>1, <3>1 DEF OneJob
  <2> QED BY <2>1, <2>3, <2>4, IdsInherit
<1>4. ASSUME NEW j \in Jobs, Moves(j), Known(j) PROVE IdsMade'
  <2>1. OneJob(j) /\ file' = file /\ made' = made /\ On(j) \in Machines
    BY <1>4, JobNames DEF Moves, Known
  <2>2. ASSUME NEW m \in Machines, NEW p \in All(m)'
        PROVE  \E q \in All(m) : q.id = p.id /\ q.keep = p.keep
    <3>1. CASE p \in All(m)
      BY <3>1
    <3>2. CASE m = On(j) /\ p \in Recs(job'[j].cfg)
      <4>1. PICK q \in Records(m) \cup Recs(job[j].cfg) : p.id = q.id /\ p.keep = q.keep
        BY <1>4, <3>2 DEF Known, From
      <4>2. q \in All(m)
        BY <3>2, <4>1, AllIs
      <4> QED BY <4>1, <4>2
    <3> QED BY <2>1, <3>1, <3>2, OneAll
  <2>3. job'[j].id <= made
    <3>1. CASE job'[j].id \in {0, job[j].id}
      BY <1>0, <3>1
    <3>2. ASSUME NEW p \in Records(On(j)), p.id = job'[j].id PROVE job'[j].id <= made
      <4>1. p \in All(On(j))
        BY <2>1, AllIs
      <4> QED BY <2>1, <3>2, <4>1, AllMade
    <3> QED BY <1>4, <3>1, <3>2 DEF Known
  <2>4. \A k \in Jobs : job'[k].id <= made
    BY <1>0, <2>1, <2>3 DEF OneJob
  <2>5. ASSUME NEW m \in Machines, NEW i \in Ids, i > made PROVE portal'[m][i] = portal[m][i]
    <3>1. ~(i <= made) /\ i \in Nat
      BY <1>0, <2>5 DEF Ids
    <3>2. i # job[j].id
      BY <1>0, <3>1
    <3> QED BY <1>4, <3>2 DEF Moves
  <2> QED BY <2>1, <2>2, <2>4, <2>5, IdsInherit
<1>5. ASSUME NEW at \in Addresses, NEW keep \in BOOLEAN, Grant(at, keep) PROVE IdsMade'
  <2> DEFINE j == "pairClient"
  <2>1. /\ OneJob(j) /\ job'[j].id = job[j].id /\ made' = made + 1 /\ file' = file
        /\ portal' = portal
    BY <1>5, GrantIs
  <2>2. PICK p : NewPeer(p) /\ Recs(job'[j].cfg) = Joined(Recs(job[j].cfg), p)
    BY <1>5, GrantIs
  <2>3. p.id = made' /\ j \in Jobs /\ On(j) = "client" /\ "client" \in Machines
    BY <2>2, JobNames DEF NewPeer, On
  <2>4. ASSUME NEW m \in Machines, NEW q \in All(m) PROVE q.id # made'
    <3>1. q.id \in Nat /\ q.id <= made
      BY AllMade
    <3> QED BY <1>0, <2>1, <3>1
  <2>5. ASSUME NEW m \in Machines, NEW q \in All(m)'
        PROVE  \/ q \in All(m)
               \/ m = "client" /\ q = p
    <3>1. CASE m = On(j) /\ q \in Recs(job'[j].cfg)
      <4>1. q = p \/ q \in Recs(job[j].cfg)
        BY <2>2, <3>1 DEF Joined
      <4> QED BY <2>3, <3>1, <4>1, AllIs
    <3> QED BY <2>1, <2>3, <3>1, OneAll
  <2>6. \A k \in Jobs : job'[k].id <= made'
    <3>1. \A k \in Jobs : job'[k].id = job[k].id
      BY <2>1 DEF OneJob
    <3> QED BY <1>0, <2>1, <3>1
  <2>7. made' \in Nat /\ made' >= made
    BY <1>0, <2>1
  <2> QED BY <2>1, <2>3, <2>4, <2>5, <2>6, <2>7, IdsJoin
<1>6. CASE TakeGrant
  <2> DEFINE j == "pairHost"
             new == HostPeer(pairLink)
  <2>1. /\ OneJob(j) /\ job'[j].id = job[j].id /\ made' = made /\ file' = file /\ portal' = portal
        /\ pairLink.kind = "grant" /\ new.id = made
        /\ Recs(job'[j].cfg) = Joined(Records("host"), new)
    BY <1>6, TakeGrantIs
  <2> HIDE DEF new
  <2>2. Unknown("host", j)
    BY <2>1 DEF Pairings, HostPending
  <2>3. j \in Jobs /\ On(j) = "host" /\ "host" \in Machines
    BY JobNames DEF On
  <2>4. ASSUME NEW m \in Machines, NEW q \in All(m)'
        PROVE  \/ q \in All(m) /\ (m = "host" => q.id # made')
               \/ m = "host" /\ q = new
    <3>1. CASE m = On(j) /\ q \in Recs(job'[j].cfg)
      <4>1. q = new \/ q \in Records("host")
        BY <2>1, <3>1 DEF Joined
      <4> QED BY <2>1, <2>2, <2>3, <3>1, <4>1, AllIs DEF Unknown
    <3>2. CASE /\ q \in All(m)
               /\ q \in Records(m) \/ \E k \in Jobs \ {j} : On(k) = m /\ q \in Recs(job[k].cfg)
      BY <2>1, <2>2, <3>2 DEF Unknown
    <3> QED BY <2>1, <2>3, <3>1, <3>2, OneAll
  <2>5. \A k \in Jobs : job'[k].id <= made'
    <3>1. \A k \in Jobs : job'[k].id = job[k].id
      BY <2>1 DEF OneJob
    <3> QED BY <1>0, <2>1, <3>1
  <2>6. made' \in Nat /\ made' >= made /\ new.id = made'
    BY <1>0, <2>1
  <2> QED BY <2>1, <2>3, <2>4, <2>5, <2>6, IdsJoin
<1> QED BY <1>1, <1>2, <1>3, <1>4, <1>5, <1>6, WorksAre

-----------------------------------------------------------------------------
(* The grant that is on its way                                            *)

\* An id that a desktop knows, but for the process that pairs.
Seen(m, pairing, i) ==
  \/ \E p \in Records(m) : p.id = i
  \/ \E k \in Jobs : On(k) = m /\ k # pairing /\ \E p \in Recs(job[k].cfg) : p.id = i

\* A grant is unknown to a machine that sees its id nowhere.
LEMMA UnknownIs ==
  ASSUME NEW m, NEW pairing
  PROVE  /\ Unknown(m, pairing) <=> ~Seen(m, pairing, made) /\ portal[m][made] = NoTokens
         /\ Unknown(m, pairing)' <=> ~Seen(m, pairing, made)' /\ portal'[m][made'] = NoTokens
BY DEF Unknown, Seen

\* The process that pairs is the only one to learn an id.
LEMMA OneSees ==
  ASSUME NEW j \in Jobs, OneJob(j), From(j), file' = file, NEW m \in Machines, NEW pairing, NEW i,
         Seen(m, pairing, i)'
  PROVE  Seen(m, pairing, i)
<1>1. Records(m)' = Records(m)
  BY SameStored
<1>2. CASE \E p \in Records(m)' : p.id = i
  BY <1>1, <1>2 DEF Seen
<1>3. ASSUME NEW k \in Jobs, On(k) = m, k # pairing, NEW p \in Recs(job'[k].cfg), p.id = i
      PROVE  Seen(m, pairing, i)
  <2>1. CASE k = j
    <3>1. PICK q \in Records(On(j)) \cup Recs(job[j].cfg) : p.id = q.id /\ p.keep = q.keep
      BY <1>3, <2>1 DEF From
    <3> QED BY <1>3, <2>1, <3>1 DEF Seen
  <2>2. CASE k # j
    <3>1. job'[k] = job[k]
      BY <2>2 DEF OneJob
    <3> QED BY <1>3, <3>1 DEF Seen
  <2> QED BY <2>1, <2>2
<1> QED BY <1>2, <1>3 DEF Seen

\* A save makes nothing known that was not, unless it is that of the pairing.
LEMMA SaveSees ==
  ASSUME Typing, NEW j \in Jobs, Rename(j), NEW m \in Machines, NEW pairing, NEW i,
         j # pairing \/ On(j) # m, Seen(m, pairing, i)'
  PROVE  Seen(m, pairing, i)
<1>1. /\ OneJob(j)
      /\ job'[j] = Nobody \/ (job'[j].cfg = NoCopy /\ job'[j].id = job[j].id)
      /\ Parse(file'[On(j)]) = job[j].cfg
      /\ \A n \in Machines : n # On(j) => file'[n] = file[n]
  BY RenameIs
<1>2. Recs(job'[j].cfg) = {}
  BY <1>1, NobodyOk
<1>3. ASSUME NEW p \in Records(m)', p.id = i PROVE Seen(m, pairing, i)
  <2>1. CASE m = On(j)
    <3>1. Records(m)' = Recs(job[j].cfg)
      BY <1>1, <2>1 DEF Records, Recs, Stored
    <3> QED BY <1>3, <2>1, <3>1 DEF Seen
  <2>2. CASE m # On(j)
    <3>1. Records(m)' = Records(m)
      BY <1>1, <2>2 DEF Records, Stored
    <3> QED BY <1>3, <3>1 DEF Seen
  <2> QED BY <2>1, <2>2
<1>4. ASSUME NEW k \in Jobs, On(k) = m, k # pairing, NEW p \in Recs(job'[k].cfg), p.id = i
      PROVE  Seen(m, pairing, i)
  <2>1. k # j
    BY <1>2, <1>4
  <2>2. job'[k] = job[k]
    BY <1>1, <2>1 DEF OneJob
  <2> QED BY <1>4, <2>2 DEF Seen
<1> QED BY <1>3, <1>4 DEF Seen

\* What is pending stays unknown.
LEMMA PendingStays ==
  ASSUME Typing, Pairings, made' = made,
         pairLink'.kind = "grant" => pairLink' = pairLink /\ job'["pairHost"] = job["pairHost"],
         pairLink' # NoRecord => job'["pairHost"].pc = "asked",
         HostPending' =>
           /\ HostPending /\ portal'["host"][made] = portal["host"][made]
           /\ Seen("host", "pairHost", made)' => Seen("host", "pairHost", made)
           /\ job'["apply"].id # made,
         ClientPending' =>
           /\ ClientPending /\ portal'["client"][made] = portal["client"][made]
           /\ Seen("client", "pairClient", made)' => Seen("client", "pairClient", made)
           /\ job'["apply"].id # made /\ job'["clientSession"].id # made
  PROVE  Pairings'
<1>1. HostPending' => made' > 0 /\ Unknown("host", "pairHost")' /\ job'["apply"].id # made'
  <2> SUFFICES ASSUME HostPending'
               PROVE  made' > 0 /\ Unknown("host", "pairHost")' /\ job'["apply"].id # made'
    OBVIOUS
  <2>1. HostPending
    OBVIOUS
  <2>2. made > 0 /\ Unknown("host", "pairHost")
    BY <2>1 DEF Pairings
  <2>3. ~Seen("host", "pairHost", made)' /\ portal'["host"][made] = NoTokens
    BY <2>1, <2>2, UnknownIs
  <2> QED BY <2>1, <2>2, <2>3, UnknownIs
<1>2. ClientPending' => /\ made' > 0 /\ Unknown("client", "pairClient")'
                        /\ job'["clientSession"].id # made' /\ job'["apply"].id # made'
  <2> SUFFICES ASSUME ClientPending'
               PROVE  /\ made' > 0 /\ Unknown("client", "pairClient")'
                      /\ job'["clientSession"].id # made' /\ job'["apply"].id # made'
    OBVIOUS
  <2>1. ClientPending
    OBVIOUS
  <2>2. made > 0 /\ Unknown("client", "pairClient")
    BY <2>1 DEF Pairings
  <2>3. ~Seen("client", "pairClient", made)' /\ portal'["client"][made] = NoTokens
    BY <2>1, <2>2, UnknownIs
  <2> QED BY <2>1, <2>2, <2>3, UnknownIs
<1>3. pairLink'.kind = "grant" => pairLink'.id = made' /\ \A p \in Recs(job'["pairHost"].cfg) : p.id # made'
  BY DEF Pairings
<1> QED BY <1>1, <1>2, <1>3 DEF Pairings

\* Every step of a process keeps a grant unknown where it has yet to be saved.
LEMMA PairingsKept ==
  ASSUME Typing, IdsMade, Pairings, Exchange, ChosenThere, Quits \/ Works
  PROVE  Pairings'
<1>0. /\ "pairHost" \in Jobs /\ "pairClient" \in Jobs /\ "apply" \in Jobs
      /\ "clientSession" \in Jobs /\ "host" \in Machines /\ "client" \in Machines
      /\ On("pairHost") = "host" /\ On("pairClient") = "client"
      /\ On("apply") = "host" /\ On("clientSession") = "client"
      /\ NoRecord.kind = "none" /\ made \in Nat /\ made \in Int
  BY JobNames, SetupAssumption DEF On, NoRecord, Typing
<1>1. PICK i \in Nat : i = made
  BY <1>0, Zenon
<1>2. HostPending => made > 0 /\ i \in Ids /\ ~Seen("host", "pairHost", i) /\ job["apply"].id # made
  <2>1. HostPending => made > 0 /\ ~Seen("host", "pairHost", made)
    BY UnknownIs DEF Pairings
  <2>2. made > 0 => i \in Ids
    BY <1>0, <1>1, SetupAssumption DEF Ids, Typing
  <2> QED BY <1>1, <2>1, <2>2 DEF Pairings
<1>3. ClientPending => /\ made > 0 /\ i \in Ids /\ ~Seen("client", "pairClient", i)
                       /\ job["apply"].id # made /\ job["clientSession"].id # made
  <2>1. ClientPending => made > 0 /\ ~Seen("client", "pairClient", made)
    BY UnknownIs DEF Pairings
  <2>2. made > 0 => i \in Ids
    BY <1>0, <1>1, SetupAssumption DEF Ids, Typing
  <2> QED BY <1>1, <2>1, <2>2 DEF Pairings
<1>4. CASE Quits
  <2>1. file' = file /\ portal' = portal /\ made' = made /\ QuitLinks
    BY <1>4 DEF Quits, QuitRest
  <2>2. \A k \in Jobs : /\ Recs(job'[k].cfg) \subseteq Recs(job[k].cfg)
                        /\ job'[k].id \in {0, job[k].id}
                        /\ job'[k].pc \in {job[k].pc, "idle", "listening"}
    BY <1>4, QuitsAre
  <2>3. ASSUME NEW m \in Machines, NEW pairing, Seen(m, pairing, i)' PROVE Seen(m, pairing, i)
    <3>1. Records(m)' = Records(m)
      BY <2>1, SameStored
    <3> QED BY <2>2, <2>3, <3>1 DEF Seen
  <2>4. /\ pairLink' # NoRecord => pairLink' = pairLink /\ job'["pairHost"] = job["pairHost"]
        /\ pairLink' # NoRecord => job'["pairHost"].pc = "asked"
    BY <2>1 DEF QuitLinks, Pairings
  <2>5. HostPending' => HostPending
    BY <1>0, <2>2, <2>4 DEF HostPending, Saving
  <2>6. ClientPending' => ClientPending
    BY <1>0, <2>2 DEF ClientPending, Saving
  <2>7. \A m \in Machines : \A pairing : Seen(m, pairing, made)' => Seen(m, pairing, made)
    BY <1>1, <2>1, <2>3
  <2>8. made > 0 => /\ job["apply"].id # made => job'["apply"].id # made
                    /\ job["clientSession"].id # made => job'["clientSession"].id # made
    BY <1>0, <2>2
  <2> QED BY <1>0, <1>2, <1>3, <2>1, <2>4, <2>5, <2>6, <2>7, <2>8, PendingStays
<1>5. ASSUME NEW j \in Jobs, Creates(j) PROVE Pairings'
  <2>1. /\ OneJob(j) /\ job'[j].cfg = job[j].cfg /\ job'[j].id = job[j].id
        /\ job[j].pc = "create" /\ job'[j].pc = "write"
        /\ file' = file /\ portal' = portal /\ made' = made /\ pairLink' = pairLink
    BY <1>5, CreatesIs
  <2>2. From(j) /\ \A k \in Jobs : job'[k].cfg = job[k].cfg /\ job'[k].id = job[k].id
    BY <2>1 DEF From, OneJob
  <2>3. \A k \in Jobs : job'[k] = job[k] \/ (job[k].pc = "create" /\ job'[k].pc = "write")
    BY <2>1 DEF OneJob
  <2>4. \A m \in Machines : \A pairing : Seen(m, pairing, made)' => Seen(m, pairing, made)
    <3>1. \A m \in Machines : \A pairing : Seen(m, pairing, i)' => Seen(m, pairing, i)
      BY <2>1, <2>2, OneSees
    <3> QED BY <1>1, <2>1, <3>1
  <2>5. pairLink # NoRecord => job["pairHost"].pc = "asked" /\ job'["pairHost"] = job["pairHost"]
    BY <1>0, <2>3 DEF Pairings
  <2>6. (HostPending' => HostPending) /\ (ClientPending' => ClientPending)
    BY <1>0, <2>1, <2>3 DEF HostPending, ClientPending, Saving
  <2>7. pairLink.kind = "grant" => pairLink # NoRecord
    BY <1>0
  <2> QED BY <1>0, <1>2, <1>3, <2>1, <2>2, <2>4, <2>5, <2>6, <2>7, PendingStays
<1>6. ASSUME NEW j \in Jobs, Rename(j) PROVE Pairings'
  <2>1. /\ OneJob(j) /\ job[j].pc = "write"
        /\ job'[j] = Nobody \/ (job'[j].pc = job[j].then /\ job'[j].id = job[j].id)
        /\ job[j].then \in Thens(j)
        /\ portal' = portal /\ made' = made /\ pairLink' = pairLink
    BY <1>6, RenameIs
  <2>2. job'[j].pc \in {"idle", "running", "ack"} /\ job'[j].id \in {0, job[j].id}
    BY <2>1, NobodyOk DEF Thens
  <2>3. \A k \in Jobs : k # j => job'[k] = job[k]
    BY <2>1 DEF OneJob
  <2>4. /\ j # "pairHost" => (Seen("host", "pairHost", made)' => Seen("host", "pairHost", made))
        /\ j # "pairClient" => (Seen("client", "pairClient", made)' => Seen("client", "pairClient", made))
    <3>1. /\ j # "pairHost" => (Seen("host", "pairHost", i)' => Seen("host", "pairHost", i))
          /\ j # "pairClient" => (Seen("client", "pairClient", i)' => Seen("client", "pairClient", i))
      BY <1>0, <1>6, SaveSees
    <3> QED BY <1>1, <2>1, <3>1
  <2>5. pairLink # NoRecord => job["pairHost"].pc = "asked" /\ j # "pairHost"
    BY <2>1 DEF Pairings
  <2>6. (HostPending' => HostPending /\ j # "pairHost") /\ (ClientPending' => ClientPending /\ j # "pairClient")
    BY <1>0, <2>1, <2>2, <2>3, <2>5 DEF HostPending, ClientPending, Saving
  <2>7. pairLink.kind = "grant" => pairLink # NoRecord
    BY <1>0
  <2>8. \A k \in Jobs : job'[k].id \in {0, job[k].id}
    BY <2>2, <2>3
  <2>9. made > 0 => /\ job["apply"].id # made => job'["apply"].id # made
                    /\ job["clientSession"].id # made => job'["clientSession"].id # made
    BY <1>0, <2>8
  <2> QED BY <1>0, <1>2, <1>3, <2>1, <2>3, <2>4, <2>5, <2>6, <2>7, <2>9, PendingStays
<1>7. ASSUME NEW j \in Jobs, Moves(j), Known(j) PROVE Pairings'
  <2>1. /\ OneJob(j) /\ From(j) /\ file' = file /\ made' = made
        /\ \A k \in Jobs : k # j => job'[k] = job[k]
    BY <1>7 DEF Moves, Known, OneJob
  <2>2. \A m \in Machines : \A pairing : Seen(m, pairing, made)' => Seen(m, pairing, made)
    <3>1. \A m \in Machines : \A pairing : Seen(m, pairing, i)' => Seen(m, pairing, i)
      BY <2>1, OneSees
    <3> QED BY <1>1, <2>1, <3>1
  <2>3. /\ pairLink' # NoRecord => job'["pairHost"].pc = "asked"
        /\ pairLink'.kind = "grant" => pairLink' = pairLink /\ job'["pairHost"] = job["pairHost"]
    BY <1>0, <1>7, <2>1 DEF Known, Pairings
  <2>4. HostPending' => HostPending /\ j # "pairHost"
    BY <1>0, <1>7, <2>1, <2>3 DEF HostPending, Known, Saving
  <2>5. ClientPending' => ClientPending /\ j # "pairClient"
    BY <1>0, <1>7, <2>1 DEF ClientPending, Known, Saving
  <2>6. ASSUME NEW m \in Machines, NEW pairing, i \in Ids, ~Seen(m, pairing, i),
               On(j) # m \/ j # pairing
        PROVE  portal'[m][i] = portal[m][i]
    BY <1>7, <2>6 DEF Moves, Seen
  <2>7. HostPending' => portal'["host"][made] = portal["host"][made]
    BY <1>0, <1>1, <1>2, <2>4, <2>6
  <2>8. ClientPending' => portal'["client"][made] = portal["client"][made]
    BY <1>0, <1>1, <1>3, <2>5, <2>6
  <2>9. ASSUME HostPending \/ ClientPending PROVE job'["apply"].id # made
    <3>1. job["apply"].id # made /\ made > 0
      BY <1>2, <1>3, <2>9
    <3>2. CASE j # "apply" \/ job'[j].id \in {0, job[j].id}
      BY <1>0, <2>1, <3>1, <3>2
    <3>3. CASE j = "apply" /\ job'[j].id \notin {0, job[j].id}
      <4>1. /\ \E p \in Records("host") : p.id = job'["apply"].id
            /\ job'["apply"].id = job["clientSession"].id
        BY <1>0, <1>7, <3>3 DEF Known
      <4>2. CASE HostPending
        BY <1>1, <1>2, <4>1, <4>2 DEF Seen
      <4>3. CASE ClientPending
        BY <1>3, <4>1, <4>3
      <4> QED BY <2>9, <4>2, <4>3
    <3> QED BY <3>2, <3>3
  <2>10. ASSUME ClientPending PROVE job'["clientSession"].id # made
    <3>1. job["clientSession"].id # made /\ made > 0 /\ ~Seen("client", "pairClient", i)
      BY <1>3, <2>10
    <3>2. CASE j # "clientSession" \/ job'[j].id \in {0, job[j].id}
      BY <1>0, <2>1, <3>1, <3>2
    <3>3. CASE j = "clientSession" /\ job'[j].id \notin {0, job[j].id}
      <4>1. \E p \in Records("client") : p.id = job'["clientSession"].id
        BY <1>0, <1>7, <3>3 DEF Known
      <4> QED BY <1>1, <3>1, <4>1 DEF Seen
    <3> QED BY <3>2, <3>3
  <2> QED BY <1>0, <2>1, <2>2, <2>3, <2>4, <2>5, <2>7, <2>8, <2>9, <2>10, PendingStays
<1>8. ASSUME NEW at \in Addresses, NEW keep \in BOOLEAN, Grant(at, keep) PROVE Pairings'
  <2>1. /\ OneJob("pairClient") /\ made' = made + 1 /\ made' \in Ids
        /\ pairLink.kind = "request" /\ pairLink'.kind = "grant" /\ pairLink'.id = made'
        /\ file' = file /\ portal' = portal
        /\ \A k \in Jobs : k # "pairClient" => job'[k] = job[k]
    BY <1>8, GrantIs DEF OneJob
  <2>2. job["pairHost"].pc = "asked"
    BY <1>0, <2>1 DEF Pairings
  <2>3. \A m \in Machines : Records(m)' = Records(m)
    BY <2>1, SameStored
  <2>4. ASSUME NEW m \in Machines, NEW p \in All(m) PROVE p.id # made'
    <3>1. p.id \in Nat /\ p.id <= made
      BY AllMade
    <3> QED BY <1>0, <2>1, <3>1
  <2>5. ASSUME NEW k \in Jobs, NEW p \in Recs(job[k].cfg) PROVE p.id # made'
    <3>1. On(k) \in Machines /\ p \in All(On(k))
      BY AllIs, JobNames
    <3> QED BY <2>4, <3>1
  <2>6. ASSUME NEW m \in Machines, NEW p \in Records(m) PROVE p.id # made'
    BY <2>4, AllIs
  <2>7. ASSUME NEW m \in Machines PROVE portal'[m][made'] = NoTokens
    BY <1>0, <2>1 DEF IdsMade
  <2>8. Unknown("host", "pairHost")'
    <3>1. \A k \in Jobs : On(k) = "host" => k # "pairClient"
      BY <1>0
    <3> QED BY <1>0, <2>1, <2>3, <2>5, <2>6, <2>7, <3>1 DEF Unknown
  <2>9. Unknown("client", "pairClient")'
    BY <1>0, <2>1, <2>3, <2>5, <2>6, <2>7 DEF Unknown
  <2>10. job'["apply"].id # made' /\ job'["clientSession"].id # made' /\ made' > 0
    <3>1. \A k \in Jobs : job[k].id \in Nat /\ job[k].id <= made
      BY JobsTyped, JobFields DEF JobsOk, IdsMade
    <3> QED BY <1>0, <2>1, <3>1
  <2>11. \A p \in Recs(job'["pairHost"].cfg) : p.id # made'
    BY <1>0, <2>1, <2>5
  <2> QED BY <1>0, <2>1, <2>2, <2>8, <2>9, <2>10, <2>11 DEF Pairings
<1>9. CASE TakeGrant
  <2>1. /\ OneJob("pairHost") /\ pairLink.kind = "grant" /\ pairLink' = NoRecord
        /\ made' = made /\ file' = file /\ portal' = portal
        /\ \A k \in Jobs : k # "pairHost" => job'[k] = job[k]
        /\ Recs(job'["pairHost"].cfg) = Joined(Records("host"), HostPeer(pairLink))
    BY <1>9, TakeGrantIs DEF OneJob
  <2>2. HostPending
    BY <2>1 DEF HostPending
  <2>3. \A m \in Machines : Records(m)' = Records(m)
    BY <2>1, SameStored
  <2>4. Seen("host", "pairHost", made)' => Seen("host", "pairHost", made)
    BY <1>0, <2>1, <2>3 DEF Seen
  <2>5. Seen("client", "pairClient", made)' => Seen("client", "pairClient", made)
    <3>1. \A k \in Jobs : On(k) = "client" => k # "pairHost"
      BY <1>0
    <3> QED BY <1>0, <2>1, <2>3, <3>1 DEF Seen
  <2>6. ClientPending' => ClientPending
    BY <1>0, <2>1 DEF ClientPending
  <2> QED BY <1>0, <1>2, <1>3, <2>1, <2>2, <2>4, <2>5, <2>6, PendingStays
<1> QED BY <1>4, <1>5, <1>6, <1>7, <1>8, <1>9, WorksAre

-----------------------------------------------------------------------------
(* Steps that have no part in the exchange                                 *)

\* A process other than those of the placement transaction goes on, and no
\* grant is sent or taken.
Aside(j) ==
  /\ OneJob(j) /\ j \notin {"apply", "control"}
  /\ UNCHANGED <<file, torn, unpaired, faults, made, topoLink, restart>>
  /\ behind' \in {behind, behind \ {j}} /\ removed \subseteq removed'
  /\ job[j].pc \notin Saving /\ (j \in {"pairHost", "pairClient"} => job'[j].pc \notin Saving)
  /\ pairLink' = pairLink \/ (pairLink = NoRecord /\ pairLink'.kind = "request")
  /\ j = "clientSession" =>
       /\ job[j].pc # "running"
       /\ \/ job'[j].pc = "idle"
          \/ /\ job[j].pc \in {"portals", "watcher"} /\ job'[j].id = job[j].id
             /\ job'[j].side = job[j].side
          \/ \E p \in Records("client") : p.id = job'[j].id /\ p.side = job'[j].side

SessionSteps ==
  \/ \E m \in Machines, id \in Ids : SessionStarts(m, id)
  \/ HostPortalStarts \/ RemoteDesktopStarts \/ WatcherStarts \/ WatcherRefused

\* A step of a configured session.
LEMMA SessionsAside ==
  ASSUME Typing, ChosenThere, SessionSteps
  PROVE  \E m \in Machines : Aside(Session(m))
<1>0. /\ Session("host") = "hostSession" /\ Session("client") = "clientSession"
      /\ "host" \in Machines /\ "client" \in Machines /\ "portals" \notin Saving
      /\ "watcher" \notin Saving /\ "idle" \notin Saving
  BY DEF Session, Machines, Saving
<1>1. ASSUME NEW m \in Machines, NEW id \in Ids, SessionStarts(m, id)
      PROVE  Aside(Session(m))
  <2> DEFINE j == Session(m)
  <2>1. /\ OneJob(j) /\ Starts(j) /\ job'[j].id = id
        /\ \E p \in Records(m) : p.id = id /\ p.side = job'[j].side
        /\ UNCHANGED <<file, tmp, failures, pairLink, topoLink, restart, portal, made, faults, torn,
                       unpaired, removed>>
    BY <1>1, SessionStartsIs
  <2>2. j \notin {"apply", "control", "pairHost", "pairClient"} /\ (j = "clientSession" => m = "client")
    BY JobNames DEF Session
  <2> HIDE DEF j
  <2>3. job[j].pc = "idle" /\ behind' = behind \ {j}
    BY <2>1 DEF Starts
  <2> QED BY <1>0, <2>1, <2>2, <2>3 DEF Aside, j
<1>2. CASE HostPortalStarts
  <2> DEFINE j == "hostSession"
  <2>1. /\ OneJob(j) /\ job[j].pc = "portals"
        /\ UNCHANGED <<file, tmp, behind, torn, failures, pairLink, topoLink, restart, made, starts,
                       faults, unpaired, removed>>
    BY <1>2, HostPortalStartsIs
  <2> QED BY <1>0, <2>1 DEF Aside
<1>3. CASE RemoteDesktopStarts
  <2> DEFINE j == "clientSession"
  <2>1. /\ OneJob(j) /\ job[j].pc = "portals" /\ job'[j].id = job[j].id
        /\ job'[j].side = job[j].side
        /\ UNCHANGED <<file, tmp, behind, torn, failures, pairLink, topoLink, restart, made, starts,
                       faults, unpaired, removed>>
    BY <1>3, RemoteDesktopStartsIs
  <2> QED BY <1>0, <2>1 DEF Aside
<1>4. CASE WatcherStarts
  <2> DEFINE j == "clientSession"
  <2>1. /\ OneJob(j) /\ job[j].pc = "watcher" /\ job'[j].id = job[j].id
        /\ job'[j].side = job[j].side
        /\ UNCHANGED <<file, tmp, behind, torn, failures, pairLink, topoLink, restart, made, starts,
                       faults, unpaired, removed>>
    BY <1>4, WatcherStartsIs DEF Stores, GoesOn
  <2> QED BY <1>0, <2>1 DEF Aside
<1>5. CASE WatcherRefused
  <2> DEFINE j == "clientSession"
  <2>1. /\ OneJob(j) /\ job[j].pc = "watcher"
        /\ job'[j] = Nobody \/ (job'[j].id = job[j].id /\ job'[j].side = job[j].side)
        /\ UNCHANGED <<file, tmp, behind, torn, failures, pairLink, topoLink, restart, made, starts,
                       faults, unpaired, removed>>
    BY <1>5, WatcherRefusedIs DEF Stores
  <2>2. Nobody.pc = "idle"
    BY JobNames, NobodyOk
  <2> QED BY <1>0, <2>1, <2>2 DEF Aside
<1> QED BY <1>0, <1>1, <1>2, <1>3, <1>4, <1>5 DEF SessionSteps

\* The other steps that have no part in it.
OtherSteps ==
  \/ PairClientStarts
  \/ \E side \in Asked, keep \in BOOLEAN : PairHostStarts(side, keep)
  \/ \E m \in Machines : Edits(m)

\* The steps that are not about a placement, nor of a session, stand aside.
LEMMA OthersAside ==
  ASSUME Typing, OtherSteps
  PROVE  \E j \in Jobs : Aside(j) /\ j \notin {"hostSession", "clientSession"} /\ portal' = portal
<1>0. JobsOk /\ "listening" \notin Saving /\ "asked" \notin Saving /\ "idle" \notin Saving
  BY JobsTyped DEF Saving
<1>1. CASE PairClientStarts
  <2> DEFINE j == "pairClient"
  <2>1. /\ OneJob(j) /\ Starts(j) /\ job'[j].pc = "listening" /\ portal' = portal
        /\ UNCHANGED <<file, tmp, pairLink, topoLink, restart, made, faults, torn, unpaired, removed>>
    BY <1>1, PairClientStartsIs
  <2> QED BY <1>0, <2>1, JobNames DEF Aside, Starts
<1>2. ASSUME NEW side \in Asked, NEW keep \in BOOLEAN, PairHostStarts(side, keep)
      PROVE  Aside("pairHost") /\ portal' = portal
  <2> DEFINE j == "pairHost"
  <2>1. /\ OneJob(j) /\ Starts(j) /\ job'[j].pc = "asked" /\ portal' = portal
        /\ pairLink = NoRecord /\ pairLink'.kind = "request"
        /\ UNCHANGED <<file, tmp, topoLink, restart, made, faults, torn, unpaired, removed>>
    BY <1>2, PairHostStartsIs
  <2> QED BY <1>0, <2>1, JobNames DEF Aside, Starts
<1>3. ASSUME NEW m \in Machines, Edits(m)
      PROVE  Aside(Edit(m)) /\ portal' = portal /\ Edit(m) \notin {"hostSession", "clientSession"}
  <2> DEFINE j == Edit(m)
  <2>1. /\ OneJob(j) /\ Starts(j) /\ removed \subseteq removed'
        /\ UNCHANGED <<file, tmp, failures, pairLink, topoLink, restart, portal, made, faults, torn,
                       unpaired>>
    BY <1>3, EditsIs
  <2>2. j \notin {"apply", "control", "pairHost", "pairClient", "hostSession", "clientSession"}
    BY JobNames DEF Edit
  <2> HIDE DEF j
  <2>3. Aside(j)
    BY <1>0, <2>1, <2>2 DEF Aside, Starts
  <2> QED BY <2>1, <2>2, <2>3 DEF j
<1> QED BY <1>1, <1>2, <1>3, JobNames DEF OtherSteps

\* The steps by the part they have in it.
LEMMA WorksSort ==
  ASSUME Typing, ChosenThere, Works
  PROVE  \/ \E j \in Jobs : Creates(j) \/ Rename(j) \/ Aside(j)
         \/ \E at \in Addresses, keep \in BOOLEAN : Grant(at, keep)
         \/ TakeGrant
         \/ \E id \in Ids, side \in Asked : ApplyStarts(id, side)
         \/ ControlTakes
         \/ \E sent \in BOOLEAN : ControlAck(sent)
         \/ TakeAck
<1>1. \/ \E j \in Jobs : Creates(j) \/ Rename(j)
      \/ \E at \in Addresses, keep \in BOOLEAN : Grant(at, keep)
      \/ TakeGrant
      \/ \E id \in Ids, side \in Asked : ApplyStarts(id, side)
      \/ ControlTakes
      \/ \E sent \in BOOLEAN : ControlAck(sent)
      \/ TakeAck
      \/ SessionSteps \/ OtherSteps
  BY DEF Works, SessionSteps, OtherSteps
<1>2. SessionSteps => \E j \in Jobs : Aside(j)
  BY SessionsAside, JobNames
<1>3. OtherSteps => \E j \in Jobs : Aside(j)
  BY OthersAside
<1> QED BY <1>1, <1>2, <1>3

-----------------------------------------------------------------------------
(* The exchange                                                            *)

\* Every step of a process keeps to the order in which a placement is exchanged.
LEMMA ExchangeKept ==
  ASSUME Typing, IdsMade, Pairings, Exchange, ChosenThere, Quits \/ Works
  PROVE  Exchange'
<1>0. /\ "apply" \in Jobs /\ "control" \in Jobs /\ "clientSession" \in Jobs
      /\ NoRecord.kind = "none" /\ Nobody.pc = "idle"
      /\ "create" \in Saving /\ "write" \in Saving /\ "asked" \notin Saving /\ "idle" \notin Saving
      /\ "running" \notin Saving
  BY JobNames, NobodyOk DEF NoRecord, Saving
<1>1. CASE Quits
  <2>1. /\ topoLink' \in {topoLink, NoRecord}
        /\ job'["apply"] # job["apply"] => topoLink' = NoRecord
        /\ job'["clientSession"] # job["clientSession"] => topoLink'.kind # "request"
        /\ job'["clientSession"] # job["clientSession"] => job'["control"].pc = "idle"
        /\ job'["apply"] # job["apply"] /\ job["apply"].pc = "asked" =>
             faults' > 0 \/ job["control"].pc = "idle"
        /\ faults' >= faults /\ faults' \in Nat /\ faults \in Nat
    BY <1>1, SetupAssumption DEF Quits, QuitJobs, QuitLinks, QuitRest, Typing
  <2>2. \A k \in {"apply", "control", "clientSession"} :
          job'[k] = job[k] \/ job'[k].pc = "idle"
    BY <1>0, <1>1, QuitsAre
  <2>3. faults' = 0 => faults = 0
    BY <2>1
  <2>4. ~(faults' > 0) => faults' = 0
    BY <2>1
  <2> QED BY <1>0, <2>1, <2>2, <2>3, <2>4 DEF Exchange, Applying, Controlling
<1>2. ASSUME NEW j \in Jobs, Creates(j) PROVE Exchange'
  <2>1. /\ OneJob(j) /\ job[j].pc = "create" /\ job'[j].pc = "write" /\ job'[j].id = job[j].id
        /\ job'[j].side = job[j].side /\ topoLink' = topoLink /\ faults' = faults
    BY <1>2, CreatesIs
  <2>2. \A k \in Jobs : \/ job'[k] = job[k]
                        \/ job[k].pc = "create" /\ job'[k].pc = "write" /\ job'[k].id = job[k].id
    BY <2>1 DEF OneJob
  <2> QED BY <1>0, <2>1, <2>2 DEF Exchange, Applying, Controlling
<1>3. ASSUME NEW j \in Jobs, Rename(j) PROVE Exchange'
  <2>1. /\ OneJob(j) /\ job[j].pc = "write" /\ topoLink' = topoLink /\ faults' = faults
        /\ \/ job[j].then = "idle" /\ job'[j] = Nobody
           \/ /\ job[j].then # "idle" /\ job'[j].pc = job[j].then /\ job'[j].id = job[j].id
        /\ job[j].then \in Thens(j)
    BY <1>3, RenameIs
  <2>2. \A k \in Jobs : k # j => job'[k] = job[k]
    BY <2>1 DEF OneJob
  <2>3. /\ j = "control" => job'[j].pc = "ack"
        /\ j = "apply" => job'[j].pc = "idle"
    BY <1>0, <2>1 DEF Thens
  <2> QED BY <1>0, <2>1, <2>2, <2>3 DEF Exchange, Applying, Controlling
<1>4. ASSUME NEW j \in Jobs, Aside(j) PROVE Exchange'
  <2>1. /\ job'["apply"] = job["apply"] /\ job'["control"] = job["control"]
        /\ topoLink' = topoLink /\ faults' = faults
        /\ job["clientSession"].pc = "running" => job'["clientSession"] = job["clientSession"]
    BY <1>0, <1>4 DEF Aside, OneJob
  <2> QED BY <2>1 DEF Exchange, Applying, Controlling
<1>5. ASSUME NEW at \in Addresses, NEW keep \in BOOLEAN, Grant(at, keep) PROVE Exchange'
  <2>1. OneJob("pairClient") /\ topoLink' = topoLink /\ faults' = faults
    BY <1>5, GrantIs
  <2>2. /\ job'["apply"] = job["apply"] /\ job'["control"] = job["control"]
        /\ job'["clientSession"] = job["clientSession"]
    BY <1>0, <2>1 DEF OneJob
  <2> QED BY <2>1, <2>2 DEF Exchange, Applying, Controlling
<1>6. CASE TakeGrant
  <2>1. OneJob("pairHost") /\ topoLink' = topoLink /\ faults' = faults
    BY <1>6, TakeGrantIs
  <2>2. /\ job'["apply"] = job["apply"] /\ job'["control"] = job["control"]
        /\ job'["clientSession"] = job["clientSession"]
    BY <1>0, <2>1 DEF OneJob
  <2> QED BY <2>1, <2>2 DEF Exchange, Applying, Controlling
<1>7. ASSUME NEW id \in Ids, NEW side \in Asked, ApplyStarts(id, side) PROVE Exchange'
  <2>1. /\ OneJob("apply") /\ job'["apply"].pc = "asked"
        /\ job'["apply"].id = id /\ job'["apply"].side = side
        /\ job["clientSession"].pc = "running" /\ job["clientSession"].id = id
        /\ job["control"].pc = "idle"
        /\ topoLink'.kind = "request" /\ topoLink'.side = side /\ faults' = faults
    BY <1>7, ApplyStartsIs
  <2>2. job'["control"] = job["control"] /\ job'["clientSession"] = job["clientSession"]
    BY <1>0, <2>1 DEF OneJob
  <2> QED BY <1>0, <2>1, <2>2 DEF Exchange, Applying, Controlling
<1>8. CASE ControlTakes
  <2>1. /\ job["clientSession"].pc = "running" /\ topoLink.kind = "request"
        /\ topoLink' = NoRecord /\ faults' = faults
        /\ OneJob("control") \/ job' = job
    BY <1>8, ControlTakesIs
  <2>2. job'["apply"] = job["apply"] /\ job'["clientSession"] = job["clientSession"]
    BY <1>0, <2>1 DEF OneJob
  <2> QED BY <1>0, <2>1, <2>2 DEF Exchange, Applying, Controlling
<1>9. ASSUME NEW sent \in BOOLEAN, ControlAck(sent) PROVE Exchange'
  <2>1. /\ OneJob("control") /\ job["control"].pc = "ack" /\ job'["control"] = Nobody
        /\ job["apply"].pc = "asked" => topoLink' = [kind |-> "ack"]
        /\ job["apply"].pc # "asked" => topoLink' = topoLink
    BY <1>9, ControlAckIs
  <2>2. job'["apply"] = job["apply"] /\ job'["clientSession"] = job["clientSession"]
    BY <1>0, <2>1 DEF OneJob
  <2>3. job["apply"].pc = "asked" => topoLink'.kind = "ack"
    BY <2>1
  <2> QED BY <1>0, <2>1, <2>2, <2>3 DEF Exchange, Applying, Controlling
<1>10. CASE TakeAck
  <2>1. /\ OneJob("apply") /\ topoLink.kind = "ack" /\ topoLink' = NoRecord
        /\ job'["apply"].pc = "create" /\ faults' = faults
    BY <1>10, TakeAckIs
  <2>2. job'["control"] = job["control"] /\ job'["clientSession"] = job["clientSession"]
    BY <1>0, <2>1 DEF OneJob
  <2> QED BY <1>0, <2>1, <2>2 DEF Exchange, Applying, Controlling
<1> QED BY <1>1, <1>2, <1>3, <1>4, <1>5, <1>6, <1>7, <1>8, <1>9, <1>10, WorksSort

-----------------------------------------------------------------------------
(* Copies                                                                  *)

\* The copy of one process, as Fresh says of each.
FreshAt(k) ==
  ~torn[On(k)] /\ k \notin behind /\ Holds(k) => Change(k, Records(On(k)), Recs(job[k].cfg))

\* A process that does nothing, with the file as it was, has the same change.
LEMMA FreshSame ==
  ASSUME Typing, Fresh, NEW k \in Jobs, job'[k] = job[k], Records(On(k))' = Records(On(k)),
         torn[On(k)] => torn'[On(k)], k \in behind => k \in behind', removed \subseteq removed',
         made' = made \/ k \notin {"pairHost", "pairClient"} \/ job[k].pc \notin Saving,
         k = "control" /\ job[k].pc \in Saving =>
           job'["clientSession"].id = job["clientSession"].id
  PROVE  FreshAt(k)'
<1> SUFFICES ASSUME ~torn'[On(k)], k \notin behind', Holds(k)'
             PROVE  Change(k, Records(On(k)), Recs(job[k].cfg))'
  BY DEF FreshAt
<1>1. Change(k, Records(On(k)), Recs(job[k].cfg))
  BY DEF Fresh, Holds
<1>2. Recs(job'[k].cfg) = Recs(job[k].cfg)
  OBVIOUS
<1> DEFINE R == Records(On(k))
           S == Recs(job[k].cfg)
<1>3. Records(On(k))' = R
  OBVIOUS
<1> HIDE DEF R, S
<1>4. Change(k, R, S)
  BY <1>1 DEF R, S
<1>5. Recs(job'[k].cfg) = S
  BY <1>2 DEF S
<1>6. CASE job[k].pc \notin Saving
  BY <1>3, <1>4, <1>5, <1>6 DEF Change
<1>7. CASE job[k].pc \in Saving /\ k \in {"pairHost", "pairClient"}
  BY <1>3, <1>4, <1>5, <1>7 DEF Change
<1>8. CASE job[k].pc \in Saving /\ k = "apply"
  BY <1>3, <1>4, <1>5, <1>8 DEF Change
<1>9. CASE job[k].pc \in Saving /\ k = "control"
  BY <1>3, <1>4, <1>5, <1>9 DEF Change
<1>10. CASE job[k].pc \in Saving /\ k \in {"hostSession", "clientSession"}
  BY <1>3, <1>4, <1>5, <1>10 DEF Change
<1>11. CASE job[k].pc \in Saving /\ k \notin {"pairHost", "pairClient", "apply", "control",
                                              "hostSession", "clientSession"}
  BY <1>3, <1>4, <1>5, <1>11 DEF Change
<1> QED BY <1>6, <1>7, <1>8, <1>9, <1>10, <1>11

\* One process goes on, and the others are as they were.
LEMMA FreshOne ==
  ASSUME Typing, Fresh, Exchange, NEW j \in Jobs, OneJob(j), file' = file, torn' = torn,
         behind' \in {behind, behind \ {j}}, removed \subseteq removed',
         made' = made \/ (j = "pairClient" /\ job["pairHost"].pc \notin Saving),
         j = "clientSession" => job[j].pc # "running", FreshAt(j)'
  PROVE  Fresh'
<1>1. ASSUME NEW k \in Jobs, k # j PROVE FreshAt(k)'
  <2>1. job'[k] = job[k]
    BY <1>1 DEF OneJob
  <2>2. Records(On(k))' = Records(On(k))
    BY SameStored
  <2>3. k = "control" /\ job[k].pc \in Saving =>
          job'["clientSession"].id = job["clientSession"].id
    <3>1. "clientSession" \in Jobs /\ "idle" \notin Saving
      BY JobNames DEF Saving
    <3>2. k = "control" /\ job[k].pc \in Saving => j # "clientSession"
      BY <3>1 DEF Exchange, Controlling
    <3> QED BY <3>1, <3>2 DEF OneJob
  <2>4. made' = made \/ k \notin {"pairHost", "pairClient"} \/ job[k].pc \notin Saving
    BY <1>1
  <2>5. k \in behind => k \in behind'
    BY <1>1
  <2> QED BY <2>1, <2>2, <2>3, <2>4, <2>5, FreshSame
<1>2. \A k \in Jobs : FreshAt(k)'
  BY <1>1
<1> QED BY <1>2 DEF Fresh, FreshAt

\* A process that ends, or waits again, saves nothing.
LEMMA FreshQuits ==
  ASSUME Typing, Fresh, Exchange, Quits
  PROVE  Fresh'
<1>0. /\ file' = file /\ behind' = behind /\ removed' = removed /\ made' = made
      /\ \A m \in Machines : torn[m] => torn'[m]
      /\ \A k \in Jobs : On(k) \in Machines
      /\ job'["clientSession"] # job["clientSession"] => job'["control"].pc = "idle"
      /\ "idle" \notin Saving /\ "listening" \notin Saving
  BY JobNames DEF Quits, QuitRest, QuitJobs, Saving
<1>1. ASSUME NEW k \in Jobs PROVE FreshAt(k)'
  <2>1. Records(On(k))' = Records(On(k))
    BY <1>0, SameStored
  <2>2. \/ job'[k] = job[k]
        \/ job'[k].pc = "idle"
        \/ /\ k = "pairClient" /\ job'[k].pc = "listening" /\ job'[k].cfg = job[k].cfg
           /\ job[k].pc # "idle" /\ job'[k] # job[k]
    BY QuitsAre
  <2>3. CASE job'[k] = job[k]
    BY <1>0, <2>1, <2>3, FreshSame
  <2>4. CASE job'[k].pc = "idle"
    BY <2>4 DEF FreshAt, Holds
  <2>5. CASE /\ k = "pairClient" /\ job'[k].pc = "listening" /\ job'[k].cfg = job[k].cfg
             /\ job[k].pc # "idle" /\ job'[k] # job[k]
    <3>1. job[k].pc \in Saving => torn'[On(k)]
      BY <2>5, QuitsAre
    <3>2. job[k].pc \in {"listening", "create", "write"}
      BY <2>5, JobsTyped, PcsAre
    <3>3. CASE job[k].pc = "listening"
      <4>1. torn[On(k)] \/ k \in behind \/ Change(k, Records(On(k)), Recs(job[k].cfg))
        BY <3>3 DEF Fresh, Holds
      <4>2. Change(k, Records(On(k)), Recs(job[k].cfg)) =>
              Recs(job[k].cfg) = Records(On(k))
        BY <1>0, <2>5, <3>3 DEF Change
      <4>3. torn'[On(k)] \/ k \in behind \/ Recs(job'[k].cfg) = Records(On(k))'
        BY <1>0, <2>1, <2>5, <4>1, <4>2
      <4> QED BY <1>0, <2>5, <4>3 DEF FreshAt, Change
    <3>4. CASE job[k].pc \in Saving
      BY <3>1, <3>4 DEF FreshAt
    <3> QED BY <3>2, <3>3, <3>4 DEF Saving
  <2> QED BY <2>2, <2>3, <2>4, <2>5
<1> QED BY <1>1 DEF Fresh, FreshAt

\* A save goes on.
LEMMA FreshCreates ==
  ASSUME Typing, Fresh, Exchange, NEW j \in Jobs, Creates(j)
  PROVE  Fresh'
<1>1. /\ OneJob(j) /\ job[j].pc = "create" /\ job'[j].pc = "write"
      /\ job'[j].cfg = job[j].cfg /\ job'[j].id = job[j].id /\ job'[j].side = job[j].side
      /\ UNCHANGED <<file, behind, torn, removed, made>>
  BY CreatesIs
<1>2. Records(On(j))' = Records(On(j))
  BY <1>1, SameStored
<1>3. "create" \in Saving /\ "write" \in Saving
  BY DEF Saving
<1>4. j = "control" => job'["clientSession"] = job["clientSession"]
  BY <1>1, JobNames DEF OneJob
<1> DEFINE R == Records(On(j))
           S == Recs(job[j].cfg)
<1>5. R' = R /\ S' = S
  BY <1>1, <1>2
<1>6. torn[On(j)] \/ j \in behind \/ Change(j, R, S)
  BY <1>1 DEF Fresh, Holds
<1> HIDE DEF R, S
<1>7. Change(j, R, S) => Change(j, R, S)'
  <2>1. CASE j \in {"pairHost", "pairClient"}
    BY <1>1, <1>3, <1>5, <2>1 DEF Change
  <2>2. CASE j = "apply"
    BY <1>1, <1>3, <1>5, <2>2 DEF Change
  <2>3. CASE j = "control"
    BY <1>1, <1>3, <1>4, <1>5, <2>3 DEF Change
  <2>4. CASE j \in {"hostSession", "clientSession"}
    BY <1>1, <1>3, <1>5, <2>4 DEF Change
  <2>5. CASE j \notin {"pairHost", "pairClient", "apply", "control", "hostSession", "clientSession"}
    BY <1>1, <1>3, <1>5, <2>5 DEF Change
  <2> QED BY <2>1, <2>2, <2>3, <2>4, <2>5
<1>8. FreshAt(j)'
  BY <1>1, <1>6, <1>7 DEF FreshAt, R, S
<1> QED BY <1>1, <1>8, FreshOne

\* Those that hold a copy when a file is replaced are behind it.
LEMMA FreshRename ==
  ASSUME Typing, Fresh, Exchange, NEW j \in Jobs, Rename(j)
  PROVE  Fresh'
<1>1. /\ OneJob(j) /\ job[j].pc = "write"
      /\ job'[j] = Nobody \/ (job'[j].pc = job[j].then /\ job'[j].id = job[j].id)
      /\ job[j].then \in Thens(j)
      /\ \A m \in Machines : m # On(j) => file'[m] = file[m] /\ torn'[m] = torn[m]
      /\ behind' = (behind \cup {k \in Jobs : On(k) = On(j) /\ Holds(k)}) \ {j}
      /\ removed' = removed /\ made' = made
  BY RenameIs
<1>2. job'[j].pc \in {"idle", "running"} \/ (j = "control" /\ job'[j].pc = "ack")
  BY <1>1, NobodyOk DEF Thens
<1>3. FreshAt(j)'
  BY <1>2 DEF FreshAt, Holds, Change, Saving
<1>4. ASSUME NEW k \in Jobs, k # j PROVE FreshAt(k)'
  <2>1. job'[k] = job[k] /\ On(k) \in Machines
    BY <1>1, <1>4, JobNames DEF OneJob
  <2>2. CASE On(k) = On(j)
    BY <1>1, <1>4, <2>1, <2>2 DEF FreshAt, Holds
  <2>3. CASE On(k) # On(j)
    <3>1. Records(On(k))' = Records(On(k))
      BY <1>1, <2>1, <2>3 DEF Records, Stored
    <3>2. k = "control" /\ job[k].pc \in Saving => job'["clientSession"] = job["clientSession"]
      <4>1. "clientSession" \in Jobs /\ "idle" \notin Saving
        BY JobNames DEF Saving
      <4>2. k = "control" /\ job[k].pc \in Saving => j # "clientSession"
        BY <1>1, <4>1 DEF Exchange, Controlling
      <4> QED BY <1>1, <4>1, <4>2 DEF OneJob
    <3> QED BY <1>1, <1>4, <2>1, <2>3, <3>1, <3>2, FreshSame
  <2> QED BY <2>2, <2>3
<1>5. \A k \in Jobs : FreshAt(k)'
  BY <1>3, <1>4
<1> QED BY <1>5 DEF Fresh, FreshAt

\* The steps of pairing.
LEMMA FreshPairing ==
  ASSUME Typing, IdsMade, Pairings, Fresh, Exchange,
         \/ PairClientStarts
         \/ \E side \in Asked, keep \in BOOLEAN : PairHostStarts(side, keep)
         \/ \E at \in Addresses, keep \in BOOLEAN : Grant(at, keep)
         \/ TakeGrant
  PROVE  Fresh'
<1>0. /\ "create" \in Saving /\ "asked" \notin Saving /\ "listening" \notin Saving
      /\ "pairHost" \in Jobs /\ "pairClient" \in Jobs
      /\ On("pairHost") = "host" /\ On("pairClient") = "client"
  BY JobNames DEF Saving, On
<1>1. CASE PairClientStarts
  <2>1. /\ OneJob("pairClient") /\ Starts("pairClient")
        /\ job'["pairClient"].pc = "listening" /\ job'["pairClient"].cfg = Stored("client")
        /\ UNCHANGED <<file, torn, removed, made>>
    BY <1>1, PairClientStartsIs
  <2>2. Recs(Stored("client")) = Records("client") /\ Records("client")' = Records("client")
    BY <2>1, StoredIs, JobNames, SameStored
  <2>3. FreshAt("pairClient")'
    BY <1>0, <2>1, <2>2 DEF FreshAt, Change
  <2> QED BY <1>0, <2>1, <2>3, FreshOne DEF Starts
<1>2. ASSUME NEW side \in Asked, NEW keep \in BOOLEAN, PairHostStarts(side, keep)
      PROVE  Fresh'
  <2>1. /\ OneJob("pairHost") /\ Starts("pairHost") /\ job'["pairHost"].pc = "asked"
        /\ UNCHANGED <<file, torn, removed, made>>
    BY <1>2, PairHostStartsIs
  <2>2. FreshAt("pairHost")'
    BY <1>0, <2>1 DEF FreshAt, Change
  <2> QED BY <1>0, <2>1, <2>2, FreshOne DEF Starts
<1>3. ASSUME NEW at \in Addresses, NEW keep \in BOOLEAN, Grant(at, keep)
      PROVE  Fresh'
  <2>1. /\ OneJob("pairClient") /\ job["pairClient"].pc = "listening"
        /\ job'["pairClient"].pc = "create" /\ pairLink.kind = "request"
        /\ UNCHANGED <<file, behind, torn, removed>>
    BY <1>3, GrantIs
  <2>2. PICK p : NewPeer(p) /\ Recs(job'["pairClient"].cfg) = Joined(Recs(job["pairClient"].cfg), p)
    BY <1>3, GrantIs
  <2>3. Records("client")' = Records("client")
    BY <2>1, SameStored
  <2>4. ~torn["client"] /\ "pairClient" \notin behind =>
          Recs(job["pairClient"].cfg) = Records("client")
    BY <1>0, <2>1 DEF Fresh, Holds, Change
  <2>5. p \in Recs(job'["pairClient"].cfg)
    BY <2>2 DEF Joined
  <2>6. FreshAt("pairClient")'
    BY <1>0, <2>1, <2>2, <2>3, <2>4, <2>5 DEF FreshAt, Change, NewPeer
  <2>7. job["pairHost"].pc \notin Saving
    <3>1. pairLink # NoRecord
      BY <2>1 DEF NoRecord
    <3> QED BY <1>0, <3>1 DEF Pairings
  <2> QED BY <1>0, <2>1, <2>6, <2>7, FreshOne
<1>4. CASE TakeGrant
  <2> DEFINE p == HostPeer(pairLink)
  <2>1. /\ OneJob("pairHost") /\ job["pairHost"].pc = "asked"
        /\ job'["pairHost"].pc = "create" /\ behind' = behind \ {"pairHost"}
        /\ p.id = made /\ p.capture = 0 /\ p.remote = 0
        /\ Recs(job'["pairHost"].cfg) = Joined(Records("host"), p)
        /\ UNCHANGED <<file, torn, removed, made>>
    BY <1>4, TakeGrantIs
  <2> HIDE DEF p
  <2>2. Records("host")' = Records("host")
    BY <2>1, SameStored
  <2>3. p \in Recs(job'["pairHost"].cfg)
    BY <2>1 DEF Joined
  <2>4. FreshAt("pairHost")'
    BY <1>0, <2>1, <2>2, <2>3 DEF FreshAt, Change
  <2> QED BY <1>0, <2>1, <2>4, FreshOne
<1> QED BY <1>1, <1>2, <1>3, <1>4

\* The steps of the placement transaction.
LEMMA FreshTopology ==
  ASSUME Typing, Fresh, ChosenThere, Exchange,
         \/ \E id \in Ids, side \in Asked : ApplyStarts(id, side)
         \/ ControlTakes
         \/ \E sent \in BOOLEAN : ControlAck(sent)
         \/ TakeAck
  PROVE  Fresh'
<1>0. /\ "create" \in Saving /\ "asked" \notin Saving
      /\ "apply" \in Jobs /\ "control" \in Jobs /\ "clientSession" \in Jobs
      /\ On("apply") = "host" /\ On("control") = "client"
  BY JobNames DEF Saving, On
<1>1. ASSUME NEW id \in Ids, NEW side \in Asked, ApplyStarts(id, side)
      PROVE  Fresh'
  <2>1. /\ OneJob("apply") /\ Starts("apply")
        /\ job'["apply"].pc = "asked" /\ job'["apply"].cfg = Stored("host")
        /\ UNCHANGED <<file, torn, removed, made>>
    BY <1>1, ApplyStartsIs
  <2>2. Recs(Stored("host")) = Records("host") /\ Records("host")' = Records("host")
    BY <2>1, StoredIs, JobNames, SameStored
  <2>3. FreshAt("apply")'
    BY <1>0, <2>1, <2>2 DEF FreshAt, Change
  <2> QED BY <1>0, <2>1, <2>3, FreshOne DEF Starts
<1>2. CASE ControlTakes
  <2>1. /\ job["control"].pc = "idle"
        /\ \/ /\ OneJob("control") /\ behind' = behind \ {"control"}
              /\ job'["control"].pc = "create"
              /\ Opposite(topoLink.side) \in Placements
              /\ Recs(job'["control"].cfg) =
                   Placed(Records("client"), job["clientSession"].id, Opposite(topoLink.side))
           \/ job' = job /\ behind' = behind
        /\ UNCHANGED <<file, torn, removed, made>>
    BY <1>2, ControlTakesIs
  <2>2. Records("client")' = Records("client")
    BY <2>1, SameStored
  <2>3. CASE /\ OneJob("control") /\ behind' = behind \ {"control"}
             /\ job'["control"].pc = "create"
             /\ Opposite(topoLink.side) \in Placements
             /\ Recs(job'["control"].cfg) =
                  Placed(Records("client"), job["clientSession"].id, Opposite(topoLink.side))
    <3>1. job'["clientSession"] = job["clientSession"]
      BY <1>0, <2>3 DEF OneJob
    <3>2. FreshAt("control")'
      BY <1>0, <2>1, <2>2, <2>3, <3>1 DEF FreshAt, Change
    <3> QED BY <1>0, <2>1, <2>3, <3>2, FreshOne
  <2>4. CASE job' = job /\ behind' = behind
    <3>1. ASSUME NEW k \in Jobs PROVE FreshAt(k)'
      <4>1. Records(On(k))' = Records(On(k))
        BY <2>1, SameStored
      <4> QED BY <2>1, <2>4, <4>1, FreshSame
    <3> QED BY <3>1 DEF Fresh, FreshAt
  <2> QED BY <2>1, <2>3, <2>4
<1>3. ASSUME NEW sent \in BOOLEAN, ControlAck(sent)
      PROVE  Fresh'
  <2>1. /\ OneJob("control") /\ job'["control"] = Nobody
        /\ UNCHANGED <<file, behind, torn, removed, made>>
    BY <1>3, ControlAckIs
  <2>2. FreshAt("control")'
    BY <1>0, <2>1, NobodyOk DEF FreshAt, Holds
  <2> QED BY <1>0, <2>1, <2>2, FreshOne
<1>4. CASE TakeAck
  <2>1. /\ OneJob("apply") /\ job["apply"].pc = "asked"
        /\ job'["apply"].pc = "create" /\ job'["apply"].id = job["apply"].id
        /\ job'["apply"].side = job["apply"].side
        /\ Recs(job'["apply"].cfg) =
             Placed(Recs(job["apply"].cfg), job["apply"].id, job["apply"].side)
        /\ UNCHANGED <<file, behind, torn, removed, made>>
    BY <1>4, TakeAckIs
  <2>2. Records("host")' = Records("host")
    BY <2>1, SameStored
  <2>3. ~torn["host"] /\ "apply" \notin behind => Recs(job["apply"].cfg) = Records("host")
    BY <1>0, <2>1 DEF Fresh, Holds, Change
  <2>4. FreshAt("apply")'
    BY <1>0, <2>1, <2>2, <2>3 DEF FreshAt, Change
  <2> QED BY <1>0, <2>1, <2>4, FreshOne
<1> QED BY <1>1, <1>2, <1>3, <1>4

\* A session that is answered.
LEMMA FreshAnswered ==
  ASSUME Typing, Fresh, Exchange, NEW j \in {"hostSession", "clientSession"}, OneJob(j),
         job[j].pc \in {"portals", "watcher"}, NEW kinds,
         \/ Stores(j, kinds)
         \/ job'[j].pc \in {"idle", "running"}
         \/ job'[j].pc = "watcher" /\ job'[j].cfg = job[j].cfg,
         UNCHANGED <<file, behind, torn, removed, made>>
  PROVE  Fresh'
<1>0. "create" \in Saving /\ "watcher" \notin Saving /\ "portals" \notin Saving /\ j \in Jobs
  BY JobNames DEF Saving
<1>1. Records(On(j))' = Records(On(j))
  BY SameStored
<1>2. ~torn[On(j)] /\ j \notin behind => Recs(job[j].cfg) = Records(On(j))
  BY <1>0 DEF Fresh, Holds, Change
<1>3. FreshAt(j)'
  <2>1. CASE Stores(j, kinds)
    BY <1>0, <1>1, <1>2, <2>1 DEF FreshAt, Change, Stores
  <2>2. CASE job'[j].pc \in {"idle", "running"}
    BY <2>2 DEF FreshAt, Holds
  <2>3. CASE job'[j].pc = "watcher" /\ job'[j].cfg = job[j].cfg
    BY <1>0, <1>1, <1>2, <2>3 DEF FreshAt, Change
  <2> QED BY <2>1, <2>2, <2>3
<1> QED BY <1>0, <1>3, FreshOne

\* The steps of configured sessions.
LEMMA FreshSessions ==
  ASSUME Typing, Fresh, ChosenThere, Exchange, SessionSteps
  PROVE  Fresh'
<1>0. /\ "portals" \notin Saving /\ Nobody.pc = "idle"
      /\ \A m \in Machines : Session(m) \in {"hostSession", "clientSession"}
  BY JobNames, NobodyOk DEF Saving, Session
<1>1. ASSUME NEW m \in Machines, NEW id \in Ids, SessionStarts(m, id)
      PROVE  Fresh'
  <2> DEFINE j == Session(m)
  <2>1. /\ OneJob(j) /\ Starts(j) /\ job'[j].pc = "portals" /\ job'[j].cfg = Stored(m)
        /\ UNCHANGED <<file, torn, removed, made>>
    BY <1>1, SessionStartsIs
  <2>2. Recs(Stored(m)) = Records(m) /\ Records(m)' = Records(m)
    BY <2>1, StoredIs, SameStored
  <2>3. j \in {"hostSession", "clientSession"} /\ j \in Jobs /\ On(j) = m
    BY <1>0, JobNames
  <2> HIDE DEF j
  <2>4. FreshAt(j)'
    BY <1>0, <2>1, <2>2, <2>3 DEF FreshAt, Change
  <2> QED BY <1>0, <2>1, <2>3, <2>4, FreshOne DEF Starts
<1>2. CASE HostPortalStarts
  <2> DEFINE j == "hostSession"
  <2>1. /\ OneJob(j) /\ job[j].pc = "portals"
        /\ (Stores(j, {"capture"}) \/ GoesOn(j))
        /\ UNCHANGED <<file, behind, torn, removed, made>>
    BY <1>2, HostPortalStartsIs
  <2> QED BY <2>1, FreshAnswered DEF GoesOn
<1>3. CASE RemoteDesktopStarts
  <2> DEFINE j == "clientSession"
  <2>1. /\ OneJob(j) /\ job[j].pc = "portals"
        /\ job'[j].pc = "watcher" /\ job'[j].cfg = job[j].cfg
        /\ UNCHANGED <<file, behind, torn, removed, made>>
    BY <1>3, RemoteDesktopStartsIs
  <2> QED BY <2>1, FreshAnswered
<1>4. CASE WatcherStarts
  <2> DEFINE j == "clientSession"
  <2>1. /\ OneJob(j) /\ job[j].pc = "watcher" 
        /\ (Stores(j, {"capture", "remote"}) \/ GoesOn(j))
        /\ UNCHANGED <<file, behind, torn, removed, made>>
    BY <1>4, WatcherStartsIs
  <2> QED BY <2>1, FreshAnswered DEF GoesOn
<1>5. CASE WatcherRefused
  <2> DEFINE j == "clientSession"
  <2>1. /\ OneJob(j) /\ job[j].pc = "watcher"
        /\ (Stores(j, {"remote"}) \/ job'[j] = Nobody)
        /\ UNCHANGED <<file, behind, torn, removed, made>>
    BY <1>5, WatcherRefusedIs
  <2> QED BY <1>0, <2>1, FreshAnswered
<1> QED BY <1>1, <1>2, <1>3, <1>4, <1>5 DEF SessionSteps

\* Commands that edit the file.
LEMMA FreshEdits ==
  ASSUME Typing, Fresh, Exchange, NEW m \in Machines, Edits(m)
  PROVE  Fresh'
<1> DEFINE j == Edit(m)
<1>1. /\ OneJob(j) /\ Starts(j) /\ job'[j].pc = "create"
      /\ \/ removed' = removed /\ Recs(job'[j].cfg) = Records(m)
         \/ \E id \in Ids : /\ removed' = removed \cup {id}
                            /\ Recs(job'[j].cfg) = Without(Records(m), id)
      /\ UNCHANGED <<file, torn, made>>
  BY EditsIs
<1>2. /\ j \in Jobs /\ On(j) = m /\ j \in {"hostEdit", "clientEdit"}
      /\ "create" \in Saving
  BY JobNames DEF Edit, Saving
<1>3. Records(m)' = Records(m)
  BY <1>1, SameStored
<1> HIDE DEF j
<1>4. removed \subseteq removed'
  BY <1>1
<1>5. Recs(job'[j].cfg) = Records(m) \/ \E id \in removed' : Recs(job'[j].cfg) = Without(Records(m), id)
  BY <1>1
<1>6. FreshAt(j)'
  BY <1>1, <1>2, <1>3, <1>5 DEF FreshAt, Change
<1> QED BY <1>1, <1>2, <1>4, <1>6, FreshOne DEF Starts

\* A process that is not behind will save the file with one change.
LEMMA FreshKept ==
  ASSUME Typing, IdsMade, Pairings, Fresh, Exchange, ChosenThere, Quits \/ Works
  PROVE  Fresh'
BY FreshQuits, FreshCreates, FreshRename, FreshPairing, FreshTopology, FreshSessions, FreshEdits
   DEF Works, SessionSteps

-----------------------------------------------------------------------------
(* Tokens                                                                  *)

\* The tokens at one desktop, as Tokens says of each.
TokensAt(m) ==
  ~torn[m] =>
    LET s == Session(m) IN
    /\ \A p \in Records(m) :
         p.keep /\ (p.id # job[s].id \/ job[s].pc \notin Saving \cup {"watcher"}) => Current(m, p)
    /\ job[s].pc = "watcher" =>
         \A p \in Records(m) :
           p.keep /\ p.id = job[s].id => p.capture = portal[m][p.id].capture
    /\ job[s].pc \in Saving /\ s \notin behind =>
         \A p \in Recs(job[s].cfg) : p.keep => Current(m, p)

\* The tokens are right when they are right on each machine.
LEMMA TokensEach ==
         /\ Tokens <=> \A m \in Machines : TokensAt(m)
         /\ Tokens' <=> \A m \in Machines : TokensAt(m)'
BY DEF Tokens, TokensAt

\* What a peer's tokens are compared with.
LEMMA CurrentIs ==
  ASSUME Typing, portal' \in [Machines -> [Ids -> [capture : Nat, remote : Nat]]],
         NEW m \in Machines, NEW p, p.id \in Ids
  PROVE  /\ Current(m, p) <=> /\ p.capture = portal[m][p.id].capture
                              /\ p.remote = portal[m][p.id].remote
         /\ Current(m, p)' <=> /\ p.capture = portal'[m][p.id].capture
                               /\ p.remote = portal'[m][p.id].remote
<1>1. /\ portal[m][p.id] \in [capture : Nat, remote : Nat]
      /\ portal'[m][p.id] \in [capture : Nat, remote : Nat]
  BY DEF Typing
<1>2. /\ portal[m][p.id] =
           [capture |-> portal[m][p.id].capture, remote |-> portal[m][p.id].remote]
      /\ portal'[m][p.id] =
           [capture |-> portal'[m][p.id].capture, remote |-> portal'[m][p.id].remote]
  BY <1>1
<1> QED BY <1>2 DEF Current

\* Where nothing changes that tokens depend on.
LEMMA TokensSame ==
  ASSUME NEW m \in Machines, TokensAt(m), Records(m)' = Records(m),
         portal'[m] = portal[m], torn[m] => torn'[m],
         Session(m) \in behind => Session(m) \in behind',
         job'[Session(m)].cfg = job[Session(m)].cfg, job'[Session(m)].id = job[Session(m)].id,
         job'[Session(m)].pc \in Saving <=> job[Session(m)].pc \in Saving,
         job'[Session(m)].pc = "watcher" <=> job[Session(m)].pc = "watcher"
  PROVE  TokensAt(m)'
<1>1. \A p : Current(m, p)' <=> Current(m, p)
  BY DEF Current
<1>2. Recs(job'[Session(m)].cfg) = Recs(job[Session(m)].cfg)
  OBVIOUS
<1> DEFINE s == Session(m)
<1>3. Session(m)' = s
  BY DEF Session
<1> HIDE DEF s
<1> QED BY <1>1, <1>2, <1>3 DEF TokensAt, s

\* Another process goes on.
LEMMA TokensOther ==
  ASSUME Typing, Tokens, NEW j \in Jobs \ {"hostSession", "clientSession"}, OneJob(j) \/ job' = job,
         file' = file, torn' = torn, portal' = portal, behind' \in {behind, behind \ {j}}
  PROVE  Tokens'
<1>1. ASSUME NEW m \in Machines PROVE TokensAt(m)'
  <2>1. Session(m) \in Jobs /\ Session(m) # j
    BY JobNames DEF Session
  <2>2. job'[Session(m)] = job[Session(m)]
    BY <2>1 DEF OneJob
  <2>3. Records(m)' = Records(m)
    BY SameStored
  <2>4. Session(m) \in behind => Session(m) \in behind'
    BY <2>1
  <2> QED BY <2>2, <2>3, <2>4, TokensEach, TokensSame
<1> QED BY <1>1, TokensEach

\* The session of one desktop goes on.
LEMMA TokensOne ==
  ASSUME Typing, Tokens, NEW n \in Machines, OneJob(Session(n)), file' = file, torn' = torn,
         \A m \in Machines : m # n => portal'[m] = portal[m],
         behind' \in {behind, behind \ {Session(n)}}, TokensAt(n)'
  PROVE  Tokens'
<1>1. ASSUME NEW m \in Machines, m # n PROVE TokensAt(m)'
  <2>1. Session(m) \in Jobs /\ Session(m) # Session(n)
    BY <1>1, JobNames
  <2>2. job'[Session(m)] = job[Session(m)]
    BY <2>1 DEF OneJob
  <2>3. Records(m)' = Records(m)
    BY SameStored
  <2>4. Session(m) \in behind => Session(m) \in behind'
    BY <2>1
  <2> QED BY <1>1, <2>2, <2>3, <2>4, TokensEach, TokensSame
<1> QED BY <1>1, TokensEach

\* A process that ends had no token to store, or its save is lost.
LEMMA TokensQuits ==
  ASSUME Typing, Tokens, Quits
  PROVE  Tokens'
<1>0. /\ file' = file /\ behind' = behind /\ portal' = portal
      /\ \A m \in Machines : torn[m] => torn'[m]
  BY DEF Quits, QuitRest
<1>1. ASSUME NEW m \in Machines PROVE TokensAt(m)'
  <2> DEFINE s == Session(m)
  <2>1. s \in Jobs /\ On(s) = m /\ s # "pairClient" /\ s' = s
    BY JobNames DEF Session
  <2>2. Records(m)' = Records(m)
    BY <1>0, SameStored
  <2>3. /\ job'[s] = job[s] \/ job'[s].pc = "idle"
        /\ job'[s] # job[s] /\ job[s].pc \in Saving \cup {"watcher"} => torn'[m]
    BY <2>1, QuitsAre
  <2>4. CASE job'[s] = job[s]
    BY <1>0, <2>2, <2>4, TokensEach, TokensSame
  <2>5. CASE job'[s] # job[s]
    <3>1. TokensAt(m)
      BY TokensEach
    <3>2. \A p : Current(m, p)' <=> Current(m, p)
      BY <1>0 DEF Current
    <3>3. "idle" \notin Saving
      BY DEF Saving
    <3> QED BY <1>0, <2>1, <2>2, <2>3, <2>5, <3>1, <3>2, <3>3 DEF TokensAt
  <2> QED BY <2>4, <2>5
<1> QED BY <1>1, TokensEach

\* A save goes on.
LEMMA TokensCreates ==
  ASSUME Typing, Tokens, NEW j \in Jobs, Creates(j)
  PROVE  Tokens'
<1>1. /\ OneJob(j) /\ job[j].pc = "create" /\ job'[j].pc = "write"
      /\ job'[j].cfg = job[j].cfg /\ job'[j].id = job[j].id
      /\ UNCHANGED <<file, behind, torn, portal>>
  BY CreatesIs
<1>2. ASSUME NEW m \in Machines PROVE TokensAt(m)'
  <2> DEFINE s == Session(m)
  <2>1. s \in Jobs
    BY JobNames
  <2>2. Records(m)' = Records(m)
    BY <1>1, SameStored
  <2>3. /\ job'[s].cfg = job[s].cfg /\ job'[s].id = job[s].id
        /\ job'[s].pc \in Saving <=> job[s].pc \in Saving
        /\ job'[s].pc = "watcher" <=> job[s].pc = "watcher"
    BY <1>1, <2>1 DEF OneJob, Saving
  <2> QED BY <1>1, <2>2, <2>3, TokensEach, TokensSame
<1> QED BY <1>2, TokensEach

\* What is saved by another process than the session has the tokens of the file.
LEMMA SavesTokens ==
  ASSUME Typing, Pairings, Fresh, NEW j \in Jobs \ {"hostSession", "clientSession"},
         job[j].pc = "write", ~torn[On(j)], j \notin behind, NEW p \in Recs(job[j].cfg)
  PROVE  \/ \E q \in Records(On(j)) : q.id = p.id /\ q.keep = p.keep /\ q.capture = p.capture
                                      /\ q.remote = p.remote
         \/ p.id = made /\ p.capture = 0 /\ p.remote = 0 /\ portal[On(j)][made] = NoTokens
<1> DEFINE R == Records(On(j))
           S == Recs(job[j].cfg)
<1>1. Change(j, R, S) /\ "write" \in Saving
  BY DEF Fresh, Holds, Saving
<1>2. R \subseteq PeerRecs
  BY StoredIs, JobNames
<1>3. On("pairHost") = "host" /\ On("pairClient") = "client"
  BY DEF On
<1> HIDE DEF R, S
<1>4. CASE j \in {"pairHost", "pairClient"}
  <2>1. PICK new \in S : new.id = made /\ new.capture = 0 /\ new.remote = 0 /\ S = Joined(R, new)
    BY <1>1, <1>4 DEF Change
  <2>2. p \in R \/ p = new
    BY <2>1 DEF Joined, S
  <2>3. portal[On(j)][made] = NoTokens
    BY <1>1, <1>3, <1>4 DEF Pairings, HostPending, ClientPending, Unknown
  <2> QED BY <2>1, <2>2, <2>3 DEF R
<1>5. CASE j \in {"apply", "control"}
  <2>1. PICK id, s : S = Placed(R, id, s)
    BY <1>1, <1>5 DEF Change
  <2>2. p \in Placed(R, id, s)
    BY <2>1 DEF S
  <2> QED BY <1>2, <2>2, PlacedIs DEF R
<1>6. CASE j \notin {"pairHost", "pairClient", "apply", "control"}
  <2>1. S = R \/ \E i \in removed : S = Without(R, i)
    BY <1>1, <1>6 DEF Change
  <2>2. p \in R
    BY <2>1 DEF Without, S
  <2> QED BY <2>2 DEF R
<1> QED BY <1>4, <1>5, <1>6

\* A file is replaced: by the session with the tokens it was given, by any other
\* process with those of the file.
LEMMA TokensRename ==
  ASSUME Typing, IdsMade, Pairings, Fresh, Tokens, NEW j \in Jobs, Rename(j)
  PROVE  Tokens'
<1> DEFINE n == On(j)
           s == Session(n)
<1>1. /\ OneJob(j) /\ job[j].pc = "write"
      /\ job'[j] = Nobody \/ (job'[j].pc = job[j].then /\ job'[j].id = job[j].id)
      /\ job[j].then \in Thens(j) /\ Config(job[j].cfg)
      /\ Parse(file'[n]) = job[j].cfg
      /\ \A m \in Machines : m # n => file'[m] = file[m] /\ torn'[m] = torn[m]
      /\ torn'[n] = (torn[n] \/ j \in behind)
      /\ behind' = (behind \cup {k \in Jobs : On(k) = n /\ Holds(k)}) \ {j}
      /\ portal' = portal /\ made' = made
  BY RenameIs
<1>2. n \in Machines /\ s \in Jobs /\ On(s) = n /\ Nobody.pc = "idle" /\ s' = s
      /\ "idle" \notin Saving /\ "running" \notin Saving /\ "write" \in Saving
  BY JobNames, NobodyOk DEF Saving, Session
<1>3. Records(n)' = Recs(job[j].cfg)
  BY <1>1 DEF Records, Stored, Recs
<1>4. \A p : Current(n, p)' <=> Current(n, p)
  BY <1>1 DEF Current
<1>5. TokensAt(n)
  BY <1>2, TokensEach
<1>6. TokensAt(n)'
  <2> SUFFICES ASSUME ~torn'[n] PROVE TokensAt(n)'
    BY DEF TokensAt
  <2>1. ~torn[n] /\ j \notin behind
    BY <1>1
  <2>2. CASE j = s
    <3>1. s \in {"hostSession", "clientSession"}
      BY DEF Session
    <3>2. job'[s].pc \in {"idle", "running"}
      BY <1>1, <1>2, <2>2, <3>1 DEF Thens
    <3>3. \A p \in Recs(job[j].cfg) : p.keep => Current(n, p)
      BY <1>1, <1>2, <1>5, <2>1, <2>2 DEF TokensAt
    <3> HIDE DEF n, s
    <3>4. \A p \in Records(n)' : p.keep => Current(n, p)'
      BY <1>3, <1>4, <3>3
    <3> QED BY <1>2, <3>2, <3>4 DEF TokensAt, s
  <2>3. CASE j # s
    <3>1. j \in Jobs \ {"hostSession", "clientSession"}
      BY <2>3, JobNames DEF Session, On
    <3>2. job'[s] = job[s]
      BY <1>1, <1>2, <2>3 DEF OneJob
    <3>3. job[s].pc \in Saving => s \in behind'
      BY <1>1, <1>2, <2>3 DEF Holds, Saving
    <3>4. ASSUME NEW p \in Records(n)', p.keep
          PROVE  /\ p.id # job[s].id \/ job[s].pc \notin Saving \cup {"watcher"} => Current(n, p)
                 /\ job[s].pc = "watcher" /\ p.id = job[s].id =>
                      p.capture = portal[n][p.id].capture
      <4>1. \/ \E q \in Records(n) : q.id = p.id /\ q.keep = p.keep /\ q.capture = p.capture
                                     /\ q.remote = p.remote
            \/ p.id = made /\ p.capture = 0 /\ p.remote = 0 /\ portal[n][made] = NoTokens
        BY <1>1, <1>3, <2>1, <3>1, <3>4, SavesTokens
      <4>2. CASE p.id = made /\ p.capture = 0 /\ p.remote = 0 /\ portal[n][made] = NoTokens
        BY <4>2 DEF Current, NoTokens
      <4>3. CASE \E q \in Records(n) : q.id = p.id /\ q.keep = p.keep /\ q.capture = p.capture
                                       /\ q.remote = p.remote
        <5>1. PICK q \in Records(n) : q.id = p.id /\ q.keep = p.keep /\ q.capture = p.capture
                                      /\ q.remote = p.remote
          BY <4>3
        <5>2. Current(n, q) <=> Current(n, p)
          BY <5>1 DEF Current
        <5> QED BY <1>5, <2>1, <3>4, <5>1, <5>2 DEF TokensAt
      <4> QED BY <4>1, <4>2, <4>3
    <3>5. \A p \in Records(n)' : p.keep =>
            /\ p.id # job'[s].id \/ job'[s].pc \notin Saving \cup {"watcher"} => Current(n, p)'
            /\ job'[s].pc = "watcher" /\ p.id = job'[s].id =>
                 p.capture = portal'[n][p.id].capture
      BY <1>1, <1>4, <3>2, <3>4
    <3>6. job'[s].pc \in Saving => s \in behind'
      BY <3>2, <3>3
    <3> HIDE DEF n, s
    <3> QED BY <1>2, <3>5, <3>6 DEF TokensAt, s
  <2> QED BY <2>2, <2>3
<1>7. ASSUME NEW m \in Machines, m # n PROVE TokensAt(m)'
  <2>1. Session(m) \in Jobs /\ On(Session(m)) = m
    BY JobNames
  <2>2. job'[Session(m)] = job[Session(m)]
    BY <1>1, <1>7, <2>1 DEF OneJob
  <2>3. Records(m)' = Records(m)
    BY <1>1, <1>7 DEF Records, Stored
  <2>4. Session(m) \in behind => Session(m) \in behind'
    BY <1>1, <1>7, <2>1
  <2> QED BY <1>1, <1>7, <2>2, <2>3, <2>4, TokensEach, TokensSame
<1> QED BY <1>6, <1>7, TokensEach

\* Ids of records are ids that were made.
LEMMA IdsAre ==
  ASSUME Typing, IdsMade, NEW m \in Machines
  PROVE  /\ \A p \in Records(m) : p \in PeerRecs /\ p.id \in Ids
         /\ \A k \in Jobs : On(k) = m => \A p \in Recs(job[k].cfg) : p \in PeerRecs /\ p.id \in Ids
         /\ \A k \in Jobs : On(k) = m => \A p \in Records(m), q \in Recs(job[k].cfg) :
              p.id = q.id => p.keep = q.keep
<1>1. made \in 0..MaxPairings /\ MaxPairings \in Nat
  BY SetupAssumption DEF Typing
<1>2. \A p \in All(m) : p \in PeerRecs /\ p.id \in Ids
  BY <1>1, AllMade DEF Ids
<1> QED BY <1>2, AllIs, AllMade

\* What a session stores is what the portal expects.
LEMMA StoresTokens ==
  ASSUME Typing, IdsMade, Fresh, Tokens, NEW m \in Machines, NEW s, s = Session(m), NEW kinds,
         job[s].pc \in {"portals", "watcher"}, job[s].id \in Ids, Stores(s, kinds),
         portal' \in [Machines -> [Ids -> [capture : Nat, remote : Nat]]],
         \A i \in Ids : i # job[s].id => portal'[m][i] = portal[m][i],
         "capture" \in kinds \/ portal'[m][job[s].id].capture = portal[m][job[s].id].capture,
         "remote" \in kinds \/ /\ job[s].pc = "portals"
                               /\ portal'[m][job[s].id].remote = portal[m][job[s].id].remote,
         file' = file, torn' = torn, behind' = behind
  PROVE  TokensAt(m)'
<1>0. /\ s \in Jobs /\ On(s) = m /\ s \in {"hostSession", "clientSession"} /\ Session(m)' = s
      /\ "create" \in Saving /\ "portals" \notin Saving /\ "watcher" \notin Saving
  BY JobNames DEF Session, Saving
<1> DEFINE id == job[s].id
           R == Records(m)
           S == Recs(job[s].cfg)
<1>1. Records(m)' = R
  BY SameStored
<1>2. /\ job'[s].pc = "create" /\ job'[s].id = id
      /\ SameBut(S, Recs(job'[s].cfg), id)
      /\ \A p \in Recs(job'[s].cfg) : p.id = id =>
           \E q \in S : q.id = id /\ p.keep = q.keep /\ p = Given(q, kinds, portal'[m][id])
  BY <1>0 DEF Stores
<1>3. R \subseteq PeerRecs /\ \A p \in R : p.id \in Ids
  BY IdsAre
<1>4. TokensAt(m)
  BY TokensEach
<1> SUFFICES ASSUME ~torn[m] PROVE TokensAt(m)'
  BY DEF TokensAt
<1>5. \A p \in R : p.keep /\ p.id # id => Current(m, p)
  BY <1>4 DEF TokensAt
<1>6. \A p \in R : p.keep /\ job[s].pc = "portals" => Current(m, p)
  BY <1>0, <1>4 DEF TokensAt
<1>7. \A p \in R : p.keep /\ p.id = id =>
        /\ p.capture = portal[m][id].capture
        /\ job[s].pc = "portals" => p.remote = portal[m][id].remote
  <2> SUFFICES ASSUME NEW p \in R, p.keep, p.id = id
               PROVE  /\ p.capture = portal[m][id].capture
                      /\ job[s].pc = "portals" => p.remote = portal[m][id].remote
    OBVIOUS
  <2>1. CASE job[s].pc = "watcher"
    BY <1>4, <2>1 DEF TokensAt
  <2>2. CASE job[s].pc = "portals"
    <3>1. Current(m, p)
      BY <1>6, <2>2
    <3>2. p.id \in Ids
      BY <1>3
    <3> QED BY <3>1, <3>2, CurrentIs
  <2> QED BY <2>1, <2>2
<1>8. s \notin behind => S = R
  BY <1>0 DEF Fresh, Holds, Change
<1>9. id \in Ids
  OBVIOUS
<1> HIDE DEF id, R, S
<1>10. \A p \in R : p.keep /\ p.id # id => Current(m, p)'
  <2> SUFFICES ASSUME NEW p \in R, p.keep, p.id # id PROVE Current(m, p)'
    OBVIOUS
  <2>1. portal'[m][p.id] = portal[m][p.id]
    BY <1>3 DEF id
  <2> QED BY <1>5, <2>1 DEF Current
<1>11. ASSUME s \notin behind, NEW p \in Recs(job'[s].cfg), p.keep PROVE Current(m, p)'
  <2>1. CASE p.id # id
    <3>1. p \in R
      BY <1>2, <1>8, <1>11, <2>1 DEF SameBut
    <3> QED BY <1>10, <1>11, <2>1, <3>1
  <2>2. CASE p.id = id
    <3>1. PICK q \in R : q.id = id /\ q.keep /\ p = Given(q, kinds, portal'[m][id])
      BY <1>2, <1>8, <1>11, <2>2
    <3>2. q \in PeerRecs
      BY <1>3
    <3>3. /\ p.capture = IF "capture" \in kinds THEN portal'[m][id].capture ELSE q.capture
          /\ p.remote = IF "remote" \in kinds THEN portal'[m][id].remote ELSE q.remote
      BY <3>1, <3>2 DEF Given, PeerRecs
    <3>4. q.capture = portal[m][id].capture
      BY <1>7, <3>1
    <3>5. job[s].pc = "portals" => q.remote = portal[m][id].remote
      BY <1>7, <3>1
    <3>6. "capture" \notin kinds => q.capture = portal'[m][id].capture
      BY <3>4 DEF id
    <3>7. "remote" \notin kinds => q.remote = portal'[m][id].remote
      BY <3>5 DEF id
    <3>8. p.capture = portal'[m][id].capture /\ p.remote = portal'[m][id].remote
      BY <3>3, <3>6, <3>7
    <3> QED BY <1>9, <2>2, <3>8, CurrentIs
  <2> QED BY <2>1, <2>2
<1>12. \A p \in Records(m)' : p.keep /\ p.id # job'[s].id => Current(m, p)'
  BY <1>1, <1>2, <1>10
<1>13. s \notin behind' => \A p \in Recs(job'[s].cfg) : p.keep => Current(m, p)'
  BY <1>11
<1>14. job'[s].pc # "watcher" /\ job'[s].pc \in Saving
  BY <1>0, <1>2
<1> QED BY <1>0, <1>12, <1>13, <1>14 DEF TokensAt

\* A session that stores nothing has a peer without persistent permissions.
LEMMA NoneToStore ==
  ASSUME Typing, IdsMade, Tokens, NEW m \in Machines, NEW s, s = Session(m),
         job[s].pc \in {"portals", "watcher"}, Chosen(s) \in Recs(job[s].cfg),
         Chosen(s).id = job[s].id, ~Chosen(s).keep, job'[s].pc \in {"idle", "running"},
         file' = file, torn' = torn, portal' = portal
  PROVE  TokensAt(m)'
<1>0. /\ s \in Jobs /\ On(s) = m /\ Session(m)' = s
      /\ "idle" \notin Saving /\ "running" \notin Saving
  BY JobNames DEF Session, Saving
<1>1. Records(m)' = Records(m)
  BY SameStored
<1>2. \A p \in Records(m) : p.keep => p.id # job[s].id
  <2>1. \A p \in Records(m) : p.id = Chosen(s).id => p.keep = Chosen(s).keep
    BY <1>0, IdsAre
  <2> QED BY <2>1
<1>3. TokensAt(m)
  BY TokensEach
<1>4. ~torn[m] => \A p \in Records(m) : p.keep => Current(m, p)
  BY <1>2, <1>3 DEF TokensAt
<1>5. \A p : Current(m, p)' <=> Current(m, p)
  BY DEF Current
<1>6. ~torn'[m] => \A p \in Records(m)' : p.keep => Current(m, p)'
  BY <1>1, <1>4, <1>5
<1> QED BY <1>0, <1>6 DEF TokensAt

\* The portal of one desktop gives tokens for one peer.
LEMMA RenewsIs ==
  ASSUME NEW m \in Machines, NEW id, NEW kind, Renews(m, id, kind)
  PROVE  /\ portal' \in [Machines -> [Ids -> [capture : Nat, remote : Nat]]]
         /\ \A i \in Ids : i # id => portal'[m][i] = portal[m][i]
         /\ ~Chosen(Session(m)).keep => portal' = portal
         /\ kind = "capture" => portal'[m][id].remote = portal[m][id].remote
         /\ kind = "remote" => portal'[m][id].capture = portal[m][id].capture
BY DEF Renews

\* The portal of the other desktop gives none.
LEMMA RenewsThere ==
  ASSUME Typing, NEW m \in Machines, NEW id, NEW kind, Renews(m, id, kind), NEW n \in Machines,
         n # m
  PROVE  portal'[n] = portal[n]
<1>1. portal'[n] \in [Ids -> [capture : Nat, remote : Nat]]
      /\ portal[n] \in [Ids -> [capture : Nat, remote : Nat]]
  BY DEF Renews, Typing
<1>2. \A i \in Ids : portal'[n][i] = portal[n][i]
  BY DEF Renews
<1> QED BY <1>1, <1>2

\* A session starts.
LEMMA TokensStarts ==
  ASSUME Typing, Tokens, NEW m \in Machines, NEW id \in Ids, SessionStarts(m, id)
  PROVE  Tokens'
<1> DEFINE s == Session(m)
<1>1. /\ OneJob(s) /\ Starts(s) /\ job'[s].pc = "portals"
      /\ file' = file /\ torn' = torn /\ portal' = portal
  BY SessionStartsIs
<1>2. /\ s \in Jobs /\ s' = s /\ job[s].pc = "idle" /\ behind' = behind \ {s}
      /\ "idle" \notin Saving /\ "portals" \notin Saving
  BY <1>1, JobNames DEF Starts, Session, Saving
<1>3. Records(m)' = Records(m)
  BY <1>1, SameStored
<1>4. \A p : Current(m, p)' <=> Current(m, p)
  BY <1>1 DEF Current
<1>5. TokensAt(m)
  BY TokensEach
<1> HIDE DEF s
<1>6. ~torn[m] => \A p \in Records(m) : p.keep => Current(m, p)
  BY <1>2, <1>5 DEF TokensAt, s
<1>7. TokensAt(m)'
  BY <1>1, <1>2, <1>3, <1>4, <1>6 DEF TokensAt, s
<1> QED BY <1>1, <1>2, <1>7, TokensOne DEF s

\* The host's session has its input capture, and stores the token.
LEMMA TokensHost ==
  ASSUME Typing, IdsMade, Fresh, Tokens, ChosenThere, HostPortalStarts
  PROVE  Tokens'
<1> DEFINE s == "hostSession"
<1>0. "host" \in Machines /\ s = Session("host")
  BY DEF Machines, Session
<1>1. /\ OneJob(s) /\ job[s].pc = "portals" /\ job[s].id \in Ids
      /\ Renews("host", job[s].id, "capture")
      /\ Chosen(s) \in Recs(job[s].cfg) /\ Chosen(s).id = job[s].id
      /\ \/ Chosen(s).keep /\ Stores(s, {"capture"})
         \/ ~Chosen(s).keep /\ GoesOn(s)
      /\ file' = file /\ torn' = torn /\ behind' = behind
  BY HostPortalStartsIs
<1>2. /\ portal' \in [Machines -> [Ids -> [capture : Nat, remote : Nat]]]
      /\ \A i \in Ids : i # job[s].id => portal'["host"][i] = portal["host"][i]
      /\ ~Chosen(s).keep => portal' = portal
      /\ portal'["host"][job[s].id].remote = portal["host"][job[s].id].remote
  BY <1>0, <1>1, RenewsIs
<1>3. TokensAt("host")'
  <2>1. CASE Chosen(s).keep /\ Stores(s, {"capture"})
    <3>1. PICK kinds : kinds = {"capture"}
      OBVIOUS
    <3>2. Stores(s, kinds)
      BY <2>1, <3>1
    <3>3. "capture" \in kinds
      BY <3>1
    <3> QED BY <1>0, <1>1, <1>2, <3>2, <3>3, StoresTokens
  <2>2. CASE ~Chosen(s).keep /\ GoesOn(s)
    BY <1>0, <1>1, <1>2, <2>2, NoneToStore DEF GoesOn
  <2> QED BY <1>1, <2>1, <2>2
<1>4. \A m \in Machines : m # "host" => portal'[m] = portal[m]
  BY <1>0, <1>1, RenewsThere
<1> QED BY <1>0, <1>1, <1>3, <1>4, TokensOne

\* The client's session has its remote desktop, and keeps the token for later.
LEMMA TokensRemote ==
  ASSUME Typing, IdsMade, Tokens, ChosenThere, RemoteDesktopStarts
  PROVE  Tokens'
<1> DEFINE s == "clientSession"
           m == "client"
<1>0. /\ m \in Machines /\ s = Session(m) /\ Session(m)' = s
      /\ "portals" \notin Saving /\ "watcher" \notin Saving
  BY DEF Machines, Session, Saving
<1>1. /\ OneJob(s) /\ job[s].pc = "portals" /\ job'[s].pc = "watcher"
      /\ job'[s].id = job[s].id /\ Renews(m, job[s].id, "remote")
      /\ file' = file /\ torn' = torn /\ behind' = behind
  BY RemoteDesktopStartsIs
<1>2. /\ \A i \in Ids : i # job[s].id => portal'[m][i] = portal[m][i]
      /\ portal'[m][job[s].id].capture = portal[m][job[s].id].capture
  BY <1>0, <1>1, RenewsIs
<1>3. Records(m)' = Records(m)
  BY <1>1, SameStored
<1>4. TokensAt(m)
  BY <1>0, TokensEach
<1>5. ~torn[m] => \A p \in Records(m) : p.keep => Current(m, p) /\ p.id \in Ids
  BY <1>0, <1>1, <1>4, IdsAre DEF TokensAt
<1>6. ~torn[m] => \A p \in Records(m) : p.keep /\ p.id # job[s].id => Current(m, p)'
  BY <1>2, <1>5 DEF Current
<1>7. ~torn[m] => \A p \in Records(m) : p.keep /\ p.id = job[s].id =>
                    p.capture = portal'[m][p.id].capture
  <2> SUFFICES ASSUME ~torn[m], NEW p \in Records(m), p.keep, p.id = job[s].id
               PROVE  p.capture = portal[m][p.id].capture
    BY <1>2
  <2>1. Current(m, p) /\ p.id \in Ids
    BY <1>5
  <2>2. portal' \in [Machines -> [Ids -> [capture : Nat, remote : Nat]]]
    BY <1>0, <1>1, RenewsIs
  <2> QED BY <1>0, <2>1, <2>2, CurrentIs
<1>8. TokensAt(m)'
  BY <1>0, <1>1, <1>3, <1>6, <1>7 DEF TokensAt
<1>9. \A n \in Machines : n # m => portal'[n] = portal[n]
  BY <1>0, <1>1, RenewsThere
<1> QED BY <1>0, <1>1, <1>8, <1>9, TokensOne

\* The client's session has its watcher, and stores both tokens.
LEMMA TokensWatcher ==
  ASSUME Typing, IdsMade, Fresh, Tokens, ChosenThere, WatcherStarts
  PROVE  Tokens'
<1> DEFINE s == "clientSession"
           m == "client"
<1>0. m \in Machines /\ s = Session(m)
  BY DEF Machines, Session
<1>1. /\ OneJob(s) /\ job[s].pc = "watcher" /\ job[s].id \in Ids
      /\ Renews(m, job[s].id, "capture")
      /\ Chosen(s) \in Recs(job[s].cfg) /\ Chosen(s).id = job[s].id
      /\ \/ Chosen(s).keep /\ Stores(s, {"capture", "remote"})
         \/ ~Chosen(s).keep /\ GoesOn(s)
      /\ file' = file /\ torn' = torn /\ behind' = behind
  BY WatcherStartsIs
<1>2. /\ portal' \in [Machines -> [Ids -> [capture : Nat, remote : Nat]]]
      /\ \A i \in Ids : i # job[s].id => portal'[m][i] = portal[m][i]
      /\ ~Chosen(s).keep => portal' = portal
  BY <1>0, <1>1, RenewsIs
<1>3. TokensAt(m)'
  <2>1. CASE Chosen(s).keep /\ Stores(s, {"capture", "remote"})
    <3>1. PICK kinds : kinds = {"capture", "remote"}
      OBVIOUS
    <3>2. Stores(s, kinds)
      BY <2>1, <3>1
    <3>3. "capture" \in kinds /\ "remote" \in kinds
      BY <3>1
    <3> QED BY <1>0, <1>1, <1>2, <3>2, <3>3, StoresTokens
  <2>2. CASE ~Chosen(s).keep /\ GoesOn(s)
    BY <1>0, <1>1, <1>2, <2>2, NoneToStore DEF GoesOn
  <2> QED BY <1>1, <2>1, <2>2
<1>4. \A n \in Machines : n # m => portal'[n] = portal[n]
  BY <1>0, <1>1, RenewsThere
<1> QED BY <1>0, <1>1, <1>3, <1>4, TokensOne

\* The watcher is refused, and the token of the remote desktop is stored.
LEMMA TokensRefused ==
  ASSUME Typing, IdsMade, Fresh, Tokens, ChosenThere, WatcherRefused
  PROVE  Tokens'
<1> DEFINE s == "clientSession"
           m == "client"
<1>0. m \in Machines /\ s = Session(m) /\ Nobody.pc = "idle"
  BY JobNames, NobodyOk DEF Machines, Session
<1>1. /\ OneJob(s) /\ job[s].pc = "watcher" /\ job[s].id \in Ids
      /\ Chosen(s) \in Recs(job[s].cfg) /\ Chosen(s).id = job[s].id
      /\ \/ Chosen(s).keep /\ Stores(s, {"remote"})
         \/ ~Chosen(s).keep /\ job'[s] = Nobody
      /\ file' = file /\ torn' = torn /\ behind' = behind /\ portal' = portal
  BY WatcherRefusedIs
<1>2. TokensAt(m)'
  <2>1. CASE Chosen(s).keep /\ Stores(s, {"remote"})
    <3>1. PICK kinds : kinds = {"remote"}
      OBVIOUS
    <3>2. Stores(s, kinds)
      BY <2>1, <3>1
    <3>3. "remote" \in kinds
      BY <3>1
    <3>4. portal' \in [Machines -> [Ids -> [capture : Nat, remote : Nat]]]
      BY <1>1 DEF Typing
    <3> QED BY <1>0, <1>1, <3>2, <3>3, <3>4, StoresTokens
  <2>2. CASE ~Chosen(s).keep /\ job'[s] = Nobody
    BY <1>0, <1>1, <2>2, NoneToStore
  <2> QED BY <1>1, <2>1, <2>2
<1> QED BY <1>0, <1>1, <1>2, TokensOne

\* Any other step leaves tokens as they are.
LEMMA TokensOthers ==
  ASSUME Typing, IdsMade, Pairings, Exchange, Tokens, ChosenThere,
         \/ \E at \in Addresses, keep \in BOOLEAN : Grant(at, keep)
         \/ TakeGrant
         \/ \E id \in Ids, side \in Asked : ApplyStarts(id, side)
         \/ ControlTakes
         \/ \E sent \in BOOLEAN : ControlAck(sent)
         \/ TakeAck
         \/ OtherSteps
  PROVE  Tokens'
<1> DEFINE Others == Jobs \ {"hostSession", "clientSession"}
           Left(j) == /\ OneJob(j) \/ job' = job
                      /\ file' = file /\ torn' = torn /\ portal' = portal
                      /\ behind' \in {behind, behind \ {j}}
<1>0. /\ "pairClient" \in Others /\ "pairHost" \in Others /\ "apply" \in Others
      /\ "control" \in Others
  BY JobNames
<1> HIDE DEF Others
<1>1. ASSUME NEW at \in Addresses, NEW keep \in BOOLEAN, Grant(at, keep) PROVE Left("pairClient")
  BY <1>1, GrantIs
<1>2. CASE TakeGrant
  <2>1. Left("pairHost")
    BY <1>2, TakeGrantIs
  <2> QED BY <1>0, <2>1, TokensOther DEF Others
<1>3. ASSUME NEW id \in Ids, NEW side \in Asked, ApplyStarts(id, side) PROVE Left("apply")
  BY <1>3, ApplyStartsIs DEF Starts
<1>4. CASE ControlTakes
  <2>1. Left("control")
    BY <1>4, ControlTakesIs
  <2> QED BY <1>0, <2>1, TokensOther DEF Others
<1>5. ASSUME NEW sent \in BOOLEAN, ControlAck(sent) PROVE Left("control")
  BY <1>5, ControlAckIs
<1>6. CASE TakeAck
  <2>1. Left("apply")
    BY <1>6, TakeAckIs
  <2> QED BY <1>0, <2>1, TokensOther DEF Others
<1>7. CASE OtherSteps
  <2>1. PICK j \in Jobs : Aside(j) /\ j \notin {"hostSession", "clientSession"} /\ portal' = portal
    BY <1>7, OthersAside
  <2> QED BY <2>1, TokensOther DEF Aside
<1>8. \A j \in Others : Left(j) => Tokens'
  BY TokensOther DEF Others
<1> QED BY <1>0, <1>1, <1>2, <1>3, <1>4, <1>5, <1>6, <1>7, <1>8

\* Tokens are those the portal expects.
LEMMA TokensKept ==
  ASSUME Typing, IdsMade, Pairings, Fresh, Exchange, ChosenThere, Tokens, Quits \/ Works
  PROVE  Tokens'
BY TokensQuits, TokensCreates, TokensRename, TokensStarts, TokensHost, TokensRemote, TokensWatcher,
   TokensRefused, TokensOthers DEF Works, OtherSteps

-----------------------------------------------------------------------------
(* Placements                                                              *)

\* What is left alone by the steps that have no part in the exchange.
Bystands ==
  /\ job'["apply"] = job["apply"] /\ job'["control"] = job["control"]
  /\ UNCHANGED <<file, torn, topoLink, restart, faults>>
  /\ "control" \in behind => "control" \in behind'

\* A process that stands aside is no part of the exchange of a placement.
LEMMA AsideBystands ==
  ASSUME NEW j \in Jobs, Aside(j)
  PROVE  Bystands /\ (j # "clientSession" => job'["clientSession"] = job["clientSession"])
<1>1. "apply" \in Jobs /\ "control" \in Jobs /\ "clientSession" \in Jobs
  BY JobNames
<1> QED BY <1>1 DEF Aside, OneJob, Bystands

\* Granting and taking a grant are no part of the exchange of a placement.
LEMMA PairingBystands ==
  ASSUME Typing, IdsMade, Pairings,
         \/ \E at \in Addresses, keep \in BOOLEAN : Grant(at, keep)
         \/ TakeGrant
  PROVE  Bystands /\ job'["clientSession"] = job["clientSession"]
<1>1. "apply" \in Jobs /\ "control" \in Jobs /\ "clientSession" \in Jobs
  BY JobNames
<1>2. ASSUME NEW at \in Addresses, NEW keep \in BOOLEAN, Grant(at, keep)
      PROVE  Bystands /\ job'["clientSession"] = job["clientSession"]
  <2>1. /\ OneJob("pairClient")
        /\ UNCHANGED <<file, torn, topoLink, restart, faults, behind>>
    BY <1>2, GrantIs
  <2> QED BY <1>1, <2>1 DEF OneJob, Bystands
<1>3. CASE TakeGrant
  <2>1. /\ OneJob("pairHost") /\ behind' = behind \ {"pairHost"}
        /\ UNCHANGED <<file, torn, topoLink, restart, faults>>
    BY <1>3, TakeGrantIs
  <2> QED BY <1>1, <2>1 DEF OneJob, Bystands
<1> QED BY <1>2, <1>3

\* What another process than the control listener saves at the client.
LEMMA ClientSaves ==
  ASSUME Typing, Fresh, Pairings, NEW j \in Jobs, j # "control", On(j) = "client", Rename(j),
         ~torn'["client"], NEW p \in Records("client")'
  PROVE  \/ /\ p.id = made
            /\ j = "pairClient" /\ job["apply"].id # made /\ job["clientSession"].id # made
         \/ \E q \in Records("client") : q.id = p.id /\ q.side = p.side
<1> DEFINE R == Records("client")
           S == Recs(job[j].cfg)
<1>1. /\ job[j].pc = "write" /\ "write" \in Saving
      /\ torn'["client"] = (torn["client"] \/ j \in behind)
      /\ Parse(file'["client"]) = job[j].cfg
  BY RenameIs DEF Saving
<1>2. p \in S
  BY <1>1 DEF Records, Stored, Recs
<1>3. Change(j, R, S)
  BY <1>1 DEF Fresh, Holds
<1> HIDE DEF R, S
<1>4. CASE j = "pairClient"
  <2>1. PICK new \in S : new.id = made /\ S = Joined(R, new)
    BY <1>1, <1>3, <1>4 DEF Change
  <2>2. p \in R \/ p = new
    BY <1>2, <2>1 DEF Joined
  <2>3. job["apply"].id # made /\ job["clientSession"].id # made
    BY <1>1, <1>4 DEF Pairings, ClientPending
  <2> QED BY <1>4, <2>1, <2>2, <2>3 DEF R
<1>5. CASE j = "clientSession"
  <2>1. SameBut(R, S, job[j].id)
    BY <1>1, <1>3, <1>5 DEF Change
  <2> QED BY <1>2, <2>1 DEF SameBut, R
<1>6. CASE j = "clientEdit"
  <2>1. S = R \/ \E i \in removed : S = Without(R, i)
    BY <1>1, <1>3, <1>6 DEF Change
  <2> QED BY <1>2, <2>1 DEF Without, R
<1>7. j \in {"pairClient", "clientSession", "clientEdit"}
  BY DEF On, Jobs
<1> QED BY <1>4, <1>5, <1>6, <1>7

\* The client saves the placement opposite to the one asked for.
LEMMA ClientTurnsKept ==
  ASSUME Typing, IdsMade, Pairings, Exchange, ChosenThere, ClientTurns, Quits \/ Works
  PROVE  ClientTurns'
<1>0. /\ "apply" \in Jobs /\ "control" \in Jobs /\ On("control") = "client"
      /\ Nobody.pc = "idle" /\ "client" \in Machines
      /\ "idle" \notin Saving /\ "ack" \notin Saving
  BY JobNames, NobodyOk DEF Saving, On
<1>1. ASSUME Records("client")' = Records("client"), torn["client"] => torn'["client"],
             job'["control"].pc \in Saving /\ Applying' =>
               /\ job["control"].pc \in Saving /\ job'["control"].cfg = job["control"].cfg
               /\ Applying /\ job'["apply"].id = job["apply"].id
               /\ job'["apply"].side = job["apply"].side,
             "control" \in behind => "control" \in behind'
      PROVE  ClientTurns'
  <2> SUFFICES ASSUME ~torn'["client"], job'["control"].pc \in Saving, "control" \notin behind',
                      Applying'
               PROVE  Recs(job'["control"].cfg) =
                        Placed(Records("client")', job'["apply"].id, Opposite(job'["apply"].side))
    BY DEF ClientTurns
  <2>1. Recs(job["control"].cfg) =
          Placed(Records("client"), job["apply"].id, Opposite(job["apply"].side))
    BY <1>1 DEF ClientTurns
  <2> QED BY <1>1, <2>1
<1>2. file' = file => Records("client")' = Records("client")
  BY SameStored
<1>3. CASE Quits
  <2>1. file' = file /\ behind' = behind /\ (torn["client"] => torn'["client"])
    BY <1>0, <1>3 DEF Quits, QuitRest
  <2>2. \A k \in {"apply", "control"} : job'[k] = job[k] \/ job'[k].pc = "idle"
    BY <1>0, <1>3, QuitsAre
  <2> QED BY <1>0, <1>1, <1>2, <2>1, <2>2 DEF Applying
<1>4. ASSUME NEW j \in Jobs, Creates(j) PROVE ClientTurns'
  <2>1. /\ OneJob(j) /\ job[j].pc = "create" /\ job'[j].pc = "write"
        /\ job'[j].cfg = job[j].cfg /\ UNCHANGED <<file, behind, torn>>
    BY <1>4, CreatesIs
  <2>2. "create" \in Saving
    BY DEF Saving
  <2>3. \A k \in {"apply", "control"} :
          \/ job'[k] = job[k]
          \/ job[k].pc = "create" /\ job'[k].pc = "write" /\ job'[k].cfg = job[k].cfg
    BY <1>0, <2>1 DEF OneJob
  <2> QED BY <1>0, <1>1, <1>2, <2>1, <2>2, <2>3 DEF Applying
<1>5. ASSUME NEW j \in Jobs, Rename(j) PROVE ClientTurns'
  <2>1. /\ OneJob(j) /\ job[j].pc = "write"
        /\ job'[j] = Nobody \/ job'[j].pc = job[j].then
        /\ job[j].then \in Thens(j)
        /\ \A m \in Machines : m # On(j) => file'[m] = file[m] /\ torn'[m] = torn[m]
        /\ behind' = (behind \cup {k \in Jobs : On(k) = On(j) /\ Holds(k)}) \ {j}
    BY <1>5, RenameIs
  <2>2. CASE j = "control"
    <3>1. job'[j].pc \notin Saving
      BY <1>0, <2>1, <2>2 DEF Thens
    <3> QED BY <2>2, <3>1 DEF ClientTurns
  <2>3. CASE j # "control" /\ On(j) = "client"
    <3>1. job'["control"] = job["control"]
      BY <1>0, <2>1, <2>3 DEF OneJob
    <3>2. job["control"].pc \in Saving => Holds("control")
      BY DEF Holds, Saving
    <3>3. job["control"].pc \in Saving => "control" \in behind'
      BY <1>0, <2>1, <2>3, <3>2
    <3> QED BY <3>1, <3>3 DEF ClientTurns
  <2>4. CASE On(j) # "client"
    <3>1. /\ Records("client")' = Records("client") /\ torn'["client"] = torn["client"]
          /\ job'["control"] = job["control"] /\ ("control" \in behind => "control" \in behind')
      BY <1>0, <2>1, <2>4 DEF OneJob, Records, Stored
    <3>2. j = "apply" => job'["apply"].pc = "idle"
      BY <1>0, <2>1 DEF Thens
    <3>3. j # "apply" => job'["apply"] = job["apply"]
      BY <1>0, <2>1 DEF OneJob
    <3> QED BY <1>1, <3>1, <3>2, <3>3 DEF Applying
  <2> QED BY <2>2, <2>3, <2>4
<1>6. CASE Bystands
  BY <1>1, <1>2, <1>6 DEF Bystands, Applying
<1>7. ASSUME NEW id \in Ids, NEW side \in Asked, ApplyStarts(id, side) PROVE ClientTurns'
  <2>1. OneJob("apply") /\ job["control"].pc = "idle"
    BY <1>7, ApplyStartsIs
  <2> QED BY <1>0, <2>1 DEF OneJob, ClientTurns
<1>8. CASE ControlTakes
  <2>1. /\ topoLink.kind = "request" /\ job["control"].pc = "idle"
        /\ \/ /\ OneJob("control")
              /\ Recs(job'["control"].cfg) =
                   Placed(Records("client"), job["clientSession"].id, Opposite(topoLink.side))
           \/ job' = job
        /\ file' = file
    BY <1>8, ControlTakesIs
  <2>2. topoLink.side = job["apply"].side /\ job["clientSession"].id = job["apply"].id
    BY <2>1 DEF Exchange
  <2>3. job'["apply"] = job["apply"]
    BY <1>0, <2>1 DEF OneJob
  <2> QED BY <1>0, <1>2, <2>1, <2>2, <2>3 DEF ClientTurns
<1>9. ASSUME NEW sent \in BOOLEAN, ControlAck(sent) PROVE ClientTurns'
  <2>1. job'["control"] = Nobody
    BY <1>9, ControlAckIs
  <2> QED BY <1>0, <2>1 DEF ClientTurns
<1>10. CASE TakeAck
  <2>1. job'["apply"].pc = "create"
    BY <1>10, TakeAckIs
  <2> QED BY <2>1 DEF ClientTurns, Applying
<1> QED BY <1>3, <1>4, <1>5, <1>6, <1>7, <1>8, <1>9, <1>10, WorksSort, AsideBystands,
           PairingBystands

\* What the client has saved stays, until the host has saved it.
LEMMA ClientFirstKept ==
  ASSUME Typing, IdsMade, Pairings, Fresh, Exchange, ChosenThere, ClientTurns, ClientFirst,
         Quits \/ Works
  PROVE  ClientFirst'
<1>0. /\ "apply" \in Jobs /\ "control" \in Jobs /\ On("control") = "client" /\ On("apply") = "host"
      /\ Nobody.pc = "idle" /\ "client" \in Machines /\ NoRecord.kind = "none"
      /\ "idle" \notin Saving /\ "ack" \notin Saving /\ "asked" \notin Saving
      /\ "create" \in Saving /\ "write" \in Saving
  BY JobNames, NobodyOk DEF Saving, On, NoRecord
<1>1. ASSUME torn["client"] => torn'["client"],
             ClientTurned' => /\ ClientTurned /\ job'["apply"].id = job["apply"].id
                              /\ job'["apply"].side = job["apply"].side,
             ClientTurned' /\ ~torn'["client"] =>
               \A p \in Records("client")' :
                 \/ p.id # job["apply"].id
                 \/ \E q \in Records("client") : q.id = p.id /\ q.side = p.side
      PROVE  ClientFirst'
  <2> SUFFICES ASSUME ~torn'["client"], ClientTurned', NEW p \in Records("client")',
                      p.id = job'["apply"].id
               PROVE  p.side = Opposite(job'["apply"].side)
    BY DEF ClientFirst
  <2>1. \A q \in Records("client") : q.id = job["apply"].id => q.side = Opposite(job["apply"].side)
    BY <1>1 DEF ClientFirst
  <2>2. PICK q \in Records("client") : q.id = p.id /\ q.side = p.side
    BY <1>1
  <2> QED BY <1>1, <2>1, <2>2
<1>2. file' = file => Records("client")' = Records("client")
  BY SameStored
<1>3. CASE Quits
  <2>1. /\ file' = file /\ (torn["client"] => torn'["client"])
        /\ topoLink' \in {topoLink, NoRecord}
    BY <1>0, <1>3 DEF Quits, QuitRest, QuitLinks
  <2>2. \A k \in {"apply", "control"} : job'[k] = job[k] \/ job'[k].pc = "idle"
    BY <1>0, <1>3, QuitsAre
  <2>3. ClientTurned' => ClientTurned /\ job'["apply"] = job["apply"]
    BY <1>0, <2>1, <2>2 DEF ClientTurned, Applying
  <2> QED BY <1>1, <1>2, <2>1, <2>3
<1>4. ASSUME NEW j \in Jobs, Creates(j) PROVE ClientFirst'
  <2>1. /\ OneJob(j) /\ job[j].pc = "create" /\ job'[j].pc = "write"
        /\ job'[j].id = job[j].id /\ job'[j].side = job[j].side
        /\ UNCHANGED <<file, topoLink, torn>>
    BY <1>4, CreatesIs
  <2>2. \A k \in {"apply", "control"} :
          \/ job'[k] = job[k]
          \/ /\ job[k].pc = "create" /\ job'[k].pc = "write" /\ job'[k].id = job[k].id
             /\ job'[k].side = job[k].side
    BY <1>0, <2>1 DEF OneJob
  <2>3. ClientTurned' => ClientTurned /\ job'["apply"].id = job["apply"].id
                         /\ job'["apply"].side = job["apply"].side
    BY <1>0, <2>1, <2>2 DEF ClientTurned, Applying
  <2> QED BY <1>1, <1>2, <2>1, <2>3
<1>5. ASSUME NEW j \in Jobs, Rename(j) PROVE ClientFirst'
  <2>1. /\ OneJob(j) /\ job[j].pc = "write"
        /\ job'[j] = Nobody \/ job'[j].pc = job[j].then
        /\ job[j].then \in Thens(j)
        /\ \A m \in Machines : m # On(j) => file'[m] = file[m] /\ torn'[m] = torn[m]
        /\ torn'[On(j)] = (torn[On(j)] \/ j \in behind)
        /\ Parse(file'[On(j)]) = job[j].cfg
        /\ topoLink' = topoLink
    BY <1>5, RenameIs
  <2>2. CASE j = "control"
    <3>1. job'["apply"] = job["apply"]
      BY <1>0, <2>1, <2>2 DEF OneJob
    <3>2. job["apply"].pc \notin Saving /\ topoLink.kind # "ack"
      BY <1>0, <2>1, <2>2 DEF Exchange, Controlling
    <3> SUFFICES ASSUME ~torn'["client"], ClientTurned', NEW p \in Records("client")',
                        p.id = job["apply"].id
                 PROVE  p.side = Opposite(job["apply"].side)
      BY <3>1 DEF ClientFirst
    <3>3. Applying
      BY <2>1, <3>1, <3>2 DEF ClientTurned, Applying
    <3>4. Recs(job["control"].cfg) =
            Placed(Records("client"), job["apply"].id, Opposite(job["apply"].side))
      BY <1>0, <2>1, <2>2, <3>3 DEF ClientTurns
    <3>5. p \in Placed(Records("client"), job["apply"].id, Opposite(job["apply"].side))
      BY <1>0, <2>1, <2>2, <3>4 DEF Records, Stored, Recs
    <3>6. Records("client") \subseteq PeerRecs
      BY <1>0, StoredIs
    <3> QED BY <3>5, <3>6, PlacedIs
  <2>3. CASE j # "control" /\ On(j) = "client"
    <3>1. job'["control"] = job["control"] /\ job'["apply"] = job["apply"]
      BY <1>0, <2>1, <2>3 DEF OneJob
    <3>2. ClientTurned' => ClientTurned
      BY <2>1, <3>1 DEF ClientTurned, Applying
    <3>3. ~torn'["client"] => \A p \in Records("client")' :
            \/ p.id # job["apply"].id
            \/ \E q \in Records("client") : q.id = p.id /\ q.side = p.side
      BY <1>5, <2>3, ClientSaves
    <3> QED BY <1>1, <2>1, <2>3, <3>1, <3>2, <3>3
  <2>4. CASE On(j) # "client"
    <3>1. /\ Records("client")' = Records("client") /\ torn'["client"] = torn["client"]
          /\ job'["control"] = job["control"]
      BY <1>0, <2>1, <2>4 DEF OneJob, Records, Stored
    <3>2. j = "apply" => job'["apply"].pc = "idle"
      BY <1>0, <2>1 DEF Thens
    <3>3. j # "apply" => job'["apply"] = job["apply"]
      BY <1>0, <2>1 DEF OneJob
    <3>4. ClientTurned' => ClientTurned /\ job'["apply"] = job["apply"]
      BY <1>0, <2>1, <3>1, <3>2, <3>3 DEF ClientTurned, Applying
    <3> QED BY <1>1, <3>1, <3>4
  <2> QED BY <2>2, <2>3, <2>4
<1>6. CASE Bystands
  <2>1. ClientTurned' => ClientTurned
    BY <1>6 DEF Bystands, ClientTurned, Applying
  <2> QED BY <1>1, <1>2, <1>6, <2>1 DEF Bystands
<1>7. ASSUME NEW id \in Ids, NEW side \in Asked, ApplyStarts(id, side) PROVE ClientFirst'
  <2>1. /\ OneJob("apply") /\ job["control"].pc = "idle" /\ job'["apply"].pc = "asked"
        /\ topoLink'.kind = "request"
    BY <1>7, ApplyStartsIs
  <2>2. job'["control"].pc = "idle"
    BY <1>0, <2>1 DEF OneJob
  <2> QED BY <1>0, <2>1, <2>2 DEF ClientFirst, ClientTurned
<1>8. CASE ControlTakes
  <2>1. /\ topoLink.kind = "request" /\ job["control"].pc = "idle"
        /\ \/ OneJob("control") /\ job'["control"].pc = "create"
           \/ job' = job
        /\ topoLink' = NoRecord
    BY <1>8, ControlTakesIs
  <2>2. job["apply"].pc = "asked" /\ job'["apply"] = job["apply"]
    BY <1>0, <2>1 DEF Exchange, Applying, OneJob
  <2> QED BY <1>0, <2>1, <2>2 DEF ClientFirst, ClientTurned
<1>9. ASSUME NEW sent \in BOOLEAN, ControlAck(sent) PROVE ClientFirst'
  <2>1. /\ OneJob("control") /\ job["control"].pc = "ack"
        /\ job["apply"].pc # "asked" => topoLink' = topoLink
        /\ UNCHANGED <<file, torn>>
    BY <1>9, ControlAckIs
  <2>2. job'["apply"] = job["apply"]
    BY <1>0, <2>1 DEF OneJob
  <2>3. ClientTurned' => ClientTurned
    BY <2>1, <2>2 DEF ClientTurned, Applying
  <2> QED BY <1>1, <1>2, <2>1, <2>2, <2>3
<1>10. CASE TakeAck
  <2>1. /\ job["apply"].pc = "asked" /\ topoLink.kind = "ack"
        /\ job'["apply"].id = job["apply"].id /\ job'["apply"].side = job["apply"].side
        /\ UNCHANGED <<file, torn>>
    BY <1>10, TakeAckIs
  <2>2. ClientTurned
    BY <2>1 DEF ClientTurned, Applying
  <2> QED BY <1>1, <1>2, <2>1, <2>2
<1> QED BY <1>3, <1>4, <1>5, <1>6, <1>7, <1>8, <1>9, <1>10, WorksSort, AsideBystands,
           PairingBystands

\* A session watches the edge its file names until it is told.
LEMMA WatchesKept ==
  ASSUME Typing, IdsMade, Pairings, Fresh, Exchange, ChosenThere, Watches, Quits \/ Works
  PROVE  Watches'
<1> DEFINE s == "clientSession"
           There(p) == \E q \in Records("client") : q.id = p.id /\ q.side = p.side
<1>0. /\ s \in Jobs /\ "control" \in Jobs /\ On("control") = "client" /\ On(s) = "client"
      /\ Nobody.pc = "idle" /\ "client" \in Machines
      /\ "idle" \notin Saving /\ "running" \notin Saving
      /\ "create" \in Saving /\ "write" \in Saving
  BY JobNames, NobodyOk DEF Saving, On
<1>1. ASSUME torn["client"] => torn'["client"], faults' = 0 => faults = 0,
             job'[s].pc # "idle" /\ ~torn'["client"] =>
               /\ job[s].pc # "idle" /\ job'[s].id = job[s].id /\ job'[s].side = job[s].side
               /\ \A p \in Records("client")' : p.id # job[s].id \/ There(p)
               /\ job[s].pc = "running" => job'[s].pc = "running"
               /\ job[s].pc = "running" /\ (restart \/ job["control"].pc = "ack") /\ faults = 0 =>
                    restart' \/ job'["control"].pc = "ack"
      PROVE  Watches'
  <2> SUFFICES ASSUME ~torn'["client"], faults' = 0, job'[s].pc # "idle",
                      NEW p \in Records("client")', p.id = job'[s].id
               PROVE  \/ p.side = job'[s].side
                      \/ job'[s].pc = "running" /\ (restart' \/ job'["control"].pc = "ack")
    BY DEF Watches
  <2>1. PICK q \in Records("client") : q.id = p.id /\ q.side = p.side
    BY <1>1
  <2>2. \/ q.side = job[s].side
        \/ job[s].pc = "running" /\ (restart \/ job["control"].pc = "ack")
    BY <1>1, <2>1 DEF Watches
  <2> QED BY <1>1, <2>1, <2>2
<1>2. file' = file => Records("client")' = Records("client")
  BY SameStored
<1>3. CASE Quits
  <2>1. /\ file' = file /\ (torn["client"] => torn'["client"])
        /\ faults' >= faults /\ faults' \in 0..MaxFaults
        /\ restart /\ ~restart' => job'[s].pc = "idle"
    BY <1>0, <1>3 DEF Quits, QuitRest
  <2>2. faults' = 0 => faults = 0
    BY <2>1, SetupAssumption DEF Typing
  <2>3. /\ job'[s] = job[s] \/ job'[s].pc = "idle"
        /\ job'["control"] # job["control"] /\ job["control"].pc = "ack" => torn'["client"]
    BY <1>0, <1>3, QuitsAre
  <2> QED BY <1>1, <1>2, <2>1, <2>2, <2>3
<1>4. ASSUME NEW j \in Jobs, Creates(j) PROVE Watches'
  <2>1. /\ OneJob(j) /\ job[j].pc = "create" /\ job'[j].pc = "write"
        /\ job'[j].id = job[j].id /\ job'[j].side = job[j].side
        /\ UNCHANGED <<file, torn, faults, restart>>
    BY <1>4, CreatesIs
  <2>2. \A k \in {s, "control"} :
          \/ job'[k] = job[k]
          \/ /\ job[k].pc = "create" /\ job'[k].pc = "write" /\ job'[k].id = job[k].id
             /\ job'[k].side = job[k].side
    BY <1>0, <2>1 DEF OneJob
  <2> QED BY <1>1, <1>2, <2>1, <2>2
<1>5. ASSUME NEW j \in Jobs, Rename(j) PROVE Watches'
  <2>1. /\ OneJob(j) /\ job[j].pc = "write" /\ faults' = faults /\ restart' = restart
        /\ \/ job'[j] = Nobody
           \/ job'[j].pc = job[j].then /\ job'[j].id = job[j].id /\ job'[j].side = job[j].side
        /\ job[j].then # "idle" => job'[j].pc = job[j].then
        /\ job[j].then \in Thens(j)
        /\ \A m \in Machines : m # On(j) => file'[m] = file[m] /\ torn'[m] = torn[m]
        /\ torn'[On(j)] = (torn[On(j)] \/ j \in behind)
    BY <1>5, RenameIs
  <2>2. CASE j = "control"
    <3>1. job'["control"].pc = "ack" /\ job'[s] = job[s]
      BY <1>0, <2>1, <2>2 DEF Thens, OneJob
    <3>2. job[s].pc = "running"
      BY <1>0, <2>1, <2>2 DEF Exchange, Controlling
    <3> QED BY <3>1, <3>2 DEF Watches
  <2>3. CASE j # "control" /\ On(j) = "client"
    <3>1. job'["control"] = job["control"]
      BY <1>0, <2>1, <2>3 DEF OneJob
    <3>2. ~torn'["client"] => \A p \in Records("client")' : p.id # job[s].id \/ There(p)
      BY <1>5, <2>3, ClientSaves
    <3>3. /\ j # s => job'[s] = job[s]
          /\ j = s /\ job'[s].pc # "idle" =>
               job'[s].id = job[s].id /\ job'[s].side = job[s].side /\ job[s].pc = "write"
      BY <1>0, <2>1 DEF OneJob
    <3> HIDE DEF There
    <3> QED BY <1>0, <1>1, <2>1, <2>3, <3>1, <3>2, <3>3
  <2>4. CASE On(j) # "client"
    <3>1. /\ Records("client")' = Records("client") /\ torn'["client"] = torn["client"]
          /\ job'["control"] = job["control"] /\ job'[s] = job[s]
      BY <1>0, <2>1, <2>4 DEF OneJob, Records, Stored
    <3> QED BY <1>1, <2>1, <3>1
  <2> QED BY <2>2, <2>3, <2>4
<1>6. CASE Bystands /\ job'[s] = job[s]
  BY <1>1, <1>2, <1>6 DEF Bystands
<1>7. ASSUME NEW j \in Jobs, Aside(j) PROVE Watches'
  <2>1. Bystands /\ (j # s => job'[s] = job[s])
    BY <1>7, AsideBystands
  <2>2. CASE j # s
    BY <1>6, <2>1, <2>2
  <2>3. CASE j = s
    <3>1. /\ job[s].pc # "running"
          /\ \/ job'[s].pc = "idle"
             \/ /\ job[s].pc \in {"portals", "watcher"} /\ job'[s].id = job[s].id
                /\ job'[s].side = job[s].side
             \/ \E p \in Records("client") : p.id = job'[s].id /\ p.side = job'[s].side
      BY <1>7, <2>3 DEF Aside
    <3>2. CASE job'[s].pc = "idle"
      BY <3>2 DEF Watches
    <3>3. CASE /\ job[s].pc \in {"portals", "watcher"} /\ job'[s].id = job[s].id
               /\ job'[s].side = job[s].side
      BY <1>1, <1>2, <2>1, <3>1, <3>3 DEF Bystands
    <3>4. CASE \E p \in Records("client") : p.id = job'[s].id /\ p.side = job'[s].side
      <4>1. \A p, q \in Records("client") : p.id = q.id => p = q
        BY <1>0, StoredIs
      <4>2. \A q \in Records("client") : q.id = job'[s].id => q.side = job'[s].side
        BY <3>4, <4>1
      <4> QED BY <1>2, <2>1, <4>2 DEF Watches, Bystands
    <3> QED BY <3>1, <3>2, <3>3, <3>4
  <2> QED BY <2>2, <2>3
<1>8. ASSUME NEW id \in Ids, NEW side \in Asked, ApplyStarts(id, side) PROVE Watches'
  <2>1. OneJob("apply") /\ UNCHANGED <<file, torn, faults, restart>>
    BY <1>8, ApplyStartsIs
  <2>2. job'[s] = job[s] /\ job'["control"] = job["control"]
    BY <1>0, <2>1 DEF OneJob
  <2> QED BY <1>1, <1>2, <2>1, <2>2
<1>9. CASE ControlTakes
  <2>1. /\ job["control"].pc = "idle"
        /\ OneJob("control") \/ job' = job
        /\ UNCHANGED <<file, torn, faults, restart>>
    BY <1>9, ControlTakesIs
  <2>2. job'[s] = job[s]
    BY <1>0, <2>1 DEF OneJob
  <2> QED BY <1>1, <1>2, <2>1, <2>2
<1>10. ASSUME NEW sent \in BOOLEAN, ControlAck(sent) PROVE Watches'
  <2>1. /\ OneJob("control") /\ job["control"].pc = "ack"
        /\ sent \/ job["apply"].pc # "asked"
        /\ (restart => restart') /\ (sent => restart')
        /\ UNCHANGED <<file, torn, faults>>
    BY <1>10, ControlAckIs
  <2>2. job'[s] = job[s]
    BY <1>0, <2>1 DEF OneJob
  <2>3. faults = 0 => restart'
    BY <2>1 DEF Exchange, Controlling, Applying
  <2> QED BY <1>1, <1>2, <2>1, <2>2, <2>3
<1>11. CASE TakeAck
  <2>1. OneJob("apply") /\ UNCHANGED <<file, torn, faults, restart>>
    BY <1>11, TakeAckIs
  <2>2. job'[s] = job[s] /\ job'["control"] = job["control"]
    BY <1>0, <2>1 DEF OneJob
  <2> QED BY <1>1, <1>2, <2>1, <2>2
<1> QED BY <1>3, <1>4, <1>5, <1>6, <1>7, <1>8, <1>9, <1>10, <1>11, WorksSort, PairingBystands

-----------------------------------------------------------------------------
(* Agreement                                                               *)

HostComing == Coming(Records("host"), HostAdds)
ClientComing == Coming(Records("client"), ClientAdds)

\* The host's placement is as good as saved; the client is about to save it.
Turned == ClientTurned \/ (Applying /\ Controlling)
Turning == Applying /\ job["control"].pc \in Saving

\* The same peer, before and after a step.
HostLike(o, p) == o.id = p.id /\ o.at = p.at /\ HostSide(o) = HostSide(p)'
ClientLike(o, q) == o.id = q.id /\ o.at = q.at /\ ClientSide(o) = ClientSide(q)'

\* The peers of each desktop are the same, before and after a step.
HostAlike ==
  /\ \A p \in HostComing' : p.id \in removed' \/ \E o \in HostComing : HostLike(o, p)
  /\ \A o \in HostComing : o.id \in removed' \/ \E p \in HostComing' : HostLike(o, p)
ClientAlike ==
  /\ \A q \in ClientComing' : q.id \in removed' \/ \E o \in ClientComing : ClientLike(o, q)
  /\ \A o \in ClientComing : o.id \in removed' \/ \E q \in ClientComing' : ClientLike(o, q)

\* Then they agree after it as they did before.
LEMMA AlikeAgree ==
  ASSUME FilesAgree, removed \subseteq removed',
         Undisturbed' => Undisturbed /\ HostAlike /\ ClientAlike
  PROVE  FilesAgree'
<1> SUFFICES ASSUME Undisturbed'
             PROVE  /\ \A p \in HostComing' : p.id \in removed' \/ \E q \in ClientComing' : Mirrored(p, q)'
                    /\ \A q \in ClientComing' : q.id \in removed' \/ \E p \in HostComing' : Mirrored(p, q)'
  BY DEF FilesAgree, HostComing, ClientComing
<1>1. /\ \A p \in HostComing : p.id \in removed \/ \E q \in ClientComing : Mirrored(p, q)
      /\ \A q \in ClientComing : q.id \in removed \/ \E p \in HostComing : Mirrored(p, q)
  BY DEF FilesAgree, HostComing, ClientComing
<1>2. \A o, x, p, q : HostLike(o, p) /\ ClientLike(x, q) /\ Mirrored(o, x) => Mirrored(p, q)'
  BY DEF HostLike, ClientLike, Mirrored
<1>3. ASSUME NEW p \in HostComing', p.id \notin removed'
      PROVE  \E q \in ClientComing' : Mirrored(p, q)'
  <2>1. PICK o \in HostComing : HostLike(o, p)
    BY <1>3 DEF HostAlike
  <2>2. o.id \notin removed'
    BY <1>3, <2>1 DEF HostLike
  <2>3. PICK x \in ClientComing : Mirrored(o, x)
    BY <1>1, <2>2
  <2>4. x.id \notin removed'
    BY <2>2, <2>3 DEF Mirrored
  <2>5. PICK q \in ClientComing' : ClientLike(x, q)
    BY <2>4 DEF ClientAlike
  <2> QED BY <1>2, <2>1, <2>3, <2>5
<1>4. ASSUME NEW q \in ClientComing', q.id \notin removed'
      PROVE  \E p \in HostComing' : Mirrored(p, q)'
  <2>1. PICK x \in ClientComing : ClientLike(x, q)
    BY <1>4 DEF ClientAlike
  <2>2. x.id \notin removed'
    BY <1>4, <2>1 DEF ClientLike
  <2>3. PICK o \in HostComing : Mirrored(o, x)
    BY <1>1, <2>2
  <2>4. o.id \notin removed'
    BY <2>2, <2>3 DEF Mirrored
  <2>5. PICK p \in HostComing' : HostLike(o, p)
    BY <2>4 DEF HostAlike
  <2> QED BY <1>2, <2>1, <2>3, <2>5
<1> QED BY <1>3, <1>4

\* What decides where a peer is taken to be.
SidesSame ==
  /\ Turned' <=> Turned
  /\ Turning' <=> Turning
  /\ Turned \/ Turning =>
       job'["apply"].id = job["apply"].id /\ job'["apply"].side = job["apply"].side

\* Where no placement moves, every peer stays on its side.
LEMMA SidesSameIs ==
  ASSUME SidesSame
  PROVE  \A p : HostSide(p)' = HostSide(p) /\ ClientSide(p)' = ClientSide(p)
BY DEF SidesSame, Turned, Turning, HostSide, ClientSide

\* Where nothing else changes, the peers are the same.
LEMMA AlikeSame ==
  ASSUME SidesSame
  PROVE  /\ HostComing' = HostComing => HostAlike
         /\ ClientComing' = ClientComing => ClientAlike
<1>1. \A p : HostLike(p, p) /\ ClientLike(p, p)
  BY SidesSameIs DEF HostLike, ClientLike
<1> QED BY <1>1 DEF HostAlike, ClientAlike

\* A desktop that was disturbed stays so.
LEMMA DisturbedStays ==
  ASSUME Typing, \A m \in Machines : torn[m] => torn'[m], unpaired => unpaired',
         faults' = faults \/ Quits
  PROVE  Undisturbed' => Undisturbed
<1>1. faults' = 0 => faults = 0
  <2>1. CASE Quits
    BY <2>1, SetupAssumption DEF Quits, QuitRest, Typing
  <2> QED BY <2>1
<1> QED BY <1>1 DEF Undisturbed, Intact

\* What is on its way to the files.
LEMMA AddsSame ==
  ASSUME made' = made
  PROVE  /\ pairLink' = pairLink /\ job'["pairHost"] = job["pairHost"] => HostAdds' = HostAdds
         /\ job'["pairClient"] = job["pairClient"] => ClientAdds' = ClientAdds
         /\ pairLink.kind # "grant" /\ job["pairHost"].pc \notin Saving => HostAdds = {}
         /\ pairLink'.kind # "grant" /\ job'["pairHost"].pc \notin Saving => HostAdds' = {}
         /\ job["pairClient"].pc \notin Saving => ClientAdds = {}
         /\ job'["pairClient"].pc \notin Saving => ClientAdds' = {}
<1>1. pairLink' = pairLink /\ job'["pairHost"] = job["pairHost"] => HostAdds' = HostAdds
  BY DEF HostAdds, HostPeer, Peer, Recs
<1>2. job'["pairClient"] = job["pairClient"] => ClientAdds' = ClientAdds
  BY DEF ClientAdds, ClientPending, Recs
<1> QED BY <1>1, <1>2 DEF HostAdds, ClientAdds, ClientPending

\* With nothing on its way a file has what it will have.
LEMMA NothingComing ==
  ASSUME NEW R
  PROVE  Coming(R, {}) = R
BY DEF Coming

\* A step that writes no file, with what is on its way as it was.
LEMMA AgreeSame ==
  ASSUME Typing, FilesAgree, file' = file, removed \subseteq removed',
         Undisturbed' =>
           Undisturbed /\ SidesSame /\ HostAdds' = HostAdds /\ ClientAdds' = ClientAdds
  PROVE  FilesAgree'
<1>1. Records("host")' = Records("host") /\ Records("client")' = Records("client")
  BY SameStored
<1>2. Undisturbed' => HostComing' = HostComing /\ ClientComing' = ClientComing
  BY <1>1 DEF HostComing, ClientComing, Coming
<1> QED BY <1>2, AlikeSame, AlikeAgree

\* A process that ends had nothing to add, or a save is lost.
LEMMA AgreeQuits ==
  ASSUME Typing, Pairings, Exchange, FilesAgree, Quits
  PROVE  FilesAgree'
<1>0. /\ "apply" \in Jobs /\ "control" \in Jobs /\ "pairHost" \in Jobs /\ "pairClient" \in Jobs
      /\ On("control") = "client" /\ On("apply") = "host" /\ On("pairHost") = "host"
      /\ On("pairClient") = "client" /\ "host" \in Machines /\ "client" \in Machines
      /\ Nobody.pc = "idle" /\ NoRecord.kind = "none"
      /\ "idle" \notin Saving /\ "listening" \notin Saving /\ "asked" \notin Saving
  BY JobNames, NobodyOk DEF Saving, On, NoRecord
<1>1. /\ file' = file /\ removed' = removed /\ made' = made
      /\ \A m \in Machines : torn[m] => torn'[m]
      /\ unpaired => unpaired'
      /\ topoLink' \in {topoLink, NoRecord} /\ pairLink' \in {pairLink, NoRecord}
      /\ job'["apply"] # job["apply"] /\ job["apply"].pc = "asked" =>
           faults' > 0 \/ (job["control"].pc = "idle" /\ topoLink = NoRecord)
      /\ pairLink.kind = "grant" /\ pairLink' = NoRecord => unpaired'
      /\ job'["apply"] = job["apply"] => topoLink' = topoLink \/ topoLink.kind = "request"
  BY DEF Quits, QuitJobs, QuitLinks, QuitRest
<1>2. Undisturbed' => Undisturbed
  BY <1>1, DisturbedStays
<1>3. ASSUME Undisturbed' PROVE SidesSame /\ HostAdds' = HostAdds /\ ClientAdds' = ClientAdds
  <2>1. ~torn'["host"] /\ ~torn'["client"] /\ ~unpaired' /\ ~(faults' > 0)
    BY <1>0, <1>3 DEF Undisturbed, Intact
  <2>2. \A k \in {"apply", "control", "pairHost"} : job'[k] = job[k] \/ job'[k].pc = "idle"
    BY <1>0, QuitsAre
  <2>3. /\ job'["apply"] # job["apply"] => job["apply"].pc \notin Saving
        /\ job'["control"] # job["control"] => job["control"].pc \notin Saving \cup {"ack"}
        /\ job'["pairHost"] # job["pairHost"] => job["pairHost"].pc \notin Saving
        /\ job'["pairClient"] # job["pairClient"] => job["pairClient"].pc \notin Saving
    BY <1>0, <2>1, QuitsAre
  <2>4. job'["pairClient"] # job["pairClient"] => job'["pairClient"].pc \notin Saving
    BY <1>0, QuitsAre
  <2>5. job["control"].pc \in {"idle", "ack"} \cup Saving
    BY JobsTyped, PcsAre DEF Saving
  <2>6. job'["control"].pc \in {"idle", "ack"} \cup Saving
    BY <2>2, <2>5
  <2>7. SidesSame
    <3>1. CASE job'["apply"] = job["apply"]
      <4>1. topoLink'.kind = "ack" <=> topoLink.kind = "ack"
        BY <1>0, <1>1, <3>1
      <4>2. job'["control"] = job["control"] \/ (job'["control"].pc = "idle" /\ job["control"].pc = "idle")
        BY <2>2, <2>3, <2>5
      <4> QED BY <3>1, <4>1, <4>2
              DEF SidesSame, Turned, Turning, ClientTurned, Applying, Controlling
    <3>2. CASE job'["apply"] # job["apply"] /\ job["apply"].pc = "asked"
      BY <1>0, <1>1, <2>1, <2>2, <3>2
         DEF SidesSame, Turned, Turning, ClientTurned, Applying, Controlling
    <3>3. CASE job'["apply"] # job["apply"] /\ job["apply"].pc # "asked"
      BY <1>0, <2>2, <2>3, <3>3
         DEF SidesSame, Turned, Turning, ClientTurned, Applying, Controlling
    <3> QED BY <3>1, <3>2, <3>3
  <2>8. HostAdds' = HostAdds
    <3>1. CASE pairLink.kind = "grant"
      <4>1. pairLink' = pairLink
        BY <1>1, <2>1, <3>1
      <4> QED BY <1>1, <3>1, <4>1 DEF HostAdds, HostPeer, Peer
    <3>2. CASE pairLink.kind # "grant"
      <4>1. pairLink'.kind # "grant"
        BY <1>0, <1>1, <3>2
      <4>2. CASE job'["pairHost"] = job["pairHost"]
        BY <1>1, <3>2, <4>1, <4>2 DEF HostAdds, Recs
      <4>3. CASE job'["pairHost"] # job["pairHost"]
        BY <1>0, <1>1, <2>2, <2>3, <3>2, <4>1, <4>3, AddsSame
      <4> QED BY <4>2, <4>3
    <3> QED BY <3>1, <3>2
  <2>9. ClientAdds' = ClientAdds
    BY <1>1, <2>3, <2>4, AddsSame
  <2> QED BY <2>7, <2>8, <2>9
<1> QED BY <1>1, <1>2, <1>3, AgreeSame

\* A save goes on.
LEMMA AgreeCreates ==
  ASSUME Typing, FilesAgree, NEW j \in Jobs, Creates(j)
  PROVE  FilesAgree'
<1>0. /\ "apply" \in Jobs /\ "control" \in Jobs /\ "pairHost" \in Jobs /\ "pairClient" \in Jobs
      /\ "create" \in Saving /\ "write" \in Saving /\ "ack" \notin Saving
  BY JobNames DEF Saving
<1>1. /\ OneJob(j) /\ job[j].pc = "create" /\ job'[j].pc = "write"
      /\ job'[j].cfg = job[j].cfg /\ job'[j].id = job[j].id /\ job'[j].side = job[j].side
      /\ UNCHANGED <<file, removed, made, torn, unpaired, faults, topoLink, pairLink>>
  BY CreatesIs
<1>2. \A k \in {"apply", "control", "pairHost", "pairClient"} :
        \/ job'[k] = job[k]
        \/ /\ job[k].pc = "create" /\ job'[k].pc = "write" /\ job'[k].cfg = job[k].cfg
           /\ job'[k].id = job[k].id /\ job'[k].side = job[k].side
  BY <1>0, <1>1 DEF OneJob
<1>3. SidesSame
  BY <1>0, <1>1, <1>2 DEF SidesSame, Turned, Turning, ClientTurned, Applying, Controlling
<1>4. HostAdds' = HostAdds
  <2>1. CASE job'["pairHost"] = job["pairHost"]
    BY <1>1, <2>1, AddsSame
  <2>2. CASE /\ job["pairHost"].pc \in Saving /\ job'["pairHost"].pc \in Saving
             /\ job'["pairHost"].cfg = job["pairHost"].cfg
    <3>1. Recs(job'["pairHost"].cfg) = Recs(job["pairHost"].cfg)
      BY <2>2
    <3>2. CASE pairLink.kind = "grant"
      BY <1>1, <3>2 DEF HostAdds, HostPeer, Peer
    <3>3. CASE pairLink.kind # "grant"
      BY <1>1, <2>2, <3>1, <3>3 DEF HostAdds
    <3> QED BY <3>2, <3>3
  <2> QED BY <1>0, <1>2, <2>1, <2>2
<1>5. ClientAdds' = ClientAdds
  <2>1. CASE job'["pairClient"] = job["pairClient"]
    BY <1>1, <2>1, AddsSame
  <2>2. CASE /\ job["pairClient"].pc \in Saving /\ job'["pairClient"].pc \in Saving
             /\ job'["pairClient"].cfg = job["pairClient"].cfg
    <3>1. Recs(job'["pairClient"].cfg) = Recs(job["pairClient"].cfg)
      BY <2>2
    <3> QED BY <1>1, <2>2, <3>1 DEF ClientAdds, ClientPending
  <2> QED BY <1>0, <1>2, <2>1, <2>2
<1> QED BY <1>1, <1>3, <1>4, <1>5, AgreeSame DEF Undisturbed, Intact

\* Where the exchange is left alone, sides are as they were.
LEMMA SidesLeft ==
  ASSUME job'["apply"] = job["apply"], job'["control"] = job["control"], topoLink' = topoLink
  PROVE  SidesSame
BY DEF SidesSame, Turned, Turning, ClientTurned, Applying, Controlling

\* Steps that have no part in the exchange.
LEMMA AgreeAside ==
  ASSUME Typing, FilesAgree, NEW j \in Jobs, Aside(j)
  PROVE  FilesAgree'
<1>0. /\ "pairHost" \in Jobs /\ "pairClient" \in Jobs /\ NoRecord.kind = "none"
  BY JobNames DEF NoRecord
<1>1. SidesSame
  BY AsideBystands, SidesLeft DEF Bystands
<1>2. /\ OneJob(j) /\ UNCHANGED <<file, torn, unpaired, faults, made>>
      /\ removed \subseteq removed'
      /\ job[j].pc \notin Saving /\ (j \in {"pairHost", "pairClient"} => job'[j].pc \notin Saving)
      /\ pairLink' = pairLink \/ (pairLink = NoRecord /\ pairLink'.kind = "request")
  BY DEF Aside
<1>3. HostAdds' = HostAdds
  <2>1. CASE job'["pairHost"] = job["pairHost"]
    BY <1>0, <1>2, <2>1, AddsSame DEF HostAdds, Recs
  <2>2. CASE job'["pairHost"] # job["pairHost"]
    <3>1. job["pairHost"].pc \notin Saving /\ job'["pairHost"].pc \notin Saving
      BY <1>0, <1>2, <2>2 DEF OneJob
    <3>2. CASE pairLink' = pairLink /\ pairLink.kind = "grant"
      BY <3>2 DEF HostAdds, HostPeer, Peer
    <3>3. CASE pairLink'.kind # "grant" /\ pairLink.kind # "grant"
      BY <1>2, <3>1, <3>3, AddsSame
    <3> QED BY <1>0, <1>2, <3>2, <3>3
  <2> QED BY <2>1, <2>2
<1>4. ClientAdds' = ClientAdds
  <2>1. job'["pairClient"] # job["pairClient"] =>
          job["pairClient"].pc \notin Saving /\ job'["pairClient"].pc \notin Saving
    BY <1>0, <1>2 DEF OneJob
  <2> QED BY <1>2, <2>1, AddsSame
<1> QED BY <1>1, <1>2, <1>3, <1>4, AgreeSame DEF Undisturbed, Intact

\* The grant is taken: it goes on its way in the copy of the host.
LEMMA AgreeTakeGrant ==
  ASSUME Typing, IdsMade, Pairings, FilesAgree, TakeGrant
  PROVE  FilesAgree'
<1>0. "pairHost" \in Jobs /\ "pairClient" \in Jobs /\ NoRecord.kind = "none" /\ "create" \in Saving
  BY JobNames DEF NoRecord, Saving
<1> DEFINE p == HostPeer(pairLink)
<1>1. /\ OneJob("pairHost") /\ job'["pairHost"].pc = "create"
      /\ pairLink.kind = "grant" /\ pairLink' = NoRecord
      /\ p.id = made /\ Recs(job'["pairHost"].cfg) = Joined(Records("host"), p)
      /\ UNCHANGED <<file, torn, made, faults, unpaired, removed>>
  BY TakeGrantIs
<1>2. SidesSame
  BY PairingBystands, SidesLeft DEF Bystands
<1>3. HostAdds = {p}
  BY <1>1 DEF HostAdds
<1>4. HostAdds' = {q \in Recs(job'["pairHost"].cfg) : q.id = made}
  BY <1>0, <1>1 DEF HostAdds
<1>5. \A q \in Records("host") : q.id # made
  BY <1>1 DEF Pairings, HostPending, Unknown
<1> HIDE DEF p
<1>6. HostAdds' = {p}
  BY <1>1, <1>4, <1>5 DEF Joined
<1>7. ClientAdds' = ClientAdds
  BY <1>0, <1>1, AddsSame DEF OneJob
<1> QED BY <1>1, <1>2, <1>3, <1>6, <1>7, AgreeSame DEF Undisturbed, Intact

\* The placement transaction, the client's turn aside: what the host has asked
\* for and the client has saved is as good as saved.
LEMMA AgreeTopology ==
  ASSUME Typing, Exchange, ChosenThere, FilesAgree,
         \/ \E id \in Ids, side \in Asked : ApplyStarts(id, side)
         \/ \E sent \in BOOLEAN : ControlAck(sent)
         \/ TakeAck
  PROVE  FilesAgree'
<1>0. /\ "apply" \in Jobs /\ "control" \in Jobs /\ "pairHost" \in Jobs /\ "pairClient" \in Jobs
      /\ Nobody.pc = "idle" /\ NoRecord.kind = "none"
      /\ "idle" \notin Saving /\ "asked" \notin Saving /\ "ack" \notin Saving /\ "create" \in Saving
  BY JobNames, NobodyOk DEF Saving, NoRecord
<1>1. ASSUME NEW j \in {"apply", "control"}, OneJob(j), Undisturbed => SidesSame,
             UNCHANGED <<file, made, pairLink, torn, unpaired, faults, removed>>
      PROVE  FilesAgree'
  <2>1. job'["pairHost"] = job["pairHost"] /\ job'["pairClient"] = job["pairClient"]
    BY <1>0, <1>1 DEF OneJob
  <2>2. HostAdds' = HostAdds /\ ClientAdds' = ClientAdds
    BY <1>1, <2>1, AddsSame
  <2> QED BY <1>1, <2>2, AgreeSame DEF Undisturbed, Intact
<1>2. ASSUME NEW id \in Ids, NEW side \in Asked, ApplyStarts(id, side)
      PROVE  FilesAgree'
  <2>1. /\ OneJob("apply") /\ job["apply"].pc = "idle" /\ job'["apply"].pc = "asked"
        /\ job["control"].pc = "idle" /\ topoLink'.kind = "request"
        /\ UNCHANGED <<file, made, pairLink, torn, unpaired, faults, removed>>
    BY <1>2, ApplyStartsIs DEF Starts
  <2>2. job'["control"].pc = "idle"
    BY <1>0, <2>1 DEF OneJob
  <2>3. SidesSame
    BY <1>0, <2>1, <2>2 DEF SidesSame, Turned, Turning, ClientTurned, Applying, Controlling
  <2> QED BY <1>1, <2>1, <2>3
<1>3. ASSUME NEW sent \in BOOLEAN, ControlAck(sent) PROVE FilesAgree'
  <2>1. /\ OneJob("control") /\ job["control"].pc = "ack" /\ job'["control"] = Nobody
        /\ job["apply"].pc = "asked" => topoLink' = [kind |-> "ack"]
        /\ UNCHANGED <<file, made, pairLink, torn, unpaired, faults, removed>>
    BY <1>3, ControlAckIs
  <2>2. job'["apply"] = job["apply"]
    BY <1>0, <2>1 DEF OneJob
  <2>3. Undisturbed => job["apply"].pc = "asked"
    BY <2>1 DEF Exchange, Controlling, Applying, Undisturbed
  <2>4. job["apply"].pc = "asked" => topoLink'.kind = "ack"
    BY <2>1
  <2>5. Undisturbed => SidesSame
    BY <1>0, <2>1, <2>2, <2>3, <2>4
       DEF SidesSame, Turned, Turning, ClientTurned, Applying, Controlling
  <2> QED BY <1>1, <2>1, <2>5
<1>4. CASE TakeAck
  <2>1. /\ OneJob("apply") /\ job["apply"].pc = "asked" /\ topoLink.kind = "ack"
        /\ job'["apply"].pc = "create" /\ job'["apply"].id = job["apply"].id
        /\ job'["apply"].side = job["apply"].side
        /\ UNCHANGED <<file, made, pairLink, torn, unpaired, faults, removed>>
    BY <1>4, TakeAckIs
  <2>2. job["control"].pc = "idle"
    BY <2>1 DEF Exchange, Controlling
  <2>3. SidesSame
    BY <1>0, <2>1, <2>2 DEF SidesSame, Turned, Turning, ClientTurned, Applying, Controlling
  <2> QED BY <1>1, <2>1, <2>3
<1> QED BY <1>2, <1>3, <1>4

\* The listener takes the request: from now on both sides are turned.
LEMMA AgreeControlTakes ==
  ASSUME Typing, Exchange, FilesAgree, ControlTakes
  PROVE  FilesAgree'
<1>0. /\ "apply" \in Jobs /\ "control" \in Jobs /\ "pairHost" \in Jobs /\ "pairClient" \in Jobs
      /\ NoRecord.kind = "none" /\ "asked" \notin Saving /\ "create" \in Saving
      /\ "idle" \notin Saving
  BY JobNames DEF Saving, NoRecord
<1>1. /\ topoLink.kind = "request" /\ topoLink' = NoRecord /\ job["control"].pc = "idle"
      /\ \/ OneJob("control") /\ job'["control"].pc = "create"
         \/ job' = job
      /\ UNCHANGED <<file, made, pairLink, torn, unpaired, faults, removed>>
  BY ControlTakesIs
<1>2. job["apply"].pc = "asked"
  BY <1>1 DEF Exchange, Applying
<1>3. /\ job'["pairHost"] = job["pairHost"] /\ job'["pairClient"] = job["pairClient"]
      /\ job'["apply"] = job["apply"]
  BY <1>0, <1>1 DEF OneJob
<1>4. HostAdds' = HostAdds /\ ClientAdds' = ClientAdds
  BY <1>1, <1>3, AddsSame
<1>5. CASE job' = job
  <2>1. SidesSame
    BY <1>0, <1>1, <1>2, <1>5
       DEF SidesSame, Turned, Turning, ClientTurned, Applying, Controlling
  <2> QED BY <1>1, <1>4, <2>1, AgreeSame DEF Undisturbed, Intact
<1>6. CASE job'["control"].pc = "create"
  <2>1. Records("host")' = Records("host") /\ Records("client")' = Records("client")
    BY <1>1, SameStored
  <2>2. HostComing' = HostComing /\ ClientComing' = ClientComing
    BY <1>4, <2>1 DEF HostComing, ClientComing, Coming
  <2>3. ~Turned /\ ~Turning /\ Turned' /\ Turning'
    BY <1>0, <1>1, <1>2, <1>3, <1>6
       DEF Turned, Turning, ClientTurned, Applying, Controlling
  <2>4. /\ \A p : HostSide(p) = p.side /\ ClientSide(p) = p.side
        /\ \A p : HostSide(p)' = IF p.id = job["apply"].id THEN job["apply"].side ELSE p.side
        /\ \A q : ClientSide(q)' =
             IF q.id = job["apply"].id THEN Opposite(job["apply"].side) ELSE q.side
    BY <1>3, <2>3 DEF HostSide, ClientSide, Turned, Turning
  <2>5. \A p, q : Mirrored(p, q) => Mirrored(p, q)'
    BY <2>4 DEF Mirrored
  <2>6. Undisturbed' => Undisturbed
    BY <1>1 DEF Undisturbed, Intact
  <2> QED BY <1>1, <2>2, <2>5, <2>6 DEF FilesAgree, HostComing, ClientComing
<1> QED BY <1>1, <1>5, <1>6

\* A grant puts one peer on its way to each desktop, in opposite places.
LEMMA AgreeGrant ==
  ASSUME Typing, IdsMade, Pairings, FilesAgree, NEW at \in Addresses, NEW keep \in BOOLEAN,
         Grant(at, keep)
  PROVE  FilesAgree'
<1>0. /\ "pairHost" \in Jobs /\ "pairClient" \in Jobs /\ "apply" \in Jobs
      /\ On("pairClient") = "client" /\ "host" \in Machines /\ "client" \in Machines
      /\ "create" \in Saving /\ "listening" \notin Saving /\ "asked" \notin Saving
      /\ NoRecord.kind = "none"
  BY JobNames DEF Saving, On, NoRecord
<1>1. /\ OneJob("pairClient") /\ job["pairClient"].pc = "listening"
      /\ job'["pairClient"].pc = "create" /\ made' = made + 1
      /\ pairLink.kind = "request" /\ pairLink'.kind = "grant" /\ pairLink'.id = made'
      /\ pairLink' \in PairRecords
      /\ UNCHANGED <<file, torn, topoLink, faults, unpaired, removed>>
  BY GrantIs
<1>2. PICK new : /\ NewPeer(new) /\ new.at = pairLink'.at
                 /\ new.side = Opposite(pairLink'.side) /\ pairLink'.side \in Placements
                 /\ Recs(job'["pairClient"].cfg) = Joined(Recs(job["pairClient"].cfg), new)
  BY GrantIs
<1>3. made \in Nat
  BY <1>0, AllMade
<1>4. \A p \in Recs(job["pairClient"].cfg) : p.id \in Nat /\ p.id <= made
  BY <1>0, AllMade, AllIs
<1>5. ClientAdds' = {new}
  <2>1. ClientAdds' = {p \in Recs(job'["pairClient"].cfg) : p.id = made'}
    BY <1>0, <1>1 DEF ClientAdds, ClientPending
  <2>2. \A p \in Recs(job["pairClient"].cfg) : p.id # made'
    BY <1>1, <1>3, <1>4
  <2> QED BY <1>2, <2>1, <2>2 DEF Joined, NewPeer
<1>6. PICK p0 : HostAdds' = {p0} /\ p0.id = made' /\ p0.at = new.at /\ new.side = Opposite(p0.side)
  <2>1. HostAdds' = {HostPeer(pairLink)'}
    BY <1>1 DEF HostAdds
  <2>2. HostPeer(pairLink)' = Peer(pairLink'.id, pairLink'.at, pairLink'.side)
    BY DEF HostPeer, Peer
  <2>3. \A i, a, s : Peer(i, a, s).id = i /\ Peer(i, a, s).at = a /\ Peer(i, a, s).side = s
    BY DEF Peer
  <2> QED BY <1>1, <1>2, <2>1, <2>2, <2>3
<1>7. HostAdds = {} /\ ClientAdds = {}
  <2>1. pairLink # NoRecord
    BY <1>0, <1>1
  <2>2. job["pairHost"].pc \notin Saving
    BY <1>0, <2>1 DEF Pairings
  <2>3. pairLink.kind # "grant"
    BY <1>1
  <2> QED BY <1>0, <1>1, <2>2, <2>3 DEF HostAdds, ClientAdds, ClientPending
<1>8. Records("host")' = Records("host") /\ Records("client")' = Records("client")
  BY <1>1, SameStored
<1>9. /\ HostComing = Records("host") /\ ClientComing = Records("client")
      /\ HostComing' = {q \in Records("host") : q.at # new.at} \cup {p0}
      /\ ClientComing' = {q \in Records("client") : q.at # new.at} \cup {new}
  BY <1>5, <1>6, <1>7, <1>8 DEF HostComing, ClientComing, Coming
<1>10. SidesSame /\ job'["apply"] = job["apply"]
  BY PairingBystands, SidesLeft DEF Bystands
<1>11. \A p, q : Mirrored(p, q) => Mirrored(p, q)'
  BY <1>10, SidesSameIs DEF Mirrored
<1>12. Mirrored(p0, new)'
  <2>1. job["apply"].id <= made
    BY <1>0 DEF IdsMade
  <2>2. job["apply"].id \in Nat
    BY <1>0, JobsTyped, JobFields DEF JobsOk
  <2>3. job'["apply"].id # made'
    BY <1>1, <1>3, <1>10, <2>1, <2>2
  <2>4. p0.id = made' /\ new.id = made'
    BY <1>2, <1>6 DEF NewPeer
  <2>5. HostSide(p0)' = p0.side /\ ClientSide(new)' = new.side
    BY <2>3, <2>4 DEF HostSide, ClientSide
  <2> QED BY <1>6, <2>4, <2>5 DEF Mirrored
<1>13. Undisturbed' => Undisturbed
  BY <1>1 DEF Undisturbed, Intact
<1> SUFFICES ASSUME Undisturbed'
             PROVE  /\ \A p \in HostComing' : p.id \in removed' \/ \E q \in ClientComing' : Mirrored(p, q)'
                    /\ \A q \in ClientComing' : q.id \in removed' \/ \E p \in HostComing' : Mirrored(p, q)'
  BY DEF FilesAgree, HostComing, ClientComing
<1>14. /\ \A p \in Records("host") : p.id \in removed \/ \E q \in Records("client") : Mirrored(p, q)
       /\ \A q \in Records("client") : q.id \in removed \/ \E p \in Records("host") : Mirrored(p, q)
  BY <1>9, <1>13 DEF FilesAgree, HostComing, ClientComing
<1>15. \A p, q : Mirrored(p, q) => p.at = q.at
  BY DEF Mirrored
<1>16. \A p \in HostComing' : p.id \in removed' \/ \E q \in ClientComing' : Mirrored(p, q)'
  BY <1>1, <1>9, <1>11, <1>12, <1>14, <1>15
<1>17. \A q \in ClientComing' : q.id \in removed' \/ \E p \in HostComing' : Mirrored(p, q)'
  BY <1>1, <1>9, <1>11, <1>12, <1>14, <1>15
<1> QED BY <1>16, <1>17

\* The records of a file are as they were, but for what is taken as saved.
LEMMA ComingAlike ==
         /\ /\ HostAdds' = HostAdds /\ \A p \in HostAdds : HostLike(p, p)
            /\ \A p \in Records("host")' :
                 p.id \in removed' \/ \E o \in Records("host") : HostLike(o, p)
            /\ \A o \in Records("host") :
                 o.id \in removed' \/ \E p \in Records("host")' : HostLike(o, p)
            => HostAlike
         /\ /\ ClientAdds' = ClientAdds /\ \A q \in ClientAdds : ClientLike(q, q)
            /\ \A q \in Records("client")' :
                 q.id \in removed' \/ \E o \in Records("client") : ClientLike(o, q)
            /\ \A o \in Records("client") :
                 o.id \in removed' \/ \E q \in Records("client")' : ClientLike(o, q)
            => ClientAlike
<1> DEFINE R == Records("host")
           C == Records("client")
<1>1. ASSUME HostAdds' = HostAdds, \A p \in HostAdds : HostLike(p, p),
             \A p \in R' : p.id \in removed' \/ \E o \in R : HostLike(o, p),
             \A o \in R : o.id \in removed' \/ \E p \in R' : HostLike(o, p)
      PROVE  HostAlike
  <2> HIDE DEF R, C
  <2>1. /\ HostComing = {q \in R : \A p \in HostAdds : q.at # p.at} \cup HostAdds
        /\ HostComing' = {q \in R' : \A p \in HostAdds : q.at # p.at} \cup HostAdds
    BY <1>1 DEF HostComing, Coming, R
  <2>2. \A o, p : HostLike(o, p) => o.at = p.at
    BY DEF HostLike
  <2>3. \A p \in HostComing' : p.id \in removed' \/ \E o \in HostComing : HostLike(o, p)
    BY <1>1, <2>1, <2>2
  <2>4. \A o \in HostComing : o.id \in removed' \/ \E p \in HostComing' : HostLike(o, p)
    BY <1>1, <2>1, <2>2
  <2> QED BY <2>3, <2>4 DEF HostAlike
<1>2. ASSUME ClientAdds' = ClientAdds, \A p \in ClientAdds : ClientLike(p, p),
             \A p \in C' : p.id \in removed' \/ \E o \in C : ClientLike(o, p),
             \A o \in C : o.id \in removed' \/ \E p \in C' : ClientLike(o, p)
      PROVE  ClientAlike
  <2> HIDE DEF R, C
  <2>1. /\ ClientComing = {q \in C : \A p \in ClientAdds : q.at # p.at} \cup ClientAdds
        /\ ClientComing' = {q \in C' : \A p \in ClientAdds : q.at # p.at} \cup ClientAdds
    BY <1>2 DEF ClientComing, Coming, C
  <2>2. \A o, p : ClientLike(o, p) => o.at = p.at
    BY DEF ClientLike
  <2>3. \A p \in ClientComing' : p.id \in removed' \/ \E o \in ClientComing : ClientLike(o, p)
    BY <1>2, <2>1, <2>2
  <2>4. \A o \in ClientComing : o.id \in removed' \/ \E p \in ClientComing' : ClientLike(o, p)
    BY <1>2, <2>1, <2>2
  <2> QED BY <2>3, <2>4 DEF ClientAlike
<1> QED BY <1>1, <1>2

\* What a save does when nothing was lost.
LEMMA RenameUndisturbed ==
  ASSUME Typing, Fresh, NEW j \in Jobs, Rename(j), Undisturbed'
  PROVE  /\ Undisturbed /\ Change(j, Records(On(j)), Recs(job[j].cfg))
         /\ j \notin behind
         /\ Records(On(j))' = Recs(job[j].cfg)
         /\ \A m \in Machines : m # On(j) => Records(m)' = Records(m)
         /\ OneJob(j) /\ job[j].pc = "write" /\ "write" \in Saving
         /\ pairLink' = pairLink /\ topoLink' = topoLink /\ made' = made /\ removed' = removed
         /\ j \in {"control", "hostSession", "clientSession"} \/ job'[j].pc = "idle"
         /\ j = "control" => job'[j].pc = "ack"
<1>1. /\ OneJob(j) /\ job[j].pc = "write"
      /\ job'[j] = Nobody \/ job'[j].pc = job[j].then
      /\ job[j].then \in Thens(j)
      /\ \A m \in Machines : m # On(j) => file'[m] = file[m] /\ torn'[m] = torn[m]
      /\ torn'[On(j)] = (torn[On(j)] \/ j \in behind)
      /\ Parse(file'[On(j)]) = job[j].cfg
      /\ UNCHANGED <<pairLink, topoLink, made, removed, faults, unpaired>>
  BY RenameIs
<1>2. job[j].then # "idle" => job'[j].pc = job[j].then
  BY RenameIs
<1>3. On(j) \in Machines /\ Nobody.pc = "idle"
  BY JobNames, NobodyOk
<1>4. Undisturbed /\ ~torn[On(j)] /\ j \notin behind
  BY <1>1, <1>3 DEF Undisturbed, Intact
<1>5. Change(j, Records(On(j)), Recs(job[j].cfg))
  BY <1>1, <1>4 DEF Fresh, Holds
<1>6. /\ Records(On(j))' = Recs(job[j].cfg)
      /\ \A m \in Machines : m # On(j) => Records(m)' = Records(m)
  BY <1>1 DEF Records, Stored, Recs
<1>7. /\ j \in {"control", "hostSession", "clientSession"} \/ job'[j].pc = "idle"
      /\ j = "control" => job'[j].pc = "ack"
  BY <1>1, <1>2, <1>3 DEF Thens
<1> QED BY <1>1, <1>4, <1>5, <1>6, <1>7 DEF Saving

\* One desktop of a pairing saves the peer that was on its way.
LEMMA AgreePairs ==
  ASSUME Typing, Pairings, Fresh, FilesAgree, NEW j \in {"pairHost", "pairClient"}, Rename(j)
  PROVE  FilesAgree'
<1>0. /\ "pairHost" \in Jobs /\ "pairClient" \in Jobs /\ j \in Jobs
      /\ "apply" \in Jobs /\ "control" \in Jobs
      /\ On("pairHost") = "host" /\ On("pairClient") = "client" /\ "host" \in Machines
      /\ "client" \in Machines /\ "idle" \notin Saving /\ NoRecord.kind = "none"
      /\ "write" \in Saving
  BY JobNames DEF Saving, On, NoRecord
<1>1. ASSUME Undisturbed'
      PROVE  Undisturbed /\ HostComing' = HostComing /\ ClientComing' = ClientComing /\ SidesSame
  <2> DEFINE R == Records(On(j))
             S == Recs(job[j].cfg)
  <2>1. /\ Undisturbed /\ Change(j, R, S) /\ R' = S
        /\ \A m \in Machines : m # On(j) => Records(m)' = Records(m)
        /\ OneJob(j) /\ job[j].pc = "write" /\ job'[j].pc = "idle"
        /\ pairLink' = pairLink /\ topoLink' = topoLink /\ made' = made
    BY <1>0, <1>1, RenameUndisturbed
  <2>2. SidesSame
    BY <1>0, <2>1, SidesLeft DEF OneJob
  <2> HIDE DEF R, S
  <2>3. PICK new \in S : new.id = made /\ S = Joined(R, new)
    BY <1>0, <2>1 DEF Change
  <2>4. \A p \in R : p.id # made
    BY <1>0, <2>1 DEF Pairings, HostPending, ClientPending, Unknown, R
  <2>5. {p \in S : p.id = made} = {new}
    BY <2>3, <2>4 DEF Joined
  <2>6. CASE j = "pairHost"
    <3>1. pairLink.kind # "grant"
      BY <1>0, <2>1, <2>6 DEF Pairings
    <3>2. HostAdds = {new} /\ HostAdds' = {}
      BY <1>0, <2>1, <2>5, <2>6, <3>1 DEF HostAdds, S
    <3>3. HostComing' = HostComing
      BY <1>0, <2>1, <2>3, <2>6, <3>2 DEF HostComing, Coming, Joined, R
    <3>4. ClientAdds' = ClientAdds
      BY <1>0, <2>1, <2>6, AddsSame DEF OneJob
    <3>5. ClientComing' = ClientComing
      BY <1>0, <2>1, <2>6, <3>4 DEF ClientComing, Coming
    <3> QED BY <2>1, <2>2, <3>3, <3>5
  <2>7. CASE j = "pairClient"
    <3>2. ClientAdds = {new} /\ ClientAdds' = {}
      BY <1>0, <2>1, <2>5, <2>7 DEF ClientAdds, ClientPending, S
    <3>3. ClientComing' = ClientComing
      BY <1>0, <2>1, <2>3, <2>7, <3>2 DEF ClientComing, Coming, Joined, R
    <3>4. HostAdds' = HostAdds
      BY <1>0, <2>1, <2>7, AddsSame DEF OneJob
    <3>5. HostComing' = HostComing
      BY <1>0, <2>1, <2>7, <3>4 DEF HostComing, Coming
    <3> QED BY <2>1, <2>2, <3>3, <3>5
  <2> QED BY <2>6, <2>7
<1>2. removed' = removed
  BY <1>0, RenameIs
<1> QED BY <1>1, <1>2, AlikeSame, AlikeAgree

\* A session or a command saves: peers are where they were, or were removed.
LEMMA AgreeSaves ==
  ASSUME Typing, Fresh, FilesAgree,
         NEW j \in {"hostSession", "clientSession", "hostEdit", "clientEdit"}, Rename(j)
  PROVE  FilesAgree'
<1>0. /\ "pairHost" \in Jobs /\ "pairClient" \in Jobs /\ j \in Jobs
      /\ "apply" \in Jobs /\ "control" \in Jobs
      /\ On(j) = "host" \/ On(j) = "client"
      /\ "host" \in Machines /\ "client" \in Machines
  BY JobNames DEF On
<1>1. ASSUME Undisturbed' PROVE Undisturbed /\ HostAlike /\ ClientAlike
  <2> DEFINE R == Records(On(j))
             S == Recs(job[j].cfg)
  <2>1. /\ Undisturbed /\ Change(j, R, S) /\ R' = S
        /\ \A m \in Machines : m # On(j) => Records(m)' = Records(m)
        /\ OneJob(j) /\ job[j].pc = "write" /\ "write" \in Saving
        /\ pairLink' = pairLink /\ topoLink' = topoLink /\ made' = made /\ removed' = removed
    BY <1>0, <1>1, RenameUndisturbed
  <2>2. SidesSame /\ HostAdds' = HostAdds /\ ClientAdds' = ClientAdds
    BY <1>0, <2>1, SidesLeft, AddsSame DEF OneJob
  <2>3. \A o, p : o.id = p.id /\ o.at = p.at /\ o.side = p.side => HostLike(o, p) /\ ClientLike(o, p)
    BY <2>2, SidesSameIs DEF HostLike, ClientLike, HostSide, ClientSide
  <2> HIDE DEF R, S
  <2>4. /\ \A p \in S : \E o \in R : o.id = p.id /\ o.at = p.at /\ o.side = p.side
        /\ \A o \in R : o.id \in removed \/ \E p \in S : o.id = p.id /\ o.at = p.at /\ o.side = p.side
    <3>1. CASE j \in {"hostSession", "clientSession"}
      <4>1. SameBut(R, S, job[j].id)
        BY <2>1, <3>1 DEF Change
      <4>2. \A p \in S : \E o \in R : o.id = p.id /\ o.at = p.at /\ o.side = p.side
        BY <4>1 DEF SameBut
      <4>3. \A o \in R : \E p \in S : o.id = p.id /\ o.at = p.at /\ o.side = p.side
        BY <4>1 DEF SameBut
      <4> QED BY <4>2, <4>3
    <3>2. CASE j \notin {"hostSession", "clientSession"}
      <4>1. S = R \/ \E i \in removed : S = Without(R, i)
        BY <2>1, <3>2 DEF Change
      <4> QED BY <4>1 DEF Without
    <3> QED BY <3>1, <3>2
  <2>5. /\ \A p \in S : \E o \in R : HostLike(o, p) /\ ClientLike(o, p)
        /\ \A o \in R : o.id \in removed \/ \E p \in S : HostLike(o, p) /\ ClientLike(o, p)
    BY <2>3, <2>4
  <2>6. \A p : HostLike(p, p) /\ ClientLike(p, p)
    BY <2>3
  <2>7. CASE On(j) = "host"
    <3>1. HostAlike
      BY <2>1, <2>2, <2>5, <2>6, <2>7, ComingAlike DEF R
    <3>2. ClientComing' = ClientComing
      BY <1>0, <2>1, <2>2, <2>7 DEF ClientComing, Coming
    <3> QED BY <2>1, <2>2, <3>1, <3>2, AlikeSame
  <2>8. CASE On(j) = "client"
    <3>1. ClientAlike
      BY <2>1, <2>2, <2>5, <2>6, <2>8, ComingAlike DEF R
    <3>2. HostComing' = HostComing
      BY <1>0, <2>1, <2>2, <2>8 DEF HostComing, Coming
    <3> QED BY <2>1, <2>2, <3>1, <3>2, AlikeSame
  <2> QED BY <1>0, <2>7, <2>8
<1>2. removed' = removed
  BY <1>0, RenameIs
<1> QED BY <1>1, <1>2, AlikeAgree

\* The host saves the placement that was as good as saved.
LEMMA AgreeApplies ==
  ASSUME Typing, Pairings, Exchange, Fresh, FilesAgree, Rename("apply")
  PROVE  FilesAgree'
<1>0. /\ "pairHost" \in Jobs /\ "pairClient" \in Jobs /\ "apply" \in Jobs /\ "control" \in Jobs
      /\ On("apply") = "host" /\ "host" \in Machines /\ "client" \in Machines
      /\ "idle" \notin Saving /\ "asked" \notin Saving
  BY JobNames DEF On, Saving
<1>1. ASSUME Undisturbed' PROVE Undisturbed /\ HostAlike /\ ClientAlike
  <2> DEFINE R == Records("host")
             S == Recs(job["apply"].cfg)
             id == job["apply"].id
             s == job["apply"].side
  <2>1. /\ Undisturbed /\ Change("apply", R, S) /\ R' = S
        /\ Records("client")' = Records("client")
        /\ OneJob("apply") /\ job["apply"].pc = "write" /\ "write" \in Saving
        /\ job'["apply"].pc = "idle"
        /\ pairLink' = pairLink /\ topoLink' = topoLink /\ made' = made /\ removed' = removed
    BY <1>0, <1>1, RenameUndisturbed
  <2>2. HostAdds' = HostAdds /\ ClientAdds' = ClientAdds
    BY <1>0, <2>1, AddsSame DEF OneJob
  <2>3. Turned /\ ~Turning /\ ~Turned' /\ ~Turning'
    BY <1>0, <2>1 DEF Turned, Turning, ClientTurned, Applying
  <2> HIDE DEF R, S
  <2>4. S = Placed(R, id, s)
    BY <2>1 DEF Change
  <2>5. /\ \A p : HostSide(p) = IF p.id = id THEN s ELSE p.side
        /\ \A p : HostSide(p)' = p.side /\ ClientSide(p) = p.side /\ ClientSide(p)' = p.side
    BY <2>3 DEF HostSide, ClientSide, Turned, Turning
  <2>6. \A p \in HostAdds : p.id # id
    <3>1. HostAdds # {} => HostPending
      BY DEF HostAdds, HostPending
    <3>2. HostPending => id # made
      BY DEF Pairings
    <3>3. \A p \in HostAdds : p.id = made
      BY DEF HostAdds, HostPeer, Peer, Pairings
    <3> QED BY <3>1, <3>2, <3>3
  <2>7. \A p \in HostAdds : HostLike(p, p)
    BY <2>5, <2>6 DEF HostLike
  <2>8. R \subseteq PeerRecs
    BY <1>0, StoredIs DEF R
  <2> HIDE DEF id, s
  <2>9. \A p \in S : \E o \in R : HostLike(o, p)
    <3> SUFFICES ASSUME NEW p \in Placed(R, id, s) PROVE \E o \in R : HostLike(o, p)
      BY <2>4
    <3>1. PICK o \in R : p.id = o.id /\ p.at = o.at /\ p.side = IF o.id = id THEN s ELSE o.side
      BY <2>8, PlacedIs
    <3> QED BY <2>5, <3>1 DEF HostLike
  <2>10. \A o \in R : \E p \in S : HostLike(o, p)
    <3> SUFFICES ASSUME NEW o \in R PROVE \E p \in Placed(R, id, s) : HostLike(o, p)
      BY <2>4
    <3>1. PICK p \in Placed(R, id, s) :
            p.id = o.id /\ p.at = o.at /\ p.side = IF o.id = id THEN s ELSE o.side
      BY <2>8, PlacedIs
    <3> QED BY <2>5, <3>1 DEF HostLike
  <2>11. HostAlike
    BY <2>1, <2>2, <2>7, <2>9, <2>10, ComingAlike DEF R
  <2>12. ClientComing' = ClientComing
    BY <2>1, <2>2 DEF ClientComing, Coming
  <2>13. \A q : ClientLike(q, q)
    BY <2>5 DEF ClientLike
  <2>14. ClientAlike
    BY <2>12, <2>13 DEF ClientAlike
  <2> QED BY <2>1, <2>11, <2>14
<1>2. removed' = removed
  BY <1>0, RenameIs
<1> QED BY <1>1, <1>2, AlikeAgree

\* The client saves the placement that was on its way.
LEMMA AgreeTurns ==
  ASSUME Typing, Pairings, Exchange, Fresh, ClientTurns, FilesAgree, Rename("control")
  PROVE  FilesAgree'
<1>0. /\ "pairHost" \in Jobs /\ "pairClient" \in Jobs /\ "apply" \in Jobs /\ "control" \in Jobs
      /\ On("control") = "client" /\ "host" \in Machines /\ "client" \in Machines
      /\ "idle" \notin Saving /\ "asked" \notin Saving /\ "ack" \notin Saving
  BY JobNames DEF On, Saving
<1>1. ASSUME Undisturbed' PROVE Undisturbed /\ HostAlike /\ ClientAlike
  <2> DEFINE R == Records("client")
             S == Recs(job["control"].cfg)
             id == job["apply"].id
             s == Opposite(job["apply"].side)
  <2>1. /\ Undisturbed /\ R' = S /\ "control" \notin behind
        /\ Records("host")' = Records("host")
        /\ OneJob("control") /\ job["control"].pc = "write" /\ "write" \in Saving
        /\ job'["control"].pc = "ack"
        /\ pairLink' = pairLink /\ topoLink' = topoLink /\ made' = made /\ removed' = removed
    BY <1>0, <1>1, RenameUndisturbed
  <2>2. HostAdds' = HostAdds /\ ClientAdds' = ClientAdds /\ job'["apply"] = job["apply"]
    BY <1>0, <2>1, AddsSame DEF OneJob
  <2>3. Applying /\ ~torn["client"]
    BY <1>0, <2>1 DEF Exchange, Controlling, Undisturbed, Intact
  <2>4. Turned /\ Turning /\ Turned' /\ ~Turning'
    BY <1>0, <2>1, <2>2, <2>3 DEF Turned, Turning, ClientTurned, Applying, Controlling
  <2> HIDE DEF R, S
  <2>5. S = Placed(R, id, s)
    BY <2>1, <2>3 DEF ClientTurns, R, S
  <2>6. /\ \A p : ClientSide(p) = IF p.id = id THEN s ELSE p.side
        /\ \A p : ClientSide(p)' = p.side /\ HostSide(p)' = HostSide(p)
    BY <2>2, <2>4 DEF HostSide, ClientSide, Turned, Turning
  <2>7. \A p \in ClientAdds : p.id # id
    BY DEF ClientAdds, Pairings
  <2>8. \A p \in ClientAdds : ClientLike(p, p)
    BY <2>6, <2>7 DEF ClientLike
  <2>9. R \subseteq PeerRecs
    BY <1>0, StoredIs DEF R
  <2> HIDE DEF id, s
  <2>10. \A p \in S : \E o \in R : ClientLike(o, p)
    <3> SUFFICES ASSUME NEW p \in Placed(R, id, s) PROVE \E o \in R : ClientLike(o, p)
      BY <2>5
    <3>1. PICK o \in R : p.id = o.id /\ p.at = o.at /\ p.side = IF o.id = id THEN s ELSE o.side
      BY <2>9, PlacedIs
    <3> QED BY <2>6, <3>1 DEF ClientLike
  <2>11. \A o \in R : \E p \in S : ClientLike(o, p)
    <3> SUFFICES ASSUME NEW o \in R PROVE \E p \in Placed(R, id, s) : ClientLike(o, p)
      BY <2>5
    <3>1. PICK p \in Placed(R, id, s) :
            p.id = o.id /\ p.at = o.at /\ p.side = IF o.id = id THEN s ELSE o.side
      BY <2>9, PlacedIs
    <3> QED BY <2>6, <3>1 DEF ClientLike
  <2>12. ClientAlike
    BY <2>1, <2>2, <2>8, <2>10, <2>11, ComingAlike DEF R
  <2>13. HostComing' = HostComing
    BY <2>1, <2>2 DEF HostComing, Coming
  <2>14. \A p : HostLike(p, p)
    BY <2>6 DEF HostLike
  <2>15. HostAlike
    BY <2>13, <2>14 DEF HostAlike
  <2> QED BY <2>1, <2>12, <2>15
<1>2. removed' = removed
  BY <1>0, RenameIs
<1> QED BY <1>1, <1>2, AlikeAgree

\* The files agree when what is on its way is taken as saved.
LEMMA FilesAgreeKept ==
  ASSUME Typing, IdsMade, Pairings, Fresh, Exchange, ChosenThere, ClientTurns, FilesAgree,
         Quits \/ Works
  PROVE  FilesAgree'
<1>1. ASSUME NEW j \in Jobs, Rename(j) PROVE FilesAgree'
  <2>1. j \in {"pairHost", "pairClient"} \/ j = "apply" \/ j = "control"
          \/ j \in {"hostSession", "clientSession", "hostEdit", "clientEdit"}
    BY DEF Jobs
  <2> QED BY <1>1, <2>1, AgreePairs, AgreeApplies, AgreeTurns, AgreeSaves
<1> QED BY <1>1, AgreeQuits, AgreeCreates, AgreeAside, AgreeTakeGrant, AgreeTopology,
           AgreeControlTakes, AgreeGrant, WorksSort

-----------------------------------------------------------------------------
(* The invariant                                                           *)

\* The invariant is kept by every step.
LEMMA InvKept ==
  ASSUME SetupInv, [Next]_vars
  PROVE  SetupInv'
<1>1. /\ Typing /\ OneWriter /\ IdsMade /\ Pairings /\ Fresh /\ ChosenThere /\ Tokens
      /\ Exchange /\ ClientTurns /\ ClientFirst /\ Watches /\ FilesAgree
  BY DEF SetupInv
<1>2. Quits \/ Works
  BY <1>1, Steps, StutterQuits
<1>3. Typing' /\ OneWriter' /\ ChosenThere'
  BY <1>1, <1>2, TypingKept, OneWriterKept, ChosenThereKept
<1>4. IdsMade' /\ Pairings' /\ Exchange'
  BY <1>1, <1>2, IdsMadeKept, PairingsKept, ExchangeKept
<1>5. Fresh' /\ Tokens'
  BY <1>1, <1>2, FreshKept, TokensKept
<1>6. ClientTurns' /\ ClientFirst' /\ Watches'
  BY <1>1, <1>2, ClientTurnsKept, ClientFirstKept, WatchesKept
<1>7. FilesAgree'
  BY <1>1, <1>2, FilesAgreeKept
<1> QED BY <1>3, <1>4, <1>5, <1>6, <1>7 DEF SetupInv

\* The records there are at the start: none, or one on each desktop, in opposite
\* places and without tokens.
LEMMA FirstRecords ==
  ASSUME Init
  PROVE  /\ \A m \in Machines : Loads(file[m]) /\ Config(Stored(m))
         /\ DOMAIN file = Machines /\ made \in {0, 1}
         /\ \A m \in Machines : \A p \in Records(m) :
              /\ made = 1 /\ p.id = 1 /\ p.at = FirstAt /\ p.capture = 0 /\ p.remote = 0
              /\ p.side = IF m = "host" THEN "left" ELSE "right"
         /\ \A m, n \in Machines : \A p \in Records(m) : \E q \in Records(n) : TRUE
         /\ \A m \in Machines : \A p, q \in Records(m) : p.keep = q.keep
<1>1. CASE file = [m \in Machines |-> <<>>] /\ made = 0
  <2>1. \A m \in Machines : Stored(m) = First(<<>>) /\ Loads(file[m]) /\ Config(Stored(m))
    BY <1>1, FirstFiles DEF Stored
  <2>2. \A m \in Machines : Records(m) = {}
    BY <2>1 DEF Records, First
  <2> QED BY <1>1, <2>1, <2>2
<1>2. ASSUME NEW keep \in BOOLEAN, made = 1, DOMAIN file = Machines,
             \A m \in Machines : Loads(file[m]) /\ Config(Stored(m)),
             \A m \in Machines : Stored(m) = First(<<[FirstPeer(m) EXCEPT !.keep = keep]>>)
      PROVE  /\ \A m \in Machines : \A p \in Records(m) :
                  /\ p.id = 1 /\ p.at = FirstAt /\ p.capture = 0 /\ p.remote = 0
                  /\ p.side = IF m = "host" THEN "left" ELSE "right"
             /\ \A m, n \in Machines : \A p \in Records(m) : \E q \in Records(n) : TRUE
             /\ \A m \in Machines : \A p, q \in Records(m) : p.keep = q.keep
  <2>1. ASSUME NEW m \in Machines PROVE Records(m) = {[FirstPeer(m) EXCEPT !.keep = keep]}
    <3>1. PICK p : p = [FirstPeer(m) EXCEPT !.keep = keep]
      OBVIOUS
    <3>2. Stored(m).peers = <<p>>
      BY <1>2, <3>1 DEF First
    <3> QED BY <3>1, <3>2 DEF Records
  <2>2. ASSUME NEW m \in Machines, NEW p \in Records(m)
        PROVE  /\ p.id = 1 /\ p.at = FirstAt /\ p.capture = 0 /\ p.remote = 0
               /\ p.side = IF m = "host" THEN "left" ELSE "right"
    <3>1. p = [FirstPeer(m) EXCEPT !.keep = keep]
      BY <2>1, <2>2
    <3> QED BY <3>1, FirstPeerIs DEF PeerRecs
  <2>3. \A n \in Machines : \E q \in Records(n) : TRUE
    BY <2>1
  <2>4. \A m \in Machines : \A p, q \in Records(m) : p = q
    BY <2>1
  <2> QED BY <2>2, <2>3, <2>4
<1>3. CASE made = 1 /\ file = [m \in Machines |-> Added(m)]
  <2>1. \A m \in Machines : Loads(file[m]) /\ Config(Stored(m))
    BY <1>3, FirstFiles DEF Stored
  <2>2. \A m \in Machines : Stored(m) = First(<<[FirstPeer(m) EXCEPT !.keep = TRUE]>>)
    BY <1>3, FirstFiles DEF Stored
  <2> QED BY <1>2, <1>3, <2>1, <2>2
<1>4. CASE made = 1 /\ file = [m \in Machines |-> Preview(m)]
  <2>1. \A m \in Machines : Loads(file[m]) /\ Config(Stored(m))
    BY <1>4, FirstFiles DEF Stored
  <2>2. \A m \in Machines : Stored(m) = First(<<FirstPeer(m)>>)
    BY <1>4, FirstFiles DEF Stored
  <2>3. \A m \in Machines : FirstPeer(m) = [FirstPeer(m) EXCEPT !.keep = FALSE]
    BY FirstPeerIs DEF PeerRecs
  <2>4. \A m \in Machines : Stored(m) = First(<<[FirstPeer(m) EXCEPT !.keep = FALSE]>>)
    BY <2>2, <2>3
  <2> QED BY <1>2, <1>4, <2>1, <2>4
<1>5. \/ file = [m \in Machines |-> <<>>] /\ made = 0
      \/ made = 1 /\ file \in {[m \in Machines |-> Added(m)], [m \in Machines |-> Preview(m)]}
  BY DEF Init
<1> QED BY <1>1, <1>3, <1>4, <1>5

\* The invariant holds at the start.
LEMMA InvFirst ==
  ASSUME Init
  PROVE  SetupInv
<1>0. /\ job = [j \in Jobs |-> Nobody] /\ tmp = [m \in Machines |-> FALSE]
      /\ failures = 0 /\ pairLink = NoRecord /\ topoLink = NoRecord /\ restart = FALSE
      /\ portal = [m \in Machines |-> [id \in Ids |-> [capture |-> 0, remote |-> 0]]]
      /\ starts = 0 /\ faults = 0 /\ behind = {} /\ torn = [m \in Machines |-> FALSE]
      /\ unpaired = FALSE /\ removed = {}
  BY DEF Init
<1>1. /\ \A m \in Machines : Loads(file[m]) /\ Config(Stored(m))
      /\ DOMAIN file = Machines /\ made \in {0, 1}
      /\ \A m \in Machines : \A p \in Records(m) :
           /\ made = 1 /\ p.id = 1 /\ p.at = FirstAt /\ p.capture = 0 /\ p.remote = 0
           /\ p.side = IF m = "host" THEN "left" ELSE "right"
      /\ \A m, n \in Machines : \A p \in Records(m) : \E q \in Records(n) : TRUE
      /\ \A m \in Machines : \A p, q \in Records(m) : p.keep = q.keep
  BY FirstRecords
<1>2. \A j \in Jobs : /\ job[j] = Nobody /\ job[j].pc = "idle" /\ job[j].cfg = NoCopy
                      /\ job[j].id = 0 /\ Recs(job[j].cfg) = {} /\ JobOk(j, job[j])
  BY <1>0, NobodyOk
<1>3. /\ "idle" \notin Saving /\ "idle" # "watcher" /\ NoRecord.kind = "none"
      /\ "apply" \in Jobs /\ "control" \in Jobs /\ "clientSession" \in Jobs
      /\ "pairHost" \in Jobs /\ "pairClient" \in Jobs /\ "hostSession" \in Jobs
      /\ "host" \in Machines /\ "client" \in Machines
      /\ \A m \in Machines : Session(m) \in Jobs
  BY JobNames DEF Saving, NoRecord
<1>4. Typing
  <2>1. JobsOk
    BY <1>0, <1>2 DEF JobsOk
  <2>2. made \in 0..MaxPairings /\ starts \in 0..MaxStarts /\ faults \in 0..MaxFaults
    BY <1>0, <1>1, SetupAssumption
  <2>3. portal \in [Machines -> [Ids -> [capture : Nat, remote : Nat]]]
    BY <1>0
  <2>4. pairLink \in PairRecords /\ topoLink \in TopoRecords
    BY <1>0 DEF PairRecords, TopoRecords
  <2> QED BY <1>0, <1>1, <2>1, <2>2, <2>3, <2>4 DEF Typing
<1>5. OneWriter
  BY <1>2 DEF OneWriter
<1>6. IdsMade
  <2>1. \A m \in Machines : \A c \in Copies(m) : \A p \in Recs(c) : p \in Records(m)
    BY <1>2 DEF Copies, Recs, Records
  <2>2. \A m \in Machines, i \in Ids : portal[m][i] = NoTokens
    BY <1>0 DEF NoTokens
  <2> QED BY <1>1, <1>2, <2>1, <2>2 DEF IdsMade
<1>7. Pairings
  BY <1>0, <1>2, <1>3 DEF Pairings, HostPending, ClientPending
<1>8. Fresh
  BY <1>2 DEF Fresh, Holds
<1>9. ChosenThere
  BY <1>2, <1>3 DEF ChosenThere
<1>10. Tokens
  <2>1. \A m \in Machines : \A p \in Records(m) : Current(m, p)
    <3> SUFFICES ASSUME NEW m \in Machines, NEW p \in Records(m) PROVE Current(m, p)
      OBVIOUS
    <3>1. p.id \in Ids /\ p.capture = 0 /\ p.remote = 0
      BY <1>1, SetupAssumption DEF Ids
    <3> QED BY <1>0, <3>1 DEF Current
  <2> QED BY <1>2, <1>3, <2>1 DEF Tokens
<1>11. Exchange
  BY <1>0, <1>2, <1>3 DEF Exchange, Applying, Controlling
<1>12. ClientTurns /\ ClientFirst /\ Watches
  BY <1>0, <1>2, <1>3 DEF ClientTurns, ClientFirst, ClientTurned, Watches, Applying
<1>13. FilesAgree
  <2>1. HostAdds = {} /\ ClientAdds = {}
    BY <1>0, <1>2, <1>3 DEF HostAdds, ClientAdds, ClientPending
  <2>2. \A p : HostSide(p) = p.side /\ ClientSide(p) = p.side
    BY <1>0, <1>2, <1>3 DEF HostSide, ClientSide, ClientTurned, Applying
  <2>3. Opposite("left") = "right" /\ "client" # "host"
    BY DEF Opposite
  <2>4. \A p \in Records("host"), q \in Records("client") : Mirrored(p, q)
    BY <1>1, <1>3, <2>2, <2>3 DEF Mirrored
  <2>5. /\ \A p \in Records("host") : \E q \in Records("client") : Mirrored(p, q)
        /\ \A q \in Records("client") : \E p \in Records("host") : Mirrored(p, q)
    BY <1>1, <1>3, <2>4
  <2> QED BY <2>1, <2>5, NothingComing DEF FilesAgree
<1> QED BY <1>4, <1>5, <1>6, <1>7, <1>8, <1>9, <1>10, <1>11, <1>12, <1>13 DEF SetupInv

\* The invariant holds always.
THEOREM InvHolds == Spec => []SetupInv
BY InvFirst, InvKept, PTL DEF Spec

-----------------------------------------------------------------------------
(* What the invariant says of the system                                   *)

\* What any process has saved, any process can load again, and one process at a
\* time has the temporary file (render, parse and save, src/config.rs:139, 299, 327).
THEOREM TypeCorrect == Spec => []TypeOK
<1>1. SetupInv => TypeOK
  <2> SUFFICES ASSUME SetupInv PROVE TypeOK
    OBVIOUS
  <2>1. Typing /\ OneWriter /\ JobsOk
    BY JobsTyped DEF SetupInv
  <2>2. \A m \in Machines : tmp[m] \/ \A j \in Jobs : On(j) = m => job[j].pc # "write"
    BY <2>1 DEF OneWriter
  <2> QED BY <2>1, <2>2 DEF TypeOK, Typing, JobsOk
<1> QED BY <1>1, InvHolds, PTL

\* A peer with persistent permissions has the tokens that the portal will accept
\* next, unless a save was lost, interrupted or overtaken
\* (persist_returned_tokens, src/main.rs:1640, 1686-1712).
THEOREM TokensStayCurrent == Spec => []TokensCurrent
<1>1. SetupInv => TokensCurrent
  <2> SUFFICES ASSUME SetupInv, NEW m \in Machines, ~torn[m], AtRest({Session(m)}),
                      NEW p \in Records(m), p.keep
               PROVE  Current(m, p)
    BY DEF TokensCurrent, Current
  <2>1. job[Session(m)].pc \notin Saving \cup {"watcher"}
    BY DEF AtRest, Working, Saving
  <2> QED BY <2>1 DEF SetupInv, Tokens
<1> QED BY <1>1, InvHolds, PTL

\* A running client session watches the edge its file names, or has been told to
\* end, as long as no connection was lost (src/main.rs:1085).
THEOREM SessionFollows == Spec => []SessionFollowsFile
<1>1. SetupInv => SessionFollowsFile
  BY DEF SetupInv, Watches, SessionFollowsFile
<1> QED BY <1>1, InvHolds, PTL

\* With nothing under way and nothing cut short the two desktops have the same
\* peers in opposite places (src/main.rs:957-960, 1037-1052).
THEOREM PairingsAgree == Spec => []PairingAgrees
<1>1. SetupInv => PairingAgrees
  <2> SUFFICES ASSUME SetupInv, Intact, ~unpaired, faults = 0,
                      AtRest({"pairHost", "pairClient", "apply", "control"}),
                      NEW m \in Machines, NEW n \in Machines, m # n, NEW p \in Records(m),
                      p.id \notin removed
               PROVE  \E q \in Records(n) : q.id = p.id /\ q.side = Opposite(p.side)
    BY DEF PairingAgrees
  <2>1. Typing /\ Pairings /\ FilesAgree
    BY DEF SetupInv
  <2>2. \A j \in {"pairHost", "pairClient", "apply", "control"} :
          job[j].pc \notin Saving \cup {"asked", "ack"}
    BY DEF AtRest, Working, Saving
  <2>3. pairLink.kind # "grant"
    BY <2>1, <2>2 DEF Pairings, NoRecord
  <2>4. HostAdds = {} /\ ClientAdds = {}
    BY <2>2, <2>3 DEF HostAdds, ClientAdds, ClientPending
  <2>5. \A q : HostSide(q) = q.side /\ ClientSide(q) = q.side
    BY <2>2 DEF HostSide, ClientSide, ClientTurned, Applying
  <2>6. /\ \A x \in Records("host") : x.id \in removed
             \/ \E q \in Records("client") : x.id = q.id /\ q.side = Opposite(x.side)
        /\ \A q \in Records("client") : q.id \in removed
             \/ \E x \in Records("host") : x.id = q.id /\ q.side = Opposite(x.side)
    BY <2>1, <2>4, <2>5, NothingComing DEF FilesAgree, Undisturbed, Mirrored
  <2>7. CASE m = "host" /\ n = "client"
    BY <2>6, <2>7
  <2>8. CASE m = "client" /\ n = "host"
    <3>1. PICK x \in Records("host") : x.id = p.id /\ p.side = Opposite(x.side)
      BY <2>6, <2>8
    <3>2. x.side \in Placements
      BY <2>1, StoredIs, RecFields, JobNames
    <3>3. Opposite(p.side) = x.side
      BY <3>1, <3>2, Opposites
    <3> QED BY <2>8, <3>1, <3>3
  <2> QED BY <2>7, <2>8, JobNames
<1> QED BY <1>1, InvHolds, PTL

\* A host's file that is replaced has a peer in another place only when the
\* client's has it in the opposite one.
LEMMA HostRenames ==
  ASSUME SetupInv, NEW j \in Jobs, Rename(j), On(j) = "host", Intact',
         NEW p \in Records("host"), NEW q \in Records("host")', NEW r \in Records("client")',
         p.id = q.id, q.id = r.id, p.side # q.side
  PROVE  r.side = Opposite(q.side)
<1> DEFINE R == Records("host")
           S == Recs(job[j].cfg)
<1>0. /\ Typing /\ Fresh /\ Pairings /\ ClientFirst
      /\ "host" \in Machines /\ "client" \in Machines /\ "write" \in Saving
  BY JobNames DEF SetupInv, Saving
<1>1. /\ job[j].pc = "write" /\ file'["client"] = file["client"]
      /\ torn'["client"] = torn["client"]
      /\ torn'["host"] = (torn["host"] \/ j \in behind)
      /\ Parse(file'["host"]) = job[j].cfg
  BY <1>0, RenameIs
<1>2. ~torn["client"] /\ ~torn["host"] /\ j \notin behind
  BY <1>0, <1>1 DEF Intact
<1>3. Change(j, R, S)
  BY <1>0, <1>1, <1>2 DEF Fresh, Holds
<1>4. q \in S /\ r \in Records("client")
  BY <1>1 DEF Records, Stored, Recs
<1>5. R \subseteq PeerRecs /\ \A o, x \in R : o.id = x.id => o = x
  BY <1>0, StoredIs
<1>6. p \in R
  OBVIOUS
<1> HIDE DEF R, S
<1>7. CASE j = "apply"
  <2>1. S = Placed(R, job[j].id, job[j].side)
    BY <1>0, <1>1, <1>3, <1>7 DEF Change
  <2>2. q \in Placed(R, job[j].id, job[j].side)
    BY <1>4, <2>1
  <2>3. PICK o \in R : q.id = o.id /\ q.side = IF o.id = job[j].id THEN job[j].side ELSE o.side
    BY <1>5, <2>2, PlacedIs
  <2>4. q.id = job[j].id /\ q.side = job[j].side
    BY <1>5, <1>6, <2>3
  <2>5. ClientTurned
    BY <1>0, <1>1, <1>7 DEF ClientTurned
  <2> QED BY <1>0, <1>2, <1>4, <1>7, <2>4, <2>5 DEF ClientFirst
<1>8. CASE j = "pairHost"
  <2>1. PICK new \in S : new.id = made /\ S = Joined(R, new)
    BY <1>0, <1>1, <1>3, <1>8 DEF Change
  <2>2. p.id # made
    BY <1>0, <1>1, <1>6, <1>8 DEF Pairings, HostPending, Unknown, R
  <2>3. q \in R
    BY <1>4, <2>1, <2>2 DEF Joined
  <2> QED BY <1>5, <1>6, <2>3
<1>9. CASE j = "hostSession"
  <2>1. SameBut(R, S, job[j].id)
    BY <1>0, <1>1, <1>3, <1>9 DEF Change
  <2>2. PICK o \in R : o.id = q.id /\ o.side = q.side
    BY <1>4, <2>1 DEF SameBut
  <2> QED BY <1>5, <1>6, <2>2
<1>10. CASE j = "hostEdit"
  <2>1. S = R \/ \E i \in removed : S = Without(R, i)
    BY <1>0, <1>1, <1>3, <1>10 DEF Change
  <2>2. q \in R
    BY <1>4, <2>1 DEF Without
  <2> QED BY <1>5, <1>6, <2>2
<1> QED BY <1>7, <1>8, <1>9, <1>10 DEF On, Jobs

\* "The remote side saves first and acknowledges; only then is the local config
\* committed" (src/main.rs:1083): whatever connection is lost.
THEOREM CommitsAfterClient == Spec => CommitAfterClient
<1> DEFINE A == file'["host"] # file["host"] /\ Intact' =>
                  \A p \in Records("host"), q \in Records("host")', r \in Records("client")' :
                    p.id = q.id /\ q.id = r.id /\ p.side # q.side => r.side = Opposite(q.side)
<1>1. SetupInv /\ [Next]_vars => [A]_vars
  <2> SUFFICES ASSUME SetupInv, Next, file'["host"] # file["host"], Intact',
                      NEW p \in Records("host"), NEW q \in Records("host")',
                      NEW r \in Records("client")',
                      p.id = q.id, q.id = r.id, p.side # q.side
               PROVE  r.side = Opposite(q.side)
    BY Zenon
  <2>1. Typing /\ IdsMade /\ Pairings /\ Exchange /\ ChosenThere
    BY DEF SetupInv
  <2>2. \/ file' = file
        \/ \E j \in Jobs : Rename(j)
    <3>1. CASE Quits
      BY <3>1 DEF Quits, QuitRest
    <3>2. CASE Works
      <4>1. ASSUME NEW j \in Jobs, Creates(j) PROVE file' = file
        BY <4>1 DEF Creates
      <4>2. ASSUME NEW j \in Jobs, Moves(j) PROVE file' = file
        BY <4>2 DEF Moves
      <4>3. ASSUME NEW at \in Addresses, NEW keep \in BOOLEAN, Grant(at, keep) PROVE file' = file
        BY <2>1, <4>3, GrantIs
      <4>4. TakeGrant => file' = file
        BY <2>1, TakeGrantIs
      <4> QED BY <2>1, <3>2, <4>1, <4>2, <4>3, <4>4, WorksAre
    <3> QED BY <2>1, <3>1, <3>2, Steps
  <2>3. PICK j \in Jobs : Rename(j)
    BY <2>2
  <2>4. On(j) = "host"
    <3>1. On(j) # "host" => file'["host"] = file["host"]
      BY <2>1, <2>3, RenameIs, JobNames
    <3> QED BY <3>1
  <2> QED BY <2>3, <2>4, HostRenames
<1>2. Spec => [][A]_vars
  <2> HIDE DEF A
  <2> QED BY <1>1, InvHolds, PTL DEF Spec
<1> QED BY <1>2 DEF CommitAfterClient
==============================================================================
