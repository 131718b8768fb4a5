----------------------------- MODULE LoopsProofs -----------------------------
(***************************************************************************)
(* Lemmas about the loops of Loops, FlattenSeq and the prefixes of a list, *)
(* for any lists: each is an induction over the places of the list.        *)
(***************************************************************************)
EXTENDS Loops, Integers, SequencesExt, SequenceTheorems, WellFoundedInduction, TLAPS

\* The principle of induction for a set of numbers: prove about a set {n \in Nat : P(n)}.
LEMMA SetInduction ==
  ASSUME NEW S, 0 \in S, \A n \in Nat : n \in S => n + 1 \in S
  PROVE  Nat \subseteq S
<1> DEFINE T == Nat \ S
           R == OpToRel(<, Nat)
<1>1. SUFFICES ASSUME T # {} PROVE FALSE
  OBVIOUS
<1>2. IsWellFoundedOn(R, Nat)
  BY NatLessThanWellFounded
<1>3. T \subseteq Nat
  OBVIOUS
<1>4. \A x, y \in Nat : x < y => <<x, y>> \in R
  BY DEF OpToRel
<1> HIDE DEF R, T
<1>5. PICK x \in T : \A y \in T : ~(<<y, x>> \in R)
  BY <1>1, <1>2, <1>3, WFMin
<1> USE DEF T
<1>6. x # 0 /\ x \in Nat
  OBVIOUS
<1>7. x - 1 \in Nat /\ x - 1 < x /\ x - 1 \notin S
  BY <1>6
<1> QED
  BY <1>4, <1>5, <1>6, <1>7

\* What Pick has after each place.
Picked(seq, places) ==
  CHOOSE picked : picked = [n \in 0 .. Len(seq) |->
    IF n = 0 THEN <<>>
    ELSE IF n \in places THEN Append(picked[n - 1], seq[n]) ELSE picked[n - 1]]

\* Pick is what its function has at the last place.
LEMMA PickIs == ASSUME NEW seq, NEW places PROVE Pick(seq, places) = Picked(seq, places)[Len(seq)]
  BY DEF Pick, Picked

\* The function of Pick exists, step by step.
LEMMA PickedStep ==
  ASSUME NEW S, NEW seq \in Seq(S), NEW places
  PROVE  /\ Picked(seq, places)[0] = <<>>
         /\ \A n \in 1 .. Len(seq) :
              Picked(seq, places)[n] = IF n \in places THEN Append(Picked(seq, places)[n - 1], seq[n])
                                       ELSE Picked(seq, places)[n - 1]
<1> DEFINE Solves(f, m) == f = [n \in 0 .. m |->
              IF n = 0 THEN <<>> ELSE IF n \in places THEN Append(f[n - 1], seq[n]) ELSE f[n - 1]]
           T == {m \in Nat : \E f : Solves(f, m)}
<1>1. Nat \subseteq T
  <2>1. 0 \in T
    <3>1. Solves([n \in 0 .. 0 |-> <<>>], 0)
      OBVIOUS
    <3> QED
      BY <3>1
  <2>2. ASSUME NEW m \in Nat, m \in T PROVE m + 1 \in T
    <3>1. PICK f : Solves(f, m)
      BY <2>2
    <3> DEFINE next == IF m + 1 \in places THEN Append(f[m], seq[m + 1]) ELSE f[m]
               g == [n \in 0 .. m + 1 |-> IF n = m + 1 THEN next ELSE f[n]]
    <3>2. \A n \in 0 .. m : f[n] =
            IF n = 0 THEN <<>> ELSE IF n \in places THEN Append(f[n - 1], seq[n]) ELSE f[n - 1]
      BY <3>1
    <3>3. \A n \in 0 .. m : g[n] = f[n]
      OBVIOUS
    <3>4. g[m + 1] = next
      OBVIOUS
    <3>5. \A n \in 0 .. m + 1 : g[n] =
            IF n = 0 THEN <<>> ELSE IF n \in places THEN Append(g[n - 1], seq[n]) ELSE g[n - 1]
      <4> SUFFICES ASSUME NEW n \in 0 .. m + 1
                   PROVE  g[n] = IF n = 0 THEN <<>>
                                 ELSE IF n \in places THEN Append(g[n - 1], seq[n]) ELSE g[n - 1]
        OBVIOUS
      <4>1. CASE n = m + 1
        <5>1. g[n - 1] = f[m] /\ n # 0 /\ n = m + 1
          BY <3>3, <4>1
        <5> HIDE DEF g
        <5> QED
          BY <3>4, <4>1, <5>1
      <4>2. CASE n # m + 1
        <5>1. n \in 0 .. m /\ (n # 0 => n - 1 \in 0 .. m)
          BY <4>2
        <5>2. g[n] = f[n] /\ (n # 0 => g[n - 1] = f[n - 1])
          BY <3>3, <5>1
        <5> HIDE DEF g
        <5> QED
          BY <3>2, <5>1, <5>2
      <4> QED
        BY <4>1, <4>2
    <3>6. DOMAIN g = 0 .. m + 1 /\ g = [n \in DOMAIN g |-> g[n]]
      OBVIOUS
    <3> HIDE DEF g
    <3>7. Solves(g, m + 1)
      <4>1. g = [n \in 0 .. m + 1 |-> g[n]]
        BY <3>6
      <4>2. [n \in 0 .. m + 1 |-> g[n]] = [n \in 0 .. m + 1 |-> IF n = 0 THEN <<>>
                ELSE IF n \in places THEN Append(g[n - 1], seq[n]) ELSE g[n - 1]]
        BY <3>5
      <4> QED
        BY <4>1, <4>2
    <3>8. m + 1 \in Nat
      OBVIOUS
    <3> HIDE DEF Solves
    <3> QED
      BY <3>7, <3>8
  <2> HIDE DEF T
  <2> QED
    BY <2>1, <2>2, SetInduction
<1>2. Len(seq) \in Nat
  OBVIOUS
<1>3. \E f : Solves(f, Len(seq))
  BY <1>1, <1>2
<1>4. Solves(Picked(seq, places), Len(seq))
  BY <1>3, Zenon DEF Picked
<1> DEFINE h == Picked(seq, places)
<1>5. h = [n \in 0 .. Len(seq) |->
              IF n = 0 THEN <<>> ELSE IF n \in places THEN Append(h[n - 1], seq[n]) ELSE h[n - 1]]
  BY <1>4
<1> HIDE DEF h
<1>6. \A n \in 0 .. Len(seq) : h[n] =
              IF n = 0 THEN <<>> ELSE IF n \in places THEN Append(h[n - 1], seq[n]) ELSE h[n - 1]
  BY <1>5
<1>7. \A n \in 1 .. Len(seq) : n \in 0 .. Len(seq) /\ n # 0
  BY <1>2
<1> QED
  BY <1>2, <1>6, <1>7 DEF h

\* A sequence has the elements of another that are at some places, in their order.
IsPicked(out, seq, places, f) ==
  /\ f \in [1 .. Len(out) -> places]
  /\ \A i \in 1 .. Len(out) : out[i] = seq[f[i]]
  /\ \A i, j \in 1 .. Len(out) : i < j => f[i] < f[j]
  /\ \A k \in places : \E i \in 1 .. Len(out) : f[i] = k

\* Pick has the elements at the places, each once and in order.
LEMMA PickProperties ==
  ASSUME NEW S, NEW seq \in Seq(S), NEW places \in SUBSET (1 .. Len(seq))
  PROVE  /\ Pick(seq, places) \in Seq(S)
         /\ \E f : IsPicked(Pick(seq, places), seq, places, f)
<1> DEFINE P(n) == Picked(seq, places)[n]
           Numbers(n, f) ==
             /\ P(n) \in Seq(S)
             /\ f \in [1 .. Len(P(n)) -> places]
             /\ \A i \in 1 .. Len(P(n)) : P(n)[i] = seq[f[i]] /\ f[i] <= n
             /\ \A i, j \in 1 .. Len(P(n)) : i < j => f[i] < f[j]
             /\ \A k \in places : k <= n => \E i \in 1 .. Len(P(n)) : f[i] = k
           T == {n \in Nat : n <= Len(seq) => \E f : Numbers(n, f)}
<1>a. /\ P(0) = <<>>
      /\ \A n \in 1 .. Len(seq) : P(n) = IF n \in places THEN Append(P(n - 1), seq[n]) ELSE P(n - 1)
  BY PickedStep
<1>b. /\ Len(seq) \in Nat /\ \A n \in 1 .. Len(seq) : seq[n] \in S
      /\ \A k \in places : k \in Nat /\ k <= Len(seq)
  OBVIOUS
<1>c. \A s \in Seq(S) : \A e \in S :
        /\ Append(s, e) \in Seq(S) /\ Len(Append(s, e)) = Len(s) + 1
        /\ \A i \in 1 .. Len(s) : Append(s, e)[i] = s[i]
        /\ Append(s, e)[Len(s) + 1] = e
  BY AppendProperties
<1>1. 0 \in T
  <2>1. Numbers(0, <<>>)
    BY <1>a, <1>b
  <2> HIDE DEF Numbers
  <2> QED
    BY <2>1
<1>2. ASSUME NEW n \in Nat, n \in T PROVE n + 1 \in T
  <2> SUFFICES ASSUME n + 1 <= Len(seq) PROVE \E f : Numbers(n + 1, f)
    BY DEF T
  <2>1. PICK f : Numbers(n, f)
    BY <1>2, <1>b
  <2>2. n + 1 \in 1 .. Len(seq) /\ (n + 1) - 1 = n
    BY <1>b
  <2>3. CASE n + 1 \in places
    <3> DEFINE len == Len(P(n))
               g == [i \in 1 .. len + 1 |-> IF i = len + 1 THEN n + 1 ELSE f[i]]
    <3>1. P(n + 1) = Append(P(n), seq[n + 1])
      BY <1>a, <2>2, <2>3
    <3>2. len \in Nat /\ P(n) \in Seq(S) /\ seq[n + 1] \in S
      BY <1>b, <2>1, <2>2
    <3>3. /\ P(n + 1) \in Seq(S) /\ Len(P(n + 1)) = len + 1
          /\ \A i \in 1 .. len : P(n + 1)[i] = P(n)[i]
          /\ P(n + 1)[len + 1] = seq[n + 1]
      <4>1. Len(P(n)) = len
        OBVIOUS
      <4> HIDE DEF P, len
      <4>2. P(n) \in Seq(S) /\ seq[n + 1] \in S
        BY <3>2
      <4>3. /\ Append(P(n), seq[n + 1]) \in Seq(S) /\ Len(Append(P(n), seq[n + 1])) = len + 1
            /\ \A i \in 1 .. len : Append(P(n), seq[n + 1])[i] = P(n)[i]
            /\ Append(P(n), seq[n + 1])[len + 1] = seq[n + 1]
        BY <4>1, <4>2, AppendProperties
      <4> QED
        BY <3>1, <4>3
    <3>4. /\ g \in [1 .. len + 1 -> places] /\ g[len + 1] = n + 1
          /\ \A i \in 1 .. len : g[i] = f[i]
      BY <2>1, <2>3, <3>2
    <3> HIDE DEF g
    <3>5. \A i \in 1 .. len : f[i] <= n /\ f[i] \in places /\ f[i] \in Nat /\ P(n)[i] = seq[f[i]]
      <4>1. \A i \in 1 .. len : f[i] <= n /\ f[i] \in places /\ P(n)[i] = seq[f[i]]
        BY <2>1
      <4> HIDE DEF P, len
      <4> QED
        BY <1>b, <4>1
    <3>6. \A i, j \in 1 .. len : i < j => f[i] < f[j]
      BY <2>1
    <3>7. \A k \in places : k <= n => \E i \in 1 .. len : f[i] = k
      BY <2>1
    <3> HIDE DEF P, len
    <3>8. Numbers(n + 1, g)
      <4>1. \A i \in 1 .. len + 1 : P(n + 1)[i] = seq[g[i]] /\ g[i] <= n + 1
        <5> SUFFICES ASSUME NEW i \in 1 .. len + 1 PROVE P(n + 1)[i] = seq[g[i]] /\ g[i] <= n + 1
          OBVIOUS
        <5>1. i = len + 1 \/ i \in 1 .. len
          BY <3>2
        <5> QED
          BY <3>3, <3>4, <3>5, <5>1
      <4>2. \A i, j \in 1 .. len + 1 : i < j => g[i] < g[j]
        <5> SUFFICES ASSUME NEW i \in 1 .. len + 1, NEW j \in 1 .. len + 1, i < j PROVE g[i] < g[j]
          OBVIOUS
        <5>1. i \in 1 .. len /\ (j = len + 1 \/ j \in 1 .. len)
          BY <3>2
        <5> QED
          BY <3>4, <3>5, <3>6, <5>1
      <4>3. ASSUME NEW k \in places, k <= n + 1 PROVE \E i \in 1 .. len + 1 : g[i] = k
        <5>1. CASE k = n + 1
          BY <3>2, <3>4, <5>1
        <5>2. CASE k # n + 1
          <6>1. k <= n
            BY <4>3, <5>2, <1>b
          <6>2. PICK i \in 1 .. len : f[i] = k
            BY <3>7, <6>1
          <6>3. i \in 1 .. len + 1
            BY <3>2
          <6> QED
            BY <3>4, <6>2, <6>3
        <5> QED
          BY <5>1, <5>2
      <4> QED
        BY <3>3, <3>4, <4>1, <4>2, <4>3
    <3> HIDE DEF Numbers
    <3> QED
      BY <3>8
  <2>4. CASE n + 1 \notin places
    <3>1. P(n + 1) = P(n)
      BY <1>a, <2>2, <2>4
    <3>2. \A k \in places : k <= n + 1 => k <= n
      BY <1>b, <2>4
    <3>3. \A i \in 1 .. Len(P(n)) : f[i] <= n + 1
      <4>1. \A i \in 1 .. Len(P(n)) : f[i] <= n /\ f[i] \in places
        BY <2>1
      <4>2. \A i \in 1 .. Len(P(n)) : f[i] \in Nat
        BY <1>b, <4>1
      <4> QED
        BY <4>1, <4>2
    <3> HIDE DEF P
    <3>4. Numbers(n + 1, f)
      BY <2>1, <3>1, <3>2, <3>3
    <3> HIDE DEF Numbers
    <3> QED
      BY <3>4
  <2> QED
    BY <2>3, <2>4
<1>3. Len(seq) \in T
  <2> HIDE DEF T
  <2> QED
    BY <1>1, <1>2, <1>b, SetInduction
<1>4. PICK f : Numbers(Len(seq), f)
  BY <1>3, <1>b
<1>5. Pick(seq, places) = P(Len(seq))
  BY PickIs
<1>6. \A k \in places : k <= Len(seq)
  BY <1>b
<1> HIDE DEF P
<1>7. IsPicked(P(Len(seq)), seq, places, f) /\ P(Len(seq)) \in Seq(S)
  BY <1>4, <1>6 DEF IsPicked
<1> QED
  BY <1>5, <1>7

\* A set of numbers that is not empty has a least one.
LEMMA LeastNumber ==
  ASSUME NEW T \in SUBSET Nat, T # {}
  PROVE  \E m \in T : \A k \in T : m <= k
<1> DEFINE R == OpToRel(<, Nat)
<1>1. IsWellFoundedOn(R, Nat)
  BY NatLessThanWellFounded
<1>2. \A x, y \in Nat : x < y => <<x, y>> \in R
  BY DEF OpToRel
<1> HIDE DEF R
<1>3. PICK m \in T : \A k \in T : ~(<<k, m>> \in R)
  BY <1>1, WFMin
<1>4. \A k \in T : m <= k
  <2> SUFFICES ASSUME NEW k \in T PROVE m <= k
    OBVIOUS
  <2>1. k \in Nat /\ m \in Nat /\ ~(k < m)
    BY <1>2, <1>3
  <2> QED
    BY <2>1
<1> QED
  BY <1>4

\* A sequence has elements of another, every key of them, and no key twice.
OnePerKey(out, seq, keys) ==
  /\ \A i \in 1 .. Len(out) : \E k \in 1 .. Len(seq) : out[i] = seq[k]
  /\ \A k \in 1 .. Len(seq) : \E i \in 1 .. Len(out), m \in 1 .. Len(seq) : out[i] = seq[m] /\ keys[m] = keys[k]
  /\ \A i, j \in 1 .. Len(out) : i # j =>
       \E m, n \in 1 .. Len(seq) : out[i] = seq[m] /\ out[j] = seq[n] /\ keys[m] # keys[n]

\* Picking the first place of each key gives one element per key.
LEMMA FirstPlaces ==
  ASSUME NEW S, NEW seq \in Seq(S), NEW keys, NEW places \in SUBSET (1 .. Len(seq)),
         \A i \in 1 .. Len(seq) : i \in places <=> \A j \in 1 .. i - 1 : keys[j] # keys[i]
  PROVE  Pick(seq, places) \in Seq(S) /\ OnePerKey(Pick(seq, places), seq, keys)
<1> DEFINE out == Pick(seq, places)
<1>a. /\ Len(seq) \in Nat /\ DOMAIN seq = 1 .. Len(seq) /\ places \in SUBSET (1 .. Len(seq))
      /\ \A i \in places : \A j \in 1 .. i - 1 : keys[j] # keys[i]
  OBVIOUS
<1>1. out \in Seq(S)
  BY PickProperties
<1>2. PICK f : IsPicked(out, seq, places, f)
  BY PickProperties
<1>z. /\ f \in [1 .. Len(out) -> places]
      /\ \A i \in 1 .. Len(out) : out[i] = seq[f[i]]
      /\ \A i, j \in 1 .. Len(out) : i < j => f[i] < f[j]
      /\ \A k \in places : \E i \in 1 .. Len(out) : f[i] = k
  BY <1>2 DEF IsPicked
<1> HIDE DEF out
<1>b. Len(out) \in Nat
  BY <1>1
<1>3. f \in [1 .. Len(out) -> 1 .. Len(seq)]
  <2>1. places \subseteq 1 .. Len(seq)
    BY <1>a
  <2>2. \A i \in 1 .. Len(out) : f[i] \in 1 .. Len(seq)
    BY <1>z, <2>1
  <2> QED
    BY <1>z, <2>2
<1>4. ASSUME NEW i \in 1 .. Len(out), NEW j \in 1 .. Len(out), keys[f[i]] = keys[f[j]] PROVE i = j
  <2>1. \A x, y \in 1 .. Len(out) : x < y => keys[f[x]] # keys[f[y]]
    <3> SUFFICES ASSUME NEW x \in 1 .. Len(out), NEW y \in 1 .. Len(out), x < y
                 PROVE  keys[f[x]] # keys[f[y]]
      OBVIOUS
    <3>1. f[x] < f[y] /\ f[x] \in places /\ f[y] \in places
      BY <1>z
    <3>2. f[x] \in 1 .. Len(seq) /\ f[y] \in 1 .. Len(seq)
      BY <1>3
    <3>3. f[x] \in 1 .. f[y] - 1
      BY <1>a, <3>1, <3>2
    <3> QED
      BY <1>a, <3>1, <3>3
  <2> QED
    BY <1>b, <1>4, <2>1
<1>5. ASSUME NEW k \in 1 .. Len(seq) PROVE \E i \in 1 .. Len(out) : keys[f[i]] = keys[k]
  <2> DEFINE Same == {j \in 1 .. Len(seq) : keys[j] = keys[k]}
  <2>1. Same \subseteq Nat /\ Same # {}
    BY <1>a
  <2>2. PICK m \in Same : \A j \in Same : m <= j
    <3> HIDE DEF Same
    <3> QED
      BY <2>1, LeastNumber
  <2>3. m \in 1 .. Len(seq) /\ keys[m] = keys[k]
    OBVIOUS
  <2>4. \A j \in 1 .. m - 1 : keys[j] # keys[m]
    <3> SUFFICES ASSUME NEW j \in 1 .. m - 1, keys[j] = keys[m] PROVE FALSE
      OBVIOUS
    <3>1. j \in Same /\ j < m
      BY <1>a, <2>3
    <3> HIDE DEF Same
    <3> QED
      BY <1>a, <2>2, <2>3, <3>1
  <2>5. m \in places
    BY <1>a, <2>3, <2>4
  <2> HIDE DEF Same
  <2> QED
    BY <1>z, <2>3, <2>5
<1>6. \A i \in 1 .. Len(out) : f[i] \in 1 .. Len(seq)
  BY <1>3
<1>7. \A i \in 1 .. Len(out) : \E k \in 1 .. Len(seq) : out[i] = seq[k]
  BY <1>z, <1>6
<1>8. ASSUME NEW k \in 1 .. Len(seq)
      PROVE  \E i \in 1 .. Len(out), m \in 1 .. Len(seq) : out[i] = seq[m] /\ keys[m] = keys[k]
  <2>1. PICK i \in 1 .. Len(out) : keys[f[i]] = keys[k]
    BY <1>5
  <2>2. f[i] \in 1 .. Len(seq) /\ out[i] = seq[f[i]]
    BY <1>z, <1>6
  <2> QED
    BY <2>1, <2>2
<1>9. ASSUME NEW i \in 1 .. Len(out), NEW j \in 1 .. Len(out), i # j
      PROVE  \E m, n \in 1 .. Len(seq) : out[i] = seq[m] /\ out[j] = seq[n] /\ keys[m] # keys[n]
  <2>1. f[i] \in 1 .. Len(seq) /\ f[j] \in 1 .. Len(seq) /\ out[i] = seq[f[i]] /\ out[j] = seq[f[j]]
    BY <1>z, <1>6
  <2>2. keys[f[i]] # keys[f[j]]
    BY <1>4, <1>9
  <2> QED
    BY <2>1, <2>2
<1> QED
  BY <1>1, <1>7, <1>8, <1>9 DEF out, OnePerKey

\* The states a loop of N rounds goes through.
IsLoop(f, D, start, N, step) ==
  /\ f \in [0 .. N -> D] /\ f[0] = start
  /\ \A n \in 1 .. N : f[n] = step[<<n, f[n - 1]>>]

\* Whatever a round does with its number and the state, there is such a loop.
LEMMA Recursion ==
  ASSUME NEW D, NEW start \in D, NEW N \in Nat, NEW step \in [(1 .. N) \X D -> D]
  PROVE  \E f : IsLoop(f, D, start, N, step)
<1> DEFINE Solves(f, m) == f \in [0 .. m -> D] /\ f[0] = start /\ \A n \in 1 .. m : f[n] = step[<<n, f[n - 1]>>]
           T == {m \in Nat : m <= N => \E f : Solves(f, m)}
<1>1. 0 \in T
  <2> DEFINE g == [n \in 0 .. 0 |-> start]
  <2>1. Solves(g, 0)
    OBVIOUS
  <2> HIDE DEF Solves, g
  <2> QED
    BY <2>1
<1>2. ASSUME NEW m \in Nat, m \in T PROVE m + 1 \in T
  <2> SUFFICES ASSUME m + 1 <= N PROVE \E f : Solves(f, m + 1)
    OBVIOUS
  <2>1. PICK f : Solves(f, m)
    BY <1>2
  <2> DEFINE next == step[<<m + 1, f[m]>>]
             g == [n \in 0 .. m + 1 |-> IF n = m + 1 THEN next ELSE f[n]]
  <2>2. f[m] \in D /\ m + 1 \in 1 .. N
    BY <2>1
  <2>3. next \in D
    BY <2>2
  <2>4. \A n \in 0 .. m : f[n] \in D
    BY <2>1
  <2>5. \A n \in 1 .. m : f[n] = step[<<n, f[n - 1]>>]
    BY <2>1
  <2>6. f[0] = start
    BY <2>1
  <2>7. /\ g \in [0 .. m + 1 -> D] /\ g[m + 1] = next
        /\ \A n \in 0 .. m : g[n] = f[n]
    <3> HIDE DEF next
    <3> QED
      BY <2>3, <2>4
  <2> HIDE DEF g
  <2>8. ASSUME NEW n \in 1 .. m + 1 PROVE g[n] = step[<<n, g[n - 1]>>]
    <3>1. CASE n = m + 1
      <4>1. g[n - 1] = f[m]
        BY <2>7, <3>1
      <4> QED
        BY <2>7, <3>1, <4>1
    <3>2. CASE n # m + 1
      <4>1. n \in 1 .. m /\ n - 1 \in 0 .. m /\ n \in 0 .. m
        BY <3>2
      <4> QED
        BY <2>5, <2>7, <4>1
    <3> QED
      BY <3>1, <3>2
  <2>9. Solves(g, m + 1)
    BY <2>6, <2>7, <2>8
  <2> HIDE DEF Solves
  <2> QED
    BY <2>9
<1>3. N \in T
  <2> HIDE DEF T
  <2> QED
    BY <1>1, <1>2, SetInduction
<1>4. PICK f : Solves(f, N)
  BY <1>3
<1>5. IsLoop(f, D, start, N, step)
  BY <1>4 DEF IsLoop
<1> QED
  BY <1>5

\* What FlattenSeq has after each sequence.
Flattened(seqs) ==
  CHOOSE flatten : flatten = [i \in 1 .. Len(seqs) |-> IF i = 1 THEN seqs[i] ELSE flatten[i - 1] \o seqs[i]]

\* The same for the fold that FlattenSeq is.
LEMMA FlattenIs ==
  ASSUME NEW seqs PROVE FlattenSeq(seqs) = IF Len(seqs) = 0 THEN seqs ELSE Flattened(seqs)[Len(seqs)]
  BY DEF FlattenSeq, Flattened

\* It is a concatenation at each step.
LEMMA FlattenedStep ==
  ASSUME NEW S, NEW seqs \in Seq(Seq(S)), Len(seqs) # 0
  PROVE  /\ Flattened(seqs)[1] = seqs[1]
         /\ \A n \in 2 .. Len(seqs) : Flattened(seqs)[n] = Flattened(seqs)[n - 1] \o seqs[n]
         /\ \A n \in 1 .. Len(seqs) : Flattened(seqs)[n] \in Seq(S)
<1> DEFINE N == Len(seqs)
           Solves(f) == f = [i \in 1 .. N |-> IF i = 1 THEN seqs[i] ELSE f[i - 1] \o seqs[i]]
<1>0. N \in Nat /\ N # 0 /\ \A n \in 1 .. N : seqs[n] \in Seq(S)
  OBVIOUS
<1> HIDE DEF N
<1>1. \E f : Solves(f)
  <2> DEFINE step == [x \in (1 .. N) \X Seq(S) |-> x[2] \o seqs[x[1]]]
  <2>1. N \in Nat /\ N # 0 /\ <<>> \in Seq(S) /\ \A n \in 1 .. N : seqs[n] \in Seq(S)
    BY <1>0
  <2>2. step \in [(1 .. N) \X Seq(S) -> Seq(S)]
    BY <2>1
  <2> HIDE DEF step
  <2>a. PICK g : IsLoop(g, Seq(S), <<>>, N, step)
    BY <2>1, <2>2, Recursion
  <2>3. g \in [0 .. N -> Seq(S)] /\ g[0] = <<>> /\ \A n \in 1 .. N : g[n] = step[<<n, g[n - 1]>>]
    BY <2>a DEF IsLoop
  <2>4. \A n \in 1 .. N : g[n - 1] \in Seq(S) /\ g[n] \in Seq(S)
    <3>1. \A n \in 0 .. N : g[n] \in Seq(S)
      BY <2>3
    <3>2. \A n \in 1 .. N : n - 1 \in 0 .. N /\ n \in 0 .. N
      BY <2>1
    <3> QED
      BY <3>1, <3>2
  <2>5. \A n \in 1 .. N : g[n] = g[n - 1] \o seqs[n]
    BY <2>1, <2>3, <2>4 DEF step
  <2>6. N # 0 => g[1] = seqs[1]
    <3> SUFFICES ASSUME N # 0 PROVE g[1] = seqs[1]
      OBVIOUS
    <3>0. 1 \in 1 .. N /\ 1 - 1 = 0
      BY <2>1
    <3>1. g[1] = g[0] \o seqs[1] /\ seqs[1] \in Seq(S)
      BY <2>1, <2>5, <3>0
    <3> QED
      BY <2>3, <3>1, ConcatEmptySeq
  <2> DEFINE f == [n \in 1 .. N |-> g[n]]
  <2>7. \A n \in 1 .. N : f[n] = IF n = 1 THEN seqs[n] ELSE f[n - 1] \o seqs[n]
    <3> SUFFICES ASSUME NEW n \in 1 .. N PROVE f[n] = IF n = 1 THEN seqs[n] ELSE f[n - 1] \o seqs[n]
      OBVIOUS
    <3>1. CASE n = 1
      BY <2>1, <2>6, <3>1
    <3>2. CASE n # 1
      <4>1. n - 1 \in 1 .. N
        BY <2>1, <3>2
      <4> QED
        BY <2>5, <3>2, <4>1
    <3> QED
      BY <3>1, <3>2
  <2>8. f = [n \in 1 .. N |-> f[n]]
    OBVIOUS
  <2> HIDE DEF f, N
  <2>9. Solves(f)
    BY <2>7, <2>8
  <2> HIDE DEF Solves
  <2> QED
    BY <2>9
<1>2. Solves(Flattened(seqs))
  BY <1>1, Zenon DEF Flattened, N
<1> DEFINE h == Flattened(seqs)
<1>3. h = [i \in 1 .. N |-> IF i = 1 THEN seqs[i] ELSE h[i - 1] \o seqs[i]]
  BY <1>2
<1> HIDE DEF h
<1>4. \A i \in 1 .. N : h[i] = IF i = 1 THEN seqs[i] ELSE h[i - 1] \o seqs[i]
  BY <1>3
<1>5. N \in Nat /\ N # 0 /\ \A n \in 1 .. N : seqs[n] \in Seq(S)
  BY <1>0
<1>6. h[1] = seqs[1]
  BY <1>4, <1>5
<1>7. ASSUME NEW n \in 2 .. N PROVE h[n] = h[n - 1] \o seqs[n]
  <2>1. n \in 1 .. N /\ n # 1
    BY <1>5
  <2> QED
    BY <1>4, <2>1
<1>8. \A n \in 1 .. N : h[n] \in Seq(S)
  <2> DEFINE T == {n \in Nat : n + 1 <= N => h[n + 1] \in Seq(S)}
  <2>1. 0 \in T
    BY <1>5, <1>6
  <2>2. ASSUME NEW n \in Nat, n \in T PROVE n + 1 \in T
    <3> SUFFICES ASSUME n + 2 <= N PROVE h[n + 2] \in Seq(S)
      OBVIOUS
    <3>1. n + 2 \in 2 .. N /\ (n + 2) - 1 = n + 1 /\ n + 2 \in 1 .. N /\ n + 1 <= N
      BY <1>5
    <3>2. h[n + 1] \in Seq(S)
      BY <2>2, <3>1
    <3>3. h[n + 2] = h[n + 1] \o seqs[n + 2] /\ seqs[n + 2] \in Seq(S)
      BY <1>5, <1>7, <3>1
    <3> QED
      BY <3>2, <3>3
  <2>3. Nat \subseteq T
    <3> HIDE DEF T
    <3> QED
      BY <2>1, <2>2, SetInduction
  <2> SUFFICES ASSUME NEW n \in 1 .. N PROVE h[n] \in Seq(S)
    OBVIOUS
  <2>4. n - 1 \in Nat /\ (n - 1) + 1 = n /\ n <= N
    BY <1>5
  <2>5. n - 1 \in T
    <3> HIDE DEF T
    <3> QED
      BY <2>3, <2>4
  <2> QED
    BY <2>4, <2>5
<1> QED
  BY <1>6, <1>7, <1>8 DEF h, N

\* FlattenSeq is the concatenation, from left to right.
LEMMA FlattenAppend ==
  ASSUME NEW S, NEW seqs \in Seq(Seq(S)), NEW s \in Seq(S)
  PROVE  FlattenSeq(Append(seqs, s)) = FlattenSeq(seqs) \o s
<1> DEFINE more == Append(seqs, s)
           N == Len(seqs)
           h == Flattened(seqs)
           g == Flattened(more)
<1>1. /\ N \in Nat /\ more \in Seq(Seq(S)) /\ Len(more) = N + 1
      /\ \A n \in 1 .. N : more[n] = seqs[n] /\ seqs[n] \in Seq(S)
      /\ more[N + 1] = s
  OBVIOUS
<1>2. /\ g[1] = more[1]
      /\ \A n \in 2 .. N + 1 : g[n] = g[n - 1] \o more[n]
  <2>1. Len(more) # 0 /\ Len(more) = N + 1 /\ more \in Seq(Seq(S))
    BY <1>1
  <2> HIDE DEF more, N
  <2> QED
    BY <2>1, FlattenedStep
<1>3. N # 0 => /\ h[1] = seqs[1]
               /\ \A n \in 2 .. N : h[n] = h[n - 1] \o seqs[n]
  BY FlattenedStep
<1>4. FlattenSeq(seqs) = IF N = 0 THEN seqs ELSE h[N]
  BY FlattenIs
<1>5. FlattenSeq(more) = g[N + 1]
  <2>1. N + 1 # 0 /\ Len(more) = N + 1
    BY <1>1
  <2> HIDE DEF more, N
  <2> QED
    BY <2>1, FlattenIs
<1> HIDE DEF more, h, g
<1>6. CASE N = 0
  <2>1. seqs = <<>> /\ FlattenSeq(seqs) = <<>>
    BY <1>4, <1>6
  <2>2. FlattenSeq(more) = s
    <3>1. N + 1 = 1
      BY <1>6
    <3> HIDE DEF N
    <3> QED
      BY <1>1, <1>2, <1>5, <3>1
  <2> QED
    BY <2>1, <2>2, ConcatEmptySeq DEF more
<1>7. CASE N # 0
  <2> HIDE DEF N
  <2> DEFINE T == {n \in Nat : n + 1 <= N => g[n + 1] = h[n + 1]}
  <2>1. 0 \in T
    <3>1. 1 \in 1 .. N
      BY <1>1, <1>7
    <3> QED
      BY <1>1, <1>2, <1>3, <1>7, <3>1
  <2>2. ASSUME NEW n \in Nat, n \in T PROVE n + 1 \in T
    <3> SUFFICES ASSUME n + 2 <= N PROVE g[n + 2] = h[n + 2]
      OBVIOUS
    <3>1. n + 2 \in 2 .. N /\ n + 2 \in 2 .. N + 1 /\ n + 2 \in 1 .. N /\ (n + 2) - 1 = n + 1 /\ n + 1 <= N
      BY <1>1
    <3>2. g[n + 1] = h[n + 1]
      BY <2>2, <3>1
    <3>3. g[n + 2] = g[n + 1] \o more[n + 2] /\ h[n + 2] = h[n + 1] \o seqs[n + 2]
      BY <1>2, <1>3, <1>7, <3>1
    <3> QED
      BY <1>1, <3>1, <3>2, <3>3
  <2>3. Nat \subseteq T
    <3> HIDE DEF T
    <3> QED
      BY <2>1, <2>2, SetInduction
  <2>4. N - 1 \in Nat /\ (N - 1) + 1 = N /\ N + 1 \in 2 .. N + 1 /\ (N + 1) - 1 = N
    BY <1>1, <1>7
  <2>5. g[N] = h[N]
    <3>1. N - 1 \in T
      <4> HIDE DEF T
      <4> QED
        BY <2>3, <2>4
    <3> QED
      BY <1>1, <2>4, <3>1
  <2>6. g[N + 1] = g[N] \o s
    BY <1>1, <1>2, <2>4
  <2> QED
    BY <1>4, <1>5, <1>7, <2>5, <2>6 DEF more
<1> QED
  BY <1>6, <1>7

Has(seq, x) == \E k \in 1 .. Len(seq) : seq[k] = x

\* The places of a concatenation.
LEMMA ConcatPlaces ==
  ASSUME NEW S, NEW a \in Seq(S), NEW b \in Seq(S)
  PROVE  /\ a \o b \in Seq(S) /\ Len(a) \in Nat /\ Len(b) \in Nat /\ Len(a \o b) = Len(a) + Len(b)
         /\ \A k \in 1 .. Len(a) : (a \o b)[k] = a[k]
         /\ \A k \in 1 .. Len(b) : (a \o b)[Len(a) + k] = b[k]
  OBVIOUS

\* The elements of a concatenation.
LEMMA ConcatElements ==
  ASSUME NEW S, NEW a \in Seq(S), NEW b \in Seq(S)
  PROVE  /\ a \o b \in Seq(S)
         /\ \A x : Has(a \o b, x) <=> Has(a, x) \/ Has(b, x)
<1> USE DEF Has
<1> SUFFICES ASSUME NEW x PROVE a \o b \in Seq(S) /\ (Has(a \o b, x) <=> Has(a, x) \/ Has(b, x))
  OBVIOUS
<1>1. /\ a \o b \in Seq(S) /\ Len(a) \in Nat /\ Len(b) \in Nat /\ Len(a \o b) = Len(a) + Len(b)
      /\ \A k \in 1 .. Len(a) : (a \o b)[k] = a[k]
      /\ \A k \in 1 .. Len(b) : (a \o b)[Len(a) + k] = b[k]
  BY ConcatPlaces
<1>2. ASSUME Has(a, x) PROVE Has(a \o b, x)
  <2>1. PICK k \in 1 .. Len(a) : a[k] = x
    BY <1>2
  <2>2. k \in 1 .. Len(a \o b) /\ (a \o b)[k] = x
    BY <1>1, <2>1
  <2> QED
    BY <2>2
<1>3. ASSUME Has(b, x) PROVE Has(a \o b, x)
  <2>1. PICK k \in 1 .. Len(b) : b[k] = x
    BY <1>3
  <2>2. Len(a) + k \in 1 .. Len(a \o b) /\ (a \o b)[Len(a) + k] = x
    BY <1>1, <2>1
  <2> QED
    BY <2>2
<1>4. ASSUME Has(a \o b, x) PROVE Has(a, x) \/ Has(b, x)
  <2>1. PICK k \in 1 .. Len(a \o b) : (a \o b)[k] = x
    BY <1>4
  <2>2. CASE k \in 1 .. Len(a)
    BY <1>1, <2>1, <2>2
  <2>3. CASE k \notin 1 .. Len(a)
    <3>1. k - Len(a) \in 1 .. Len(b) /\ Len(a) + (k - Len(a)) = k
      BY <1>1, <2>1, <2>3
    <3>2. b[k - Len(a)] = x
      BY <1>1, <2>1, <3>1
    <3> QED
      BY <3>1, <3>2
  <2> QED
    BY <2>2, <2>3
<1> HIDE DEF Has
<1> QED
  BY <1>1, <1>2, <1>3, <1>4

\* The elements of FlattenSeq are those of its sequences.
LEMMA FlattenElements ==
  ASSUME NEW S, NEW seqs \in Seq(Seq(S))
  PROVE  /\ FlattenSeq(seqs) \in Seq(S)
         /\ \A x : Has(FlattenSeq(seqs), x) <=> \E i \in 1 .. Len(seqs) : Has(seqs[i], x)
<1> DEFINE Good(q) == /\ FlattenSeq(q) \in Seq(S)
                      /\ \A x : Has(FlattenSeq(q), x) <=> (\E i \in 1 .. Len(q) : Has(q[i], x))
           T == {n \in Nat : \A q \in Seq(Seq(S)) : Len(q) = n => Good(q)}
<1> HIDE DEF Good
<1>1. 0 \in T
  <2> SUFFICES ASSUME NEW q \in Seq(Seq(S)), Len(q) = 0 PROVE Good(q)
    OBVIOUS
  <2>1. q = <<>> /\ FlattenSeq(q) = <<>>
    BY FlattenIs
  <2>2. \A x : ~Has(<<>>, x)
    BY DEF Has
  <2>3. Len(q) = 0 /\ \A i \in 1 .. Len(q) : FALSE
    BY <2>1
  <2> QED
    <3>0. <<>> \in Seq(S)
      OBVIOUS
    <3>1. FlattenSeq(q) \in Seq(S)
      BY <2>1, <3>0, Zenon
    <3>2. \A x : ~Has(FlattenSeq(q), x)
      BY <2>1, <2>2
    <3>3. \A x : ~\E i \in 1 .. Len(q) : Has(q[i], x)
      BY <2>3
    <3> QED
      BY <3>1, <3>2, <3>3 DEF Good
<1>2. ASSUME NEW n \in Nat, n \in T PROVE n + 1 \in T
  <2> SUFFICES ASSUME NEW q \in Seq(Seq(S)), Len(q) = n + 1 PROVE Good(q)
    OBVIOUS
  <2>0. q # <<>>
    OBVIOUS
  <2>1. PICK p \in Seq(Seq(S)), s \in Seq(S) : q = Append(p, s)
    BY <2>0, SequenceEmptyOrAppend
  <2>2. Len(p) = n /\ Len(q) = n + 1 /\ q[n + 1] = s /\ \A i \in 1 .. n : q[i] = p[i] /\ p[i] \in Seq(S)
    BY <2>1
  <2>3. Good(p)
    BY <1>2, <2>2
  <2>4. FlattenSeq(q) = FlattenSeq(p) \o s
    BY <2>1, FlattenAppend
  <2>5. \A a, b \in Seq(S) : a \o b \in Seq(S) /\ \A x : Has(a \o b, x) <=> Has(a, x) \/ Has(b, x)
    BY ConcatElements
  <2>6. FlattenSeq(q) \in Seq(S) /\ \A x : Has(FlattenSeq(q), x) <=> Has(FlattenSeq(p), x) \/ Has(s, x)
    BY <2>3, <2>4, <2>5 DEF Good
  <2>7. ASSUME NEW x PROVE (\E i \in 1 .. n + 1 : Has(q[i], x)) <=> (\E i \in 1 .. n : Has(p[i], x)) \/ Has(s, x)
    <3>1. \A i \in 1 .. n + 1 : i = n + 1 \/ i \in 1 .. n
      OBVIOUS
    <3>2. n + 1 \in 1 .. n + 1 /\ \A i \in 1 .. n : i \in 1 .. n + 1
      OBVIOUS
    <3> QED
      BY <2>2, <3>1, <3>2
  <2>8. \A x : Has(FlattenSeq(p), x) <=> \E i \in 1 .. n : Has(p[i], x)
    BY <2>2, <2>3 DEF Good
  <2>9. \A x : Has(FlattenSeq(q), x) <=> \E i \in 1 .. n + 1 : Has(q[i], x)
    BY <2>6, <2>7, <2>8
  <2> QED
    BY <2>2, <2>6, <2>9 DEF Good
<1>3. Nat \subseteq T
  <2> HIDE DEF T
  <2> QED
    BY <1>1, <1>2, SetInduction
<1>4. Len(seqs) \in T
  <2>1. Len(seqs) \in Nat
    OBVIOUS
  <2> HIDE DEF T
  <2> QED
    BY <1>3, <2>1
<1>5. Good(seqs)
  BY <1>4
<1> QED
  BY <1>5 DEF Good

\* The elements of Pick are those at the places.
LEMMA PickElements ==
  ASSUME NEW S, NEW seq \in Seq(S), NEW places \in SUBSET (1 .. Len(seq))
  PROVE  /\ Pick(seq, places) \in Seq(S)
         /\ \A x : Has(Pick(seq, places), x) <=> \E i \in places : seq[i] = x
<1> DEFINE out == Pick(seq, places)
<1>1. out \in Seq(S)
  BY PickProperties
<1>2. PICK f : IsPicked(out, seq, places, f)
  BY PickProperties
<1>3. /\ f \in [1 .. Len(out) -> places]
      /\ \A i \in 1 .. Len(out) : out[i] = seq[f[i]]
      /\ \A k \in places : \E i \in 1 .. Len(out) : f[i] = k
  BY <1>2 DEF IsPicked
<1> HIDE DEF out
<1>4. ASSUME NEW x PROVE Has(out, x) <=> \E i \in places : seq[i] = x
  <2>1. ASSUME Has(out, x) PROVE \E i \in places : seq[i] = x
    <3>1. PICK i \in 1 .. Len(out) : out[i] = x
      BY <2>1 DEF Has
    <3>2. f[i] \in places /\ seq[f[i]] = x
      BY <1>3, <3>1
    <3> QED
      BY <3>2
  <2>2. ASSUME NEW k \in places, seq[k] = x PROVE Has(out, x)
    <3>1. PICK i \in 1 .. Len(out) : f[i] = k
      BY <1>3
    <3>2. out[i] = x
      BY <1>3, <2>2, <3>1
    <3> QED
      BY <3>2 DEF Has
  <2> QED
    BY <2>1, <2>2
<1> QED
  BY <1>1, <1>4 DEF out

\* A prefix, place by place.
LEMMA PrefixIs ==
  ASSUME NEW S, NEW s \in Seq(S), NEW t \in Seq(S)
  PROVE  IsPrefix(s, t) <=> Len(s) <= Len(t) /\ \A i \in 1 .. Len(s) : s[i] = t[i]
<1>1. Len(s) \in Nat /\ Len(t) \in Nat
  OBVIOUS
<1>2. ASSUME Len(s) <= Len(t)
      PROVE  SubSeq(s, 1, Len(s)) = SubSeq(t, 1, Len(s)) <=> \A i \in 1 .. Len(s) : s[i] = t[i]
  <2> DEFINE a == SubSeq(s, 1, Len(s))
             b == SubSeq(t, 1, Len(s))
  <2>1. /\ a \in Seq(S) /\ b \in Seq(S) /\ Len(a) = Len(s) /\ Len(b) = Len(s)
        /\ \A i \in 1 .. Len(s) : a[i] = s[i] /\ b[i] = t[i]
    BY <1>1, <1>2
  <2> HIDE DEF a, b
  <2>2. a = b <=> \A i \in 1 .. Len(s) : a[i] = b[i]
    BY <2>1, SeqEqual
  <2>3. a = b <=> \A i \in 1 .. Len(s) : s[i] = t[i]
    BY <2>1, <2>2
  <2> QED
    BY <2>3 DEF a, b
<1> QED
  BY <1>1, <1>2 DEF IsPrefix

\* What is before a sequence that is one element longer.
LEMMA PrefixAppend ==
  ASSUME NEW S, NEW h \in Seq(S), NEW w \in S, NEW q \in Seq(S)
  PROVE  LET more == Append(h, w)
         IN  /\ IsPrefix(h, h) /\ IsPrefix(h, more) /\ ~IsPrefix(more, h)
             /\ IsPrefix(more, q) => IsPrefix(h, q)
             /\ IsPrefix(q, more) => IsPrefix(q, h) \/ q = more
<1> DEFINE more == Append(h, w)
<1>1. /\ more \in Seq(S) /\ Len(more) = Len(h) + 1 /\ Len(h) \in Nat /\ Len(q) \in Nat
      /\ \A i \in 1 .. Len(h) : more[i] = h[i]
      /\ more[Len(h) + 1] = w
  BY AppendProperties
<1> HIDE DEF more
<1>2. IsPrefix(h, h) /\ IsPrefix(h, more) /\ ~IsPrefix(more, h)
  BY <1>1, PrefixIs
<1>3. ASSUME IsPrefix(more, q) PROVE IsPrefix(h, q)
  <2>1. Len(more) <= Len(q) /\ \A i \in 1 .. Len(more) : more[i] = q[i]
    BY <1>1, <1>3, PrefixIs
  <2>2. Len(h) <= Len(q) /\ \A i \in 1 .. Len(h) : h[i] = q[i]
    BY <1>1, <2>1
  <2> QED
    BY <2>2, PrefixIs
<1>4. ASSUME IsPrefix(q, more), q # more PROVE IsPrefix(q, h)
  <2>1. Len(q) <= Len(more) /\ \A i \in 1 .. Len(q) : q[i] = more[i]
    BY <1>1, <1>4, PrefixIs
  <2>2. Len(q) # Len(more)
    BY <1>1, <1>4, <2>1, SeqEqual
  <2>3. Len(q) <= Len(h)
    BY <1>1, <2>1, <2>2
  <2>4. ASSUME NEW i \in 1 .. Len(q) PROVE q[i] = h[i]
    <3>1. i \in 1 .. Len(h) /\ q[i] = more[i]
      BY <1>1, <2>1, <2>3
    <3> QED
      BY <1>1, <3>1
  <2> QED
    BY <2>3, <2>4, PrefixIs
<1> QED
  BY <1>2, <1>3, <1>4 DEF more

\* A longer sequence goes on with one more element.
LEMMA PrefixNext ==
  ASSUME NEW S, NEW h \in Seq(S), NEW q \in Seq(S), IsPrefix(h, q)
  PROVE  /\ SubSeq(q, 1, Len(h)) = h
         /\ h = q \/ Len(h) + 1 <= Len(q)
         /\ Len(h) + 1 <= Len(q) => q[Len(h) + 1] \in S /\ IsPrefix(Append(h, q[Len(h) + 1]), q)
<1>1. Len(h) \in Nat /\ Len(q) \in Nat /\ Len(h) <= Len(q) /\ \A i \in 1 .. Len(h) : h[i] = q[i]
  BY PrefixIs
<1>2. SubSeq(q, 1, Len(h)) = h
  <2> DEFINE cut == SubSeq(q, 1, Len(h))
  <2>1. cut \in Seq(S) /\ Len(cut) = Len(h) /\ \A i \in 1 .. Len(h) : cut[i] = q[i]
    BY <1>1
  <2> HIDE DEF cut
  <2>2. cut = h
    BY <1>1, <2>1, SeqEqual
  <2> QED
    BY <2>2 DEF cut
<1>3. h = q \/ Len(h) + 1 <= Len(q)
  <2>1. Len(h) = Len(q) => h = q
    BY <1>1, SeqEqual
  <2> QED
    BY <1>1, <2>1
<1>4. ASSUME Len(h) + 1 <= Len(q)
      PROVE  q[Len(h) + 1] \in S /\ IsPrefix(Append(h, q[Len(h) + 1]), q)
  <2> DEFINE w == q[Len(h) + 1]
             more == Append(h, w)
  <2>1. w \in S
    BY <1>1, <1>4
  <2> HIDE DEF w
  <2>2. /\ more \in Seq(S) /\ Len(more) = Len(h) + 1
        /\ \A i \in 1 .. Len(h) : more[i] = h[i]
        /\ more[Len(h) + 1] = w
    BY <2>1, AppendProperties
  <2> HIDE DEF more
  <2>3. \A i \in 1 .. Len(more) : more[i] = q[i]
    <3> SUFFICES ASSUME NEW i \in 1 .. Len(more) PROVE more[i] = q[i]
      OBVIOUS
    <3>1. i = Len(h) + 1 \/ i \in 1 .. Len(h)
      BY <1>1, <2>2
    <3> QED
      BY <1>1, <2>2, <3>1 DEF w
  <2>4. IsPrefix(more, q)
    BY <1>4, <2>2, <2>3, PrefixIs
  <2> QED
    BY <2>1, <2>4 DEF w, more
<1> QED
  BY <1>2, <1>3, <1>4

LEMMA PrefixChain ==
  ASSUME NEW S, NEW a \in Seq(S), NEW b \in Seq(S), NEW c \in Seq(S), IsPrefix(a, b), IsPrefix(b, c)
  PROVE  IsPrefix(a, c)
<1>1. /\ Len(a) \in Nat /\ Len(b) \in Nat /\ Len(c) \in Nat /\ Len(a) <= Len(b) /\ Len(b) <= Len(c)
      /\ (\A i \in 1 .. Len(a) : a[i] = b[i]) /\ (\A i \in 1 .. Len(b) : b[i] = c[i])
  BY PrefixIs
<1>2. Len(a) <= Len(c) /\ \A i \in 1 .. Len(a) : a[i] = c[i]
  BY <1>1
<1> QED
  BY <1>2, PrefixIs

\* The beginnings of a sequence that is one element longer.
LEMMA AppendCut ==
  ASSUME NEW S, NEW h \in Seq(S), NEW w \in S, NEW n \in 0 .. Len(h)
  PROVE  SubSeq(Append(h, w), 1, n) = SubSeq(h, 1, n)
<1> DEFINE more == Append(h, w)
           a == SubSeq(more, 1, n)
           b == SubSeq(h, 1, n)
<1>1. /\ more \in Seq(S) /\ Len(more) = Len(h) + 1 /\ Len(h) \in Nat
      /\ \A i \in 1 .. Len(h) : more[i] = h[i]
  BY AppendProperties
<1> HIDE DEF more
<1>2. a \in Seq(S) /\ Len(a) = n /\ \A i \in 1 .. n : a[i] = more[i]
  BY <1>1
<1>3. b \in Seq(S) /\ Len(b) = n /\ \A i \in 1 .. n : b[i] = h[i]
  BY <1>1
<1>4. \A i \in 1 .. n : more[i] = h[i]
  BY <1>1
<1> HIDE DEF a, b
<1>5. a = b
  <2>1. \A i \in 1 .. n : a[i] = b[i]
    BY <1>2, <1>3, <1>4
  <2> QED
    BY <1>2, <1>3, <2>1, SeqEqual
<1> QED
  BY <1>5 DEF a, b, more
=============================================================================
