--------------------------- MODULE PayloadsProofs ---------------------------
(***************************************************************************)
(* What the operators of Payloads compute, for values of any width and     *)
(* lists of any length.  A recursive function is reasoned about by the     *)
(* least natural number that would break a claim.                          *)
(***************************************************************************)
EXTENDS Payloads, WellFoundedInduction, TLAPS

LEMMA LeastNumber ==
  ASSUME NEW S \in SUBSET Nat, S # {}
  PROVE  \E m \in S : \A i \in S : m <= i
<1>1. PICK m \in S : \A i \in S : ~(<<i, m>> \in OpToRel(<, Nat))
  BY NatLessThanWellFounded, WFMin, Zenon
<1>2. \A i \in S : ~(i < m)
  BY <1>1 DEF OpToRel
<1> QED BY <1>2

(* Induction, for a set instead of a predicate.                            *)
LEMMA SetInduction ==
  ASSUME NEW S \in SUBSET Nat, 0 \in S, \A n \in S : n + 1 \in S
  PROVE  S = Nat
<1> SUFFICES ASSUME NEW k \in Nat \ S PROVE FALSE
  OBVIOUS
<1>1. PICK m \in Nat \ S : \A i \in Nat \ S : m <= i
  BY LeastNumber
<1>2. m # 0 /\ m - 1 \in Nat /\ m - 1 < m
  BY <1>1
<1>3. m - 1 \in S
  BY <1>1, <1>2
<1>4. (m - 1) + 1 \in S
  BY <1>3
<1> QED BY <1>1, <1>4

(* g is computed by primitive recursion.                                   *)
Recurs(g, N, V, base, step) ==
  /\ g \in [0..N -> V]
  /\ g[0] = base
  /\ \A n \in 1..N : g[n] = step[<<n, g[n - 1]>>]

LEMMA Recursion ==
  ASSUME NEW V, NEW N \in Nat, NEW base \in V, NEW step \in [(1..N) \X V -> V]
  PROVE  \E g : Recurs(g, N, V, base, step)
<1> DEFINE Upto(k, g) ==
             /\ g \in [0..k -> V]
             /\ g[0] = base
             /\ \A n \in 1..k : g[n] = step[<<n, g[n - 1]>>]
           S == {k \in Nat : k <= N => \E g : Upto(k, g)}
<1>1. 0 \in S
  <2>1. Upto(0, [n \in 0..0 |-> base])
    OBVIOUS
  <2> QED BY <2>1
<1>2. ASSUME NEW k \in S PROVE k + 1 \in S
  <2> SUFFICES ASSUME k + 1 <= N PROVE \E g : Upto(k + 1, g)
    BY <1>2
  <2>1. k \in Nat /\ k <= N /\ k + 1 \in 1..N
    OBVIOUS
  <2>2. PICK g : Upto(k, g)
    BY <2>1
  <2>3. g \in [0..k -> V] /\ g[k] \in V
    BY <2>1, <2>2
  <2> DEFINE h == [n \in 0..(k + 1) |->
                     IF n = k + 1 THEN step[<<k + 1, g[k]>>] ELSE g[n]]
  <2>4. step[<<k + 1, g[k]>>] \in V
    BY <2>1, <2>3
  <2>5. h \in [0..(k + 1) -> V]
    BY <2>1, <2>3, <2>4
  <2>6. h[0] = base
    BY <2>1, <2>2
  <2>7. ASSUME NEW n \in 1..(k + 1) PROVE h[n] = step[<<n, h[n - 1]>>]
    <3>1. CASE n = k + 1
      <4>1. n - 1 = k /\ k \in 0..(k + 1) /\ k + 1 \in 0..(k + 1) /\ k # k + 1
        BY <2>1, <3>1
      <4>2. h[k] = g[k] /\ h[k + 1] = step[<<k + 1, g[k]>>]
        BY <4>1
      <4> HIDE DEF h
      <4> QED BY <3>1, <4>1, <4>2
    <3>2. CASE n # k + 1
      BY <2>1, <2>2, <2>7, <3>2
    <3> QED BY <3>1, <3>2
  <2> QED BY <2>5, <2>6, <2>7
<1> HIDE DEF S
<1>3. S = Nat
  <2>1. S \in SUBSET Nat
    BY DEF S
  <2> QED BY <1>1, <1>2, <2>1, SetInduction
<1>4. N \in S
  BY <1>3
<1>5. \E g : Upto(N, g)
  BY <1>4 DEF S
<1> QED BY <1>5 DEF Recurs

-----------------------------------------------------------------------------
(* pos lists the n members of a set of numbers in their order.             *)
Enumerates(pos, n, places) ==
  /\ n \in Nat
  /\ pos \in [1..n -> Nat]
  /\ places = {pos[i] : i \in 1..n}
  /\ \A i, j \in 1..n : i < j => pos[i] < pos[j]

(* The equation that defines Picked.                                       *)
PicksUpTo(g, items, places) ==
  g = [n \in 0..Len(items) |->
         IF n = 0 THEN <<>>
         ELSE IF n \in places THEN Append(g[n - 1], items[n])
              ELSE g[n - 1]]

LEMMA PickedSolves ==
  ASSUME NEW S, NEW items \in Seq(S), NEW places
  PROVE  \E g : PicksUpTo(g, items, places) /\ Picked(items, places) = g[Len(items)]
<1>1. PICK N \in Nat : N = Len(items) /\ \A n \in 1..N : items[n] \in S
  <2> QED BY Len(items) \in Nat
<1>2. PICK none : none \in Seq(S) /\ none = <<>>
  <2>1. <<>> \in Seq(S)
    OBVIOUS
  <2> QED BY <2>1, Zenon
<1>3. PICK step \in [(1..N) \X Seq(S) -> Seq(S)] :
        \A n \in 1..N : \A s \in Seq(S) :
          step[<<n, s>>] = IF n \in places THEN Append(s, items[n]) ELSE s
  <2> DEFINE f == [a \in (1..N) \X Seq(S) |->
                     IF a[1] \in places THEN Append(a[2], items[a[1]]) ELSE a[2]]
  <2>1. \A n \in 1..N : \A s \in Seq(S) :
          f[<<n, s>>] = IF n \in places THEN Append(s, items[n]) ELSE s
    OBVIOUS
  <2>2. f \in [(1..N) \X Seq(S) -> Seq(S)]
    BY <1>1
  <2> HIDE DEF f
  <2> QED BY <2>1, <2>2
<1>4. PICK g : /\ g \in [0..N -> Seq(S)]
               /\ g[0] = none
               /\ \A n \in 1..N : g[n] = step[<<n, g[n - 1]>>]
  <2>1. \E g : Recurs(g, N, Seq(S), none, step)
    BY <1>1, <1>2, <1>3, Recursion
  <2> QED BY <2>1 DEF Recurs
<1>5. \A n \in 1..N : n - 1 \in 0..N /\ n # 0
  OBVIOUS
<1>6. \A n \in 1..N : g[n - 1] \in Seq(S)
  BY <1>4, <1>5
<1>7. \A n \in 1..N :
        g[n] = IF n \in places THEN Append(g[n - 1], items[n]) ELSE g[n - 1]
  BY <1>3, <1>4, <1>5, <1>6
<1>8. \A n \in 0..N :
        g[n] = IF n = 0 THEN <<>>
               ELSE IF n \in places THEN Append(g[n - 1], items[n]) ELSE g[n - 1]
  <2> TAKE n \in 0..N
  <2>1. CASE n = 0
    BY <1>2, <1>4, <2>1
  <2>2. CASE n # 0
    <3>1. n \in 1..N
      BY <2>2
    <3> QED BY <1>7, <2>2, <3>1
  <2> QED BY <2>1, <2>2
<1>9. PicksUpTo(g, items, places)
  BY <1>1, <1>4, <1>8 DEF PicksUpTo
<1>10. PicksUpTo(CHOOSE h : PicksUpTo(h, items, places), items, places)
  BY <1>9
<1>11. Picked(items, places) = (CHOOSE h : PicksUpTo(h, items, places))[N]
  BY <1>1 DEF Picked, PicksUpTo
<1> QED BY <1>1, <1>10, <1>11

LEMMA OneMoreEnumerated ==
  ASSUME NEW pos, NEW n, NEW places, Enumerates(pos, n, places),
         NEW m \in Nat, \A p \in places : p < m
  PROVE  Enumerates([i \in 1..(n + 1) |-> IF i = n + 1 THEN m ELSE pos[i]],
                    n + 1, places \union {m})
<1> DEFINE longer == [i \in 1..(n + 1) |-> IF i = n + 1 THEN m ELSE pos[i]]
<1>1. /\ n \in Nat /\ pos \in [1..n -> Nat] /\ places = {pos[i] : i \in 1..n}
      /\ \A i, j \in 1..n : i < j => pos[i] < pos[j]
  BY DEF Enumerates
<1>2. \A i \in 1..n : i \in 1..(n + 1) /\ i # n + 1 /\ pos[i] \in Nat /\ pos[i] < m
  BY <1>1
<1>3. longer[n + 1] = m /\ \A i \in 1..n : longer[i] = pos[i]
  BY <1>1, <1>2
<1>4. \A i \in 1..(n + 1) : i = n + 1 \/ i \in 1..n
  BY <1>1
<1>5. longer \in [1..(n + 1) -> Nat]
  BY <1>2, <1>4
<1> HIDE DEF longer
<1>6. places \union {m} = {longer[i] : i \in 1..(n + 1)}
  BY <1>1, <1>2, <1>3, <1>4
<1>7. ASSUME NEW i \in 1..(n + 1), NEW j \in 1..(n + 1), i < j
      PROVE  longer[i] < longer[j]
  <2>1. i \in 1..n
    BY <1>1, <1>7
  <2>2. CASE j = n + 1
    BY <1>2, <1>3, <2>1, <2>2
  <2>3. CASE j \in 1..n
    BY <1>1, <1>3, <1>7, <2>1, <2>3
  <2> QED BY <1>4, <2>2, <2>3
<1>8. Enumerates(longer, n + 1, places \union {m})
  <2>1. n + 1 \in Nat
    BY <1>1
  <2> QED BY <1>5, <1>6, <1>7, <2>1, Zenon DEF Enumerates
<1> QED BY <1>8 DEF longer

(* s lists the chosen items in their order.                                *)
ListsItems(s, pos, items, chosen) ==
  /\ Enumerates(pos, Len(s), chosen)
  /\ \A i \in 1..Len(s) : s[i] = items[pos[i]]

(* What Picked returns: the items at the places, in order.                 *)
LEMMA PickedEnumerates ==
  ASSUME NEW S, NEW items \in Seq(S), NEW places \in SUBSET DOMAIN items
  PROVE  /\ Picked(items, places) \in Seq(S)
         /\ \E pos : ListsItems(Picked(items, places), pos, items, places)
<1>1. PICK N \in Nat : N = Len(items) /\ \A n \in 1..N : items[n] \in S
  <2> QED BY Len(items) \in Nat
<1>2. PICK g : PicksUpTo(g, items, places) /\ Picked(items, places) = g[N]
  BY <1>1, PickedSolves
<1>3. /\ g[0] = <<>>
      /\ \A n \in 1..N :
           g[n] = IF n \in places THEN Append(g[n - 1], items[n]) ELSE g[n - 1]
  <2>1. 0 \in 0..N /\ \A n \in 1..N : n \in 0..N /\ n # 0
    BY <1>1
  <2> QED BY <1>1, <1>2, <2>1 DEF PicksUpTo
<1> DEFINE Right(k) ==
             /\ g[k] \in Seq(S)
             /\ \E pos : ListsItems(g[k], pos, items, places \intersect (1..k))
           Good == {k \in Nat : k <= N => Right(k)}
<1>4. 0 \in Good
  <2>1. <<>> \in Seq(S) /\ Len(<<>>) = 0 /\ places \intersect (1..0) = {}
    OBVIOUS
  <2>2. ListsItems(<<>>, <<>>, items, {})
    BY <2>1 DEF ListsItems, Enumerates
  <2> QED BY <1>3, <2>1, <2>2
<1>5. ASSUME NEW k \in Good PROVE k + 1 \in Good
  <2> SUFFICES ASSUME k + 1 <= N
               PROVE  Right(k + 1)
    <3> HIDE DEF Right
    <3> QED BY <1>5
  <2>1. k \in Nat /\ k <= N /\ k + 1 \in 1..N /\ (k + 1) - 1 = k
    BY <1>1
  <2>2. PICK pos : ListsItems(g[k], pos, items, places \intersect (1..k))
    BY <2>1
  <2>6. g[k] \in Seq(S)
    BY <2>1
  <2>3. g[k + 1] = IF k + 1 \in places THEN Append(g[k], items[k + 1]) ELSE g[k]
    BY <1>3, <2>1
  <2>4. CASE k + 1 \notin places
    <3>1. places \intersect (1..(k + 1)) = places \intersect (1..k)
      BY <2>1, <2>4
    <3> QED BY <2>2, <2>3, <2>4, <2>6, <3>1
  <2>5. CASE k + 1 \in places
    <3> DEFINE n == Len(g[k])
               longer == [i \in 1..(n + 1) |-> IF i = n + 1 THEN k + 1 ELSE pos[i]]
               chosen == places \intersect (1..k)
    <3>1. n \in Nat /\ g[k] \in Seq(S) /\ items[k + 1] \in S
      BY <1>1, <2>1, <2>6
    <3>2. /\ g[k + 1] \in Seq(S) /\ Len(g[k + 1]) = n + 1
          /\ g[k + 1][n + 1] = items[k + 1]
          /\ \A i \in 1..n : g[k + 1][i] = g[k][i]
      BY <2>3, <2>5, <3>1
    <3>3. places \intersect (1..(k + 1)) = chosen \union {k + 1}
      BY <2>1, <2>5
    <3>4. Enumerates(longer, n + 1, chosen \union {k + 1})
      <4>1. Enumerates(pos, n, chosen)
        BY <2>2 DEF ListsItems
      <4>2. k + 1 \in Nat /\ \A p \in chosen : p < k + 1
        BY <2>1
      <4> HIDE DEF n, chosen
      <4> QED BY <4>1, <4>2, OneMoreEnumerated
    <3>5. \A i \in 1..(n + 1) : g[k + 1][i] = items[longer[i]]
      <4> TAKE i \in 1..(n + 1)
      <4>1. CASE i = n + 1
        BY <3>1, <3>2, <4>1
      <4>2. CASE i # n + 1
        <5>1. i \in 1..n
          BY <3>1, <4>2
        <5>2. g[k][i] = items[pos[i]]
          BY <2>2, <5>1 DEF ListsItems
        <5> QED BY <3>2, <4>2, <5>1, <5>2
      <4> QED BY <4>1, <4>2
    <3> HIDE DEF longer, n, chosen
    <3>6. ListsItems(g[k + 1], longer, items, chosen \union {k + 1})
      BY <3>2, <3>4, <3>5 DEF ListsItems
    <3> QED BY <3>2, <3>3, <3>6 DEF chosen
  <2> QED BY <2>4, <2>5
<1> HIDE DEF Good
<1>6. Good = Nat
  <2>1. Good \in SUBSET Nat
    BY DEF Good
  <2> QED BY <1>4, <1>5, <2>1, SetInduction
<1>7. N \in Good
  BY <1>1, <1>6
<1>8. places \intersect (1..N) = places
  BY <1>1
<1>9. Right(N)
  <2> HIDE DEF Right
  <2> QED BY <1>7 DEF Good
<1> QED BY <1>2, <1>8, <1>9

LEMMA EnumerationsMeet ==
  ASSUME NEW p, NEW n, NEW q, NEW m, NEW places,
         Enumerates(p, n, places), Enumerates(q, m, places)
  PROVE  \A i \in (1..n) \intersect (1..m) : p[i] = q[i]
<1> DEFINE Apart == {i \in (1..n) \intersect (1..m) : p[i] # q[i]}
<1> SUFFICES ASSUME Apart # {} PROVE FALSE
  OBVIOUS
<1>1. /\ n \in Nat /\ p \in [1..n -> Nat] /\ places = {p[i] : i \in 1..n}
      /\ \A i, j \in 1..n : i < j => p[i] < p[j]
  BY DEF Enumerates
<1>2. /\ m \in Nat /\ q \in [1..m -> Nat] /\ places = {q[i] : i \in 1..m}
      /\ \A i, j \in 1..m : i < j => q[i] < q[j]
  BY DEF Enumerates
<1>3. PICK i \in Apart : \A j \in Apart : i <= j
  <2>1. Apart \in SUBSET Nat
    BY <1>1
  <2> HIDE DEF Apart
  <2> QED BY <2>1, LeastNumber
<1>4. i \in 1..n /\ i \in 1..m /\ p[i] # q[i] /\ p[i] \in Nat /\ q[i] \in Nat
  BY <1>1, <1>2, <1>3
<1>5. \A j \in Nat : 1 <= j /\ j < i => j \in 1..n /\ j \in 1..m /\ p[j] = q[j]
  BY <1>1, <1>2, <1>3, <1>4
<1>6. q[i] < p[i]
  <2>1. PICK j \in 1..m : p[i] = q[j]
    BY <1>1, <1>2, <1>4
  <2>2. CASE j < i
    <3>1. p[j] = p[i] /\ j \in 1..n
      BY <1>5, <2>1, <2>2
    <3>2. p[j] < p[i]
      BY <1>1, <1>4, <2>2, <3>1
    <3> QED BY <1>4, <3>1, <3>2
  <2>3. CASE i < j
    BY <1>2, <1>4, <2>1, <2>3
  <2>4. j # i
    BY <1>4, <2>1
  <2> QED BY <1>4, <2>2, <2>3, <2>4
<1>7. p[i] < q[i]
  <2>1. PICK j \in 1..n : q[i] = p[j]
    BY <1>1, <1>2, <1>4
  <2>2. CASE j < i
    <3>1. q[j] = q[i] /\ j \in 1..m
      BY <1>5, <2>1, <2>2
    <3>2. q[j] < q[i]
      BY <1>2, <1>4, <2>2, <3>1
    <3> QED BY <1>4, <3>1, <3>2
  <2>3. CASE i < j
    BY <1>1, <1>4, <2>1, <2>3
  <2>4. j # i
    BY <1>4, <2>1
  <2> QED BY <1>4, <2>2, <2>3, <2>4
<1> QED BY <1>4, <1>6, <1>7

LEMMA EnumerationNoLonger ==
  ASSUME NEW p, NEW n, NEW q, NEW m, NEW places,
         Enumerates(p, n, places), Enumerates(q, m, places)
  PROVE  m <= n
<1> SUFFICES ASSUME n < m PROVE FALSE
  BY DEF Enumerates
<1>1. n + 1 \in 1..m /\ n \in Nat /\ m \in Nat
  BY DEF Enumerates
<1>2. PICK j \in 1..n : q[n + 1] = p[j]
  BY <1>1 DEF Enumerates
<1>3. j \in 1..m /\ j < n + 1
  BY <1>1
<1>4. q[n + 1] = q[j]
  BY <1>2, <1>3, EnumerationsMeet
<1>5. q[j] < q[n + 1] /\ q[j] \in Nat
  BY <1>1, <1>3 DEF Enumerates
<1> QED BY <1>4, <1>5

(* There is one order only.                                                *)
LEMMA EnumerationUnique ==
  ASSUME NEW p, NEW n, NEW q, NEW m, NEW places,
         Enumerates(p, n, places), Enumerates(q, m, places)
  PROVE  n = m /\ p = q
<1>1. n \in Nat /\ m \in Nat /\ m <= n /\ n <= m
  BY EnumerationNoLonger DEF Enumerates
<1>2. n = m
  BY <1>1
<1>3. p \in [1..n -> Nat] /\ q \in [1..n -> Nat]
  BY <1>2 DEF Enumerates
<1>4. \A i \in 1..n : p[i] = q[i]
  BY <1>2, EnumerationsMeet
<1>5. p = q
  <2>1. p = [i \in 1..n |-> p[i]] /\ q = [i \in 1..n |-> q[i]]
    BY <1>3
  <2>2. [i \in 1..n |-> p[i]] = [i \in 1..n |-> q[i]]
    BY <1>4
  <2> QED BY <2>1, <2>2, Zenon
<1> QED BY <1>2, <1>5

LEMMA PickedAll ==
  ASSUME NEW S, NEW items \in Seq(S)
  PROVE  Picked(items, DOMAIN items) = items
<1> DEFINE N == Len(items)
           all == [i \in 1..N |-> i]
<1>1. N \in Nat /\ DOMAIN items = 1..N
  OBVIOUS
<1>2. Enumerates(all, N, 1..N)
  BY <1>1 DEF Enumerates
<1>3. PICK picked \in Seq(S) : picked = Picked(items, DOMAIN items)
  BY PickedEnumerates
<1>4. PICK pos : ListsItems(picked, pos, items, 1..N)
  BY <1>1, <1>3, PickedEnumerates
<1>5. Enumerates(pos, Len(picked), 1..N)
  BY <1>4 DEF ListsItems
<1> HIDE DEF all
<1>6. Len(picked) = N /\ pos = all
  BY <1>2, <1>5, EnumerationUnique
<1>7. \A i \in 1..N : picked[i] = items[i]
  BY <1>4, <1>6 DEF ListsItems, all
<1> QED BY <1>1, <1>3, <1>6, <1>7

(* What becomes of the parts of a value: all that was Undefined is gone,   *)
(* and nothing comes in.                                                   *)
LEMMA CleanedMade ==
  ASSUME NEW value, IsMade(value), value # Undefined,
         NEW parts, Holds(value) => parts = [f \in DOMAIN value.of |-> parts[f]]
  PROVE  LET cleaned == Cleaned(value, parts)
         IN /\ IsMade(cleaned) /\ cleaned # Undefined /\ cleaned.is = value.is
            /\ Holds(cleaned) =>
                 \A f \in DOMAIN cleaned.of : \E g \in DOMAIN value.of :
                   value.of[g] # Undefined /\ cleaned.of[f] = parts[g]
<1> DEFINE Kept == {f \in DOMAIN value.of :
                      /\ value.of[f] # Undefined
                      /\ Holds(value.of[f]) => ~Empty(parts[f]) \/ Empty(value.of[f])}
<1> HIDE DEF Kept
<1>1. CASE value.is = "leaf"
  <2>1. Cleaned(value, parts) = value
    BY <1>1 DEF Cleaned
  <2> QED BY <1>1, <2>1 DEF Holds, IsMade, IsSequence
<1>2. CASE value.is = "dict"
  <2> DEFINE fields == [f \in Kept |-> parts[f]]
  <2>1. Cleaned(value, parts) = Dict(fields)
    BY <1>2 DEF Cleaned, Kept
  <2>2. DOMAIN fields = Kept /\ \A f \in Kept : fields[f] = parts[f]
    BY <1>2 DEF Holds
  <2>3. \A f \in Kept : f \in DOMAIN value.of /\ value.of[f] # Undefined
    BY DEF Kept
  <2>4. fields = [f \in DOMAIN fields |-> fields[f]]
    OBVIOUS
  <2> HIDE DEF fields
  <2>5. Dict(fields).is = "dict" /\ Dict(fields).of = fields
    BY DEF Dict
  <2>6. Dict(fields) # Undefined
    BY <2>5 DEF Undefined
  <2>7. IsMade(Dict(fields))
    BY <2>4, <2>5 DEF IsMade, IsSequence
  <2> QED BY <1>2, <2>1, <2>2, <2>3, <2>5, <2>6, <2>7
<1>3. CASE value.is = "list"
  <2>1. value.of \in Seq({value.of[i] : i \in DOMAIN value.of})
    BY <1>3 DEF IsMade, IsSequence, Dict, Undefined
  <2> DEFINE P == {parts[i] : i \in DOMAIN value.of}
  <2>2. parts \in Seq(P) /\ DOMAIN parts = DOMAIN value.of
    <3>1. PICK n \in Nat : DOMAIN value.of = 1..n
      BY <2>1
    <3>2. parts \in [1..n -> P]
      BY <1>3, <3>1 DEF Holds
    <3> HIDE DEF P
    <3> QED BY <3>1, <3>2
  <2>3. Kept \in SUBSET DOMAIN parts
    BY <2>2 DEF Kept
  <2> DEFINE items == Picked(parts, Kept)
  <2>4. Cleaned(value, parts) = List(items)
    BY <1>3 DEF Cleaned, Kept
  <2>5. items \in Seq(P)
    BY <2>2, <2>3, PickedEnumerates
  <2>6. PICK pos : ListsItems(items, pos, parts, Kept)
    BY <2>2, <2>3, PickedEnumerates
  <2> HIDE DEF items, P
  <2>7. \A i \in DOMAIN items : pos[i] \in Kept /\ items[i] = parts[pos[i]]
    <3>1. DOMAIN items = 1..Len(items)
      BY <2>5
    <3> QED BY <2>6, <3>1 DEF ListsItems, Enumerates
  <2>8. \A f \in Kept : f \in DOMAIN value.of /\ value.of[f] # Undefined
    BY DEF Kept
  <2>9. List(items).is = "list" /\ List(items).of = items
    BY DEF List
  <2>10. List(items) # Undefined
    BY <2>9 DEF Undefined
  <2>11. IsMade(List(items))
    <3>1. items \in Seq({items[i] : i \in DOMAIN items})
      BY <2>5
    <3> QED BY <2>9, <3>1 DEF IsMade, IsSequence
  <2> QED BY <1>3, <2>4, <2>7, <2>8, <2>9, <2>10, <2>11
<1>4. value.is \in {"leaf", "dict", "list"}
  BY DEF IsMade, IsSequence, Dict, List
<1> QED BY <1>1, <1>2, <1>3, <1>4

(* What has no Undefined stays as it is.                                   *)
LEMMA CleanedAll ==
  ASSUME NEW value, IsMade(value), value # Undefined,
         Holds(value) => \A f \in DOMAIN value.of : value.of[f] # Undefined
  PROVE  Cleaned(value, value.of) = value
<1> DEFINE Kept == {f \in DOMAIN value.of :
                      /\ value.of[f] # Undefined
                      /\ Holds(value.of[f]) => ~Empty(value.of[f]) \/ Empty(value.of[f])}
<1>1. Holds(value) => Kept = DOMAIN value.of
  OBVIOUS
<1> HIDE DEF Kept
<1>2. CASE value.is = "leaf"
  BY <1>2 DEF Cleaned
<1>3. CASE value.is = "dict"
  <2>1. value = Dict([f \in DOMAIN value.of |-> value.of[f]])
    BY <1>3 DEF IsMade, IsSequence, List, Undefined
  <2>2. Cleaned(value, value.of) = Dict([f \in Kept |-> value.of[f]])
    BY <1>3 DEF Cleaned, Kept
  <2> QED BY <1>1, <1>3, <2>1, <2>2 DEF Holds
<1>4. CASE value.is = "list"
  <2>1. value = List(value.of) /\ value.of \in Seq({value.of[i] : i \in DOMAIN value.of})
    BY <1>4 DEF IsMade, IsSequence, Dict, Undefined
  <2>2. Cleaned(value, value.of) = List(Picked(value.of, Kept))
    BY <1>4 DEF Cleaned, Kept
  <2>3. Picked(value.of, DOMAIN value.of) = value.of
    BY <2>1, PickedAll
  <2> QED BY <1>1, <1>4, <2>1, <2>2, <2>3 DEF Holds
<1>5. value.is \in {"leaf", "dict", "list"}
  BY DEF IsMade, IsSequence, Dict, List
<1> QED BY <1>2, <1>3, <1>4, <1>5

-----------------------------------------------------------------------------
(* The levels of RemoveUndefined.  A value made of values to some depth.   *)
WithParts(Part(_), value) ==
  IsMade(value) /\ (Holds(value) => \A f \in DOMAIN value.of : Part(value.of[f]))

Made1(value) == IsMade(value)
Made2(value) == WithParts(Made1, value)
Made3(value) == WithParts(Made2, value)
Made4(value) == WithParts(Made3, value)
Made5(value) == WithParts(Made4, value)
Made6(value) == WithParts(Made5, value)

LEMMA PartsAreFunction ==
  ASSUME NEW v, IsMade(v), Holds(v)
  PROVE  v.of = [f \in DOMAIN v.of |-> v.of[f]]
<1>1. CASE v.is = "dict"
  <2>1. v = Dict([f \in DOMAIN v.of |-> v.of[f]])
    BY <1>1 DEF IsMade, IsSequence, Undefined, List
  <2> QED BY <2>1 DEF Dict
<1>2. CASE v.is = "list"
  <2>1. v.of \in Seq({v.of[i] : i \in DOMAIN v.of})
    BY <1>2 DEF IsMade, IsSequence, Dict, Undefined
  <2> QED BY <2>1
<1> QED BY <1>1, <1>2 DEF Holds

LEMMA Clean1Json ==
  ASSUME NEW v, Made1(v), v # Undefined
  PROVE  IsJson1(Clean1(v))
<1>1. Holds(v) => v.of = [f \in DOMAIN v.of |-> v.of[f]]
  BY PartsAreFunction DEF Made1
<1> QED BY <1>1, CleanedMade DEF Made1, IsJson1, Throughout, IsJson0, Clean1

LEMMA Clean2Json ==
  ASSUME NEW v, Made2(v), v # Undefined
  PROVE  IsJson2(Clean2(v))
BY Clean1Json, CleanedMade DEF Clean2, Within, IsJson2, Throughout, Made2, WithParts,
  Holds

LEMMA Clean3Json ==
  ASSUME NEW v, Made3(v), v # Undefined
  PROVE  IsJson3(Clean3(v))
BY Clean2Json, CleanedMade DEF Clean3, Within, IsJson3, Throughout, Made3, WithParts,
  Holds

LEMMA Clean4Json ==
  ASSUME NEW v, Made4(v), v # Undefined
  PROVE  IsJson4(Clean4(v))
BY Clean3Json, CleanedMade DEF Clean4, Within, IsJson4, Throughout, Made4, WithParts,
  Holds

LEMMA Clean5Json ==
  ASSUME NEW v, Made5(v), v # Undefined
  PROVE  IsJson5(Clean5(v))
BY Clean4Json, CleanedMade DEF Clean5, Within, IsJson5, Throughout, Made5, WithParts,
  Holds

LEMMA RemoveUndefinedJson ==
  ASSUME NEW v, Made6(v), v # Undefined
  PROVE  IsJson(RemoveUndefined(v))
BY Clean5Json, CleanedMade DEF RemoveUndefined, Within, IsJson, Throughout, Made6, WithParts,
  Holds

LEMMA Clean1Keeps ==
  ASSUME NEW v, IsJson1(v)
  PROVE  Clean1(v) = v
BY CleanedAll DEF Clean1, IsJson1, Throughout, IsJson0

LEMMA PartsStay ==
  ASSUME NEW v, IsMade(v), v # Undefined, NEW parts,
         Holds(v) => /\ parts = [f \in DOMAIN v.of |-> parts[f]]
                     /\ \A f \in DOMAIN v.of : v.of[f] # Undefined /\ parts[f] = v.of[f]
  PROVE  Cleaned(v, parts) = v
<1>1. CASE Holds(v)
  <2>1. parts = v.of
    BY <1>1, PartsAreFunction
  <2> QED BY <2>1, CleanedAll
<1>2. CASE ~Holds(v)
  BY <1>2 DEF Cleaned, Holds
<1> QED BY <1>1, <1>2

LEMMA Clean2Keeps ==
  ASSUME NEW v, IsJson2(v)
  PROVE  Clean2(v) = v
BY Clean1Keeps, PartsStay DEF Clean2, Within, IsJson2, IsJson1, Throughout

LEMMA Clean3Keeps ==
  ASSUME NEW v, IsJson3(v)
  PROVE  Clean3(v) = v
BY Clean2Keeps, PartsStay DEF Clean3, Within, IsJson3, IsJson2, Throughout

LEMMA Clean4Keeps ==
  ASSUME NEW v, IsJson4(v)
  PROVE  Clean4(v) = v
BY Clean3Keeps, PartsStay DEF Clean4, Within, IsJson4, IsJson3, Throughout

LEMMA Clean5Keeps ==
  ASSUME NEW v, IsJson5(v)
  PROVE  Clean5(v) = v
BY Clean4Keeps, PartsStay DEF Clean5, Within, IsJson5, IsJson4, Throughout

(* A list of which every item is kept.                                     *)
LEMMA ListKept ==
  ASSUME NEW S, NEW items \in Seq(S),
         NEW parts, parts = [i \in DOMAIN items |-> parts[i]],
         \A i \in DOMAIN items :
           /\ items[i] # Undefined
           /\ Holds(items[i]) => ~Empty(parts[i]) \/ Empty(items[i])
  PROVE  Cleaned(List(items), parts) = List(parts)
<1> DEFINE P == {parts[i] : i \in DOMAIN items}
<1>1. PICK n \in Nat : DOMAIN items = 1..n
  <2> QED BY Len(items) \in Nat
<1>2. parts \in Seq(P) /\ DOMAIN parts = DOMAIN items
  <2>1. parts \in [1..n -> P]
    BY <1>1
  <2> HIDE DEF P
  <2> QED BY <1>1, <2>1
<1>3. Picked(parts, DOMAIN items) = parts
  <2> HIDE DEF P
  <2> QED BY <1>2, PickedAll
<1> DEFINE Kept == {i \in DOMAIN items :
                      /\ items[i] # Undefined
                      /\ Holds(items[i]) => ~Empty(parts[i]) \/ Empty(items[i])}
<1>4. Kept = DOMAIN items
  OBVIOUS
<1>5. Cleaned(List(items), parts) = List(Picked(parts, Kept))
  BY DEF Cleaned, List
<1> QED BY <1>3, <1>4, <1>5

(* Leaves, objects and lists.                                              *)
IsLeaf(value) == value.is = "leaf"

LEMMA LeafFacts ==
  ASSUME NEW v, IsLeaf(v)
  PROVE  /\ v # Undefined /\ ~Holds(v) /\ IsMade(v)
         /\ Clean1(v) = v /\ Clean2(v) = v /\ Clean3(v) = v /\ Clean4(v) = v /\ Clean5(v) = v
         /\ IsJson1(v) /\ IsJson2(v) /\ IsJson3(v) /\ IsJson4(v) /\ IsJson5(v)
<1>1. v # Undefined /\ ~Holds(v) /\ IsMade(v)
  BY DEF IsLeaf, Undefined, Holds, IsMade, IsSequence
<1>2. IsJson1(v) /\ IsJson2(v) /\ IsJson3(v) /\ IsJson4(v) /\ IsJson5(v)
  BY <1>1 DEF IsJson1, IsJson2, IsJson3, IsJson4, IsJson5, Throughout
<1> QED BY <1>1, <1>2, Clean1Keeps, Clean2Keeps, Clean3Keeps, Clean4Keeps, Clean5Keeps

LEMMA SimpleMade ==
  ASSUME NEW v, v = Undefined \/ IsLeaf(v)
  PROVE  /\ IsMade(v) /\ ~Holds(v)
         /\ Made1(v) /\ Made2(v) /\ Made3(v) /\ Made4(v) /\ Made5(v)
<1>1. IsMade(v) /\ ~Holds(v)
  BY DEF IsLeaf, Undefined, Holds, IsMade, IsSequence
<1> QED BY <1>1 DEF Made1, Made2, Made3, Made4, Made5, WithParts

LEMMA DictFacts ==
  ASSUME NEW fields, fields = [f \in DOMAIN fields |-> fields[f]]
  PROVE  LET dict == Dict(fields)
         IN /\ dict # Undefined /\ dict.is = "dict" /\ dict.of = fields /\ Holds(dict)
            /\ IsMade(dict)
BY DEF Dict, Undefined, Holds, IsMade, IsSequence

LEMMA ListFacts ==
  ASSUME NEW S, NEW items \in Seq(S)
  PROVE  LET list == List(items)
         IN /\ list # Undefined /\ list.is = "list" /\ list.of = items /\ Holds(list)
            /\ IsMade(list)
<1>1. items \in Seq({items[i] : i \in DOMAIN items})
  OBVIOUS
<1> QED BY <1>1 DEF List, Undefined, Holds, IsMade, IsSequence

LEMMA MappedSeq ==
  ASSUME NEW S, NEW items \in Seq(S), NEW mapped,
         mapped = [i \in DOMAIN items |-> mapped[i]]
  PROVE  mapped \in Seq({mapped[i] : i \in DOMAIN items})
<1>1. PICK n \in Nat : DOMAIN items = 1..n
  <2> QED BY Len(items) \in Nat
<1> DEFINE M == {mapped[i] : i \in DOMAIN items}
<1>2. mapped \in [1..n -> M]
  BY <1>1
<1> HIDE DEF M
<1>3. mapped \in Seq(M)
  BY <1>2
<1> QED BY <1>3 DEF M

LEMMA TopCleaned ==
  ASSUME NEW fields, fields = [f \in DOMAIN fields |-> fields[f]],
         \A f \in DOMAIN fields : fields[f] # Undefined =>
           /\ IsJson5(Clean5(fields[f]))
           /\ Holds(fields[f]) => ~Empty(Clean5(fields[f])) \/ Empty(fields[f])
  PROVE  /\ RemoveUndefined(Dict(fields)) =
              Dict([f \in {g \in DOMAIN fields : fields[g] # Undefined} |->
                      Clean5(fields[f])])
         /\ IsJson(RemoveUndefined(Dict(fields)))
<1> DEFINE there == {g \in DOMAIN fields : fields[g] # Undefined}
           cleaned == [f \in there |-> Clean5(fields[f])]
<1>1. RemoveUndefined(Dict(fields)) = Dict(cleaned)
  <2> DEFINE parts == [f \in DOMAIN fields |-> Clean5(fields[f])]
             Kept == {f \in DOMAIN fields :
                        /\ fields[f] # Undefined
                        /\ Holds(fields[f]) => ~Empty(parts[f]) \/ Empty(fields[f])}
  <2>1. RemoveUndefined(Dict(fields)) = Dict([f \in Kept |-> parts[f]])
    BY DEF RemoveUndefined, Within, Cleaned, Dict
  <2>2. Kept = there
    OBVIOUS
  <2>3. [f \in Kept |-> parts[f]] = cleaned
    BY <2>2
  <2> QED BY <2>1, <2>3
<1>2. IsJson(Dict(cleaned))
  <2>1. \A f \in DOMAIN cleaned : IsJson5(cleaned[f])
    OBVIOUS
  <2>2. cleaned = [f \in DOMAIN cleaned |-> cleaned[f]]
    OBVIOUS
  <2> HIDE DEF cleaned
  <2> QED BY <2>1, <2>2, DictFacts DEF IsJson, Throughout
<1> QED BY <1>1, <1>2
=============================================================================
