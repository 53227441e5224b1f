----------------------- MODULE OutgoingMessageProofs -----------------------
(***************************************************************************)
(* Proofs about EmbedMentions and OutgoingMessage, for texts of any        *)
(* length, any threads and any number of calls.                            *)
(***************************************************************************)
EXTENDS OutgoingMessage, PayloadsProofs

-----------------------------------------------------------------------------
(* find_and_replace_embed_mentions.                                        *)
TagPlaces(text) == {k \in DOMAIN text : IsTag(text[k])}

NewPlaceholder(text, call, n) == Placeholder(Sigil(TagsOf(text)[n].type), <<call, n>>)

(* The text after the first n tags have been replaced.                     *)
ReplacedUpTo(body, text, call, pos, n) ==
  /\ DOMAIN body = DOMAIN text
  /\ \A i \in 1..n : body[pos[i]] = NewPlaceholder(text, call, i)
  /\ \A k \in DOMAIN text : (\A i \in 1..n : k # pos[i]) => body[k] = text[k]

LEMMA FirstPlace ==
  ASSUME NEW S \in SUBSET Nat, NEW m \in S, \A k \in S : m <= k
  PROVE  Min(S) = m
<1>1. m \in S /\ \A y \in S : m <= y
  OBVIOUS
<1>2. \A x \in S : (\A y \in S : x <= y) => x = m
  <2> SUFFICES ASSUME NEW x \in S, \A y \in S : x <= y PROVE x = m
    OBVIOUS
  <2>1. x <= m /\ m <= x /\ x \in Nat /\ m \in Nat
    OBVIOUS
  <2> QED BY <2>1
<1> QED BY <1>1, <1>2 DEF Min

LEMMA ReplacedAtFirst ==
  ASSUME NEW F, NEW text \in Seq(F), NEW old, NEW new,
         NEW m \in DOMAIN text, text[m] = old,
         \A k \in DOMAIN text : text[k] = old => m <= k
  PROVE  ReplaceOnce(text, old, new) = [text EXCEPT ![m] = new]
<1> DEFINE I == {i \in 1..Len(text) : text[i] = old}
<1>1. DOMAIN text = 1..Len(text) /\ Len(text) \in Nat
  OBVIOUS
<1>2. m \in I /\ I \in SUBSET Nat /\ \A k \in I : m <= k
  BY <1>1
<1>3. Min(I) = m
  <2> HIDE DEF I
  <2> QED BY <1>2, FirstPlace
<1>4. SelectInSeq(text, LAMBDA fragment : fragment = old) = m
  BY <1>2, <1>3 DEF SelectInSeq
<1> QED BY <1>4 DEF ReplaceOnce, ReplaceAt

LEMMA ReplaceOnceType ==
  ASSUME NEW F, NEW text \in Seq(F), NEW old, NEW new \in F
  PROVE  ReplaceOnce(text, old, new) \in Seq(F)
<1>1. PICK at : at = SelectInSeq(text, LAMBDA fragment : fragment = old)
  OBVIOUS
<1>2. PICK n \in Nat : text \in [1..n -> F]
  <2> QED BY Len(text) \in Nat
<1>3. [text EXCEPT ![at] = new] \in [1..n -> F]
  BY <1>2
<1>4. [text EXCEPT ![at] = new] \in Seq(F)
  BY <1>2, <1>3
<1> QED BY <1>1, <1>4 DEF ReplaceOnce, ReplaceAt

(* The equation that FindAndReplace iterates.                              *)
ReplacesUpTo(g, text, call) ==
  g = [n \in 0..Len(TagsOf(text)) |->
         IF n = 0 THEN text
         ELSE ReplaceOnce(g[n - 1], TagsOf(text)[n], NewPlaceholder(text, call, n))]

LEMMA ReplacementsSolve ==
  ASSUME NEW text, IsSequence(text), NEW call, Len(TagsOf(text)) \in Nat
  PROVE  \E g : /\ ReplacesUpTo(g, text, call)
                /\ FindAndReplace(text, call).body = g[Len(TagsOf(text))]
<1>1. PICK N \in Nat : N = Len(TagsOf(text))
  OBVIOUS
<1>2. PICK F : text \in Seq(F) /\ \A n \in 1..N : NewPlaceholder(text, call, n) \in F
  <2> DEFINE R == {text[i] : i \in DOMAIN text}
             P == {NewPlaceholder(text, call, n) : n \in 1..N}
  <2>1. text \in Seq(R \union P)
    <3>1. text \in Seq(R)
      BY DEF IsSequence
    <3> HIDE DEF R, P
    <3> QED BY <3>1
  <2> QED BY <2>1
<1>3. PICK step \in [(1..N) \X Seq(F) -> Seq(F)] :
        \A n \in 1..N : \A s \in Seq(F) :
          step[<<n, s>>] = ReplaceOnce(s, TagsOf(text)[n], NewPlaceholder(text, call, n))
  <2> DEFINE f == [a \in (1..N) \X Seq(F) |->
                     ReplaceOnce(a[2], TagsOf(text)[a[1]], NewPlaceholder(text, call, a[1]))]
  <2>1. \A n \in 1..N : \A s \in Seq(F) :
          f[<<n, s>>] = ReplaceOnce(s, TagsOf(text)[n], NewPlaceholder(text, call, n))
    OBVIOUS
  <2>2. f \in [(1..N) \X Seq(F) -> Seq(F)]
    BY <1>2, ReplaceOnceType
  <2> HIDE DEF f
  <2> QED BY <2>1, <2>2
<1>4. PICK g : /\ g \in [0..N -> Seq(F)]
               /\ g[0] = text
               /\ \A n \in 1..N : g[n] = step[<<n, g[n - 1]>>]
  <2>1. \E g : Recurs(g, N, Seq(F), text, step)
    BY <1>1, <1>2, <1>3, Recursion
  <2> QED BY <2>1 DEF Recurs
<1>5. \A n \in 1..N : n - 1 \in 0..N /\ n # 0
  OBVIOUS
<1>6. \A n \in 1..N : g[n - 1] \in Seq(F)
  BY <1>4, <1>5
<1>7. \A n \in 1..N :
        g[n] = ReplaceOnce(g[n - 1], TagsOf(text)[n], NewPlaceholder(text, call, n))
  BY <1>3, <1>4, <1>5, <1>6
<1>8. \A n \in 0..N :
        g[n] = IF n = 0 THEN text
               ELSE ReplaceOnce(g[n - 1], TagsOf(text)[n], NewPlaceholder(text, call, n))
  <2> TAKE n \in 0..N
  <2>1. CASE n = 0
    BY <1>4, <2>1
  <2>2. CASE n # 0
    <3>1. n \in 1..N
      BY <2>2
    <3> QED BY <1>7, <2>2, <3>1
  <2> QED BY <2>1, <2>2
<1>9. ReplacesUpTo(g, text, call)
  BY <1>1, <1>4, <1>8 DEF ReplacesUpTo
<1>10. ReplacesUpTo(CHOOSE h : ReplacesUpTo(h, text, call), text, call)
  BY <1>9
<1>11. FindAndReplace(text, call).body = (CHOOSE h : ReplacesUpTo(h, text, call))[N]
  BY <1>1 DEF FindAndReplace, ReplacesUpTo, NewPlaceholder
<1> QED BY <1>1, <1>10, <1>11

(* One more tag is replaced: of the fragments equal to it, the first that  *)
(* is left is the tag itself.                                              *)
LEMMA NextReplaced ==
  ASSUME NEW F, NEW body \in Seq(F), NEW text, NEW call, NEW pos, NEW N, NEW n \in Nat,
         n < N, Enumerates(pos, N, TagPlaces(text)),
         TagsOf(text)[n + 1] = text[pos[n + 1]],
         ReplacedUpTo(body, text, call, pos, n)
  PROVE  ReplacedUpTo(ReplaceOnce(body, TagsOf(text)[n + 1],
                                  NewPlaceholder(text, call, n + 1)),
                      text, call, pos, n + 1)
<1>1. /\ N \in Nat /\ pos \in [1..N -> Nat] /\ TagPlaces(text) = {pos[i] : i \in 1..N}
      /\ \A i, j \in 1..N : i < j => pos[i] < pos[j]
  BY DEF Enumerates
<1>2. /\ DOMAIN body = DOMAIN text
      /\ \A i \in 1..n : body[pos[i]] = NewPlaceholder(text, call, i)
      /\ \A k \in DOMAIN text : (\A i \in 1..n : k # pos[i]) => body[k] = text[k]
  BY DEF ReplacedUpTo
<1>3. n + 1 \in 1..N /\ \A i \in 1..n : i \in 1..N /\ i < n + 1
  BY <1>1
<1>4. PICK m \in Nat : m = pos[n + 1]
  BY <1>1, <1>3
<1>5. m \in DOMAIN text /\ IsTag(text[m]) /\ \A i \in 1..n : m # pos[i]
  <2>1. m \in TagPlaces(text)
    BY <1>1, <1>3, <1>4
  <2>2. ASSUME NEW i \in 1..n PROVE m # pos[i]
    <3>1. pos[i] < pos[n + 1] /\ pos[i] \in Nat
      BY <1>1, <1>3
    <3> QED BY <1>4, <3>1
  <2> QED BY <2>1, <2>2 DEF TagPlaces
<1>6. body[m] = TagsOf(text)[n + 1]
  BY <1>2, <1>4, <1>5
<1>7. ASSUME NEW k \in DOMAIN body, body[k] = TagsOf(text)[n + 1] PROVE m <= k
  <2>1. IsTag(body[k])
    BY <1>4, <1>5, <1>7
  <2>2. ASSUME NEW i \in 1..n PROVE k # pos[i]
    <3>1. body[pos[i]] = NewPlaceholder(text, call, i)
      BY <1>2
    <3>2. ~IsTag(NewPlaceholder(text, call, i))
      BY DEF NewPlaceholder, Placeholder, IsTag
    <3> QED BY <2>1, <3>1, <3>2
  <2>3. body[k] = text[k]
    BY <1>2, <2>2
  <2>4. k \in TagPlaces(text)
    BY <1>2, <2>1, <2>3 DEF TagPlaces
  <2>5. PICK j \in 1..N : k = pos[j]
    BY <1>1, <2>4
  <2>6. j \notin 1..n
    BY <2>2, <2>5
  <2>7. j = n + 1 \/ n + 1 < j
    BY <1>1, <2>5, <2>6
  <2>8. k \in Nat /\ (n + 1 < j => m < k)
    BY <1>1, <1>3, <1>4, <2>5
  <2> QED BY <1>4, <2>5, <2>7, <2>8
<1>8. ReplaceOnce(body, TagsOf(text)[n + 1], NewPlaceholder(text, call, n + 1))
        = [body EXCEPT ![m] = NewPlaceholder(text, call, n + 1)]
  <2>1. m \in DOMAIN body
    BY <1>2, <1>5
  <2>2. PICK old, new : old = TagsOf(text)[n + 1] /\ new = NewPlaceholder(text, call, n + 1)
    OBVIOUS
  <2>3. body[m] = old /\ \A k \in DOMAIN body : body[k] = old => m <= k
    BY <1>6, <1>7, <2>2
  <2>4. ReplaceOnce(body, old, new) = [body EXCEPT ![m] = new]
    BY <2>1, <2>3, ReplacedAtFirst
  <2> QED BY <2>2, <2>4
<1>9. PICK new : new = [body EXCEPT ![m] = NewPlaceholder(text, call, n + 1)]
  OBVIOUS
<1>10. DOMAIN new = DOMAIN text
  BY <1>2, <1>9
<1>11. ASSUME NEW i \in 1..(n + 1) PROVE new[pos[i]] = NewPlaceholder(text, call, i)
  <2>1. CASE i = n + 1
    BY <1>2, <1>4, <1>5, <1>9, <2>1
  <2>2. CASE i \in 1..n
    <3>1. pos[i] \in DOMAIN text
      BY <1>1, <1>3, <2>2 DEF TagPlaces
    <3> QED BY <1>2, <1>5, <1>9, <2>2, <3>1
  <2> QED BY <2>1, <2>2
<1>12. ASSUME NEW k \in DOMAIN text, \A i \in 1..(n + 1) : k # pos[i]
       PROVE  new[k] = text[k]
  <2>1. n + 1 \in 1..(n + 1) /\ \A i \in 1..n : i \in 1..(n + 1)
    OBVIOUS
  <2> QED BY <1>2, <1>4, <1>9, <1>12, <2>1
<1> QED BY <1>8, <1>9, <1>10, <1>11, <1>12 DEF ReplacedUpTo

(* What find_and_replace_embed_mentions returns: the places of the tags,   *)
(* in their order, hold placeholders, which the mentions resolve.          *)
Embeds(found, text, call, pos, N) ==
  /\ Enumerates(pos, N, TagPlaces(text))
  /\ IsSequence(found.body) /\ DOMAIN found.body = DOMAIN text
  /\ \A i \in 1..N :
       found.body[pos[i]] = Placeholder(Sigil(text[pos[i]].type), <<call, i>>)
  /\ \A k \in DOMAIN text : ~IsTag(text[k]) => found.body[k] = text[k]
  /\ IsSequence(found.mentions) /\ DOMAIN found.mentions = 1..N
  /\ \A i \in 1..N : found.mentions[i] = MentionOf(text[pos[i]], <<call, i>>)

LEMMA FindAndReplaceEmbeds ==
  ASSUME NEW text, IsSequence(text), NEW call
  PROVE  \E pos, N : Embeds(FindAndReplace(text, call), text, call, pos, N)
<1>1. PICK S : text \in Seq(S) /\ S = {text[i] : i \in DOMAIN text}
  BY DEF IsSequence
<1>2. TagPlaces(text) \in SUBSET DOMAIN text
  BY DEF TagPlaces
<1>3. PICK tags \in Seq(S) : tags = TagsOf(text)
  BY <1>1, <1>2, PickedEnumerates DEF TagsOf, TagPlaces
<1>4. PICK pos : ListsItems(tags, pos, text, TagPlaces(text))
  BY <1>1, <1>2, <1>3, PickedEnumerates DEF TagsOf, TagPlaces
<1>5. PICK N \in Nat : N = Len(tags)
  OBVIOUS
<1>6. Enumerates(pos, N, TagPlaces(text)) /\ \A i \in 1..N : tags[i] = text[pos[i]]
  BY <1>4, <1>5 DEF ListsItems
<1>7. PICK g : ReplacesUpTo(g, text, call) /\ FindAndReplace(text, call).body = g[N]
  BY <1>3, <1>5, ReplacementsSolve
<1>8. /\ g[0] = text
      /\ \A n \in 1..N :
           g[n] = ReplaceOnce(g[n - 1], tags[n], NewPlaceholder(text, call, n))
  <2>1. 0 \in 0..N /\ \A n \in 1..N : n \in 0..N /\ n # 0
    OBVIOUS
  <2> QED BY <1>3, <1>5, <1>7, <2>1 DEF ReplacesUpTo
<1>9. PICK F : text \in Seq(F) /\ \A n \in 1..N : NewPlaceholder(text, call, n) \in F
  <2> DEFINE P == {NewPlaceholder(text, call, n) : n \in 1..N}
  <2>1. text \in Seq(S \union P)
    <3> HIDE DEF P
    <3> QED BY <1>1
  <2> QED BY <2>1
<1> DEFINE Right(k) == g[k] \in Seq(F) /\ ReplacedUpTo(g[k], text, call, pos, k)
           Good == {k \in Nat : k <= N => Right(k)}
<1>10. 0 \in Good
  BY <1>8, <1>9 DEF ReplacedUpTo
<1>11. ASSUME NEW k \in Good PROVE k + 1 \in Good
  <2> SUFFICES ASSUME k + 1 <= N PROVE Right(k + 1)
    <3> HIDE DEF Right
    <3> QED BY <1>11
  <2>1. k \in Nat /\ k < N /\ k + 1 \in 1..N /\ (k + 1) - 1 = k
    OBVIOUS
  <2>2. g[k] \in Seq(F) /\ ReplacedUpTo(g[k], text, call, pos, k)
    BY <2>1
  <2>3. g[k + 1] = ReplaceOnce(g[k], tags[k + 1], NewPlaceholder(text, call, k + 1))
    BY <1>8, <2>1
  <2>4. g[k + 1] \in Seq(F)
    BY <1>9, <2>1, <2>2, <2>3, ReplaceOnceType
  <2>5. TagsOf(text)[k + 1] = text[pos[k + 1]]
    BY <1>3, <1>6, <2>1
  <2>6. ReplacedUpTo(g[k + 1], text, call, pos, k + 1)
    BY <1>3, <1>6, <2>1, <2>2, <2>3, <2>5, NextReplaced
  <2> QED BY <2>4, <2>6
<1> HIDE DEF Good
<1>12. Good = Nat
  <2>1. Good \in SUBSET Nat
    BY DEF Good
  <2> QED BY <1>10, <1>11, <2>1, SetInduction
<1>13. Right(N)
  BY <1>12 DEF Good
<1>14. PICK found : found = FindAndReplace(text, call)
  OBVIOUS
<1>15. found.body = g[N]
  BY <1>7, <1>14
<1>16. found.mentions = [n \in 1..N |-> MentionOf(tags[n], <<call, n>>)]
  <2>1. DOMAIN tags = 1..N
    BY <1>5
  <2> QED BY <1>3, <1>14, <2>1 DEF FindAndReplace
<1>17. IsSequence(found.body) /\ DOMAIN found.body = DOMAIN text
  <2>1. found.body \in Seq({found.body[i] : i \in DOMAIN found.body})
    BY <1>13, <1>15
  <2> QED BY <1>13, <1>15, <2>1 DEF ReplacedUpTo, IsSequence
<1>18. IsSequence(found.mentions) /\ DOMAIN found.mentions = 1..N
  <2> DEFINE M == {found.mentions[i] : i \in 1..N}
  <2>1. DOMAIN found.mentions = 1..N /\ found.mentions \in [1..N -> M]
    BY <1>16
  <2> HIDE DEF M
  <2>2. found.mentions \in Seq(M)
    BY <2>1
  <2> QED BY <2>1, <2>2 DEF M, IsSequence
<1>19. ASSUME NEW i \in 1..N
       PROVE  /\ found.body[pos[i]] = Placeholder(Sigil(text[pos[i]].type), <<call, i>>)
              /\ found.mentions[i] = MentionOf(text[pos[i]], <<call, i>>)
  <2>1. NewPlaceholder(text, call, i) = Placeholder(Sigil(text[pos[i]].type), <<call, i>>)
    BY <1>3, <1>6 DEF NewPlaceholder
  <2> QED BY <1>6, <1>13, <1>15, <1>16, <2>1 DEF ReplacedUpTo
<1>20. ASSUME NEW k \in DOMAIN text, ~IsTag(text[k]) PROVE found.body[k] = text[k]
  <2>1. \A i \in 1..N : k # pos[i]
    BY <1>6, <1>20 DEF Enumerates, TagPlaces
  <2> QED BY <1>13, <1>15, <2>1 DEF ReplacedUpTo
<1> QED BY <1>6, <1>14, <1>17, <1>18, <1>19, <1>20 DEF Embeds

-----------------------------------------------------------------------------
(* What the cleaning makes of the parts of a payload.                      *)
KeptPart(value, part) ==
  value # Undefined /\ (Holds(value) => ~Empty(part) \/ Empty(value))

LEMMA DictCleaned ==
  ASSUME NEW fields, NEW parts
  PROVE  LET cleaned == Cleaned(Dict(fields), parts)
         IN /\ \A f : f \in DOMAIN cleaned.of
                        <=> f \in DOMAIN fields /\ KeptPart(fields[f], parts[f])
            /\ \A f \in DOMAIN cleaned.of : cleaned.of[f] = parts[f]
<1> DEFINE Kept == {f \in DOMAIN fields : KeptPart(fields[f], parts[f])}
<1>1. Cleaned(Dict(fields), parts) = Dict([f \in Kept |-> parts[f]])
  BY DEF Cleaned, Dict, KeptPart
<1>2. Dict([f \in Kept |-> parts[f]]).of = [f \in Kept |-> parts[f]]
  BY DEF Dict
<1> QED BY <1>1, <1>2

LEMMA Clean2Dict ==
  ASSUME NEW fields
  PROVE  /\ \A f : f \in DOMAIN Clean2(Dict(fields)).of
                     <=> f \in DOMAIN fields /\ KeptPart(fields[f], Clean1(fields[f]))
         /\ \A f \in DOMAIN Clean2(Dict(fields)).of :
              Clean2(Dict(fields)).of[f] = Clean1(fields[f])
<1> DEFINE parts == [f \in DOMAIN fields |-> Clean1(fields[f])]
<1>1. Clean2(Dict(fields)) = Cleaned(Dict(fields), parts)
  BY DEF Clean2, Within, Dict
<1>2. \A f \in DOMAIN fields : parts[f] = Clean1(fields[f])
  OBVIOUS
<1> HIDE DEF parts
<1> QED BY <1>1, <1>2, DictCleaned

LEMMA Clean3Dict ==
  ASSUME NEW fields
  PROVE  /\ \A f : f \in DOMAIN Clean3(Dict(fields)).of
                     <=> f \in DOMAIN fields /\ KeptPart(fields[f], Clean2(fields[f]))
         /\ \A f \in DOMAIN Clean3(Dict(fields)).of :
              Clean3(Dict(fields)).of[f] = Clean2(fields[f])
<1> DEFINE parts == [f \in DOMAIN fields |-> Clean2(fields[f])]
<1>1. Clean3(Dict(fields)) = Cleaned(Dict(fields), parts)
  BY DEF Clean3, Within, Dict
<1>2. \A f \in DOMAIN fields : parts[f] = Clean2(fields[f])
  OBVIOUS
<1> HIDE DEF parts
<1> QED BY <1>1, <1>2, DictCleaned

LEMMA Clean5Dict ==
  ASSUME NEW fields
  PROVE  /\ \A f : f \in DOMAIN Clean5(Dict(fields)).of
                     <=> f \in DOMAIN fields /\ KeptPart(fields[f], Clean4(fields[f]))
         /\ \A f \in DOMAIN Clean5(Dict(fields)).of :
              Clean5(Dict(fields)).of[f] = Clean4(fields[f])
<1> DEFINE parts == [f \in DOMAIN fields |-> Clean4(fields[f])]
<1>1. Clean5(Dict(fields)) = Cleaned(Dict(fields), parts)
  BY DEF Clean5, Within, Dict
<1>2. \A f \in DOMAIN fields : parts[f] = Clean4(fields[f])
  OBVIOUS
<1> HIDE DEF parts
<1> QED BY <1>1, <1>2, DictCleaned

LEMMA TopDict ==
  ASSUME NEW fields
  PROVE  /\ \A f : f \in DOMAIN RemoveUndefined(Dict(fields)).of
                     <=> f \in DOMAIN fields /\ KeptPart(fields[f], Clean5(fields[f]))
         /\ \A f \in DOMAIN RemoveUndefined(Dict(fields)).of :
              RemoveUndefined(Dict(fields)).of[f] = Clean5(fields[f])
<1> DEFINE parts == [f \in DOMAIN fields |-> Clean5(fields[f])]
<1>1. RemoveUndefined(Dict(fields)) = Cleaned(Dict(fields), parts)
  BY DEF RemoveUndefined, Within, Dict
<1>2. \A f \in DOMAIN fields : parts[f] = Clean5(fields[f])
  OBVIOUS
<1> HIDE DEF parts
<1> QED BY <1>1, <1>2, DictCleaned

(* A part that has been cleaned and is not empty, or is no holder, stays.  *)
LEMMA LeafStays ==
  ASSUME NEW value, IsLeaf(value), NEW part
  PROVE  KeptPart(value, part)
BY LeafFacts DEF KeptPart

LEMMA DataCleaned ==
  ASSUME NEW key, key # "name", NEW entity, NEW name, name = Undefined \/ IsLeaf(name),
         NEW data, DOMAIN data = {key, "name"}, data = [f \in DOMAIN data |-> data[f]],
         data["name"] = name, data[key] = Leaf(entity)
  PROVE  /\ Made2(Dict(data))
         /\ Clean2(Dict(data)).of[key] = Leaf(entity)
         /\ ~Empty(Clean2(Dict(data)))
         /\ ("name" \in DOMAIN Clean2(Dict(data)).of) = (name # Undefined)
<1>1. IsLeaf(Leaf(entity))
  BY DEF IsLeaf, Leaf
<1>2. \A f \in DOMAIN data : data[f] = Undefined \/ IsLeaf(data[f])
  BY <1>1
<1>3. Clean1(Leaf(entity)) = Leaf(entity)
  BY <1>1, LeafFacts
<1>4. key \in DOMAIN Clean2(Dict(data)).of /\ Clean2(Dict(data)).of[key] = Leaf(entity)
  <2>1. KeptPart(data[key], Clean1(data[key]))
    BY <1>1, LeafStays
  <2> QED BY <1>3, <2>1, Clean2Dict
<1>5. ("name" \in DOMAIN Clean2(Dict(data)).of) = (name # Undefined)
  <2>1. "name" \in DOMAIN data
    OBVIOUS
  <2>2. CASE name = Undefined
    <3>1. ~KeptPart(data["name"], Clean1(data["name"]))
      BY <2>2 DEF KeptPart
    <3> QED BY <2>2, <3>1, Clean2Dict
  <2>3. CASE IsLeaf(name)
    <3>1. KeptPart(data["name"], Clean1(data["name"])) /\ name # Undefined
      BY <2>3, LeafStays, LeafFacts
    <3>2. "name" \in DOMAIN Clean2(Dict(data)).of
      BY <2>1, <3>1, Clean2Dict
    <3> QED BY <3>1, <3>2
  <2> QED BY <2>2, <2>3
<1>6. Made2(Dict(data))
  <2>1. \A f \in DOMAIN data : Made1(data[f])
    BY <1>2, SimpleMade
  <2> QED BY <2>1, DictFacts DEF Made2, WithParts
<1> QED BY <1>4, <1>5, <1>6 DEF Empty

(* A mention as the cleaning leaves it.                                    *)
Resolves(mention, tag, id) ==
  /\ mention.mention_id = Leaf(id)
  /\ mention.mention_type = Leaf(tag.type)
  /\ tag.type # "ALL" =>
       /\ mention.mention_data.of[EntityKey(tag.type)] = Leaf(tag.entity)
       /\ ("name" \in DOMAIN mention.mention_data.of) = (tag.name # "")

LEMMA MentionCleaned ==
  ASSUME NEW tag, NEW id
  PROVE  LET mention == MentionOf(tag, id)
         IN /\ Made3(mention) /\ mention # Undefined /\ Holds(mention)
            /\ ~Empty(Clean3(mention))
            /\ Resolves(Clean3(mention).of, tag, id)
<1> DEFINE type == Leaf(tag.type)
           key == EntityKey(tag.type)
           name == IF tag.name = "" THEN Undefined ELSE Leaf(tag.name)
<1>1. /\ IsLeaf(type) /\ IsLeaf(Leaf(id)) /\ key # "name"
      /\ name = Undefined \/ IsLeaf(name)
      /\ (name # Undefined) = (tag.name # "")
  BY DEF IsLeaf, Leaf, EntityKey, Undefined
<1>2. Clean2(type) = type /\ Clean2(Leaf(id)) = Leaf(id)
  BY <1>1, LeafFacts
<1> HIDE DEF type, name, key
<1>3. PICK data :
        data = [f \in {key, "name"} |-> IF f = "name" THEN name ELSE Leaf(tag.entity)]
  OBVIOUS
<1>4. /\ DOMAIN data = {key, "name"} /\ data = [f \in DOMAIN data |-> data[f]]
      /\ data["name"] = name /\ data[key] = Leaf(tag.entity)
  BY <1>1, <1>3
<1>5. /\ Made2(Dict(data)) /\ ~Empty(Clean2(Dict(data)))
      /\ Clean2(Dict(data)).of[key] = Leaf(tag.entity)
      /\ ("name" \in DOMAIN Clean2(Dict(data)).of) = (name # Undefined)
  <2>1. PICK k, n, e : k = key /\ n = name /\ e = tag.entity
    OBVIOUS
  <2>2. /\ k # "name" /\ (n = Undefined \/ IsLeaf(n))
        /\ DOMAIN data = {k, "name"} /\ data = [f \in DOMAIN data |-> data[f]]
        /\ data["name"] = n /\ data[k] = Leaf(e)
    BY <1>1, <1>4, <2>1
  <2>3. /\ Made2(Dict(data)) /\ ~Empty(Clean2(Dict(data)))
        /\ Clean2(Dict(data)).of[k] = Leaf(e)
        /\ ("name" \in DOMAIN Clean2(Dict(data)).of) = (n # Undefined)
    BY <2>2, DataCleaned
  <2> QED BY <2>1, <2>3
<1>6. Dict(data) # Undefined
  BY DEF Dict, Undefined
<1> DEFINE some == [mention_type |-> type, mention_id |-> Leaf(id)]
           whole == [mention_type |-> type, mention_id |-> Leaf(id), mention_data |-> Dict(data)]
<1>7. MentionOf(tag, id) = IF tag.type = "ALL" THEN Dict(some) ELSE Dict(whole)
  BY <1>3 DEF MentionOf, MentionWith, type, key, name
<1>8. ASSUME NEW fields, fields = [f \in DOMAIN fields |-> fields[f]],
             {"mention_type", "mention_id"} \subseteq DOMAIN fields,
             DOMAIN fields \subseteq {"mention_type", "mention_id", "mention_data"},
             fields.mention_type = type, fields.mention_id = Leaf(id),
             "mention_data" \in DOMAIN fields => fields.mention_data = Dict(data)
      PROVE  LET cleaned == Clean3(Dict(fields))
             IN /\ Made3(Dict(fields)) /\ Dict(fields) # Undefined /\ Holds(Dict(fields))
                /\ ~Empty(cleaned)
                /\ cleaned.of.mention_type = type /\ cleaned.of.mention_id = Leaf(id)
                /\ "mention_data" \in DOMAIN fields =>
                     cleaned.of.mention_data = Clean2(Dict(data))
  <2>1. /\ KeptPart(type, Clean2(type)) /\ KeptPart(Leaf(id), Clean2(Leaf(id)))
        /\ KeptPart(Dict(data), Clean2(Dict(data)))
    BY <1>1, <1>5, <1>6, LeafStays DEF KeptPart
  <2>2. \A f \in DOMAIN fields : Made2(fields[f])
    BY <1>1, <1>5, <1>8, SimpleMade
  <2>3. Made3(Dict(fields)) /\ Dict(fields) # Undefined /\ Holds(Dict(fields))
    BY <1>8, <2>2, DictFacts DEF Made3, WithParts
  <2>4. /\ "mention_type" \in DOMAIN Clean3(Dict(fields)).of
        /\ "mention_id" \in DOMAIN Clean3(Dict(fields)).of
        /\ "mention_data" \in DOMAIN fields =>
             "mention_data" \in DOMAIN Clean3(Dict(fields)).of
    BY <1>8, <2>1, Clean3Dict
  <2>5. ~Empty(Clean3(Dict(fields)))
    BY <2>4 DEF Empty
  <2> QED BY <1>2, <1>8, <2>3, <2>4, <2>5, Clean3Dict
<1>9. CASE tag.type = "ALL"
  <2>1. PICK fields : fields = some
    OBVIOUS
  <2>2. /\ DOMAIN fields = {"mention_type", "mention_id"}
        /\ fields = [f \in DOMAIN fields |-> fields[f]]
        /\ fields.mention_type = type /\ fields.mention_id = Leaf(id)
    BY <2>1
  <2>3. MentionOf(tag, id) = Dict(fields)
    BY <1>7, <1>9, <2>1
  <2> QED BY <1>8, <1>9, <2>2, <2>3 DEF Resolves, type
<1>10. CASE tag.type # "ALL"
  <2>1. PICK fields : fields = whole
    OBVIOUS
  <2>2. /\ DOMAIN fields = {"mention_type", "mention_id", "mention_data"}
        /\ fields = [f \in DOMAIN fields |-> fields[f]]
        /\ fields.mention_type = type /\ fields.mention_id = Leaf(id)
        /\ fields.mention_data = Dict(data)
    BY <2>1
  <2>3. MentionOf(tag, id) = Dict(fields)
    BY <1>7, <1>10, <2>1
  <2>4. /\ Made3(Dict(fields)) /\ Dict(fields) # Undefined /\ Holds(Dict(fields))
        /\ ~Empty(Clean3(Dict(fields)))
        /\ Clean3(Dict(fields)).of.mention_type = type
        /\ Clean3(Dict(fields)).of.mention_id = Leaf(id)
        /\ Clean3(Dict(fields)).of.mention_data = Clean2(Dict(data))
    BY <1>8, <2>2
  <2> QED BY <1>1, <1>5, <2>3, <2>4 DEF Resolves, type, key
<1> QED BY <1>9, <1>10

(* A list whose items all stay.                                            *)
LEMMA Clean3List ==
  ASSUME NEW S, NEW items \in Seq(S),
         \A i \in DOMAIN items : KeptPart(items[i], Clean2(items[i])) /\ Made2(items[i])
  PROVE  /\ Clean3(List(items)) = List([i \in DOMAIN items |-> Clean2(items[i])])
         /\ Made3(List(items))
         /\ KeptPart(List(items), Clean3(List(items)))
<1> DEFINE parts == [i \in DOMAIN items |-> Clean2(items[i])]
<1>1. Clean3(List(items)) = Cleaned(List(items), parts)
  BY DEF Clean3, Within, List
<1>2. /\ parts = [i \in DOMAIN items |-> parts[i]] /\ DOMAIN parts = DOMAIN items
      /\ \A i \in DOMAIN items : parts[i] = Clean2(items[i])
  OBVIOUS
<1> HIDE DEF parts
<1>3. Cleaned(List(items), parts) = List(parts)
  BY <1>2, ListKept DEF KeptPart
<1>4. Made3(List(items)) /\ List(items) # Undefined
  BY ListFacts DEF Made3, WithParts
<1>5. KeptPart(List(items), List(parts))
  BY <1>2, <1>4 DEF KeptPart, Empty, List
<1> QED BY <1>1, <1>3, <1>4, <1>5 DEF parts

LEMMA Clean4List ==
  ASSUME NEW S, NEW items \in Seq(S),
         \A i \in DOMAIN items : KeptPart(items[i], Clean3(items[i])) /\ Made3(items[i])
  PROVE  /\ Clean4(List(items)) = List([i \in DOMAIN items |-> Clean3(items[i])])
         /\ Made4(List(items))
         /\ KeptPart(List(items), Clean4(List(items)))
<1> DEFINE parts == [i \in DOMAIN items |-> Clean3(items[i])]
<1>1. Clean4(List(items)) = Cleaned(List(items), parts)
  BY DEF Clean4, Within, List
<1>2. /\ parts = [i \in DOMAIN items |-> parts[i]] /\ DOMAIN parts = DOMAIN items
      /\ \A i \in DOMAIN items : parts[i] = Clean3(items[i])
  OBVIOUS
<1> HIDE DEF parts
<1>3. Cleaned(List(items), parts) = List(parts)
  BY <1>2, ListKept DEF KeptPart
<1>4. Made4(List(items)) /\ List(items) # Undefined
  BY ListFacts DEF Made4, WithParts
<1>5. KeptPart(List(items), List(parts))
  BY <1>2, <1>4 DEF KeptPart, Empty, List
<1> QED BY <1>1, <1>3, <1>4, <1>5 DEF parts

LEMMA ButtonCleaned ==
  ASSUME NEW button
  PROVE  LET api == ApiButton(button)
         IN /\ Made2(api) /\ KeptPart(api, Clean2(api))
            /\ Clean2(api).of.label.of = button.label
<1> DEFINE link == IF button.link THEN Leaf(TRUE) ELSE Undefined
           handler == IF button.client \/ button.link THEN Leaf("client") ELSE Undefined
           alert == IF button.alert THEN Leaf(TRUE) ELSE Undefined
           set == [silent |-> Leaf(TRUE), link |-> link, handler |-> handler,
                   show_alert |-> alert]
           api == [label |-> Leaf(button.label), data |-> Absent, opts |-> Dict(set)]
<1>1. PICK opts : opts = set
  OBVIOUS
<1>2. PICK fields : fields = api
  OBVIOUS
<1>3. ApiButton(button) = Dict(fields)
  BY <1>2 DEF ApiButton
<1>4. /\ DOMAIN fields = {"label", "data", "opts"}
      /\ fields = [f \in DOMAIN fields |-> fields[f]]
      /\ fields.label = Leaf(button.label) /\ fields.data = Absent
      /\ fields.opts = Dict(opts)
  BY <1>1, <1>2
<1>5. opts = [f \in DOMAIN opts |-> opts[f]]
  BY <1>1
<1>6. IsMade(Dict(opts))
  BY <1>5, DictFacts
<1>7. IsMade(Absent)
  <2>1. PICK none : none = <<>>
    OBVIOUS
  <2>2. none = [f \in DOMAIN none |-> none[f]]
    BY <2>1
  <2> QED BY <2>1, <2>2, DictFacts DEF Absent
<1>8. IsLeaf(Leaf(button.label)) /\ Leaf(button.label).of = button.label
  BY DEF IsLeaf, Leaf
<1>9. Made2(Dict(fields)) /\ Dict(fields) # Undefined /\ Holds(Dict(fields))
  <2>1. \A f \in DOMAIN fields : Made1(fields[f])
    BY <1>4, <1>6, <1>7, <1>8, LeafFacts DEF Made1
  <2> QED BY <1>4, <2>1, DictFacts DEF Made2, WithParts
<1>10. /\ "label" \in DOMAIN Clean2(Dict(fields)).of
       /\ Clean2(Dict(fields)).of.label = Leaf(button.label)
  <2>1. KeptPart(fields.label, Clean1(fields.label)) /\ Clean1(fields.label) = fields.label
    BY <1>4, <1>8, LeafStays, LeafFacts
  <2> QED BY <1>4, <2>1, Clean2Dict
<1>11. KeptPart(Dict(fields), Clean2(Dict(fields)))
  BY <1>9, <1>10 DEF KeptPart, Empty
<1> QED BY <1>3, <1>8, <1>9, <1>10, <1>11

(* A markup reaches BotX with all its rows and buttons.                    *)
LEMMA MarkupCleaned ==
  ASSUME NEW bubble, bubble # Undefined, IsRows(bubble.of)
  PROVE  LET markup == Markup(bubble)
         IN /\ Made4(markup) /\ KeptPart(markup, Clean4(markup))
            /\ Labels(Clean4(markup)) = Wanted(bubble)
<1>1. PICK rows : rows = bubble.of
  OBVIOUS
<1>2. IsSequence(rows) /\ \A r \in DOMAIN rows : IsSequence(rows[r])
  BY <1>1 DEF IsRows
<1> DEFINE Row(r) == [b \in DOMAIN rows[r] |-> ApiButton(rows[r][b])]
           lists == [r \in DOMAIN rows |-> List(Row(r))]
<1>3. Markup(bubble) = List(lists)
  BY <1>1 DEF Markup
<1>4. ASSUME NEW r \in DOMAIN rows
      PROVE  /\ Clean3(List(Row(r))) =
                   List([b \in DOMAIN rows[r] |-> Clean2(ApiButton(rows[r][b]))])
             /\ Made3(List(Row(r)))
             /\ KeptPart(List(Row(r)), Clean3(List(Row(r))))
  <2>1. PICK row : row = Row(r)
    OBVIOUS
  <2>2. /\ row = [b \in DOMAIN rows[r] |-> row[b]] /\ DOMAIN row = DOMAIN rows[r]
        /\ \A b \in DOMAIN rows[r] : row[b] = ApiButton(rows[r][b])
    BY <2>1
  <2>3. PICK S : row \in Seq(S)
    <3>1. rows[r] \in Seq({rows[r][b] : b \in DOMAIN rows[r]})
      BY <1>2 DEF IsSequence
    <3> QED BY <2>2, <3>1, MappedSeq
  <2>4. \A b \in DOMAIN row : KeptPart(row[b], Clean2(row[b])) /\ Made2(row[b])
    BY <2>2, ButtonCleaned
  <2>5. /\ Clean3(List(row)) = List([b \in DOMAIN row |-> Clean2(row[b])])
        /\ Made3(List(row)) /\ KeptPart(List(row), Clean3(List(row)))
    BY <2>3, <2>4, Clean3List
  <2>6. [b \in DOMAIN row |-> Clean2(row[b])] =
          [b \in DOMAIN rows[r] |-> Clean2(ApiButton(rows[r][b]))]
    BY <2>2
  <2> QED BY <2>1, <2>5, <2>6
<1>5. PICK all : all = lists
  OBVIOUS
<1>6. /\ all = [r \in DOMAIN rows |-> all[r]] /\ DOMAIN all = DOMAIN rows
      /\ \A r \in DOMAIN rows : all[r] = List(Row(r))
  BY <1>5
<1>7. PICK S : all \in Seq(S)
  <2>1. rows \in Seq({rows[r] : r \in DOMAIN rows})
    BY <1>2 DEF IsSequence
  <2> HIDE DEF Row
  <2> QED BY <1>6, <2>1, MappedSeq
<1>8. \A r \in DOMAIN all : KeptPart(all[r], Clean3(all[r])) /\ Made3(all[r])
  BY <1>4, <1>6
<1>9. /\ Clean4(List(all)) = List([r \in DOMAIN all |-> Clean3(all[r])])
      /\ Made4(List(all)) /\ KeptPart(List(all), Clean4(List(all)))
  BY <1>7, <1>8, Clean4List
<1>10. PICK cleaned : cleaned = Clean4(List(all)).of
  OBVIOUS
<1>11. cleaned = [r \in DOMAIN rows |-> Clean3(all[r])]
  BY <1>6, <1>9, <1>10 DEF List
<1>12. ASSUME NEW r \in DOMAIN rows
       PROVE  cleaned[r].of = [b \in DOMAIN rows[r] |-> Clean2(ApiButton(rows[r][b]))]
  <2>1. cleaned[r] = Clean3(List(Row(r)))
    BY <1>6, <1>11
  <2>2. PICK row : row = [b \in DOMAIN rows[r] |-> Clean2(ApiButton(rows[r][b]))]
    OBVIOUS
  <2>3. Clean3(List(Row(r))) = List(row)
    BY <1>4, <2>2
  <2>4. List(row).of = row
    BY DEF List
  <2> QED BY <2>1, <2>2, <2>3, <2>4, Zenon
<1>13. ASSUME NEW r \in DOMAIN rows
       PROVE  [b \in DOMAIN cleaned[r].of |-> cleaned[r].of[b].of.label.of]
                = [b \in DOMAIN rows[r] |-> rows[r][b].label]
  <2>1. PICK row : row = cleaned[r].of
    OBVIOUS
  <2>2. DOMAIN row = DOMAIN rows[r] /\ \A b \in DOMAIN rows[r] :
          row[b].of.label.of = rows[r][b].label
    BY <1>12, <2>1, ButtonCleaned
  <2> QED BY <2>1, <2>2
<1>14. Labels(Clean4(List(all))) = Wanted(bubble)
  <2>1. DOMAIN cleaned = DOMAIN rows
    BY <1>11
  <2>2. Labels(Clean4(List(all))) =
          [r \in DOMAIN rows |-> [b \in DOMAIN cleaned[r].of |-> cleaned[r].of[b].of.label.of]]
    BY <1>10, <2>1 DEF Labels
  <2>3. Wanted(bubble) = [r \in DOMAIN rows |-> [b \in DOMAIN rows[r] |-> rows[r][b].label]]
    BY <1>1 DEF Wanted
  <2> QED BY <1>13, <2>2, <2>3
<1> QED BY <1>3, <1>5, <1>9, <1>14

-----------------------------------------------------------------------------
(* The payloads.  What a call is given, once its mentions are found.       *)
WellAsked(a) ==
  /\ a.op \in {"send", "reply", "edit"}
  /\ a.extra \in Extras
  /\ \/ a.op = "edit" /\ a.body = Undefined
     \/ \E b \in Bodies : a.body = Leaf(b)

Mentions(a, found) ==
  IF a.body = Undefined \/ (a.op # "edit" /\ found.mentions = <<>>) THEN Undefined
  ELSE List(found.mentions)

ContentHas(content, a, found) ==
  /\ DOMAIN content = {"body", "metadata", "bubble", "mentions", "opts"}
  /\ content = [f \in DOMAIN content |-> content[f]]
  /\ content.body = IF a.body = Undefined THEN Undefined ELSE Leaf(found.body)
  /\ content.metadata = a.extra.metadata
  /\ content.bubble = Markup(a.extra.bubble)
  /\ content.mentions = Mentions(a, found)
  /\ Made4(content.opts)

PayloadHas(fields, content, a) ==
  /\ DOMAIN fields = {"content", "file", "opts"}
  /\ fields = [f \in DOMAIN fields |-> fields[f]]
  /\ fields.content = Dict(content)
  /\ fields.file = a.extra.file
  /\ Made5(fields.opts)

LEMMA SmallOptions ==
  ASSUME NEW fields, fields = [f \in DOMAIN fields |-> fields[f]],
         \A f \in DOMAIN fields : fields[f] = Undefined \/ IsLeaf(fields[f])
  PROVE  Made4(Dict(fields)) /\ Made5(Dict(fields))
BY SimpleMade, DictFacts DEF Made4, Made5, WithParts

LEMMA ContentIs ==
  ASSUME NEW a, WellAsked(a), NEW found, NEW body, NEW mentions,
         body = IF a.body = Undefined THEN Undefined ELSE Leaf(found.body),
         mentions = Mentions(a, found)
  PROVE  \E content : Content(a, body, mentions) = Dict(content)
                       /\ ContentHas(content, a, found)
<1>1. PICK option : option = a.extra.option /\ (option = Undefined \/ IsLeaf(option))
  BY OutgoingMessageAssumption DEF WellAsked, IsLeaf
<1>2. Made4(Dict([buttons_auto_adjust |-> option]))
  <2>1. PICK opts : opts = [buttons_auto_adjust |-> option]
    OBVIOUS
  <2>2. /\ opts = [f \in DOMAIN opts |-> opts[f]]
        /\ \A f \in DOMAIN opts : opts[f] = Undefined \/ IsLeaf(opts[f])
    BY <1>1, <2>1
  <2> QED BY <2>1, <2>2, SmallOptions
<1>3. PICK opts, metadata, bubble :
        /\ opts = Dict([buttons_auto_adjust |-> option])
        /\ metadata = a.extra.metadata /\ bubble = Markup(a.extra.bubble)
  OBVIOUS
<1>4. PICK content :
        content = [body |-> body, metadata |-> metadata, bubble |-> bubble,
                   mentions |-> mentions, opts |-> opts]
  OBVIOUS
<1>5. Content(a, body, mentions) = Dict(content)
  BY <1>1, <1>3, <1>4 DEF Content
<1>6. /\ DOMAIN content = {"body", "metadata", "bubble", "mentions", "opts"}
      /\ content = [f \in DOMAIN content |-> content[f]]
      /\ content.body = body /\ content.metadata = metadata /\ content.bubble = bubble
      /\ content.mentions = mentions /\ content.opts = opts
  BY <1>4
<1>7. ContentHas(content, a, found)
  BY <1>2, <1>3, <1>6 DEF ContentHas
<1> QED BY <1>5, <1>7

(* Whatever the call, its payload holds the text with its tags replaced,   *)
(* and its mentions, the rest of the arguments, and options.               *)
LEMMA PayloadIs ==
  ASSUME NEW a, WellAsked(a), NEW call
  PROVE  \E fields, content : /\ Payload(a, call) = Dict(fields)
                               /\ PayloadHas(fields, content, a)
                               /\ ContentHas(content, a, Replaced(a, call))
<1>1. PICK found : found = Replaced(a, call)
  OBVIOUS
<1>2. PICK body, mentions :
        /\ body = IF a.body = Undefined THEN Undefined ELSE Leaf(found.body)
        /\ mentions = Mentions(a, found)
  OBVIOUS
<1>3. PICK content : Content(a, body, mentions) = Dict(content) /\ ContentHas(content, a, found)
  BY <1>2, ContentIs
<1>4. PICK option, file :
        /\ option = a.extra.option /\ (option = Undefined \/ IsLeaf(option))
        /\ file = a.extra.file
  BY OutgoingMessageAssumption DEF WellAsked, IsLeaf
<1>5. PICK nested : nested = Dict([send |-> option, force_dnd |-> Undefined]) /\ Made4(nested)
  <2>1. PICK n : n = [send |-> option, force_dnd |-> Undefined]
    OBVIOUS
  <2>2. /\ n = [f \in DOMAIN n |-> n[f]]
        /\ \A f \in DOMAIN n : n[f] = Undefined \/ IsLeaf(n[f])
    BY <1>4, <2>1
  <2> QED BY <2>1, <2>2, SmallOptions
<1>6. ASSUME NEW opts, Made5(opts),
             Payload(a, call) = Dict([content |-> Dict(content), file |-> file, opts |-> opts])
      PROVE  \E fields : Payload(a, call) = Dict(fields) /\ PayloadHas(fields, content, a)
  <2>1. PICK fields : fields = [content |-> Dict(content), file |-> file, opts |-> opts]
    OBVIOUS
  <2>2. /\ DOMAIN fields = {"content", "file", "opts"}
        /\ fields = [f \in DOMAIN fields |-> fields[f]]
        /\ fields.content = Dict(content) /\ fields.file = file /\ fields.opts = opts
    BY <2>1
  <2> QED BY <1>4, <1>6, <2>1, <2>2 DEF PayloadHas
<1>7. a.op # "edit" => /\ Content(a, Leaf(found.body),
                                  IF found.mentions = <<>> THEN Undefined
                                  ELSE List(found.mentions)) = Dict(content)
  <2>1. a.op # "edit" => a.body # Undefined
    <3>1. \A b : Leaf(b) # Undefined
      BY DEF Leaf, Undefined
    <3> QED BY <3>1 DEF WellAsked
  <2> QED BY <1>2, <1>3, <2>1 DEF Mentions
<1>8. PICK flags : flags = [stealth_mode |-> Undefined, notification_opts |-> nested]
  OBVIOUS
<1>9. a.op # "edit" =>
        SendPayload(a, call) =
          Dict([content |-> Dict(content), file |-> file, opts |-> Dict(flags)])
  BY <1>1, <1>4, <1>5, <1>7, <1>8 DEF SendPayload
<1>10. CASE a.op = "send"
  <2>1. Made5(Dict(flags))
    <3>1. flags = [f \in DOMAIN flags |-> flags[f]] /\ \A f \in DOMAIN flags : Made4(flags[f])
      BY <1>5, <1>8, SimpleMade
    <3> QED BY <3>1, DictFacts DEF Made5, WithParts
  <2>2. Payload(a, call) = Dict([content |-> Dict(content), file |-> file, opts |-> Dict(flags)])
    BY <1>9, <1>10 DEF Payload
  <2> QED BY <1>1, <1>3, <1>6, <2>1, <2>2
<1>11. CASE a.op = "reply"
  <2>1. PICK raw : raw = [stealth_mode |-> Undefined, raw_mentions |-> Leaf(TRUE),
                          notification_opts |-> nested]
    OBVIOUS
  <2>2. Made5(Dict(raw))
    <3>1. raw = [f \in DOMAIN raw |-> raw[f]] /\ \A f \in DOMAIN raw : Made4(raw[f])
      BY <1>5, <2>1, SimpleMade DEF IsLeaf, Leaf
    <3> QED BY <3>1, DictFacts DEF Made5, WithParts
  <2>3. Payload(a, call) = Dict([content |-> Dict(content), file |-> file, opts |-> Dict(raw)])
    <3>1. PICK sent : sent = [content |-> Dict(content), file |-> file, opts |-> Dict(flags)]
      OBVIOUS
    <3>2. SendPayload(a, call).of = sent /\ sent.opts.of.notification_opts = nested
      BY <1>8, <1>9, <1>11, <3>1 DEF Dict
    <3>3. Payload(a, call) = Dict([sent EXCEPT !.opts = Dict(raw)])
      BY <1>11, <2>1, <3>2 DEF Payload, ReplyPayload
    <3>4. [sent EXCEPT !.opts = Dict(raw)] =
            [content |-> Dict(content), file |-> file, opts |-> Dict(raw)]
      BY <3>1
    <3> QED BY <3>3, <3>4
  <2> QED BY <1>1, <1>3, <1>6, <2>2, <2>3
<1>12. CASE a.op = "edit"
  <2> DEFINE flag == IF ~(a.body = Undefined) /\ found.mentions # <<>>
                     THEN Leaf(TRUE) ELSE Undefined
  <2>1. flag = Undefined \/ IsLeaf(flag)
    BY DEF IsLeaf, Leaf
  <2> HIDE DEF flag
  <2>2. PICK raw : raw = [raw_mentions |-> flag]
    OBVIOUS
  <2>3. Made5(Dict(raw))
    <3>1. /\ raw = [f \in DOMAIN raw |-> raw[f]]
          /\ \A f \in DOMAIN raw : raw[f] = Undefined \/ IsLeaf(raw[f])
      BY <2>1, <2>2
    <3> QED BY <3>1, SmallOptions
  <2>4. Content(a, IF a.body = Undefined THEN Undefined ELSE Leaf(found.body),
                IF a.body = Undefined THEN Undefined ELSE List(found.mentions)) = Dict(content)
    BY <1>2, <1>3, <1>12 DEF Mentions
  <2>5. Payload(a, call) = Dict([content |-> Dict(content), file |-> file, opts |-> Dict(raw)])
    BY <1>1, <1>4, <1>12, <2>2, <2>4 DEF Payload, EditPayload, flag
  <2> QED BY <1>1, <1>3, <1>6, <2>3, <2>5
<1> QED BY <1>10, <1>11, <1>12 DEF WellAsked

(* What BotX finds in a payload that has been cleaned.                     *)
LEMMA BroughtIs ==
  ASSUME NEW fields, NEW content, NEW a, NEW found,
         PayloadHas(fields, content, a), ContentHas(content, a, found)
  PROVE  LET j == RemoveUndefined(Dict(fields))
         IN /\ \A f \in {"body", "metadata", "bubble", "mentions"} :
                 Brought(j, f) = IF KeptPart(content[f], Clean4(content[f]))
                                 THEN Clean4(content[f]) ELSE Undefined
            /\ Brought(j, "file") = IF KeptPart(a.extra.file, Clean5(a.extra.file))
                                    THEN Clean5(a.extra.file) ELSE Undefined
<1>1. PICK j : j = RemoveUndefined(Dict(fields))
  OBVIOUS
<1>2. PICK c : c = Clean5(Dict(content))
  OBVIOUS
<1>3. /\ \A f : f \in DOMAIN c.of
                   <=> f \in DOMAIN content /\ KeptPart(content[f], Clean4(content[f]))
      /\ \A f \in DOMAIN c.of : c.of[f] = Clean4(content[f])
  BY <1>2, Clean5Dict
<1>4. /\ \A f : f \in DOMAIN j.of
                   <=> f \in DOMAIN fields /\ KeptPart(fields[f], Clean5(fields[f]))
      /\ \A f \in DOMAIN j.of : j.of[f] = Clean5(fields[f])
  BY <1>1, TopDict
<1>5. DOMAIN fields = {"content", "file", "opts"} /\ fields.content = Dict(content)
      /\ fields.file = a.extra.file
  BY DEF PayloadHas
<1>6. DOMAIN content = {"body", "metadata", "bubble", "mentions", "opts"}
  BY DEF ContentHas
<1>7. ASSUME NEW f \in {"body", "metadata", "bubble", "mentions"}
      PROVE  Brought(j, f) = IF f \in DOMAIN c.of THEN c.of[f] ELSE Undefined
  <2>1. CASE "content" \in DOMAIN j.of
    <3>1. j.of.content = c
      BY <1>2, <1>4, <1>5, <2>1
    <3> QED BY <2>1, <3>1 DEF Brought
  <2>2. CASE "content" \notin DOMAIN j.of
    <3>1. f \notin DOMAIN j.of
      BY <1>4, <1>5
    <3>2. Empty(c)
      <4>1. ~KeptPart(Dict(content), c)
        BY <1>2, <1>4, <1>5, <2>2
      <4> QED BY <4>1 DEF KeptPart, Dict, Undefined
    <3>3. f \notin DOMAIN c.of
      BY <3>2 DEF Empty
    <3> QED BY <2>2, <3>1, <3>3 DEF Brought
  <2> QED BY <2>1, <2>2
<1>8. ASSUME NEW f \in {"body", "metadata", "bubble", "mentions"}
      PROVE  Brought(j, f) = IF KeptPart(content[f], Clean4(content[f]))
                             THEN Clean4(content[f]) ELSE Undefined
  BY <1>3, <1>6, <1>7
<1>9. Brought(j, "file") = IF KeptPart(a.extra.file, Clean5(a.extra.file))
                           THEN Clean5(a.extra.file) ELSE Undefined
  <2>1. "file" \in DOMAIN j.of <=> KeptPart(a.extra.file, Clean5(a.extra.file))
    BY <1>4, <1>5
  <2>2. "file" \in DOMAIN j.of => j.of["file"] = Clean5(a.extra.file)
    BY <1>4, <1>5
  <2> QED BY <2>1, <2>2 DEF Brought
<1> QED BY <1>1, <1>8, <1>9

LEMMA JsonMade ==
  ASSUME NEW v
  PROVE  /\ IsJson4(v) => Made4(v) /\ v # Undefined
         /\ IsJson5(v) => Made5(v) /\ v # Undefined
<1>1. \A x : IsJson1(x) => Made1(x)
  BY DEF IsJson1, Throughout, Made1
<1>2. \A x : IsJson2(x) => Made2(x)
  BY <1>1 DEF IsJson2, Throughout, Made2, WithParts
<1>3. \A x : IsJson3(x) => Made3(x)
  BY <1>2 DEF IsJson3, Throughout, Made3, WithParts
<1>4. \A x : IsJson4(x) => Made4(x) /\ x # Undefined
  BY <1>3 DEF IsJson4, Throughout, Made4, WithParts
<1>5. \A x : IsJson5(x) => Made5(x) /\ x # Undefined
  BY <1>4 DEF IsJson5, Throughout, Made5, WithParts
<1> QED BY <1>4, <1>5

LEMMA JsonStays ==
  ASSUME NEW v
  PROVE  /\ v = Undefined \/ IsJson4(v) =>
              /\ Made4(v)
              /\ (IF KeptPart(v, Clean4(v)) THEN Clean4(v) ELSE Undefined) = v
         /\ v = Undefined \/ IsJson5(v) =>
              /\ Made5(v)
              /\ (IF KeptPart(v, Clean5(v)) THEN Clean5(v) ELSE Undefined) = v
<1>1. v = Undefined => ~KeptPart(v, Clean4(v)) /\ ~KeptPart(v, Clean5(v))
  BY DEF KeptPart
<1>2. IsJson4(v) => KeptPart(v, Clean4(v)) /\ Clean4(v) = v /\ Made4(v)
  BY JsonMade, Clean4Keeps DEF KeptPart
<1>3. IsJson5(v) => KeptPart(v, Clean5(v)) /\ Clean5(v) = v /\ Made5(v)
  BY JsonMade, Clean5Keeps DEF KeptPart
<1>4. v = Undefined => Made4(v) /\ Made5(v)
  BY SimpleMade
<1> QED BY <1>1, <1>2, <1>3, <1>4

(* The mentions as they are sent.                                          *)
LEMMA MentionsCleaned ==
  ASSUME NEW found, NEW text, NEW call, NEW pos, NEW N, Embeds(found, text, call, pos, N)
  PROVE  LET list == List(found.mentions)
         IN /\ Made4(list) /\ KeptPart(list, Clean4(list))
            /\ DOMAIN Clean4(list).of = 1..N
            /\ \A i \in 1..N : Resolves(Clean4(list).of[i].of, text[pos[i]], <<call, i>>)
<1>1. PICK items : items = found.mentions
  OBVIOUS
<1>2. /\ DOMAIN items = 1..N
      /\ \A i \in 1..N : items[i] = MentionOf(text[pos[i]], <<call, i>>)
  BY <1>1 DEF Embeds
<1>3. PICK S : items \in Seq(S)
  BY <1>1 DEF Embeds, IsSequence
<1>4. ASSUME NEW i \in 1..N
      PROVE  /\ KeptPart(items[i], Clean3(items[i])) /\ Made3(items[i])
             /\ Resolves(Clean3(items[i]).of, text[pos[i]], <<call, i>>)
  <2>1. PICK tag, id : tag = text[pos[i]] /\ id = <<call, i>>
    OBVIOUS
  <2>2. items[i] = MentionOf(tag, id)
    BY <1>2, <2>1
  <2> QED BY <2>1, <2>2, MentionCleaned DEF KeptPart
<1>5. /\ Clean4(List(items)) = List([i \in DOMAIN items |-> Clean3(items[i])])
      /\ Made4(List(items)) /\ KeptPart(List(items), Clean4(List(items)))
  BY <1>2, <1>3, <1>4, Clean4List
<1>6. PICK cleaned : cleaned = Clean4(List(items)).of
  OBVIOUS
<1>7. cleaned = [i \in DOMAIN items |-> Clean3(items[i])]
  BY <1>5, <1>6 DEF List
<1> QED BY <1>1, <1>2, <1>4, <1>5, <1>6, <1>7

(* A text and the mentions that were found in it.                          *)
TextMatched(body, mentions, text, call, pos, N) ==
  /\ \E found : Embeds(found, text, call, pos, N) /\ body = Leaf(found.body)
  /\ \/ N = 0 /\ mentions = Undefined
     \/ /\ mentions # Undefined /\ DOMAIN mentions.of = 1..N
        /\ \A i \in 1..N : Resolves(mentions.of[i].of, text[pos[i]], <<call, i>>)

LEMMA TextGiven ==
  ASSUME NEW a, WellAsked(a), a.body # Undefined
  PROVE  a.body.of \in Bodies
<1>1. PICK b \in Bodies : a.body = Leaf(b)
  BY DEF WellAsked
<1>2. Leaf(b).of = b
  BY DEF Leaf
<1> QED BY <1>1, <1>2

LEMMA PayloadBrings ==
  ASSUME NEW a, WellAsked(a), NEW call
  PROVE  LET j == RemoveUndefined(Payload(a, call))
         IN /\ IsJson(j)
            /\ a.body = Undefined =>
                 Brought(j, "body") = Undefined /\ Brought(j, "mentions") = Undefined
            /\ a.body # Undefined =>
                 \E pos, N :
                   TextMatched(Brought(j, "body"), Brought(j, "mentions"),
                               a.body.of, call, pos, N)
            /\ a.body # Undefined /\ a.op = "edit" => Brought(j, "mentions") # Undefined
            /\ Brought(j, "metadata") = a.extra.metadata
            /\ Brought(j, "file") = a.extra.file
            /\ a.extra.bubble = Undefined => Brought(j, "bubble") = Undefined
            /\ a.extra.bubble # Undefined =>
                 /\ Brought(j, "bubble") # Undefined
                 /\ Labels(Brought(j, "bubble")) = Wanted(a.extra.bubble)
<1>1. PICK found : found = Replaced(a, call)
  OBVIOUS
<1>2. PICK fields, content : /\ Payload(a, call) = Dict(fields)
                             /\ PayloadHas(fields, content, a)
                             /\ ContentHas(content, a, found)
  BY <1>1, PayloadIs
<1>3. PICK j : j = RemoveUndefined(Payload(a, call))
  OBVIOUS
<1>4. /\ \A f \in {"body", "metadata", "bubble", "mentions"} :
           Brought(j, f) = IF KeptPart(content[f], Clean4(content[f]))
                           THEN Clean4(content[f]) ELSE Undefined
      /\ Brought(j, "file") = IF KeptPart(a.extra.file, Clean5(a.extra.file))
                              THEN Clean5(a.extra.file) ELSE Undefined
  BY <1>2, <1>3, BroughtIs
<1>5. /\ content.body = IF a.body = Undefined THEN Undefined ELSE Leaf(found.body)
      /\ content.metadata = a.extra.metadata /\ content.bubble = Markup(a.extra.bubble)
      /\ content.mentions = Mentions(a, found)
  BY <1>2 DEF ContentHas
<1>6. /\ a.extra.metadata = Undefined \/ IsJson4(a.extra.metadata)
      /\ a.extra.file = Undefined \/ IsJson5(a.extra.file)
      /\ a.extra.bubble # Undefined => IsRows(a.extra.bubble.of)
  BY OutgoingMessageAssumption DEF WellAsked
<1>7. /\ Brought(j, "metadata") = a.extra.metadata /\ Made4(content.metadata)
      /\ Brought(j, "file") = a.extra.file /\ Made5(a.extra.file)
  BY <1>4, <1>5, <1>6, JsonStays
<1>8. /\ Made4(content.bubble)
      /\ a.extra.bubble = Undefined => Brought(j, "bubble") = Undefined
      /\ a.extra.bubble # Undefined =>
           /\ Brought(j, "bubble") # Undefined
           /\ Labels(Brought(j, "bubble")) = Wanted(a.extra.bubble)
  <2>1. CASE a.extra.bubble = Undefined
    <3>1. content.bubble = Undefined
      BY <1>5, <2>1 DEF Markup
    <3>2. ~KeptPart(content.bubble, Clean4(content.bubble))
      BY <3>1 DEF KeptPart
    <3> QED BY <1>4, <2>1, <3>1, <3>2, SimpleMade
  <2>2. CASE a.extra.bubble # Undefined
    <3>1. PICK bubble : bubble = a.extra.bubble
      OBVIOUS
    <3>2. /\ Made4(content.bubble) /\ KeptPart(content.bubble, Clean4(content.bubble))
          /\ Labels(Clean4(content.bubble)) = Wanted(bubble)
      BY <1>5, <1>6, <2>2, <3>1, MarkupCleaned
    <3>3. Clean4(content.bubble) # Undefined
      BY <3>2, Clean4Json, JsonMade DEF KeptPart
    <3> QED BY <1>4, <2>2, <3>1, <3>2, <3>3
  <2> QED BY <2>1, <2>2
<1>9. ASSUME a.body = Undefined
      PROVE  /\ Brought(j, "body") = Undefined /\ Brought(j, "mentions") = Undefined
             /\ Made4(content.body) /\ Made4(content.mentions)
  <2>1. content.body = Undefined /\ content.mentions = Undefined
    BY <1>5, <1>9 DEF Mentions
  <2>2. ~KeptPart(content.body, Clean4(content.body))
        /\ ~KeptPart(content.mentions, Clean4(content.mentions))
    BY <2>1 DEF KeptPart
  <2> QED BY <1>4, <2>1, <2>2, SimpleMade
<1>10. ASSUME a.body # Undefined
       PROVE  /\ Made4(content.body) /\ Made4(content.mentions)
              /\ \E pos, N : TextMatched(Brought(j, "body"), Brought(j, "mentions"),
                                        a.body.of, call, pos, N)
              /\ a.op = "edit" => Brought(j, "mentions") # Undefined
  <2>1. PICK text : text = a.body.of /\ IsSequence(text)
    BY <1>10, TextGiven, OutgoingMessageAssumption
  <2>2. PICK pos, N : Embeds(found, text, call, pos, N)
    BY <1>1, <2>1, FindAndReplaceEmbeds DEF Replaced
  <2>3. Brought(j, "body") = Leaf(found.body) /\ Made4(content.body)
    <3>1. content.body = Leaf(found.body) /\ IsLeaf(content.body)
      BY <1>5, <1>10 DEF IsLeaf, Leaf
    <3> QED BY <1>4, <3>1, LeafStays, LeafFacts, SimpleMade
  <2>4. PICK list : list = List(found.mentions)
    OBVIOUS
  <2>5. /\ Made4(list) /\ KeptPart(list, Clean4(list))
        /\ DOMAIN Clean4(list).of = 1..N
        /\ \A i \in 1..N : Resolves(Clean4(list).of[i].of, text[pos[i]], <<call, i>>)
    BY <2>2, <2>4, MentionsCleaned
  <2>6. Clean4(list) # Undefined
    BY <2>5, Clean4Json, JsonMade DEF KeptPart
  <2>7. CASE Mentions(a, found) = list
    <3>1. content.mentions = list /\ Brought(j, "mentions") = Clean4(list)
      BY <1>4, <1>5, <2>5, <2>7
    <3>2. TextMatched(Brought(j, "body"), Brought(j, "mentions"), text, call, pos, N)
      BY <2>2, <2>3, <2>5, <2>6, <3>1 DEF TextMatched
    <3> QED BY <2>1, <2>3, <2>5, <2>6, <3>1, <3>2
  <2>8. CASE Mentions(a, found) # list
    <3>1. Mentions(a, found) = Undefined /\ a.op # "edit" /\ found.mentions = <<>>
      BY <1>10, <2>4, <2>8 DEF Mentions
    <3>2. N = 0
      <4>1. DOMAIN found.mentions = 1..N /\ N \in Nat
        BY <2>2 DEF Embeds, Enumerates
      <4>2. DOMAIN found.mentions = {}
        BY <3>1
      <4> QED BY <4>1, <4>2
    <3>3. ~KeptPart(content.mentions, Clean4(content.mentions)) /\ Made4(content.mentions)
      BY <1>5, <3>1, SimpleMade DEF KeptPart
    <3>4. Brought(j, "mentions") = Undefined
      BY <1>4, <3>3
    <3>5. TextMatched(Brought(j, "body"), Brought(j, "mentions"), text, call, pos, N)
      BY <2>2, <2>3, <3>2, <3>4 DEF TextMatched
    <3> QED BY <2>1, <2>3, <3>1, <3>3, <3>5
  <2> QED BY <2>7, <2>8
<1>11. IsJson(j)
  <2>1. \A f \in DOMAIN content : Made4(content[f])
    <3>1. Made4(content.opts) /\
          DOMAIN content = {"body", "metadata", "bubble", "mentions", "opts"}
      BY <1>2 DEF ContentHas
    <3> QED BY <1>7, <1>8, <1>9, <1>10, <3>1
  <2>2. Made5(Dict(content))
    <3>1. content = [f \in DOMAIN content |-> content[f]]
      BY <1>2 DEF ContentHas
    <3> QED BY <2>1, <3>1, DictFacts DEF Made5, WithParts
  <2>3. \A f \in DOMAIN fields : Made5(fields[f])
    BY <1>2, <1>7, <2>2 DEF PayloadHas
  <2>4. Made6(Dict(fields)) /\ Dict(fields) # Undefined
    <3>1. fields = [f \in DOMAIN fields |-> fields[f]]
      BY <1>2 DEF PayloadHas
    <3> QED BY <2>3, <3>1, DictFacts DEF Made6, WithParts
  <2> QED BY <1>2, <1>3, <2>4, RemoveUndefinedJson
<1> QED BY <1>3, <1>7, <1>8, <1>9, <1>10, <1>11

-----------------------------------------------------------------------------
(* One message of MentionsMatchText.                                       *)
Matched(message) ==
  PlaceholderIds(message) =
    [k \in DOMAIN Mentioned(message) |-> Mentioned(message)[k].of.mention_id.of]

(* A message whose text and mentions were brought together.                *)
LEMMA TextReads ==
  ASSUME NEW message, NEW text \in Bodies, NEW call, NEW pos, NEW N,
         TextMatched(message.body, message.mentions, text, call, pos, N)
  PROVE  Reads(message, text) /\ Matched(message)
<1>1. PICK found : Embeds(found, text, call, pos, N) /\ message.body = Leaf(found.body)
  BY DEF TextMatched
<1>2. PICK body : body = found.body
  OBVIOUS
<1>3. message.body.of = body
  BY <1>1, <1>2 DEF Leaf
<1>4. PICK mentions : mentions = Mentioned(message)
  OBVIOUS
<1>5. N \in Nat /\ Enumerates(pos, N, TagPlaces(text))
  BY <1>1 DEF Embeds, Enumerates
<1>6. /\ DOMAIN mentions = 1..N
      /\ \A i \in 1..N : Resolves(mentions[i].of, text[pos[i]], <<call, i>>)
  <2>1. CASE message.mentions = Undefined
    <3>1. N = 0 /\ mentions = <<>>
      BY <1>4, <2>1 DEF TextMatched, Mentioned
    <3> QED BY <3>1
  <2>2. CASE message.mentions # Undefined
    BY <1>4, <2>2 DEF TextMatched, Mentioned
  <2> QED BY <2>1, <2>2
<1>7. /\ DOMAIN body = DOMAIN text
      /\ \A i \in 1..N : body[pos[i]] = Placeholder(Sigil(text[pos[i]].type), <<call, i>>)
      /\ \A k \in DOMAIN text : ~IsTag(text[k]) => body[k] = text[k]
  BY <1>1, <1>2 DEF Embeds
<1>8. PICK F : body \in Seq(F)
  BY <1>1, <1>2 DEF Embeds, IsSequence
<1>9. PICK T : text \in Seq(T)
  BY OutgoingMessageAssumption DEF IsSequence
<1>10. Reads(message, text)
  <2>1. Len(body) = Len(text)
    <3>1. PICK m, n \in Nat : m = Len(body) /\ n = Len(text)
      BY <1>8, <1>9
    <3>2. 1..m = 1..n
      BY <1>7, <1>8, <1>9, <3>1
    <3> QED BY <3>1, <3>2
  <2>2. ASSUME NEW k \in DOMAIN text PROVE Shows(body[k], text[k], mentions)
    <3>1. CASE ~IsTag(text[k])
      BY <1>7, <3>1 DEF Shows
    <3>2. CASE IsTag(text[k])
      <4>1. PICK n \in 1..N : k = pos[n]
        BY <1>5, <3>2 DEF TagPlaces, Enumerates
      <4>2. PICK tag, id : tag = text[k] /\ id = <<call, n>>
        OBVIOUS
      <4>3. body[k] = Placeholder(Sigil(tag.type), id) /\ Resolves(mentions[n].of, tag, id)
        BY <1>6, <1>7, <4>1, <4>2
      <4>4. Leaf(id).of = id
        BY DEF Leaf
      <4>5. /\ body[k] = Placeholder(Sigil(tag.type), mentions[n].of.mention_id.of)
            /\ mentions[n].of.mention_type = Leaf(tag.type)
            /\ tag.type # "ALL" =>
                 /\ mentions[n].of.mention_data.of[EntityKey(tag.type)] = Leaf(tag.entity)
                 /\ ("name" \in DOMAIN mentions[n].of.mention_data.of) = (tag.name # "")
        BY <4>3, <4>4 DEF Resolves
      <4>6. n \in DOMAIN mentions
        BY <1>6
      <4> QED BY <3>2, <4>2, <4>5, <4>6, Zenon DEF Shows
    <3> QED BY <3>1, <3>2
  <2> QED BY <1>3, <1>4, <2>1, <2>2 DEF Reads
<1>11. Matched(message)
  <2> DEFINE places == {k \in DOMAIN body : body[k].is = "placeholder"}
  <2>1. places = TagPlaces(text)
    <3>1. ASSUME NEW k \in DOMAIN text PROVE body[k].is = "placeholder" <=> IsTag(text[k])
      <4>1. CASE IsTag(text[k])
        <5>1. PICK n \in 1..N : k = pos[n]
          BY <1>5, <4>1 DEF TagPlaces, Enumerates
        <5>2. PICK sigil, id : sigil = Sigil(text[pos[n]].type) /\ id = <<call, n>>
          OBVIOUS
        <5>3. body[k] = Placeholder(sigil, id)
          BY <1>7, <5>1, <5>2
        <5>4. Placeholder(sigil, id).is = "placeholder"
          BY DEF Placeholder
        <5> QED BY <4>1, <5>3, <5>4
      <4>2. CASE ~IsTag(text[k])
        BY <1>7, <4>2, OutgoingMessageAssumption
      <4> QED BY <4>1, <4>2
    <3> QED BY <1>7, <3>1 DEF TagPlaces
  <2>2. places \in SUBSET DOMAIN body
    OBVIOUS
  <2>3. PlaceholderIds(message) =
          [k \in DOMAIN Picked(body, places) |-> Picked(body, places)[k].id]
    BY <1>3 DEF PlaceholderIds
  <2> HIDE DEF places
  <2>4. PICK picked \in Seq(F) : picked = Picked(body, places)
    BY <1>8, <2>2, PickedEnumerates
  <2>5. PICK at : ListsItems(picked, at, body, places)
    BY <1>8, <2>2, <2>4, PickedEnumerates
  <2>6. Len(picked) = N /\ at = pos
    <3>1. Enumerates(at, Len(picked), TagPlaces(text))
      BY <2>1, <2>5 DEF ListsItems
    <3> QED BY <1>5, <3>1, EnumerationUnique
  <2>7. DOMAIN picked = 1..N /\ \A k \in 1..N : picked[k] = body[pos[k]]
    BY <2>4, <2>5, <2>6 DEF ListsItems
  <2>8. ASSUME NEW k \in 1..N PROVE picked[k].id = mentions[k].of.mention_id.of
    <3>1. PICK sigil, id : sigil = Sigil(text[pos[k]].type) /\ id = <<call, k>>
      OBVIOUS
    <3>2. picked[k] = Placeholder(sigil, id)
      BY <1>7, <2>7, <3>1
    <3>3. Placeholder(sigil, id).id = id
      BY DEF Placeholder
    <3>4. mentions[k].of.mention_id = Leaf(id)
      BY <1>6, <3>1 DEF Resolves
    <3>5. Leaf(id).of = id
      BY DEF Leaf
    <3> QED BY <3>2, <3>3, <3>4, <3>5
  <2>9. [k \in 1..N |-> picked[k].id] = [k \in 1..N |-> mentions[k].of.mention_id.of]
    BY <2>8
  <2> QED BY <1>4, <1>6, <2>3, <2>4, <2>7, <2>9 DEF Matched
<1> QED BY <1>10, <1>11

-----------------------------------------------------------------------------
(* The inductive invariant: a request under way, its call's or a late one, *)
(* carries the cleaned payload of its call, an edit is of a message that   *)
(* is there, and every message is matched.                                 *)
Carried(a, j) ==
  /\ WellAsked(a)
  /\ a.op = "edit" => a.target \in DOMAIN messages
  /\ \E call : j = RemoveUndefined(Payload(a, call))

IInv ==
  /\ DOMAIN pc = Threads /\ DOMAIN ask = Threads
  /\ DOMAIN json = Threads /\ DOMAIN outcome = Threads
  /\ \A t \in Threads : pc[t] = "posting" => Carried(ask[t], json[t])
  /\ \A r \in late : Carried(r.ask, r.json)
  /\ IsSequence(messages)
  /\ \A m \in DOMAIN messages : Matched(messages[m])

LEMMA AsksAreWell ==
  ASSUME NEW a \in Asks
  PROVE  WellAsked(a) /\ (a.op = "edit" => a.target \in DOMAIN messages)
BY DEF Asks, WellAsked

(* What the call of a thread brings to its message.                        *)
Brings(a, j) ==
  /\ IsJson(j)
  /\ a.body = Undefined => Brought(j, "body") = Undefined /\ Brought(j, "mentions") = Undefined
  /\ a.body # Undefined =>
       \E call, pos, N :
         TextMatched(Brought(j, "body"), Brought(j, "mentions"), a.body.of, call, pos, N)
  /\ a.body # Undefined /\ a.op = "edit" => Brought(j, "mentions") # Undefined
  /\ Brought(j, "metadata") = a.extra.metadata
  /\ Brought(j, "file") = a.extra.file
  /\ a.extra.bubble = Undefined => Brought(j, "bubble") = Undefined
  /\ a.extra.bubble # Undefined =>
       /\ Brought(j, "bubble") # Undefined
       /\ Labels(Brought(j, "bubble")) = Wanted(a.extra.bubble)

LEMMA CarriedBrings ==
  ASSUME NEW a, NEW j, Carried(a, j)
  PROVE  WellAsked(a) /\ Brings(a, j)
<1>1. WellAsked(a)
  BY DEF Carried
<1>2. PICK call : j = RemoveUndefined(Payload(a, call))
  BY DEF Carried
<1> QED BY <1>1, <1>2, PayloadBrings DEF Brings

LEMMA StoredFields ==
  ASSUME NEW j, NEW old, NEW f \in Fields
  PROVE  Stored(j, old)[f] = IF Brought(j, f) = Undefined THEN old[f] ELSE Brought(j, f)
BY DEF Stored

(* A message after a call that brings a text.                              *)
LEMMA StoredReads ==
  ASSUME NEW a, WellAsked(a), NEW j, Brings(a, j), a.body # Undefined, NEW old,
         a.op # "edit" => old = Blank
  PROVE  Reads(Stored(j, old), a.body.of) /\ Matched(Stored(j, old))
<1>1. PICK call, pos, N :
        TextMatched(Brought(j, "body"), Brought(j, "mentions"), a.body.of, call, pos, N)
  BY DEF Brings
<1>2. PICK message : message = Stored(j, old)
  OBVIOUS
<1>3. Brought(j, "body") # Undefined
  BY <1>1 DEF TextMatched, Leaf, Undefined
<1>4. message.body = Brought(j, "body")
  BY <1>2, <1>3, StoredFields DEF Fields
<1>5. message.mentions = Brought(j, "mentions")
  <2>1. CASE Brought(j, "mentions") # Undefined
    BY <1>2, <2>1, StoredFields DEF Fields
  <2>2. CASE Brought(j, "mentions") = Undefined
    <3>1. old = Blank /\ Blank["mentions"] = Undefined
      BY <2>2 DEF Brings, Blank, Fields
    <3> QED BY <1>2, <2>2, <3>1, StoredFields DEF Fields
  <2> QED BY <2>1, <2>2
<1>6. a.body.of \in Bodies
  BY TextGiven
<1>7. TextMatched(message.body, message.mentions, a.body.of, call, pos, N)
  BY <1>1, <1>4, <1>5
<1>8. Reads(message, a.body.of) /\ Matched(message)
  BY <1>6, <1>7, TextReads
<1> QED BY <1>2, <1>8

LEMMA StoredMatched ==
  ASSUME NEW a, WellAsked(a), NEW j, Brings(a, j), NEW old,
         IF a.op = "edit" THEN Matched(old) ELSE old = Blank
  PROVE  Matched(Stored(j, old))
<1>1. CASE a.body # Undefined
  BY <1>1, StoredReads
<1>2. CASE a.body = Undefined
  <2>1. a.op = "edit"
    <3>1. \A b : Leaf(b) # Undefined
      BY DEF Leaf, Undefined
    <3> QED BY <1>2, <3>1 DEF WellAsked
  <2>2. Stored(j, old).body = old.body /\ Stored(j, old).mentions = old.mentions
    BY <1>2, StoredFields DEF Brings, Fields
  <2> QED BY <2>1, <2>2 DEF Matched, PlaceholderIds, Mentioned
<1> QED BY <1>1, <1>2

(* One more message, or one changed.                                       *)
LEMMA MessagesGrow ==
  ASSUME NEW old, IsSequence(old), NEW message
  PROVE  /\ IsSequence(Append(old, message))
         /\ DOMAIN Append(old, message) = DOMAIN old \union {Len(old) + 1}
         /\ Append(old, message)[Len(old) + 1] = message
         /\ \A m \in DOMAIN old : Append(old, message)[m] = old[m]
<1>1. PICK S : old \in Seq(S) /\ message \in S
  <2> DEFINE R == {old[i] : i \in DOMAIN old}
  <2>1. old \in Seq(R \union {message})
    <3>1. old \in Seq(R)
      BY DEF IsSequence
    <3> HIDE DEF R
    <3> QED BY <3>1
  <2> QED BY <2>1
<1>2. PICK new \in Seq(S) : new = Append(old, message)
  <2>1. Append(old, message) \in Seq(S)
    BY <1>1
  <2> QED BY <2>1, Zenon
<1>3. IsSequence(new)
  <2>1. new \in Seq({new[i] : i \in DOMAIN new})
    OBVIOUS
  <2> QED BY <2>1 DEF IsSequence
<1>4. PICK n \in Nat : n = Len(old) /\ DOMAIN old = 1..n
  <2> QED BY <1>1, Len(old) \in Nat
<1>5. Len(new) = n + 1 /\ DOMAIN new = 1..(n + 1)
  BY <1>1, <1>2, <1>4
<1>6. new[n + 1] = message /\ \A m \in 1..n : new[m] = old[m]
  BY <1>1, <1>2, <1>4
<1>7. DOMAIN new = DOMAIN old \union {n + 1}
  BY <1>4, <1>5
<1> QED BY <1>2, <1>3, <1>4, <1>6, <1>7

LEMMA MessagesChange ==
  ASSUME NEW old, IsSequence(old), NEW at \in DOMAIN old, NEW message
  PROVE  LET new == [old EXCEPT ![at] = message]
         IN /\ IsSequence(new) /\ DOMAIN new = DOMAIN old
            /\ new[at] = message
            /\ \A m \in DOMAIN old : m # at => new[m] = old[m]
<1>1. PICK S : old \in Seq(S)
  BY DEF IsSequence
<1>2. PICK new : new = [old EXCEPT ![at] = message]
  OBVIOUS
<1>3. /\ DOMAIN new = DOMAIN old /\ new[at] = message
      /\ \A m \in DOMAIN old : m # at => new[m] = old[m]
      /\ new = [m \in DOMAIN old |-> new[m]]
  BY <1>1, <1>2
<1>4. new \in Seq({new[m] : m \in DOMAIN old})
  BY <1>1, <1>3, MappedSeq
<1> QED BY <1>2, <1>3, <1>4 DEF IsSequence

LEMMA InitIInv == Init => IInv
<1> SUFFICES ASSUME Init PROVE IInv
  OBVIOUS
<1>1. IsSequence(<<>>) /\ DOMAIN <<>> = {}
  BY DEF IsSequence
<1> QED BY <1>1 DEF Init, IInv

(* A request stays carried while messages are only added or changed.       *)
LEMMA StaysCarried ==
  ASSUME NEW a, NEW j, Carried(a, j), DOMAIN messages \subseteq DOMAIN messages'
  PROVE  Carried(a, j)'
BY DEF Carried

LEMMA ComposeIInv ==
  ASSUME IInv, NEW t \in Threads, Compose(t)
  PROVE  IInv'
<1>1. PICK a \in Asks :
        IF Unsendable(a)
          THEN /\ outcome' = [outcome EXCEPT ![t] = "ValueError"]
               /\ UNCHANGED <<pc, ask, json>>
          ELSE /\ pc' = [pc EXCEPT ![t] = "posting"]
               /\ ask' = [ask EXCEPT ![t] = a]
               /\ json' = [json EXCEPT ![t] = RemoveUndefined(Payload(a, calls + 1))]
               /\ outcome' = [outcome EXCEPT ![t] = "none"]
  BY DEF Compose
<1>2. messages' = messages /\ late' = late
  BY DEF Compose
<1>3. WellAsked(a) /\ (a.op = "edit" => a.target \in DOMAIN messages)
  BY AsksAreWell
<1>4. /\ DOMAIN pc = Threads /\ DOMAIN ask = Threads
      /\ DOMAIN json = Threads /\ DOMAIN outcome = Threads
      /\ \A u \in Threads : pc[u] = "posting" => Carried(ask[u], json[u])
  BY DEF IInv
<1>5. CASE Unsendable(a)
  BY <1>1, <1>2, <1>5 DEF IInv, Carried
<1>6. CASE ~Unsendable(a)
  <2>1. ask'[t] = a /\ json'[t] = RemoveUndefined(Payload(a, calls + 1))
    BY <1>1, <1>4, <1>6
  <2>2. Carried(ask[t], json[t])'
    <3>1. PICK j, call : call = calls + 1 /\ j = RemoveUndefined(Payload(a, call))
      OBVIOUS
    <3>2. json'[t] = j /\ j = RemoveUndefined(Payload(ask'[t], call))
      BY <2>1, <3>1
    <3> QED BY <1>2, <1>3, <2>1, <3>2 DEF Carried
  <2>3. ASSUME NEW u \in Threads, u # t
        PROVE  pc'[u] = pc[u] /\ ask'[u] = ask[u] /\ json'[u] = json[u]
    BY <1>1, <1>4, <1>6, <2>3
  <2>4. ASSUME NEW u \in Threads, pc'[u] = "posting" PROVE Carried(ask[u], json[u])'
    <3>1. CASE u = t
      BY <2>2, <3>1
    <3>2. CASE u # t
      <4>1. Carried(ask[u], json[u])
        BY <1>4, <2>3, <2>4, <3>2
      <4> QED BY <1>2, <2>3, <3>2, <4>1 DEF Carried
    <3> QED BY <3>1, <3>2
  <2>5. DOMAIN pc' = Threads /\ DOMAIN ask' = Threads
        /\ DOMAIN json' = Threads /\ DOMAIN outcome' = Threads
    BY <1>1, <1>4, <1>6
  <2>6. \A r \in late' : Carried(r.ask, r.json)'
    BY <1>2 DEF IInv, Carried
  <2> QED BY <1>2, <2>4, <2>5, <2>6 DEF IInv
<1> QED BY <1>5, <1>6

(* What BotX keeps after it has taken a request.                           *)
LEMMA StoreKeeps ==
  ASSUME IInv, NEW a, NEW j, Carried(a, j), Store(a, j)
  PROVE  LET old == IF a.op = "edit" THEN messages[a.target] ELSE Blank
         IN /\ WellAsked(a) /\ Brings(a, j)
            /\ IF a.op = "edit" THEN Matched(old) ELSE old = Blank
            /\ messages'[Target(a)] = Stored(j, old)
            /\ IsSequence(messages')
            /\ DOMAIN messages' = DOMAIN messages \union {Target(a)}
            /\ \A m \in DOMAIN messages : m # Target(a) => messages'[m] = messages[m]
<1>1. WellAsked(a) /\ Brings(a, j)
  BY CarriedBrings
<1>2. IsSequence(messages) /\ \A m \in DOMAIN messages : Matched(messages[m])
  BY DEF IInv
<1>3. CASE a.op = "edit"
  <2>1. PICK at : at = a.target /\ at \in DOMAIN messages /\ at = Target(a)
    BY <1>3 DEF Carried, Target
  <2>2. PICK stored : stored = Stored(j, messages[at])
    OBVIOUS
  <2>3. messages' = [messages EXCEPT ![at] = stored]
    BY <1>3, <2>1, <2>2 DEF Store
  <2>4. /\ IsSequence(messages') /\ DOMAIN messages' = DOMAIN messages
        /\ messages'[at] = stored
        /\ \A m \in DOMAIN messages : m # at => messages'[m] = messages[m]
    BY <1>2, <2>1, <2>3, MessagesChange
  <2> QED BY <1>1, <1>2, <1>3, <2>1, <2>2, <2>4
<1>4. CASE a.op # "edit"
  <2>1. PICK at : at = Len(messages) + 1 /\ at = Target(a)
    BY <1>4 DEF Target
  <2>2. PICK stored : stored = Stored(j, Blank)
    OBVIOUS
  <2>3. messages' = Append(messages, stored)
    BY <1>4, <2>2 DEF Store
  <2>4. /\ IsSequence(messages') /\ DOMAIN messages' = DOMAIN messages \union {at}
        /\ messages'[at] = stored
        /\ \A m \in DOMAIN messages : messages'[m] = messages[m]
    BY <1>2, <2>1, <2>3, MessagesGrow
  <2> QED BY <1>1, <1>4, <2>1, <2>2, <2>4
<1> QED BY <1>3, <1>4

LEMMA StoreMatched ==
  ASSUME IInv, NEW a, NEW j, Carried(a, j), Store(a, j)
  PROVE  /\ IsSequence(messages') /\ DOMAIN messages \subseteq DOMAIN messages'
         /\ \A m \in DOMAIN messages' : Matched(messages'[m])
<1>1. PICK old :
        /\ WellAsked(a) /\ Brings(a, j)
        /\ IF a.op = "edit" THEN Matched(old) ELSE old = Blank
        /\ messages'[Target(a)] = Stored(j, old)
        /\ IsSequence(messages')
        /\ DOMAIN messages' = DOMAIN messages \union {Target(a)}
        /\ \A m \in DOMAIN messages : m # Target(a) => messages'[m] = messages[m]
  BY StoreKeeps
<1>2. Matched(Stored(j, old))
  BY <1>1, StoredMatched
<1>3. \A m \in DOMAIN messages' : Matched(messages'[m])
  BY <1>1, <1>2 DEF IInv
<1> QED BY <1>1, <1>3

(* A call ends; the others go on, and so do the late requests, this one    *)
(* among them if it was given up.                                          *)
LEMMA FinishIInv ==
  ASSUME IInv, NEW t \in Threads, NEW how, Finish(t, how),
         late' \subseteq late \union {[ask |-> ask[t], json |-> json[t]]},
         IsSequence(messages'), DOMAIN messages \subseteq DOMAIN messages',
         \A m \in DOMAIN messages' : Matched(messages'[m])
  PROVE  IInv'
<1>1. /\ DOMAIN pc = Threads /\ DOMAIN ask = Threads
      /\ DOMAIN json = Threads /\ DOMAIN outcome = Threads
      /\ \A u \in Threads : pc[u] = "posting" => Carried(ask[u], json[u])
      /\ \A r \in late : Carried(r.ask, r.json)
  BY DEF IInv
<1>2. DOMAIN pc' = Threads /\ DOMAIN ask' = Threads
      /\ DOMAIN json' = Threads /\ DOMAIN outcome' = Threads
  BY <1>1 DEF Finish
<1>3. ASSUME NEW u \in Threads, pc'[u] = "posting" PROVE Carried(ask[u], json[u])'
  <2>1. u # t /\ pc[u] = "posting" /\ ask'[u] = ask[u] /\ json'[u] = json[u]
    BY <1>1, <1>3 DEF Finish
  <2>2. Carried(ask[u], json[u])
    BY <1>1, <2>1
  <2> QED BY <2>1, <2>2 DEF Carried
<1>4. ASSUME NEW r \in late' PROVE Carried(r.ask, r.json)'
  <2>1. pc[t] = "posting"
    BY DEF Finish
  <2>2. PICK a, j : a = r.ask /\ j = r.json
    OBVIOUS
  <2>3. Carried(a, j)
    BY <1>1, <2>1, <2>2
  <2> QED BY <2>2, <2>3 DEF Carried
<1> QED BY <1>2, <1>3, <1>4 DEF IInv

LEMMA PostIInv ==
  ASSUME IInv, NEW t \in Threads, Post(t)
  PROVE  IInv'
<1>1. Finish(t, "ok") /\ Store(ask[t], json[t]) /\ late' = late
  BY DEF Post
<1>2. Carried(ask[t], json[t])
  BY <1>1 DEF Finish, IInv
<1> QED BY <1>1, <1>2, StoreMatched, FinishIInv

(* The call raises and nothing is stored: refused, or given up.            *)
LEMMA RaisedIInv ==
  ASSUME IInv, NEW t \in Threads, Refuse(t) \/ GiveUp(t)
  PROVE  IInv'
<1>1. /\ Finish(t, "error") /\ messages' = messages
      /\ late' \subseteq late \union {[ask |-> ask[t], json |-> json[t]]}
  BY DEF Refuse, GiveUp
<1>2. IsSequence(messages') /\ \A m \in DOMAIN messages' : Matched(messages'[m])
  BY <1>1 DEF IInv
<1> QED BY <1>1, <1>2, FinishIInv

LEMMA LateIInv ==
  ASSUME IInv, NEW r \in late, Store(r.ask, r.json), late' = late \ {r},
         UNCHANGED <<pc, ask, json, outcome, calls>>
  PROVE  IInv'
<1>1. Carried(r.ask, r.json)
  BY DEF IInv
<1>2. /\ IsSequence(messages') /\ DOMAIN messages \subseteq DOMAIN messages'
      /\ \A m \in DOMAIN messages' : Matched(messages'[m])
  BY <1>1, StoreMatched
<1>3. \A u \in Threads : pc'[u] = "posting" => Carried(ask[u], json[u])'
  BY <1>2 DEF IInv, Carried
<1>4. \A q \in late' : Carried(q.ask, q.json)'
  BY <1>2 DEF IInv, Carried
<1> QED BY <1>2, <1>3, <1>4 DEF IInv

LEMMA StepIInv == IInv /\ [Next]_vars => IInv'
<1> SUFFICES ASSUME IInv, [Next]_vars PROVE IInv'
  OBVIOUS
<1>1. ASSUME NEW t \in Threads, Compose(t) PROVE IInv'
  BY <1>1, ComposeIInv
<1>2. ASSUME NEW t \in Threads, Post(t) PROVE IInv'
  BY <1>2, PostIInv
<1>3. ASSUME NEW t \in Threads, Refuse(t) \/ GiveUp(t) PROVE IInv'
  BY <1>3, RaisedIInv
<1>4. CASE PostLate
  BY <1>4, LateIInv DEF PostLate
<1>5. CASE UNCHANGED vars
  BY <1>5 DEF vars, IInv, Carried
<1> QED BY <1>1, <1>2, <1>3, <1>4, <1>5 DEF Next

(* IInv holds of every state of Spec.                                      *)
THEOREM MessagesInductive == Spec => []IInv
<1>1. Init => IInv
  BY InitIInv
<1>2. IInv /\ [Next]_vars => IInv'
  BY StepIInv
<1> QED BY <1>1, <1>2, PTL DEF Spec

(* The mentions kept with every message are those its text shows, after    *)
(* any number of sends, replies and edits by any threads.                  *)
THEOREM MentionsFollowText == Spec => []MentionsMatchText
<1>1. IInv => MentionsMatchText
  BY DEF IInv, MentionsMatchText, Matched
<1> QED BY <1>1, MessagesInductive, PTL

(* No request under way holds Undefined, at any depth.                     *)
THEOREM PostsAreJson == Spec => []PostedIsJson
<1>1. IInv => PostedIsJson
  BY CarriedBrings DEF IInv, PostedIsJson, Brings
<1> QED BY <1>1, MessagesInductive, PTL

-----------------------------------------------------------------------------
(* A request that BotX takes, in time or late, is stored by that step.     *)
LEMMA TakenIsStored ==
  ASSUME IInv, [Next]_vars, NEW a, Taken(a)
  PROVE  \E j : Carried(a, j) /\ Store(a, j)
<1> DEFINE InTime(t) ==
      a = ask[t] /\ pc[t] = "posting" /\ pc'[t] = "idle" /\ outcome'[t] = "ok"
<1>1. /\ DOMAIN pc = Threads /\ DOMAIN outcome = Threads
      /\ \A t \in Threads : pc[t] = "posting" => Carried(ask[t], json[t])
      /\ \A r \in late : Carried(r.ask, r.json)
  BY DEF IInv
<1>2. (\E t \in Threads : InTime(t)) \/ (\E r \in late \ late' : a = r.ask)
  BY DEF Taken
<1>3. CASE PostLate
  <2>1. PICK r \in late : /\ Store(r.ask, r.json) /\ late' = late \ {r} /\ pc' = pc
    BY <1>3 DEF PostLate
  <2>2. \A t \in Threads : ~InTime(t)
    BY <2>1
  <2>3. a = r.ask
    BY <1>2, <2>1, <2>2
  <2> QED BY <1>1, <2>1, <2>3
<1>4. ASSUME NEW u \in Threads, Compose(u) PROVE FALSE
  <2>1. /\ pc[u] = "idle" /\ late' = late
        /\ pc' = pc \/ pc' = [pc EXCEPT ![u] = "posting"]
    BY <1>4 DEF Compose
  <2>2. \A t \in Threads : ~InTime(t)
    BY <1>1, <2>1
  <2> QED BY <1>2, <2>1, <2>2
<1>5. ASSUME NEW u \in Threads, NEW how, Finish(u, how), late \subseteq late'
      PROVE  InTime(u) /\ how = "ok"
  <2>1. PICK t \in Threads : InTime(t)
    BY <1>2, <1>5
  <2> QED BY <1>1, <1>5, <2>1 DEF Finish
<1>6. ASSUME NEW u \in Threads, Post(u) PROVE Carried(a, json[u]) /\ Store(a, json[u])
  <2>1. Finish(u, "ok") /\ late' = late /\ Store(ask[u], json[u])
    BY <1>6 DEF Post
  <2>2. InTime(u)
    BY <1>5, <2>1
  <2> QED BY <1>1, <2>1, <2>2
<1>7. ASSUME NEW u \in Threads, Refuse(u) \/ GiveUp(u) PROVE FALSE
  <2>1. Finish(u, "error") /\ late \subseteq late'
    BY <1>7 DEF Refuse, GiveUp
  <2>2. "error" = "ok"
    BY <1>5, <2>1
  <2> QED BY <2>2
<1>8. ~UNCHANGED vars
  BY <1>2 DEF vars
<1> QED BY <1>3, <1>4, <1>6, <1>7, <1>8 DEF Next

LEMMA TextStep ==
  ASSUME IInv, [Next]_vars, NEW a, Taken(a), a.body # Undefined
  PROVE  Reads(messages'[Target(a)], a.body.of)
<1>1. PICK j : Carried(a, j) /\ Store(a, j)
  BY TakenIsStored
<1>2. PICK old :
        /\ WellAsked(a) /\ Brings(a, j)
        /\ IF a.op = "edit" THEN Matched(old) ELSE old = Blank
        /\ messages'[Target(a)] = Stored(j, old)
  BY <1>1, StoreKeeps
<1>3. Reads(Stored(j, old), a.body.of)
  BY <1>2, StoredReads
<1> QED BY <1>2, <1>3

LEMMA EditStep ==
  ASSUME IInv, [Next]_vars, NEW a, Taken(a), a.op = "edit"
  PROVE  LET old == messages[a.target]
             new == messages'[a.target]
         IN /\ IF a.body = Undefined
                 THEN new.body = old.body /\ new.mentions = old.mentions
                 ELSE Reads(new, a.body.of)
            /\ IF a.extra.bubble = Undefined THEN new.bubble = old.bubble
               ELSE new.bubble # Undefined /\ Labels(new.bubble) = Wanted(a.extra.bubble)
            /\ IF a.extra.metadata = Undefined THEN new.metadata = old.metadata
               ELSE new.metadata = a.extra.metadata
            /\ IF a.extra.file = Undefined THEN new.file = old.file
               ELSE new.file = a.extra.file
<1>1. PICK j : Carried(a, j) /\ Store(a, j)
  BY TakenIsStored
<1>2. PICK old : old = messages[a.target]
  OBVIOUS
<1>3. PICK new : new = messages'[a.target]
  OBVIOUS
<1>4. Target(a) = a.target
  BY DEF Target
<1>5. Brings(a, j) /\ new = Stored(j, old)
  BY <1>1, <1>2, <1>3, <1>4, StoreKeeps
<1>6. /\ new.body = IF Brought(j, "body") = Undefined THEN old.body ELSE Brought(j, "body")
      /\ new.mentions = IF Brought(j, "mentions") = Undefined THEN old.mentions
                        ELSE Brought(j, "mentions")
      /\ new.bubble = IF Brought(j, "bubble") = Undefined THEN old.bubble
                      ELSE Brought(j, "bubble")
      /\ new.metadata = IF Brought(j, "metadata") = Undefined THEN old.metadata
                        ELSE Brought(j, "metadata")
      /\ new.file = IF Brought(j, "file") = Undefined THEN old.file ELSE Brought(j, "file")
  BY <1>5, StoredFields DEF Fields
<1>7. a.body # Undefined => Reads(new, a.body.of)
  BY <1>3, <1>4, TextStep
<1>8. /\ IF a.body = Undefined
           THEN new.body = old.body /\ new.mentions = old.mentions
           ELSE Reads(new, a.body.of)
      /\ IF a.extra.bubble = Undefined THEN new.bubble = old.bubble
         ELSE new.bubble # Undefined /\ Labels(new.bubble) = Wanted(a.extra.bubble)
      /\ IF a.extra.metadata = Undefined THEN new.metadata = old.metadata
         ELSE new.metadata = a.extra.metadata
      /\ IF a.extra.file = Undefined THEN new.file = old.file
         ELSE new.file = a.extra.file
  BY <1>5, <1>6, <1>7 DEF Brings
<1> QED BY <1>2, <1>3, <1>8

(* Whatever the other threads did meanwhile, a text that BotX takes, in    *)
(* time or late, reads as the bot wrote it, every tag resolved to its own  *)
(* mention.                                                                *)
THEOREM TextsReadAsWritten == Spec => TextReadsAsWritten
<1>1. IInv /\ [Next]_vars =>
        [\A a \in UnderWay : Taken(a) /\ a.body # Undefined =>
           Reads(messages'[Target(a)], a.body.of)]_vars
  BY TextStep
<1> QED BY <1>1, MessagesInductive, PTL DEF Spec, TextReadsAsWritten

(* An edit changes what it was given and nothing else, in time or late.    *)
THEOREM EditsChangeWhatIsGiven == Spec => EditChangesWhatIsGiven
<1>1. IInv /\ [Next]_vars =>
        [\A a \in UnderWay : Taken(a) /\ a.op = "edit" =>
           LET old == messages[a.target]
               new == messages'[a.target]
           IN /\ IF a.body = Undefined
                   THEN new.body = old.body /\ new.mentions = old.mentions
                   ELSE Reads(new, a.body.of)
              /\ IF a.extra.bubble = Undefined THEN new.bubble = old.bubble
                 ELSE new.bubble # Undefined /\ Labels(new.bubble) = Wanted(a.extra.bubble)
              /\ IF a.extra.metadata = Undefined THEN new.metadata = old.metadata
                 ELSE new.metadata = a.extra.metadata
              /\ IF a.extra.file = Undefined THEN new.file = old.file
                 ELSE new.file = a.extra.file]_vars
  BY EditStep
<1> QED BY <1>1, MessagesInductive, PTL DEF Spec, EditChangesWhatIsGiven
=============================================================================
