----------------------- MODULE ClientOperationsProofs -----------------------
(***************************************************************************)
(* Proofs about SmartApps and MarkupRows, for any files, any objects of the *)
(* caller and any markups, and about the client that composes them with    *)
(* the loops of ClientCallsProofs.                                         *)
(***************************************************************************)
EXTENDS ClientOperations, ClientCallsProofs, PayloadsProofs

-----------------------------------------------------------------------------
(* MarkupRows.                                                             *)

Lists == GivenLists \union Markups

Rows == GivenRows \union Buttons

MarkupTypeOK ==
  /\ rowsIn \in [Lists -> Seq(Rows)]
  /\ buttonsIn \in [Rows -> Seq(Rows)]
  /\ listOf \in [Markups -> Lists \union {Nobody}]
  /\ addedTo \in [Buttons -> Markups \union {Nobody}]
  /\ GivenRows \subseteq shared

(* A markup's list is its own or one the caller gave.                      *)
OwnOrGiven ==
  \A m \in Markups : Built(m) => listOf[m] \in GivenLists \union {m}

(* A row the library made is in the list of the markup its button was      *)
(* added to, and in no other unless the caller has handed it on.           *)
MadeRowsStay ==
  \A l \in Lists : \A b \in Range(rowsIn[l]) \intersect Buttons :
    /\ addedTo[b] \in Markups
    /\ b \notin shared => Built(addedTo[b]) /\ listOf[addedTo[b]] = l

(* A button is in a row of the markup it was added to.                     *)
ButtonsStay ==
  \A r \in Rows : \A b \in Range(buttonsIn[r]) \intersect Buttons :
    addedTo[b] \in Markups /\ Built(addedTo[b])
      /\ r \in Range(rowsIn[listOf[addedTo[b]]])

MarkupIInv == MarkupTypeOK /\ OwnOrGiven /\ MadeRowsStay /\ ButtonsStay

LEMMA RangeOfAppend ==
  ASSUME NEW S, NEW s \in Seq(S), NEW x \in S
  PROVE  Append(s, x) \in Seq(S) /\ Range(Append(s, x)) = Range(s) \union {x}
<1>1. /\ Append(s, x) \in Seq(S) /\ DOMAIN Append(s, x) = 1..(Len(s) + 1)
      /\ Append(s, x)[Len(s) + 1] = x /\ DOMAIN s = 1..Len(s) /\ Len(s) \in Nat
      /\ \A i \in DOMAIN s : Append(s, x)[i] = s[i]
  OBVIOUS
<1>2. Range(Append(s, x)) \subseteq Range(s) \union {x}
  BY <1>1 DEF Range
<1>3. Range(s) \union {x} \subseteq Range(Append(s, x))
  BY <1>1 DEF Range
<1> QED BY <1>1, <1>2, <1>3

LEMMA MarkupInitInv == MarkupInit => MarkupIInv
<1> SUFFICES ASSUME MarkupInit PROVE MarkupIInv
  OBVIOUS
<1>1. /\ <<>> \in Seq(Rows) /\ \A r \in GivenRows : <<r>> \in Seq(Rows)
      /\ Range(<<>>) = {} /\ \A r \in GivenRows : Range(<<r>>) = {r}
  BY DEF Rows, Range
<1>2. MarkupTypeOK
  <2>1. {<<>>} \union {<<r>> : r \in GivenRows} \subseteq Seq(Rows)
    BY <1>1
  <2>2. rowsIn \in [Lists -> Seq(Rows)]
    BY <2>1 DEF MarkupInit, Lists
  <2>3. buttonsIn \in [Rows -> Seq(Rows)]
    BY <1>1 DEF MarkupInit, Rows
  <2>4. Nobody \in Lists \union {Nobody} /\ Nobody \in Markups \union {Nobody}
    OBVIOUS
  <2> QED BY <2>2, <2>3, <2>4 DEF MarkupInit, MarkupTypeOK
<1>3. OwnOrGiven
  BY DEF MarkupInit, OwnOrGiven, Built
<1>4. \A l \in Lists : Range(rowsIn[l]) \intersect Buttons = {}
  BY <1>1, MarkupRowsAssumption DEF MarkupInit, Lists
<1>5. \A r \in Rows : Range(buttonsIn[r]) \intersect Buttons = {}
  BY <1>1, MarkupRowsAssumption DEF MarkupInit, Rows
<1> QED BY <1>2, <1>3, <1>4, <1>5 DEF MarkupIInv, MadeRowsStay, ButtonsStay

LEMMA BuildKeeps ==
  ASSUME MarkupIInv, NEW m \in Markups, Build(m)
  PROVE  MarkupIInv'
<1>1. /\ listOf' \in [Markups -> Lists \union {Nobody}]
      /\ listOf'[m] \in GivenLists \union {m}
      /\ \A n \in Markups : n # m => listOf'[n] = listOf[n]
      /\ listOf[m] = Nobody /\ UNCHANGED <<rowsIn, buttonsIn, addedTo, shared>>
  BY DEF Build, MarkupIInv, MarkupTypeOK, Lists
<1>2. \A n \in Markups : Built(n) => listOf'[n] = listOf[n] /\ Built(n)'
  BY <1>1 DEF Built
<1>3. MarkupTypeOK'
  BY <1>1 DEF MarkupIInv, MarkupTypeOK
<1>4. OwnOrGiven'
  BY <1>1 DEF MarkupIInv, OwnOrGiven, Built
<1>5. MadeRowsStay'
  BY <1>1, <1>2 DEF MarkupIInv, MadeRowsStay
<1>6. ButtonsStay'
  BY <1>1, <1>2 DEF MarkupIInv, ButtonsStay
<1> QED BY <1>3, <1>4, <1>5, <1>6 DEF MarkupIInv

(* A row appended to the list of a markup.                                 *)
LEMMA RowAppended ==
  ASSUME MarkupIInv, NEW m \in Markups, Built(m), NEW r \in Rows, AppendRow(m, r)
  PROVE  /\ rowsIn' \in [Lists -> Seq(Rows)]
         /\ listOf[m] \in Lists
         /\ Range(rowsIn'[listOf[m]]) = Range(rowsIn[listOf[m]]) \union {r}
         /\ \A l \in Lists : l # listOf[m] => rowsIn'[l] = rowsIn[l]
<1>1. listOf[m] \in Lists /\ rowsIn[listOf[m]] \in Seq(Rows)
  BY DEF MarkupIInv, MarkupTypeOK, Built
<1>2. rowsIn' = [rowsIn EXCEPT ![listOf[m]] = Append(rowsIn[listOf[m]], r)]
  BY DEF AppendRow
<1> QED BY <1>1, <1>2, RangeOfAppend DEF MarkupIInv, MarkupTypeOK

LEMMA ButtonAppended ==
  ASSUME MarkupIInv, NEW r \in Rows, NEW b \in Buttons, AppendButton(r, b)
  PROVE  /\ buttonsIn' \in [Rows -> Seq(Rows)]
         /\ Range(buttonsIn'[r]) = Range(buttonsIn[r]) \union {b}
         /\ \A q \in Rows : q # r => buttonsIn'[q] = buttonsIn[q]
<1>1. b \in Rows /\ buttonsIn[r] \in Seq(Rows)
  BY DEF MarkupIInv, MarkupTypeOK, Rows
<1>2. buttonsIn' = [buttonsIn EXCEPT ![r] = Append(buttonsIn[r], b)]
  BY DEF AppendButton
<1> QED BY <1>1, <1>2, RangeOfAppend DEF MarkupIInv, MarkupTypeOK

LEMMA AddRowKeeps ==
  ASSUME MarkupIInv, NEW m \in Markups, NEW r \in Rows, AddRow(m, r)
  PROVE  MarkupIInv'
<1>1. /\ rowsIn' \in [Lists -> Seq(Rows)]
      /\ listOf[m] \in Lists
      /\ Range(rowsIn'[listOf[m]]) = Range(rowsIn[listOf[m]]) \union {r}
      /\ \A l \in Lists : l # listOf[m] => rowsIn'[l] = rowsIn[l]
      /\ UNCHANGED <<buttonsIn, listOf, addedTo>>
      /\ shared' = shared \union {r}
  BY RowAppended DEF AddRow
<1>2. r \in Buttons => addedTo[r] \in Markups
  <2> SUFFICES ASSUME r \in Buttons PROVE addedTo[r] \in Markups
    OBVIOUS
  <2>1. PICK n \in Markups : r \in RowsOf(n)
    BY MarkupRowsAssumption DEF AddRow
  <2>2. Built(n) /\ r \in Range(rowsIn[listOf[n]])
    BY <2>1 DEF RowsOf
  <2>3. listOf[n] \in Lists
    BY <2>2 DEF Built, MarkupIInv, MarkupTypeOK
  <2> QED BY <2>2, <2>3 DEF MarkupIInv, MadeRowsStay
<1>3. MarkupTypeOK'
  BY <1>1 DEF MarkupIInv, MarkupTypeOK
<1>4. OwnOrGiven'
  BY <1>1 DEF MarkupIInv, OwnOrGiven, Built
<1>5. \A n \in Markups : Built(n)' <=> Built(n)
  BY <1>1 DEF Built
<1>6. MadeRowsStay'
  <2>1. ASSUME NEW l \in Lists, NEW b \in Range(rowsIn'[l]) \intersect Buttons
        PROVE  b = r \/ b \in Range(rowsIn[l])
    <3>1. CASE l = listOf[m]
      BY <1>1, <1>2, <2>1, <3>1
    <3>2. CASE l # listOf[m]
      BY <1>1, <2>1, <3>2
    <3> QED BY <3>1, <3>2
  <2>2. addedTo' = addedTo /\ listOf' = listOf
    BY <1>1
  <2> QED BY <1>1, <1>2, <1>5, <2>1, <2>2 DEF MarkupIInv, MadeRowsStay
<1>7. \A l \in Lists : Range(rowsIn[l]) \subseteq Range(rowsIn'[l])
  BY <1>1
<1>8. \A n \in Markups : Built(n) => listOf[n] \in Lists
  BY DEF MarkupIInv, MarkupTypeOK, Built
<1>9. ButtonsStay'
  BY <1>1, <1>5, <1>7, <1>8 DEF MarkupIInv, ButtonsStay
<1> QED BY <1>3, <1>4, <1>6, <1>9 DEF MarkupIInv

LEMMA AddButtonKeeps ==
  ASSUME MarkupIInv, NEW m \in Markups, NEW b \in Buttons, AddBuiltButton(m, b)
  PROVE  MarkupIInv'
<1>1. /\ addedTo[b] = Nobody /\ Built(m) /\ UNCHANGED <<listOf, shared>>
      /\ addedTo' \in [Buttons -> Markups \union {Nobody}]
      /\ addedTo'[b] = m
      /\ \A c \in Buttons : c # b => addedTo'[c] = addedTo[c]
  BY DEF AddBuiltButton, MarkupIInv, MarkupTypeOK
<1>2. Nobody \notin Markups
  BY MarkupRowsAssumption
<1>3. \A n \in Markups : (Built(n)' <=> Built(n)) /\ (Built(n) => listOf[n] \in Lists)
  BY <1>1 DEF Built, MarkupIInv, MarkupTypeOK
<1>4. b \notin UNION {Range(rowsIn[l]) : l \in Lists}
  BY <1>1, <1>2 DEF MarkupIInv, MadeRowsStay
<1>5. b \notin UNION {Range(buttonsIn[q]) : q \in Rows}
  BY <1>1, <1>2 DEF MarkupIInv, ButtonsStay
<1>6. OwnOrGiven'
  BY <1>1, <1>3 DEF MarkupIInv, OwnOrGiven
<1>7. /\ rowsIn' \in [Lists -> Seq(Rows)]
      /\ \A l \in Lists : Range(rowsIn[l]) \subseteq Range(rowsIn'[l])
      /\ \A l \in Lists : Range(rowsIn'[l]) \ Range(rowsIn[l]) \subseteq {b}
      /\ \A l \in Lists : l # listOf[m] => Range(rowsIn'[l]) = Range(rowsIn[l])
      /\ \E r \in Rows : r \in Range(rowsIn'[listOf[m]]) /\ AppendButton(r, b)
  <2>1. CASE AppendRow(m, b) /\ AppendButton(b, b)
    <3>1. b \in Rows
      BY DEF Rows
    <3>2. /\ rowsIn' \in [Lists -> Seq(Rows)] /\ listOf[m] \in Lists
          /\ Range(rowsIn'[listOf[m]]) = Range(rowsIn[listOf[m]]) \union {b}
          /\ \A l \in Lists : l # listOf[m] => rowsIn'[l] = rowsIn[l]
      BY <1>1, <2>1, <3>1, RowAppended
    <3> QED BY <2>1, <3>1, <3>2
  <2>2. CASE /\ rowsIn[listOf[m]] # <<>>
             /\ AppendButton(LastRow(m), b)
             /\ UNCHANGED rowsIn
    <3>1. listOf[m] \in Lists /\ rowsIn[listOf[m]] \in Seq(Rows)
      BY <1>1, <1>3 DEF MarkupIInv, MarkupTypeOK
    <3>2. Len(rowsIn[listOf[m]]) \in DOMAIN rowsIn[listOf[m]]
      BY <2>2, <3>1
    <3>3. LastRow(m) \in Rows /\ LastRow(m) \in Range(rowsIn[listOf[m]])
      BY <3>1, <3>2 DEF LastRow, Range
    <3> QED BY <2>2, <3>1, <3>3 DEF MarkupIInv, MarkupTypeOK
  <2> QED BY <2>1, <2>2 DEF AddBuiltButton
<1>8. PICK r \in Rows : r \in Range(rowsIn'[listOf[m]]) /\ AppendButton(r, b)
  BY <1>7
<1>9. /\ buttonsIn' \in [Rows -> Seq(Rows)]
      /\ Range(buttonsIn'[r]) = Range(buttonsIn[r]) \union {b}
      /\ \A q \in Rows : q # r => buttonsIn'[q] = buttonsIn[q]
  BY <1>8, ButtonAppended
<1>10. MarkupTypeOK'
  BY <1>1, <1>7, <1>9 DEF MarkupIInv, MarkupTypeOK
<1>11. MadeRowsStay'
  <2> SUFFICES ASSUME NEW l \in Lists, NEW c \in Buttons, c \in Range(rowsIn'[l])
               PROVE  /\ addedTo'[c] \in Markups
                      /\ c \notin shared =>
                           Built(addedTo'[c]) /\ listOf[addedTo'[c]] = l
    BY <1>1, <1>3 DEF MadeRowsStay
  <2>1. CASE c = b
    BY <1>1, <1>4, <1>7, <2>1
  <2>2. CASE c # b
    BY <1>1, <1>7, <2>2 DEF MarkupIInv, MadeRowsStay
  <2> QED BY <2>1, <2>2
<1>12. ButtonsStay'
  <2> SUFFICES ASSUME NEW q \in Rows, NEW c \in Buttons, c \in Range(buttonsIn'[q])
               PROVE  addedTo'[c] \in Markups /\ Built(addedTo'[c])
                        /\ q \in Range(rowsIn'[listOf[addedTo'[c]]])
    BY <1>1, <1>3 DEF ButtonsStay
  <2>1. CASE c = b
    <3>1. q = r
      BY <1>5, <1>9, <2>1
    <3> QED BY <1>1, <1>8, <2>1, <3>1
  <2>2. CASE c # b
    <3>1. c \in Range(buttonsIn[q])
      BY <1>9, <2>2
    <3>2. addedTo[c] \in Markups /\ Built(addedTo[c])
            /\ q \in Range(rowsIn[listOf[addedTo[c]]])
      BY <3>1 DEF MarkupIInv, ButtonsStay
    <3> QED BY <1>1, <1>3, <1>7, <2>2, <3>2
  <2> QED BY <2>1, <2>2
<1> QED BY <1>6, <1>10, <1>11, <1>12 DEF MarkupIInv

LEMMA MarkupStepInv == MarkupIInv /\ [MarkupNext]_markupVars => MarkupIInv'
<1> SUFFICES ASSUME MarkupIInv, [MarkupNext]_markupVars PROVE MarkupIInv'
  OBVIOUS
<1>1. CASE MarkupNext
  BY <1>1, BuildKeeps, AddRowKeeps, AddButtonKeeps DEF MarkupNext, Rows
<1>2. CASE UNCHANGED markupVars
  BY <1>2 DEF markupVars, MarkupIInv, MarkupTypeOK, OwnOrGiven, MadeRowsStay, ButtonsStay, Built
<1> QED BY <1>1, <1>2

LEMMA NotForeign == MarkupIInv => NoForeignButtons
<1> SUFFICES ASSUME MarkupIInv, NEW m \in Markups, NEW n \in Markups, m # n,
                    NEW b \in Shows(m) \intersect Buttons, addedTo[b] = n
             PROVE  \/ listOf[m] = listOf[n] /\ listOf[m] \in GivenLists
                    \/ b \in UNION {Range(buttonsIn[r]) :
                              r \in RowsOf(m) \intersect RowsOf(n) \intersect shared}
  BY DEF NoForeignButtons
<1>1. PICK r : r \in RowsOf(m) /\ b \in Range(buttonsIn[r])
  BY DEF Shows
<1>2. /\ Built(m) /\ listOf[m] \in Lists /\ r \in Range(rowsIn[listOf[m]])
      /\ r \in Rows
  BY <1>1 DEF RowsOf, Built, MarkupIInv, MarkupTypeOK, Range
<1>3. Built(n) /\ r \in Range(rowsIn[listOf[n]]) /\ listOf[n] \in Lists
  BY <1>1, <1>2 DEF MarkupIInv, MarkupTypeOK, ButtonsStay, Built
<1>4. r \in RowsOf(n)
  BY <1>3 DEF RowsOf
<1>5. CASE r \in shared
  BY <1>1, <1>4, <1>5
<1>6. CASE r \notin shared
  <2>1. listOf[m] = listOf[n]
    <3>1. r \in Buttons
      BY <1>2, <1>6 DEF MarkupIInv, MarkupTypeOK, Rows
    <3> QED BY <1>2, <1>3, <1>6, <3>1 DEF MarkupIInv, MadeRowsStay
  <2>2. listOf[m] \in GivenLists \union {m} /\ listOf[n] \in GivenLists \union {n}
    BY <1>2, <1>3 DEF MarkupIInv, OwnOrGiven
  <2> QED BY <2>1, <2>2
<1> QED BY <1>5, <1>6

(* What the library makes for one markup is seen on no other one.          *)
THEOREM MarkupsAreTheirOwn == MarkupSpec => []NoForeignButtons
<1>1. MarkupSpec => []MarkupIInv
  BY MarkupInitInv, MarkupStepInv, PTL DEF MarkupSpec
<1> QED BY <1>1, NotForeign, PTL

-----------------------------------------------------------------------------
(* SmartApps.                                                              *)

(* A file as its domain object holds it.                                   *)
IsDomainFile(d) ==
  /\ d = [type |-> d.type, duration |-> d.duration, optional |-> d.optional]
  /\ d.type \in FileTypes
  /\ IsLeaf(d.duration)
  /\ d.duration = None <=> d.type \notin Timed
  /\ d.optional = [f \in OptionalFields |-> d.optional[f]]
  /\ \A f \in OptionalFields : IsLeaf(d.optional[f])

(* The JSON it is sent as.                                                 *)
FileWire(d) == Clean4(AsyncFileFromDomain(d))

LEMMA NoneIsLeaf == IsLeaf(None) /\ \A x : IsLeaf(Leaf(x)) /\ Leaf(x).of = x
BY DEF None, Leaf, IsLeaf

LEMMA FileFields ==
  "type" \notin OptionalFields /\ "duration" \notin OptionalFields
BY DEF OptionalFields

LEMMA FileWireFields ==
  ASSUME NEW d, IsDomainFile(d)
  PROVE  LET wired == FileWire(d)
         IN /\ wired.is = "dict"
            /\ Field(wired, "type") = Leaf(d.type)
            /\ d.type \in Timed => Field(wired, "duration") = d.duration
            /\ \A f \in OptionalFields : ToOptional(Field(wired, f)) = d.optional[f]
            /\ "type" \in DOMAIN wired.of
            /\ d.type \in Timed => "duration" \in DOMAIN wired.of
<1> DEFINE timed == IF d.type \in Timed THEN {"duration"} ELSE {}
           names == OptionalFields \union {"type"} \union timed
           whole == [f \in names |->
                       CASE f = "type" -> Leaf(d.type)
                         [] f = "duration" -> d.duration
                         [] OTHER -> ToMissing(d.optional[f])]
           parts == [f \in names |-> Clean3(whole[f])]
           Kept == {f \in names : /\ whole[f] # Undefined
                                  /\ Holds(whole[f]) => ~Empty(parts[f]) \/ Empty(whole[f])}
<1>1. FileWire(d) = Dict([f \in Kept |-> parts[f]])
  BY DEF FileWire, AsyncFileFromDomain, Clean4, Within, Cleaned, Dict
<1>2. \A f \in names : IsLeaf(whole[f]) \/ whole[f] = Undefined
  BY NoneIsLeaf DEF IsDomainFile, ToMissing
<1>3. /\ whole["type"] = Leaf(d.type)
      /\ d.type \in Timed => whole["duration"] = d.duration
      /\ \A f \in OptionalFields : whole[f] = ToMissing(d.optional[f])
  BY FileFields
<1> HIDE DEF whole
<1>4. \A f \in names : IsLeaf(whole[f]) => f \in Kept /\ parts[f] = whole[f]
  BY LeafFacts
<1>5. \A f \in Kept : f \in names /\ IsLeaf(whole[f])
  BY <1>2
<1> HIDE DEF Kept, parts
<1>6. FileWire(d).is = "dict" /\ FileWire(d).of = [f \in Kept |-> parts[f]]
  BY <1>1 DEF Dict
<1>7. "type" \in Kept /\ FileWire(d).of["type"] = Leaf(d.type)
  BY <1>3, <1>4, <1>6, NoneIsLeaf
<1>8. d.type \in Timed =>
        "duration" \in Kept /\ FileWire(d).of["duration"] = d.duration
  BY <1>3, <1>4, <1>6 DEF IsDomainFile
<1>9. ASSUME NEW f \in OptionalFields
      PROVE  ToOptional(Field(FileWire(d), f)) = d.optional[f]
  <2>1. CASE d.optional[f] = None
    <3>1. f \notin Kept
      BY <1>3, <1>5, <2>1, LeafFacts DEF ToMissing
    <3> QED BY <1>6, <2>1, <3>1 DEF Field, ToOptional
  <2>2. CASE d.optional[f] # None
    <3>1. f \in Kept /\ parts[f] = d.optional[f]
      BY <1>3, <1>4, <2>2 DEF ToMissing, IsDomainFile
    <3>2. d.optional[f] # Undefined
      BY LeafFacts DEF IsDomainFile
    <3> QED BY <1>6, <3>1, <3>2 DEF Field, ToOptional
  <2> QED BY <2>1, <2>2
<1> QED BY <1>6, <1>7, <1>8, <1>9 DEF Field

(* Sent and received again, a file is accepted and is what it was.         *)
LEMMA FileReturns ==
  ASSUME NEW d, IsDomainFile(d)
  PROVE  IsApiFile(FileWire(d)) /\ AsyncFileToDomain(FileWire(d)) = d
<1> DEFINE wired == FileWire(d)
<1>1. /\ wired.is = "dict"
      /\ Field(wired, "type") = Leaf(d.type)
      /\ d.type \in Timed => Field(wired, "duration") = d.duration
      /\ \A f \in OptionalFields : ToOptional(Field(wired, f)) = d.optional[f]
      /\ "type" \in DOMAIN wired.of
      /\ d.type \in Timed => "duration" \in DOMAIN wired.of
  BY FileWireFields
<1> HIDE DEF wired
<1>2. IsApiFile(wired)
  <2>1. d.type \in Timed => d.duration \notin {Undefined, None}
    BY LeafFacts DEF IsDomainFile
  <2> QED BY <1>1, <2>1 DEF IsApiFile, IsDomainFile
<1>3. wired.of["type"].of = d.type
  BY <1>1, NoneIsLeaf DEF Field
<1>4. d.type \in Timed => wired.of["duration"] = d.duration
  BY <1>1 DEF Field
<1>5. [f \in OptionalFields |-> ToOptional(Field(wired, f))] = d.optional
  BY <1>1 DEF IsDomainFile
<1>6. AsyncFileToDomain(wired) = d
  BY <1>3, <1>4, <1>5 DEF AsyncFileToDomain, IsDomainFile
<1> QED BY <1>2, <1>6 DEF wired

(* What was received is a domain object.                                   *)
LEMMA ReceivedIsDomainFile ==
  ASSUME NEW json, json.is = "dict", \A f \in DOMAIN json.of : IsLeaf(json.of[f]),
         IsApiFile(json)
  PROVE  IsDomainFile(AsyncFileToDomain(json))
<1>1. PICK type \in FileTypes :
        /\ Field(json, "type") = Leaf(type)
        /\ type \in Timed => Field(json, "duration") \notin {Undefined, None}
  BY DEF IsApiFile
<1>2. json.of["type"].of = type
  BY <1>1, NoneIsLeaf, LeafFacts DEF Field
<1>3. type \in Timed => IsLeaf(json.of["duration"]) /\ json.of["duration"] # None
  BY <1>1 DEF Field
<1>4. \A f : IsLeaf(ToOptional(Field(json, f)))
  BY NoneIsLeaf DEF Field, ToOptional
<1>5. /\ AsyncFileToDomain(json).type = type
      /\ AsyncFileToDomain(json).duration =
           IF type \in Timed THEN json.of["duration"] ELSE None
      /\ AsyncFileToDomain(json).optional =
           [f \in OptionalFields |-> ToOptional(Field(json, f))]
      /\ AsyncFileToDomain(json) =
           [type |-> AsyncFileToDomain(json).type,
            duration |-> AsyncFileToDomain(json).duration,
            optional |-> AsyncFileToDomain(json).optional]
  BY <1>2 DEF AsyncFileToDomain
<1>6. IsLeaf(AsyncFileToDomain(json).duration)
  BY <1>3, <1>5, NoneIsLeaf
<1>7. AsyncFileToDomain(json).duration = None <=> type \notin Timed
  BY <1>3, <1>5
<1> QED BY <1>4, <1>5, <1>6, <1>7 DEF IsDomainFile

-----------------------------------------------------------------------------
(* Files as they are sent.                                                 *)
AreDomainFiles(files) ==
  /\ files \in Seq({files[i] : i \in DOMAIN files})
  /\ \A i \in DOMAIN files : IsDomainFile(files[i])

FilesWire(files) == List([i \in DOMAIN files |-> FileWire(files[i])])

LEMMA FileWireJson ==
  ASSUME NEW d, IsDomainFile(d)
  PROVE  IsJson4(FileWire(d)) /\ ~Empty(FileWire(d))
<1>1. \A f \in DOMAIN AsyncFileFromDomain(d).of :
        LET v == AsyncFileFromDomain(d).of[f] IN v = Undefined \/ IsLeaf(v)
  BY NoneIsLeaf DEF IsDomainFile, AsyncFileFromDomain, Dict, ToMissing
<1>2. \A v : v = Undefined \/ IsLeaf(v) => Made3(v)
  BY SimpleMade
<1>3. IsMade(AsyncFileFromDomain(d)) /\ AsyncFileFromDomain(d) # Undefined
  BY DictFacts DEF AsyncFileFromDomain
<1>4. Made4(AsyncFileFromDomain(d))
  BY <1>1, <1>2, <1>3 DEF Made4, WithParts
<1>5. IsJson4(FileWire(d))
  BY <1>3, <1>4, Clean4Json DEF FileWire
<1>6. "type" \in DOMAIN FileWire(d).of
  BY FileWireFields
<1> QED BY <1>5, <1>6 DEF Empty

LEMMA ApiFilesCleaned ==
  ASSUME NEW files, AreDomainFiles(files)
  PROVE  /\ Clean5(ApiFiles(files)) = FilesWire(files)
         /\ IsJson5(FilesWire(files))
<1> DEFINE items == [i \in DOMAIN files |-> AsyncFileFromDomain(files[i])]
           parts == [i \in DOMAIN files |-> FileWire(files[i])]
<1>1. files \in Seq({files[i] : i \in DOMAIN files})
  BY DEF AreDomainFiles
<1>2. items \in Seq({items[i] : i \in DOMAIN files})
  BY <1>1, MappedSeq
<1>3. parts \in Seq({parts[i] : i \in DOMAIN files})
  BY <1>1, MappedSeq
<1>4. \A i \in DOMAIN items : items[i] # Undefined /\ ~Empty(parts[i])
  BY DictFacts, FileWireJson DEF AreDomainFiles, AsyncFileFromDomain
<1>5. Cleaned(List(items), parts) = List(parts)
  <2>1. DOMAIN items = DOMAIN files /\ parts = [i \in DOMAIN items |-> parts[i]]
    OBVIOUS
  <2> HIDE DEF items, parts
  <2> QED BY <1>2, <1>4, <2>1, ListKept
<1>6. Clean5(ApiFiles(files)) = Cleaned(List(items), parts)
  BY DEF Clean5, Within, ApiFiles, FileWire, List
<1>7. IsJson5(List(parts))
  <2>1. \A i \in DOMAIN parts : IsJson4(parts[i])
    BY FileWireJson DEF AreDomainFiles
  <2> HIDE DEF parts
  <2> QED BY <1>3, <2>1, ListFacts DEF IsJson5, Throughout
<1> QED BY <1>5, <1>6, <1>7 DEF FilesWire

LEMMA NoFiles ==
  /\ Clean5(List(<<>>)) = List(<<>>) /\ IsJson5(List(<<>>)) /\ IsJson5(Dict(<<>>))
  /\ Clean5(Dict(<<>>)) = Dict(<<>>)
  /\ List(<<>>).of = <<>> /\ Empty(List(<<>>)) /\ Empty(Dict(<<>>))
<1>1. PICK empty : /\ empty = <<>>
                   /\ empty \in Seq({})
                   /\ empty = [f \in DOMAIN empty |-> empty[f]]
                   /\ DOMAIN empty = {}
  <2>1. <<>> \in Seq({}) /\ <<>> = [f \in DOMAIN <<>> |-> <<>>[f]] /\ DOMAIN <<>> = {}
    OBVIOUS
  <2> QED BY <2>1, Zenon
<1>2. IsJson5(List(empty))
  BY <1>1, ListFacts DEF IsJson5, Throughout
<1>3. IsJson5(Dict(empty))
  BY <1>1, DictFacts DEF IsJson5, Throughout
<1>4. List(<<>>).of = <<>> /\ Dict(<<>>).of = <<>>
  BY DEF List, Dict
<1>5. DOMAIN <<>> = {}
  OBVIOUS
<1> QED BY <1>1, <1>2, <1>3, <1>4, <1>5, Clean5Keeps DEF Empty

-----------------------------------------------------------------------------
HeldAreFiles == AreDomainFiles(held)

(* What the bot holds is what it received.                                 *)
HeldWereReceived ==
  IF received = Nothing THEN held = <<>> ELSE held = received.of

(* The files of what was sent last are those the bot holds.                *)
SentWereHeld ==
  wire # Nothing /\ Field(wire, "files") # Undefined /\ ~Empty(wire.of.files) =>
    wire.of.files = FilesWire(held)

AppIInv ==
  HeldAreFiles /\ HeldWereReceived /\ SentWereHeld /\ ~refused /\ SentWhole

LEMMA AppInitInv == AppInit => AppIInv
<1> SUFFICES ASSUME AppInit PROVE AppIInv
  OBVIOUS
<1>1. HeldAreFiles
  <2>1. <<>> \in Seq({<<>>[i] : i \in DOMAIN <<>>}) /\ DOMAIN <<>> = {}
    OBVIOUS
  <2> QED BY <2>1 DEF AppInit, HeldAreFiles, AreDomainFiles
<1> QED BY <1>1 DEF AppInit, AppIInv, HeldWereReceived, SentWereHeld, SentWhole

LEMMA ReceivingKeeps ==
  ASSUME AppIInv, ReceiveFiles
  PROVE  AppIInv'
<1>1. /\ received = Nothing /\ held = <<>>
      /\ UNCHANGED <<refused, asked, wire>>
  BY DEF ReceiveFiles, AppIInv, HeldWereReceived
<1>2. PICK jsons \in FileLists :
        /\ Acceptable(jsons)
        /\ received' = List(DomainFiles(jsons))
        /\ held' = DomainFiles(jsons)
  BY DEF ReceiveFiles
<1>3. /\ jsons \in Seq({jsons[i] : i \in DOMAIN jsons})
      /\ \A i \in DOMAIN jsons :
           /\ jsons[i].is = "dict"
           /\ \A f \in DOMAIN jsons[i].of : IsLeaf(jsons[i].of[f])
  BY SmartAppsAssumption DEF IsLeaf, IsSequence
<1>4. AreDomainFiles(DomainFiles(jsons))
  <2>1. \A i \in DOMAIN jsons : IsDomainFile(AsyncFileToDomain(jsons[i]))
    BY <1>2, <1>3, ReceivedIsDomainFile DEF Acceptable
  <2> DEFINE files == [i \in DOMAIN jsons |-> AsyncFileToDomain(jsons[i])]
  <2>2. files \in Seq({files[i] : i \in DOMAIN jsons})
    BY <1>3, MappedSeq
  <2> QED BY <2>1, <2>2 DEF AreDomainFiles, DomainFiles
<1>5. HeldWereReceived'
  BY <1>2 DEF HeldWereReceived, List, Nothing
<1>6. SentWereHeld'
  <2> SUFFICES ASSUME wire # Nothing, Field(wire, "files") # Undefined
               PROVE  Empty(wire.of.files)
    BY <1>1 DEF SentWereHeld
  <2>1. FilesWire(<<>>).of = <<>>
    BY DEF FilesWire, List
  <2>2. DOMAIN <<>> = {}
    OBVIOUS
  <2> QED BY <1>1, <2>1, <2>2 DEF AppIInv, SentWereHeld, Empty
<1>7. SentWhole'
  BY <1>1 DEF AppIInv, SentWhole
<1> QED BY <1>1, <1>2, <1>4, <1>5, <1>6, <1>7 DEF AppIInv, HeldAreFiles

LEMMA ReceivingOwnKeeps ==
  ASSUME AppIInv, ReceiveOwnFiles
  PROVE  AppIInv'
<1> DEFINE jsons == wire.of.files.of
<1>1. wire.of.files = FilesWire(held)
  BY DEF ReceiveOwnFiles, AppIInv, SentWereHeld
<1>2. jsons = [i \in DOMAIN held |-> FileWire(held[i])]
  BY <1>1 DEF FilesWire, List
<1> HIDE DEF jsons
<1>3. \A i \in DOMAIN held : /\ IsApiFile(FileWire(held[i]))
                             /\ AsyncFileToDomain(FileWire(held[i])) = held[i]
  BY FileReturns DEF AppIInv, HeldAreFiles, AreDomainFiles
<1>4. Acceptable(jsons)
  BY <1>2, <1>3 DEF Acceptable
<1>5. DomainFiles(jsons) = held
  <2>1. DomainFiles(jsons) = [i \in DOMAIN held |-> held[i]]
    BY <1>2, <1>3 DEF DomainFiles
  <2>2. held = [i \in DOMAIN held |-> held[i]]
    BY DEF AppIInv, HeldAreFiles, AreDomainFiles
  <2> QED BY <2>1, <2>2
<1>6. held' = held /\ (refused' <=> refused) /\ UNCHANGED <<received, asked, wire>>
  BY <1>4, <1>5 DEF ReceiveOwnFiles, jsons
<1> QED BY <1>6 DEF AppIInv, HeldAreFiles, HeldWereReceived, SentWereHeld, SentWhole

LEMMA ConvertedCleaned ==
  ASSUME AppIInv, NEW files \in FilesGiven
  PROVE  /\ Converted(files) # Undefined
         /\ IsJson5(Clean5(Converted(files)))
         /\ Empty(Converted(files)) <=> Empty(Clean5(Converted(files)))
         /\ ~Empty(Clean5(Converted(files))) =>
              Clean5(Converted(files)) = FilesWire(held)
         /\ files # Undefined =>
              /\ files = List(held)
              /\ DOMAIN Clean5(Converted(files)).of = DOMAIN files.of
<1>1. CASE files = Undefined
  BY <1>1, NoFiles DEF Converted, List, Undefined
<1>2. CASE files = List(held)
  <2>1. files # Undefined /\ files.of = held
    BY <1>2 DEF List, Undefined
  <2>2. Converted(files) = ApiFiles(held)
    BY <2>1 DEF Converted
  <2>3. Clean5(Converted(files)) = FilesWire(held) /\ IsJson5(FilesWire(held))
    BY <2>2, ApiFilesCleaned DEF AppIInv, HeldAreFiles
  <2>4. /\ ApiFiles(held) # Undefined
        /\ DOMAIN ApiFiles(held).of = DOMAIN held
        /\ DOMAIN FilesWire(held).of = DOMAIN held
    BY DEF ApiFiles, FilesWire, List, Undefined
  <2> QED BY <1>2, <2>1, <2>2, <2>3, <2>4 DEF Empty
<1> QED BY <1>1, <1>2 DEF FilesGiven

(* What a request's arguments become on the wire.                          *)
LEMMA ArgumentsSent ==
  ASSUME NEW v \in Objects \union {None, List(<<>>), Dict(<<>>), Leaf("smartapp_error")}
  PROVE  v # Undefined /\ Clean5(v) = v /\ IsJson5(v)
<1>1. CASE v \in Objects
  BY <1>1, SmartAppsAssumption, Clean5Keeps DEF IsJson5, Throughout
<1>2. None # Undefined /\ Clean5(None) = None /\ IsJson5(None)
  BY NoneIsLeaf, LeafFacts
<1>3. \A x : Leaf(x) # Undefined /\ Clean5(Leaf(x)) = Leaf(x) /\ IsJson5(Leaf(x))
  BY NoneIsLeaf, LeafFacts
<1>4. List(<<>>) # Undefined /\ Dict(<<>>) # Undefined
  BY DEF List, Dict, Undefined
<1> QED BY <1>1, <1>2, <1>3, <1>4, NoFiles

LEMMA AnswerWithResultKeeps ==
  ASSUME AppIInv, AnswerWithResult
  PROVE  AppIInv'
<1>1. PICK object \in Objects, files \in FilesGiven :
        /\ asked' = [is |-> "result", data |-> object, files |-> files]
        /\ wire' = RemoveUndefined(Dict([data |-> object, files |-> Converted(files)]))
  BY DEF AnswerWithResult
<1>2. UNCHANGED <<received, held, refused>>
  BY DEF AnswerWithResult
<1> DEFINE fields == [data |-> object, files |-> Converted(files)]
           sent == [f \in {g \in DOMAIN fields : fields[g] # Undefined} |-> Clean5(fields[f])]
<1>3. object # Undefined /\ Clean5(object) = object /\ IsJson5(object)
  BY ArgumentsSent
<1>4. /\ Converted(files) # Undefined
      /\ IsJson5(Clean5(Converted(files)))
      /\ Empty(Converted(files)) <=> Empty(Clean5(Converted(files)))
      /\ ~Empty(Clean5(Converted(files))) => Clean5(Converted(files)) = FilesWire(held)
      /\ files # Undefined =>
           /\ files = List(held)
           /\ DOMAIN Clean5(Converted(files)).of = DOMAIN files.of
  BY ConvertedCleaned
<1>5. DOMAIN fields = {"data", "files"} /\ fields = [f \in DOMAIN fields |-> fields[f]]
      /\ fields["data"] = object /\ fields["files"] = Converted(files)
  OBVIOUS
<1>6. wire' = Dict(sent) /\ IsJson(wire')
  <2>1. RemoveUndefined(Dict(fields)) = Dict(sent) /\ IsJson(RemoveUndefined(Dict(fields)))
    <3> HIDE DEF fields
    <3> QED BY <1>3, <1>4, <1>5, TopCleaned
  <2> QED BY <1>1, <2>1
<1>7. /\ wire' # Nothing /\ wire'.of = sent /\ DOMAIN sent = {"data", "files"}
      /\ sent["data"] = object /\ sent["files"] = Clean5(Converted(files))
  <2>1. /\ DOMAIN sent = {"data", "files"}
        /\ sent["data"] = object /\ sent["files"] = Clean5(Converted(files))
    BY <1>3, <1>4, <1>5
  <2> HIDE DEF sent
  <2> QED BY <1>6, <2>1 DEF Dict, Nothing
<1> HIDE DEF fields, sent
<1>8. SentWereHeld'
  BY <1>2, <1>4, <1>7 DEF SentWereHeld, Field
<1>9. SentWhole'
  <2>1. /\ asked'.is = "result" /\ asked'.files = files /\ asked'["data"] = object
        /\ DOMAIN asked' \ {"is", "files"} = {"data"}
    BY <1>1
  <2>2. Required["result"] = {"data", "files"}
    BY DEF Required
  <2>3. Field(wire', "data") = object
    BY <1>7 DEF Field
  <2> QED BY <1>4, <1>6, <1>7, <2>1, <2>2, <2>3 DEF SentWhole
<1> QED BY <1>2, <1>8, <1>9 DEF AppIInv, HeldAreFiles, HeldWereReceived

LEMMA SendingKeeps ==
  ASSUME AppIInv, SendSmartAppEvent
  PROVE  AppIInv'
<1>1. PICK ref \in {Undefined, None}, opts \in {Undefined} \union Objects,
           object \in Objects, files \in FilesGiven :
        LET json == RemoveUndefined(
              Dict([ref |-> ref, opts |-> opts, data |-> object,
                    files |-> IF Empty(Converted(files)) THEN Undefined
                              ELSE Converted(files)]))
        IN /\ asked' = [is |-> "event", ref |-> ref, opts |-> opts, data |-> object,
                        files |-> files]
           /\ wire' = Dict([f \in DOMAIN json.of \union {"opts"} |->
                              IF f \in DOMAIN json.of THEN json.of[f] ELSE Dict(<<>>)])
  BY DEF SendSmartAppEvent
<1>2. UNCHANGED <<received, held, refused>>
  BY DEF SendSmartAppEvent
<1> DEFINE converted == IF Empty(Converted(files)) THEN Undefined ELSE Converted(files)
           fields == [ref |-> ref, opts |-> opts, data |-> object, files |-> converted]
           there == {g \in DOMAIN fields : fields[g] # Undefined}
           cleaned == [f \in there |-> Clean5(fields[f])]
           sent == [f \in there \union {"opts"} |->
                      IF f \in there THEN Clean5(fields[f]) ELSE Dict(<<>>)]
<1>3. /\ object # Undefined /\ Clean5(object) = object /\ IsJson5(object)
      /\ opts # Undefined => Clean5(opts) = opts /\ IsJson5(opts)
      /\ ref # Undefined => Clean5(ref) = ref /\ IsJson5(ref)
      /\ IsJson5(Dict(<<>>)) /\ Dict(<<>>) # Undefined
  BY ArgumentsSent
<1>4. /\ Converted(files) # Undefined
      /\ IsJson5(Clean5(Converted(files)))
      /\ Empty(Converted(files)) <=> Empty(Clean5(Converted(files)))
      /\ ~Empty(Clean5(Converted(files))) => Clean5(Converted(files)) = FilesWire(held)
      /\ files # Undefined =>
           /\ files = List(held)
           /\ DOMAIN Clean5(Converted(files)).of = DOMAIN files.of
  BY ConvertedCleaned
<1>5. /\ DOMAIN fields = {"ref", "opts", "data", "files"}
      /\ fields = [f \in DOMAIN fields |-> fields[f]]
      /\ fields["ref"] = ref /\ fields["opts"] = opts /\ fields["data"] = object
      /\ fields["files"] = converted
  OBVIOUS
<1>6. RemoveUndefined(Dict(fields)) = Dict(cleaned)
  <2>1. converted # Undefined => converted = Converted(files)
    OBVIOUS
  <2> HIDE DEF fields, converted
  <2>2. ASSUME NEW f \in DOMAIN fields, fields[f] # Undefined
        PROVE  /\ IsJson5(Clean5(fields[f]))
               /\ Holds(fields[f]) => ~Empty(Clean5(fields[f])) \/ Empty(fields[f])
    <3>1. CASE f = "files"
      BY <1>4, <1>5, <2>1, <2>2, <3>1
    <3>2. CASE f # "files"
      BY <1>3, <1>5, <2>2, <3>2
    <3> QED BY <3>1, <3>2
  <2> QED BY <1>5, <2>2, TopCleaned
<1>7. wire' = Dict(sent)
  <2>1. wire' = Dict([f \in DOMAIN Dict(cleaned).of \union {"opts"} |->
                        IF f \in DOMAIN Dict(cleaned).of THEN Dict(cleaned).of[f]
                        ELSE Dict(<<>>)])
    BY <1>1, <1>6
  <2>2. Dict(cleaned).of = cleaned
    BY DEF Dict
  <2>3. DOMAIN cleaned = there /\ \A f \in there : cleaned[f] = Clean5(fields[f])
    OBVIOUS
  <2> HIDE DEF cleaned, there, fields
  <2>4. [f \in DOMAIN cleaned \union {"opts"} |->
           IF f \in DOMAIN cleaned THEN cleaned[f] ELSE Dict(<<>>)] = sent
    BY <2>3
  <2> QED BY <2>1, <2>2, <2>4
<1>8. there \subseteq {"ref", "opts", "data", "files"} /\ "data" \in there
      /\ ("files" \in there <=> ~Empty(Converted(files)))
      /\ (opts # Undefined <=> "opts" \in there)
      /\ (ref # Undefined <=> "ref" \in there)
  BY <1>3, <1>4, <1>5
<1>9. /\ DOMAIN sent = there \union {"opts"}
      /\ sent["data"] = object
      /\ ref # Undefined => sent["ref"] = ref
      /\ opts # Undefined => sent["opts"] = opts
      /\ "files" \in there => sent["files"] = Clean5(Converted(files))
      /\ \A f \in DOMAIN sent : IsJson5(sent[f])
      /\ sent = [f \in DOMAIN sent |-> sent[f]]
  <2> HIDE DEF fields, there, converted
  <2>1. \A f \in there : Clean5(fields[f]) = sent[f]
    OBVIOUS
  <2>2. "files" \in there => fields["files"] = Converted(files)
    BY <1>5, <1>8 DEF converted
  <2>3. \A f \in there : IsJson5(Clean5(fields[f]))
    BY <1>3, <1>4, <1>5, <1>8, <2>2
  <2> QED BY <1>3, <1>5, <1>8, <2>1, <2>2, <2>3
<1> HIDE DEF fields, there, sent
<1>10. /\ wire' # Nothing /\ wire'.of = sent /\ IsJson(wire')
  BY <1>7, <1>9, DictFacts DEF Nothing, IsJson, Throughout
<1>11. SentWereHeld'
  BY <1>2, <1>4, <1>8, <1>9, <1>10 DEF SentWereHeld, Field
<1>12. SentWhole'
  <2>1. /\ asked'.is = "event" /\ asked'.files = files /\ asked'["data"] = object
        /\ asked'["ref"] = ref /\ asked'["opts"] = opts
        /\ DOMAIN asked' \ {"is", "files"} = {"ref", "opts", "data"}
    BY <1>1
  <2>2. Required["event"] = {"opts", "data"}
    BY DEF Required
  <2>3. \A f \in DOMAIN asked' \ {"is", "files"} :
          asked'[f] # Undefined => Field(wire', f) = asked'[f]
    BY <1>8, <1>9, <1>10, <2>1 DEF Field
  <2>4. asked'.files # Undefined /\ ~Empty(asked'.files) =>
          DOMAIN wire'.of.files.of = DOMAIN asked'.files.of
    BY <1>4, <1>8, <1>9, <1>10, <2>1 DEF Empty
  <2> QED BY <1>8, <1>9, <1>10, <2>1, <2>2, <2>3, <2>4 DEF SentWhole
<1> QED BY <1>2, <1>11, <1>12 DEF AppIInv, HeldAreFiles, HeldWereReceived

LEMMA AnswerWithErrorKeeps ==
  ASSUME AppIInv, AnswerWithError
  PROVE  AppIInv'
<1>1. PICK errorData \in {Undefined} \union Objects, errors \in {Undefined, List(<<>>)} :
        /\ asked' = [is |-> "error", errors |-> errors, error_data |-> errorData,
                     files |-> Undefined]
        /\ wire' = RemoveUndefined(
                     Dict([reason |-> Leaf("smartapp_error"),
                           errors |-> OrDefault(errors, List(<<>>)),
                           error_data |-> OrDefault(errorData, Dict(<<>>))]))
  BY DEF AnswerWithError
<1>2. UNCHANGED <<received, held, refused>>
  BY DEF AnswerWithError
<1> DEFINE fields == [reason |-> Leaf("smartapp_error"),
                      errors |-> OrDefault(errors, List(<<>>)),
                      error_data |-> OrDefault(errorData, Dict(<<>>))]
           sent == [f \in {g \in DOMAIN fields : fields[g] # Undefined} |-> Clean5(fields[f])]
<1>3. /\ DOMAIN fields = {"reason", "errors", "error_data"}
      /\ fields = [f \in DOMAIN fields |-> fields[f]]
      /\ fields["errors"] = OrDefault(errors, List(<<>>))
      /\ fields["error_data"] = OrDefault(errorData, Dict(<<>>))
      /\ \A f \in DOMAIN fields :
           fields[f] # Undefined /\ Clean5(fields[f]) = fields[f] /\ IsJson5(fields[f])
  BY ArgumentsSent DEF OrDefault
<1> HIDE DEF fields
<1>4. wire' = Dict(sent) /\ IsJson(wire')
  BY <1>1, <1>3, TopCleaned DEF fields
<1>5. /\ DOMAIN sent = DOMAIN fields
      /\ \A f \in DOMAIN fields : sent[f] = fields[f]
  BY <1>3
<1> HIDE DEF sent
<1>6. wire' # Nothing /\ wire'.of = sent
  BY <1>4 DEF Dict, Nothing
<1>7. SentWereHeld'
  BY <1>3, <1>5, <1>6 DEF SentWereHeld, Field
<1>8. SentWhole'
  <2>1. /\ asked'.is = "error" /\ asked'.files = Undefined
        /\ asked'["errors"] = errors /\ asked'["error_data"] = errorData
        /\ DOMAIN asked' \ {"is", "files"} = {"errors", "error_data"}
    BY <1>1
  <2>2. Required["error"] = {"reason", "errors", "error_data"}
    BY DEF Required
  <2>3. \A f \in DOMAIN asked' \ {"is", "files"} :
          asked'[f] # Undefined => Field(wire', f) = asked'[f]
    BY <1>3, <1>5, <1>6, <2>1 DEF Field, OrDefault
  <2> QED BY <1>3, <1>4, <1>5, <1>6, <2>1, <2>2, <2>3 DEF SentWhole
<1> QED BY <1>2, <1>7, <1>8 DEF AppIInv, HeldAreFiles, HeldWereReceived

LEMMA AppStepInv == AppIInv /\ [AppNext]_appVars => AppIInv'
<1> SUFFICES ASSUME AppIInv, [AppNext]_appVars PROVE AppIInv'
  OBVIOUS
<1>1. CASE AppNext
  BY <1>1, ReceivingKeeps, ReceivingOwnKeeps, SendingKeeps, AnswerWithResultKeeps,
    AnswerWithErrorKeeps DEF AppNext
<1>2. CASE UNCHANGED appVars
  BY <1>2 DEF appVars, AppIInv, HeldAreFiles, HeldWereReceived, SentWereHeld, SentWhole
<1> QED BY <1>1, <1>2

LEMMA AppInvariant == AppSpec => []AppIInv
BY AppInitInv, AppStepInv, PTL DEF AppSpec

(* For lists of files of any length, and after any calls: what is held is  *)
(* what was first received, and no bot refuses what a bot has sent.        *)
THEOREM FilesComeBack == AppSpec => []FilesSurvive
<1>1. AppIInv => FilesSurvive
  BY DEF AppIInv, HeldWereReceived, FilesSurvive
<1> QED BY <1>1, AppInvariant, PTL

(* The cleaning of a payload takes nothing from an event or an answer that *)
(* was given, be it empty, and leaves no Undefined in it.                  *)
THEOREM NothingLeftOut == AppSpec => []SentWhole
<1>1. AppIInv => SentWhole
  BY DEF AppIInv
<1> QED BY <1>1, AppInvariant, PTL

-----------------------------------------------------------------------------
(* The client as a whole.  An operation's step is one of its own module    *)
(* and leaves the variables of the others alone.                           *)
LEMMA ClientInitIsTheirs ==
  ClientInit => /\ ChatInit /\ PagingInit /\ CsvInit
                /\ AppInit /\ BufferInit /\ MarkupInit
BY DEF ClientInit

LEMMA ClientStepIsOnes ==
  ASSUME [ClientNext]_clientVars
  PROVE  /\ [ChatNext]_chatVars /\ [PagingNext]_pagingVars /\ [CsvNext]_csvVars
         /\ [AppNext]_appVars /\ [BufferNext]_bufferVars /\ [MarkupNext]_markupVars
<1>1. CASE Ensure
  BY <1>1 DEF Ensure
<1>2. CASE Iterate
  BY <1>2 DEF Iterate
<1>3. CASE ReadCsv
  BY <1>3 DEF ReadCsv
<1>4. CASE Exchange
  BY <1>4 DEF Exchange
<1>5. CASE TransferFiles
  BY <1>5 DEF TransferFiles
<1>6. CASE BuildMarkups
  BY <1>6 DEF BuildMarkups
<1>7. CASE UNCHANGED clientVars
  BY <1>7 DEF clientVars
<1> QED BY <1>1, <1>2, <1>3, <1>4, <1>5, <1>6, <1>7 DEF ClientNext

(* So the client implements the specification of each of its operations,   *)
(* by construction: they share no variable.                                *)
LEMMA ClientImplements ==
  ClientSpec => /\ ChatSpec /\ PagingSpec /\ CsvSpec
                /\ AppSpec /\ BufferSpec /\ MarkupSpec
BY ClientInitIsTheirs, ClientStepIsOnes, PTL
   DEF ClientSpec, ChatSpec, PagingSpec, CsvSpec, AppSpec, BufferSpec, MarkupSpec

(* All that is checked of the client at every step, for every value of the *)
(* constants and under the specification that is checked.                  *)
THEOREM ClientKeepsPromises ==
  ClientFairSpec =>
    /\ []NoNeedlessChat /\ []OneChatPerMaker
    /\ []LastingPacksGiven /\ PacksInOrder
    /\ []QuietEndIsWhole /\ []OnlyOwnDirectory
    /\ []FilesSurvive /\ []SentWhole
    /\ []DownloadedWhole /\ []SentFileIsWhole
    /\ []NoForeignButtons
BY ClientImplements, ChatNotDoubled, AtMostOneChatEach, NoLastingPackMissed,
   PacksComeInOrder, QuietEndsAreWhole, NoDirectoryLeft, FilesComeBack, NothingLeftOut,
   DownloadsAreWhole, SentFilesAreWhole, MarkupsAreTheirOwn, PTL DEF ClientFairSpec
=============================================================================
