------------------------------ MODULE Payloads ------------------------------
(***************************************************************************)
(* The JSON a request carries: pybotx/models/api_base.py, missing.py.      *)
(* A field nobody set holds the singleton Undefined and is left out, and   *)
(* so is an object or a list that held nothing else; one that was given    *)
(* empty stays, for BotX reads it as "clean this".                         *)
(***************************************************************************)
EXTENDS Integers, Sequences

(* A value of a payload.                                                   *)
Undefined == [is |-> "undefined"]
Leaf(x) == [is |-> "leaf", of |-> x]
Dict(fields) == [is |-> "dict", of |-> fields]
List(items) == [is |-> "list", of |-> items]

Holds(value) == value.is \in {"dict", "list"}

Empty(value) == DOMAIN value.of = {}

IsSequence(items) == items \in Seq({items[i] : i \in DOMAIN items})

(* The items of a sequence at the given places, in their order (SelectSeq, *)
(* of which the provers know nothing).                                     *)
Picked(items, places) ==
  LET picked[n \in 0..Len(items)] ==
        IF n = 0 THEN <<>>
        ELSE IF n \in places THEN Append(picked[n - 1], items[n])
             ELSE picked[n - 1]
  IN picked[Len(items)]

(* Deliberate error: what was given empty is left out too.                 *)
CleanedOfEmpty(value, parts) ==
  LET Kept == {f \in DOMAIN value.of :
                 value.of[f] # Undefined /\ (Holds(value.of[f]) => ~Empty(parts[f]))}
  IN CASE value.is = "dict" -> Dict([f \in Kept |-> parts[f]])
       [] value.is = "list" -> List(Picked(parts, Kept))
       [] OTHER -> value

(* Deliberate error: lists are copied as they are.                         *)
CleanedDictsOnly(value, parts) ==
  LET Kept == {f \in DOMAIN value.of :
                 /\ value.of[f] # Undefined
                 /\ Holds(value.of[f]) => ~Empty(parts[f]) \/ Empty(value.of[f])}
  IN IF value.is = "dict" THEN Dict([f \in Kept |-> parts[f]]) ELSE value

(* One call of _remove_undefined: parts holds what the calls for the parts *)
(* of the value have made of them.                                         *)
Cleaned(value, parts) ==
  LET Kept == {f \in DOMAIN value.of :
                 /\ value.of[f] # Undefined
                 /\ Holds(value.of[f]) => ~Empty(parts[f]) \/ Empty(value.of[f])}
  IN CASE value.is = "dict" -> Dict([f \in Kept |-> parts[f]])
       [] value.is = "list" -> List(Picked(parts, Kept))
       [] OTHER -> value

(* _remove_undefined by the depth it recurs to, within lists in objects    *)
(* and objects in lists.  No payload of the library is deeper than the     *)
(* options of a button: request, content, markup, row, button, options.    *)
Within(Clean(_), value) ==
  Cleaned(value, [f \in DOMAIN value.of |-> Clean(value.of[f])])

Clean1(value) == Cleaned(value, value.of)
Clean2(value) == Within(Clean1, value)
Clean3(value) == Within(Clean2, value)
Clean4(value) == Within(Clean3, value)
Clean5(value) == Within(Clean4, value)
RemoveUndefined(value) == Within(Clean5, value)

(* Undefined, a leaf, or an object or a list of something.                 *)
IsMade(value) ==
  \/ value = Undefined
  \/ value.is = "leaf"
  \/ value = Dict([f \in DOMAIN value.of |-> value.of[f]])
  \/ value = List(value.of) /\ IsSequence(value.of)

(* Such a value with no Undefined left in it, to some depth.               *)
Throughout(Holding(_), value) ==
  /\ IsMade(value)
  /\ value # Undefined
  /\ Holds(value) => \A f \in DOMAIN value.of : Holding(value.of[f])

IsJson0(value) == value # Undefined
IsJson1(value) == Throughout(IsJson0, value)
IsJson2(value) == Throughout(IsJson1, value)
IsJson3(value) == Throughout(IsJson2, value)
IsJson4(value) == Throughout(IsJson3, value)
IsJson5(value) == Throughout(IsJson4, value)
IsJson(value) == Throughout(IsJson5, value)
=============================================================================
