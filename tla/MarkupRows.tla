----------------------------- MODULE MarkupRows -----------------------------
(***************************************************************************)
(* How markups are built of rows, and rows of buttons.  Lists are objects: *)
(* a markup keeps the list and the rows that it is given, so that callers  *)
(* and other markups may hold the same ones.                               *)
(*   pybotx/models/message/markup.py            BaseMarkup                 *)
(* Each button is added once.  A list that a markup makes is named after   *)
(* the markup, a row that it makes after the first button in it.           *)
(***************************************************************************)
EXTENDS Naturals, Sequences, Functions

CONSTANTS
  Markups,
  Buttons,
  GivenRows,   \* rows the caller makes, of one button each, named after it
  GivenLists,  \* lists of rows the caller makes
  Nobody

ASSUME MarkupRowsAssumption ==
  /\ Buttons \intersect GivenRows = {}
  /\ Markups \intersect GivenLists = {}
  /\ Nobody \notin Markups \union GivenLists

VARIABLES
  rowsIn,     \* rowsIn[l]: the rows in list l
  buttonsIn,  \* buttonsIn[r]: the buttons in row r
  listOf,     \* listOf[m]: the list of markup m, Nobody before it is made
  addedTo,    \* addedTo[b]: the markup whose add_button took b (history)
  shared      \* the rows that callers have made or handed on (history)

markupVars == <<rowsIn, buttonsIn, listOf, addedTo, shared>>

MarkupInit ==
  /\ rowsIn \in [GivenLists \union Markups -> {<<>>} \union {<<r>> : r \in GivenRows}]
  /\ \A m \in Markups : rowsIn[m] = <<>>
  /\ buttonsIn = [r \in GivenRows \union Buttons |->
                    IF r \in GivenRows THEN <<r>> ELSE <<>>]
  /\ listOf = [m \in Markups |-> Nobody]
  /\ addedTo = [b \in Buttons |-> Nobody]
  /\ shared = GivenRows

-----------------------------------------------------------------------------
(* Deliberate error: `buttons: list[ButtonRow] = []`.                      *)
BuildWithDefault(m) ==
  /\ listOf[m] = Nobody
  /\ \E l \in GivenLists \union {CHOOSE n \in Markups : TRUE} :
       listOf' = [listOf EXCEPT ![m] = l]
  /\ UNCHANGED <<rowsIn, buttonsIn, addedTo, shared>>

(* BaseMarkup(buttons): `buttons or []` keeps the list that is given, but  *)
(* not an empty one.                                                       *)
Build(m) ==
  /\ listOf[m] = Nobody
  /\ \E l \in GivenLists \union {m} :
       listOf' = [listOf EXCEPT ![m] = IF rowsIn[l] = <<>> THEN m ELSE l]
  /\ UNCHANGED <<rowsIn, buttonsIn, addedTo, shared>>

Built(m) == listOf[m] # Nobody

RowsOf(m) == IF Built(m) THEN Range(rowsIn[listOf[m]]) ELSE {}

AppendRow(m, r) == rowsIn' = [rowsIn EXCEPT ![listOf[m]] = Append(@, r)]

AppendButton(r, b) == buttonsIn' = [buttonsIn EXCEPT ![r] = Append(@, b)]

LastRow(m) == rowsIn[listOf[m]][Len(rowsIn[listOf[m]])]

(* add_button, add_built_button: in a new row, or at the end of the last,  *)
(* whoever made it.                                                        *)
AddBuiltButton(m, b) ==
  /\ Built(m)
  /\ addedTo[b] = Nobody
  /\ \/ AppendRow(m, b) /\ AppendButton(b, b)
     \/ /\ rowsIn[listOf[m]] # <<>>
        /\ AppendButton(LastRow(m), b)
        /\ UNCHANGED rowsIn
  /\ addedTo' = [addedTo EXCEPT ![b] = m]
  /\ UNCHANGED <<listOf, shared>>

(* The row itself is kept.  It is the caller's, or one that iterating over *)
(* a markup has given him, and may be in other markups too.                *)
AddRow(m, r) ==
  /\ Built(m)
  /\ r \in GivenRows \/ \E n \in Markups : r \in RowsOf(n)
  /\ r \notin RowsOf(m)
  /\ AppendRow(m, r)
  /\ shared' = shared \union {r}
  /\ UNCHANGED <<buttonsIn, listOf, addedTo>>

MarkupNext ==
  \E m \in Markups :
    \/ Build(m)
    \/ \E b \in Buttons : AddBuiltButton(m, b)
    \/ \E r \in GivenRows \union Buttons : AddRow(m, r)

MarkupSpec == MarkupInit /\ [][MarkupNext]_markupVars

-----------------------------------------------------------------------------
Shows(m) == UNION {Range(buttonsIn[r]) : r \in RowsOf(m)}

(* A button that was added to one markup is seen on another one only if    *)
(* the caller gave both the same list or the same row, his own or one that *)
(* he took from a markup: the library itself shares nothing it has made,   *)
(* however many markups a process builds.                                  *)
NoForeignButtons ==
  \A m, n \in Markups : \A b \in Shows(m) \intersect Buttons :
    addedTo[b] = n /\ m # n =>
      \/ listOf[m] = listOf[n] /\ listOf[m] \in GivenLists
      \/ b \in UNION {Range(buttonsIn[r]) :
                        r \in RowsOf(m) \intersect RowsOf(n) \intersect shared}
=============================================================================
