-------------------------- MODULE MCOutgoingMessage --------------------------
EXTENDS OutgoingMessage

User == Tag("USER", "u1", "")
Named == Tag("CONTACT", "u2", "name")
Channel == Tag("CHANNEL", "c1", "name")
All == Tag("ALL", "", "")

Button(label) == [label |-> label, link |-> FALSE, client |-> FALSE, alert |-> FALSE]

Plain ==
  [bubble |-> Undefined, metadata |-> Undefined, file |-> Undefined, option |-> Undefined]

(* Equal mentions around what the expression does not match; one that it   *)
(* must still find after an opening and a line end; what cannot be sent.   *)
SomeBodies ==
  {<<Text>>, <<User, Open, TornTag, User>>, <<Open, Newline, Named, Channel, All>>,
   <<Open, Text, User>>, <<Long, Channel>>, <<User, BadTag>>}

(* Nothing else, all of it empty, and all of it filled.                    *)
FewExtras ==
  {Plain,
   [bubble |-> Leaf(<<>>), metadata |-> Dict(<<>>), file |-> Leaf("None"),
    option |-> Undefined],
   [bubble |-> Leaf(<<<<>>, <<Button("b1"), [Button("b2") EXCEPT !.link = TRUE]>>>>),
    metadata |-> Dict([key |-> Leaf("value")]), file |-> Leaf("data.csv"),
    option |-> Leaf(TRUE)]}

Symmetry == Permutations(Threads)
=============================================================================
