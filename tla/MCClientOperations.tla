------------------------- MODULE MCClientOperations -------------------------
(***************************************************************************)
(* Small values for ClientOperations.                                      *)
(***************************************************************************)
EXTENDS ClientOperations, TLC

CONSTANTS t1, t2, c1, c2, c3, png, x, y

(* Optional fields that are absent, null, empty or false, and filled; two  *)
(* of the six take one value and the others another.                       *)
SomeOptional ==
  {[f \in OptionalFields |-> IF f \in {"caption", "chunk_size"} THEN v ELSE w] :
     v, w \in {Undefined, None, Leaf("zero"), Leaf("filled")}}

FileJson(type, duration, optional) ==
  Dict([f \in {g \in OptionalFields : optional[g] # Undefined} |-> optional[f]]
         @@ ("type" :> Leaf(type))
         @@ IF duration = Undefined THEN <<>> ELSE "duration" :> duration)

SomeFiles ==
  {FileJson(type, duration, optional) :
     type \in FileTypes \union {"sticker"},
     duration \in {Undefined, None, Leaf("zero"), Leaf("filled")},
     optional \in SomeOptional}

PlainFile == FileJson("image", Undefined, [f \in OptionalFields |-> Undefined])

SomeFileLists == {<<>>} \union {<<f>> : f \in SomeFiles} \union
                   {<<f, PlainFile>> : f \in SomeFiles}

SomeObjects == {Dict(<<>>), Dict([key |-> Leaf("filled")])}

(* A long file and a short one, and an image of the caller's own.          *)
SomeRemoteFiles == {<<png, x>>, <<y>>}

SomeOwnFiles == {<<png, y>>}
=============================================================================
