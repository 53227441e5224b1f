---------------------------- MODULE StickerPaging ----------------------------
(***************************************************************************)
(* HTTPClient.iterate_by_sticker_packs: a generator that fetches the       *)
(* user's sticker packs page by page, as the caller asks for them, while   *)
(* packs are created and deleted on the server.                            *)
(*   pybotx/client/client.py                    iterate_by_sticker_packs   *)
(*   pybotx/client/stickers_api/get_sticker_packs.py                       *)
(* The order of the packs and the meaning of `after` are the server's      *)
(* (external): packs are numbered in its order, and `after` stands for the *)
(* last pack of the page it comes with.                                    *)
(***************************************************************************)
EXTENDS Integers, FiniteSets

CONSTANTS
  Packs,     \* the packs there can be, in the server's order
  PageSize   \* STICKER_PACKS_PER_PAGE

ASSUME StickerPagingAssumption ==
  /\ Packs \subseteq Nat
  /\ IsFiniteSet(Packs)
  /\ PageSize \in Nat \ {0}

VARIABLES
  pagingPc,  \* where the iteration is, see PagingTypeOK
  onServer,  \* the packs on the server
  after,     \* the cursor of the last page; NoCursor if None or ""
  page,      \* packs of the last page not given to the caller yet
  given,     \* packs given to the caller
  latest,    \* the pack given last; -1 before the first
  lasting    \* packs on the server ever since the iteration began (history)

pagingVars == <<pagingPc, onServer, after, page, given, latest, lasting>>

NoCursor == -1

PagingInit ==
  /\ pagingPc = "created"
  /\ onServer \in SUBSET Packs
  /\ after = NoCursor
  /\ page = {}
  /\ given = {}
  /\ latest = -1
  /\ lasting = onServer

-----------------------------------------------------------------------------
PagingGoto(place) == pagingPc' = place

(* The caller asks for a first or for another pack: next(generator).       *)
AskFirst ==
  /\ pagingPc = "created"
  /\ PagingGoto("fetching")
  /\ lasting' = onServer
  /\ UNCHANGED <<onServer, after, page, given, latest>>

AskNext ==
  /\ pagingPc = "holding"
  /\ PagingGoto("giving")
  /\ UNCHANGED <<onServer, after, page, given, latest, lasting>>

(* A pack of the page is given, and the generator stops there.             *)
GivePack ==
  /\ pagingPc = "giving"
  /\ \E p \in page :
       /\ \A q \in page : p <= q
       /\ latest' = p
       /\ page' = page \ {p}
       /\ given' = given \union {p}
  /\ PagingGoto("holding")
  /\ UNCHANGED <<onServer, after, lasting>>

(* Deliberate error: `after` is tested before the packs are given.         *)
PageUsedUpEarly ==
  /\ pagingPc = "giving"
  /\ page = {} \/ after = NoCursor
  /\ PagingGoto(IF after = NoCursor THEN "exhausted" ELSE "fetching")
  /\ UNCHANGED <<onServer, after, page, given, latest, lasting>>

(* The page is used up: the next one, or the end if `after` is falsy.      *)
PageUsedUp ==
  /\ pagingPc = "giving"
  /\ page = {}
  /\ PagingGoto(IF after = NoCursor THEN "exhausted" ELSE "fetching")
  /\ UNCHANGED <<onServer, after, page, given, latest, lasting>>

Remaining(cursor) == {p \in onServer : p > cursor}

(* What the server answers to a cursor: the first packs after it; with a   *)
(* cursor if there are more, and perhaps if there are not, but never with  *)
(* an empty page (external).                                               *)
Answered(cursor, packs, next) ==
  /\ packs \subseteq Remaining(cursor)
  /\ \A p \in packs, q \in Remaining(cursor) \ packs : p < q
  /\ Cardinality(packs) <= PageSize
  /\ packs # Remaining(cursor) => Cardinality(packs) = PageSize
  /\ \/ next = NoCursor /\ packs = Remaining(cursor)
     \/ next \in packs /\ \A p \in packs : p <= next

(* Deliberate error: the cursor that comes with a page is not kept.        *)
FetchFirstPageAgain ==
  /\ pagingPc = "fetching"
  /\ \E packs \in SUBSET Packs, next \in Packs \union {NoCursor} :
       /\ Answered(NoCursor, packs, next)
       /\ page' = packs
       /\ after' = next
  /\ PagingGoto("giving")
  /\ UNCHANGED <<onServer, given, latest, lasting>>

(* A request for the page at `after`; none is sent when it is falsy.       *)
FetchPage ==
  /\ pagingPc = "fetching"
  /\ \E packs \in SUBSET Packs, next \in Packs \union {NoCursor} :
       /\ Answered(after, packs, next)
       /\ page' = packs
       /\ after' = next
  /\ PagingGoto("giving")
  /\ UNCHANGED <<onServer, given, latest, lasting>>

(* The request raises: in the caller's loop, and the generator is over.    *)
FetchRaises ==
  /\ pagingPc = "fetching"
  /\ PagingGoto("raised")
  /\ UNCHANGED <<onServer, after, page, given, latest, lasting>>

(* The caller leaves the loop and drops the generator.                     *)
StopAsking ==
  /\ pagingPc \in {"created", "holding"}
  /\ PagingGoto("dropped")
  /\ UNCHANGED <<onServer, after, page, given, latest, lasting>>

(* create_sticker_pack, delete_sticker_pack, by anyone (external).         *)
PackCreated ==
  /\ \E p \in Packs \ onServer : onServer' = onServer \union {p}
  /\ UNCHANGED <<pagingPc, after, page, given, latest, lasting>>

PackDeleted ==
  /\ \E p \in onServer :
       onServer' = onServer \ {p} /\ lasting' = lasting \ {p}
  /\ UNCHANGED <<pagingPc, after, page, given, latest>>

PagingStep ==
  \/ AskFirst
  \/ AskNext
  \/ GivePack
  \/ PageUsedUp
  \/ FetchPage
  \/ FetchRaises
  \/ StopAsking

PagingNext == PagingStep \/ PackCreated \/ PackDeleted

PagingSpec == PagingInit /\ [][PagingNext]_pagingVars
-----------------------------------------------------------------------------
PagingTypeOK ==
  /\ pagingPc \in {"created", "fetching", "giving", "holding", "exhausted",
                   "raised", "dropped"}
  /\ onServer \in SUBSET Packs
  /\ after \in Packs \union {NoCursor}
  /\ page \in SUBSET Packs
  /\ given \in SUBSET Packs
  /\ latest \in Packs \union {-1}
  /\ lasting \in SUBSET Packs

(* The caller sees no pack twice and sees them in the server's order,      *)
(* however many are created and deleted between two pages.                 *)
PacksInOrder ==
  [][pagingPc = "giving" /\ pagingPc' = "holding" =>
       \A p \in given : p < latest']_pagingVars

(* When the loop ends by itself, and not by an exception or by the caller, *)
(* the caller has seen every pack that was there from its beginning to its *)
(* end, on whichever page.                                                 *)
LastingPacksGiven == pagingPc = "exhausted" => lasting \subseteq given
=============================================================================
