-------------------------- MODULE ClientOperations --------------------------
(***************************************************************************)
(* The operations of HTTPClient that are more than one call to BotX, what  *)
(* a SmartApp exchanges, and the objects that outlive a call: buffers and  *)
(* markups.  They share nothing but the client, so that a behaviour        *)
(* follows one of them.                                                    *)
(***************************************************************************)
EXTENDS PersonalChat, StickerPaging, UsersAsCsv, SmartApps, FileBuffers,
  MarkupRows

VARIABLE operation  \* the operation the application uses

clientVars ==
  <<operation, chatVars, pagingVars, csvVars, appVars, bufferVars, markupVars>>

ClientInit ==
  /\ operation \in {"ensure_personal_chat", "iterate_by_sticker_packs",
                    "users_as_csv", "smartapp", "files", "markups"}
  /\ ChatInit
  /\ PagingInit
  /\ CsvInit
  /\ AppInit
  /\ BufferInit
  /\ MarkupInit
  /\ operation # "iterate_by_sticker_packs" => onServer = {}
  /\ operation # "users_as_csv" => rows = <<>>
  /\ operation # "markups" => \A l \in GivenLists : rowsIn[l] = <<>>

Ensure ==
  /\ operation = "ensure_personal_chat"
  /\ ChatNext
  /\ UNCHANGED <<operation, pagingVars, csvVars, appVars, bufferVars, markupVars>>

Iterate ==
  /\ operation = "iterate_by_sticker_packs"
  /\ PagingNext
  /\ UNCHANGED <<operation, chatVars, csvVars, appVars, bufferVars, markupVars>>

ReadCsv ==
  /\ operation = "users_as_csv"
  /\ CsvNext
  /\ UNCHANGED <<operation, chatVars, pagingVars, appVars, bufferVars, markupVars>>

Exchange ==
  /\ operation = "smartapp"
  /\ AppNext
  /\ UNCHANGED <<operation, chatVars, pagingVars, csvVars, bufferVars, markupVars>>

TransferFiles ==
  /\ operation = "files"
  /\ BufferNext
  /\ UNCHANGED <<operation, chatVars, pagingVars, csvVars, appVars, markupVars>>

BuildMarkups ==
  /\ operation = "markups"
  /\ MarkupNext
  /\ UNCHANGED <<operation, chatVars, pagingVars, csvVars, appVars, bufferVars>>

ClientNext ==
  Ensure \/ Iterate \/ ReadCsv \/ Exchange \/ TransferFiles \/ BuildMarkups

ClientSpec == ClientInit /\ [][ClientNext]_clientVars

(* The caller goes on asking for sticker packs or leaves the loop, and its *)
(* calls return (CallsEnd of BotXCall).                                    *)
ClientFairSpec == ClientSpec /\ WF_clientVars(Iterate /\ PagingStep)

(* The loop over the sticker packs ends by itself, whatever comes and goes *)
(* meanwhile: every page but the last moves the cursor on.                 *)
LoopEnds ==
  operation = "iterate_by_sticker_packs" =>
    <>(pagingPc \in {"exhausted", "raised", "dropped"})
=============================================================================
