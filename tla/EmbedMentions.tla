---------------------------- MODULE EmbedMentions ----------------------------
(***************************************************************************)
(* Mentions in the text a bot writes: pybotx/models/message/mentions.py.   *)
(* str() of a mention is an <embed_mention> tag; before the text is sent   *)
(* every tag becomes a placeholder and an entry of the mentions list, tied *)
(* by a fresh mention_id.  Text is a sequence of fragments.                *)
(***************************************************************************)
EXTENDS Payloads, SequencesExt

(* Plain text and line ends; "<embed_mention>" alone, as a user may have   *)
(* typed it; a tag of an unknown type or of no UUID; a tag whose name      *)
(* holds a line end, which "." of the expression does not match.           *)
Text == [is |-> "text"]
Newline == [is |-> "newline"]
Open == [is |-> "open"]
BadTag == [is |-> "bad"]
TornTag == [is |-> "torn"]

(* build_embed_mention: an absent name is written as an empty one.         *)
Tag(type, entity, name) ==
  [is |-> "tag", type |-> type, entity |-> entity, name |-> name]

Placeholder(sigil, id) == [is |-> "placeholder", sigil |-> sigil, id |-> id]

IsTag(fragment) == fragment.is = "tag"

(* to_botx_embed_mention_format of each kind of mention.                   *)
Sigil(type) ==
  CASE type \in {"USER", "ALL"}     -> "@"
    [] type = "CONTACT"             -> "@@"
    [] type \in {"CHAT", "CHANNEL"} -> "##"

EntityKey(type) == IF type \in {"USER", "CONTACT"} THEN "user_huid" ELSE "group_chat_id"

(* One mention of all has no data.                                         *)
MentionWith(tag, id, name) ==
  LET type == Leaf(tag.type)
      data == [f \in {EntityKey(tag.type), "name"} |->
                 IF f = "name" THEN name ELSE Leaf(tag.entity)]
  IN IF tag.type = "ALL" THEN Dict([mention_type |-> type, mention_id |-> Leaf(id)])
     ELSE Dict([mention_type |-> type, mention_id |-> Leaf(id),
                mention_data |-> Dict(data)])

(* Deliberate error: an absent name is sent as an empty one.               *)
MentionNamed(tag, id) == MentionWith(tag, id, Leaf(tag.name))

(* build_botx_api_embed_mention: an empty name is taken for none.          *)
MentionOf(tag, id) ==
  MentionWith(tag, id, IF tag.name = "" THEN Undefined ELSE Leaf(tag.name))

(* The type of EMBED_MENTION_RE is any text up to a colon, so an opening   *)
(* without a tag of its own runs on to the next tag of its line, and what  *)
(* stands between them is no MentionTypes.                                 *)
RunsOn(text, k) ==
  /\ text[k] = Open
  /\ \E j \in k + 1 .. Len(text) :
       /\ text[j].is \in {"tag", "bad"}
       /\ \A i \in k + 1 .. j - 1 : text[i] \notin {Newline, TornTag}

MentionsRaise(text) == \E k \in DOMAIN text : text[k] = BadTag \/ RunsOn(text, k)

(* str.replace(old, new, 1)                                                *)
ReplaceOnce(text, old, new) ==
  ReplaceAt(text, SelectInSeq(text, LAMBDA fragment : fragment = old), new)

TagsOf(text) == Picked(text, {k \in DOMAIN text : IsTag(text[k])})

(* Deliberate error: str.replace without its count.                        *)
FindAndReplaceAll(text, call) ==
  LET matches == TagsOf(text)
      new(n) == Placeholder(Sigil(matches[n].type), <<call, n>>)
      body[n \in 0..Len(matches)] ==
        IF n = 0 THEN text
        ELSE [k \in DOMAIN text |->
                IF body[n - 1][k] = matches[n] THEN new(n) ELSE body[n - 1][k]]
  IN [body |-> body[Len(matches)],
      mentions |-> [n \in DOMAIN matches |-> MentionOf(matches[n], <<call, n>>)]]

(* find_and_replace_embed_mentions: the matches are those of the text as   *)
(* it was given, each is replaced where it first stands by then.  call     *)
(* makes the ids fresh, as uuid4 does.                                     *)
FindAndReplace(text, call) ==
  LET matches == TagsOf(text)
      new(n) == Placeholder(Sigil(matches[n].type), <<call, n>>)
      body[n \in 0..Len(matches)] ==
        IF n = 0 THEN text ELSE ReplaceOnce(body[n - 1], matches[n], new(n))
  IN [body |-> body[Len(matches)],
      mentions |-> [n \in DOMAIN matches |-> MentionOf(matches[n], <<call, n>>)]]
=============================================================================
