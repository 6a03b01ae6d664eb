----------------------------- MODULE XplMessage -----------------------------
(***************************************************************************)
(* The messages of xPLLib (src/xPLLib/xPL-message.c): how a program builds *)
(* one, how it is written as text, and how a text is read.                 *)
(*                                                                         *)
(* A text is a sequence of tokens: the marks of the format, and words that *)
(* hold none of them.  Names are compared ignoring case, so that a word    *)
(* stands for all its spellings.  The message objects are recycled: reading*)
(* and building start from an object a release has left behind.            *)
(***************************************************************************)
EXTENDS Integers, SequencesExt, NamedValues

CONSTANTS
  Numeral,   \* the words that are numbers, with their values
  Hex,       \* the words that are hexadecimal digits
  Unclean,   \* the words with a character no word should have, like '~'
  Cut,       \* a group's name of more than six characters -> the first six
  MaxText    \* MSG_MAX_SIZE, in tokens

ASSUME MessageConstants ==
  /\ \A w \in DOMAIN Numeral : Numeral[w] \in Int
  /\ MaxText \in Nat \ {0}

NoText == << >>

(* No text at all, which is no text that can be written.                   *)
NULL == <<"NULL">>

NoName == [vendor |-> NULL, device |-> NULL, instance |-> NULL]

(* xPL_Message, all of whose strings are texts.                            *)
Blank ==
  [type |-> "any", hop |-> 0, received |-> FALSE, source |-> NoName,
   broadcast |-> FALSE, isGroup |-> FALSE, group |-> NULL, target |-> NoName,
   class |-> NULL, schema |-> NULL, body |-> << >>]

-----------------------------------------------------------------------------
(* The definitions named Wrong... are slips the properties must notice:    *)
(* each stands before the definition it would replace.                     *)

(* xPL_setTargetGroup.                                                     *)
SetTargetGroup(m, group) ==
  CASE group = NULL -> [m EXCEPT !.group = NULL, !.isGroup = FALSE]
    [] group # NULL /\ m.group = group -> m
    [] OTHER -> [m EXCEPT !.target = NoName, !.isGroup = TRUE, !.group = group]

(* xPL_setTargetVendor, ...DeviceID and ...InstanceID.                     *)
SetTargetPart(m, part, text) ==
  IF m.target[part] = text
    THEN m
    ELSE [m EXCEPT !.target[part] = text,
                   !.group = IF m.isGroup THEN NULL ELSE @,
                   !.isGroup = FALSE]

Parts == <<"vendor", "device", "instance">>

SetTarget(m, name) ==
  FoldLeft(LAMBDA n, part : SetTargetPart(n, part, name[part]), m, Parts)

SetBroadcastMessage(m, isBroadcast) == [m EXCEPT !.broadcast = isBroadcast]

(* xPL_setSource: only a received message can be given another source.     *)
SetSource(m, name) == IF m.received THEN [m EXCEPT !.source = name] ELSE m

SetSchema(m, class, schema) == [m EXCEPT !.class = class, !.schema = schema]

(* createSendableMessage and createReceivedMessage on a recycled object.   *)
Sendable(object, type, source) ==
  [object EXCEPT !.type = type, !.hop = 1, !.received = FALSE, !.source = source]

Received(object) == [object EXCEPT !.type = "any", !.received = TRUE]

(* The broadcast flag of the object is not reset.                          *)
WrongReleased(m) == [Blank EXCEPT !.broadcast = m.broadcast]

(* xPL_releaseMessage.                                                     *)
Released(m) == Blank

-----------------------------------------------------------------------------
(* xPL_formatMessage.                                                      *)
NameText(name) == name.vendor \o <<"-">> \o name.device \o <<".">> \o name.instance

GroupPrefix == <<"xpl", "-", "group", ".">>

Line(name, value) == name \o <<"=">> \o value \o <<"LF">>

Block(header, list) ==
  header \o <<"LF", "{", "LF">>
    \o FlattenSeq([i \in DOMAIN list |-> Line(list[i].name, list[i].value)])
    \o <<"}", "LF">>

AddressText(m) ==
  CASE m.broadcast                 -> <<"*">>
    [] ~m.broadcast /\ m.isGroup   -> GroupPrefix \o m.group
    [] OTHER                       -> NameText(m.target)

Kinds == [xplcmnd |-> "command", xplstat |-> "status", xpltrig |-> "trigger"]

Text(m) ==
  Block(<<CHOOSE w \in DOMAIN Kinds : Kinds[w] = m.type>>,
        <<Pair(<<"hop">>, <<"1">>),
          Pair(<<"source">>, NameText(m.source)),
          Pair(<<"target">>, AddressText(m))>>)
    \o Block(m.class \o <<".">> \o m.schema, m.body)

(* Is there a text to send?  appendText refuses one that is too long; that *)
(* a binary value was cut off is not noticed.                              *)
Formats(m) ==
  /\ \E w \in DOMAIN Kinds : Kinds[w] = m.type
  /\ Len(Text(m)) < MaxText

-----------------------------------------------------------------------------
(* VALID_CHAR accepts every character and turns those it should refuse     *)
(* into a bar.                                                             *)
Accepted(c) == IF c \in Unclean \cup {"{", "}", "LF"} THEN "|" ELSE c

Scanning ==
  [at |-> "header", header |-> << >>, name |-> << >>, value |-> << >>,
   binary |-> FALSE, pairs |-> << >>, used |-> 0]

(* parseBlock at the end of a line with a value; textToBinary.             *)
EndOfValue(p) ==
  IF p.binary => Range(p.value) \subseteq Hex
    THEN [p EXCEPT !.at = "name", !.name = << >>, !.value = << >>,
                   !.pairs = Append(@, [name |-> p.name, value |-> p.value,
                                        binary |-> p.binary])]
    ELSE [p EXCEPT !.at = "error"]

Expect(p, c, wanted, next) == [p EXCEPT !.at = IF c = wanted THEN next ELSE "error"]

(* One turn of the loop of parseBlock.                                     *)
ScanToken(p, c) ==
  CASE p.at = "header" /\ c = "LF" /\ p.header # << >> -> [p EXCEPT !.at = "open"]
    [] p.at = "header" /\ c = "LF" /\ p.header = << >> -> p
    [] p.at = "header" /\ c # "LF" -> [p EXCEPT !.header = Append(@, Accepted(c))]
    [] p.at = "open"  -> Expect(p, c, "{", "opened")
    [] p.at = "opened" -> Expect(p, c, "LF", "name")
    [] p.at = "name" /\ c \in {"=", "!"} -> [p EXCEPT !.at = "value", !.binary = (c = "!")]
    [] p.at = "name" /\ c = "}" -> [p EXCEPT !.at = "close"]
    [] p.at = "name" /\ c \notin {"=", "!", "}"} -> [p EXCEPT !.name = Append(@, Accepted(c))]
    [] p.at = "value" /\ c = "LF" -> EndOfValue(p)
    [] p.at = "value" /\ c # "LF" -> [p EXCEPT !.value = Append(@, Accepted(c))]
    [] p.at = "close" -> Expect(p, c, "LF", "done")

Scan(p, c) ==
  IF p.at \in {"done", "error"} THEN p ELSE [ScanToken(p, c) EXCEPT !.used = p.used + 1]

(* parseBlock: where it ended, and what it read.                           *)
ParseBlock(text) == FoldLeft(Scan, Scanning, text)

IndexOfMark(text, mark) == SelectInSeq(text, LAMBDA c : c = mark)

(* vendor-device.instance at the first dash and the first dot behind it.   *)
SplitName(text) ==
  LET dash == IndexOfMark(text, "-")
      rest == SubSeq(text, dash + 1, Len(text))
      dot  == IndexOfMark(rest, ".")
  IN  IF dash = 0 \/ dot = 0
        THEN << >>
        ELSE <<SubSeq(text, 1, dash - 1), SubSeq(rest, 1, dot - 1),
               SubSeq(rest, dot + 1, Len(rest))>>

AsName(parts) == [vendor |-> parts[1], device |-> parts[2], instance |-> parts[3]]

(* The group's name is kept to its sixth character only, where its buffer  *)
(* is ended.                                                               *)
ReadGroup(name) == GroupPrefix \o (IF name \in DOMAIN Cut THEN Cut[name] ELSE name)

(* parseMessageHeader: its part about the target.                          *)
Addressed(m, text) ==
  LET parts == SplitName(text) IN
  CASE text = <<"*">> -> SetBroadcastMessage(m, TRUE)
    [] text # <<"*">> /\ parts[1] = <<"xpl">> /\ parts[2] = <<"group">> ->
         SetTargetGroup(m, ReadGroup(parts[3]))
    [] OTHER -> SetTarget(m, AsName(parts))

IsCount(text) == Len(text) = 1 /\ text[1] \in DOMAIN Numeral /\ Numeral[text[1]] >= 1

HeaderComplete(list) ==
  /\ NameIndex(list, <<"hop">>) # 0 /\ IsCount(NamedValue(list, <<"hop">>))
  /\ NameIndex(list, <<"source">>) # 0
  /\ SplitName(NamedValue(list, <<"source">>)) # << >>
  /\ NameIndex(list, <<"target">>) # 0
  /\ LET target == NamedValue(list, <<"target">>) IN
       target = <<"*">> \/ SplitName(target) # << >>

Headed(m, type, list) ==
  Addressed(SetSource([m EXCEPT !.type = type, !.hop = Numeral[NamedValue(list, <<"hop">>)[1]]],
                      AsName(SplitName(NamedValue(list, <<"source">>)))),
            NamedValue(list, <<"target">>))

Rest(text, used) == SubSeq(text, used + 1, Len(text))

(* parseBlock at a text that does not begin a block.                       *)
NoBlock(p) == p.at = "header" /\ p.header = << >>

(* Can parseMessage make a message of the text?  One that ends after its   *)
(* header will do.                                                         *)
Parses(text) ==
  LET head == ParseBlock(text)
      body == ParseBlock(Rest(text, head.used))
  IN  /\ head.at = "done"
      /\ Len(head.header) = 1 /\ head.header[1] \in DOMAIN Kinds
      /\ HeaderComplete(head.pairs)
      /\ NoBlock(body) \/ (body.at = "done" /\ IndexOfMark(body.header, ".") # 0)

(* parseMessage: the header and the first block behind it.  Without one    *)
(* the message has no schema, and the pairs of the header for its body if  *)
(* nothing at all stands behind it.                                        *)
Parse(object, text) ==
  LET head == ParseBlock(text)
      rest == Rest(text, head.used)
      body == ParseBlock(rest)
      dot  == IndexOfMark(body.header, ".")
      headed == Headed(Received(object), Kinds[head.header[1]], head.pairs)
  IN  IF NoBlock(body)
        THEN [headed EXCEPT !.body = IF rest = << >> THEN head.pairs ELSE << >>]
        ELSE SetSchema([headed EXCEPT !.body = body.pairs],
                       SubSeq(body.header, 1, dot - 1), Rest(body.header, dot))
=============================================================================
