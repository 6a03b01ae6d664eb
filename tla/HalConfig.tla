------------------------------ MODULE HalConfig ------------------------------
(***************************************************************************)
(* The configuration of the xPLHal4L daemon, and what the XHCP commands do *)
(* to it (src/XHCP_server_ipv6.c, src/xPLHal4L.c, src/xPLHal_common.c).    *)
(* The document lives in memory (rootConfig) and in a file.  A command     *)
(* that changes a global variable or a rule changes the document, saves    *)
(* all of it and loads it again; PUTCONFIGXML only replaces the document   *)
(* in memory.  Commands run to their end one after the other; the daemon   *)
(* may die between two of them or while it saves, and the disk may be too  *)
(* full for what is saved, which nobody looks at.  Either leaves a file    *)
(* that ends anywhere, and the XML library reads what there is of it.      *)
(* Texts are written as they are, so that one with a quote or a less-than  *)
(* in it is not what is read afterwards.                                   *)
(*                                                                         *)
(* The XML library parses an uploaded document in place: its text stays in *)
(* the buffer the server frees when the command is done.  What is read     *)
(* from such a document later is undefined: the text, while the memory was *)
(* not used again, or no element that could be recognised.                 *)
(***************************************************************************)
EXTENDS Integers, FiniteSets, SequencesExt

CONSTANTS
  Global,      \* names of global variables
  Value,       \* their values
  Shown,       \* what GETGLOBAL has room for of a value: 79 characters
  Guid,        \* identifiers of rules (determinators)
  Body,        \* what a rule says
  Marked,      \* the values and bodies with a quote or a less-than inside
  Upload,      \* the documents PUTCONFIGXML may bring
  FirstFile,   \* the file the daemon is installed with
  ReuseGuids,  \* do clients send a rule with the guid of another one?
  MaxRules     \* bound: rules in the document

None == "none"          \* no such global, no such rule
Unknown == "unknown"    \* nothing was acknowledged about it
Spoilt == "spoilt"      \* read of a text that is cut, or has a mark in it
NoGuid == "no guid"     \* no argument, or no guid attribute
TooMany == "too many"   \* more arguments than SETRULE takes
NoDocument == [document |-> None]

(* What the program reads of a document: the globals and rules in document *)
(* order, whether there is a <globals> element, how many <determinators>,  *)
(* whether both clock intervals are given, how many ConnectionTimeOut.     *)
Document ==
  [globals : Seq([name : Global, value : Value \cup {Spoilt}]), hasGlobals : BOOLEAN,
   rules : Seq([guid : Guid, body : Body \cup {Spoilt}]), lists : Nat,
   clocking : BOOLEAN, timeouts : Nat]

(* A document without any element: an empty file, or one whose text is     *)
(* gone.                                                                   *)
Empty ==
  [globals |-> << >>, hasGlobals |-> FALSE, rules |-> << >>, lists |-> 0,
   clocking |-> FALSE, timeouts |-> 0]

(* What SETRULE may be sent: does it parse, how many <determinator>        *)
(* elements does it hold, the guid of the first one, what it says.         *)
RuleText ==
  [parses : BOOLEAN, determinators : 0 .. 2, guid : Guid \cup {NoGuid}, body : Body]

ASSUME ConfigConstants ==
  /\ Upload \subseteq Document
  /\ FirstFile \in Document
  /\ Shown \in [Value -> Value]
  /\ Marked \subseteq Value \cup Body
  /\ ReuseGuids \in BOOLEAN
  /\ MaxRules \in Nat

(* Globals and rules have name spaces of their own, and what is said where *)
(* there is no value is none.                                              *)
ASSUME DistinctNames ==
  /\ Global \cap Guid = {}
  /\ {None, Unknown, Spoilt} \cap (Value \cup Body) = {}
  /\ {NoGuid, TooMany} \cap Guid = {}

VARIABLES
  running,   \* the daemon is up
  rootConfig,\* the document in memory
  freed,     \* its text is in a buffer that was freed
  file,      \* the configuration file
  reply,     \* the last answer to a client
  left,      \* history: of a global or a rule, what there may be of it
  uploaded   \* history: the document a client was told is in use

vars == <<running, rootConfig, freed, file, reply, left, uploaded>>

Key == Global \cup Guid

-----------------------------------------------------------------------------
(* What an XPath search may find: the document, or nothing in a freed one. *)
Seen == {rootConfig} \cup (IF freed THEN {Empty} ELSE {})

Named(doc, name) == {i \in DOMAIN doc.globals : doc.globals[i].name = name}

WithGuid(doc, guid) == {i \in DOMAIN doc.rules : doc.rules[i].guid = guid}

First(S) == CHOOSE i \in S : \A j \in S : i <= j

(* As much of a value as the buffer of getGlobal holds.                    *)
Fitting(value) == IF value \in Value THEN Shown[value] ELSE value

(* getGlobal: nothing unless there is exactly one.                         *)
GetGlobal(doc, name) ==
  IF \E i \in DOMAIN doc.globals : Named(doc, name) = {i}
    THEN Fitting(doc.globals[First(Named(doc, name))].value)
    ELSE None

(* The first rule with that guid.                                          *)
GetRule(doc, guid) ==
  IF WithGuid(doc, guid) = {} THEN None ELSE doc.rules[First(WithGuid(doc, guid))].body

(* Can the daemon come up with this document?  The scheduler wants its     *)
(* intervals, the server at most one time-out.                             *)
Startable(doc) == doc.clocking /\ doc.timeouts <= 1

Says(kind, key, value) == [kind |-> kind, key |-> key, value |-> value]

-----------------------------------------------------------------------------
Init ==
  /\ running = FALSE
  /\ rootConfig = NoDocument
  /\ freed = FALSE
  /\ file = FirstFile
  /\ reply = Says("none", None, None)
  /\ left = [k \in Key |-> {Unknown}]
  /\ uploaded = NoDocument

(* main, up to its loop: loadHal4lConfig, and the first turn reads the     *)
(* settings of the scheduler and the server.                               *)
Start ==
  /\ ~running
  /\ reply' = Says("none", None, None)
  /\ IF Startable(file)
       THEN running' = TRUE /\ rootConfig' = file
       ELSE UNCHANGED <<running, rootConfig>>
  /\ UNCHANGED <<freed, file, left, uploaded>>

Down ==
  /\ running' = FALSE
  /\ rootConfig' = NoDocument
  /\ freed' = FALSE
  /\ uploaded' = NoDocument
  /\ reply' = Says("none", None, None)

(* The daemon dies: killed, or stopped by its own checks.                  *)
Dies == running /\ Down /\ UNCHANGED <<file, left>>

Answer(r) ==
  /\ reply' = r
  /\ UNCHANGED <<running, rootConfig, freed, file, left, uploaded>>

(* The definitions named Wrong... are slips the properties must notice:    *)
(* each stands before the definition it would replace.                     *)

(* What is read of a text that was written as it is.                       *)
Plain(text) == IF text \in Marked THEN Spoilt ELSE text

(* A list of globals up to its n-th; a list of rules up to its n-th, of    *)
(* which only the tag need be there.                                       *)
GlobalsUpTo(list, n) ==
  [i \in 1 .. n |-> [list[i] EXCEPT !.value = Plain(@)]]

RulesUpTo(list, n, torn) ==
  [i \in 1 .. n |-> [list[i] EXCEPT !.body = IF torn /\ i = n THEN Spoilt ELSE Plain(@)]]

(* What can be read of a file that ends in the settings, in the globals or *)
(* in the rules, the order of config.xml.  Behind a mark, too, nothing     *)
(* need be found, not even a list.                                         *)
UpToSettings(doc, clocking, timeouts) ==
  [Empty EXCEPT !.clocking = clocking /\ doc.clocking, !.timeouts = timeouts]

UpToGlobals(doc, n, lists) ==
  [doc EXCEPT !.globals = GlobalsUpTo(@, n), !.rules = << >>, !.lists = lists]

UpToRules(doc, n, torn, lists) ==
  [doc EXCEPT !.globals = GlobalsUpTo(@, Len(@)), !.rules = RulesUpTo(@, n, torn),
              !.lists = lists]

CutInSettings(doc) ==
  {UpToSettings(doc, c, t) : c \in BOOLEAN, t \in 0 .. doc.timeouts}

CutInGlobals(doc) ==
  {UpToGlobals(doc, n, l) : n \in 0 .. Len(doc.globals), l \in 0 .. doc.lists}

CutInRules(doc) ==
  {UpToRules(doc, n, torn, l) :
     n \in 0 .. Len(doc.rules), torn \in BOOLEAN, l \in 1 .. doc.lists}

(* saveHal4lConfig: the file holds as much of the document as was written, *)
(* which may be all of it.                                                 *)
Saved(doc) == CutInSettings(doc) \cup CutInGlobals(doc) \cup CutInRules(doc)

(* The daemon goes on with the document as the command left it.            *)
WrongLoaded(new, now) == new

(* loadHal4lConfig: it goes on with what there is in the file.             *)
Loaded(new, now) == now

(* What there may be of each global and rule when key was changed, new was *)
(* to be saved and now is in the file.                                     *)
LeftBy(new, now, key, known) ==
  [k \in Key |-> (IF k = key THEN {known} ELSE left[k])
                 \cup (IF now = new THEN {} ELSE {None, Spoilt})]

(* A command changed the document into new, which is saved and loaded      *)
(* again, so that its text is that of the file.  The daemon may be killed  *)
(* on the way.                                                             *)
Update(new, key, known, r) ==
  \E now \in Saved(new) :
    /\ file' = now
    /\ left' = LeftBy(new, now, key, known)
    /\ \/ /\ rootConfig' = Loaded(new, now)
          /\ freed' = FALSE
          /\ uploaded' = NoDocument
          /\ reply' = r
          /\ UNCHANGED running
       \/ Down

WithGlobal(doc, name, value) ==
  [doc EXCEPT !.globals = Append(@, [name |-> name, value |-> value])]

(* The new value goes to a second element of the same name.                *)
WrongReplaced(doc, name, value) == WithGlobal(doc, name, value)

Replaced(doc, name, value) ==
  [doc EXCEPT !.globals[First(Named(doc, name))].value = value]

(* XHCPcmd_SETGLOBAL with setGlobal.  A document without <globals> makes   *)
(* it follow a null pointer.                                               *)
SetGlobal(name, value) ==
  /\ running
  /\ \E doc \in Seen :
       LET done == Says("updated", name, value) IN
       CASE Named(doc, name) = {} /\ doc.hasGlobals ->
              Update(WithGlobal(doc, name, value), name, value, done)
         [] Named(doc, name) = {} /\ ~doc.hasGlobals -> Dies
         [] GetGlobal(doc, name) # None ->
              Update(Replaced(doc, name, value), name, value, done)
         [] OTHER -> Answer(Says("internal error", name, None))

(* XHCPcmd_DELGLOBAL deletes the first of that name.                       *)
DelGlobal(name) ==
  /\ running
  /\ \E doc \in Seen :
       IF Named(doc, name) = {}
         THEN Answer(Says("no such global", name, None))
         ELSE Update([doc EXCEPT !.globals = RemoveAt(@, First(Named(doc, name)))],
                     name, IF GetGlobal(doc, name) # None THEN None ELSE Unknown,
                     Says("deleted", name, None))

(* XHCPcmd_GETGLOBAL.                                                      *)
AskGlobal(name) ==
  /\ running
  /\ \E doc \in Seen : Answer(Says("value", name, GetGlobal(doc, name)))

(* XHCPcmd_GETRULE.                                                        *)
AskRule(guid) ==
  /\ running
  /\ \E doc \in Seen : Answer(Says("rule", guid, GetRule(doc, guid)))

(* Without an argument, no guid is looked for.                             *)
WrongNewId(doc, arg, text) == {arg}

(* The guid of the new rule: the argument, else that of the text, else a   *)
(* new one; with too many arguments always a new one.                      *)
NewId(doc, arg, text) ==
  CASE arg \in Guid                          -> {arg}
    [] arg = NoGuid /\ text.guid \in Guid    -> {text.guid}
    [] OTHER                                -> {g \in Guid : WithGuid(doc, g) = {}}

(* XHCPcmd_LISTGLOBALS.                                                    *)
ListGlobals ==
  /\ running
  /\ \E doc \in Seen : Answer(Says("globals", None, doc.globals))

(* XHCPcmd_LISTRULES: the guid of each, with name and state.               *)
ListRules ==
  /\ running
  /\ \E doc \in Seen :
       Answer(Says("rules", None, [i \in DOMAIN doc.rules |-> doc.rules[i].guid]))

(* The rules that were there are lost.                                     *)
WrongAppended(doc, guid, body) ==
  [doc EXCEPT !.rules = <<[guid |-> guid, body |-> body]>>]

Appended(doc, guid, body) ==
  [doc EXCEPT !.rules = Append(@, [guid |-> guid, body |-> body])]

(* XHCPcmd_SETRULE_handle: the rule is added behind the others, also when  *)
(* one of them has its guid.                                               *)
SetRule(arg, text) ==
  /\ running
  /\ \E doc \in Seen :
       CASE ~text.parses \/ text.determinators # 1 ->
              Answer(Says("syntax error", None, None))
         [] text.parses /\ text.determinators = 1 /\ doc.lists # 1 ->
              Answer(Says("internal error", None, None))
         [] OTHER ->
              /\ Len(doc.rules) < MaxRules
              /\ \E guid \in NewId(doc, arg, text) :
                   /\ ReuseGuids \/ WithGuid(doc, guid) = {}
                   /\ Update(Appended(doc, guid, text.body), guid, text.body,
                             Says("uploaded", guid, text.body))

(* XHCPcmd_DELRULE deletes the first rule with that guid.                  *)
DelRule(guid) ==
  /\ running
  /\ \E doc \in Seen :
       IF WithGuid(doc, guid) = {}
         THEN Answer(Says("no such rule", guid, None))
         ELSE Update([doc EXCEPT !.rules = RemoveAt(@, First(WithGuid(doc, guid)))],
                     guid, IF Cardinality(WithGuid(doc, guid)) = 1 THEN None ELSE Unknown,
                     Says("rule deleted", guid, None))

(* XHCPcmd_PUTCONFIGXML_handle, and the free of its data that follows.     *)
PutConfigXml(new) ==
  /\ running
  /\ IF new.timeouts > 1
       THEN Dies
       ELSE /\ rootConfig' = new
            /\ freed' = TRUE
            /\ left' = [k \in Key |-> {Unknown}]
            /\ uploaded' = new
            /\ reply' = Says("document uploaded", None, None)
            /\ UNCHANGED <<running, file>>

(* The same for data that is no document.                                  *)
PutGarbage == running /\ Answer(Says("syntax error", None, None))

(* XHCPcmd_GETCONFIGXML.                                                   *)
GetConfigXml ==
  /\ running
  /\ \E doc \in Seen : Answer(Says("document", None, doc))

Next ==
  \/ Start
  \/ Dies
  \/ \E name \in Global :
       \/ \E value \in Value : SetGlobal(name, value)
       \/ DelGlobal(name)
       \/ AskGlobal(name)
  \/ \E guid \in Guid : DelRule(guid) \/ AskRule(guid)
  \/ \E arg \in Guid \cup {NoGuid, TooMany}, text \in RuleText : SetRule(arg, text)
  \/ \E new \in Upload : PutConfigXml(new)
  \/ PutGarbage
  \/ GetConfigXml
  \/ ListGlobals
  \/ ListRules

Spec == Init /\ [][Next]_vars

-----------------------------------------------------------------------------
TypeOK ==
  /\ running \in BOOLEAN
  /\ rootConfig \in Document \cup {NoDocument}
  /\ freed \in BOOLEAN
  /\ file \in Document
  /\ left \in [Key -> SUBSET (Value \cup Body \cup {None, Unknown, Spoilt})]
  /\ running <=> rootConfig # NoDocument

(* What a client is told about a global variable is what the last change   *)
(* left of it: the value last set, as much as fits, or that there is none  *)
(* when it was deleted, however many crashes and restarts lie between.  It *)
(* may be missing or spoilt only if a save since then was cut short or had *)
(* a mark in it, or unless the configuration was replaced; an older value  *)
(* never comes back.  The list of all globals has each of them at most     *)
(* once, with the whole of that value, and none that was deleted.          *)
GlobalsAreKept ==
  /\ reply.kind = "value" =>
       \/ Unknown \in left[reply.key]
       \/ \E known \in left[reply.key] : reply.value = Fitting(known)
  /\ reply.kind = "globals" =>
       \A name \in Global :
         LET places == {i \in DOMAIN reply.value : reply.value[i].name = name} IN
         \/ Unknown \in left[name]
         \/ None \in left[name] /\ places = {}
         \/ \E i \in DOMAIN reply.value :
              places = {i} /\ reply.value[i].value \in left[name]

(* The same for rules, as long as clients do not send a second rule with   *)
(* the guid of one that is there: what is told of one is what was uploaded *)
(* last, and the list has those uploaded and not deleted since, once each. *)
RulesAreKept ==
  /\ reply.kind = "rule" =>
       {Unknown, reply.value} \cap left[reply.key] # {}
  /\ reply.kind = "rules" =>
       \A guid \in Guid :
         LET places == {i \in DOMAIN reply.value : reply.value[i] = guid} IN
         \/ Unknown \in left[guid]
         \/ None \in left[guid] /\ places = {}
         \/ left[guid] # {None} /\ Cardinality(places) = 1

(* What runs is what a restart would bring back, save for an upload that   *)
(* no later command has saved.                                             *)
RestartChangesNothing ==
  running /\ uploaded = NoDocument => rootConfig = file

(* "Configuration document uploaded": until the next change, this is the   *)
(* configuration the daemon has.                                           *)
UploadedDocumentIsServed ==
  reply.kind = "document" /\ uploaded # NoDocument => reply.value = uploaded
=============================================================================
