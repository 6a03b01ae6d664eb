--------------------------- MODULE HalConfig_proofs ---------------------------
(***************************************************************************)
(* Proofs about HalConfig, for any globals, rules and uploads, any number  *)
(* of rules, wherever a save is cut short, and whatever the freed text of  *)
(* an upload is read as: a restart of the daemon brings back the           *)
(* configuration that ran, and what clients are told of a global or a rule *)
(* is what the changes and the saves left of it.  That about rules has the *)
(* hypothesis                                                              *)
(*   FreshGuids  clients send no rule with the guid of one that is there.  *)
(***************************************************************************)
EXTENDS HalConfig, ListTheorems

FreshGuids == ReuseGuids = FALSE

-----------------------------------------------------------------------------
(* A document is told apart from none by its fields.                       *)
LEMMA DocumentIsSome ==
  ASSUME NEW doc \in Document
  PROVE  doc # NoDocument
<1>1. "globals" \in DOMAIN doc
  BY DEF Document
<1>2. "globals" \notin DOMAIN NoDocument
  BY DEF NoDocument
<1> QED
  BY <1>1, <1>2

(* What a command does to the configuration: nothing, or a change that is  *)
(* saved and loaded, or the end of the daemon.                             *)
LEMMA AnswerKeeps ==
  ASSUME RestartChangesNothing, NEW r, Answer(r)
  PROVE  RestartChangesNothing'
BY DEF Answer, RestartChangesNothing

LEMMA UpdateKeeps ==
  ASSUME NEW new, NEW key, NEW known, NEW r, Update(new, key, known, r)
  PROVE  RestartChangesNothing'
BY DEF Update, Loaded, Down, RestartChangesNothing

LEMMA DiesKeeps ==
  ASSUME Dies
  PROVE  RestartChangesNothing'
BY DEF Dies, Down, RestartChangesNothing

LEMMA StepKeepsRestart ==
  ASSUME RestartChangesNothing, [Next]_vars
  PROVE  RestartChangesNothing'
<1> USE AnswerKeeps, UpdateKeeps, DiesKeeps
<1>1. CASE Start
  BY <1>1 DEF Start, RestartChangesNothing
<1>2. CASE Dies
  BY <1>2
<1>4. ASSUME NEW name \in Global, NEW value \in Value, SetGlobal(name, value)
      PROVE  RestartChangesNothing'
  <2> DEFINE done == Says("updated", name, value)
  <2>1. PICK doc \in Seen :
          \/ Update(WithGlobal(doc, name, value), name, value, done)
          \/ Dies
          \/ Update(Replaced(doc, name, value), name, value, done)
          \/ Answer(Says("internal error", name, None))
    BY <1>4 DEF SetGlobal
  <2> QED
    BY <2>1
<1>5. ASSUME NEW name \in Global, DelGlobal(name)
      PROVE  RestartChangesNothing'
  BY <1>5 DEF DelGlobal
<1>6. ASSUME NEW name \in Global, AskGlobal(name)
      PROVE  RestartChangesNothing'
  BY <1>6 DEF AskGlobal
<1>7. ASSUME NEW guid \in Guid, DelRule(guid)
      PROVE  RestartChangesNothing'
  BY <1>7 DEF DelRule
<1>8. ASSUME NEW guid \in Guid, AskRule(guid)
      PROVE  RestartChangesNothing'
  BY <1>8 DEF AskRule
<1>9. ASSUME NEW arg \in Guid \cup {NoGuid, TooMany}, NEW text \in RuleText, SetRule(arg, text)
      PROVE  RestartChangesNothing'
  <2>1. PICK doc \in Seen :
          \/ Answer(Says("syntax error", None, None))
          \/ Answer(Says("internal error", None, None))
          \/ \E guid \in NewId(doc, arg, text) :
               Update(Appended(doc, guid, text.body), guid, text.body,
                      Says("uploaded", guid, text.body))
    BY <1>9 DEF SetRule
  <2> QED
    BY <2>1
<1>10. ASSUME NEW new \in Upload, PutConfigXml(new)
       PROVE  RestartChangesNothing'
  <2>1. new # NoDocument
    BY DocumentIsSome, ConfigConstants
  <2>2. Dies \/ uploaded' = new
    BY <1>10 DEF PutConfigXml
  <2>3. CASE uploaded' = new
    BY <2>1, <2>3 DEF RestartChangesNothing
  <2> QED
    BY <2>2, <2>3
<1>11. CASE PutGarbage
  BY <1>11 DEF PutGarbage
<1>12. CASE GetConfigXml
  BY <1>12 DEF GetConfigXml
<1>13. CASE ListGlobals
  BY <1>13 DEF ListGlobals
<1>14. CASE ListRules
  BY <1>14 DEF ListRules
<1>15. CASE UNCHANGED vars
  BY <1>15 DEF vars, RestartChangesNothing
<1> QED
  BY <1>1, <1>2, <1>4, <1>5, <1>6, <1>7, <1>8, <1>9, <1>10, <1>11, <1>12, <1>13,
     <1>14, <1>15
  DEF Next

(* saveHal4lConfig and loadHal4lConfig: what runs is what the file would   *)
(* bring back, in every state of every daemon, save for an upload that     *)
(* nothing has saved yet.                                                  *)
THEOREM RestartBringsItBack == Spec => []RestartChangesNothing
<1>1. Init => RestartChangesNothing
  BY DEF Init, RestartChangesNothing
<1>2. RestartChangesNothing /\ [Next]_vars => RestartChangesNothing'
  BY StepKeepsRestart
<1> QED
  BY <1>1, <1>2, PTL DEF Spec

-----------------------------------------------------------------------------
(* What a document says of a global or a rule of which known was said: it  *)
(* is there once and with that value, or not there at all.                 *)
GlobalIs(doc, name, known) ==
  \/ known = Unknown
  \/ known = None /\ Named(doc, name) = {}
  \/ \E i \in DOMAIN doc.globals : Named(doc, name) = {i} /\ doc.globals[i].value = known

RuleIs(doc, guid, known) ==
  \/ known = Unknown
  \/ known = None /\ WithGuid(doc, guid) = {}
  \/ \E i \in DOMAIN doc.rules : WithGuid(doc, guid) = {i} /\ doc.rules[i].body = known

GlobalPair == [name : Global, value : Value \cup {Spoilt}]
RulePair == [guid : Guid, body : Body \cup {Spoilt}]

(* A command that adds or deletes a rule leaves the globals, and the other *)
(* way round.                                                              *)
LEMMA DocumentParts ==
  ASSUME NEW doc \in Document
  PROVE  /\ doc.globals \in Seq(GlobalPair) /\ doc.rules \in Seq(RulePair)
         /\ \A list \in Seq(GlobalPair) :
              /\ [doc EXCEPT !.globals = list] \in Document
              /\ [doc EXCEPT !.globals = list].globals = list
              /\ [doc EXCEPT !.globals = list].rules = doc.rules
         /\ \A list \in Seq(RulePair) :
              /\ [doc EXCEPT !.rules = list] \in Document
              /\ [doc EXCEPT !.rules = list].rules = list
              /\ [doc EXCEPT !.rules = list].globals = doc.globals
BY DEF Document, GlobalPair, RulePair

(* Places of a name are those of the pairs with that name.                 *)
LEMMA NamedPlaces ==
  ASSUME NEW doc, NEW name
  PROVE  /\ doc.globals \in Seq(GlobalPair) =>
              Named(doc, name) = PlacesOf(doc.globals, {p \in GlobalPair : p.name = name})
         /\ doc.rules \in Seq(RulePair) =>
              WithGuid(doc, name) = PlacesOf(doc.rules, {p \in RulePair : p.guid = name})
<1>1. ASSUME doc.globals \in Seq(GlobalPair)
      PROVE  Named(doc, name) = PlacesOf(doc.globals, {p \in GlobalPair : p.name = name})
  <2>1. \A i \in DOMAIN doc.globals : doc.globals[i] \in GlobalPair
    BY <1>1, ElementOfSeq, LenProperties
  <2> QED
    BY <2>1 DEF Named, PlacesOf
<1>2. ASSUME doc.rules \in Seq(RulePair)
      PROVE  WithGuid(doc, name) = PlacesOf(doc.rules, {p \in RulePair : p.guid = name})
  <2>1. \A i \in DOMAIN doc.rules : doc.rules[i] \in RulePair
    BY <1>2, ElementOfSeq, LenProperties
  <2> QED
    BY <2>1 DEF WithGuid, PlacesOf
<1> QED
  BY <1>1, <1>2

(* setGlobal on a name that is not there.                                  *)
LEMMA AddedGlobal ==
  ASSUME NEW doc \in Document, NEW name \in Global, NEW value \in Value,
         Named(doc, name) = {}
  PROVE  LET new == WithGlobal(doc, name, value) IN
         /\ new \in Document /\ new.rules = doc.rules
         /\ GlobalIs(new, name, value)
         /\ \A other \in Global \ {name} : \A known :
              GlobalIs(doc, other, known) => GlobalIs(new, other, known)
<1> DEFINE new == WithGlobal(doc, name, value)
           pair == [name |-> name, value |-> value]
           longer == Append(doc.globals, pair)
<1>1. doc.globals \in Seq(GlobalPair) /\ pair \in GlobalPair
  BY DocumentParts DEF GlobalPair
<1>2. longer \in Seq(GlobalPair)
  BY <1>1, AppendProperties
<1>3. new \in Document /\ new.rules = doc.rules /\ new.globals = longer
  BY <1>2, DocumentParts DEF WithGlobal
<1> HIDE DEF new, longer, pair
<1>4. /\ \A i \in DOMAIN doc.globals : i \in DOMAIN longer /\ longer[i] = doc.globals[i]
      /\ Len(doc.globals) + 1 \in DOMAIN longer
      /\ longer[Len(doc.globals) + 1] = pair
  BY <1>1, PlacesAfterAppend DEF longer
<1>5. \A x : Named(new, x) = Named(doc, x) \cup (IF x = name THEN {Len(doc.globals) + 1} ELSE {})
  <2> TAKE x
  <2> DEFINE P == {p \in GlobalPair : p.name = x}
  <2>1. Named(new, x) = PlacesOf(longer, P) /\ Named(doc, x) = PlacesOf(doc.globals, P)
    BY <1>1, <1>2, <1>3, NamedPlaces
  <2>2. pair \in P <=> x = name
    BY <1>1 DEF pair
  <2> HIDE DEF P
  <2>3. PlacesOf(longer, P)
          = PlacesOf(doc.globals, P) \cup (IF pair \in P THEN {Len(doc.globals) + 1} ELSE {})
    BY <1>1, PlacesAfterAppend DEF longer
  <2> QED
    BY <2>1, <2>2, <2>3
<1>6. GlobalIs(new, name, value)
  BY <1>3, <1>4, <1>5 DEF GlobalIs, pair
<1>7. ASSUME NEW other \in Global \ {name}, NEW known, GlobalIs(doc, other, known)
      PROVE  GlobalIs(new, other, known)
  <2>1. Named(new, other) = Named(doc, other)
    BY <1>5
  <2> QED
    BY <1>3, <1>4, <1>7, <2>1 DEF GlobalIs
<1> QED
  BY <1>3, <1>6, <1>7 DEF new

(* setGlobal on a name that is there once.                                 *)
LEMMA ReplacedGlobal ==
  ASSUME NEW doc \in Document, NEW name \in Global, NEW value \in Value,
         NEW i, Named(doc, name) = {i}
  PROVE  LET new == Replaced(doc, name, value) IN
         /\ new \in Document /\ new.rules = doc.rules
         /\ GlobalIs(new, name, value)
         /\ \A other \in Global \ {name} : \A known :
              GlobalIs(doc, other, known) => GlobalIs(new, other, known)
<1> DEFINE new == Replaced(doc, name, value)
           list == doc.globals
           pair == [list[i] EXCEPT !.value = value]
           changed == [list EXCEPT ![i] = pair]
<1>1. /\ list \in Seq(GlobalPair) /\ DOMAIN list = 1 .. Len(list) /\ Len(list) \in Nat
      /\ \A j \in DOMAIN list : list[j] \in GlobalPair
  BY DocumentParts, LenProperties, ElementOfSeq
<1>2. i \in DOMAIN list /\ list[i].name = name
  BY DEF Named
<1>3. First(Named(doc, name)) = i
  <2>1. \A j \in {i} : i <= j
    BY <1>1, <1>2
  <2>2. \E k \in {i} : \A j \in {i} : k <= j
    BY <2>1
  <2> QED
    BY <2>2 DEF First
<1>4. pair \in GlobalPair /\ pair.name = name /\ pair.value = value
  BY <1>1, <1>2 DEF GlobalPair
<1>5. /\ changed \in Seq(GlobalPair) /\ DOMAIN changed = DOMAIN list
      /\ \A j \in DOMAIN list : changed[j] = IF j = i THEN pair ELSE list[j]
  BY <1>1, <1>2, <1>4, ExceptSeq, LenProperties
<1>6. new = [doc EXCEPT !.globals = changed]
  BY <1>3 DEF Replaced, Document
<1> HIDE DEF new, pair, changed
<1>7. new \in Document /\ new.rules = doc.rules /\ new.globals = changed
  BY <1>5, <1>6, DocumentParts
<1>8. \A x : Named(new, x) = Named(doc, x)
  <2> TAKE x
  <2>1. \A j \in DOMAIN list : changed[j].name = list[j].name
    BY <1>2, <1>4, <1>5
  <2> QED
    BY <1>5, <1>7, <2>1 DEF Named
<1>9. GlobalIs(new, name, value)
  BY <1>2, <1>4, <1>5, <1>7, <1>8 DEF GlobalIs
<1>10. ASSUME NEW other \in Global \ {name}, NEW known, GlobalIs(doc, other, known)
       PROVE  GlobalIs(new, other, known)
  <2>1. \A k \in DOMAIN list : Named(doc, other) = {k} => k # i
    BY <1>2 DEF Named
  <2> QED
    BY <1>5, <1>7, <1>8, <1>10, <2>1 DEF GlobalIs
<1> QED
  BY <1>7, <1>9, <1>10 DEF new

(* The first place of a name is one of its places.                         *)
LEMMA FirstIsIn ==
  ASSUME NEW S, S \subseteq Nat, S # {}
  PROVE  First(S) \in S
BY LeastElement DEF First

LEMMA FirstOfOne ==
  ASSUME NEW i \in Nat
  PROVE  First({i}) = i
<1>1. First({i}) \in {i}
  BY FirstIsIn
<1> QED
  BY <1>1

(* delGlobal: the first of that name goes.                                 *)
LEMMA RemovedGlobal ==
  ASSUME NEW doc \in Document, NEW name \in Global, Named(doc, name) # {}
  PROVE  LET new == [doc EXCEPT !.globals = RemoveAt(@, First(Named(doc, name)))] IN
         /\ new \in Document /\ new.rules = doc.rules
         /\ GetGlobal(doc, name) # None => GlobalIs(new, name, None)
         /\ \A other \in Global \ {name} : \A known :
              GlobalIs(doc, other, known) => GlobalIs(new, other, known)
<1> DEFINE i == First(Named(doc, name))
           list == doc.globals
           shorter == RemoveAt(list, i)
           new == [doc EXCEPT !.globals = RemoveAt(@, First(Named(doc, name)))]
           Of(x) == {p \in GlobalPair : p.name = x}
<1>1. list \in Seq(GlobalPair) /\ DOMAIN list = 1 .. Len(list) /\ Len(list) \in Nat
  BY DocumentParts, LenProperties
<1>2. i \in Named(doc, name)
  <2>1. Named(doc, name) \subseteq Nat
    BY <1>1 DEF Named
  <2> QED
    BY <2>1, FirstIsIn
<1>3. i \in DOMAIN list /\ list[i].name = name
  BY <1>2 DEF Named
<1>4. new = [doc EXCEPT !.globals = shorter]
  BY DEF Document
<1> HIDE DEF new, shorter, i
<1>5. shorter \in Seq(GlobalPair) /\ \A P : Without(list, i, shorter, P)
  <2> HIDE DEF list
  <2> QED
    BY <1>1, <1>3, PlacesAfterRemove DEF shorter
<1>6. new \in Document /\ new.rules = doc.rules /\ new.globals = shorter
  BY <1>4, <1>5, DocumentParts
<1>7. \A x : Named(new, x) = PlacesOf(shorter, Of(x)) /\ Named(doc, x) = PlacesOf(list, Of(x))
  <2> TAKE x
  <2>1. doc.globals \in Seq(GlobalPair) /\ new.globals \in Seq(GlobalPair)
    BY <1>1, <1>5, <1>6
  <2>2. Named(new, x) = PlacesOf(new.globals, Of(x)) /\ Named(doc, x) = PlacesOf(doc.globals, Of(x))
    BY <2>1, NamedPlaces
  <2> QED
    BY <1>6, <2>2
<1> HIDE DEF Of
<1>8. ASSUME GetGlobal(doc, name) # None
      PROVE  GlobalIs(new, name, None)
  <2>1. \E k \in DOMAIN list : Named(doc, name) = {k}
    BY <1>8 DEF GetGlobal
  <2>2. Named(doc, name) = {i}
    BY <1>2, <2>1
  <2>3. Named(new, name) = {}
    BY <1>5, <1>7, <2>2 DEF Without
  <2> QED
    BY <2>3 DEF GlobalIs
<1>9. ASSUME NEW other \in Global \ {name}, NEW known, GlobalIs(doc, other, known)
      PROVE  GlobalIs(new, other, known)
  <2>1. CASE Named(doc, other) = {}
    <3>1. Named(new, other) = {}
      BY <1>5, <1>7, <2>1 DEF Without
    <3> QED
      BY <1>9, <2>1, <3>1 DEF GlobalIs
  <2>2. ASSUME NEW k \in DOMAIN list, Named(doc, other) = {k}, list[k].value = known
        PROVE  GlobalIs(new, other, known)
    <3>1. k # i
      BY <1>3, <2>2 DEF Named
    <3>2. \E j \in DOMAIN shorter : Named(new, other) = {j} /\ shorter[j] = list[k]
      BY <1>5, <1>7, <2>2, <3>1 DEF Without
    <3> QED
      BY <1>6, <2>2, <3>2 DEF GlobalIs
  <2>3. CASE known = Unknown
    BY <2>3 DEF GlobalIs
  <2> QED
    BY <1>9, <2>1, <2>2, <2>3 DEF GlobalIs
<1> QED
  BY <1>6, <1>8, <1>9 DEF new

(* SETRULE with a guid that no rule has.                                   *)
LEMMA AppendedRule ==
  ASSUME NEW doc \in Document, NEW guid \in Guid, NEW body \in Body
  PROVE  LET new == Appended(doc, guid, body) IN
         /\ new \in Document /\ new.globals = doc.globals
         /\ WithGuid(doc, guid) = {} => RuleIs(new, guid, body)
         /\ \A other \in Guid \ {guid} : \A known :
              RuleIs(doc, other, known) => RuleIs(new, other, known)
<1> DEFINE new == Appended(doc, guid, body)
           pair == [guid |-> guid, body |-> body]
           longer == Append(doc.rules, pair)
<1>1. doc.rules \in Seq(RulePair) /\ pair \in RulePair
  BY DocumentParts DEF RulePair
<1>2. longer \in Seq(RulePair)
  BY <1>1, AppendProperties
<1>3. new \in Document /\ new.globals = doc.globals /\ new.rules = longer
  BY <1>2, DocumentParts DEF Appended
<1> HIDE DEF new, longer, pair
<1>4. /\ \A i \in DOMAIN doc.rules : i \in DOMAIN longer /\ longer[i] = doc.rules[i]
      /\ Len(doc.rules) + 1 \in DOMAIN longer
      /\ longer[Len(doc.rules) + 1] = pair
  BY <1>1, PlacesAfterAppend DEF longer
<1>5. \A x : WithGuid(new, x)
               = WithGuid(doc, x) \cup (IF x = guid THEN {Len(doc.rules) + 1} ELSE {})
  <2> TAKE x
  <2> DEFINE P == {p \in RulePair : p.guid = x}
  <2>1. WithGuid(new, x) = PlacesOf(longer, P) /\ WithGuid(doc, x) = PlacesOf(doc.rules, P)
    BY <1>1, <1>2, <1>3, NamedPlaces
  <2>2. pair \in P <=> x = guid
    BY <1>1 DEF pair
  <2> HIDE DEF P
  <2>3. PlacesOf(longer, P)
          = PlacesOf(doc.rules, P) \cup (IF pair \in P THEN {Len(doc.rules) + 1} ELSE {})
    BY <1>1, PlacesAfterAppend DEF longer
  <2> QED
    BY <2>1, <2>2, <2>3
<1>6. WithGuid(doc, guid) = {} => RuleIs(new, guid, body)
  BY <1>3, <1>4, <1>5 DEF RuleIs, pair
<1>7. ASSUME NEW other \in Guid \ {guid}, NEW known, RuleIs(doc, other, known)
      PROVE  RuleIs(new, other, known)
  <2>1. WithGuid(new, other) = WithGuid(doc, other)
    BY <1>5
  <2> QED
    BY <1>3, <1>4, <1>7, <2>1 DEF RuleIs
<1> QED
  BY <1>3, <1>6, <1>7 DEF new

(* DELRULE: the first with that guid goes.                                 *)
LEMMA RemovedRule ==
  ASSUME NEW doc \in Document, NEW guid \in Guid, WithGuid(doc, guid) # {}
  PROVE  LET new == [doc EXCEPT !.rules = RemoveAt(@, First(WithGuid(doc, guid)))] IN
         /\ new \in Document /\ new.globals = doc.globals
         /\ Cardinality(WithGuid(doc, guid)) = 1 => RuleIs(new, guid, None)
         /\ \A other \in Guid \ {guid} : \A known :
              RuleIs(doc, other, known) => RuleIs(new, other, known)
<1> DEFINE i == First(WithGuid(doc, guid))
           list == doc.rules
           shorter == RemoveAt(list, i)
           new == [doc EXCEPT !.rules = RemoveAt(@, First(WithGuid(doc, guid)))]
           Of(x) == {p \in RulePair : p.guid = x}
<1>1. list \in Seq(RulePair) /\ DOMAIN list = 1 .. Len(list) /\ Len(list) \in Nat
  BY DocumentParts, LenProperties
<1>2. i \in WithGuid(doc, guid)
  <2>1. WithGuid(doc, guid) \subseteq Nat
    BY <1>1 DEF WithGuid
  <2> QED
    BY <2>1, FirstIsIn
<1>3. i \in DOMAIN list /\ list[i].guid = guid
  BY <1>2 DEF WithGuid
<1>4. new = [doc EXCEPT !.rules = shorter]
  BY DEF Document
<1> HIDE DEF new, shorter, i
<1>5. shorter \in Seq(RulePair) /\ \A P : Without(list, i, shorter, P)
  <2> HIDE DEF list
  <2> QED
    BY <1>1, <1>3, PlacesAfterRemove DEF shorter
<1>6. new \in Document /\ new.globals = doc.globals /\ new.rules = shorter
  BY <1>4, <1>5, DocumentParts
<1>7. \A x : WithGuid(new, x) = PlacesOf(shorter, Of(x)) /\ WithGuid(doc, x) = PlacesOf(list, Of(x))
  <2> TAKE x
  <2>1. doc.rules \in Seq(RulePair) /\ new.rules \in Seq(RulePair)
    BY <1>1, <1>5, <1>6
  <2>2. WithGuid(new, x) = PlacesOf(new.rules, Of(x)) /\ WithGuid(doc, x) = PlacesOf(doc.rules, Of(x))
    BY <2>1, NamedPlaces
  <2> QED
    BY <1>6, <2>2
<1> HIDE DEF Of
<1>8. ASSUME Cardinality(WithGuid(doc, guid)) = 1
      PROVE  RuleIs(new, guid, None)
  <2>1. IsFiniteSet(WithGuid(doc, guid))
    <3>1. IsFiniteSet(1 .. Len(list))
      BY <1>1, FS_Interval
    <3>2. WithGuid(doc, guid) \subseteq 1 .. Len(list)
      BY <1>1 DEF WithGuid
    <3> QED
      BY <3>1, <3>2, FS_Subset
  <2>2. \E k : WithGuid(doc, guid) = {k}
    BY <1>8, <2>1, FS_Singleton
  <2>3. WithGuid(doc, guid) = {i}
    BY <1>2, <2>2
  <2>4. WithGuid(new, guid) = {}
    BY <1>5, <1>7, <2>3 DEF Without
  <2> QED
    BY <2>4 DEF RuleIs
<1>9. ASSUME NEW other \in Guid \ {guid}, NEW known, RuleIs(doc, other, known)
      PROVE  RuleIs(new, other, known)
  <2>1. CASE WithGuid(doc, other) = {}
    <3>1. WithGuid(new, other) = {}
      BY <1>5, <1>7, <2>1 DEF Without
    <3> QED
      BY <1>9, <2>1, <3>1 DEF RuleIs
  <2>2. ASSUME NEW k \in DOMAIN list, WithGuid(doc, other) = {k}, list[k].body = known
        PROVE  RuleIs(new, other, known)
    <3>1. k # i
      BY <1>3, <2>2 DEF WithGuid
    <3>2. \E j \in DOMAIN shorter : WithGuid(new, other) = {j} /\ shorter[j] = list[k]
      BY <1>5, <1>7, <2>2, <3>1 DEF Without
    <3> QED
      BY <1>6, <2>2, <3>2 DEF RuleIs
  <2>3. CASE known = Unknown
    BY <2>3 DEF RuleIs
  <2> QED
    BY <1>9, <2>1, <2>2, <2>3 DEF RuleIs
<1> QED
  BY <1>6, <1>8, <1>9 DEF new

-----------------------------------------------------------------------------
(* A document is what the history says there may be of it.                 *)
GlobalsAgree(doc, may) ==
  \A name \in Global : \E known \in may[name] : GlobalIs(doc, name, known)
RulesAgree(doc, may) ==
  \A guid \in Guid : \E known \in may[guid] : RuleIs(doc, guid, known)
Agrees(doc, may) == GlobalsAgree(doc, may) /\ (FreshGuids => RulesAgree(doc, may))

Texts == Value \cup Body \cup {None, Unknown, Spoilt}
Histories == [Key -> SUBSET Texts]

(* The inductive invariant: the document in memory and the file are what   *)
(* the history says; of a document whose text was freed it says nothing.   *)
ConfigInv ==
  /\ TypeOK
  /\ freed => running /\ \A k \in Key : left[k] = {Unknown}
  /\ running => Agrees(rootConfig, left)
  /\ Agrees(file, left)

AnswersAgree == GlobalsAreKept /\ (FreshGuids => RulesAreKept)

LEMMA EmptyIsADocument == Empty \in Document
BY EmptySeq DEF Document, Empty

LEMMA NothingKnownAgrees ==
  ASSUME NEW doc, NEW may, \A k \in Key : may[k] = {Unknown}
  PROVE  Agrees(doc, may)
BY DEF Agrees, GlobalsAgree, RulesAgree, GlobalIs, RuleIs, Key

(* The five changes a command makes to a document.                         *)
LEMMA AddingAGlobal ==
  ASSUME NEW doc \in Document, NEW may \in Histories, Agrees(doc, may),
         NEW name \in Global, NEW value \in Value, Named(doc, name) = {}
  PROVE  /\ WithGlobal(doc, name, value) \in Document
         /\ Agrees(WithGlobal(doc, name, value), [may EXCEPT ![name] = {value}])
<1> DEFINE new == WithGlobal(doc, name, value)
<1>1. /\ new \in Document /\ new.rules = doc.rules
      /\ GlobalIs(new, name, value)
      /\ \A other \in Global \ {name} : \A known :
           GlobalIs(doc, other, known) => GlobalIs(new, other, known)
  BY AddedGlobal
<1> HIDE DEF new
<1>2. GlobalsAgree(new, [may EXCEPT ![name] = {value}])
  BY <1>1 DEF Agrees, GlobalsAgree, Histories, Key
<1>3. RulesAgree(doc, may) => RulesAgree(new, [may EXCEPT ![name] = {value}])
  BY <1>1, DistinctNames DEF RulesAgree, RuleIs, WithGuid, Histories, Key
<1> QED
  BY <1>1, <1>2, <1>3 DEF Agrees, new

LEMMA ReplacingAGlobal ==
  ASSUME NEW doc \in Document, NEW may \in Histories, Agrees(doc, may),
         NEW name \in Global, NEW value \in Value, GetGlobal(doc, name) # None
  PROVE  /\ Replaced(doc, name, value) \in Document
         /\ Agrees(Replaced(doc, name, value), [may EXCEPT ![name] = {value}])
<1> DEFINE new == Replaced(doc, name, value)
<1>1. PICK i : Named(doc, name) = {i}
  BY DEF GetGlobal
<1>2. /\ new \in Document /\ new.rules = doc.rules
      /\ GlobalIs(new, name, value)
      /\ \A other \in Global \ {name} : \A known :
           GlobalIs(doc, other, known) => GlobalIs(new, other, known)
  BY <1>1, ReplacedGlobal
<1> HIDE DEF new
<1>3. GlobalsAgree(new, [may EXCEPT ![name] = {value}])
  BY <1>2 DEF Agrees, GlobalsAgree, Histories, Key
<1>4. RulesAgree(doc, may) => RulesAgree(new, [may EXCEPT ![name] = {value}])
  BY <1>2, DistinctNames DEF RulesAgree, RuleIs, WithGuid, Histories, Key
<1> QED
  BY <1>2, <1>3, <1>4 DEF Agrees, new

LEMMA DeletingAGlobal ==
  ASSUME NEW doc \in Document, NEW may \in Histories, Agrees(doc, may),
         NEW name \in Global, Named(doc, name) # {}
  PROVE  LET new == [doc EXCEPT !.globals = RemoveAt(@, First(Named(doc, name)))]
             known == IF GetGlobal(doc, name) # None THEN None ELSE Unknown IN
         new \in Document /\ Agrees(new, [may EXCEPT ![name] = {known}])
<1> DEFINE new == [doc EXCEPT !.globals = RemoveAt(@, First(Named(doc, name)))]
           known == IF GetGlobal(doc, name) # None THEN None ELSE Unknown
<1>1. /\ new \in Document /\ new.rules = doc.rules
      /\ GetGlobal(doc, name) # None => GlobalIs(new, name, None)
      /\ \A other \in Global \ {name} : \A k :
           GlobalIs(doc, other, k) => GlobalIs(new, other, k)
  BY RemovedGlobal
<1>2. GlobalIs(new, name, known)
  BY <1>1 DEF GlobalIs
<1> HIDE DEF new, known
<1>3. GlobalsAgree(new, [may EXCEPT ![name] = {known}])
  BY <1>1, <1>2 DEF Agrees, GlobalsAgree, Histories, Key
<1>4. RulesAgree(doc, may) => RulesAgree(new, [may EXCEPT ![name] = {known}])
  BY <1>1, DistinctNames DEF RulesAgree, RuleIs, WithGuid, Histories, Key
<1> QED
  BY <1>1, <1>3, <1>4 DEF Agrees, new, known

LEMMA AddingARule ==
  ASSUME NEW doc \in Document, NEW may \in Histories, Agrees(doc, may),
         NEW guid \in Guid, NEW body \in Body, FreshGuids => WithGuid(doc, guid) = {}
  PROVE  /\ Appended(doc, guid, body) \in Document
         /\ Agrees(Appended(doc, guid, body), [may EXCEPT ![guid] = {body}])
<1> DEFINE new == Appended(doc, guid, body)
<1>1. /\ new \in Document /\ new.globals = doc.globals
      /\ WithGuid(doc, guid) = {} => RuleIs(new, guid, body)
      /\ \A other \in Guid \ {guid} : \A known :
           RuleIs(doc, other, known) => RuleIs(new, other, known)
  BY AppendedRule
<1> HIDE DEF new
<1>2. FreshGuids => RulesAgree(new, [may EXCEPT ![guid] = {body}])
  BY <1>1 DEF Agrees, RulesAgree, Histories, Key
<1>3. GlobalsAgree(new, [may EXCEPT ![guid] = {body}])
  BY <1>1, DistinctNames DEF Agrees, GlobalsAgree, GlobalIs, Named, Histories, Key
<1> QED
  BY <1>1, <1>2, <1>3 DEF Agrees, new

LEMMA DeletingARule ==
  ASSUME NEW doc \in Document, NEW may \in Histories, Agrees(doc, may),
         NEW guid \in Guid, WithGuid(doc, guid) # {}
  PROVE  LET new == [doc EXCEPT !.rules = RemoveAt(@, First(WithGuid(doc, guid)))]
             known == IF Cardinality(WithGuid(doc, guid)) = 1 THEN None ELSE Unknown IN
         new \in Document /\ Agrees(new, [may EXCEPT ![guid] = {known}])
<1> DEFINE new == [doc EXCEPT !.rules = RemoveAt(@, First(WithGuid(doc, guid)))]
           known == IF Cardinality(WithGuid(doc, guid)) = 1 THEN None ELSE Unknown
<1>1. /\ new \in Document /\ new.globals = doc.globals
      /\ Cardinality(WithGuid(doc, guid)) = 1 => RuleIs(new, guid, None)
      /\ \A other \in Guid \ {guid} : \A k :
           RuleIs(doc, other, k) => RuleIs(new, other, k)
  BY RemovedRule
<1>2. RuleIs(new, guid, known)
  BY <1>1 DEF RuleIs
<1> HIDE DEF new, known
<1>3. RulesAgree(doc, may) => RulesAgree(new, [may EXCEPT ![guid] = {known}])
  BY <1>1, <1>2 DEF RulesAgree, Histories, Key
<1>4. GlobalsAgree(new, [may EXCEPT ![guid] = {known}])
  BY <1>1, DistinctNames DEF Agrees, GlobalsAgree, GlobalIs, Named, Histories, Key
<1> QED
  BY <1>1, <1>3, <1>4 DEF Agrees, new, known

-----------------------------------------------------------------------------
(* What is read of a file: the beginnings of both lists, with some of the  *)
(* texts spoilt.                                                           *)
GlobalsBegin(now, doc, n) ==
  /\ DOMAIN now.globals = 1 .. n
  /\ \A i \in 1 .. n : /\ now.globals[i].name = doc.globals[i].name
                       /\ now.globals[i].value \in {doc.globals[i].value, Spoilt}

RulesBegin(now, doc, n) ==
  /\ DOMAIN now.rules = 1 .. n
  /\ \A i \in 1 .. n : /\ now.rules[i].guid = doc.rules[i].guid
                       /\ now.rules[i].body \in {doc.rules[i].body, Spoilt}

LEMMA DocumentShape ==
  Document = [globals : Seq(GlobalPair), hasGlobals : BOOLEAN, rules : Seq(RulePair),
              lists : Nat, clocking : BOOLEAN, timeouts : Nat]
BY DEF Document, GlobalPair, RulePair

LEMMA GlobalsUpToBegin ==
  ASSUME NEW list \in Seq(GlobalPair), NEW n \in 0 .. Len(list)
  PROVE  LET part == GlobalsUpTo(list, n) IN
         /\ part \in Seq(GlobalPair) /\ DOMAIN part = 1 .. n
         /\ \A i \in 1 .. n : /\ part[i].name = list[i].name
                              /\ part[i].value \in {list[i].value, Spoilt}
<1> DEFINE part == GlobalsUpTo(list, n)
<1>1. n \in Nat /\ \A i \in 1 .. n : list[i] \in GlobalPair
  BY LenProperties, ElementOfSeq
<1>2. \A i \in 1 .. n : part[i] = [list[i] EXCEPT !.value = Plain(list[i].value)]
  BY DEF GlobalsUpTo
<1>3. \A i \in 1 .. n : /\ part[i] \in GlobalPair
                        /\ part[i].name = list[i].name
                        /\ part[i].value \in {list[i].value, Spoilt}
  BY <1>1, <1>2 DEF GlobalPair, Plain
<1>4. part = [i \in 1 .. n |-> part[i]]
  BY DEF GlobalsUpTo
<1> HIDE DEF part
<1>5. part \in Seq(GlobalPair) /\ DOMAIN part = 1 .. n
  BY <1>1, <1>3, <1>4, IsASeq
<1> QED
  BY <1>3, <1>5 DEF part

LEMMA RulesUpToBegin ==
  ASSUME NEW list \in Seq(RulePair), NEW n \in 0 .. Len(list), NEW torn \in BOOLEAN
  PROVE  LET part == RulesUpTo(list, n, torn) IN
         /\ part \in Seq(RulePair) /\ DOMAIN part = 1 .. n
         /\ \A i \in 1 .. n : /\ part[i].guid = list[i].guid
                              /\ part[i].body \in {list[i].body, Spoilt}
<1> DEFINE part == RulesUpTo(list, n, torn)
           text(i) == IF torn /\ i = n THEN Spoilt ELSE Plain(list[i].body)
<1>1. n \in Nat /\ \A i \in 1 .. n : list[i] \in RulePair
  BY LenProperties, ElementOfSeq
<1>2. \A i \in 1 .. n : part[i] = [list[i] EXCEPT !.body = text(i)]
  BY DEF RulesUpTo
<1>3. \A i \in 1 .. n : text(i) \in {list[i].body, Spoilt}
  BY DEF Plain
<1>4. part = [i \in 1 .. n |-> part[i]]
  BY DEF RulesUpTo
<1> HIDE DEF part, text
<1>5. \A i \in 1 .. n : /\ part[i] \in RulePair
                        /\ part[i].guid = list[i].guid
                        /\ part[i].body \in {list[i].body, Spoilt}
  BY <1>1, <1>2, <1>3 DEF RulePair
<1>6. part \in Seq(RulePair) /\ DOMAIN part = 1 .. n
  BY <1>1, <1>4, <1>5, IsASeq
<1> QED
  BY <1>5, <1>6 DEF part

(* saveHal4lConfig: what is read of a file is a document, the beginning of *)
(* the one that was written.                                               *)
LEMMA SavedBegins ==
  ASSUME NEW doc \in Document, NEW now \in Saved(doc)
  PROVE  /\ now \in Document
         /\ \E n \in 0 .. Len(doc.globals) : GlobalsBegin(now, doc, n)
         /\ \E n \in 0 .. Len(doc.rules) : RulesBegin(now, doc, n)
<1>1. /\ doc.globals \in Seq(GlobalPair) /\ doc.rules \in Seq(RulePair)
      /\ Len(doc.globals) \in Nat /\ Len(doc.rules) \in Nat
      /\ doc.lists \in Nat /\ doc.timeouts \in Nat /\ doc.clocking \in BOOLEAN
      /\ doc.hasGlobals \in BOOLEAN
  BY DocumentParts, LenProperties DEF Document
<1>2. << >> \in Seq(GlobalPair) /\ << >> \in Seq(RulePair) /\ DOMAIN << >> = 1 .. 0
  BY EmptySeq
<1>3. ASSUME NEW c \in BOOLEAN, NEW t \in 0 .. doc.timeouts,
             now = UpToSettings(doc, c, t)
      PROVE  /\ now \in Document
             /\ GlobalsBegin(now, doc, 0) /\ RulesBegin(now, doc, 0)
  <2>1. now = [globals |-> << >>, hasGlobals |-> FALSE, rules |-> << >>, lists |-> 0,
               clocking |-> c /\ doc.clocking, timeouts |-> t]
    BY <1>3 DEF UpToSettings, Empty
  <2>2. t \in Nat
    BY <1>1
  <2>3. (c /\ doc.clocking) \in BOOLEAN
    OBVIOUS
  <2>4. now \in Document /\ now.globals = << >> /\ now.rules = << >>
    BY <1>2, <2>1, <2>2, <2>3, DocumentShape
  <2> QED
    BY <1>2, <2>4 DEF GlobalsBegin, RulesBegin
<1>4. ASSUME NEW n \in 0 .. Len(doc.globals), NEW l \in 0 .. doc.lists,
             now = UpToGlobals(doc, n, l)
      PROVE  /\ now \in Document
             /\ GlobalsBegin(now, doc, n) /\ RulesBegin(now, doc, 0)
  <2> DEFINE part == GlobalsUpTo(doc.globals, n)
  <2>1. /\ part \in Seq(GlobalPair) /\ DOMAIN part = 1 .. n
        /\ \A i \in 1 .. n : /\ part[i].name = doc.globals[i].name
                             /\ part[i].value \in {doc.globals[i].value, Spoilt}
    BY <1>1, GlobalsUpToBegin
  <2> HIDE DEF part
  <2>2. now = [globals |-> part, hasGlobals |-> doc.hasGlobals, rules |-> << >>, lists |-> l,
               clocking |-> doc.clocking, timeouts |-> doc.timeouts]
    BY <1>4, DocumentShape DEF UpToGlobals, part
  <2>3. l \in Nat
    BY <1>1
  <2>4. now \in Document /\ now.globals = part /\ now.rules = << >>
    BY <1>1, <1>2, <2>1, <2>2, <2>3, DocumentShape
  <2> QED
    BY <1>2, <2>1, <2>4 DEF GlobalsBegin, RulesBegin
<1>5. ASSUME NEW n \in 0 .. Len(doc.rules), NEW torn \in BOOLEAN, NEW l \in 1 .. doc.lists,
             now = UpToRules(doc, n, torn, l)
      PROVE  /\ now \in Document
             /\ GlobalsBegin(now, doc, Len(doc.globals)) /\ RulesBegin(now, doc, n)
  <2> DEFINE all == GlobalsUpTo(doc.globals, Len(doc.globals))
             part == RulesUpTo(doc.rules, n, torn)
  <2>0. doc.globals \in Seq(GlobalPair) /\ Len(doc.globals) \in 0 .. Len(doc.globals)
    BY <1>1
  <2>1. /\ all \in Seq(GlobalPair) /\ DOMAIN all = 1 .. Len(doc.globals)
        /\ \A i \in 1 .. Len(doc.globals) :
             /\ all[i].name = doc.globals[i].name
             /\ all[i].value \in {doc.globals[i].value, Spoilt}
    BY <2>0, GlobalsUpToBegin
  <2>2. /\ part \in Seq(RulePair) /\ DOMAIN part = 1 .. n
        /\ \A i \in 1 .. n : /\ part[i].guid = doc.rules[i].guid
                             /\ part[i].body \in {doc.rules[i].body, Spoilt}
    BY <1>1, RulesUpToBegin
  <2> HIDE DEF all, part
  <2>3. now = [globals |-> all, hasGlobals |-> doc.hasGlobals, rules |-> part, lists |-> l,
               clocking |-> doc.clocking, timeouts |-> doc.timeouts]
    BY <1>5, DocumentShape DEF UpToRules, all, part
  <2>4. l \in Nat
    BY <1>1
  <2>5. now \in Document /\ now.globals = all /\ now.rules = part
    BY <1>1, <2>1, <2>2, <2>3, <2>4, DocumentShape
  <2> QED
    BY <2>1, <2>2, <2>5 DEF GlobalsBegin, RulesBegin
<1>6. CASE now \in CutInSettings(doc)
  <2>1. PICK c \in BOOLEAN, t \in 0 .. doc.timeouts : now = UpToSettings(doc, c, t)
    BY <1>6 DEF CutInSettings
  <2>2. 0 \in 0 .. Len(doc.globals) /\ 0 \in 0 .. Len(doc.rules)
    BY <1>1
  <2> QED
    BY <1>3, <2>1, <2>2
<1>7. CASE now \in CutInGlobals(doc)
  <2>1. PICK n \in 0 .. Len(doc.globals), l \in 0 .. doc.lists : now = UpToGlobals(doc, n, l)
    BY <1>7 DEF CutInGlobals
  <2>2. 0 \in 0 .. Len(doc.rules)
    BY <1>1
  <2> QED
    BY <1>4, <2>1, <2>2
<1>8. CASE now \in CutInRules(doc)
  <2>1. PICK n \in 0 .. Len(doc.rules), torn \in BOOLEAN, l \in 1 .. doc.lists :
          now = UpToRules(doc, n, torn, l)
    BY <1>8 DEF CutInRules
  <2>2. Len(doc.globals) \in 0 .. Len(doc.globals)
    BY <1>1
  <2> QED
    BY <1>5, <2>1, <2>2
<1> QED
  BY <1>6, <1>7, <1>8 DEF Saved

(* What a global was is what it still is in the beginning of the document, *)
(* or it is spoilt there, or not there.                                    *)
LEMMA GlobalOfBeginning ==
  ASSUME NEW doc \in Document, NEW now, NEW n \in 0 .. Len(doc.globals),
         GlobalsBegin(now, doc, n), NEW name, NEW known, GlobalIs(doc, name, known)
  PROVE  \E k \in {known, None, Spoilt} : GlobalIs(now, name, k)
<1>1. Len(doc.globals) \in Nat /\ DOMAIN doc.globals = 1 .. Len(doc.globals)
  BY DocumentParts, LenProperties
<1>2. Named(now, name) = {i \in 1 .. n : i \in Named(doc, name)}
  BY <1>1 DEF Named, GlobalsBegin
<1>3. CASE known = Unknown
  BY <1>3 DEF GlobalIs
<1>4. CASE known = None /\ Named(doc, name) = {}
  BY <1>2, <1>4 DEF GlobalIs
<1>5. ASSUME NEW i \in DOMAIN doc.globals, Named(doc, name) = {i},
             doc.globals[i].value = known
      PROVE  \E k \in {known, None, Spoilt} : GlobalIs(now, name, k)
  <2>1. CASE i \in 1 .. n
    <3>1. Named(now, name) = {i} /\ i \in DOMAIN now.globals
      BY <1>2, <1>5, <2>1 DEF GlobalsBegin
    <3>2. now.globals[i].value \in {known, Spoilt}
      BY <1>5, <2>1 DEF GlobalsBegin
    <3> QED
      BY <3>1, <3>2 DEF GlobalIs
  <2>2. CASE i \notin 1 .. n
    <3>1. Named(now, name) = {}
      BY <1>2, <1>5, <2>2
    <3> QED
      BY <3>1 DEF GlobalIs
  <2> QED
    BY <2>1, <2>2
<1> QED
  BY <1>3, <1>4, <1>5 DEF GlobalIs

LEMMA RuleOfBeginning ==
  ASSUME NEW doc \in Document, NEW now, NEW n \in 0 .. Len(doc.rules),
         RulesBegin(now, doc, n), NEW guid, NEW known, RuleIs(doc, guid, known)
  PROVE  \E k \in {known, None, Spoilt} : RuleIs(now, guid, k)
<1>1. Len(doc.rules) \in Nat /\ DOMAIN doc.rules = 1 .. Len(doc.rules)
  BY DocumentParts, LenProperties
<1>2. WithGuid(now, guid) = {i \in 1 .. n : i \in WithGuid(doc, guid)}
  BY <1>1 DEF WithGuid, RulesBegin
<1>3. CASE known = Unknown
  BY <1>3 DEF RuleIs
<1>4. CASE known = None /\ WithGuid(doc, guid) = {}
  BY <1>2, <1>4 DEF RuleIs
<1>5. ASSUME NEW i \in DOMAIN doc.rules, WithGuid(doc, guid) = {i},
             doc.rules[i].body = known
      PROVE  \E k \in {known, None, Spoilt} : RuleIs(now, guid, k)
  <2>1. CASE i \in 1 .. n
    <3>1. WithGuid(now, guid) = {i} /\ i \in DOMAIN now.rules
      BY <1>2, <1>5, <2>1 DEF RulesBegin
    <3>2. now.rules[i].body \in {known, Spoilt}
      BY <1>5, <2>1 DEF RulesBegin
    <3> QED
      BY <3>1, <3>2 DEF RuleIs
  <2>2. CASE i \notin 1 .. n
    <3>1. WithGuid(now, guid) = {}
      BY <1>2, <1>5, <2>2
    <3> QED
      BY <3>1 DEF RuleIs
  <2> QED
    BY <2>1, <2>2
<1> QED
  BY <1>3, <1>4, <1>5 DEF RuleIs

(* A save that went through leaves what it was to; one that was cut short  *)
(* leaves that, nothing, or something spoilt.                              *)
Weaker(may, new, now) ==
  [k \in Key |-> may[k] \cup (IF now = new THEN {} ELSE {None, Spoilt})]

LEMMA SavedAgrees ==
  ASSUME NEW new \in Document, NEW now \in Saved(new), NEW may \in Histories,
         Agrees(new, may)
  PROVE  Agrees(now, Weaker(may, new, now))
<1> DEFINE then == Weaker(may, new, now)
<1>1. CASE now = new
  <2>1. \A k \in Key : then[k] = may[k]
    BY <1>1 DEF Weaker
  <2> HIDE DEF then
  <2>2. Agrees(new, then)
    BY <2>1 DEF Agrees, GlobalsAgree, RulesAgree, Key
  <2> QED
    BY <1>1, <2>2 DEF then
<1>2. CASE now # new
  <2>1. \A k \in Key : then[k] = may[k] \cup {None, Spoilt}
    BY <1>2 DEF Weaker
  <2> HIDE DEF then
  <2>2. ASSUME NEW name \in Global
        PROVE  \E k \in then[name] : GlobalIs(now, name, k)
    <3>1. PICK known \in may[name] : GlobalIs(new, name, known)
      BY DEF Agrees, GlobalsAgree
    <3>2. PICK k \in {known, None, Spoilt} : GlobalIs(now, name, k)
      BY <3>1, SavedBegins, GlobalOfBeginning
    <3> QED
      BY <2>1, <3>1, <3>2 DEF Key
  <2>3. ASSUME FreshGuids, NEW guid \in Guid
        PROVE  \E k \in then[guid] : RuleIs(now, guid, k)
    <3>1. PICK known \in may[guid] : RuleIs(new, guid, known)
      BY <2>3 DEF Agrees, RulesAgree
    <3>2. PICK k \in {known, None, Spoilt} : RuleIs(now, guid, k)
      BY <3>1, SavedBegins, RuleOfBeginning
    <3> QED
      BY <2>1, <3>1, <3>2 DEF Key
  <2> QED
    BY <2>2, <2>3 DEF Agrees, GlobalsAgree, RulesAgree, then
<1> QED
  BY <1>1, <1>2

-----------------------------------------------------------------------------
(* What a search may see agrees with what was told, an emptied document    *)
(* too: nothing was told of it yet.                                        *)
LEMMA SeenAgrees ==
  ASSUME ConfigInv, running
  PROVE  \A doc \in Seen : doc \in Document /\ Agrees(doc, left)
<1>1. rootConfig \in Document /\ Agrees(rootConfig, left)
  BY DEF ConfigInv, TypeOK
<1>2. freed => Agrees(Empty, left)
  BY NothingKnownAgrees DEF ConfigInv
<1> QED
  BY <1>1, <1>2, EmptyIsADocument DEF Seen

(* Answers that tell nothing of globals and rules.                         *)
Silent(kind) == kind \notin {"value", "globals", "rule", "rules"}

LEMMA SilentAgrees ==
  ASSUME NEW kind, Silent(kind), NEW about, NEW value, reply' = Says(kind, about, value)
  PROVE  AnswersAgree'
BY DEF Silent, Says, AnswersAgree, GlobalsAreKept, RulesAreKept

LEMMA AnswerKeepsConfig ==
  ASSUME ConfigInv, NEW r, Answer(r)
  PROVE  ConfigInv'
BY DEF Answer, ConfigInv, TypeOK

LEMMA SilentAnswer ==
  ASSUME ConfigInv, NEW kind, Silent(kind), NEW about, NEW value,
         Answer(Says(kind, about, value))
  PROVE  ConfigInv' /\ AnswersAgree'
BY AnswerKeepsConfig, SilentAgrees DEF Answer

LEMMA AgreesPrimed ==
  ASSUME TRUE
  PROVE  /\ Agrees(rootConfig, left)' <=> Agrees(rootConfig', left')
         /\ Agrees(file, left)' <=> Agrees(file', left')
BY DEF Agrees, GlobalsAgree, RulesAgree, GlobalIs, RuleIs, Named, WithGuid

LEMMA UpdateAgrees ==
  ASSUME ConfigInv, running, NEW new \in Document, NEW key \in Key, NEW known \in Texts,
         NEW kind, Silent(kind), NEW about, NEW value,
         Update(new, key, known, Says(kind, about, value)),
         Agrees(new, [left EXCEPT ![key] = {known}])
  PROVE  ConfigInv' /\ AnswersAgree'
<1> DEFINE may == [left EXCEPT ![key] = {known}]
<1>1. PICK now \in Saved(new) :
        /\ file' = now
        /\ left' = LeftBy(new, now, key, known)
        /\ \/ /\ rootConfig' = now
              /\ freed' = FALSE
              /\ uploaded' = NoDocument
              /\ reply' = Says(kind, about, value)
              /\ UNCHANGED running
           \/ Down
  BY DEF Update, Loaded
<1>2. now \in Document /\ now # NoDocument
  BY SavedBegins, DocumentIsSome
<1>3. left \in Histories /\ may \in Histories
  BY DEF ConfigInv, TypeOK, Histories, Texts
<1>4. left' = Weaker(may, new, now)
  BY <1>1, <1>3 DEF LeftBy, Weaker, Histories
<1> HIDE DEF may
<1>5. left' \in Histories
  BY <1>3, <1>4 DEF Weaker, Histories, Texts
<1>6. Agrees(now, left')
  BY <1>3, <1>4, SavedAgrees DEF may
<1>7. AnswersAgree'
  <2>1. Silent("none")
    BY DEF Silent
  <2>2. reply' = Says(kind, about, value) \/ reply' = Says("none", None, None)
    BY <1>1 DEF Down
  <2> QED
    BY <2>1, <2>2, SilentAgrees
<1>8. TypeOK'
  BY <1>1, <1>2, <1>5 DEF ConfigInv, TypeOK, Histories, Texts, Down
<1>9. Agrees(file, left)' /\ (running' => Agrees(rootConfig, left)')
  BY <1>1, <1>6, AgreesPrimed DEF Down
<1>10. freed' = FALSE
  BY <1>1 DEF Down
<1> QED
  BY <1>7, <1>8, <1>9, <1>10 DEF ConfigInv

LEMMA DeathAgrees ==
  ASSUME ConfigInv, Dies
  PROVE  ConfigInv' /\ AnswersAgree'
<1>1. AnswersAgree'
  <2>1. Silent("none") /\ reply' = Says("none", None, None)
    BY DEF Dies, Down, Silent
  <2> QED
    BY <2>1, SilentAgrees
<1>2. TypeOK'
  BY DEF ConfigInv, TypeOK, Dies, Down
<1>3. Agrees(file, left)'
  BY AgreesPrimed DEF ConfigInv, Dies
<1> QED
  BY <1>1, <1>2, <1>3 DEF ConfigInv, Dies, Down

LEMMA GlobalAnswerAgrees ==
  ASSUME ConfigInv, running, NEW name \in Global, AskGlobal(name)
  PROVE  ConfigInv' /\ AnswersAgree'
<1>1. PICK doc \in Seen : Answer(Says("value", name, GetGlobal(doc, name)))
  BY DEF AskGlobal
<1>2. PICK known \in left[name] : doc \in Document /\ GlobalIs(doc, name, known)
  BY SeenAgrees DEF Agrees, GlobalsAgree
<1>3. known = Unknown \/ GetGlobal(doc, name) = Fitting(known)
  <2>1. CASE known = None /\ Named(doc, name) = {}
    <3>1. GetGlobal(doc, name) = None
      BY <2>1 DEF GetGlobal
    <3>2. Fitting(None) = None
      BY DistinctNames DEF Fitting
    <3> QED
      BY <2>1, <3>1, <3>2
  <2>2. ASSUME NEW i \in DOMAIN doc.globals, Named(doc, name) = {i},
               doc.globals[i].value = known
        PROVE  GetGlobal(doc, name) = Fitting(known)
    <3>1. i \in Nat
      BY <1>2, DocumentParts, LenProperties
    <3>2. First(Named(doc, name)) = i
      BY <2>2, <3>1, FirstOfOne
    <3> QED
      BY <2>2, <3>2 DEF GetGlobal
  <2> QED
    BY <1>2, <2>1, <2>2 DEF GlobalIs
<1>4. ConfigInv'
  BY <1>1, AnswerKeepsConfig
<1>5. left' = left /\ reply' = Says("value", name, GetGlobal(doc, name))
  BY <1>1 DEF Answer
<1>6. AnswersAgree'
  BY <1>2, <1>3, <1>5 DEF AnswersAgree, GlobalsAreKept, RulesAreKept, Says
<1> QED
  BY <1>4, <1>6

LEMMA RuleAnswerAgrees ==
  ASSUME ConfigInv, running, NEW guid \in Guid, AskRule(guid)
  PROVE  ConfigInv' /\ AnswersAgree'
<1>1. PICK doc \in Seen : Answer(Says("rule", guid, GetRule(doc, guid)))
  BY DEF AskRule
<1>2. /\ doc \in Document
      /\ (FreshGuids => \E known \in left[guid] : RuleIs(doc, guid, known))
  BY SeenAgrees DEF Agrees, RulesAgree
<1>3. FreshGuids => {Unknown, GetRule(doc, guid)} \cap left[guid] # {}
  <2> SUFFICES ASSUME FreshGuids PROVE {Unknown, GetRule(doc, guid)} \cap left[guid] # {}
    OBVIOUS
  <2> PICK known \in left[guid] : RuleIs(doc, guid, known)
    BY <1>2
  <2>1. CASE known = None /\ WithGuid(doc, guid) = {}
    BY <2>1 DEF GetRule
  <2>2. ASSUME NEW i \in DOMAIN doc.rules, WithGuid(doc, guid) = {i},
               doc.rules[i].body = known
        PROVE  known = GetRule(doc, guid)
    <3>1. i \in Nat
      BY <1>2, DocumentParts, LenProperties
    <3>2. First(WithGuid(doc, guid)) = i
      BY <2>2, <3>1, FirstOfOne
    <3> QED
      BY <2>2, <3>2 DEF GetRule
  <2> QED
    BY <2>1, <2>2 DEF RuleIs
<1>4. ConfigInv'
  BY <1>1, AnswerKeepsConfig
<1>5. left' = left /\ reply' = Says("rule", guid, GetRule(doc, guid))
  BY <1>1 DEF Answer
<1>6. AnswersAgree'
  BY <1>3, <1>5 DEF AnswersAgree, GlobalsAreKept, RulesAreKept, Says
<1> QED
  BY <1>4, <1>6

LEMMA GlobalListAgrees ==
  ASSUME ConfigInv, ListGlobals
  PROVE  ConfigInv' /\ AnswersAgree'
<1>1. PICK doc \in Seen : Answer(Says("globals", None, doc.globals))
  BY DEF ListGlobals
<1>2. \A name \in Global : \E known \in left[name] : GlobalIs(doc, name, known)
  BY SeenAgrees DEF ListGlobals, Agrees, GlobalsAgree
<1>3. ConfigInv'
  BY <1>1, AnswerKeepsConfig
<1>4. left' = left /\ reply' = Says("globals", None, doc.globals)
  BY <1>1 DEF Answer
<1>5. reply'.kind = "globals" /\ reply'.value = doc.globals
  BY <1>4 DEF Says
<1>6. AnswersAgree'
  BY <1>2, <1>4, <1>5 DEF AnswersAgree, GlobalsAreKept, RulesAreKept, GlobalIs, Named
<1> QED
  BY <1>3, <1>6

LEMMA RuleListAgrees ==
  ASSUME ConfigInv, ListRules
  PROVE  ConfigInv' /\ AnswersAgree'
<1>1. PICK doc \in Seen :
        Answer(Says("rules", None, [i \in DOMAIN doc.rules |-> doc.rules[i].guid]))
  BY DEF ListRules
<1>2. /\ doc \in Document
      /\ FreshGuids =>
           \A guid \in Guid : \E known \in left[guid] : RuleIs(doc, guid, known)
  BY SeenAgrees DEF ListRules, Agrees, RulesAgree
<1> DEFINE list == [i \in DOMAIN doc.rules |-> doc.rules[i].guid]
           At(guid) == {i \in DOMAIN list : list[i] = guid}
<1>3. ConfigInv'
  BY <1>1, AnswerKeepsConfig
<1>4. left' = left /\ reply' = Says("rules", None, list)
  BY <1>1 DEF Answer
<1>5. ASSUME FreshGuids, NEW guid \in Guid
      PROVE  \/ Unknown \in left[guid]
             \/ None \in left[guid] /\ At(guid) = {}
             \/ left[guid] # {None} /\ Cardinality(At(guid)) = 1
  <2>1. At(guid) = WithGuid(doc, guid)
    BY DEF WithGuid
  <2>2. PICK known \in left[guid] : RuleIs(doc, guid, known)
    BY <1>2, <1>5
  <2>3. ASSUME NEW i \in DOMAIN doc.rules, WithGuid(doc, guid) = {i},
               doc.rules[i].body = known
        PROVE  left[guid] # {None} /\ Cardinality(At(guid)) = 1
    <3>1. doc.rules[i] \in RulePair
      BY <1>2, DocumentParts, LenProperties, ElementOfSeq
    <3>2. known # None
      BY <2>3, <3>1, DistinctNames DEF RulePair, None, Spoilt
    <3>3. left[guid] # {None}
      BY <2>2, <3>2
    <3>4. Cardinality({i}) = 1
      BY FS_Singleton
    <3> QED
      BY <2>1, <2>3, <3>3, <3>4
  <2> QED
    BY <2>1, <2>2, <2>3 DEF RuleIs
<1> HIDE DEF list
<1>6. reply'.kind = "rules" /\ reply'.value = list
  BY <1>4 DEF Says
<1>7. AnswersAgree'
  BY <1>4, <1>5, <1>6 DEF AnswersAgree, GlobalsAreKept, RulesAreKept
<1> QED
  BY <1>3, <1>7

LEMMA SettingAgrees ==
  ASSUME ConfigInv, NEW name \in Global, NEW value \in Value, SetGlobal(name, value)
  PROVE  ConfigInv' /\ AnswersAgree'
<1> DEFINE done == Says("updated", name, value)
<1>1. running /\ left \in Histories /\ name \in Key
  BY DEF SetGlobal, ConfigInv, TypeOK, Histories, Texts, Key
<1>2. PICK doc \in Seen :
        \/ /\ Named(doc, name) = {}
           /\ Update(WithGlobal(doc, name, value), name, value, done)
        \/ Dies
        \/ /\ GetGlobal(doc, name) # None
           /\ Update(Replaced(doc, name, value), name, value, done)
        \/ Answer(Says("internal error", name, None))
  BY DEF SetGlobal
<1>3. doc \in Document /\ Agrees(doc, left)
  BY <1>1, SeenAgrees
<1>4. Silent("updated") /\ Silent("internal error")
  BY DEF Silent
<1>5. CASE /\ Named(doc, name) = {}
           /\ Update(WithGlobal(doc, name, value), name, value, done)
  <2>1. /\ WithGlobal(doc, name, value) \in Document
        /\ Agrees(WithGlobal(doc, name, value), [left EXCEPT ![name] = {value}])
    BY <1>1, <1>3, <1>5, AddingAGlobal
  <2>2. value \in Texts
    BY DEF Texts
  <2> QED
    BY <1>1, <1>4, <1>5, <2>1, <2>2, UpdateAgrees
<1>6. CASE /\ GetGlobal(doc, name) # None
           /\ Update(Replaced(doc, name, value), name, value, done)
  <2>1. /\ Replaced(doc, name, value) \in Document
        /\ Agrees(Replaced(doc, name, value), [left EXCEPT ![name] = {value}])
    BY <1>1, <1>3, <1>6, ReplacingAGlobal
  <2>2. value \in Texts
    BY DEF Texts
  <2> QED
    BY <1>1, <1>4, <1>6, <2>1, <2>2, UpdateAgrees
<1> QED
  BY <1>2, <1>4, <1>5, <1>6, DeathAgrees, SilentAnswer

LEMMA DeletingAgrees ==
  ASSUME ConfigInv, NEW name \in Global, DelGlobal(name)
  PROVE  ConfigInv' /\ AnswersAgree'
<1> DEFINE new(doc) == [doc EXCEPT !.globals = RemoveAt(@, First(Named(doc, name)))]
           known(doc) == IF GetGlobal(doc, name) # None THEN None ELSE Unknown
<1>1. running /\ left \in Histories /\ name \in Key
  BY DEF DelGlobal, ConfigInv, TypeOK, Histories, Texts, Key
<1>2. PICK doc \in Seen :
        \/ Answer(Says("no such global", name, None))
        \/ /\ Named(doc, name) # {}
           /\ Update(new(doc), name, known(doc), Says("deleted", name, None))
  BY DEF DelGlobal
<1>3. doc \in Document /\ Agrees(doc, left)
  BY <1>1, SeenAgrees
<1>4. Silent("no such global") /\ Silent("deleted")
  BY DEF Silent
<1>5. CASE /\ Named(doc, name) # {}
           /\ Update(new(doc), name, known(doc), Says("deleted", name, None))
  <2>1. new(doc) \in Document /\ Agrees(new(doc), [left EXCEPT ![name] = {known(doc)}])
    BY <1>1, <1>3, <1>5, DeletingAGlobal
  <2>2. known(doc) \in Texts
    BY DEF Texts
  <2> HIDE DEF new, known
  <2> QED
    BY <1>1, <1>4, <1>5, <2>1, <2>2, UpdateAgrees
<1> QED
  BY <1>2, <1>4, <1>5, SilentAnswer

LEMMA UploadingARuleAgrees ==
  ASSUME ConfigInv, NEW arg \in Guid \cup {NoGuid, TooMany}, NEW text \in RuleText,
         SetRule(arg, text)
  PROVE  ConfigInv' /\ AnswersAgree'
<1>1. running /\ left \in Histories
  BY DEF SetRule, ConfigInv, TypeOK, Histories, Texts
<1>2. PICK doc \in Seen :
        \/ Answer(Says("syntax error", None, None))
        \/ Answer(Says("internal error", None, None))
        \/ \E guid \in NewId(doc, arg, text) :
             /\ ReuseGuids \/ WithGuid(doc, guid) = {}
             /\ Update(Appended(doc, guid, text.body), guid, text.body,
                       Says("uploaded", guid, text.body))
  BY DEF SetRule
<1>3. doc \in Document /\ Agrees(doc, left)
  BY <1>1, SeenAgrees
<1>4. Silent("syntax error") /\ Silent("internal error") /\ Silent("uploaded")
  BY DEF Silent
<1>5. ASSUME NEW guid \in NewId(doc, arg, text), ReuseGuids \/ WithGuid(doc, guid) = {},
             Update(Appended(doc, guid, text.body), guid, text.body,
                    Says("uploaded", guid, text.body))
      PROVE  ConfigInv' /\ AnswersAgree'
  <2>1. guid \in Guid /\ guid \in Key
    BY DEF NewId, Key
  <2>2. text.body \in Body /\ text.body \in Texts
    BY DEF RuleText, Texts
  <2>3. FreshGuids => WithGuid(doc, guid) = {}
    BY <1>5 DEF FreshGuids
  <2>4. /\ Appended(doc, guid, text.body) \in Document
        /\ Agrees(Appended(doc, guid, text.body), [left EXCEPT ![guid] = {text.body}])
    BY <1>1, <1>3, <2>1, <2>2, <2>3, AddingARule
  <2> QED
    BY <1>1, <1>4, <1>5, <2>1, <2>2, <2>4, UpdateAgrees
<1> QED
  BY <1>2, <1>4, <1>5, SilentAnswer

LEMMA DeletingARuleAgrees ==
  ASSUME ConfigInv, NEW guid \in Guid, DelRule(guid)
  PROVE  ConfigInv' /\ AnswersAgree'
<1> DEFINE new(doc) == [doc EXCEPT !.rules = RemoveAt(@, First(WithGuid(doc, guid)))]
           known(doc) == IF Cardinality(WithGuid(doc, guid)) = 1 THEN None ELSE Unknown
<1>1. running /\ left \in Histories /\ guid \in Key
  BY DEF DelRule, ConfigInv, TypeOK, Histories, Texts, Key
<1>2. PICK doc \in Seen :
        \/ Answer(Says("no such rule", guid, None))
        \/ /\ WithGuid(doc, guid) # {}
           /\ Update(new(doc), guid, known(doc), Says("rule deleted", guid, None))
  BY DEF DelRule
<1>3. doc \in Document /\ Agrees(doc, left)
  BY <1>1, SeenAgrees
<1>4. Silent("no such rule") /\ Silent("rule deleted")
  BY DEF Silent
<1>5. CASE /\ WithGuid(doc, guid) # {}
           /\ Update(new(doc), guid, known(doc), Says("rule deleted", guid, None))
  <2>1. new(doc) \in Document /\ Agrees(new(doc), [left EXCEPT ![guid] = {known(doc)}])
    BY <1>1, <1>3, <1>5, DeletingARule
  <2>2. known(doc) \in Texts
    BY DEF Texts
  <2> HIDE DEF new, known
  <2> QED
    BY <1>1, <1>4, <1>5, <2>1, <2>2, UpdateAgrees
<1> QED
  BY <1>2, <1>4, <1>5, SilentAnswer

LEMMA ReplacingAllAgrees ==
  ASSUME ConfigInv, NEW new \in Upload, PutConfigXml(new)
  PROVE  ConfigInv' /\ AnswersAgree'
<1>1. CASE new.timeouts > 1
  BY <1>1, DeathAgrees DEF PutConfigXml
<1>2. CASE ~(new.timeouts > 1)
  <2>1. /\ rootConfig' = new /\ freed' = TRUE /\ file' = file
        /\ running /\ running' = running
        /\ left' = [k \in Key |-> {Unknown}]
        /\ reply' = Says("document uploaded", None, None)
    BY <1>2 DEF PutConfigXml
  <2>2. Silent("document uploaded")
    BY DEF Silent
  <2>3. AnswersAgree'
    BY <2>1, <2>2, SilentAgrees
  <2>4. new \in Document /\ new # NoDocument
    BY ConfigConstants, DocumentIsSome
  <2>5. \A k \in Key : left'[k] = {Unknown}
    BY <2>1
  <2>6. Agrees(rootConfig, left)' /\ Agrees(file, left)'
    <3>1. Agrees(rootConfig', left') /\ Agrees(file', left')
      BY <2>5, NothingKnownAgrees
    <3> QED
      BY <3>1 DEF Agrees, GlobalsAgree, RulesAgree, GlobalIs, RuleIs, Named, WithGuid
  <2>7. TypeOK'
    BY <2>1, <2>4 DEF ConfigInv, TypeOK
  <2> QED
    BY <2>1, <2>3, <2>5, <2>6, <2>7 DEF ConfigInv
<1> QED
  BY <1>1, <1>2

LEMMA StartAgrees ==
  ASSUME ConfigInv, Start
  PROVE  ConfigInv' /\ AnswersAgree'
<1>1. Silent("none")
  BY DEF Silent
<1>2. AnswersAgree'
  BY <1>1, SilentAgrees DEF Start
<1>3. TypeOK'
  BY DocumentIsSome DEF Start, ConfigInv, TypeOK
<1>4. file' = file /\ left' = left /\ freed' = freed /\ ~running
  BY DEF Start
<1>5. running' => Startable(file) /\ rootConfig' = file
  BY <1>4 DEF Start
<1>6. Agrees(file, left)'
  BY <1>4, AgreesPrimed DEF ConfigInv
<1>7. running' => Agrees(rootConfig, left)'
  BY <1>4, <1>5, AgreesPrimed DEF ConfigInv
<1> QED
  BY <1>2, <1>3, <1>4, <1>6, <1>7 DEF ConfigInv

LEMMA StepAgrees ==
  ASSUME ConfigInv, AnswersAgree, [Next]_vars
  PROVE  ConfigInv' /\ AnswersAgree'
<1>1. CASE Start
  BY <1>1, StartAgrees
<1>2. CASE Dies
  BY <1>2, DeathAgrees
<1>4. ASSUME NEW name \in Global, NEW value \in Value, SetGlobal(name, value)
      PROVE  ConfigInv' /\ AnswersAgree'
  BY <1>4, SettingAgrees
<1>5. ASSUME NEW name \in Global, DelGlobal(name)
      PROVE  ConfigInv' /\ AnswersAgree'
  BY <1>5, DeletingAgrees
<1>6. ASSUME NEW name \in Global, AskGlobal(name)
      PROVE  ConfigInv' /\ AnswersAgree'
  BY <1>6, GlobalAnswerAgrees DEF AskGlobal
<1>7. ASSUME NEW guid \in Guid, DelRule(guid)
      PROVE  ConfigInv' /\ AnswersAgree'
  BY <1>7, DeletingARuleAgrees
<1>8. ASSUME NEW guid \in Guid, AskRule(guid)
      PROVE  ConfigInv' /\ AnswersAgree'
  BY <1>8, RuleAnswerAgrees DEF AskRule
<1>9. ASSUME NEW arg \in Guid \cup {NoGuid, TooMany}, NEW text \in RuleText, SetRule(arg, text)
      PROVE  ConfigInv' /\ AnswersAgree'
  BY <1>9, UploadingARuleAgrees
<1>10. ASSUME NEW new \in Upload, PutConfigXml(new)
       PROVE  ConfigInv' /\ AnswersAgree'
  BY <1>10, ReplacingAllAgrees
<1>11. CASE PutGarbage
  <2>1. Silent("syntax error")
    BY DEF Silent
  <2> QED
    BY <1>11, <2>1, SilentAnswer DEF PutGarbage
<1>12. CASE GetConfigXml
  <2>1. Silent("document")
    BY DEF Silent
  <2> QED
    BY <1>12, <2>1, SilentAnswer DEF GetConfigXml
<1>13. CASE ListGlobals
  BY <1>13, GlobalListAgrees
<1>14. CASE ListRules
  BY <1>14, RuleListAgrees
<1>15. CASE UNCHANGED vars
  <2>1. ConfigInv'
    BY <1>15 DEF vars, ConfigInv, TypeOK, Agrees, GlobalsAgree, RulesAgree, GlobalIs, RuleIs,
                 Named, WithGuid, Startable
  <2>2. AnswersAgree'
    BY <1>15 DEF vars, AnswersAgree, GlobalsAreKept, RulesAreKept
  <2> QED
    BY <2>1, <2>2
<1> QED
  BY <1>1, <1>2, <1>4, <1>5, <1>6, <1>7, <1>8, <1>9, <1>10, <1>11, <1>12, <1>13,
     <1>14, <1>15
  DEF Next

LEMMA ConfigInvariant == Spec => [](ConfigInv /\ AnswersAgree)
<1>1. Init => ConfigInv /\ AnswersAgree
  <2> SUFFICES ASSUME Init PROVE ConfigInv /\ AnswersAgree
    OBVIOUS
  <2>1. AnswersAgree
    BY DEF Init, AnswersAgree, GlobalsAreKept, RulesAreKept, Says
  <2>2. TypeOK
    BY ConfigConstants, DocumentIsSome DEF Init, TypeOK
  <2>3. Agrees(file, left)
    BY NothingKnownAgrees DEF Init
  <2> QED
    BY <2>1, <2>2, <2>3 DEF Init, ConfigInv
<1>2. ConfigInv /\ AnswersAgree /\ [Next]_vars => (ConfigInv /\ AnswersAgree)'
  BY StepAgrees
<1> QED
  BY <1>1, <1>2, PTL DEF Spec

(* The document in memory and that on file stay documents, a daemon runs   *)
(* exactly when it has one, and something is recorded of every global and  *)
(* rule.                                                                   *)
THEOREM ConfigurationIsTyped == Spec => []TypeOK
<1>1. ConfigInv /\ AnswersAgree => TypeOK
  BY DEF ConfigInv
<1> QED
  BY <1>1, ConfigInvariant, PTL

(* SETGLOBAL, DELGLOBAL, GETGLOBAL and LISTGLOBALS: a client that is told  *)
(* the value of a global, or the list of all, is told what the last change *)
(* acknowledged left, over any number of restarts.  The global is missing  *)
(* or spoilt only if a save since then was cut short or wrote a mark, and  *)
(* an older value never comes back.                                        *)
THEOREM GlobalsSurvive == Spec => []GlobalsAreKept
<1>1. ConfigInv /\ AnswersAgree => GlobalsAreKept
  BY DEF AnswersAgree
<1> QED
  BY <1>1, ConfigInvariant, PTL

(* SETRULE, DELRULE, GETRULE and LISTRULES: the same of rules, while no    *)
(* client sends a rule with the guid of one that is there.                 *)
THEOREM RulesSurvive ==
  ASSUME FreshGuids
  PROVE  Spec => []RulesAreKept
<1>1. ConfigInv /\ AnswersAgree => RulesAreKept
  BY DEF AnswersAgree
<1> QED
  BY <1>1, ConfigInvariant, PTL
=============================================================================
