---------------------------- MODULE ServiceConfig ----------------------------
(***************************************************************************)
(* The configuration of a service of xPLLib (src/xPLLib/xPL-config.c): its *)
(* instance ID, heartbeat interval, filters, groups and configurable       *)
(* items, the messages that report them, the config.response that replaces *)
(* them and the file that keeps them.                                      *)
(*                                                                         *)
(* A message body and the lines of the file are the same thing, a sequence *)
(* of pairs; installNewConfig reads both.                                  *)
(***************************************************************************)
EXTENDS XplMessage

CONSTANT Builtin   \* the names parseConfigDefinition takes for built in

Wild == <<"*">>

(* The value of a pair that has none.                                      *)
Missing == << >>

NewItem(name, kind, max) ==
  [name |-> name, kind |-> kind, max |-> IF max < 1 THEN 1 ELSE max, values |-> << >>]

Unset(name, interval) ==
  [name |-> name, interval |-> interval, filters |-> << >>, groups |-> << >>,
   items |-> << >>, configured |-> FALSE]

-----------------------------------------------------------------------------
(* A filter: a message type and five fields, Wild where it does not care.  *)

(* formatFilter.                                                           *)
FormatFilter(f) ==
  <<IF f.type = "any" THEN "*" ELSE CHOOSE w \in DOMAIN Kinds : Kinds[w] = f.type>>
    \o FlattenSeq([i \in 1..5 |-> <<".">> \o f.fields[i]])

Dots(text) == SetToSortSeq({i \in DOMAIN text : text[i] = "."}, <)

IsFilter(text) ==
  /\ Len(Dots(text)) >= 5
  /\ Head(text) \in {"*"} \cup DOMAIN Kinds

(* parseFilter: the last field takes what is left, dots and all; a field   *)
(* that begins with a star is a wildcard.                                  *)
ParseFilter(text) ==
  LET dots == Dots(text)
      Field(i) == SubSeq(text, dots[i] + 1, IF i = 5 THEN Len(text) ELSE dots[i + 1] - 1)
  IN  [type |-> IF Head(text) = "*" THEN "any" ELSE Kinds[Head(text)],
       fields |-> [i \in 1..5 |->
                     IF Field(i) # << >> /\ Head(Field(i)) = "*" THEN Wild ELSE Field(i)]]

(* doesFilterMatch of xPL-service.c.                                       *)
DoesFilterMatch(f, type, fields) ==
  /\ f.type \in {"any", type}
  /\ \A i \in 1..5 : f.fields[i] \in {Wild, fields[i]}

-----------------------------------------------------------------------------
(* The configurable items.                                                 *)

FindServiceConfigurable(st, name) == SelectInSeq(st.items, LAMBDA it : it.name = name)

AddServiceConfigurable(st, name, kind, max) ==
  IF FindServiceConfigurable(st, name) # 0
    THEN st
    ELSE [st EXCEPT !.items = Append(@, NewItem(name, kind, max))]

RemoveServiceConfigurable(st, name) ==
  LET k == FindServiceConfigurable(st, name) IN
  IF k = 0 THEN st ELSE [st EXCEPT !.items = RemoveAt(@, k)]

ClearAllServiceConfigValues(st) ==
  [st EXCEPT !.items = [i \in DOMAIN @ |-> [@[i] EXCEPT !.values = << >>]]]

(* The limit of the item is not respected.                                 *)
WrongAddServiceConfigValue(st, name, value) ==
  LET k == FindServiceConfigurable(st, name) IN
  IF k = 0 THEN st ELSE [st EXCEPT !.items[k].values = Append(@, value)]

(* A value that has no item, or whose item is full, is dropped.            *)
AddServiceConfigValue(st, name, value) ==
  LET k == FindServiceConfigurable(st, name) IN
  IF k = 0 \/ Len(st.items[k].values) >= st.items[k].max
    THEN st
    ELSE [st EXCEPT !.items[k].values = Append(@, value)]

(* An index behind the last value appends.                                 *)
SetServiceConfigValueAt(st, name, index, value) ==
  LET k == FindServiceConfigurable(st, name) IN
  IF k # 0 /\ index <= Len(st.items[k].values)
    THEN [st EXCEPT !.items[k].values[index] = value]
    ELSE AddServiceConfigValue(st, name, value)

-----------------------------------------------------------------------------
(* parseConfigDefinition: name, or name[count].                            *)

NumberOf(text) == IF text = << >> THEN 0 ELSE Numeral[text[1]]

IsNumber(text) == text # << >> => Len(text) = 1 /\ text[1] \in DOMAIN Numeral

DefinedName(text) ==
  LET open == IndexOfMark(text, "[") IN
  IF open = 0 THEN text ELSE SubSeq(text, 1, open - 1)

(* What stands behind the bracket, up to the first that is no number.      *)
CountText(text) ==
  LET open == IndexOfMark(text, "[") IN
  IF open < Len(text) /\ text[open + 1] \in DOMAIN Numeral THEN <<text[open + 1]>> ELSE << >>

IsDefinition(text) ==
  LET open == IndexOfMark(text, "[")
      end  == open + Len(CountText(text)) + 1
  IN  open # 0 => end <= Len(text) /\ text[end] = "]"

Defined(st, text, kind) ==
  IF ~IsDefinition(text) \/ DefinedName(text) \in Builtin
    THEN st
    ELSE AddServiceConfigurable(st, DefinedName(text), kind,
           IF IndexOfMark(text, "[") = 0 THEN 1 ELSE NumberOf(CountText(text)))

-----------------------------------------------------------------------------
(* installNewConfig.                                                       *)

NoInterval == -1

Definitions == {<<"config">>, <<"reconf">>, <<"option">>}

Installing(st) ==
  [st |-> ClearAllServiceConfigValues(st), name |-> NULL, interval |-> NoInterval,
   restart |-> FALSE, filters |-> FALSE, groups |-> FALSE]

(* An interval in minutes; the one the service has counts as none.         *)
WithInterval(acc, value) ==
  CASE ~IsNumber(value) -> acc
    [] IsNumber(value) /\ NumberOf(value) * 60 = acc.st.interval ->
         [acc EXCEPT !.interval = NoInterval]
    [] OTHER -> [acc EXCEPT !.interval = NumberOf(value) * 60, !.restart = TRUE]

ClearServiceFilters(st) == [st EXCEPT !.filters = << >>]

ClearServiceGroups(st) == [st EXCEPT !.groups = << >>]

(* The first filter of a response empties the list, an empty one does no   *)
(* more than that.                                                         *)
WithFilter(acc, value) ==
  LET st == IF acc.filters THEN acc.st ELSE ClearServiceFilters(acc.st) IN
  [acc EXCEPT !.filters = TRUE,
              !.st = IF value # << >> /\ IsFilter(value)
                       THEN [st EXCEPT !.filters = Append(@, ParseFilter(value))] ELSE st]

WithGroup(acc, value) ==
  LET st == IF acc.groups THEN acc.st ELSE ClearServiceGroups(acc.st) IN
  [acc EXCEPT !.groups = TRUE,
              !.st = IF value # << >> THEN [st EXCEPT !.groups = Append(@, value)] ELSE st]

Element(acc, line, allowDefinitions) ==
  CASE line.name \in Definitions ->
         IF allowDefinitions
           THEN [acc EXCEPT !.st = Defined(@, line.value, line.name[1])] ELSE acc
    [] line.name = <<"newconf">> ->
         IF line.value = acc.st.name
           THEN acc ELSE [acc EXCEPT !.name = line.value, !.restart = TRUE]
    [] line.name = <<"interval">> -> WithInterval(acc, line.value)
    [] line.name = <<"filter">>   -> WithFilter(acc, line.value)
    [] line.name = <<"group">>    -> WithGroup(acc, line.value)
    [] OTHER -> [acc EXCEPT !.st = AddServiceConfigValue(@, line.name, line.value)]

Elements(st, lines, allowDefinitions) ==
  FoldLeft(LAMBDA acc, line : Element(acc, line, allowDefinitions), Installing(st), lines)

Install(st, lines, allowDefinitions) ==
  LET acc == Elements(st, lines, allowDefinitions) IN
  [acc.st EXCEPT !.name = IF acc.name = NULL THEN @ ELSE acc.name,
                 !.interval = IF acc.interval = NoInterval THEN @ ELSE acc.interval,
                 !.configured = TRUE]

(* Does the service have to be stopped and started again?                  *)
Restarts(st, lines) == Elements(st, lines, FALSE).restart

-----------------------------------------------------------------------------
(* The messages and the file.                                              *)

NumberText(n) == <<CHOOSE w \in DOMAIN Numeral : Numeral[w] = n>>

BuiltinDefinitions ==
  <<Pair(<<"reconf">>, <<"newconf">>), Pair(<<"reconf">>, <<"interval">>),
    Pair(<<"option">>, <<"group", "[", "255", "]">>),
    Pair(<<"option">>, <<"filter", "[", "255", "]">>)>>

(* The count is not written.                                               *)
WrongDefinition(it) == Pair(<<it.kind>>, it.name)

Definition(it) ==
  Pair(<<it.kind>>,
       IF it.max > 1 THEN it.name \o <<"[">> \o NumberText(it.max) \o <<"]">> ELSE it.name)

(* sendServiceConfigList: the name of an item with several values is       *)
(* released before it is added to the message, and is NULL by then.        *)
ConfigList(st) ==
  BuiltinDefinitions \o
  [i \in DOMAIN st.items |->
     IF st.items[i].max > 1 THEN Pair(<<st.items[i].kind>>, Missing) ELSE Definition(st.items[i])]

(* Pairs of one name, and one without a value where there are none.        *)
Listed(name, values) ==
  IF values = << >>
    THEN <<Pair(name, Missing)>>
    ELSE [i \in DOMAIN values |-> Pair(name, values[i])]

Values(st) == [i \in DOMAIN st.items |->
                 [j \in DOMAIN st.items[i].values |-> Pair(st.items[i].name, st.items[i].values[j])]]

FilterTexts(st) == [i \in DOMAIN st.filters |-> FormatFilter(st.filters[i])]

Settled(st) == <<Pair(<<"newconf">>, st.name),
                 Pair(<<"interval">>, NumberText(st.interval \div 60))>>

(* The filters are forgotten.                                              *)
WrongCurrentConfig(st) ==
  Settled(st)
    \o Listed(<<"group">>, st.groups)
    \o FlattenSeq([i \in DOMAIN st.items |-> Listed(st.items[i].name, st.items[i].values)])

(* sendServiceCurrentConfig.                                               *)
CurrentConfig(st) ==
  Settled(st)
    \o Listed(<<"group">>, st.groups)
    \o Listed(<<"filter">>, FilterTexts(st))
    \o FlattenSeq([i \in DOMAIN st.items |-> Listed(st.items[i].name, st.items[i].values)])

(* xPL_saveServiceConfig, behind its header.                               *)
SavedLines(st) ==
  BuiltinDefinitions \o [i \in DOMAIN st.items |-> Definition(st.items[i])]
    \o Settled(st)
    \o Listed(<<"filter">>, FilterTexts(st))
    \o Listed(<<"group">>, st.groups)
    \o FlattenSeq(Values(st))
=============================================================================
