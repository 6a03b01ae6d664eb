----------------------------- MODULE RuleEngine -----------------------------
(* The rule engine of the HAL (xPLHal_rules.c): which determinators of the *)
(* configuration a time event selects, whether their conditions hold and   *)
(* which of their actions are carried out, in which order.                 *)
(*                                                                         *)
(* A determinator is a record of its match attribute, its conditions and   *)
(* its actions, the last two in document order.  Texts the code converts   *)
(* are sequences: a time is the sequence of its characters less '0', as    *)
(* timeStr2int sees them, an operator the sequence of its characters, a    *)
(* dow attribute the sequence of its flags.                                *)
EXTENDS Integers, Sequences, SequencesExt, FiniteSetsExt

CONSTANTS
  Grouping,        \* does the XML library evaluate (..), not() and && ?
  MinuteSeconds,   \* 60
  HourMinutes,     \* 60
  DayHours         \* 24

ASSUME RuleConstants ==
  /\ Grouping \in BOOLEAN
  /\ {MinuteSeconds, HourMinutes, DayHours} \subseteq Nat \ {0}

DayMinutes == HourMinutes * DayHours

(* What localtime makes of a time_t: the fields the conditions look at.    *)
MinuteOf(t) == (t \div MinuteSeconds) % DayMinutes
DayOf(t) == t \div (MinuteSeconds * DayMinutes)
WeekDay(t) == (DayOf(t) + 4) % 7
MonthDay(t) == (DayOf(t) % 31) + 1

(* The entries of a list that are in a set, in their order.                *)
Selected(list, kept) ==
  FoldLeft(LAMBDA sofar, e : IF e \in kept THEN Append(sofar, e) ELSE sofar, << >>, list)

-----------------------------------------------------------------------------
(* Selection.  The predicates are written not(./input/globalChanged) &&    *)
(* (./input/kind).  A library that evaluates them answers as the comments  *)
(* above the queries say.  The bundled one knows neither not() nor && nor  *)
(* parentheses: it reads everything up to the bracket as one path, whose   *)
(* first step is a child named "not(.", and no determinator has one.       *)
Children == {"input", "output"}

HasCondition(rule, kind) ==
  \E i \in DOMAIN rule.conditions : rule.conditions[i].kind = kind

Satisfies(rule, kind) ==
  IF Grouping
    THEN ~HasCondition(rule, "globalChanged") /\ HasCondition(rule, kind)
    ELSE "not(." \in Children

(* roxml_xpath: the determinators found, in document order.                *)
Select(document, match, kind) ==
  Selected(document, {rule \in ToSet(document) : rule.match = match /\ Satisfies(rule, kind)})

-----------------------------------------------------------------------------
(* Conditions.                                                             *)
FieldOf(digits) == FoldLeft(LAMBDA n, c : 10 * n + c, 0, digits)

(* Digits before the first other character are hours, all later ones       *)
(* minutes.                                                                *)
TimeStr2int(str) ==
  LET other == {i \in DOMAIN str : str[i] > 9}
      hours == IF other = {} THEN Len(str) ELSE Min(other) - 1
      digits == SelectSeq(SubSeq(str, hours + 1, Len(str)), LAMBDA c : c <= 9)
  IN FieldOf(SubSeq(str, 1, hours)) * HourMinutes + FieldOf(digits)

(* The operator is looked at one character at a time: plain, or escaped as *)
(* the file has it.  An escaped ">=" is not true of equal values, and "!=" *)
(* is true of none.                                                        *)
CompareClockStrings(v1, op, v2) ==
  LET At(i) == IF i <= Len(op) THEN op[i] ELSE ""
      Escaped(c) == \/ At(1) = "&" /\ At(2) = c
                    \/ At(2) = "&" /\ At(3) = c
  IN \/ v1 = v2 /\ At(1) # "!" /\ "=" \in {At(1), At(2)}
     \/ v1 > v2 /\ (Escaped("g") \/ At(1) = ">")
     \/ v1 < v2 /\ (Escaped("l") \/ At(1) = "<")

TimeConditionHolds(c, t) ==
  \/ c.category = "time"
       /\ CompareClockStrings(MinuteOf(t), c.operator, TimeStr2int(c.value))
  \/ c.category = "day"
       /\ CompareClockStrings(MonthDay(t), c.operator, FieldOf(c.value))

(* The library counts the end of the text in its size, so that the flags   *)
(* are looked at only when there are six of them.                          *)
DayConditionHolds(c, t) ==
  /\ Len(c.dow) + 1 = 7
  /\ WeekDay(t) + 1 \in DOMAIN c.dow
  /\ c.dow[WeekDay(t) + 1] = 1

(* The loops with ANY_RULE: they end at the first condition that holds.    *)
VerifTimeConditions(rule, t) ==
  \E c \in ToSet(rule.conditions) :
    c.kind = "timeCondition" /\ TimeConditionHolds(c, t)

VerifDayConditions(rule, t) ==
  \E c \in ToSet(rule.conditions) :
    c.kind = "dayCondition" /\ DayConditionHolds(c, t)

VerifAllConditions(rule) == FALSE

-----------------------------------------------------------------------------
(* Actions.  Only logAction and xplAction do something, and an xplAction   *)
(* of unknown type is passed over.                                         *)
IsDone(action) ==
  \/ action.name = "logAction"
  \/ action.name = "xplAction" /\ action.type \in {"stat", "trig", "cmnd"}

(* qsort: any permutation that sortOrderAction finds sorted.               *)
Sorted(actions) ==
  {p \in SetToSeqs(DOMAIN actions) :
     \A i, j \in DOMAIN p : i < j => actions[p[i]].order <= actions[p[j]].order}

(* An unknown message type ends the loop instead of this action.           *)
WrongExecuteActions(rule) ==
  LET Stops(i) == ~IsDone(rule.actions[i]) /\ rule.actions[i].name = "xplAction"
      Before(p) == {k \in DOMAIN p : \A n \in 1..k : ~Stops(p[n])}
  IN {SelectSeq(SubSeq(p, 1, Max(Before(p) \cup {0})),
                LAMBDA i : IsDone(rule.actions[i])) : p \in Sorted(rule.actions)}

(* What rules_executeActions may do: the positions of the actions done.    *)
ExecuteActions(rule) ==
  LET able == {i \in DOMAIN rule.actions : IsDone(rule.actions[i])}
  IN  {Selected(p, able) : p \in Sorted(rule.actions)}

(* compute_ev_time: the rules one tick executes, in order; a rule with     *)
(* conditions of both kinds that hold is executed twice.                   *)
ExecutedBy(document, t) ==
  LET rules == ToSet(document)
  IN     Selected(Select(document, "any", "timeCondition"),
                  {rule \in rules : VerifTimeConditions(rule, t)})
      \o Selected(Select(document, "any", "dayCondition"),
                  {rule \in rules : VerifDayConditions(rule, t)})
      \o Selected(Select(document, "all", "timeCondition"),
                  {rule \in rules : VerifAllConditions(rule)})

(* The entries one execution of a rule adds to what is logged and sent.    *)
Entries(rule) ==
  {[k \in DOMAIN done |-> [rule |-> rule, action |-> done[k]]] :
     done \in ExecuteActions(rule)}

(* What a tick may log and send.                                           *)
ComputeEvTime(document, t) ==
  FoldLeft(LAMBDA sofar, rule : {s \o e : s \in sofar, e \in Entries(rule)},
           {<< >>}, ExecutedBy(document, t))
=============================================================================
