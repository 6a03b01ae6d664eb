----------------------------- MODULE NamedValues -----------------------------
(* The lists of named values of xPLLib (src/xPLLib/xPL-utils.c), which are *)
(* the bodies of messages.  Names are compared ignoring case, so that a    *)
(* name stands for all its spellings.                                      *)
EXTENDS SequencesExt

Pair(name, value) == [name |-> name, value |-> value, binary |-> FALSE]

(* xPL_addNamedValue: behind the others, of which one may have that name.  *)
AddNamedValue(list, name, value) == Append(list, Pair(name, value))

(* xPL_getNamedValueIndex: the first of that name, 0 if there is none.     *)
NameIndex(list, name) == SelectInSeq(list, LAMBDA p : p.name = name)

(* Added also where there is one of that name.                             *)
WrongSetNamedValue(list, name, value) == AddNamedValue(list, name, value)

(* xPL_setNamedValue.                                                      *)
SetNamedValue(list, name, value) ==
  IF NameIndex(list, name) = 0
    THEN AddNamedValue(list, name, value)
    ELSE ReplaceAt(list, NameIndex(list, name), Pair(name, value))

(* xPL_getNamedValue, with no difference between a pair that is missing    *)
(* and one that is binary.                                                 *)
HasValue(list, name) ==
  NameIndex(list, name) # 0 /\ ~list[NameIndex(list, name)].binary

NamedValue(list, name) == list[NameIndex(list, name)].value
=============================================================================
