----------------------------- MODULE MCHalConfig -----------------------------
(* Small instances of HalConfig for TLC: a value too long for its answer,  *)
(* a value and a rule with a mark inside.                                  *)
EXTENDS HalConfig

CONSTANTS plain, long, quoted, rule, other

Values == {plain, long, quoted}
Shorter == [v \in Values |-> IF v = long THEN plain ELSE v]
Bodies == {rule, other}
Marks == {quoted, other}

Installed ==
  [globals |-> << >>, hasGlobals |-> TRUE, rules |-> << >>, lists |-> 1,
   clocking |-> TRUE, timeouts |-> 1]

(* One variable twice; no place for globals and rules; no clock intervals; *)
(* two time-outs.                                                          *)
Uploads ==
  {[Installed EXCEPT !.globals = <<[name |-> g, value |-> plain],
                                   [name |-> g, value |-> long]>>] : g \in Global}
  \cup {[Installed EXCEPT !.hasGlobals = FALSE, !.lists = 0],
        [Installed EXCEPT !.clocking = FALSE],
        [Installed EXCEPT !.timeouts = 2]}

(* Globals may change names with each other, rules guids.                  *)
Alike == Permutations(Global) \cup Permutations(Guid)
=============================================================================
