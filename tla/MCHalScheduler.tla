--------------------------- MODULE MCHalScheduler ---------------------------
(* A small instance of HalScheduler for TLC: minutes of four seconds, days *)
(* of two hours of two minutes.  Every character is written less '0', so   *)
(* that 10 stands for the colon.                                           *)
EXTENDS HalScheduler

Time(op, value) == [kind |-> "timeCondition", category |-> "time",
                    operator |-> op, value |-> value]
Day(flags) == [kind |-> "dayCondition", dow |-> flags]
Log(order) == [name |-> "logAction", order |-> order, type |-> ""]
Xpl(order, type) == [name |-> "xplAction", order |-> order, type |-> type]
Global(order) == [name |-> "globalAction", order |-> order, type |-> ""]

At == [name |-> "at", match |-> "any",
       conditions |-> <<Time(<<"=">>, <<0, 1, 10, 0, 0>>)>>,
       actions |-> <<Xpl(2, "trig"), Log(1), Xpl(1, "what"), Log(10)>>]

(* Two conditions, one of them escaped, one past the end of the day.       *)
From == [name |-> "from", match |-> "any",
         conditions |-> <<Time(<<"=">>, <<9, 10, 0>>),
                          Time(<<"&", "g", "t", ";">>, <<1, 10, 0>>),
                          Day(<<1, 0, 1, 1, 1, 0>>)>>,
         actions |-> <<Log(0), Global(0), Xpl(0, "stat")>>]

WholeWeek == [name |-> "week", match |-> "any",
              conditions |-> <<Day(<<1, 1, 1, 1, 1, 1, 1>>)>>,
              actions |-> <<Log(0)>>]

Every == [name |-> "all", match |-> "all",
          conditions |-> <<Time(<<"<">>, <<1, 10, 1>>)>>,
          actions |-> <<Xpl(0, "cmnd")>>]

Changed == [name |-> "changed", match |-> "any",
            conditions |-> <<Time(<<"<">>, <<1, 10, 1>>), [kind |-> "globalChanged"]>>,
            actions |-> <<Log(0)>>]

Clocking(enabled, clock, sched) ==
  [enabled |-> enabled, clockInterval |-> clock, schedInterval |-> sched]

(* As installed; a clock that is off and no usable interval; two elements  *)
(* for the tick, with which the daemon does not come up.                   *)
MCDocuments ==
  {[rules |-> <<At, WholeWeek, From, Every>>, clocking |-> Clocking(<<"ON">>, <<3>>, <<2>>)],
   [rules |-> <<Changed, At>>, clocking |-> Clocking(<< >>, <<0>>, <<-1>>)],
   [rules |-> <<From>>, clocking |-> Clocking(<<"1">>, <<3>>, <<2, 2>>)]}
=============================================================================
