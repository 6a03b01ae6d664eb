---------------------------- MODULE HalScheduler ----------------------------
(* The main loop of the HAL (xPLHal4L.c) around its timer                  *)
(* (xPLHal_scheduler.c): the clock updates it broadcasts, the internal     *)
(* ticks it dispatches to itself and the rules these run.                  *)
(*                                                                         *)
(* One turn of the loop is xpl4l_timer, XHCP_server, usleep.  Timer reads  *)
(* the second once; the turn then takes from one to MaxTurn of the         *)
(* Fractions of a second.  The settings of the timer are read from the     *)
(* document on the first turn and never again.                             *)
EXTENDS RuleEngine, NamedValues

CONSTANTS
  Documents,       \* the configurations installed or uploaded
  DefaultClock,    \* 60: for an interval of the clock that is not above 0
  DefaultSched,    \* 5: the same for the internal tick
  Fractions,       \* parts of a second the model tells apart
  MaxTurn,         \* longest turn, in fractions
  Start, Horizon   \* first and last second

(* A document, as far as the timer reads it: its rules, and what the       *)
(* attributes found say, which are three: enabled and interval of          *)
(* xplclock, interval of internal.                                         *)
Attributes ==
  [enabled : Seq(STRING), clockInterval : Seq(Int), schedInterval : Seq(Int)]

Rules == UNION {ToSet(doc.rules) : doc \in Documents}

(* The rules of a document and the actions of a rule come in lists.        *)
ASSUME DocumentConstants ==
  /\ \A doc \in Documents : doc.rules \in Seq(Rules)
  /\ \A rule \in Rules : rule.actions \in Seq(ToSet(rule.actions))

ASSUME SchedulerConstants ==
  /\ \A doc \in Documents : doc.clocking \in Attributes
  /\ {DefaultClock, DefaultSched, Fractions, MaxTurn, Start} \subseteq Nat \ {0}
  /\ Horizon \in Nat

(* A second fits into the %d that writes the epoch.                        *)
ASSUME EpochIsAnInt == Horizon <= 2147483647

VARIABLES
  now,             \* the second time() gives
  fraction,        \* how far into it
  phase,           \* the call of the turn that comes next
  rootConfig,      \* the document in memory
  timerConfig,     \* the settings of the timer
  tickMessage,     \* schedulerTickMessage: the body of the one message
  oldClockTime,    \* the second of the last clock update
  oldTickTime,     \* the second of the last internal tick
  \* history
  visited,         \* has the timer run in this second?
  updates, ticks,  \* clock updates and internal ticks of this second
  done,            \* what the last tick logged and sent
  ran,             \* rules executed in this minute
  steady,          \* rules in the document since this minute began
  due              \* has the timer run in a due second of this minute?

loop == <<now, fraction, phase, rootConfig, timerConfig>>
history == <<visited, updates, ticks, done, ran, steady, due>>
vars == <<loop, oldClockTime, oldTickTime, tickMessage, history>>

(* Of static storage: nothing is enabled, no interval set.                 *)
NotLoaded == [clockEnabled |-> FALSE, clockInterval |-> 0, schedInterval |-> 0]

Init ==
  /\ now = Start /\ fraction = 0
  /\ phase = "init"
  /\ rootConfig \in Documents
  /\ timerConfig = NotLoaded /\ tickMessage = << >>
  /\ oldClockTime = 0 /\ oldTickTime = 0
  /\ visited = FALSE /\ updates = 0 /\ ticks = 0
  /\ done = << >> /\ ran = {} /\ due = FALSE
  /\ steady = ToSet(rootConfig.rules)

-----------------------------------------------------------------------------
(* xmlGetAttribut ends the daemon unless it finds one, or none of an       *)
(* attribute that is optional.                                             *)
Quits(found, optional) == Len(found) > 1 \/ (found = << >> /\ ~optional)

(* xmlGetBoolAttribut; FALSE for an attribute that is missing.             *)
IsOn(found) == found # << >> /\ Head(found) \in {"TRUE", "1", "ON", "VRAI"}

(* An interval of 0 is taken as it is.                                     *)
WrongInterval(found, default) == IF Head(found) < 0 THEN default ELSE Head(found)

(* xmlGetIntAttribut, and the default for what is not above 0.             *)
Interval(found, default) == IF Head(found) <= 0 THEN default ELSE Head(found)

(* The first turn: timer_loadConfig.                                       *)
TimerLoadConfig ==
  /\ phase = "init"
  /\ LET found == rootConfig.clocking IN
       IF \/ Quits(found.enabled, TRUE)
          \/ Quits(found.clockInterval, FALSE)
          \/ Quits(found.schedInterval, FALSE)
         THEN phase' = "exited" /\ UNCHANGED timerConfig
         ELSE /\ phase' = "timer"
              /\ timerConfig' =
                   [clockEnabled |-> IsOn(found.enabled),
                    clockInterval |-> Interval(found.clockInterval, DefaultClock),
                    schedInterval |-> Interval(found.schedInterval, DefaultSched)]
  /\ UNCHANGED <<now, fraction, rootConfig, oldClockTime, oldTickTime, tickMessage, history>>

ClockSecond == timerConfig.clockEnabled /\ now % timerConfig.clockInterval = 0

TickSecond == now % timerConfig.schedInterval = 0

ClockIsDue == ClockSecond /\ now # oldClockTime

(* One variable for both: the clock update swallows the tick.              *)
WrongTickIsDue ==
  TickSecond /\ now \notin {oldTickTime, oldClockTime'}

TickIsDue == TickSecond /\ now # oldTickTime

(* The broadcast of clock.update.                                          *)
ClockUpdate ==
  IF ClockIsDue
    THEN oldClockTime' = now /\ updates' = updates + 1
    ELSE UNCHANGED <<oldClockTime, updates>>

(* Each field says the same second; only the epoch is read with effect.    *)
TickFields == <<"timestamp", "time", "year", "month", "date", "day", "epoch">>

(* The message of a tick is the one of the ticks before, filled in again.  *)
FilledIn(body, t) ==
  FoldLeft(LAMBDA list, field : SetNamedValue(list, field, t), body, TickFields)

(* internalMessageHandler: it runs the rules of the second it reads.       *)
InternalMessageHandler(body) ==
  LET epoch == NamedValue(body, "epoch") IN
  /\ done' \in ComputeEvTime(rootConfig.rules, epoch)
  /\ ran' = ran \cup ToSet(ExecutedBy(rootConfig.rules, epoch))

(* The internal tick goes through xPL_dispatchMessageEvent to the handler, *)
(* in the same call.                                                       *)
InternalTick ==
  IF TickIsDue
    THEN /\ tickMessage' = FilledIn(tickMessage, now)
         /\ InternalMessageHandler(tickMessage')
         /\ oldTickTime' = now
         /\ ticks' = ticks + 1
    ELSE UNCHANGED <<tickMessage, oldTickTime, ticks, done, ran>>

Timer ==
  /\ phase = "timer"
  /\ ClockUpdate
  /\ InternalTick
  /\ visited' = TRUE
  /\ due' = (due \/ TickSecond)
  /\ phase' = "server"
  /\ UNCHANGED <<now, fraction, rootConfig, timerConfig, steady>>

(* XHCP_server: most turns leave the document alone, some end an upload.   *)
Server ==
  /\ phase = "server"
  /\ phase' = "sleep"
  /\ \/ UNCHANGED <<rootConfig, steady>>
     \/ /\ rootConfig' \in Documents
        /\ steady' = steady \cap ToSet(rootConfig'.rules)
  /\ UNCHANGED <<now, fraction, timerConfig, oldClockTime, oldTickTime, tickMessage,
                 visited, updates, ticks, done, ran, due>>

MinuteNumber(t) == t \div MinuteSeconds

(* The rest of the turn, and usleep.                                       *)
Sleep ==
  /\ phase = "sleep"
  /\ phase' = "timer"
  /\ \E d \in 1..MaxTurn :
       LET f == fraction + d
       IN now' = now + f \div Fractions /\ fraction' = f % Fractions
  /\ now' <= Horizon
  /\ IF now' = now
       THEN UNCHANGED <<visited, updates, ticks>>
       ELSE visited' = FALSE /\ updates' = 0 /\ ticks' = 0
  /\ IF MinuteNumber(now') = MinuteNumber(now)
       THEN UNCHANGED <<ran, steady, due>>
       ELSE ran' = {} /\ due' = FALSE /\ steady' = ToSet(rootConfig.rules)
  /\ UNCHANGED <<rootConfig, timerConfig, oldClockTime, oldTickTime, tickMessage, done>>

Next == TimerLoadConfig \/ Timer \/ Server \/ Sleep

Spec == Init /\ [][Next]_vars

-----------------------------------------------------------------------------
(* Whatever the document says, the loop never takes a remainder by an      *)
(* interval that is not above 0.                                           *)
IntervalsArePositive ==
  phase \notin {"init", "exited"} =>
    {timerConfig.clockInterval, timerConfig.schedInterval} \subseteq Nat \ {0}

TypeOK ==
  /\ now \in Nat /\ fraction \in 0..Fractions - 1
  /\ phase \in {"init", "exited", "timer", "server", "sleep"}
  /\ rootConfig \in Documents
  /\ timerConfig.clockEnabled \in BOOLEAN
  /\ IntervalsArePositive
  /\ tickMessage = << >> \/ {p.name : p \in ToSet(tickMessage)} = ToSet(TickFields)
  /\ {oldClockTime, oldTickTime} \subseteq 0..now
  /\ visited \in BOOLEAN /\ due \in BOOLEAN
  /\ updates \in 0..1 /\ ticks \in 0..1
  /\ ran \cup steady \subseteq Rules

(* However many turns fall into a second, and whichever of the two         *)
(* intervals share it: once the loop has been round in a second, the clock *)
(* update and the internal tick due in it have each happened once, and     *)
(* none that is not due has.                                               *)
EachDueSecondTicksOnce ==
  [][now' # now /\ visited =>
       /\ ticks = IF TickSecond THEN 1 ELSE 0
       /\ updates = IF ClockSecond THEN 1 ELSE 0]_vars

(* A time rule as determinator_spec.xml describes it: any of the           *)
(* conditions has to be true.                                              *)
IsTimeRule(rule) ==
  rule.match = "any" /\ ~HasCondition(rule, "globalChanged")

(* A rule one of whose time conditions holds in a minute runs in that      *)
(* minute, if it was in the document all the while and the loop came round *)
(* in at least one of the seconds a tick is due in: between late turns,    *)
(* uploads and clock updates, compute_ev_time finds it ("Execution des     *)
(* actions", xPLHal_rules.c:463).                                          *)
DueRuleRuns ==
  [][MinuteNumber(now') # MinuteNumber(now) /\ due =>
       \A rule \in steady :
         IsTimeRule(rule) /\ VerifTimeConditions(rule, now) => rule \in ran]_vars

(* "The order in which the actions are executed is determined by the value *)
(* of the executeOrder attribute", not by the document: each time a rule   *)
(* runs, every action of it that can be done is done, none is done again   *)
(* before the others, one that cannot does not keep the others from it,    *)
(* and a later one is never of a lower order.                              *)
ActionsInOrder ==
  \A i \in DOMAIN done :
    LET rule == done[i].rule
        mine == Selected(done, {e \in ToSet(done) : e.rule = rule})
        able == {a \in DOMAIN rule.actions :
                   \/ rule.actions[a].name = "logAction"
                   \/ rule.actions[a].name = "xplAction"
                        /\ rule.actions[a].type \in {"stat", "trig", "cmnd"}}
        n == Cardinality(able)
        rounds == 0..(Len(mine) \div n - 1)
    IN /\ Len(mine) % n = 0
       /\ \A r \in rounds :
            LET round == SubSeq(mine, r * n + 1, (r + 1) * n)
            IN /\ {round[k].action : k \in 1..n} = able
               /\ \A k \in 1..n - 1 : rule.actions[round[k].action].order
                                        <= rule.actions[round[k + 1].action].order
=============================================================================
