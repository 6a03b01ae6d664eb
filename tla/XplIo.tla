------------------------------- MODULE XplIo -------------------------------
(***************************************************************************)
(* The I/O loop of xPLLib (src/xPLLib/xPL-io.c): xPL_processMessages polls *)
(* the devices of a table, runs the handlers of those that have something  *)
(* to say, and runs the timeout handlers that are due.  Handlers change    *)
(* the tables that are being walked, and may stop the library.             *)
(*                                                                         *)
(* A tick is half a second, or any other part of the longest wait, Second. *)
(* Handlers take no time; time passes while poll waits and between calls.  *)
(* What arrives while handlers run is found by the next poll, so devices   *)
(* become ready in a poll only.  An age is counted up to the interval it   *)
(* is compared with.                                                       *)
(***************************************************************************)
EXTENDS Integers, FiniteSets, SequencesExt, XplConnection

CONSTANTS
  Device,          \* file descriptors of the program
  TimeoutHandler,  \* timeout handlers of the program
  Interval,        \* the interval of each, in ticks
  Second,          \* ticks per second
  HeartbeatCheck,  \* ticks between two heartbeat checks, five seconds
  HubConfirmed,    \* xPL_isHubConfirmed
  Timeout,         \* what the program passes to xPL_processMessages, in ticks
  Effect,          \* what handlers do to the tables, see Effects
  MaxStarts        \* bound: times the program tries to start the library

xPLFD == "xPLFD"
Forever == -1

(* Handlers add devices and timeouts, remove the device they serve or stop *)
(* the library.  "remove", of anything, is what no handler of this         *)
(* repository does and LoopsStayInTheTables does not survive.              *)
Effects == {"add", "remove own device", "remove", "stop"}

ASSUME IoConstants ==
  /\ xPLFD \notin Device
  /\ Interval \in [TimeoutHandler -> Nat]
  /\ Second \in Nat \ {0} /\ HeartbeatCheck \in Nat
  /\ HubConfirmed \in BOOLEAN
  /\ Timeout \subseteq Int
  /\ Effect \subseteq Effects
  /\ MaxStarts \in Nat

VARIABLES
  net,         \* the sockets and the connection, see XplConnection
  failures,    \* history: starts that failed
  devices,     \* pollInfo[0 .. pollInfoCount-1]: descriptor and revents
  timeouts,    \* timeoutList: handler and now - lastTimedoutAt
  listeners,   \* times xPL_handleServiceMessage is among the listeners
  ready,       \* descriptors with something to read
  sinceBeat,   \* now - heartbeatCheckLastDoneAt
  sinceChecks, \* now - timeoutChecksLastDoneAt
  at,          \* where the call of xPL_processMessages is, "out" of it
  call         \* its local variables

tables == <<net, failures, devices, timeouts, listeners>>
ages == <<sinceBeat, sinceChecks>>
vars == <<tables, ages, ready, at, call>>

(* thisTimeout and what is left of it, timeoutsSoFar, timeoutDone,         *)
(* deviceIndex or timeoutIndex (from 1), activeDevices, and where the loop *)
(* over the timeout handlers returns to.                                   *)
NoCall ==
  [theTimeout |-> 0, thisTimeout |-> 0, left |-> 0, soFar |-> 0,
   timeoutDone |-> FALSE, index |-> 0, active |-> 0, return |-> "out"]

Places == {"out", "loop", "poll", "devices", "timeouts"}

started == net.bound # Closed  \* xPLFD # -1

Listed == {devices[i].fd : i \in DOMAIN devices}
Handlers == {timeouts[i].handler : i \in DOMAIN timeouts}

Aged(age, interval) == IF age < interval THEN age + 1 ELSE age

-----------------------------------------------------------------------------
Tables(n, d, t) == [net |-> n, devices |-> d, timeouts |-> t]

(* xPL_addIODevice; revents of a new entry is whatever the memory holds.   *)
AddIODevice(fd) ==
  {Tables(net, Append(devices, [fd |-> fd, revents |-> r]), timeouts) : r \in BOOLEAN}

AddTimeoutHandler(h) ==
  {Tables(net, devices, Append(timeouts, [handler |-> h, age |-> 0]))}

(* xPL_removeIODevice: the first with that descriptor.                     *)
WithoutDevice(fd) == RemoveFirstMatch(devices, LAMBDA d : d.fd = fd)

RemoveIODevice(fd) == {Tables(net, WithoutDevice(fd), timeouts)}

RemoveTimeoutHandler(h) ==
  {Tables(net, devices, RemoveFirstMatch(timeouts, LAMBDA t : t.handler = h))}

(* The library's device stays in the table.                                *)
WrongShutdown == {Tables(Disconnect(net), devices, timeouts)}

(* xPL_shutdown: the message listener stays.                               *)
Shutdown == IF started THEN {Tables(Disconnect(net), WithoutDevice(xPLFD), timeouts)} ELSE {}

(* What the program may do to the tables, outside a call or from the       *)
(* handler of device own.                                                  *)
Results(effects, own) ==
  UNION (
    {{Tables(net, devices, timeouts)}}
    \cup {AddIODevice(fd) : fd \in IF "add" \in effects THEN Device \ Listed ELSE {}}
    \cup {AddTimeoutHandler(h) :
            h \in IF "add" \in effects THEN TimeoutHandler \ Handlers ELSE {}}
    \cup {RemoveIODevice(fd) :
            fd \in Device \cap Listed \cap
                   (IF "remove" \in effects THEN Device
                    ELSE IF "remove own device" \in effects THEN {own} ELSE {})}
    \cup {RemoveTimeoutHandler(h) : h \in IF "remove" \in effects THEN Handlers ELSE {}}
    \cup {IF "stop" \in effects THEN Shutdown ELSE {}})

Becomes(new) ==
  /\ net' = new.net
  /\ devices' = new.devices
  /\ timeouts' = new.timeouts
  /\ UNCHANGED <<failures, listeners>>

-----------------------------------------------------------------------------
Init ==
  /\ net = NoConnection
  /\ failures = 0
  /\ devices = << >>
  /\ timeouts = << >>
  /\ listeners = 0
  /\ ready = {}
  /\ sinceBeat = HeartbeatCheck
  /\ sinceChecks = Second
  /\ at = "out"
  /\ call = NoCall

(* xPL_initialize: its sockets, its device and one more listener, or none  *)
(* of the latter two when the sockets cannot be had.                       *)
Initialize(theConnectType) ==
  /\ at = "out"
  /\ ~started
  /\ listeners + failures < MaxStarts
  /\ \E o \in Connect(net, theConnectType) :
       /\ net' = o.net
       /\ IF o.ok
            THEN /\ \E r \in BOOLEAN : devices' = Append(devices, [fd |-> xPLFD, revents |-> r])
                 /\ listeners' = listeners + 1
                 /\ UNCHANGED failures
            ELSE /\ failures' = failures + 1
                 /\ UNCHANGED <<devices, listeners>>
  /\ UNCHANGED <<timeouts, ages, ready, at, call>>

(* The program names the interface to use (xPL_parseCommonArgs does).      *)
ChooseInterface ==
  /\ at = "out"
  /\ \E i \in Interface : net' = SetBroadcastInterface(net, i)
  /\ UNCHANGED <<failures, devices, timeouts, listeners, ages, ready, at, call>>

(* The program changes the tables between two calls.                       *)
ProgramChangesTables ==
  /\ at = "out"
  /\ \E new \in Results(Effects, xPLFD) : Becomes(new)
  /\ ready' = ready \cap {devices'[i].fd : i \in DOMAIN devices'}
  /\ UNCHANGED <<ages, at, call>>

(* xPL_processMessages is called.                                          *)
ProcessMessages ==
  /\ at = "out"
  /\ \E t \in Timeout : call' = [NoCall EXCEPT !.theTimeout = t]
  /\ at' = "loop"
  /\ UNCHANGED <<tables, ages, ready>>

(* The wait is not cut into seconds.                                       *)
WrongThisTimeout ==
  IF call.theTimeout = Forever THEN Second
  ELSE IF call.theTimeout > 0 THEN call.theTimeout - call.soFar ELSE 0

ThisTimeout ==
  LET t == call.theTimeout IN
  CASE t = Forever -> Second
    [] t > Second -> IF call.soFar + Second > t THEN t - call.soFar ELSE Second
    [] t \in 1 .. Second -> t
    [] OTHER -> 0

Poll ==
  /\ at = "loop"
  /\ started
  /\ at' = "poll"
  /\ call' = [call EXCEPT !.thisTimeout = ThisTimeout, !.left = ThisTimeout]
  /\ UNCHANGED <<tables, ages, ready>>

(* Something arrives, or a device can be written to.                       *)
BecomesReady(fd) ==
  /\ at = "poll"
  /\ fd \in Listed \ ready
  /\ ready' = ready \cup {fd}
  /\ UNCHANGED <<tables, ages, at, call>>

(* deviceIndex starts at pollInfoCount.                                    *)
WrongLastDevice == Len(devices) + 1

LastDevice == Len(devices)

PollFindsDevices ==
  /\ at = "poll"
  /\ ready # {}
  /\ devices' = [i \in DOMAIN devices |-> [devices[i] EXCEPT !.revents = devices[i].fd \in ready]]
  /\ call' = [call EXCEPT !.soFar = 0, !.index = LastDevice,
                          !.active = Cardinality({i \in DOMAIN devices : devices[i].fd \in ready})]
  /\ at' = "devices"
  /\ UNCHANGED <<net, failures, timeouts, listeners, ages, ready>>

(* poll fails with anything but EINTR: the call returns, and leaves the    *)
(* timers alone.                                                           *)
PollFails ==
  /\ at = "poll"
  /\ at' = "out"
  /\ call' = NoCall
  /\ UNCHANGED <<tables, ages, ready>>

(* doTimeouts up to the loop of checkAllTimeoutHandlers, then on to place. *)
DoTimeouts(place, locals) ==
  /\ sinceBeat' = IF sinceBeat >= HeartbeatCheck \/ ~HubConfirmed THEN 0 ELSE sinceBeat
  /\ IF sinceChecks >= Second
       THEN /\ sinceChecks' = 0
            /\ at' = "timeouts"
            /\ call' = [locals EXCEPT !.index = Len(timeouts), !.return = place]
       ELSE /\ UNCHANGED sinceChecks
            /\ at' = place
            /\ call' = locals
  /\ UNCHANGED <<tables, ready>>

(* timeoutsSoFar, counted where it is read.                                *)
SoFar == IF call.theTimeout > Second THEN call.soFar + call.thisTimeout ELSE 0

(* A call that never waited a whole second leaves the timers alone.        *)
WrongLeave == at' = "out" /\ call' = NoCall /\ UNCHANGED <<tables, ages, ready>>

(* The end of the call.                                                    *)
Leave ==
  IF call.timeoutDone
    THEN /\ at' = "out"
         /\ call' = NoCall
         /\ UNCHANGED <<tables, ages, ready>>
    ELSE DoTimeouts("out", NoCall)

(* A wait that was cut short is taken for the whole.                       *)
WrongPollTimesOut ==
  /\ at = "poll"
  /\ ready = {} /\ call.left = 0
  /\ DoTimeouts("loop", [call EXCEPT !.timeoutDone = TRUE, !.soFar = SoFar])

PollTimesOut ==
  /\ at = "poll"
  /\ ready = {} /\ call.left = 0
  /\ IF call.thisTimeout < Second
       THEN Leave
       ELSE DoTimeouts("loop", [call EXCEPT !.timeoutDone = TRUE, !.soFar = SoFar])

LeaveStopped ==
  /\ at = "loop"
  /\ ~started
  /\ Leave

(* A device that had nothing to say.                                       *)
SkipDevice ==
  /\ at = "devices"
  /\ call.index > 0 /\ ~devices[call.index].revents
  /\ at' = IF call.index = 1 THEN "loop" ELSE "devices"
  /\ call' = [call EXCEPT !.index = @ - 1]
  /\ UNCHANGED <<tables, ages, ready>>

(* One more device than there are is counted down.                         *)
WrongActive == call.active - 1 <= 1

(* All known active devices were processed.                                *)
LastActive == call.active - 1 = 0

(* ioHandler of the device is run; it reads what there is.                 *)
DispatchDevice ==
  /\ at = "devices"
  /\ call.index > 0 /\ devices[call.index].revents
  /\ LET fd == devices[call.index].fd IN
       \E new \in Results(Effect, fd) :
         /\ Becomes(new)
         /\ ready' = (ready \ {fd}) \cap {devices'[i].fd : i \in DOMAIN devices'}
         /\ at' = IF new.net.bound = Closed \/ LastActive \/ call.index = 1 THEN "loop" ELSE "devices"
         /\ call' = [call EXCEPT !.active = @ - 1, !.index = @ - 1]
  /\ UNCHANGED ages

(* The loop ends one entry early.                                          *)
WrongLastTimeout == 1

(* checkAllTimeoutHandlers goes on while timeoutIndex >= this (from 1).    *)
LastTimeout == 0

(* The stamp is taken of the entry after the one that was run.             *)
WrongStamped(list) ==
  IF call.index + 1 \in DOMAIN list THEN [list EXCEPT ![call.index + 1].age = 0] ELSE list

(* lastTimedoutAt of the entry that now has the index.                     *)
Stamped(list) ==
  IF call.index \in DOMAIN list THEN [list EXCEPT ![call.index].age = 0] ELSE list

CheckTimeout ==
  /\ at = "timeouts"
  /\ call.index > LastTimeout
  /\ LET t == timeouts[call.index] IN
       IF t.age >= Interval[t.handler]
         THEN \E new \in Results(Effect, xPLFD) :
                Becomes([new EXCEPT !.timeouts = Stamped(@)])
         ELSE UNCHANGED tables
  /\ call' = [call EXCEPT !.index = @ - 1]
  /\ ready' = ready \cap {devices'[i].fd : i \in DOMAIN devices'}
  /\ UNCHANGED <<ages, at>>

TimeoutsDone ==
  /\ at = "timeouts"
  /\ call.index <= LastTimeout
  /\ at' = call.return
  /\ call' = [call EXCEPT !.index = 0, !.return = "out"]
  /\ UNCHANGED <<tables, ages, ready>>

Tick ==
  /\ \/ at = "out" /\ UNCHANGED call
     \/ /\ at = "poll"
        /\ ready = {} /\ call.left > 0
        /\ call' = [call EXCEPT !.left = @ - 1]
  /\ sinceBeat' = Aged(sinceBeat, HeartbeatCheck)
  /\ sinceChecks' = Aged(sinceChecks, Second)
  /\ timeouts' = [i \in DOMAIN timeouts |->
                   [timeouts[i] EXCEPT !.age = Aged(@, Interval[timeouts[i].handler])]]
  /\ UNCHANGED <<net, failures, devices, listeners, ready, at>>

Loop ==
  \/ Poll
  \/ PollFindsDevices
  \/ PollTimesOut
  \/ LeaveStopped
  \/ SkipDevice
  \/ DispatchDevice
  \/ CheckTimeout
  \/ TimeoutsDone

Next ==
  \/ \E theConnectType \in ConnectType : Initialize(theConnectType)
  \/ ChooseInterface
  \/ ProgramChangesTables
  \/ ProcessMessages
  \/ \E fd \in Device \cup {xPLFD} : BecomesReady(fd)
  \/ Loop
  \/ PollFails
  \/ Tick

Spec == Init /\ [][Next]_vars

(* The program calls xPL_processMessages again and again, its loop runs    *)
(* and time does not stand still, however often something arrives.         *)
FairSpec == Spec /\ WF_vars(ProcessMessages) /\ WF_vars(Loop) /\ SF_vars(Tick)
-----------------------------------------------------------------------------
TypeOK ==
  /\ net \in Connection
  /\ failures + listeners \in 0 .. MaxStarts
  /\ devices \in Seq([fd : Device \cup {xPLFD}, revents : BOOLEAN])
  /\ timeouts \in Seq([handler : TimeoutHandler, age : Nat])
  /\ \A i \in DOMAIN timeouts : timeouts[i].age <= Interval[timeouts[i].handler]
  /\ listeners \in 0 .. MaxStarts
  /\ ready \subseteq Listed
  /\ sinceBeat \in 0 .. HeartbeatCheck /\ sinceChecks \in 0 .. Second
  /\ at \in Places
  /\ call \in [theTimeout : Timeout \cup {0}, thisTimeout : 0 .. Second,
               left : 0 .. Second, soFar : Nat, timeoutDone : BOOLEAN, index : Nat,
               active : Nat, return : {"out", "loop"}]

(* The device loop and the timeout loop index their tables by a counter    *)
(* read before the handlers, which grow and shrink the tables under it:    *)
(* the entry they look at next is in the table, and a device loop that has *)
(* found a device to serve still has as many to serve as it counts.        *)
LoopsStayInTheTables ==
  /\ at = "devices" =>
       /\ call.index <= Len(devices)
       /\ call.active <= Cardinality({i \in 1 .. call.index : devices[i].revents})
  /\ at = "timeouts" => call.index <= Len(timeouts)

(* The library's device is in the table exactly while the library runs,    *)
(* also when a handler stops it in the middle of a loop, and never twice.  *)
(* While it runs it has a socket to broadcast from, and the port its       *)
(* heartbeats name (xPL-service.c:52) and isHubEcho compares               *)
(* (xPL-message.c:890) is the one it listens on, one of its own if it goes *)
(* through a hub.  Whatever fails on the way there, and whenever it is     *)
(* stopped, of its sockets those alone are open that it will close, and    *)
(* one more at most for each start that failed, the broadcast socket that  *)
(* attempt leaves behind (xPL_initialize, xPL_shutdown).                   *)
ConnectionIsConsistent ==
  /\ Cardinality({i \in DOMAIN devices : devices[i].fd = xPLFD}) = IF started THEN 1 ELSE 0
  /\ started =>
       /\ net.broadcast /\ net.interface # NoInterface
       /\ net.port = net.bound
       /\ net.type = "xcViaHub" => net.bound # BASE_XPL_PORT
  /\ LET known == (IF started THEN 1 ELSE 0) + (IF net.broadcast THEN 1 ELSE 0)
     IN net.open \in known .. known + failures

(* The run of the timeout handlers passes over none that is due, whatever  *)
(* those handlers add to the table they are being taken from, and it       *)
(* starts the interval anew of those only that were due                    *)
(* (checkAllTimeoutHandlers).                                              *)
EveryDueTimerRuns ==
  [][/\ (at = "timeouts" /\ at' # at) =>
          \A i \in DOMAIN timeouts : timeouts[i].age < Interval[timeouts[i].handler]
     /\ \A i \in DOMAIN timeouts, j \in DOMAIN timeouts' :
          /\ timeouts[i].handler = timeouts'[j].handler
          /\ timeouts'[j].age < timeouts[i].age
          => timeouts[i].age >= Interval[timeouts[i].handler]]_vars

(* poll stops failing: a call in which it fails serves nobody.             *)
PollRecovers == <>[][~PollFails]_vars

(* A device that has something to say is served, however busy the devices  *)
(* after it in the table are, unless the library is stopped.               *)
ReadyDeviceIsServed ==
  PollRecovers =>
    \A fd \in Device \cup {xPLFD} : fd \in ready ~> fd \notin ready \/ ~started

(* On a network that fell silent the timers and the heartbeats are looked  *)
(* at again and again, however the program chops its waiting into calls.   *)
TimersAreServed ==
  PollRecovers /\ <>[](ready = {}) => []<>(sinceChecks = 0) /\ []<>(sinceBeat = 0)

(* On a network that fell silent a call with a time to wait returns, other *)
(* than of a second exactly.                                               *)
CallReturns ==
  <>[](ready = {}) =>
    (at # "out" /\ call.theTimeout \notin {Forever, Second} ~> at = "out")

(* The comment of xPL_processMessages, for every time to wait: "If         *)
(* theTimeout > 0 then we process any pending messages, waiting up to      *)
(* theTimeout milliseconds and then return."                               *)
CallReturnsAsSaid ==
  <>[](ready = {}) => (at # "out" /\ call.theTimeout > 0 ~> at = "out")
=============================================================================
