--------------------------- MODULE HubAndServices ---------------------------
(***************************************************************************)
(* A hub (XplHub) and one other xPL program on the same machine with its   *)
(* services (XplService).  A heartbeat is a broadcast the hub receives in  *)
(* order, or never: UDP may drop it.  The hub forwards what it hears to    *)
(* the program's own port, where the echo confirms the hub.                *)
(*                                                                         *)
(* Time.  Both programs call xPL_processMessages all the time: what was    *)
(* sent in a tick is received or lost in that tick (Tick waits for it).    *)
(* The hub's minute check is not as punctual: nothing below needs it to be.*)
(***************************************************************************)
EXTENDS Integers, Sequences

CONSTANTS
  Minute, DefaultInterval, AgeCap,                               \* of both
  NoInterval, Socket, PortSpace, MaxInterval, GrowBy, CopyOrder, \* the hub
  Service, Configurable, Name, FairlyUniqueName, NoItem,         \* the services
  ConfigInterval, Discovery, ApiInterval, ManagerInterval, Use,
  OwnPort,      \* the port of the program, its only one
  MaxLost       \* bound: announcements lost in a row

VARIABLES
  hubRunning, clients, allocCount, openSockets, sinceCheck, sweep, forwarded,
  svc, hubConfirmed, checked, file, announced,
  wire,         \* heartbeats broadcast and not received yet
  lost,         \* announcements lost in a row
  heard         \* history: the hub heard this service as it is now

hubVars == <<hubRunning, clients, allocCount, openSockets, sinceCheck, sweep, forwarded>>
svcVars == <<svc, hubConfirmed, checked, file, announced>>
vars == <<hubVars, svcVars, wire, lost, heard>>

Announced ==
  {ConfigInterval, DefaultInterval}
    \cup ManagerInterval \cup {i \div Minute : i \in ApiInterval}

Hub == INSTANCE XplHub WITH
  Port <- {OwnPort}, AnnouncedInterval <- Announced, sent <- forwarded

Program == INSTANCE XplService WITH SendMayFail <- FALSE, sent <- announced

ASSUME CompositionConstants == OwnPort \in 0 .. PortSpace - 1 /\ MaxLost \in Nat

-----------------------------------------------------------------------------
Init ==
  /\ Hub!Init
  /\ Program!Init
  /\ wire = << >>
  /\ lost = 0
  /\ heard = [s \in Service |-> FALSE]

(* It is enabled, and what sets the rate of its heartbeats is as it was.   *)
BeatsAsBefore(s) ==
  /\ svc'[s].enabled
  /\ svc'[s].interval = svc[s].interval /\ svc'[s].configured = svc[s].configured

(* A call of the program: what it announces goes on the wire.              *)
ProgramCalls ==
  /\ \/ \E s \in Service :
          \/ Program!Call(s)
          \/ Program!Response(s)
     \/ Program!HeartbeatRequest
     \/ Program!Crash
  /\ wire = << >>
  /\ wire' = announced'
  /\ heard' = [s \in Service |-> heard[s] /\ BeatsAsBefore(s)]
  /\ UNCHANGED <<hubVars, lost>>

ProgramBeats ==
  /\ Program!SendTimelyHeartbeats
  /\ wire = << >>
  /\ wire' = announced'
  /\ UNCHANGED <<hubVars, lost, heard>>

(* What the hub reads in a heartbeat of this program.                      *)
Received(m) ==
  [heartbeat |-> TRUE, local |-> TRUE, signoff |-> m.end, fits |-> TRUE,
   port |-> OwnPort, interval |-> m.interval]

(* The hub receives a heartbeat; the program receives the copy forwarded   *)
(* to its port, if there is one.                                           *)
HubReceives ==
  /\ wire # << >>
  /\ Hub!HandleMessage(Received(Head(wire)))
  /\ IF OwnPort \in {forwarded'[k] : k \in DOMAIN forwarded'}
       THEN Program!ReceiveEcho
       ELSE UNCHANGED svcVars
  /\ wire' = Tail(wire)
  /\ lost' = 0
  /\ heard' = [heard EXCEPT ![Head(wire).service] =
                 ~Head(wire).end /\ svc[Head(wire).service].enabled /\ hubRunning]

(* The datagram is dropped: there is no hub to hear it, or the network     *)
(* loses it.                                                               *)
HeartbeatIsLost ==
  /\ wire # << >>
  /\ \/ ~hubRunning /\ lost' = 0
     \/ hubRunning /\ lost < MaxLost /\ lost' = lost + 1
  /\ wire' = Tail(wire)
  /\ UNCHANGED <<hubVars, svcVars, heard>>

(* The hub program is started, stopped, and checks its clients.            *)
HubStarts ==
  /\ Hub!StartHub
  /\ UNCHANGED <<svcVars, wire, lost, heard>>

HubStops ==
  /\ Hub!StopHub
  /\ heard' = [s \in Service |-> FALSE]
  /\ UNCHANGED <<svcVars, wire, lost>>

HubChecks ==
  /\ Hub!BeginTimeoutChecks \/ Hub!KeepClient \/ Hub!ReleaseClient
  /\ UNCHANGED <<svcVars, wire, lost, heard>>

Tick ==
  /\ wire = << >>
  /\ Hub!Tick
  /\ Program!Tick
  /\ UNCHANGED <<wire, lost, heard>>

Next ==
  \/ ProgramCalls
  \/ ProgramBeats
  \/ HubReceives
  \/ HeartbeatIsLost
  \/ HubStarts
  \/ HubStops
  \/ HubChecks
  \/ Tick

Spec == Init /\ [][Next]_vars

(* Both programs keep calling xPL_processMessages, no message stays in a   *)
(* socket, the kernel does not refuse the hub a socket every time, and     *)
(* time passes however busy the program is with creations and crashes.     *)
FairSpec ==
  /\ Spec
  /\ WF_vars(ProgramBeats)
  /\ WF_vars(HubReceives)
  /\ SF_vars(HubReceives /\ Hub!Known(OwnPort)')
  /\ WF_vars(HeartbeatIsLost /\ ~hubRunning)
  /\ WF_vars(HubChecks)
  /\ SF_vars(Tick)

-----------------------------------------------------------------------------
(* The interval the hub goes by: the whole minutes a service announces, as *)
(* far as it believes them.                                                *)
Believed(s) ==
  Hub!HeartbeatInterval([interval |-> Program!BuildHeartbeat(s, svc[s]).interval])

(* How long a service rests between two heartbeats once the hub has        *)
(* confirmed.                                                              *)
Rest(s) ==
  IF Program!Unconfigured(s, svc[s]) THEN ConfigInterval * Minute ELSE svc[s].interval

(* Does one heartbeat in MaxLost + 1 come before the limit of the hub?     *)
(* With one loss it does for whole minutes that the hub believes; it does  *)
(* not for 119 seconds, announced as one minute, nor for more than a       *)
(* little above 30 minutes, which the hub takes for 30.                    *)
BeatsInTime(s) == (MaxLost + 1) * Rest(s) < Hub!Limit(Believed(s))

(* The hub drops the program only when none of its services is enabled,    *)
(* heard and beats in time: with at most MaxLost announcements lost in a   *)
(* row, the interval announced, the rate of the heartbeats and the limit   *)
(* of the hub fit together through configurations, restarts and stops.     *)
LiveProgramIsNotDropped ==
  [][Hub!Ports' = {} /\ Hub!Ports # {} /\ hubRunning'
       => \A s \in Service : ~(heard[s] /\ BeatsInTime(s))]_vars

(* While the hub runs, a program with an enabled service is known to it    *)
(* sooner or later, also when the hub was restarted after it had confirmed.*)
EnabledProgramIsRegistered ==
  \A s \in Service :
    svc[s].enabled /\ hubRunning ~> Hub!Known(OwnPort) \/ ~svc[s].enabled \/ ~hubRunning

(* A program without an enabled service does not stay registered for ever, *)
(* although the hub takes its goodbye for a heartbeat.                     *)
DisabledProgramIsForgotten ==
  hubRunning /\ Hub!Known(OwnPort) /\ (\A s \in Service : ~svc[s].enabled)
    ~> ~Hub!Known(OwnPort) \/ (\E s \in Service : svc[s].enabled)
=============================================================================
