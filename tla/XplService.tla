----------------------------- MODULE XplService -----------------------------
(***************************************************************************)
(* The services of one xPL program (src/xPLLib/xPL-service.c) and their    *)
(* configuration (src/xPLLib/xPL-config.c).  An enabled service announces  *)
(* itself with heartbeats: every few seconds until the hub has echoed one, *)
(* once a minute while it waits for its configuration, and once per        *)
(* heartbeatInterval afterwards.  The message is built once and kept; what *)
(* it says may then differ from what the service has become.               *)
(*                                                                         *)
(* A program is single threaded: an action is a call of the library that   *)
(* runs to its end.  A service sends at most a goodbye and a heartbeat in  *)
(* one call; sent holds what the last call put on the network.             *)
(*                                                                         *)
(* Not in the model: filters, groups and configurables, which no heartbeat *)
(* depends on.  Ages saturate at AgeCap as in XplHub.                      *)
(***************************************************************************)
EXTENDS Integers, SequencesExt

CONSTANTS
  Service,          \* the services the program may create
  Configurable,     \* those created with xPL_createConfigurableService
  Name,             \* the instance IDs a program or a manager may choose
  FairlyUniqueName, \* what xPL_getFairlyUniqueIdent answers
  NoItem,           \* an item a config.response leaves out
  Minute,           \* ticks per minute
  DefaultInterval,  \* DEFAULT_HEARTBEAT_INTERVAL, in minutes
  ConfigInterval,   \* CONFIG_HEARTBEAT_INTERVAL, in minutes
  Discovery,        \* HUB_DISCOVERY_INTERVAL, in ticks
  ApiInterval,      \* ticks the program passes to xPL_setHeartbeatInterval
  ManagerInterval,  \* minutes a config.response carries
  AgeCap,           \* bound: ages saturate here
  SendMayFail,      \* can sendto fail?
  Use               \* what the program and the manager do, see Uses

Freed == "freed"              \* a string that was released
NoHeartbeat == [kind |-> "none", interval |-> 0, name |-> Freed]
NoFile == [state |-> "none"]  \* never saved
TornFile == [state |-> "torn"] \* opened for writing, not written yet

(* What may happen to a service that not every property survives: the      *)
(* first three make the kept heartbeat stale, the last one announces a     *)
(* service that is disabled.                                               *)
Uses == {"rename while enabled",      \* xPL_setServiceInstanceID and the like
         "interval while enabled",    \* xPL_setHeartbeatInterval
         "response without change",   \* first config.response, nothing new
         "request while disabled"}    \* hbeat.request for a disabled service

ASSUME ServiceConstants ==
  /\ Configurable \subseteq Service
  /\ Minute \in Nat \ {0}
  /\ DefaultInterval \in Nat
  /\ ConfigInterval \in Nat
  /\ Discovery \in Nat
  /\ ApiInterval \subseteq Nat
  /\ ManagerInterval \subseteq Int
  /\ AgeCap \in Nat
  /\ SendMayFail \in BOOLEAN
  /\ Use \subseteq Uses
  /\ Freed \notin Name \cup {FairlyUniqueName}
  /\ NoItem \notin Name /\ NoItem \notin ManagerInterval

VARIABLES
  svc,          \* the services by name, see Released and ServiceState
  hubConfirmed, \* hubConfirmed of xPL-message.c
  checked,      \* the heartbeat check was done in this tick
  file,         \* the config file of each service
  sent          \* the heartbeats the last step sent

vars == <<svc, hubConfirmed, checked, file, sent>>

AnyName == Name \cup {FairlyUniqueName, Freed}

Cached == [kind : {"none", "normal", "config"}, interval : Int, name : AnyName]

(* enabled, configured, interval (ticks), name, cached: the fields of      *)
(* xPL_Service; quiet is now - lastHeartbeatAt.                            *)
ServiceState ==
  [exists : BOOLEAN, enabled : BOOLEAN, configured : BOOLEAN, interval : Int,
   name : AnyName, cached : Cached, quiet : Nat]

Saved == [state : {"saved"}, name : AnyName, interval : Int]

Released ==
  [exists |-> FALSE, enabled |-> FALSE, configured |-> FALSE, interval |-> 0,
   name |-> Freed, cached |-> NoHeartbeat, quiet |-> AgeCap]

Aged(age) == IF age < AgeCap THEN age + 1 ELSE age

-----------------------------------------------------------------------------
(* Is the service in configuration mode?                                   *)
Unconfigured(s, st) == s \in Configurable /\ ~st.configured

(* createHeartbeatMessage: its interval in whole minutes; its source       *)
(* strings are those of the service, not copies.                           *)
BuildHeartbeat(s, st) ==
  IF Unconfigured(s, st)
    THEN [kind |-> "config", interval |-> ConfigInterval, name |-> st.name]
    ELSE [kind |-> "normal", interval |-> st.interval \div Minute, name |-> st.name]

Message(s, heartbeat, end) ==
  [service |-> s, kind |-> heartbeat.kind, end |-> end,
   interval |-> heartbeat.interval, name |-> heartbeat.name]

(* xPL_sendGoodbyeHeartbeat: always built afresh.                          *)
Goodbye(s, st) == Message(s, BuildHeartbeat(s, st), TRUE)

(* The message xPL_sendHeartbeat sends: the kept one, if there is one.     *)
Kept(s, st) == IF st.cached = NoHeartbeat THEN BuildHeartbeat(s, st) ELSE st.cached

(* xPL_sendHeartbeat.                                                      *)
AfterHeartbeat(s, st, ok) ==
  [st EXCEPT !.cached = Kept(s, st), !.quiet = IF ok THEN 0 ELSE @]

(* xPL_setServiceEnabled(TRUE), which drops the kept heartbeat first.      *)
WithoutHeartbeat(st) == [st EXCEPT !.cached = NoHeartbeat]

Enabled(s, st, ok) ==
  AfterHeartbeat(s, WithoutHeartbeat([st EXCEPT !.enabled = TRUE]), ok)

Outcome == IF SendMayFail THEN BOOLEAN ELSE {TRUE}

(* What a list of messages leaves on the network, sendto by sendto.        *)
Sends(first, firstOk, second, secondOk) ==
  (IF firstOk THEN <<first>> ELSE << >>) \o (IF secondOk THEN <<second>> ELSE << >>)

-----------------------------------------------------------------------------
Init ==
  /\ svc = [s \in Service |-> Released]
  /\ hubConfirmed = FALSE
  /\ checked = FALSE
  /\ file = [s \in Service |-> NoFile]
  /\ sent = << >>

(* newService.                                                             *)
NewService ==
  [Released EXCEPT !.exists = TRUE,
                   !.name = FairlyUniqueName,
                   !.interval = DefaultInterval * Minute]

(* xPL_createService, and xPL_createConfigurableService with               *)
(* xPL_loadServiceConfig: a complete file is installed, a torn one fails   *)
(* on its missing header.                                                  *)
Create(s) ==
  /\ ~svc[s].exists
  /\ svc' = [svc EXCEPT ![s] =
       IF s \in Configurable /\ file[s].state = "saved"
         THEN [NewService EXCEPT !.name = file[s].name,
                                 !.interval = file[s].interval * Minute,
                                 !.configured = TRUE]
         ELSE NewService]
  /\ sent' = << >>
  /\ UNCHANGED <<hubConfirmed, checked, file>>

(* xPL_setServiceEnabled(TRUE).                                            *)
Enable(s) ==
  /\ svc[s].exists /\ ~svc[s].enabled
  /\ \E ok \in Outcome :
       /\ svc' = [svc EXCEPT ![s] = Enabled(s, @, ok)]
       /\ sent' = IF ok THEN <<Message(s, svc'[s].cached, FALSE)>> ELSE << >>
  /\ UNCHANGED <<hubConfirmed, checked, file>>

(* xPL_setServiceEnabled(FALSE): the kept heartbeat stays.                 *)
Disable(s) ==
  /\ svc[s].enabled
  /\ svc' = [svc EXCEPT ![s].enabled = FALSE]
  /\ \E ok \in Outcome : sent' = IF ok THEN <<Goodbye(s, svc[s])>> ELSE << >>
  /\ UNCHANGED <<hubConfirmed, checked, file>>

(* xPL_releaseService, which disables the service first.                   *)
Release(s) ==
  /\ svc[s].exists
  /\ svc' = [svc EXCEPT ![s] = Released]
  /\ \E ok \in Outcome :
       sent' = IF ok /\ svc[s].enabled THEN <<Goodbye(s, svc[s])>> ELSE << >>
  /\ UNCHANGED <<hubConfirmed, checked, file>>

(* xPL_setServiceInstanceID (setServiceVendor and setServiceDeviceID are   *)
(* the same): the string the kept heartbeat points to is released, and an  *)
(* enabled service sends that heartbeat right away.                        *)
SetInstanceID(s, name) ==
  /\ svc[s].exists /\ name # svc[s].name
  /\ svc[s].enabled => "rename while enabled" \in Use
  /\ \E ok1, ok2 \in Outcome :
       LET renamed == [svc[s] EXCEPT
                         !.name = name,
                         !.cached.name = IF svc[s].cached = NoHeartbeat THEN @ ELSE Freed]
           after == AfterHeartbeat(s, renamed, ok2)
       IN  IF svc[s].enabled
             THEN /\ svc' = [svc EXCEPT ![s] = after]
                  /\ sent' = Sends(Goodbye(s, svc[s]), ok1,
                                   Message(s, after.cached, FALSE), ok2)
             ELSE /\ svc' = [svc EXCEPT ![s] = renamed]
                  /\ sent' = << >>
  /\ UNCHANGED <<hubConfirmed, checked, file>>

(* xPL_setHeartbeatInterval; values out of range change nothing.           *)
SetHeartbeatInterval(s, interval) ==
  /\ svc[s].exists
  /\ svc[s].enabled => "interval while enabled" \in Use
  /\ svc' = [svc EXCEPT ![s].interval = interval]
  /\ sent' = << >>
  /\ UNCHANGED <<hubConfirmed, checked, file>>

(* The definitions named Wrong... are slips the properties must notice:    *)
(* each stands before the definition it would replace.                     *)

(* A missing newconf taken as it comes.                                    *)
WrongNewName(s, newconf) == newconf

(* What installNewConfig leaves running and writes to the file: the items  *)
(* the response has, over what the service had.                            *)
NewName(s, newconf) == IF newconf = NoItem THEN svc[s].name ELSE newconf

NewInterval(s, minutes) ==
  IF minutes = NoItem THEN svc[s].interval ELSE minutes * Minute

ToFile(s, newconf, minutes) ==
  [state |-> "saved", name |-> NewName(s, newconf),
   interval |-> NewInterval(s, minutes) \div Minute]

(* A new instance ID alone does not restart the service.                   *)
WrongChanges(s, newconf, minutes) == NewInterval(s, minutes) # svc[s].interval

(* restartService of installNewConfig.                                     *)
Changes(s, newconf, minutes) ==
  NewName(s, newconf) # svc[s].name \/ NewInterval(s, minutes) # svc[s].interval

(* A response reaches the service, enabled or not; the manager either      *)
(* answers its first one with something new, or is free not to.            *)
Responds(s, newconf, minutes) ==
  /\ svc[s].exists /\ s \in Configurable
  /\ svc[s].enabled /\ ~svc[s].configured /\ ~Changes(s, newconf, minutes)
       => "response without change" \in Use

(* The service after the new values were stored, before any restart.       *)
Configured(s, newconf, minutes) ==
  [svc[s] EXCEPT !.name = NewName(s, newconf),
                 !.cached.name =
                    IF svc[s].cached # NoHeartbeat /\ NewName(s, newconf) # svc[s].name
                      THEN Freed ELSE @,
                 !.interval = NewInterval(s, minutes),
                 !.configured = TRUE]

(* installNewConfig on a config.response: stop the service if its name or  *)
(* interval changes, store the new values, save them, start it again.      *)
InstallNewConfig(s, newconf, minutes) ==
  /\ Responds(s, newconf, minutes)
  /\ \/ file' = [file EXCEPT ![s] = ToFile(s, newconf, minutes)]
     \/ UNCHANGED file   \* it could not be opened
  /\ IF svc[s].enabled /\ Changes(s, newconf, minutes)
       THEN \E ok1, ok2 \in Outcome :
              /\ svc' = [svc EXCEPT ![s] = Enabled(s, Configured(s, newconf, minutes), ok2)]
              /\ sent' = Sends(Goodbye(s, svc[s]), ok1,
                               Message(s, svc'[s].cached, FALSE), ok2)
       ELSE /\ svc' = [svc EXCEPT ![s] = Configured(s, newconf, minutes)]
            /\ sent' = << >>
  /\ UNCHANGED <<hubConfirmed, checked>>

(* The program dies: no goodbye, the files stay.                           *)
Dies ==
  /\ svc' = [s \in Service |-> Released]
  /\ hubConfirmed' = FALSE
  /\ checked' = FALSE

Crash ==
  /\ Dies
  /\ sent' = << >>
  /\ UNCHANGED <<file>>

(* It dies in xPL_saveServiceConfig, which empties the file before it      *)
(* writes it (at once: stdio keeps what is printed until the end).  The    *)
(* goodbye of a restart is on its way by then.                             *)
CrashWhileSaving(s, newconf, minutes) ==
  /\ Responds(s, newconf, minutes)
  /\ file' = [file EXCEPT ![s] = TornFile]
  /\ Dies
  /\ \E ok \in Outcome :
       sent' = IF ok /\ svc[s].enabled /\ Changes(s, newconf, minutes)
                 THEN <<Goodbye(s, svc[s])>> ELSE << >>

(* The services in some order all send their heartbeat; the order is that  *)
(* of serviceList, and so any order.                                       *)
SendHeartbeats(senders) ==
  \E ok \in {ok \in SUBSET senders : SendMayFail \/ ok = senders} :
    \E order \in SetToSeqs(ok) :
      /\ svc' = [s \in Service |->
                   IF s \in senders THEN AfterHeartbeat(s, svc[s], s \in ok) ELSE svc[s]]
      /\ sent' = [k \in DOMAIN order |-> Message(order[k], Kept(order[k], svc[order[k]]), FALSE)]

(* handleMessage on a broadcast hbeat.request: every service in the list   *)
(* answers, enabled or not.                                                *)
HeartbeatRequest ==
  /\ (\E s \in Service : svc[s].exists /\ ~svc[s].enabled)
       => "request while disabled" \in Use
  /\ SendHeartbeats({s \in Service : svc[s].exists})
  /\ UNCHANGED <<hubConfirmed, checked, file>>

(* How long xPL_sendTimelyHeartbeats leaves a service quiet.               *)
Period(s) ==
  CASE ~hubConfirmed                            -> Discovery
    [] hubConfirmed /\ Unconfigured(s, svc[s])  -> ConfigInterval * Minute
    [] hubConfirmed /\ ~Unconfigured(s, svc[s]) -> svc[s].interval

(* Nothing is sent any more once the hub has confirmed.                    *)
WrongDueUntilConfirmed(s) ==
  svc[s].enabled /\ ~hubConfirmed /\ svc[s].quiet >= Period(s)

(* The test of serviceEnabled is missing.                                  *)
WrongDueDisabled(s) == svc[s].exists /\ svc[s].quiet >= Period(s)

(* One tick late.                                                          *)
WrongDue(s) == svc[s].enabled /\ svc[s].quiet > Period(s)

Due(s) == svc[s].enabled /\ svc[s].quiet >= Period(s)

(* xPL_sendTimelyHeartbeats, called by doTimeouts.                         *)
SendTimelyHeartbeats ==
  /\ SendHeartbeats({s \in Service : Due(s)})
  /\ checked' = TRUE
  /\ UNCHANGED <<hubConfirmed, file>>

(* xPL_receiveMessage on a heartbeat that carries our own port (isHubEcho).*)
ReceiveEcho ==
  /\ hubConfirmed' = TRUE
  /\ sent' = << >>
  /\ UNCHANGED <<svc, checked, file>>

(* Time passes.  A tick is longer than the 5 seconds between two heartbeat *)
(* checks, so that one is done in every tick.                              *)
Tick ==
  /\ checked
  /\ checked' = FALSE
  /\ svc' = [s \in Service |->
               IF svc[s].exists THEN [svc[s] EXCEPT !.quiet = Aged(@)] ELSE svc[s]]
  /\ sent' = << >>
  /\ UNCHANGED <<hubConfirmed, file>>

Call(s) ==
  \/ Create(s) \/ Enable(s) \/ Disable(s) \/ Release(s)
  \/ \E name \in Name : SetInstanceID(s, name)
  \/ \E interval \in ApiInterval : SetHeartbeatInterval(s, interval)

Response(s) ==
  \E newconf \in Name \cup {NoItem}, minutes \in ManagerInterval \cup {NoItem} :
    \/ InstallNewConfig(s, newconf, minutes)
    \/ CrashWhileSaving(s, newconf, minutes)

Next ==
  \/ \E s \in Service : Call(s) \/ Response(s)
  \/ HeartbeatRequest
  \/ SendTimelyHeartbeats
  \/ ReceiveEcho
  \/ Crash
  \/ Tick

Spec == Init /\ [][Next]_vars

-----------------------------------------------------------------------------
TypeOK ==
  /\ svc \in [Service -> ServiceState]
  /\ hubConfirmed \in BOOLEAN
  /\ checked \in BOOLEAN
  /\ file \in [Service -> Saved \cup {NoFile, TornFile}]
  /\ \A k \in DOMAIN sent : sent[k].service \in Service

(* What a service announced before its first answer came, or would have.   *)
BeforeTheAnswer(s, st) == BuildHeartbeat(s, [st EXCEPT !.configured = FALSE])

(* The message an enabled service keeps and repeats says what the service  *)
(* is now: its kind, its interval and its name.  Creations, restarts and   *)
(* answers to discovery requests build it at different moments.  Where the *)
(* first answer may confirm the name and interval the service has          *)
(* (installNewConfig does not restart it then, xPL-config.c:446), it may   *)
(* still say that the service waits for that answer, and nothing else.     *)
(* The program changes neither while the service is enabled.               *)
KeptHeartbeatIsCurrent ==
  \A s \in Service : svc[s].enabled =>
    \/ svc[s].cached = BuildHeartbeat(s, svc[s])
    \/ /\ "response without change" \in Use /\ svc[s].configured
       /\ svc[s].cached = BeforeTheAnswer(s, svc[s])

(* An enabled service is never quiet for longer than its current period,   *)
(* whatever changed the period: the echo of the hub, a configuration or a  *)
(* restart (when sendto does not fail).                                    *)
BeatIsKept ==
  \A s \in Service : svc[s].enabled =>
    svc[s].quiet <= (IF Period(s) > 1 THEN Period(s) ELSE 1)
=============================================================================
