-------------------------- MODULE XplService_proofs --------------------------
(***************************************************************************)
(* Proofs about XplService for any services, names, intervals and age cap. *)
(*                                                                         *)
(* Hypotheses, stated in each theorem that needs them:                     *)
(*   SteadyUse       the program leaves names and intervals alone while    *)
(*                   a service is enabled; the manager and discovery       *)
(*                   requests may come at any time, with anything;         *)
(*   OrdinaryUse     besides, the first answer of a manager changes the    *)
(*                   name or the interval;                                 *)
(*   SendingWorks    sendto does not fail;                                 *)
(*   ShortDiscovery  the 3 seconds of HUB_DISCOVERY_INTERVAL are not more  *)
(*                   than a tick, which is longer than the 5 seconds       *)
(*                   between two heartbeat checks.                         *)
(***************************************************************************)
EXTENDS XplService, SequenceTheorems, TLAPS

SteadyUse == Use \subseteq {"request while disabled", "response without change"}
OrdinaryUse == Use \subseteq {"request while disabled"}
SendingWorks == SendMayFail = FALSE
ShortDiscovery == Discovery <= 1

(* Only a service that exists is enabled.                                  *)
EnabledExists == \A s \in Service : svc[s].enabled => svc[s].exists

IInv == TypeOK /\ EnabledExists

(* A check leaves no enabled service due.                                  *)
CheckIsFresh ==
  checked => \A s \in Service : svc[s].enabled =>
               svc[s].quiet = 0 \/ svc[s].quiet < Period(s)

BeatInv == IInv /\ CheckIsFresh /\ BeatIsKept

(* What a step may do to a service that is enabled after it: start it with *)
(* a heartbeat that says what it is now, leave it as it was but for its    *)
(* next heartbeat and its age, or tell it what it knew.                    *)
Restarted(s) ==
  /\ svc'[s].cached = BuildHeartbeat(s, svc'[s])
  /\ SendingWorks => svc'[s].quiet = 0

GoesOn(s) ==
  /\ svc[s].enabled
  /\ svc'[s].interval = svc[s].interval
  /\ svc'[s].name = svc[s].name
  /\ Unconfigured(s, svc'[s]) <=> Unconfigured(s, svc[s])
  /\ svc'[s].cached \in {svc[s].cached, Kept(s, svc[s])}

Confirmed(s) ==
  /\ "response without change" \in Use
  /\ svc[s].enabled /\ svc'[s].configured
  /\ svc'[s].interval = svc[s].interval
  /\ svc'[s].name = svc[s].name
  /\ svc'[s].cached = svc[s].cached

Orderly(s) == svc'[s].enabled => Restarted(s) \/ GoesOn(s) \/ Confirmed(s)

(* But for the clock, a service that goes on keeps its age or sends.       *)
Punctual(s) ==
  svc'[s].enabled => svc'[s].quiet \in {svc[s].quiet, 0}

-----------------------------------------------------------------------------
(* The messages and states a service is given are of their types.          *)
LEMMA BuiltHeartbeat ==
  ASSUME NEW s \in Service, NEW st \in ServiceState
  PROVE  /\ BuildHeartbeat(s, st) \in Cached
         /\ BuildHeartbeat(s, st) # NoHeartbeat
         /\ Kept(s, st) \in Cached
         /\ Kept(s, st) # NoHeartbeat
<1>1. st.interval \div Minute \in Int /\ ConfigInterval \in Int /\ st.name \in AnyName
  BY ServiceConstants DEF ServiceState
<1>2. BuildHeartbeat(s, st) \in Cached
  BY <1>1 DEF BuildHeartbeat, Cached
<1>3. BuildHeartbeat(s, st).kind # "none" /\ NoHeartbeat.kind = "none"
  BY DEF BuildHeartbeat, NoHeartbeat
<1>4. BuildHeartbeat(s, st) # NoHeartbeat
  BY <1>3
<1>5. st.cached \in Cached
  BY DEF ServiceState
<1> QED
  BY <1>2, <1>4, <1>5 DEF Kept

LEMMA SentHeartbeat ==
  ASSUME NEW s \in Service, NEW st \in ServiceState, NEW ok \in BOOLEAN
  PROVE  /\ AfterHeartbeat(s, st, ok) \in ServiceState
         /\ AfterHeartbeat(s, st, ok).exists = st.exists
         /\ AfterHeartbeat(s, st, ok).enabled = st.enabled
         /\ AfterHeartbeat(s, st, ok).configured = st.configured
         /\ AfterHeartbeat(s, st, ok).interval = st.interval
         /\ AfterHeartbeat(s, st, ok).name = st.name
         /\ AfterHeartbeat(s, st, ok).cached = Kept(s, st)
         /\ AfterHeartbeat(s, st, ok).quiet = IF ok THEN 0 ELSE st.quiet
<1>1. Kept(s, st) \in Cached
  BY BuiltHeartbeat
<1> QED
  BY <1>1 DEF AfterHeartbeat, ServiceState

LEMMA EnabledState ==
  ASSUME NEW s \in Service, NEW st \in ServiceState, NEW ok \in BOOLEAN
  PROVE  /\ Enabled(s, st, ok) \in ServiceState
         /\ Enabled(s, st, ok).exists = st.exists
         /\ Enabled(s, st, ok).configured = st.configured
         /\ Enabled(s, st, ok).interval = st.interval
         /\ Enabled(s, st, ok).name = st.name
         /\ Enabled(s, st, ok).cached = BuildHeartbeat(s, Enabled(s, st, ok))
         /\ Enabled(s, st, ok).quiet = IF ok THEN 0 ELSE st.quiet
<1> DEFINE bare == WithoutHeartbeat([st EXCEPT !.enabled = TRUE])
<1>1. NoHeartbeat \in Cached
  BY DEF NoHeartbeat, Cached, AnyName
<1>2. /\ bare \in ServiceState /\ bare.cached = NoHeartbeat
      /\ bare.exists = st.exists /\ bare.configured = st.configured
      /\ bare.interval = st.interval /\ bare.name = st.name /\ bare.quiet = st.quiet
  BY <1>1 DEF WithoutHeartbeat, ServiceState
<1>3. Kept(s, bare) = BuildHeartbeat(s, bare)
  BY <1>2 DEF Kept
<1>4. Enabled(s, st, ok) = AfterHeartbeat(s, bare, ok)
  BY DEF Enabled
<1> HIDE DEF bare
<1>5. /\ Enabled(s, st, ok) \in ServiceState
      /\ Enabled(s, st, ok).exists = st.exists
      /\ Enabled(s, st, ok).configured = st.configured
      /\ Enabled(s, st, ok).interval = st.interval
      /\ Enabled(s, st, ok).name = st.name
      /\ Enabled(s, st, ok).cached = BuildHeartbeat(s, bare)
      /\ Enabled(s, st, ok).quiet = IF ok THEN 0 ELSE st.quiet
  BY <1>2, <1>3, <1>4, SentHeartbeat
<1>6. BuildHeartbeat(s, Enabled(s, st, ok)) = BuildHeartbeat(s, bare)
  BY <1>2, <1>5 DEF BuildHeartbeat, Unconfigured
<1> QED
  BY <1>5, <1>6

LEMMA ReleasedState == Released \in ServiceState /\ ~Released.enabled /\ ~Released.exists
<1>1. NoHeartbeat \in Cached /\ AgeCap \in Nat
  BY ServiceConstants DEF NoHeartbeat, Cached, AnyName
<1> QED
  BY <1>1 DEF Released, ServiceState, AnyName

(* A call that changes one service, and leaves it as the step may.         *)
LEMMA OneService ==
  ASSUME IInv, NEW s \in Service, NEW new \in ServiceState,
         svc' = [svc EXCEPT ![s] = new],
         new.enabled => new.exists,
         hubConfirmed' \in BOOLEAN, checked' \in BOOLEAN,
         file' \in [Service -> Saved \cup {NoFile, TornFile}],
         \A k \in DOMAIN sent' : sent'[k].service \in Service
  PROVE  /\ IInv'
         /\ svc'[s] = new
         /\ \A x \in Service \ {s} : svc'[x] = svc[x]
         /\ \A x \in Service \ {s} : Orderly(x) /\ Punctual(x)
<1>1. /\ svc' \in [Service -> ServiceState]
      /\ svc'[s] = new
      /\ \A x \in Service \ {s} : svc'[x] = svc[x]
  BY DEF IInv, TypeOK
<1>2. IInv'
  BY <1>1 DEF IInv, TypeOK, EnabledExists
<1>3. \A x \in Service \ {s} : Orderly(x) /\ Punctual(x)
  BY <1>1 DEF Orderly, GoesOn, Punctual
<1> QED
  BY <1>1, <1>2, <1>3

(* What a call sends: nothing, one message of the service, or two.         *)
LEMMA SentNothing == \A k \in DOMAIN << >> : << >>[k].service \in Service
<1>1. DOMAIN << >> = {}
  BY EmptySeq
<1> QED
  BY <1>1

LEMMA SentOne ==
  ASSUME NEW s \in Service, NEW h, NEW e, NEW list,
         list \in {<<Message(s, h, e)>>, << >>}
  PROVE  \A k \in DOMAIN list : list[k].service \in Service
<1> DEFINE m == Message(s, h, e)
<1>1. m.service = s
  BY DEF Message
<1> HIDE DEF m
<1>2. \A k \in DOMAIN <<m>> : <<m>>[k].service \in Service
  BY <1>1
<1> QED
  BY <1>2, SentNothing DEF m

LEMMA SentTwo ==
  ASSUME NEW s \in Service, NEW h1, NEW h2, NEW e1, NEW e2,
         NEW ok1, NEW ok2, NEW list,
         list = Sends(Message(s, h1, e1), ok1, Message(s, h2, e2), ok2)
  PROVE  \A k \in DOMAIN list : list[k].service \in Service
<1> DEFINE m1 == Message(s, h1, e1)
           m2 == Message(s, h2, e2)
           first == IF ok1 THEN <<m1>> ELSE << >>
           second == IF ok2 THEN <<m2>> ELSE << >>
<1>1. m1.service = s /\ m2.service = s
  BY DEF Message
<1>2. list = first \o second
  BY DEF Sends
<1> HIDE DEF m1, m2
<1>3. first \in Seq({m1, m2}) /\ second \in Seq({m1, m2})
  <2>1. <<m1>> \in Seq({m1, m2}) /\ <<m2>> \in Seq({m1, m2}) /\ << >> \in Seq({m1, m2})
    BY EmptySeq
  <2> QED
    BY <2>1
<1> HIDE DEF first, second
<1>4. list \in Seq({m1, m2})
  BY <1>2, <1>3, ConcatProperties
<1>5. \A k \in DOMAIN list : list[k] \in {m1, m2}
  BY <1>4, LenProperties, ElementOfSeq
<1> QED
  BY <1>1, <1>5

-----------------------------------------------------------------------------
(* Every step keeps the types, and is orderly and punctual for every       *)
(* service.                                                                *)
GoodStep ==
  IInv' /\ \A x \in Service : Punctual(x) /\ (SteadyUse => Orderly(x))

LEMMA CreateIsGood ==
  ASSUME IInv, NEW s \in Service, Create(s)
  PROVE  GoodStep
<1> DEFINE new == IF s \in Configurable /\ file[s].state = "saved"
                    THEN [NewService EXCEPT !.name = file[s].name,
                                            !.interval = file[s].interval * Minute,
                                            !.configured = TRUE]
                    ELSE NewService
<1>1. /\ NewService \in ServiceState /\ NewService.exists /\ ~NewService.enabled
  <2>1. DefaultInterval * Minute \in Int
    BY ServiceConstants
  <2> QED
    BY <2>1, ReleasedState DEF NewService, ServiceState, AnyName, Released
<1>2. new \in ServiceState /\ new.exists /\ ~new.enabled
  <2>1. CASE s \in Configurable /\ file[s].state = "saved"
    <3>1. file[s] \in Saved
      BY <2>1 DEF IInv, TypeOK, NoFile, TornFile
    <3>2. file[s].name \in AnyName /\ file[s].interval * Minute \in Int
      BY <3>1, ServiceConstants DEF Saved
    <3> QED
      BY <1>1, <2>1, <3>2 DEF ServiceState
  <2>2. CASE ~(s \in Configurable /\ file[s].state = "saved")
    BY <1>1, <2>2
  <2> QED
    BY <2>1, <2>2
<1>3. svc' = [svc EXCEPT ![s] = new] /\ sent' = << >> /\ UNCHANGED <<hubConfirmed, checked, file>>
  BY DEF Create
<1> HIDE DEF new
<1>4. \A k \in DOMAIN sent' : sent'[k].service \in Service
  BY <1>3, SentNothing
<1>5. /\ IInv' /\ svc'[s] = new
      /\ \A x \in Service \ {s} : Orderly(x) /\ Punctual(x)
  BY <1>2, <1>3, <1>4, OneService DEF IInv, TypeOK
<1>6. Orderly(s) /\ Punctual(s)
  BY <1>2, <1>5 DEF Orderly, Punctual
<1> QED
  BY <1>5, <1>6 DEF GoodStep

LEMMA EnableIsGood ==
  ASSUME IInv, NEW s \in Service, Enable(s)
  PROVE  GoodStep
<1>1. PICK ok \in BOOLEAN :
        /\ SendingWorks => ok
        /\ svc' = [svc EXCEPT ![s] = Enabled(s, svc[s], ok)]
        /\ sent' = IF ok THEN <<Message(s, svc'[s].cached, FALSE)>> ELSE << >>
  BY DEF Enable, Outcome, SendingWorks
<1>2. svc[s].exists /\ svc[s] \in ServiceState /\ UNCHANGED <<hubConfirmed, checked, file>>
  BY DEF Enable, IInv, TypeOK
<1> DEFINE new == Enabled(s, svc[s], ok)
<1>3. /\ new \in ServiceState /\ new.exists /\ new.cached = BuildHeartbeat(s, new)
      /\ new.quiet = IF ok THEN 0 ELSE svc[s].quiet
  BY <1>2, EnabledState
<1>4. \A k \in DOMAIN sent' : sent'[k].service \in Service
  BY <1>1, SentOne
<1> HIDE DEF new
<1>5. /\ IInv' /\ svc'[s] = new
      /\ \A x \in Service \ {s} : Orderly(x) /\ Punctual(x)
  BY <1>1, <1>2, <1>3, <1>4, OneService DEF IInv, TypeOK, new
<1>6. Orderly(s) /\ Punctual(s)
  BY <1>1, <1>3, <1>5 DEF Orderly, Restarted, Punctual
<1> QED
  BY <1>5, <1>6 DEF GoodStep

LEMMA DisableIsGood ==
  ASSUME IInv, NEW s \in Service, Disable(s)
  PROVE  GoodStep
<1> DEFINE new == [svc[s] EXCEPT !.enabled = FALSE]
<1>1. svc[s] \in ServiceState /\ svc' = [svc EXCEPT ![s] = new]
      /\ UNCHANGED <<hubConfirmed, checked, file>>
  BY DEF Disable, IInv, TypeOK
<1>2. new \in ServiceState /\ ~new.enabled
  BY <1>1 DEF ServiceState
<1>3. \A k \in DOMAIN sent' : sent'[k].service \in Service
  <2>1. PICK ok \in BOOLEAN : sent' = IF ok THEN <<Goodbye(s, svc[s])>> ELSE << >>
    BY DEF Disable, Outcome
  <2> QED
    BY <2>1, SentOne DEF Goodbye
<1> HIDE DEF new
<1>4. /\ IInv' /\ svc'[s] = new
      /\ \A x \in Service \ {s} : Orderly(x) /\ Punctual(x)
  BY <1>1, <1>2, <1>3, OneService DEF IInv, TypeOK
<1> QED
  BY <1>2, <1>4 DEF GoodStep, Orderly, Punctual

LEMMA ReleaseIsGood ==
  ASSUME IInv, NEW s \in Service, Release(s)
  PROVE  GoodStep
<1>1. svc' = [svc EXCEPT ![s] = Released] /\ UNCHANGED <<hubConfirmed, checked, file>>
  BY DEF Release
<1>2. \A k \in DOMAIN sent' : sent'[k].service \in Service
  <2>1. PICK ok \in BOOLEAN :
          sent' = IF ok /\ svc[s].enabled THEN <<Goodbye(s, svc[s])>> ELSE << >>
    BY DEF Release, Outcome
  <2> QED
    BY <2>1, SentOne DEF Goodbye
<1>3. /\ IInv' /\ svc'[s] = Released
      /\ \A x \in Service \ {s} : Orderly(x) /\ Punctual(x)
  BY <1>1, <1>2, ReleasedState, OneService DEF IInv, TypeOK
<1> QED
  BY <1>3, ReleasedState DEF GoodStep, Orderly, Punctual

(* A service that is renamed may be enabled only outside ordinary use.     *)
LEMMA SetInstanceIDIsGood ==
  ASSUME IInv, NEW s \in Service, NEW name \in Name, SetInstanceID(s, name)
  PROVE  GoodStep
<1> DEFINE renamed == [svc[s] EXCEPT
                         !.name = name,
                         !.cached.name = IF svc[s].cached = NoHeartbeat THEN @ ELSE Freed]
<1>1. /\ svc[s] \in ServiceState /\ svc[s].exists
      /\ svc[s].enabled => "rename while enabled" \in Use
      /\ UNCHANGED <<hubConfirmed, checked, file>>
  BY DEF SetInstanceID, IInv, TypeOK
<1>2. PICK ok1 \in BOOLEAN, ok2 \in BOOLEAN :
        IF svc[s].enabled
          THEN /\ svc' = [svc EXCEPT ![s] = AfterHeartbeat(s, renamed, ok2)]
               /\ sent' = Sends(Goodbye(s, svc[s]), ok1,
                                Message(s, AfterHeartbeat(s, renamed, ok2).cached, FALSE), ok2)
          ELSE svc' = [svc EXCEPT ![s] = renamed] /\ sent' = << >>
  BY DEF SetInstanceID, Outcome
<1>3. /\ renamed \in ServiceState /\ renamed.exists
      /\ renamed.enabled = svc[s].enabled /\ renamed.quiet = svc[s].quiet
  BY <1>1 DEF ServiceState, Cached, AnyName
<1> HIDE DEF renamed
<1>4. CASE svc[s].enabled
  <2> DEFINE new == AfterHeartbeat(s, renamed, ok2)
  <2>1. /\ new \in ServiceState /\ new.exists
        /\ new.quiet \in {svc[s].quiet, 0}
    BY <1>3, SentHeartbeat
  <2>2. \A k \in DOMAIN sent' : sent'[k].service \in Service
    <3>1. sent' = Sends(Message(s, BuildHeartbeat(s, svc[s]), TRUE), ok1,
                        Message(s, new.cached, FALSE), ok2)
      BY <1>2, <1>4 DEF Goodbye
    <3> HIDE DEF new
    <3> QED
      BY <3>1, SentTwo
  <2> HIDE DEF new
  <2>3. /\ IInv' /\ svc'[s] = new
        /\ \A x \in Service \ {s} : Orderly(x) /\ Punctual(x)
    BY <1>1, <1>2, <1>4, <2>1, <2>2, OneService DEF IInv, TypeOK, new
  <2>4. ~SteadyUse
    BY <1>1, <1>4 DEF SteadyUse
  <2> QED
    BY <2>1, <2>3, <2>4 DEF GoodStep, Punctual
<1>5. CASE ~svc[s].enabled
  <2>1. \A k \in DOMAIN sent' : sent'[k].service \in Service
    BY <1>2, <1>5, SentNothing
  <2>2. /\ IInv' /\ svc'[s] = renamed
        /\ \A x \in Service \ {s} : Orderly(x) /\ Punctual(x)
    BY <1>1, <1>2, <1>3, <1>5, <2>1, OneService DEF IInv, TypeOK
  <2> QED
    BY <1>3, <1>5, <2>2 DEF GoodStep, Orderly, Punctual
<1> QED
  BY <1>4, <1>5

LEMMA SetHeartbeatIntervalIsGood ==
  ASSUME IInv, NEW s \in Service, NEW interval \in ApiInterval,
         SetHeartbeatInterval(s, interval)
  PROVE  GoodStep
<1> DEFINE new == [svc[s] EXCEPT !.interval = interval]
<1>1. /\ svc[s] \in ServiceState /\ svc[s].exists
      /\ svc[s].enabled => "interval while enabled" \in Use
      /\ svc' = [svc EXCEPT ![s] = new] /\ sent' = << >>
      /\ UNCHANGED <<hubConfirmed, checked, file>>
  BY DEF SetHeartbeatInterval, IInv, TypeOK
<1>2. /\ new \in ServiceState /\ new.exists
      /\ new.enabled = svc[s].enabled /\ new.quiet = svc[s].quiet
  <2>1. interval \in Int
    BY ServiceConstants
  <2> QED
    BY <1>1, <2>1 DEF ServiceState
<1>3. \A k \in DOMAIN sent' : sent'[k].service \in Service
  BY <1>1, SentNothing
<1> HIDE DEF new
<1>4. /\ IInv' /\ svc'[s] = new
      /\ \A x \in Service \ {s} : Orderly(x) /\ Punctual(x)
  BY <1>1, <1>2, <1>3, OneService DEF IInv, TypeOK
<1>5. new.enabled => ~SteadyUse
  BY <1>1, <1>2 DEF SteadyUse
<1> QED
  BY <1>2, <1>4, <1>5 DEF GoodStep, Orderly, Punctual

(* What installNewConfig makes of a service and its file.                  *)
LEMMA NewConfig ==
  ASSUME IInv, NEW s \in Service,
         NEW newconf \in Name \cup {NoItem}, NEW minutes \in ManagerInterval \cup {NoItem}
  PROVE  /\ Configured(s, newconf, minutes) \in ServiceState
         /\ Configured(s, newconf, minutes).exists = svc[s].exists
         /\ Configured(s, newconf, minutes).enabled = svc[s].enabled
         /\ Configured(s, newconf, minutes).configured
         /\ Configured(s, newconf, minutes).interval = NewInterval(s, minutes)
         /\ Configured(s, newconf, minutes).name = NewName(s, newconf)
         /\ Configured(s, newconf, minutes).quiet = svc[s].quiet
         /\ ~Changes(s, newconf, minutes)
              => Configured(s, newconf, minutes).cached = svc[s].cached
         /\ ToFile(s, newconf, minutes) \in Saved
<1>1. svc[s] \in ServiceState
  BY DEF IInv, TypeOK
<1>2. NewName(s, newconf) \in AnyName
  BY <1>1 DEF NewName, ServiceState, AnyName
<1>3. NewInterval(s, minutes) \in Int
  <2>1. CASE minutes = NoItem
    BY <1>1, <2>1 DEF NewInterval, ServiceState
  <2>2. CASE minutes # NoItem
    <3>1. minutes \in Int /\ Minute \in Int
      BY <2>2, ServiceConstants
    <3> QED
      BY <2>2, <3>1 DEF NewInterval
  <2> QED
    BY <2>1, <2>2
<1>4. NewInterval(s, minutes) \div Minute \in Int
  BY <1>3, ServiceConstants
<1>5. ToFile(s, newconf, minutes) \in Saved
  BY <1>2, <1>4 DEF ToFile, Saved
<1> DEFINE name == NewName(s, newconf)
           interval == NewInterval(s, minutes)
           loses == svc[s].cached # NoHeartbeat /\ name # svc[s].name
           old == svc[s]
<1>6. Configured(s, newconf, minutes) =
        [old EXCEPT !.name = name, !.cached.name = IF loses THEN Freed ELSE @,
                    !.interval = interval, !.configured = TRUE]
  BY DEF Configured
<1>7. old \in ServiceState /\ name \in AnyName /\ interval \in Int /\ Freed \in AnyName
  BY <1>1, <1>2, <1>3 DEF AnyName
<1>8. ~Changes(s, newconf, minutes) => ~loses
  BY DEF Changes
<1> HIDE DEF name, interval, loses, old
<1> DEFINE cached == [old.cached EXCEPT !.name = IF loses THEN Freed ELSE @]
<1>9. cached \in Cached /\ (~loses => cached = old.cached)
  BY <1>7 DEF ServiceState, Cached
<1>10. Configured(s, newconf, minutes) =
         [old EXCEPT !.name = name, !.cached = cached,
                     !.interval = interval, !.configured = TRUE]
  BY <1>6, <1>7 DEF ServiceState
<1> HIDE DEF cached
<1>11. /\ Configured(s, newconf, minutes) \in ServiceState
       /\ Configured(s, newconf, minutes).exists = old.exists
       /\ Configured(s, newconf, minutes).enabled = old.enabled
       /\ Configured(s, newconf, minutes).configured
       /\ Configured(s, newconf, minutes).interval = interval
       /\ Configured(s, newconf, minutes).name = name
       /\ Configured(s, newconf, minutes).quiet = old.quiet
       /\ ~loses => Configured(s, newconf, minutes).cached = old.cached
  BY <1>7, <1>9, <1>10 DEF ServiceState
<1> QED
  <2>1. ~Changes(s, newconf, minutes) => Configured(s, newconf, minutes).cached = old.cached
    BY <1>8, <1>11
  <2>2. old = svc[s] /\ name = NewName(s, newconf) /\ interval = NewInterval(s, minutes)
    BY DEF old, name, interval
  <2> QED
    BY <1>5, <1>11, <2>1, <2>2

LEMMA InstallNewConfigIsGood ==
  ASSUME IInv, NEW s \in Service,
         NEW newconf \in Name \cup {NoItem}, NEW minutes \in ManagerInterval \cup {NoItem},
         InstallNewConfig(s, newconf, minutes)
  PROVE  GoodStep
<1> DEFINE conf == Configured(s, newconf, minutes)
<1>1. /\ conf \in ServiceState /\ conf.exists = svc[s].exists /\ conf.enabled = svc[s].enabled
      /\ conf.configured /\ conf.interval = NewInterval(s, minutes)
      /\ conf.name = NewName(s, newconf) /\ conf.quiet = svc[s].quiet
      /\ ~Changes(s, newconf, minutes) => conf.cached = svc[s].cached
  BY NewConfig
<1>2. /\ svc[s].exists /\ hubConfirmed' = hubConfirmed /\ checked' = checked
      /\ svc[s].enabled /\ ~svc[s].configured /\ ~Changes(s, newconf, minutes)
           => "response without change" \in Use
  BY DEF InstallNewConfig, Responds
<1>3. hubConfirmed' \in BOOLEAN /\ checked' \in BOOLEAN
  BY <1>2 DEF IInv, TypeOK
<1>4. file' \in [Service -> Saved \cup {NoFile, TornFile}]
  <2>1. ToFile(s, newconf, minutes) \in Saved
    BY NewConfig
  <2> QED
    BY <2>1 DEF InstallNewConfig, IInv, TypeOK
<1>5. CASE svc[s].enabled /\ Changes(s, newconf, minutes)
  <2>1. PICK ok1 \in BOOLEAN, ok2 \in BOOLEAN :
          /\ SendingWorks => ok2
          /\ svc' = [svc EXCEPT ![s] = Enabled(s, conf, ok2)]
          /\ sent' = Sends(Goodbye(s, svc[s]), ok1, Message(s, svc'[s].cached, FALSE), ok2)
    BY <1>5 DEF InstallNewConfig, Outcome, SendingWorks
  <2> HIDE DEF conf
  <2> DEFINE new == Enabled(s, conf, ok2)
  <2>2. /\ new \in ServiceState /\ new.exists /\ new.cached = BuildHeartbeat(s, new)
        /\ new.quiet = IF ok2 THEN 0 ELSE svc[s].quiet
    BY <1>1, <1>2, EnabledState
  <2> HIDE DEF new
  <2>3. \A k \in DOMAIN sent' : sent'[k].service \in Service
    BY <2>1, SentTwo DEF Goodbye
  <2>4. /\ IInv' /\ svc'[s] = new
        /\ \A x \in Service \ {s} : Orderly(x) /\ Punctual(x)
    BY <1>3, <1>4, <2>1, <2>2, <2>3, OneService DEF new
  <2> QED
    BY <2>1, <2>2, <2>4 DEF GoodStep, Orderly, Restarted, Punctual
<1>6. CASE ~(svc[s].enabled /\ Changes(s, newconf, minutes))
  <2>1. svc' = [svc EXCEPT ![s] = conf] /\ sent' = << >>
    BY <1>6 DEF InstallNewConfig
  <2>2. \A k \in DOMAIN sent' : sent'[k].service \in Service
    BY <2>1, SentNothing
  <2> HIDE DEF conf
  <2>3. /\ IInv' /\ svc'[s] = conf
        /\ \A x \in Service \ {s} : Orderly(x) /\ Punctual(x)
    BY <1>1, <1>2, <1>3, <1>4, <2>1, <2>2, OneService
  <2>4. ASSUME conf.enabled PROVE GoesOn(s) \/ Confirmed(s)
    <3>1. svc[s].enabled /\ ~Changes(s, newconf, minutes)
      BY <1>1, <1>6, <2>4
    <3>2. conf.name = svc[s].name /\ conf.interval = svc[s].interval
      BY <1>1, <3>1 DEF Changes
    <3>3. CASE svc[s].configured
      BY <1>1, <2>3, <3>1, <3>2, <3>3 DEF GoesOn, Unconfigured
    <3>4. CASE ~svc[s].configured
      BY <1>1, <1>2, <2>3, <3>1, <3>2, <3>4 DEF Confirmed
    <3> QED
      BY <3>3, <3>4
  <2> QED
    BY <1>1, <2>3, <2>4 DEF GoodStep, Orderly, Punctual
<1> QED
  BY <1>5, <1>6

(* A program that died runs no service.                                    *)
LEMMA DyingIsGood ==
  ASSUME IInv, Dies,
         file' \in [Service -> Saved \cup {NoFile, TornFile}],
         \A k \in DOMAIN sent' : sent'[k].service \in Service
  PROVE  GoodStep
<1>1. /\ svc' \in [Service -> ServiceState]
      /\ \A x \in Service : ~svc'[x].enabled
  BY ReleasedState DEF Dies
<1>2. IInv'
  BY <1>1 DEF Dies, IInv, TypeOK, EnabledExists
<1> QED
  BY <1>1, <1>2 DEF GoodStep, Orderly, Punctual

LEMMA CrashWhileSavingIsGood ==
  ASSUME IInv, NEW s \in Service, NEW newconf, NEW minutes,
         CrashWhileSaving(s, newconf, minutes)
  PROVE  GoodStep
<1>1. Dies /\ file' \in [Service -> Saved \cup {NoFile, TornFile}]
  BY DEF CrashWhileSaving, IInv, TypeOK
<1>2. \A k \in DOMAIN sent' : sent'[k].service \in Service
  <2>1. PICK ok \in BOOLEAN :
          sent' = IF ok /\ svc[s].enabled /\ Changes(s, newconf, minutes)
                    THEN <<Goodbye(s, svc[s])>> ELSE << >>
    BY DEF CrashWhileSaving, Outcome
  <2> QED
    BY <2>1, SentOne DEF Goodbye
<1> QED
  BY <1>1, <1>2, DyingIsGood

(* Heartbeats of several services.                                         *)
LEMMA SendHeartbeatsCases ==
  ASSUME IInv, NEW senders, senders \subseteq Service, SendHeartbeats(senders)
  PROVE  /\ svc' \in [Service -> ServiceState]
         /\ \A x \in Service \ senders : svc'[x] = svc[x]
         /\ \A x \in senders : \E ok \in BOOLEAN :
              (SendingWorks => ok) /\ svc'[x] = AfterHeartbeat(x, svc[x], ok)
         /\ \A k \in DOMAIN sent' : sent'[k].service \in Service
<1>0. PICK ok \in SUBSET senders :
        /\ SendMayFail \/ ok = senders
        /\ \E order \in SetToSeqs(ok) :
             /\ svc' = [s \in Service |->
                          IF s \in senders THEN AfterHeartbeat(s, svc[s], s \in ok) ELSE svc[s]]
             /\ sent' = [k \in DOMAIN order |->
                           Message(order[k], Kept(order[k], svc[order[k]]), FALSE)]
  BY DEF SendHeartbeats
<1>1. PICK order \in SetToSeqs(ok) :
        /\ svc' = [s \in Service |->
                     IF s \in senders THEN AfterHeartbeat(s, svc[s], s \in ok) ELSE svc[s]]
        /\ sent' = [k \in DOMAIN order |->
                      Message(order[k], Kept(order[k], svc[order[k]]), FALSE)]
  BY <1>0
<1>2. \A x \in Service : svc[x] \in ServiceState
  BY DEF IInv, TypeOK
<1>3. \A x \in Service : \A b \in BOOLEAN : AfterHeartbeat(x, svc[x], b) \in ServiceState
  BY <1>2, SentHeartbeat
<1>8. ASSUME NEW x \in Service
      PROVE  AfterHeartbeat(x, svc[x], x \in ok)
               = IF x \in ok THEN AfterHeartbeat(x, svc[x], TRUE)
                             ELSE AfterHeartbeat(x, svc[x], FALSE)
  BY DEF AfterHeartbeat
<1>4. svc' \in [Service -> ServiceState]
  <2>1. \A x \in Service : AfterHeartbeat(x, svc[x], x \in ok) \in ServiceState
    BY <1>3, <1>8
  <2> QED
    BY <1>1, <1>2, <2>1
<1>5. \A x \in Service \ senders : svc'[x] = svc[x]
  BY <1>1
<1>6. ASSUME NEW x \in senders
      PROVE  \E b \in BOOLEAN : (SendingWorks => b) /\ svc'[x] = AfterHeartbeat(x, svc[x], b)
  <2>1. svc'[x] = AfterHeartbeat(x, svc[x], x \in ok)
    BY <1>1
  <2>2. SendingWorks => x \in ok
    BY <1>0 DEF SendingWorks
  <2> QED
    BY <1>8, <2>1, <2>2
<1>7. \A k \in DOMAIN sent' : sent'[k].service \in Service
  <2>1. \A k \in DOMAIN order : order[k] \in Service
    BY <1>0, <1>1 DEF SetToSeqs
  <2> QED
    BY <1>1, <2>1 DEF Message
<1> QED
  BY <1>4, <1>5, <1>6, <1>7

LEMMA SendHeartbeatsIsGood ==
  ASSUME IInv, NEW senders, senders \subseteq Service, SendHeartbeats(senders),
         hubConfirmed' = hubConfirmed, checked' \in BOOLEAN, file' = file
  PROVE  GoodStep
<1>1. /\ svc' \in [Service -> ServiceState]
      /\ \A x \in Service \ senders : svc'[x] = svc[x]
      /\ \A k \in DOMAIN sent' : sent'[k].service \in Service
  BY SendHeartbeatsCases
<1>2. ASSUME NEW x \in senders
      PROVE  /\ svc'[x].exists = svc[x].exists /\ svc'[x].enabled = svc[x].enabled
             /\ svc'[x].configured = svc[x].configured
             /\ svc'[x].interval = svc[x].interval /\ svc'[x].name = svc[x].name
             /\ svc'[x].cached = Kept(x, svc[x])
             /\ svc'[x].quiet \in {svc[x].quiet, 0}
  <2>1. svc[x] \in ServiceState
    BY DEF IInv, TypeOK
  <2>2. PICK ok \in BOOLEAN : svc'[x] = AfterHeartbeat(x, svc[x], ok)
    BY SendHeartbeatsCases
  <2> QED
    BY <2>1, <2>2, SentHeartbeat
<1>3. IInv'
  BY <1>1, <1>2 DEF IInv, TypeOK, EnabledExists
<1>4. \A x \in Service : Punctual(x) /\ Orderly(x)
  BY <1>1, <1>2 DEF Punctual, Orderly, GoesOn, Unconfigured
<1> QED
  BY <1>3, <1>4 DEF GoodStep

(* The clock ages the services and leaves the rest.                        *)
LEMMA TickIsOrderly ==
  ASSUME IInv, Tick
  PROVE  /\ IInv' /\ \A x \in Service : Orderly(x)
         /\ \A x \in Service : svc'[x].quiet \in {svc[x].quiet, svc[x].quiet + 1}
<1>1. ASSUME NEW x \in Service
      PROVE  /\ svc'[x] \in ServiceState
             /\ svc'[x].exists = svc[x].exists /\ svc'[x].enabled = svc[x].enabled
             /\ svc'[x].configured = svc[x].configured
             /\ svc'[x].interval = svc[x].interval /\ svc'[x].name = svc[x].name
             /\ svc'[x].cached = svc[x].cached
             /\ svc'[x].quiet \in {svc[x].quiet, svc[x].quiet + 1}
  <2>1. svc[x] \in ServiceState
    BY DEF IInv, TypeOK
  <2>2. svc'[x] = IF svc[x].exists THEN [svc[x] EXCEPT !.quiet = Aged(@)] ELSE svc[x]
    BY DEF Tick
  <2>3. Aged(svc[x].quiet) \in Nat /\ Aged(svc[x].quiet) \in {svc[x].quiet, svc[x].quiet + 1}
    BY <2>1 DEF ServiceState, Aged
  <2> QED
    BY <2>1, <2>2, <2>3 DEF ServiceState
<1>2. svc' \in [Service -> ServiceState]
  BY <1>1 DEF Tick
<1>3. \A k \in DOMAIN sent' : sent'[k].service \in Service
  BY SentNothing DEF Tick
<1>4. IInv'
  BY <1>1, <1>2, <1>3 DEF Tick, IInv, TypeOK, EnabledExists
<1>5. \A x \in Service : Orderly(x)
  BY <1>1 DEF Orderly, GoesOn, Unconfigured
<1> QED
  BY <1>1, <1>4, <1>5

(* Every step but the clock's is good.                                     *)
LEMMA StepIsGood ==
  ASSUME IInv, [Next]_vars
  PROVE  Tick \/ GoodStep
<1>1. ASSUME NEW s \in Service, Call(s) PROVE GoodStep
  BY <1>1, CreateIsGood, EnableIsGood, DisableIsGood, ReleaseIsGood,
     SetInstanceIDIsGood, SetHeartbeatIntervalIsGood DEF Call
<1>2. ASSUME NEW s \in Service, Response(s) PROVE GoodStep
  BY <1>2, InstallNewConfigIsGood, CrashWhileSavingIsGood DEF Response
<1>3. CASE HeartbeatRequest
  <2>1. SendHeartbeats({s \in Service : svc[s].exists})
        /\ UNCHANGED <<hubConfirmed, checked, file>>
    BY <1>3 DEF HeartbeatRequest
  <2>2. checked' \in BOOLEAN
    BY <2>1 DEF IInv, TypeOK
  <2> QED
    BY <2>1, <2>2, SendHeartbeatsIsGood
<1>4. CASE SendTimelyHeartbeats
  BY <1>4, SendHeartbeatsIsGood DEF SendTimelyHeartbeats
<1>5. CASE ReceiveEcho \/ UNCHANGED vars
  <2>1. svc' = svc /\ checked' = checked /\ file' = file
    BY <1>5 DEF ReceiveEcho, vars
  <2>2. \A k \in DOMAIN sent' : sent'[k].service \in Service
    BY <1>5, SentNothing DEF ReceiveEcho, vars, IInv, TypeOK
  <2>3. IInv'
    BY <1>5, <2>1, <2>2 DEF ReceiveEcho, vars, IInv, TypeOK, EnabledExists
  <2> QED
    BY <2>1, <2>3 DEF GoodStep, Punctual, Orderly, GoesOn, Unconfigured
<1>6. CASE Crash
  BY <1>6, DyingIsGood, SentNothing DEF Crash, IInv, TypeOK
<1> QED
  BY <1>1, <1>2, <1>3, <1>4, <1>5, <1>6 DEF Next

LEMMA IInvInit == Init => IInv
<1> SUFFICES ASSUME Init PROVE IInv
  OBVIOUS
<1>1. svc \in [Service -> ServiceState] /\ \A s \in Service : ~svc[s].enabled
  BY ReleasedState DEF Init
<1> QED
  BY <1>1, SentNothing DEF Init, IInv, TypeOK, EnabledExists

LEMMA IInvNext == IInv /\ [Next]_vars => IInv'
BY StepIsGood, TickIsOrderly DEF GoodStep

-----------------------------------------------------------------------------
(* The services, the files and the messages keep their types, whatever the *)
(* program, the manager and the network do.                                *)
THEOREM ServicesAreTyped == Spec => []TypeOK
<1>1. IInv => TypeOK
  BY DEF IInv
<1> QED
  BY <1>1, IInvInit, IInvNext, PTL DEF Spec

(* What a service would announce is told by its name and interval, and by  *)
(* whether it waits for its configuration.                                 *)
LEMMA SameAnnouncement ==
  ASSUME NEW s \in Service, NEW old \in ServiceState, NEW new \in ServiceState,
         new.interval = old.interval, new.name = old.name
  PROVE  /\ BeforeTheAnswer(s, new) = BeforeTheAnswer(s, old)
         /\ (Unconfigured(s, new) <=> Unconfigured(s, old))
              => BuildHeartbeat(s, new) = BuildHeartbeat(s, old)
         /\ Unconfigured(s, old) => BuildHeartbeat(s, old) = BeforeTheAnswer(s, old)
         /\ s \notin Configurable => BuildHeartbeat(s, old) = BeforeTheAnswer(s, old)
<1>1. \A st \in ServiceState :
        /\ [st EXCEPT !.configured = FALSE].configured = FALSE
        /\ [st EXCEPT !.configured = FALSE].name = st.name
        /\ [st EXCEPT !.configured = FALSE].interval = st.interval
  BY DEF ServiceState
<1> QED
  BY <1>1 DEF BeforeTheAnswer, BuildHeartbeat, Unconfigured

(* As long as the program renames and times no service that is enabled:    *)
(* the heartbeat such a service keeps and repeats is the one it would      *)
(* build afresh, or, where a first answer told it the name and interval it *)
(* had, the one it had kept until then; no creation, restart, answer,      *)
(* crash or configuration leaves it announcing anything else.              *)
THEOREM KeptHeartbeatsAreCurrent ==
  ASSUME SteadyUse PROVE Spec => []KeptHeartbeatIsCurrent
<1>1. Init => KeptHeartbeatIsCurrent
  BY ReleasedState DEF Init, KeptHeartbeatIsCurrent
<1>2. IInv /\ KeptHeartbeatIsCurrent /\ [Next]_vars => KeptHeartbeatIsCurrent'
  <2> SUFFICES ASSUME IInv, KeptHeartbeatIsCurrent, [Next]_vars,
                      NEW s \in Service, svc'[s].enabled
               PROVE  \/ svc'[s].cached = BuildHeartbeat(s, svc'[s])
                      \/ /\ "response without change" \in Use /\ svc'[s].configured
                         /\ svc'[s].cached = BeforeTheAnswer(s, svc'[s])
    BY DEF KeptHeartbeatIsCurrent, BeforeTheAnswer, BuildHeartbeat, Unconfigured
  <2>1. Orderly(s) /\ svc[s] \in ServiceState /\ svc'[s] \in ServiceState
    BY IInvNext, StepIsGood, TickIsOrderly DEF GoodStep, IInv, TypeOK
  <2>2. CASE Restarted(s)
    BY <2>2 DEF Restarted
  <2>3. ASSUME svc[s].enabled
        PROVE  \/ svc[s].cached = BuildHeartbeat(s, svc[s])
               \/ /\ "response without change" \in Use /\ svc[s].configured
                  /\ svc[s].cached = BeforeTheAnswer(s, svc[s])
    BY <2>3 DEF KeptHeartbeatIsCurrent
  <2>4. CASE GoesOn(s)
    <3>1. svc[s].enabled /\ svc'[s].interval = svc[s].interval /\ svc'[s].name = svc[s].name
          /\ (Unconfigured(s, svc'[s]) <=> Unconfigured(s, svc[s]))
      BY <2>4 DEF GoesOn
    <3>2. svc[s].cached # NoHeartbeat
      <4>1. [svc[s] EXCEPT !.configured = FALSE] \in ServiceState
        BY <2>1 DEF ServiceState
      <4> QED
        BY <2>1, <2>3, <3>1, <4>1, BuiltHeartbeat DEF BeforeTheAnswer
    <3>3. svc'[s].cached = svc[s].cached
      BY <2>4, <3>2 DEF GoesOn, Kept
    <3>4. /\ BuildHeartbeat(s, svc'[s]) = BuildHeartbeat(s, svc[s])
          /\ BeforeTheAnswer(s, svc'[s]) = BeforeTheAnswer(s, svc[s])
      BY <2>1, <3>1, SameAnnouncement
    <3>5. CASE svc[s].cached = BuildHeartbeat(s, svc[s])
      BY <3>3, <3>4, <3>5
    <3>6. CASE /\ "response without change" \in Use /\ svc[s].configured
               /\ svc[s].cached = BeforeTheAnswer(s, svc[s])
      <4>1. CASE s \in Configurable
        <5>1. svc'[s].configured
          BY <3>1, <3>6, <4>1 DEF Unconfigured
        <5> QED
          BY <3>3, <3>4, <3>6, <5>1
      <4>2. CASE s \notin Configurable
        BY <2>1, <3>1, <3>3, <3>4, <3>6, <4>2, SameAnnouncement
      <4> QED
        BY <4>1, <4>2
    <3> QED
      BY <2>3, <3>1, <3>5, <3>6
  <2>5. CASE Confirmed(s)
    <3>1. /\ "response without change" \in Use /\ svc[s].enabled /\ svc'[s].configured
          /\ svc'[s].interval = svc[s].interval /\ svc'[s].name = svc[s].name
          /\ svc'[s].cached = svc[s].cached
      BY <2>5 DEF Confirmed
    <3>2. BeforeTheAnswer(s, svc'[s]) = BeforeTheAnswer(s, svc[s])
      BY <2>1, <3>1, SameAnnouncement
    <3>3. CASE svc[s].cached = BeforeTheAnswer(s, svc[s])
      BY <3>1, <3>2, <3>3
    <3>4. CASE svc[s].cached = BuildHeartbeat(s, svc[s])
      <4>1. CASE Unconfigured(s, svc[s])
        BY <2>1, <3>1, <3>2, <3>4, <4>1, SameAnnouncement
      <4>2. CASE ~Unconfigured(s, svc[s])
        <5>1. ~Unconfigured(s, svc'[s])
          BY <3>1 DEF Unconfigured
        <5>2. BuildHeartbeat(s, svc'[s]) = BuildHeartbeat(s, svc[s])
          BY <2>1, <3>1, <4>2, <5>1, SameAnnouncement
        <5> QED
          BY <3>1, <3>4, <5>2
      <4> QED
        BY <4>1, <4>2
    <3> QED
      BY <2>3, <3>1, <3>3, <3>4
  <2> QED
    BY <2>1, <2>2, <2>4, <2>5 DEF Orderly
<1> QED
  BY <1>1, <1>2, IInvInit, IInvNext, PTL DEF Spec

(* The two invariants of the beat, step by step: only the clock makes a    *)
(* service older, a check sends what is due, and the echo of the hub finds *)
(* no service that waited longer than a tick.                              *)
LEMMA BeatInvNext ==
  ASSUME OrdinaryUse, SendingWorks, ShortDiscovery, BeatInv, [Next]_vars
  PROVE  BeatInv'
<1>1. IInv /\ IInv'
  BY IInvNext DEF BeatInv
<1>2. ASSUME NEW s \in Service
      PROVE  /\ svc[s] \in ServiceState /\ svc'[s] \in ServiceState
             /\ svc[s].quiet \in Nat /\ svc'[s].quiet \in Nat
             /\ svc'[s].enabled => svc'[s].quiet = 0 \/ GoesOn(s)
  <2>1. svc[s] \in ServiceState /\ svc'[s] \in ServiceState
    BY <1>1 DEF IInv, TypeOK
  <2>2. SteadyUse /\ ~Confirmed(s)
    BY DEF OrdinaryUse, SteadyUse, Confirmed
  <2>3. Orderly(s)
    BY <1>1, <2>2, StepIsGood, TickIsOrderly DEF GoodStep
  <2> QED
    BY <2>1, <2>2, <2>3 DEF Orderly, Restarted, ServiceState
<1>3. ASSUME NEW s \in Service PROVE Period(s) \in Int /\ Period(s)' \in Int
  BY <1>1, <1>2, ServiceConstants DEF Period, IInv, TypeOK, ServiceState
<1>4. ASSUME NEW s \in Service, GoesOn(s), hubConfirmed' = hubConfirmed
      PROVE  Period(s)' = Period(s)
  BY <1>4 DEF GoesOn, Period, Unconfigured
<1>5. CASE Tick
  <2>1. checked /\ ~checked' /\ hubConfirmed' = hubConfirmed
    BY <1>5 DEF Tick
  <2>2. ASSUME NEW s \in Service, svc'[s].enabled
        PROVE  svc'[s].quiet <= (IF Period(s)' > 1 THEN Period(s)' ELSE 1)
    <3>1. CASE svc'[s].quiet = 0
      BY <1>3, <3>1
    <3>2. CASE GoesOn(s)
      <4>1. svc[s].quiet = 0 \/ svc[s].quiet < Period(s)
        BY <2>1, <3>2 DEF GoesOn, BeatInv, CheckIsFresh
      <4>2. svc'[s].quiet \in {svc[s].quiet, svc[s].quiet + 1} /\ Period(s)' = Period(s)
        BY <1>1, <1>4, <1>5, <2>1, <3>2, TickIsOrderly
      <4> QED
        BY <1>2, <1>3, <4>1, <4>2
    <3> QED
      BY <1>2, <2>2, <3>1, <3>2
  <2> QED
    BY <1>1, <2>1, <2>2 DEF BeatInv, CheckIsFresh, BeatIsKept
<1>6. CASE ~Tick
  <2>1. \A s \in Service : svc'[s].enabled => svc'[s].quiet \in {svc[s].quiet, 0}
    BY <1>1, <1>6, StepIsGood DEF GoodStep, Punctual
  <2>2. CASE hubConfirmed' = hubConfirmed /\ (checked' => checked)
    <3>1. ASSUME NEW s \in Service, svc'[s].enabled
          PROVE  /\ svc'[s].quiet <= (IF Period(s)' > 1 THEN Period(s)' ELSE 1)
                 /\ checked' => svc'[s].quiet = 0 \/ svc'[s].quiet < Period(s)'
      <4>1. CASE svc'[s].quiet = 0
        BY <1>3, <4>1
      <4>2. CASE svc'[s].quiet = svc[s].quiet /\ GoesOn(s)
        <5>1. svc[s].enabled /\ Period(s)' = Period(s)
          BY <1>4, <2>2, <4>2 DEF GoesOn
        <5> QED
          BY <2>2, <4>2, <5>1 DEF BeatInv, CheckIsFresh, BeatIsKept
      <4> QED
        BY <1>2, <2>1, <3>1, <4>1, <4>2
    <3> QED
      BY <1>1, <3>1 DEF BeatInv, CheckIsFresh, BeatIsKept
  <2>3. CASE SendTimelyHeartbeats
    <3>1. hubConfirmed' = hubConfirmed
      BY <2>3 DEF SendTimelyHeartbeats
    <3>2. ASSUME NEW s \in Service, svc'[s].enabled
          PROVE  svc'[s].quiet = 0 \/ svc'[s].quiet < Period(s)'
      <4>1. CASE Due(s)
        <5>1. PICK ok \in BOOLEAN :
                (SendingWorks => ok) /\ svc'[s] = AfterHeartbeat(s, svc[s], ok)
          BY <1>1, <2>3, <4>1, SendHeartbeatsCases DEF SendTimelyHeartbeats
        <5>2. ok = TRUE
          BY <5>1
        <5>3. AfterHeartbeat(s, svc[s], ok).quiet = 0
          BY <1>2, <5>2, SentHeartbeat
        <5> QED
          BY <5>1, <5>3
      <4>2. CASE ~Due(s)
        <5>1. svc'[s] = svc[s]
          BY <1>1, <2>3, <4>2, SendHeartbeatsCases DEF SendTimelyHeartbeats
        <5>2. svc[s].quiet < Period(s)
          BY <1>2, <1>3, <3>2, <4>2, <5>1 DEF Due
        <5>3. Period(s)' = Period(s)
          BY <3>1, <5>1 DEF Period, Unconfigured
        <5> QED
          BY <5>1, <5>2, <5>3
      <4> QED
        BY <4>1, <4>2
    <3>3. ASSUME NEW s \in Service, svc'[s].enabled
          PROVE  svc'[s].quiet <= (IF Period(s)' > 1 THEN Period(s)' ELSE 1)
      BY <1>2, <1>3, <3>2, <3>3
    <3> QED
      BY <1>1, <3>2, <3>3 DEF BeatInv, CheckIsFresh, BeatIsKept
  <2>4. CASE ReceiveEcho
    <3>1. svc' = svc /\ checked' = checked /\ hubConfirmed'
      BY <2>4 DEF ReceiveEcho
    <3>2. CASE hubConfirmed
      BY <2>2, <3>1, <3>2 DEF BeatInv, IInv, TypeOK
    <3>3. CASE ~hubConfirmed
      <4>1. ASSUME NEW s \in Service, svc[s].enabled
            PROVE  svc[s].quiet <= 1 /\ (checked => svc[s].quiet = 0)
        <5>1. Period(s) = Discovery /\ Discovery \in Nat /\ Discovery <= 1
          BY <3>3, ServiceConstants DEF Period, ShortDiscovery
        <5>2. svc[s].quiet <= (IF Period(s) > 1 THEN Period(s) ELSE 1)
              /\ (checked => svc[s].quiet = 0 \/ svc[s].quiet < Period(s))
          BY <4>1 DEF BeatInv, CheckIsFresh, BeatIsKept
        <5> QED
          BY <1>2, <5>1, <5>2
      <4>2. ASSUME NEW s \in Service, svc'[s].enabled
            PROVE  /\ svc'[s].quiet <= (IF Period(s)' > 1 THEN Period(s)' ELSE 1)
                   /\ checked' => svc'[s].quiet = 0
        BY <1>2, <1>3, <3>1, <4>1, <4>2
      <4> QED
        BY <1>1, <4>2 DEF BeatInv, CheckIsFresh, BeatIsKept
    <3> QED
      BY <3>2, <3>3
  <2>5. CASE Crash \/ \E s \in Service : Response(s) /\ Dies
    <3>1. \A s \in Service : ~svc'[s].enabled
      BY <2>5, ReleasedState DEF Crash, Dies
    <3> QED
      BY <1>1, <3>1 DEF BeatInv, CheckIsFresh, BeatIsKept
  <2>6. CASE \/ \E s \in Service : Call(s) \/ (Response(s) /\ ~Dies)
             \/ HeartbeatRequest \/ UNCHANGED vars
    <3>1. hubConfirmed' = hubConfirmed /\ checked' = checked
      BY <2>6 DEF Call, Create, Enable, Disable, Release, SetInstanceID, SetHeartbeatInterval,
         Response, InstallNewConfig, CrashWhileSaving, HeartbeatRequest, vars
    <3> QED
      BY <2>2, <3>1
  <2> QED
    BY <1>6, <2>3, <2>4, <2>5, <2>6 DEF Next
<1> QED
  BY <1>5, <1>6

(* In ordinary use, and when sendto does not fail, an enabled service is   *)
(* never quiet for longer than the period that holds at that moment,       *)
(* whichever order of checks, echoes, configurations, restarts and crashes *)
(* led there.                                                              *)
THEOREM BeatsAreKept ==
  ASSUME OrdinaryUse, SendingWorks, ShortDiscovery
  PROVE  Spec => []BeatIsKept
<1>1. Init => BeatInv
  <2> SUFFICES ASSUME Init PROVE BeatInv
    OBVIOUS
  <2>1. \A s \in Service : ~svc[s].enabled
    BY ReleasedState DEF Init
  <2> QED
    BY <2>1, IInvInit DEF BeatInv, CheckIsFresh, BeatIsKept
<1>2. BeatInv /\ [Next]_vars => BeatInv'
  BY BeatInvNext
<1>3. BeatInv => BeatIsKept
  BY DEF BeatInv
<1> QED
  BY <1>1, <1>2, <1>3, PTL DEF Spec
=============================================================================
