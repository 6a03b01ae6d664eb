----------------------------- MODULE XplReceive -----------------------------
(***************************************************************************)
(* What one xPL program does with a datagram: xPL_receiveMessage of        *)
(* src/xPLLib/xPL-message.c, the dispatch loops of xPL-listeners.c, the    *)
(* services of xPL-service.c a message is for, and the handler of          *)
(* xPL-config.c, which every configurable service has.                     *)
(*                                                                         *)
(* A program is single threaded, but its callbacks run inside the loops    *)
(* that call them and change the tables the loops walk: a step is one turn *)
(* of one loop.  It may die between any two.                               *)
(***************************************************************************)
EXTENDS ServiceConfig

CONSTANTS
  Services,        \* the services of the program, in the order of serviceList
  Configurables,   \* those created with xPL_createConfigurableService
  Vendor, Device,  \* the texts of the services' names, but for the instance ID
  FirstName,       \* the instance ID a service is created with
  Items,           \* the configurables the program defines, with their count
  Touched,         \* those it sets and removes itself
  Listeners,       \* the listeners the program has for each table
  First,           \* those it registers at once, in order
  Selects,         \* what messages a service listener asks for
  Effects,         \* what a callback may do, see Effect
  Mails,           \* the messages other programs may send, see MailText
  Junk,            \* texts no program builds with this library
  OwnAddress, OwnPort  \* xPL_getListenerIPAddr and xPL_getPort, as texts

(* A raw listener that sends writes over the text of the message, which is *)
(* parsed only afterwards (xPL-message.c:918); a callback that removes a   *)
(* listener registered before its own is called again.                     *)
Effect == {"none", "add", "remove itself", "send"}

Service == Range(Services)

ASSUME ServiceConstants ==
  /\ Services \in Seq(Service) \ {<< >>}
  /\ IsInjective(Services)
  /\ Configurables \subseteq Service

ASSUME NameConstants ==
  /\ Vendor \in Seq(Range(Vendor))
  /\ \A s \in Service :
       Device[s] \in Seq(Range(Device[s])) /\ FirstName[s] \in Seq(Range(FirstName[s]))

ASSUME ItemConstants ==
  /\ Items \in Seq(Range(Items)) /\ <<"newconf">> \in Builtin
  /\ \A it \in Range(Items) :
       it.max \in Int /\ <<it.kind>> \in Definitions /\ it.name \notin Builtin

VARIABLES
  buff,         \* messageBuff
  msg,          \* the message object, recycled from datagram to datagram
  hubConfirmed, \* hubConfirmed
  table,        \* the tables of listeners, in the order of registration
  svc,          \* the services: up, enabled and their settings
  file,         \* the configuration file of each service
  round,        \* where xPL_receiveMessage and the loops under it are
  meant,        \* history: the mail in work
  due,          \* history: who has still to hear it
  installed     \* history: what the manager installed last

vars == <<buff, msg, hubConfirmed, table, svc, file, round, meant, due,
          installed>>

NoMail == [kind |-> "none"]
NoFile == [state |-> "none", lines |-> << >>]
TornFile == [state |-> "torn", lines |-> << >>]
SavedFile(lines) == [state |-> "saved", lines |-> lines]
Nothing == [state |-> "none"]
Unsaved == [state |-> "unsaved"]

Raw == <<"raw", NULL>>
Messages == <<"message", NULL>>
Handlers(s) == <<"service", s>>
Changed(s) == <<"changed", s>>
Tables == {Raw, Messages} \cup {Handlers(s) : s \in Service} \cup {Changed(s) : s \in Configurables}

(* The listeners the library registers itself, before those of the program.*)
OwnListener(t) ==
  CASE t = Messages -> <<"services">>
    [] t \in {Handlers(s) : s \in Configurables} -> <<"config">>
    [] OTHER -> << >>

ASSUME ListenerConstants ==
  /\ \A t \in Tables :
       /\ Listeners[t] \cap {"services", "config"} = {}
       /\ First[t] \in Seq(Listeners[t]) /\ IsInjective(First[t])
  /\ \A t \in DOMAIN Effects : Effects[t] \subseteq Effect

(* round: the phase, and the index of each loop.                           *)
Idle == [phase |-> "idle", at |-> 0, service |-> 0, handler |-> 0, changed |-> 0]

Down == [up |-> FALSE, enabled |-> FALSE, settings |-> Unset(NULL, 0)]

NameOf(s) == [vendor |-> Vendor, device |-> Device[s], instance |-> svc[s].settings.name]

-----------------------------------------------------------------------------
(* What other programs send: they build it as this one would.              *)

Addressing(m, call) ==
  CASE call.call = "broadcast" -> SetBroadcastMessage(m, call.arg)
    [] call.call = "group"     -> SetTargetGroup(m, call.arg)
    [] call.call = "target"    -> SetTarget(m, call.arg)

Built(mail) ==
  FoldLeft(LAMBDA m, pair : [m EXCEPT !.body = AddNamedValue(@, pair.name, pair.value)],
           SetSchema(FoldLeft(Addressing, Sendable(Blank, mail.type, mail.source), mail.calls),
                     mail.class, mail.schema),
           mail.body)

(* A hub reads what it hears and writes it anew.                           *)
MailText(mail) ==
  LET text == Text(Built(mail)) IN
  CASE mail.kind = "junk"              -> mail.text
    [] mail.kind = "mail" /\ mail.hub  -> Text(Parse(Blank, text))
    [] mail.kind = "mail" /\ ~mail.hub -> text

(* What the sender meant, in its own terms: the whole network, or whoever  *)
(* it named last.                                                          *)
ToAll(mail) ==
  LET flags == SelectSeq(mail.calls, LAMBDA call : call.call = "broadcast")
  IN  flags # << >> /\ Last(flags).arg

Addressee(mail) == Last(SelectSeq(mail.calls, LAMBDA call : call.call # "broadcast"))

(* The group that hears of it.  A group is known by the first six          *)
(* characters of its name, and a hub puts the prefix before a name that    *)
(* has it already: of what it sends on, that is all that can be read.      *)
GroupReached(mail) ==
  LET name == Addressee(mail).arg IN
  ReadGroup(IF mail.hub THEN ReadGroup(name) ELSE name)

Fields(mail) == <<mail.source.vendor, mail.source.device, mail.source.instance,
                  mail.class, mail.schema>>

IsFor(mail, s) ==
  /\ mail.source # NameOf(s)
  /\ IF ToAll(mail)
       THEN LET filters == Range(svc[s].settings.filters) IN
            filters = {} \/ \E f \in filters : DoesFilterMatch(f, mail.type, Fields(mail))
       ELSE \/ /\ Addressee(mail).call = "group"
               /\ GroupReached(mail) \in Range(svc[s].settings.groups)
            \/ Addressee(mail).call = "target" /\ Addressee(mail).arg = NameOf(s)

Asks(select, type, class, schema) ==
  /\ select.type \in {"any", type}
  /\ select.class \in {NULL, class}
  /\ select.schema \in {NULL, schema}

(* A message of a mail's sender, as its receiver should find it.           *)
Carries(m, mail) ==
  /\ m.type = mail.type /\ m.source = mail.source
  /\ m.class = mail.class /\ m.schema = mail.schema /\ m.body = mail.body
  /\ m.broadcast = ToAll(mail)
  /\ ~ToAll(mail) =>
       /\ m.isGroup = (Addressee(mail).call = "group")
       /\ IF m.isGroup THEN m.group = GroupReached(mail) ELSE m.target = Addressee(mail).arg

ASSUME MailConstants ==
  /\ \A mail \in Mails :
       mail.kind = "mail" /\ (ToAll(mail) \/ Addressee(mail).call \in {"group", "target"})
  /\ \A mail \in Junk :
       mail.kind = "junk" /\ (Parses(mail.text) => Parse(Blank, mail.text).class = NULL)
  /\ \A mail, other \in Mails \cup Junk : MailText(mail) = MailText(other) => mail = other
  /\ \A mail \in Mails \cup Junk :
       MailText(mail) \in Seq(Range(MailText(mail))) /\ Len(MailText(mail)) < MaxText

-----------------------------------------------------------------------------
Init ==
  /\ buff = NoText
  /\ msg = Blank
  /\ hubConfirmed = FALSE
  /\ table = [t \in Tables |-> << >>]
  /\ svc = [s \in Service |-> Down]
  /\ file = [s \in Configurables |-> NoFile]
  /\ round = Idle
  /\ meant = NoMail
  /\ due = << >>
  /\ installed = [s \in Configurables |-> Nothing]

(* xPL_sendMessage writes the message into the buffer; of one that is too  *)
(* long only what fits is written, and nothing is sent.                    *)
Sent(m) == IF Formats(m) THEN Text(m) ELSE SubSeq(Text(m), 1, MaxText - 1)

(* The heartbeat of a service, as far as it is told apart here.            *)
Heartbeat(s) ==
  SetSchema(SetBroadcastMessage(Sendable(Blank, "status", NameOf(s)), TRUE),
            <<"hbeat">>, <<"app">>)

Reply(s, schema, body) ==
  [SetSchema(SetBroadcastMessage(Sendable(Blank, "status", NameOf(s)), TRUE),
             <<"config">>, schema) EXCEPT !.body = body]

(* xPL_initialize and xPL_createService: the first listener of messages is *)
(* that of the services.  xPL_createConfigurableService with               *)
(* xPL_loadServiceConfig, xPL_addServiceConfigurable and the calls that    *)
(* register its listeners by the program.                                  *)
Loaded(s) ==
  LET fresh == Unset(FirstName[s], 300) IN
  IF s \in Configurables /\ file[s].state = "saved"
    THEN Install(fresh, file[s].lines, TRUE) ELSE fresh

WithItems(s, st) ==
  IF s \in Configurables
    THEN FoldLeft(LAMBDA t, it : AddServiceConfigurable(t, it.name, it.kind, it.max), st, Items)
    ELSE st

Start ==
  /\ \A s \in Service : ~svc[s].up
  /\ svc' = [s \in Service |->
               [up |-> TRUE, enabled |-> FALSE, settings |-> WithItems(s, Loaded(s))]]
  /\ table' = [t \in Tables |-> OwnListener(t) \o First[t]]
  /\ UNCHANGED <<buff, msg, hubConfirmed, file, round, meant, due, installed>>

(* xPL_setServiceEnabled for every service; of the heartbeats it sends     *)
(* nothing stays behind.                                                   *)
Enable ==
  /\ round = Idle
  /\ \A s \in Service : svc[s].up /\ ~svc[s].enabled
  /\ svc' = [s \in Service |-> [svc[s] EXCEPT !.enabled = TRUE]]
  /\ UNCHANGED <<buff, msg, hubConfirmed, table, file, round, meant, due, installed>>

(* xPL_setServiceConfigValueAt and xPL_removeServiceConfigurable do        *)
(* nothing to a service that is enabled.                                   *)
ChangeItem(s, settings) ==
  /\ round = Idle
  /\ svc[s].up /\ ~svc[s].enabled
  /\ svc' = [svc EXCEPT ![s].settings = settings]
  /\ UNCHANGED <<buff, msg, hubConfirmed, table, file, round, meant, due,
                 installed>>

-----------------------------------------------------------------------------
(* A callback of a table is called: what it may do there.                  *)

Heard(t, l) == IF <<t, l>> \in DOMAIN due THEN [due EXCEPT ![<<t, l>>] = @ - 1] ELSE due

(* More slots, all with n or each with its own.                            *)
WithSlots(dues, more) ==
  [slot \in DOMAIN dues \cup DOMAIN more |-> IF slot \in DOMAIN more THEN more[slot] ELSE dues[slot]]

WithDue(dues, slots, n) == WithSlots(dues, [slot \in slots |-> n])

(* The removal of a listener: the entries behind it move down.             *)
Removed(list, l) == RemoveAt(list, SelectInSeq(list, LAMBDA other : other = l))

CallBack(t, l) ==
  \/ UNCHANGED <<table, buff>> /\ due' = Heard(t, l)
  \/ /\ "add" \in Effects[t]
     /\ \E other \in Listeners[t] \ Range(table[t]) :
          /\ table' = [table EXCEPT ![t] = Append(@, other)]
          /\ due' = WithDue(Heard(t, l), {<<t, other>>}, 0)
     /\ UNCHANGED buff
  \/ /\ "remove itself" \in Effects[t]
     /\ table' = [table EXCEPT ![t] = Removed(@, l)]
     /\ due' = [slot \in DOMAIN due \ {<<t, l>>} |-> due[slot]]
     /\ UNCHANGED buff
  \/ /\ "send" \in Effects[t]
     /\ buff' = Sent(Heartbeat(Services[1]))
     /\ due' = Heard(t, l)
     /\ UNCHANGED table

NextIndex(t, index) == index - 1

(* xPL_receiveMessage: recvfrom.  The network may have lost, repeated and  *)
(* reordered what was sent: any datagram can be the next.                  *)
ReceiveMessage(mail) ==
  /\ round = Idle
  /\ \A s \in Service : svc[s].up
  /\ meant' = mail
  /\ buff' = MailText(mail)
  /\ round' = [Idle EXCEPT !.phase = "raw", !.at = Len(table[Raw])]
  /\ due' = [slot \in {<<Raw, l>> : l \in Range(table[Raw])} |-> 1]
  /\ UNCHANGED <<msg, hubConfirmed, table, svc, file, installed>>

(* xPL_dispatchRawEvent.                                                   *)
DispatchRaw ==
  /\ round.phase = "raw" /\ round.at > 0
  /\ CallBack(Raw, table[Raw][round.at])
  /\ round' = [round EXCEPT !.at = NextIndex(Raw, @)]
  /\ UNCHANGED <<msg, hubConfirmed, svc, file, meant, installed>>

(* Whoever's heartbeat has our port.                                       *)
WrongIsHubEcho(m) ==
  /\ m.class \in {<<"hbeat">>, <<"config">>}
  /\ HasValue(m.body, <<"port">>) /\ NamedValue(m.body, <<"port">>) = OwnPort

IsHubEcho(m) ==
  /\ m.class \in {<<"hbeat">>, <<"config">>}
  /\ HasValue(m.body, <<"remote-ip">>) /\ NamedValue(m.body, <<"remote-ip">>) = OwnAddress
  /\ HasValue(m.body, <<"port">>) /\ NamedValue(m.body, <<"port">>) = OwnPort

(* Who should hear the message when it is dispatched now, as the sender    *)
(* meant it.                                                               *)
Expected(mail) ==
  LET Slots(t) == {<<t, l>> : l \in Range(table[t]) \ {"services", "config"}}
      wanted == Slots(Messages) \cup
                {slot \in UNION {Slots(Handlers(s)) : s \in Service} :
                   /\ IsFor(mail, slot[1][2])
                   /\ Asks(Selects[slot[2]], mail.type, mail.class, mail.schema)}
  IN  [slot \in Slots(Messages) \cup UNION {Slots(Handlers(s)) : s \in Service} |->
         IF slot \in wanted THEN 1 ELSE 0]

(* Nothing reads the buffer before the next datagram is written over it.   *)
EndOfRound ==
  /\ round' = Idle
  /\ buff' = NoText
  /\ meant' = NoMail
  /\ due' = << >>

Turn == Services[round.service]

(* doesFilterMatch looks at the class or type of the message.              *)
FilterReads(f, m) ==
  /\ f.type \in {"any", m.type}
  /\ \A i \in 1..3 : f.fields[i] \in {Wild, Fields(m)[i]}
  /\ f.fields[4] # Wild \/ f.fields[5] # Wild

(* So does handleMessage, at a broadcast: the filters are tried in order.  *)
ServiceReads(s, m) ==
  LET filters == svc[s].settings.filters IN
  /\ m.source # NameOf(s) /\ m.broadcast
  /\ \/ m.type = "command"
     \/ \E i \in DOMAIN filters :
          /\ FilterReads(filters[i], m)
          /\ \A j \in 1..i - 1 : ~DoesFilterMatch(filters[j], m.type, Fields(m))

(* And xPL_dispatchServiceEvent for a listener that asks for one.          *)
ListenerReads(l, m) ==
  \/ l = "config"
  \/ /\ l # "config" /\ Selects[l].type \in {"any", m.type}
     /\ Selects[l].class # NULL \/ Selects[l].schema # NULL

(* The schema of a message that has none is about to be compared with      *)
(* another: by isHubEcho as long as no hub is known, and by those above.   *)
AtNoSchema ==
  \/ /\ round.phase = "raw" /\ round.at = 0 /\ ~hubConfirmed
     /\ Parses(buff) /\ Parse(msg, buff).class = NULL
  \/ /\ round.phase = "service" /\ round.service > 0
     /\ msg.class = NULL /\ ServiceReads(Turn, msg)
  \/ /\ round.phase = "handler" /\ round.handler > 0
     /\ msg.class = NULL /\ ListenerReads(table[Handlers(Turn)][round.handler], msg)

(* parseMessage, and the echo of the hub; or the object is released.       *)
ParseMessage ==
  /\ round.phase = "raw" /\ round.at = 0 /\ ~AtNoSchema
  /\ IF Parses(buff)
       THEN /\ msg' = Parse(msg, buff)
            /\ hubConfirmed' = (hubConfirmed \/ IsHubEcho(msg'))
            /\ round' = [round EXCEPT !.phase = "message", !.at = Len(table[Messages])]
            /\ due' = IF meant.kind = "junk" THEN due ELSE WithSlots(due, Expected(meant))
            /\ UNCHANGED <<buff, meant>>
       ELSE /\ msg' = Released(msg)
            /\ EndOfRound
            /\ UNCHANGED hubConfirmed
  /\ UNCHANGED <<table, svc, file, installed>>

(* xPL_dispatchMessageEvent; the listener of the services begins a loop of *)
(* its own (xPL_handleServiceMessage).                                     *)
DispatchMessage ==
  /\ round.phase = "message" /\ round.at > 0
  /\ IF table[Messages][round.at] = "services"
       THEN /\ round' = [round EXCEPT !.phase = "service", !.service = Len(Services)]
            /\ UNCHANGED <<table, due, buff>>
       ELSE /\ CallBack(Messages, table[Messages][round.at])
            /\ round' = [round EXCEPT !.at = NextIndex(Messages, @)]
  /\ UNCHANGED <<msg, hubConfirmed, svc, file, meant, installed>>

(* Without filters everything passes.                                      *)
PassesFilters(s, m) ==
  LET filters == Range(svc[s].settings.filters) IN
  filters = {} \/ \E f \in filters : DoesFilterMatch(f, m.type, Fields(m))

(* handleMessage: is the message for the service?  Filters are for         *)
(* broadcasts only.                                                        *)
WrongApplies(s, m) ==
  /\ m.source # NameOf(s)
  /\ PassesFilters(s, m)
  /\ \/ m.broadcast
     \/ m.isGroup /\ m.group \in Range(svc[s].settings.groups)
     \/ ~m.isGroup /\ m.target = NameOf(s)

Applies(s, m) ==
  /\ m.source # NameOf(s)
  /\ CASE m.broadcast -> PassesFilters(s, m)
       [] ~m.broadcast /\ m.isGroup -> m.group \in Range(svc[s].settings.groups)
       [] OTHER -> m.target = NameOf(s)

(* A discovery request is answered by every service but its sender.        *)
IsRequest(s, m) ==
  /\ m.source # NameOf(s)
  /\ m.broadcast /\ m.type = "command"
  /\ m.class = <<"hbeat">> /\ m.schema = <<"request">>

HandleMessage ==
  /\ round.phase = "service" /\ round.service > 0 /\ ~AtNoSchema
  /\ round' = IF Applies(Turn, msg)
                THEN [round EXCEPT !.phase = "handler", !.handler = Len(table[Handlers(Turn)])]
                ELSE [round EXCEPT !.service = @ - 1]
  /\ buff' = IF IsRequest(Turn, msg) THEN Sent(Heartbeat(Turn)) ELSE buff
  /\ UNCHANGED <<msg, hubConfirmed, table, svc, file, meant, due, installed>>

ServicesDone ==
  /\ round.phase = "service" /\ round.service = 0
  /\ round' = [round EXCEPT !.phase = "message", !.at = NextIndex(Messages, @)]
  /\ UNCHANGED <<buff, msg, hubConfirmed, table, svc, file, meant, due, installed>>

(* xPL_dispatchServiceEvent on a listener of the program.                  *)
DispatchService ==
  /\ round.phase = "handler" /\ round.handler > 0 /\ ~AtNoSchema
  /\ LET l == table[Handlers(Turn)][round.handler] IN
       /\ l # "config"
       /\ IF Asks(Selects[l], msg.type, msg.class, msg.schema)
            THEN CallBack(Handlers(Turn), l)
            ELSE UNCHANGED <<table, due, buff>>
  /\ round' = [round EXCEPT !.handler = NextIndex(Handlers(Turn), @)]
  /\ UNCHANGED <<msg, hubConfirmed, svc, file, meant, installed>>

HandlersDone ==
  /\ round.phase = "handler" /\ round.handler = 0
  /\ round' = [round EXCEPT !.phase = "service", !.service = @ - 1]
  /\ UNCHANGED <<buff, msg, hubConfirmed, table, svc, file, meant, due, installed>>

-----------------------------------------------------------------------------
(* configHandler, which asks for the class config.                         *)

AtConfigHandler ==
  /\ round.phase = "handler" /\ round.handler > 0
  /\ table[Handlers(Turn)][round.handler] = "config"

Requested(schema) ==
  /\ msg.class = <<"config">> /\ msg.type = "command" /\ msg.schema = schema
  /\ HasValue(msg.body, <<"command">>)
  /\ NamedValue(msg.body, <<"command">>) = <<"request">>

IsResponse ==
  msg.class = <<"config">> /\ msg.type = "command" /\ msg.schema = <<"response">>

SendReply(schema, body) ==
  /\ buff' = Sent(Reply(Turn, schema, body))
  /\ round' = [round EXCEPT !.handler = NextIndex(Handlers(Turn), @)]
  /\ UNCHANGED <<msg, hubConfirmed, table, svc, file, meant, due, installed>>

SendServiceConfigList ==
  /\ AtConfigHandler /\ Requested(<<"list">>)
  /\ SendReply(<<"list">>, ConfigList(svc[Turn].settings))

SendServiceCurrentConfig ==
  /\ AtConfigHandler /\ Requested(<<"current">>)
  /\ SendReply(<<"current">>, CurrentConfig(svc[Turn].settings))

(* A message that is none of the three.                                    *)
IgnoreConfig ==
  /\ AtConfigHandler /\ ~AtNoSchema
  /\ ~Requested(<<"list">>) /\ ~Requested(<<"current">>) /\ ~IsResponse
  /\ round' = [round EXCEPT !.handler = NextIndex(Handlers(Turn), @)]
  /\ UNCHANGED <<buff, msg, hubConfirmed, table, svc, file, meant, due,
                 installed>>

NewSettings == Install(svc[Turn].settings, msg.body, FALSE)

(* The service says goodbye under its old name and starts under the new;   *)
(* what stays in the buffer is its heartbeat.                              *)
RestartText ==
  IF svc[Turn].enabled /\ Restarts(svc[Turn].settings, msg.body)
    THEN Sent([Heartbeat(Turn) EXCEPT !.source.instance = NewSettings.name])
    ELSE buff

(* The listeners of the change hear of it if the service was enabled.      *)
InstallNewConfig ==
  /\ AtConfigHandler /\ IsResponse
  /\ svc' = [svc EXCEPT ![Turn].settings = NewSettings]
  /\ \/ /\ file' = [file EXCEPT ![Turn] = SavedFile(SavedLines(NewSettings))]
        /\ installed' = [installed EXCEPT ![Turn] = [state |-> "saved", settings |-> NewSettings]]
     \/ /\ installed' = [installed EXCEPT ![Turn] = Unsaved]
        /\ UNCHANGED file
  /\ buff' = RestartText
  /\ LET t == Changed(Turn) IN
     IF svc[Turn].enabled
       THEN /\ round' = [round EXCEPT !.phase = "changed", !.changed = Len(table[t])]
            /\ due' = WithDue(due, {<<t, l>> : l \in Range(table[t])}, 1)
       ELSE /\ round' = [round EXCEPT !.handler = NextIndex(Handlers(Turn), @)]
            /\ UNCHANGED due
  /\ UNCHANGED <<msg, hubConfirmed, table, meant>>

(* xPL_dispatchServiceConfigChangedEvent.                                  *)
DispatchServiceConfigChanged ==
  /\ round.phase = "changed" /\ round.changed > 0
  /\ LET t == Changed(Turn) IN
       /\ CallBack(t, table[t][round.changed])
       /\ round' = [round EXCEPT !.changed = NextIndex(t, @)]
  /\ UNCHANGED <<msg, hubConfirmed, svc, file, meant, installed>>

ChangedDone ==
  /\ round.phase = "changed" /\ round.changed = 0
  /\ round' = [round EXCEPT !.phase = "handler", !.handler = NextIndex(Handlers(Turn), @)]
  /\ UNCHANGED <<buff, msg, hubConfirmed, table, svc, file, meant, due,
                 installed>>

(* The end of the loop of xPL_receiveMessage.                              *)
ReleaseMessage ==
  /\ round.phase = "message" /\ round.at = 0
  /\ msg' = Released(msg)
  /\ EndOfRound
  /\ UNCHANGED <<hubConfirmed, table, svc, file, installed>>

-----------------------------------------------------------------------------
(* The program dies; its files stay.                                       *)
Dies ==
  /\ buff' = NoText
  /\ msg' = Blank
  /\ hubConfirmed' = FALSE
  /\ table' = [t \in Tables |-> << >>]
  /\ svc' = [s \in Service |-> Down]
  /\ round' = Idle
  /\ meant' = NoMail
  /\ due' = << >>

Crash ==
  /\ \A s \in Service : svc[s].up
  /\ Dies
  /\ UNCHANGED <<file, installed>>

(* strlen is given NULL.                                                   *)
CompareNoSchema ==
  /\ AtNoSchema
  /\ Dies
  /\ UNCHANGED <<file, installed>>

(* It dies in xPL_saveServiceConfig, which empties the file first.         *)
CrashWhileSaving ==
  /\ AtConfigHandler /\ IsResponse
  /\ file' = [file EXCEPT ![Turn] = TornFile]
  /\ installed' = [installed EXCEPT ![Turn] = [state |-> "saved", settings |-> NewSettings]]
  /\ Dies

Program ==
  \/ Start
  \/ Enable
  \/ \E s \in Configurables, name \in Touched :
       \/ ChangeItem(s, SetServiceConfigValueAt(svc[s].settings, name, 1, <<"default">>))
       \/ ChangeItem(s, RemoveServiceConfigurable(svc[s].settings, name))

Dispatch ==
  \/ \E mail \in Mails \cup Junk : ReceiveMessage(mail)
  \/ DispatchRaw \/ ParseMessage \/ DispatchMessage
  \/ HandleMessage \/ ServicesDone \/ DispatchService \/ HandlersDone
  \/ DispatchServiceConfigChanged \/ ChangedDone \/ ReleaseMessage

ConfigHandler ==
  SendServiceConfigList \/ SendServiceCurrentConfig \/ IgnoreConfig \/ InstallNewConfig

Next ==
  \/ Program
  \/ Dispatch
  \/ ConfigHandler
  \/ Crash \/ CrashWhileSaving \/ CompareNoSchema

Spec == Init /\ [][Next]_vars
-----------------------------------------------------------------------------
InLoops == round.phase \in {"message", "service", "handler", "changed"}

TypeOK ==
  /\ hubConfirmed \in BOOLEAN
  /\ round.phase \in {"idle", "raw", "message", "service", "handler", "changed"}
  /\ round.at \in Nat /\ round.service \in 0..Len(Services)
  /\ round.handler \in Nat /\ round.changed \in Nat
  /\ \A t \in Tables : Range(table[t]) \subseteq Listeners[t] \cup {"services", "config"}
  /\ \A s \in Service :
       /\ svc[s].up \in BOOLEAN /\ svc[s].enabled \in BOOLEAN
       /\ \A it \in Range(svc[s].settings.items) : Len(it.values) <= it.max
  /\ \A s \in Configurables : file[s].state \in {"none", "torn", "saved"}

(* The loops of xPL-listeners.c and xPL_handleServiceMessage: whoever is   *)
(* registered when a message comes, and is still there, hears it exactly   *)
(* once if its sender meant it for it, and not at all otherwise, whatever  *)
(* the callbacks of the round add, remove and send and whatever            *)
(* configuration is installed within it.                                   *)
EveryListenerHearsItOnce ==
  /\ \A slot \in DOMAIN due : due[slot] \in {0, 1}
  /\ round.phase \in {"raw", "message"} /\ round.at = 0 =>
       \A slot \in DOMAIN due : due[slot] = 0

(* xPL_receiveMessage: a raw listener gets the text that came, and all     *)
(* other listeners the message its sender built, nothing of an earlier one *)
(* in the recycled object, for the group its address still names.  Of what *)
(* is no message they are given nothing but a text that ends after its     *)
(* header, and that only when the hub is known.                            *)
WhatIsHeardIsWhatWasSent ==
  /\ round.phase = "raw" => buff = MailText(meant)
  /\ InLoops => \/ meant.kind = "mail" /\ Carries(msg, meant)
                \/ meant.kind = "junk" /\ msg.class = NULL /\ hubConfirmed

(* isHubEcho: a message confirms the hub exactly if it is one of this      *)
(* program's own announcements that has come back.                         *)
OnlyOwnEchoConfirms ==
  [][round.phase = "raw" /\ round'.phase = "message" =>
       hubConfirmed' = (hubConfirmed \/ meant.own)]_vars

ItemValues(st, name) ==
  UNION {{<<j, it.values[j]>> : j \in DOMAIN it.values} :
           it \in {it \in Range(st.items) : it.name = name}}

SameSettings(st, other) ==
  /\ st.name = other.name /\ st.interval = other.interval
  /\ st.filters = other.filters /\ st.groups = other.groups
  /\ \A it \in Range(st.items) \cup Range(other.items) :
       ItemValues(st, it.name) = ItemValues(other, it.name)

(* xPL_saveServiceConfig and xPL_loadServiceConfig: a program that is      *)
(* started again, after an orderly stop or a crash, filters, groups and    *)
(* configures its services as the manager installed it last, unless the    *)
(* file could not be opened or the crash tore it.                          *)
SettingsSurviveRestart ==
  [][Start => \A s \in Configurables :
       installed[s].state = "saved" /\ file[s] # TornFile =>
         SameSettings(svc'[s].settings, installed[s].settings)]_vars

(* What a manager reads out of a config.current message.                   *)
Read(body, name) ==
  LET pairs == SelectSeq(body, LAMBDA p : p.name = name /\ p.value # Missing)
  IN  [i \in DOMAIN pairs |-> pairs[i].value]

(* sendServiceCurrentConfig: the manager that asks a service for its       *)
(* configuration reads in the message it gets the very filters, groups and *)
(* values the service works with.  When all they say is longer than a      *)
(* message may be it gets none, which nobody notices.                      *)
ManagerIsToldTheSettings ==
  [][SendServiceCurrentConfig =>
       LET st   == svc[Turn].settings
           body == Parse(Blank, buff').body
           filters == Read(body, <<"filter">>)
       IN  Formats(Reply(Turn, <<"current">>, CurrentConfig(st))) =>
             /\ Parses(buff')
             /\ NamedValue(body, <<"newconf">>) = st.name
             /\ Read(body, <<"interval">>) = <<NumberText(st.interval \div 60)>>
             /\ [i \in DOMAIN filters |-> ParseFilter(filters[i])] = st.filters
             /\ Read(body, <<"group">>) = st.groups
             /\ \A it \in Range(st.items) : Read(body, it.name) = it.values]_vars
=============================================================================
