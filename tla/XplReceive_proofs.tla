------------------------- MODULE XplReceive_proofs -------------------------
(***************************************************************************)
(* Theorems about XplReceive: a message that arrives as it was sent is     *)
(* heard once by everybody it is for and by nobody else, whatever the      *)
(* callbacks do to the tables that are walked, and messages do arrive as   *)
(* they were sent if the recycled object is clean and no raw listener      *)
(* writes into the buffer.  The receiver keeps its types for any messages  *)
(* and texts, its own announcement is all that confirms the hub, and its   *)
(* files hold what was installed last.                                     *)
(***************************************************************************)
EXTENDS XplReceive, ListTheorems

Phases == {"idle", "raw", "message", "service", "handler", "changed"}

(* What stands in a table, and that it stands there once.                  *)
Entries(t) == Listeners[t] \cup Range(OwnListener(t))

IsTable(t, list) == list \in Seq(Entries(t)) /\ IsInjective(list)

TablesOK == table = [t \in Tables |-> table[t]] /\ \A t \in Tables : IsTable(t, table[t])

Running == \A s \in Service : svc[s].up

(* The library's own listeners stay the first of their tables.             *)
OwnStaysFirst(t, list) ==
  OwnListener(t) # << >> => 1 \in DOMAIN list /\ <<list[1]>> = OwnListener(t)

OwnFirst == Running => \A t \in Tables : OwnStaysFirst(t, table[t])

(* A service is a record of these fields.                                  *)
IsServiceState(st) == st = [up |-> st.up, enabled |-> st.enabled, settings |-> st.settings]

ServicesOK ==
  /\ svc = [s \in Service |-> svc[s]]
  /\ \A s \in Service : IsServiceState(svc[s]) /\ svc[s].up \in BOOLEAN

(* All services are up, or none is and no message is in work.              *)
Life == Running \/ (round.phase = "idle" /\ \A s \in Service : ~svc[s].up)

RoundType ==
  [phase : Phases, at : Nat, service : 0 .. Len(Services), handler : Nat, changed : Nat]

(* Where the loops may be.                                                 *)
RoundOK ==
  /\ round \in RoundType
  /\ round.phase = "idle" => DOMAIN due = {}
  /\ round.phase = "raw" => /\ round.at <= Len(table[Raw])
                            /\ \A slot \in DOMAIN due : slot[1] = Raw
  /\ InLoops => round.at <= Len(table[Messages])
  /\ round.phase \in {"service", "handler", "changed"} => round.at = 1
  /\ round.phase \in {"handler", "changed"} =>
       round.service > 0 /\ round.handler <= Len(table[Handlers(Turn)])
  /\ round.phase = "handler" /\ round.handler > 0 => Applies(Turn, msg)
  /\ round.phase = "changed" =>
       /\ Turn \in Configurables /\ round.handler = 1
       /\ round.changed <= Len(table[Changed(Turn)])

MailOK == round.phase # "idle" => meant \in Mails \cup Junk

-----------------------------------------------------------------------------
(* How far down each table the loops still have to go.                     *)
ServicesUpTo(n) == {Services[k] : k \in 1 .. n}

ServiceAhead(s) ==
  CASE round.phase = "message" /\ round.at > 0 -> Len(table[Handlers(s)])
    [] round.phase = "service" /\ s \in ServicesUpTo(round.service) -> Len(table[Handlers(s)])
    [] round.phase \in {"handler", "changed"} /\ s \in ServicesUpTo(round.service - 1) ->
         Len(table[Handlers(s)])
    [] round.phase \in {"handler", "changed"} /\ s = Turn -> round.handler
    [] OTHER -> 0

Ahead(t) ==
  CASE t[1] = "raw" /\ round.phase = "raw" -> round.at
    [] t[1] = "message" /\ InLoops -> round.at
    [] t[1] = "service" -> ServiceAhead(t[2])
    [] t[1] = "changed" /\ round.phase = "changed" /\ t[2] = Turn -> round.changed
    [] OTHER -> 0

Wanted(t, l) ==
  t[1] = "service" => Applies(t[2], msg) /\ Asks(Selects[l], msg.type, msg.class, msg.schema)

(* Whether the i-th entry of a table has still to be called for the        *)
(* message, and that this is what the history says.                        *)
Owed(t, i) == i <= Ahead(t) /\ Wanted(t, table[t][i])

SlotOK(slot) ==
  \E t \in Tables : \E i \in DOMAIN table[t] :
    /\ slot = <<t, table[t][i]>> /\ table[t][i] \in Listeners[t]
    /\ due[slot] = IF Owed(t, i) THEN 1 ELSE 0

SlotsOK == \A slot \in DOMAIN due : SlotOK(slot)

(* The history is exact as long as what is heard is what was sent.         *)
ReceiveInv(exact) ==
  TablesOK /\ OwnFirst /\ ServicesOK /\ Life /\ RoundOK /\ MailOK /\ (exact => SlotsOK)

-----------------------------------------------------------------------------
(* The four kinds of tables.                                               *)
LEMMA TableKinds ==
  ASSUME NEW t \in Tables
  PROVE  \/ t[1] = "raw" /\ t = Raw
         \/ t[1] = "message" /\ t = Messages
         \/ t[1] = "service" /\ t[2] \in Service /\ t = Handlers(t[2])
         \/ t[1] = "changed" /\ t[2] \in Configurables /\ t[2] \in Service /\ t = Changed(t[2])
<1>1. Configurables \subseteq Service
  BY ServiceConstants
<1> QED
  BY <1>1 DEF Tables, Raw, Messages, Handlers, Changed

LEMMA TablesOfServices ==
  /\ Raw \in Tables /\ Raw[1] = "raw"
  /\ Messages \in Tables /\ Messages[1] = "message"
  /\ \A s \in Service : Handlers(s) \in Tables /\ Handlers(s)[1] = "service" /\ Handlers(s)[2] = s
  /\ \A s \in Configurables :
       Changed(s) \in Tables /\ Changed(s)[1] = "changed" /\ Changed(s)[2] = s
BY DEF Tables, Raw, Messages, Handlers, Changed

LEMMA OwnListeners ==
  ASSUME NEW t \in Tables
  PROVE  /\ t[1] = "raw" => OwnListener(t) = << >>
         /\ t[1] = "message" => OwnListener(t) = <<"services">>
         /\ t[1] = "service" =>
              OwnListener(t) = IF t[2] \in Configurables THEN <<"config">> ELSE << >>
         /\ t[1] = "changed" => OwnListener(t) = << >>
<1>1. t = Messages <=> t[1] = "message"
  BY TableKinds, TablesOfServices
<1>2. t \in {Handlers(s) : s \in Configurables} <=> t[1] = "service" /\ t[2] \in Configurables
  <2>1. ASSUME NEW s \in Configurables, t = Handlers(s)
        PROVE  t[1] = "service" /\ t[2] \in Configurables
    BY <2>1 DEF Handlers
  <2>2. t[1] = "service" => t = Handlers(t[2])
    BY TableKinds
  <2> QED
    BY <2>1, <2>2
<1> QED
  BY <1>1, <1>2 DEF OwnListener

(* What no listener of the program is.                                     *)
LEMMA OwnIsNoListener ==
  ASSUME NEW t \in Tables
  PROVE  /\ "services" \notin Listeners[t] /\ "config" \notin Listeners[t]
         /\ \A e \in Entries(t) :
              \/ e \in Listeners[t]
              \/ e = "services" /\ t[1] = "message"
              \/ e = "config" /\ t[1] = "service" /\ t[2] \in Configurables
<1>1. Listeners[t] \cap {"services", "config"} = {}
  BY ListenerConstants
<1>2. ASSUME NEW e \in Range(OwnListener(t))
      PROVE  \/ e = "services" /\ t[1] = "message"
             \/ e = "config" /\ t[1] = "service" /\ t[2] \in Configurables
  <2>1. PICK i \in DOMAIN OwnListener(t) : e = OwnListener(t)[i]
    BY DEF Range
  <2>2. DOMAIN << >> = {} /\ DOMAIN <<"services">> = {1} /\ DOMAIN <<"config">> = {1}
    OBVIOUS
  <2> QED
    BY <2>1, <2>2, OwnListeners, TableKinds
<1> QED
  BY <1>1, <1>2 DEF Entries

LEMMA OneService ==
  ASSUME NEW n \in 1 .. Len(Services)
  PROVE  /\ Services[n] \in Service /\ Services[n] \notin ServicesUpTo(n - 1)
         /\ \A s : s \in ServicesUpTo(n) <=> s \in ServicesUpTo(n - 1) \/ s = Services[n]
<1>1. Len(Services) \in Nat /\ DOMAIN Services = 1 .. Len(Services)
  BY ServiceConstants, LenProperties
<1>2. \A i, j \in 1 .. Len(Services) : Services[i] = Services[j] => i = j
  BY <1>1, ServiceConstants DEF IsInjective
<1>3. Services[n] \in Service
  BY <1>1 DEF Service, Range
<1>4. Services[n] \notin ServicesUpTo(n - 1)
  BY <1>1, <1>2 DEF ServicesUpTo
<1>5. \A s : s \in ServicesUpTo(n) <=> s \in ServicesUpTo(n - 1) \/ s = Services[n]
  <2>1. \A k : k \in 1 .. n <=> k \in 1 .. n - 1 \/ k = n
    BY <1>1
  <2> QED
    BY <2>1 DEF ServicesUpTo
<1> QED
  BY <1>3, <1>4, <1>5

LEMMA AllServices ==
  /\ Len(Services) \in Nat /\ Len(Services) > 0 /\ Service # {}
  /\ ServicesUpTo(Len(Services)) = Service
  /\ ServicesUpTo(0) = {}
<1>1. Len(Services) \in Nat /\ DOMAIN Services = 1 .. Len(Services)
  BY ServiceConstants, LenProperties
<1>2. Len(Services) # 0
  BY ServiceConstants, EmptySeq
<1>3. ServicesUpTo(Len(Services)) = Service
  BY <1>1 DEF ServicesUpTo, Service, Range
<1>4. 1 \in DOMAIN Services
  BY <1>1, <1>2
<1>5. Service # {}
  BY <1>4 DEF Service, Range
<1>6. ServicesUpTo(0) = {}
  BY DEF ServicesUpTo
<1> QED
  BY <1>1, <1>2, <1>3, <1>5, <1>6

-----------------------------------------------------------------------------
(* The tables: an entry stands in one place, so that taking out a listener *)
(* takes out the entry at that place.                                      *)
LEMMA RemovedEntry ==
  ASSUME NEW S, NEW list \in Seq(S), IsInjective(list), NEW i \in DOMAIN list
  PROVE  Removed(list, list[i]) = RemoveAt(list, i)
<1>1. Len(list) \in Nat /\ DOMAIN list = 1 .. Len(list)
  BY LenProperties
<1> DEFINE places == {k \in 1 .. Len(list) : list[k] = list[i]}
<1>2. places = {i}
  BY <1>1 DEF IsInjective
<1>3. Min(places) = i
  <2>1. i \in Int
    BY <1>1
  <2> QED
    BY <1>2, <2>1 DEF Min
<1>4. SelectInSeq(list, LAMBDA other : other = list[i]) = i
  BY <1>2, <1>3 DEF SelectInSeq, SelectInSubSeq
<1> QED
  BY <1>4 DEF Removed

LEMMA ShorterTable ==
  ASSUME NEW t, NEW list, IsTable(t, list), NEW i \in DOMAIN list
  PROVE  LET new == Removed(list, list[i]) IN
         /\ IsTable(t, new)
         /\ Len(list) \in Nat /\ DOMAIN list = 1 .. Len(list)
         /\ DOMAIN new = 1 .. Len(list) - 1 /\ Len(new) = Len(list) - 1
         /\ \A j \in DOMAIN new : new[j] = IF j < i THEN list[j] ELSE list[j + 1]
<1> DEFINE new == RemoveAt(list, i)
<1>1. list \in Seq(Entries(t)) /\ IsInjective(list)
  BY DEF IsTable
<1>2. Removed(list, list[i]) = new
  BY <1>1, RemovedEntry
<1>3. /\ new \in Seq(Entries(t))
      /\ Len(list) \in Nat /\ DOMAIN list = 1 .. Len(list)
      /\ DOMAIN new = 1 .. Len(list) - 1 /\ Len(new) = Len(list) - 1
      /\ \A j \in 1 .. Len(list) - 1 : new[j] = IF j < i THEN list[j] ELSE list[j + 1]
  BY <1>1, ShorterList
<1> HIDE DEF new
<1>4. ASSUME NEW j \in DOMAIN new, NEW k \in DOMAIN new, new[j] = new[k] PROVE j = k
  <2>1. /\ j \in 1 .. Len(list) - 1 /\ k \in 1 .. Len(list) - 1
        /\ \A a, b \in 1 .. Len(list) : list[a] = list[b] => a = b
    BY <1>1, <1>3 DEF IsInjective
  <2>2. i \in 1 .. Len(list)
    BY <1>3
  <2>3. CASE j < i /\ k < i
    BY <1>3, <1>4, <2>1, <2>2, <2>3
  <2>4. CASE j < i /\ ~(k < i)
    BY <1>3, <1>4, <2>1, <2>2, <2>4
  <2>5. CASE ~(j < i) /\ k < i
    BY <1>3, <1>4, <2>1, <2>2, <2>5
  <2>6. CASE ~(j < i) /\ ~(k < i)
    BY <1>3, <1>4, <2>1, <2>2, <2>6
  <2> QED
    BY <2>3, <2>4, <2>5, <2>6
<1>5. IsInjective(new)
  BY <1>4 DEF IsInjective
<1>6. \A j \in DOMAIN new : new[j] = IF j < i THEN list[j] ELSE list[j + 1]
  BY <1>3
<1> QED
  BY <1>2, <1>3, <1>5, <1>6 DEF IsTable

LEMMA LongerTable ==
  ASSUME NEW t, NEW list, IsTable(t, list), NEW e \in Entries(t) \ Range(list)
  PROVE  LET new == Append(list, e) IN
         /\ IsTable(t, new)
         /\ Len(list) \in Nat /\ DOMAIN list = 1 .. Len(list)
         /\ DOMAIN new = 1 .. Len(list) + 1 /\ Len(new) = Len(list) + 1
         /\ \A j \in DOMAIN list : new[j] = list[j]
         /\ new[Len(list) + 1] = e
<1> DEFINE new == Append(list, e)
<1>1. list \in Seq(Entries(t)) /\ IsInjective(list)
  BY DEF IsTable
<1>2. /\ new \in Seq(Entries(t)) /\ Len(new) = Len(list) + 1
      /\ \A j \in 1 .. Len(list) : new[j] = list[j]
      /\ new[Len(list) + 1] = e
  BY <1>1, AppendProperties
<1>3. Len(list) \in Nat /\ DOMAIN list = 1 .. Len(list) /\ DOMAIN new = 1 .. Len(list) + 1
  BY <1>1, <1>2, LenProperties
<1> HIDE DEF new
<1>4. \A j \in DOMAIN list : list[j] # e
  BY DEF Range
<1>5. ASSUME NEW j \in DOMAIN new, NEW k \in DOMAIN new, new[j] = new[k] PROVE j = k
  <2>1. \A a, b \in DOMAIN list : list[a] = list[b] => a = b
    BY <1>1 DEF IsInjective
  <2>2. j \in DOMAIN list \/ j = Len(list) + 1
    BY <1>3
  <2>3. k \in DOMAIN list \/ k = Len(list) + 1
    BY <1>3
  <2>4. \A a \in DOMAIN list : new[a] = list[a]
    BY <1>2, <1>3
  <2> QED
    BY <1>2, <1>4, <1>5, <2>1, <2>2, <2>3, <2>4
<1>6. IsInjective(new)
  BY <1>5 DEF IsInjective
<1>7. \A j \in DOMAIN list : new[j] = list[j]
  BY <1>2, <1>3
<1> QED
  BY <1>1, <1>2, <1>3, <1>6, <1>7 DEF IsTable, new

(* A table when the program starts.                                        *)
LEMMA FirstTable ==
  ASSUME NEW t \in Tables
  PROVE  LET list == OwnListener(t) \o First[t] IN
         IsTable(t, list) /\ OwnStaysFirst(t, list)
<1> DEFINE list == OwnListener(t) \o First[t]
<1>1. First[t] \in Seq(Listeners[t]) /\ IsInjective(First[t])
  BY ListenerConstants
<1>2. First[t] \in Seq(Entries(t)) /\ Len(First[t]) \in Nat /\ DOMAIN First[t] = 1 .. Len(First[t])
  <2>1. Listeners[t] \subseteq Entries(t)
    BY DEF Entries
  <2> QED
    BY <1>1, <2>1, LenProperties, ElementOfSeq, IsASeq
<1>3. CASE OwnListener(t) = << >>
  <2>1. list = First[t]
    BY <1>2, <1>3, ConcatEmptySeq
  <2> QED
    BY <1>1, <1>2, <1>3, <2>1 DEF IsTable, OwnStaysFirst
<1>4. ASSUME NEW own, OwnListener(t) = <<own>>, own \notin Listeners[t]
      PROVE  IsTable(t, list) /\ OwnStaysFirst(t, list)
  <2>1. own \in Entries(t)
    BY <1>4 DEF Entries, Range
  <2>2. <<own>> \in Seq(Entries(t)) /\ Len(<<own>>) = 1
    BY <2>1
  <2>3. /\ list \in Seq(Entries(t)) /\ Len(list) = 1 + Len(First[t])
        /\ \A j \in 1 .. 1 + Len(First[t]) :
             list[j] = IF j <= 1 THEN <<own>>[j] ELSE First[t][j - 1]
    BY <1>2, <1>4, <2>2, ConcatProperties
  <2>4. DOMAIN list = 1 .. 1 + Len(First[t])
    BY <1>2, <2>3, LenProperties
  <2>5. list[1] = own /\ 1 \in DOMAIN list
    BY <1>2, <2>3, <2>4
  <2> HIDE DEF list
  <2>6. \A j \in DOMAIN list \ {1} : j - 1 \in DOMAIN First[t] /\ list[j] = First[t][j - 1]
    BY <1>2, <2>3, <2>4
  <2>7. \A j \in DOMAIN First[t] : First[t][j] \in Listeners[t]
    BY <1>1, <1>2, ElementOfSeq
  <2>8. ASSUME NEW j \in DOMAIN list, NEW k \in DOMAIN list, list[j] = list[k] PROVE j = k
    <3>1. CASE j = 1 \/ k = 1
      BY <1>4, <2>5, <2>6, <2>7, <2>8, <3>1
    <3>2. CASE j # 1 /\ k # 1
      <4>1. j - 1 = k - 1
        BY <1>1, <2>6, <2>8, <3>2 DEF IsInjective
      <4>2. j \in Nat /\ k \in Nat
        BY <1>2, <2>4
      <4> QED
        BY <4>1, <4>2
    <3> QED
      BY <3>1, <3>2
  <2> QED
    BY <1>4, <2>3, <2>5, <2>8 DEF IsTable, OwnStaysFirst, IsInjective
<1>5. OwnListener(t) \in {<< >>, <<"services">>, <<"config">>}
  BY OwnListeners, TableKinds
<1> QED
  BY <1>3, <1>4, <1>5, OwnIsNoListener

-----------------------------------------------------------------------------
(* A callback of the program is called: of its table it keeps the first    *)
(* entry if that is the library's own, and it leaves the other tables.     *)
LEMMA CallBackTable ==
  ASSUME TablesOK, OwnFirst, Running, UNCHANGED svc,
         NEW t \in Tables, NEW i \in DOMAIN table[t], table[t][i] \in Listeners[t],
         CallBack(t, table[t][i])
  PROVE  /\ TablesOK' /\ OwnFirst'
         /\ \A u \in Tables \ {t} : table'[u] = table[u]
         /\ Len(table[t]) \in Nat /\ i \in 1 .. Len(table[t])
         /\ Len(table'[t]) \in Nat /\ i - 1 <= Len(table'[t])
<1> DEFINE l == table[t][i]
<1>1. IsTable(t, table[t]) /\ table = [u \in Tables |-> table[u]]
  BY DEF TablesOK
<1>2. Len(table[t]) \in Nat /\ DOMAIN table[t] = 1 .. Len(table[t])
  BY <1>1, LenProperties DEF IsTable
<1>3. OwnStaysFirst(t, table[t])
  BY DEF OwnFirst
<1>4. OwnListener(t) # << >> => i # 1
  <2>1. ASSUME OwnListener(t) # << >>, i = 1 PROVE FALSE
    <3>1. <<l>> = OwnListener(t)
      BY <1>3, <2>1 DEF OwnStaysFirst
    <3>2. OwnListener(t) \in {<<"services">>, <<"config">>}
      BY <2>1, OwnListeners, TableKinds
    <3>3. l \in {"services", "config"}
      BY <3>1, <3>2
    <3> QED
      BY <3>3, OwnIsNoListener
  <2> QED
    BY <2>1
<1>5. /\ table' = [table EXCEPT ![t] = table'[t]]
      /\ IsTable(t, table'[t]) /\ OwnStaysFirst(t, table'[t])
      /\ Len(table'[t]) \in Nat /\ i - 1 <= Len(table'[t])
  <2>1. CASE table' = table
    BY <1>1, <1>2, <1>3, <2>1
  <2>2. ASSUME NEW other \in Listeners[t] \ Range(table[t]),
               table' = [table EXCEPT ![t] = Append(@, other)]
        PROVE  <1>5
    <3>1. table'[t] = Append(table[t], other)
      BY <1>1, <2>2
    <3>2. other \in Entries(t) \ Range(table[t])
      BY DEF Entries
    <3>3. /\ IsTable(t, table'[t])
          /\ DOMAIN table'[t] = 1 .. Len(table[t]) + 1 /\ Len(table'[t]) = Len(table[t]) + 1
          /\ \A j \in DOMAIN table[t] : table'[t][j] = table[t][j]
      BY <1>1, <3>1, <3>2, LongerTable
    <3>4. OwnStaysFirst(t, table'[t])
      BY <1>2, <1>3, <3>3 DEF OwnStaysFirst
    <3>5. table' = [table EXCEPT ![t] = table'[t]]
      BY <2>2, <3>1
    <3> QED
      BY <1>2, <3>3, <3>4, <3>5
  <2>3. CASE table' = [table EXCEPT ![t] = Removed(@, l)]
    <3>1. table'[t] = Removed(table[t], l)
      BY <1>1, <2>3
    <3>2. /\ IsTable(t, table'[t])
          /\ DOMAIN table'[t] = 1 .. Len(table[t]) - 1 /\ Len(table'[t]) = Len(table[t]) - 1
          /\ \A j \in DOMAIN table'[t] :
               table'[t][j] = IF j < i THEN table[t][j] ELSE table[t][j + 1]
      BY <1>1, <3>1, ShorterTable
    <3>3. OwnStaysFirst(t, table'[t])
      BY <1>2, <1>3, <1>4, <3>2 DEF OwnStaysFirst
    <3>4. table' = [table EXCEPT ![t] = table'[t]]
      BY <2>3, <3>1
    <3> QED
      BY <1>2, <3>2, <3>3, <3>4
  <2> QED
    BY <2>1, <2>2, <2>3 DEF CallBack
<1>6. \A u \in Tables \ {t} : table'[u] = table[u]
  BY <1>1, <1>5
<1>7. TablesOK'
  <2>1. table' = [u \in Tables |-> table'[u]]
    BY <1>1, <1>5
  <2>2. ASSUME NEW u \in Tables PROVE IsTable(u, table'[u])
    BY <1>5, <1>6 DEF TablesOK
  <2> QED
    BY <2>1, <2>2 DEF TablesOK
<1>8. OwnFirst'
  <2>1. ASSUME NEW u \in Tables PROVE OwnStaysFirst(u, table'[u])
    BY <1>5, <1>6 DEF OwnFirst
  <2> QED
    BY <2>1 DEF OwnFirst
<1> QED
  BY <1>2, <1>5, <1>6, <1>7, <1>8

(* Whether a listener wants a message depends on the message and on the    *)
(* service it is a listener of, not on its place.                          *)
LEMMA WantedStays ==
  ASSUME UNCHANGED msg, NEW t, NEW j, NEW k, table'[t][k] = table[t][j],
         t[1] = "service" => svc'[t[2]] = svc[t[2]]
  PROVE  Wanted(t, table[t][k])' <=> Wanted(t, table[t][j])
BY DEF Wanted, Applies, PassesFilters, NameOf

(* What shows that a slot is right after a step.                           *)
LEMMA NextSlot ==
  ASSUME NEW slot, NEW t \in Tables, NEW i, i \in DOMAIN table'[t],
         slot = <<t, table'[t][i]>>, table'[t][i] \in Listeners[t],
         due'[slot] = IF Owed(t, i)' THEN 1 ELSE 0
  PROVE  SlotOK(slot)'
BY DEF SlotOK

(* A callback adds no slots but of its own table.                          *)
LEMMA CallBackSlots ==
  ASSUME NEW t, NEW l, CallBack(t, l)
  PROVE  \A slot \in DOMAIN due' : slot \in DOMAIN due \/ slot[1] = t
<1>1. DOMAIN Heard(t, l) = DOMAIN due
  BY DEF Heard
<1>2. ASSUME NEW other, due' = WithDue(Heard(t, l), {<<t, other>>}, 0)
      PROVE  DOMAIN due' = DOMAIN due \cup {<<t, other>>}
  BY <1>1, <1>2 DEF WithDue, WithSlots
<1>3. CASE due' = [slot \in DOMAIN due \ {<<t, l>>} |-> due[slot]]
  BY <1>3
<1>4. \/ due' = Heard(t, l)
      \/ \E other : due' = WithDue(Heard(t, l), {<<t, other>>}, 0)
      \/ due' = [slot \in DOMAIN due \ {<<t, l>>} |-> due[slot]]
  BY DEF CallBack
<1>5. CASE due' = Heard(t, l)
  BY <1>1, <1>5
<1>6. CASE \E other : due' = WithDue(Heard(t, l), {<<t, other>>}, 0)
  <2>1. PICK other : due' = WithDue(Heard(t, l), {<<t, other>>}, 0)
    BY <1>6
  <2>2. DOMAIN due' = DOMAIN due \cup {<<t, other>>}
    BY <1>2, <2>1
  <2>3. <<t, other>>[1] = t
    OBVIOUS
  <2> QED
    BY <2>2, <2>3
<1> QED
  BY <1>3, <1>4, <1>5, <1>6

(* It is crossed off the list of those who have to hear the message.       *)
LEMMA CallBackDue ==
  ASSUME TablesOK, SlotsOK, UNCHANGED <<msg, svc>>,
         NEW t \in Tables, NEW i \in DOMAIN table[t], table[t][i] \in Listeners[t],
         CallBack(t, table[t][i]), Wanted(t, table[t][i]),
         Ahead(t) = i, Ahead(t)' = i - 1,
         \A u \in Tables \ {t} : Ahead(u)' = Ahead(u) /\ table'[u] = table[u]
  PROVE  SlotsOK'
<1> DEFINE l == table[t][i]
           heard == Heard(t, l)
<1>1. /\ IsTable(t, table[t]) /\ table = [u \in Tables |-> table[u]]
      /\ \A a, b \in DOMAIN table[t] : table[t][a] = table[t][b] => a = b
  BY DEF TablesOK, IsTable, IsInjective
<1>2. Len(table[t]) \in Nat /\ DOMAIN table[t] = 1 .. Len(table[t]) /\ i \in 1 .. Len(table[t])
  BY <1>1, LenProperties DEF IsTable
<1>3. ASSUME NEW u \in Tables \ {t}, NEW j \in DOMAIN table[u]
      PROVE  Owed(u, j)' <=> Owed(u, j)
  <2>1. Wanted(u, table[u][j])' <=> Wanted(u, table[u][j])
    BY WantedStays
  <2> QED
    BY <2>1 DEF Owed
<1>4. ASSUME NEW j \in DOMAIN table[t] \ {i}, NEW k \in Nat,
             table'[t][k] = table[t][j], j < i => k = j, j > i => k >= i
      PROVE  Owed(t, k)' <=> Owed(t, j)
  <2>1. Wanted(t, table[t][k])' <=> Wanted(t, table[t][j])
    BY <1>4, WantedStays
  <2>2. j \in Nat /\ i \in Nat
    BY <1>2
  <2>3. CASE j < i
    BY <1>4, <2>1, <2>2, <2>3 DEF Owed
  <2>4. CASE j > i
    BY <1>4, <2>2, <2>4 DEF Owed
  <2> QED
    BY <2>2, <2>3, <2>4
<1>5. ASSUME NEW slot \in DOMAIN due, slot[1] # t,
             slot \in DOMAIN due', due'[slot] = due[slot]
      PROVE  SlotOK(slot)'
  <2>1. PICK u \in Tables : \E j \in DOMAIN table[u] :
           /\ slot = <<u, table[u][j]>> /\ table[u][j] \in Listeners[u]
           /\ due[slot] = IF Owed(u, j) THEN 1 ELSE 0
    BY DEF SlotsOK, SlotOK
  <2>2. PICK j \in DOMAIN table[u] :
           /\ slot = <<u, table[u][j]>> /\ table[u][j] \in Listeners[u]
           /\ due[slot] = IF Owed(u, j) THEN 1 ELSE 0
    BY <2>1
  <2>3. u \in Tables \ {t}
    BY <1>5, <2>2
  <2>4. table'[u] = table[u] /\ (Owed(u, j)' <=> Owed(u, j))
    BY <1>3, <2>3
  <2> QED
    BY <1>5, <2>2, <2>4, NextSlot
<1>6. ASSUME NEW slot \in DOMAIN due, slot[1] = t
      PROVE  \E j \in DOMAIN table[t] :
               /\ slot = <<t, table[t][j]>> /\ table[t][j] \in Listeners[t]
               /\ due[slot] = IF Owed(t, j) THEN 1 ELSE 0
  BY <1>6 DEF SlotsOK, SlotOK
<1>7. Owed(t, i)
  BY <1>2 DEF Owed
<1>8. CASE table' = table /\ due' = heard
  <2>1. ASSUME NEW slot \in DOMAIN due' PROVE SlotOK(slot)'
    <3>1. slot \in DOMAIN due /\ due'[slot] = IF slot = <<t, l>> THEN due[slot] - 1 ELSE due[slot]
      BY <1>8 DEF Heard
    <3>2. CASE slot[1] # t
      BY <1>5, <3>1, <3>2
    <3>3. CASE slot[1] = t
      <4>1. PICK j \in DOMAIN table[t] :
               /\ slot = <<t, table[t][j]>> /\ table[t][j] \in Listeners[t]
               /\ due[slot] = IF Owed(t, j) THEN 1 ELSE 0
        BY <1>6, <3>1, <3>3
      <4>0. j \in DOMAIN table'[t] /\ slot = <<t, table'[t][j]>> /\ table'[t][j] \in Listeners[t]
        BY <1>8, <4>1
      <4>2. CASE j = i
        <5>1. due'[slot] = 0
          BY <1>7, <3>1, <4>1, <4>2
        <5>2. ~Owed(t, j)'
          BY <1>2, <4>2 DEF Owed
        <5>3. due'[slot] = IF Owed(t, j)' THEN 1 ELSE 0
          BY <5>1, <5>2
        <5> QED
          BY <3>1, <4>0, <5>3, NextSlot
      <4>3. CASE j # i
        <5>1. due'[slot] = due[slot]
          BY <1>1, <3>1, <4>1, <4>3
        <5>2. j \in Nat
          BY <1>2
        <5>3. Owed(t, j)' <=> Owed(t, j)
          BY <1>2, <1>4, <1>8, <4>3, <5>2
        <5>4. due'[slot] = IF Owed(t, j)' THEN 1 ELSE 0
          BY <4>1, <5>1, <5>3
        <5> QED
          BY <3>1, <4>0, <5>4, NextSlot
      <4> QED
        BY <4>2, <4>3
    <3> QED
      BY <3>2, <3>3
  <2> QED
    BY <2>1 DEF SlotsOK
<1>9. ASSUME NEW other \in Listeners[t] \ Range(table[t]),
             table' = [table EXCEPT ![t] = Append(@, other)],
             due' = WithDue(heard, {<<t, other>>}, 0)
      PROVE  SlotsOK'
  <2>1. /\ DOMAIN table'[t] = 1 .. Len(table[t]) + 1
        /\ \A j \in DOMAIN table[t] : table'[t][j] = table[t][j]
        /\ table'[t][Len(table[t]) + 1] = other
    <3>1. table'[t] = Append(table[t], other) /\ other \in Entries(t) \ Range(table[t])
      BY <1>1, <1>9 DEF Entries
    <3> QED
      BY <1>1, <3>1, LongerTable
  <2>2. ASSUME NEW slot \in DOMAIN due', slot # <<t, other>>
        PROVE  SlotOK(slot)'
    <3>1. slot \in DOMAIN due /\ due'[slot] = IF slot = <<t, l>> THEN due[slot] - 1 ELSE due[slot]
      BY <1>9, <2>2 DEF Heard, WithDue, WithSlots
    <3>2. CASE slot[1] # t
      BY <1>5, <3>1, <3>2
    <3>3. CASE slot[1] = t
      <4>1. PICK j \in DOMAIN table[t] :
               /\ slot = <<t, table[t][j]>> /\ table[t][j] \in Listeners[t]
               /\ due[slot] = IF Owed(t, j) THEN 1 ELSE 0
        BY <1>6, <3>1, <3>3
      <4>2. j \in DOMAIN table'[t] /\ table'[t][j] = table[t][j] /\ j \in Nat
        BY <1>2, <2>1
      <4>3. due'[slot] = IF Owed(t, j)' THEN 1 ELSE 0
        <5>1. CASE j = i
          <6>1. due'[slot] = 0
            BY <1>7, <3>1, <4>1, <5>1
          <6>2. ~Owed(t, j)'
            BY <1>2, <5>1 DEF Owed
          <6> QED
            BY <6>1, <6>2
        <5>2. CASE j # i
          <6>1. due'[slot] = due[slot]
            BY <1>1, <3>1, <4>1, <5>2
          <6>2. Owed(t, j)' <=> Owed(t, j)
            BY <1>2, <1>4, <4>2, <5>2
          <6> QED
            BY <4>1, <6>1, <6>2
        <5> QED
          BY <5>1, <5>2
      <4>4. slot = <<t, table'[t][j]>> /\ table'[t][j] \in Listeners[t]
        BY <4>1, <4>2
      <4> QED
        BY <3>1, <4>2, <4>3, <4>4, NextSlot
    <3> QED
      BY <3>2, <3>3
  <2>3. ASSUME NEW slot \in DOMAIN due', slot = <<t, other>> PROVE SlotOK(slot)'
    <3>1. due'[slot] = 0
      BY <1>9, <2>3 DEF WithDue, WithSlots
    <3>2. PICK last \in Nat : last = Len(table[t]) + 1
      BY <1>2
    <3>3. last \in DOMAIN table'[t] /\ slot = <<t, table'[t][last]>> /\ table'[t][last] \in Listeners[t]
      BY <1>2, <2>1, <2>3, <3>2
    <3>4. ~Owed(t, last)'
      BY <1>2, <3>2 DEF Owed
    <3>5. due'[slot] = IF Owed(t, last)' THEN 1 ELSE 0
      BY <3>1, <3>4
    <3> QED
      BY <3>3, <3>5, NextSlot
  <2> QED
    BY <2>2, <2>3 DEF SlotsOK
<1>10. CASE /\ table' = [table EXCEPT ![t] = Removed(@, l)]
            /\ due' = [slot \in DOMAIN due \ {<<t, l>>} |-> due[slot]]
  <2>1. /\ DOMAIN table'[t] = 1 .. Len(table[t]) - 1
        /\ \A j \in DOMAIN table'[t] :
             table'[t][j] = IF j < i THEN table[t][j] ELSE table[t][j + 1]
    <3>1. table'[t] = Removed(table[t], l)
      BY <1>1, <1>10
    <3> QED
      BY <1>1, <3>1, ShorterTable
  <2>2. ASSUME NEW slot \in DOMAIN due' PROVE SlotOK(slot)'
    <3>1. slot \in DOMAIN due /\ slot # <<t, l>> /\ due'[slot] = due[slot]
      BY <1>10
    <3>2. CASE slot[1] # t
      BY <1>5, <3>1, <3>2
    <3>3. CASE slot[1] = t
      <4>1. PICK j \in DOMAIN table[t] :
               /\ slot = <<t, table[t][j]>> /\ table[t][j] \in Listeners[t]
               /\ due[slot] = IF Owed(t, j) THEN 1 ELSE 0
        BY <1>6, <3>1, <3>3
      <4> DEFINE k == IF j < i THEN j ELSE j - 1
      <4>2. j # i /\ j \in 1 .. Len(table[t])
        BY <1>2, <3>1, <4>1
      <4>3. k \in DOMAIN table'[t] /\ table'[t][k] = table[t][j] /\ k \in Nat
            /\ (j < i => k = j) /\ (j > i => k >= i)
        <5>1. CASE j < i
          BY <1>2, <2>1, <4>2, <5>1
        <5>2. CASE j > i
          <6>1. k = j - 1 /\ k \in 1 .. Len(table[t]) - 1 /\ ~(k < i) /\ k + 1 = j /\ k >= i
            BY <1>2, <4>2, <5>2
          <6> QED
            BY <2>1, <5>2, <6>1, <1>2
        <5> QED
          BY <1>2, <4>2, <5>1, <5>2
      <4> HIDE DEF k
      <4>4. Owed(t, k)' <=> Owed(t, j)
        BY <1>2, <1>4, <4>2, <4>3
      <4> QED
        BY <3>1, <4>1, <4>3, <4>4, NextSlot
    <3> QED
      BY <3>2, <3>3
  <2> QED
    BY <2>2 DEF SlotsOK
<1> QED
  BY <1>8, <1>9, <1>10 DEF CallBack

-----------------------------------------------------------------------------
(* What stands where in the tables of a running program.                   *)
LEMMA TableEntries ==
  ASSUME TablesOK, NEW t \in Tables
  PROVE  /\ Len(table[t]) \in Nat /\ DOMAIN table[t] = 1 .. Len(table[t])
         /\ \A i \in DOMAIN table[t] : table[t][i] \in Entries(t)
         /\ \A i, j \in DOMAIN table[t] : table[t][i] = table[t][j] => i = j
<1>1. table[t] \in Seq(Entries(t)) /\ IsInjective(table[t])
  BY DEF TablesOK, IsTable
<1>2. /\ Len(table[t]) \in Nat /\ DOMAIN table[t] = 1 .. Len(table[t])
      /\ \A i \in 1 .. Len(table[t]) : table[t][i] \in Entries(t)
  BY <1>1, LenProperties, ElementOfSeq
<1> QED
  BY <1>1, <1>2 DEF IsInjective

LEMMA OwnPlaces ==
  ASSUME TablesOK, OwnFirst, Running, NEW t \in Tables
  PROVE  /\ \A i \in DOMAIN table[t] :
              \/ table[t][i] \in Listeners[t]
              \/ i = 1 /\ table[t][i] = "services" /\ t[1] = "message"
              \/ i = 1 /\ table[t][i] = "config" /\ t[1] = "service" /\ t[2] \in Configurables
         /\ t[1] = "message" => 1 \in DOMAIN table[t] /\ table[t][1] = "services"
         /\ t[1] = "service" /\ t[2] \in Configurables =>
              1 \in DOMAIN table[t] /\ table[t][1] = "config"
<1>1. OwnStaysFirst(t, table[t])
  BY DEF OwnFirst
<1>2. t[1] = "message" => 1 \in DOMAIN table[t] /\ table[t][1] = "services"
  <2>1. ASSUME t[1] = "message" PROVE 1 \in DOMAIN table[t] /\ table[t][1] = "services"
    <3>1. OwnListener(t) = <<"services">>
      BY <2>1, OwnListeners
    <3> QED
      BY <1>1, <3>1 DEF OwnStaysFirst
  <2> QED
    BY <2>1
<1>3. t[1] = "service" /\ t[2] \in Configurables =>
        1 \in DOMAIN table[t] /\ table[t][1] = "config"
  <2>1. ASSUME t[1] = "service", t[2] \in Configurables
        PROVE  1 \in DOMAIN table[t] /\ table[t][1] = "config"
    <3>1. OwnListener(t) = <<"config">>
      BY <2>1, OwnListeners
    <3> QED
      BY <1>1, <3>1 DEF OwnStaysFirst
  <2> QED
    BY <2>1
<1>4. ASSUME NEW i \in DOMAIN table[t]
      PROVE  \/ table[t][i] \in Listeners[t]
             \/ i = 1 /\ table[t][i] = "services" /\ t[1] = "message"
             \/ i = 1 /\ table[t][i] = "config" /\ t[1] = "service" /\ t[2] \in Configurables
  <2>1. /\ table[t][i] \in Entries(t)
        /\ \A k, j \in DOMAIN table[t] : table[t][k] = table[t][j] => k = j
    BY TableEntries
  <2>2. \/ table[t][i] \in Listeners[t]
        \/ table[t][i] = "services" /\ t[1] = "message"
        \/ table[t][i] = "config" /\ t[1] = "service" /\ t[2] \in Configurables
    BY <2>1, OwnIsNoListener
  <2> QED
    BY <1>2, <1>3, <2>1, <2>2
<1> QED
  BY <1>2, <1>3, <1>4

(* The parts that no dispatch touches.                                     *)
LEMMA SameServices ==
  ASSUME ServicesOK, UNCHANGED svc
  PROVE  ServicesOK' /\ (Running' <=> Running) /\ \A s \in Service : svc'[s] = svc[s]
BY DEF ServicesOK, Running, IsServiceState

LEMMA SameTables ==
  ASSUME TablesOK, OwnFirst, UNCHANGED table, Running' => Running
  PROVE  TablesOK' /\ OwnFirst'
BY DEF TablesOK, OwnFirst

LEMMA SameSlots ==
  ASSUME SlotsOK, UNCHANGED <<table, due>>,
         \A t \in Tables : \A i \in DOMAIN table[t] :
           table[t][i] \in Listeners[t] => (Owed(t, i)' <=> Owed(t, i))
  PROVE  SlotsOK'
<1>1. ASSUME NEW slot \in DOMAIN due PROVE SlotOK(slot)'
  <2>1. PICK t \in Tables : \E i \in DOMAIN table[t] :
          /\ slot = <<t, table[t][i]>> /\ table[t][i] \in Listeners[t]
          /\ due[slot] = IF Owed(t, i) THEN 1 ELSE 0
    BY DEF SlotsOK, SlotOK
  <2>2. PICK i \in DOMAIN table[t] :
          /\ slot = <<t, table[t][i]>> /\ table[t][i] \in Listeners[t]
          /\ due[slot] = IF Owed(t, i) THEN 1 ELSE 0
    BY <2>1
  <2>3. Owed(t, i)' <=> Owed(t, i)
    BY <2>2
  <2>4. due'[slot] = IF Owed(t, i)' THEN 1 ELSE 0
    BY <2>2, <2>3
  <2>5. i \in DOMAIN table'[t] /\ slot = <<t, table'[t][i]>> /\ table'[t][i] \in Listeners[t]
    BY <2>2
  <2> QED
    BY <2>4, <2>5, NextSlot
<1> QED
  BY <1>1 DEF SlotsOK

(* With nobody waiting there is nothing to say.                            *)
LEMMA NoSlots ==
  ASSUME DOMAIN due' = {}
  PROVE  SlotsOK'
BY DEF SlotsOK

LEMMA NothingDue == DOMAIN << >> = {}
OBVIOUS

-----------------------------------------------------------------------------
(* Start, and the calls of the program between two messages.               *)
LEMMA InitKeeps ==
  ASSUME NEW exact, Init
  PROVE  ReceiveInv(exact)
<1>1. ASSUME NEW t \in Tables PROVE IsTable(t, table[t])
  <2>1. table[t] = << >> /\ << >> \in Seq(Entries(t)) /\ IsInjective(<< >>)
    BY NothingDue DEF Init, IsInjective
  <2> QED
    BY <2>1 DEF IsTable
<1>2. TablesOK
  BY <1>1 DEF TablesOK, Init
<1>3. ServicesOK /\ \A s \in Service : ~svc[s].up
  BY DEF Init, ServicesOK, Down, IsServiceState
<1>4. ~Running
  BY <1>3, AllServices DEF Running
<1>5. round \in RoundType /\ round.phase = "idle" /\ DOMAIN due = {}
  BY AllServices, NothingDue DEF Init, Idle, RoundType, Phases
<1>6. RoundOK
  BY <1>5 DEF RoundOK, InLoops
<1> QED
  BY <1>2, <1>3, <1>4, <1>5, <1>6 DEF ReceiveInv, OwnFirst, Life, MailOK, SlotsOK

LEMMA StartKeeps ==
  ASSUME NEW exact, ReceiveInv(exact), Start
  PROVE  ReceiveInv(exact)'
<1>1. ~Running
  BY AllServices DEF Start, Running
<1>2. round.phase = "idle" /\ DOMAIN due = {}
  BY <1>1 DEF ReceiveInv, Life, RoundOK
<1>3. \A t \in Tables : IsTable(t, table'[t]) /\ OwnStaysFirst(t, table'[t])
  BY FirstTable DEF Start
<1>4. TablesOK' /\ OwnFirst'
  BY <1>3 DEF TablesOK, OwnFirst, Start
<1>5. ServicesOK' /\ Running'
  BY DEF Start, ServicesOK, Running, IsServiceState
<1>6. RoundOK' /\ MailOK' /\ (exact => SlotsOK')
  <2>1. UNCHANGED <<round, due, meant>>
    BY DEF Start
  <2>2. round \in RoundType
    BY DEF ReceiveInv, RoundOK
  <2> QED
    BY <1>2, <2>1, <2>2, NoSlots DEF RoundOK, InLoops, MailOK
<1> QED
  BY <1>4, <1>5, <1>6 DEF ReceiveInv, Life

(* Enable and ChangeItem keep the services up or down.                     *)
LEMMA BetweenMessages ==
  ASSUME NEW exact, ReceiveInv(exact), round.phase = "idle",
         UNCHANGED <<table, round, due, meant>>,
         ServicesOK', \A s \in Service : svc'[s].up = svc[s].up
  PROVE  ReceiveInv(exact)'
<1>1. Running' <=> Running
  BY DEF Running
<1>2. TablesOK' /\ OwnFirst'
  BY <1>1, SameTables DEF ReceiveInv
<1>3. DOMAIN due = {} /\ round \in RoundType
  BY DEF ReceiveInv, RoundOK
<1>4. RoundOK' /\ MailOK' /\ (exact => SlotsOK')
  BY <1>3, NoSlots DEF RoundOK, InLoops, MailOK
<1>5. Life'
  BY <1>1 DEF Life, ReceiveInv
<1> QED
  BY <1>2, <1>4, <1>5 DEF ReceiveInv

LEMMA EnableKeeps ==
  ASSUME NEW exact, ReceiveInv(exact), Enable
  PROVE  ReceiveInv(exact)'
<1>1. ASSUME NEW s \in Service
      PROVE  IsServiceState(svc'[s]) /\ svc'[s].up = svc[s].up /\ svc'[s].up \in BOOLEAN
  <2>1. IsServiceState(svc[s]) /\ svc[s].up \in BOOLEAN
    BY DEF ReceiveInv, ServicesOK
  <2>2. svc'[s] = [svc[s] EXCEPT !.enabled = TRUE]
    BY DEF Enable
  <2> QED
    BY <2>1, <2>2 DEF IsServiceState
<1>2. svc' = [s \in Service |-> svc'[s]]
  BY DEF Enable
<1>3. round.phase = "idle"
  BY DEF Enable, Idle
<1>4. UNCHANGED <<table, round, due, meant>>
  BY DEF Enable
<1>5. ServicesOK'
  BY <1>1, <1>2 DEF ServicesOK
<1> QED
  BY <1>1, <1>3, <1>4, <1>5, BetweenMessages

(* Other settings for one service.                                         *)
LEMMA OtherSettings ==
  ASSUME ServicesOK, NEW s \in Service, NEW settings, svc' = [svc EXCEPT ![s].settings = settings]
  PROVE  /\ ServicesOK' /\ \A other \in Service : svc'[other].up = svc[other].up
         /\ \A other \in Service \ {s} : svc'[other] = svc[other]
<1>1. ASSUME NEW other \in Service
      PROVE  /\ IsServiceState(svc'[other]) /\ svc'[other].up = svc[other].up
             /\ other # s => svc'[other] = svc[other]
  <2>1. svc = [x \in Service |-> svc[x]] /\ IsServiceState(svc[other])
    BY DEF ServicesOK
  <2>2. svc'[other] = IF other = s THEN [svc[other] EXCEPT !.settings = settings] ELSE svc[other]
    BY <2>1
  <2> QED
    BY <2>1, <2>2 DEF IsServiceState
<1>2. svc' = [x \in Service |-> svc'[x]]
  BY DEF ServicesOK
<1>3. \A other \in Service : svc[other].up \in BOOLEAN
  BY DEF ServicesOK
<1> QED
  BY <1>1, <1>2, <1>3 DEF ServicesOK

LEMMA ChangeItemKeeps ==
  ASSUME NEW exact, ReceiveInv(exact), NEW s \in Service, NEW settings, ChangeItem(s, settings)
  PROVE  ReceiveInv(exact)'
<1>1. ServicesOK' /\ \A other \in Service : svc'[other].up = svc[other].up
  BY OtherSettings DEF ReceiveInv, ChangeItem
<1>2. round.phase = "idle" /\ UNCHANGED <<table, round, due, meant>>
  BY DEF ChangeItem, Idle
<1> QED
  BY <1>1, <1>2, BetweenMessages

LEMMA DiesKeeps ==
  ASSUME NEW exact, Dies
  PROVE  ReceiveInv(exact)'
<1>1. ASSUME NEW t \in Tables PROVE IsTable(t, table'[t])
  <2>1. table'[t] = << >> /\ << >> \in Seq(Entries(t)) /\ IsInjective(<< >>)
    BY NothingDue DEF Dies, IsInjective
  <2> QED
    BY <2>1 DEF IsTable
<1>2. TablesOK'
  BY <1>1 DEF TablesOK, Dies
<1>3. ServicesOK' /\ \A s \in Service : ~svc'[s].up
  BY DEF Dies, ServicesOK, Down, IsServiceState
<1>4. ~Running'
  BY <1>3, AllServices DEF Running
<1>5. round' \in RoundType /\ round'.phase = "idle" /\ DOMAIN due' = {}
  BY AllServices, NothingDue DEF Dies, Idle, RoundType, Phases
<1>6. RoundOK'
  BY <1>5 DEF RoundOK, InLoops
<1> QED
  BY <1>2, <1>3, <1>4, <1>5, <1>6 DEF ReceiveInv, OwnFirst, Life, MailOK, SlotsOK

-----------------------------------------------------------------------------
(* A message comes, and the raw listeners hear it.                         *)
LEMMA ReceiveMessageKeeps ==
  ASSUME NEW exact, ReceiveInv(exact), NEW mail \in Mails \cup Junk, ReceiveMessage(mail)
  PROVE  ReceiveInv(exact)'
<1>1. ServicesOK' /\ Running'
  BY SameServices DEF ReceiveInv, ReceiveMessage, Running
<1>2. TablesOK' /\ OwnFirst'
  BY SameTables DEF ReceiveInv, ReceiveMessage, Running
<1>3. /\ Len(table[Raw]) \in Nat /\ DOMAIN table[Raw] = 1 .. Len(table[Raw])
      /\ \A i \in DOMAIN table[Raw] : table[Raw][i] \in Entries(Raw)
  BY TableEntries, TablesOfServices DEF ReceiveInv
<1>4. /\ round' \in RoundType /\ round'.phase = "raw" /\ round'.at = Len(table[Raw])
  <2>1. Idle \in RoundType
    BY AllServices DEF Idle, RoundType, Phases
  <2>2. round' = [Idle EXCEPT !.phase = "raw", !.at = Len(table[Raw])]
    BY DEF ReceiveMessage
  <2> QED
    BY <1>3, <2>1, <2>2 DEF RoundType, Phases
<1>5. ASSUME NEW slot \in DOMAIN due' PROVE SlotOK(slot)' /\ slot[1] = Raw
  <2>1. PICK i \in DOMAIN table[Raw] : slot = <<Raw, table[Raw][i]>> /\ due'[slot] = 1
    BY DEF ReceiveMessage, Range
  <2>2. table[Raw][i] \in Listeners[Raw]
    BY <1>3, OwnIsNoListener, TablesOfServices
  <2>3. Owed(Raw, i)'
    <3>1. Ahead(Raw)' = Len(table[Raw])
      BY <1>4, TablesOfServices DEF Ahead
    <3>2. Wanted(Raw, table[Raw][i])'
      BY TablesOfServices DEF Wanted
    <3> QED
      BY <1>3, <3>1, <3>2 DEF Owed
  <2>4. UNCHANGED table
    BY DEF ReceiveMessage
  <2>5. due'[slot] = IF Owed(Raw, i)' THEN 1 ELSE 0
    BY <2>1, <2>3
  <2>6. i \in DOMAIN table'[Raw] /\ slot = <<Raw, table'[Raw][i]>> /\ table'[Raw][i] \in Listeners[Raw]
    BY <2>1, <2>2, <2>4
  <2> QED
    BY <2>1, <2>5, <2>6, NextSlot, TablesOfServices
<1>6. RoundOK'
  BY <1>3, <1>4, <1>5 DEF RoundOK, InLoops, ReceiveMessage
<1>7. MailOK' /\ (exact => SlotsOK')
  BY <1>5 DEF MailOK, ReceiveMessage, SlotsOK
<1> QED
  BY <1>1, <1>2, <1>6, <1>7 DEF ReceiveInv, Life

LEMMA DispatchRawKeeps ==
  ASSUME NEW exact, ReceiveInv(exact), DispatchRaw
  PROVE  ReceiveInv(exact)'
<1>1. /\ round \in RoundType /\ round.phase = "raw" /\ round.at > 0
      /\ round.at <= Len(table[Raw]) /\ \A slot \in DOMAIN due : slot[1] = Raw
  BY DEF ReceiveInv, RoundOK, DispatchRaw
<1>2. Running /\ TablesOK /\ OwnFirst /\ ServicesOK /\ (exact => SlotsOK) /\ MailOK
  BY <1>1 DEF ReceiveInv, Life
<1>3. UNCHANGED <<msg, svc, meant>>
  BY DEF DispatchRaw
<1>4. PICK i \in DOMAIN table[Raw] : i = round.at
  BY <1>1, <1>2, TableEntries, TablesOfServices DEF RoundType
<1>5. table[Raw][i] \in Listeners[Raw]
  BY <1>2, OwnPlaces, TablesOfServices
<1>6. CallBack(Raw, table[Raw][i])
  BY <1>4 DEF DispatchRaw
<1>7. i - 1 \in Nat
  BY <1>2, <1>4, TableEntries, TablesOfServices
<1>8. round' \in RoundType /\ round'.phase = "raw" /\ round'.at = i - 1
  BY <1>1, <1>4, <1>7 DEF DispatchRaw, NextIndex, RoundType
<1>9. /\ TablesOK' /\ OwnFirst'
      /\ \A u \in Tables \ {Raw} : table'[u] = table[u]
      /\ i - 1 <= Len(table'[Raw])
  BY <1>2, <1>3, <1>5, <1>6, CallBackTable, TablesOfServices
<1>10. Ahead(Raw) = i /\ Ahead(Raw)' = i - 1
  BY <1>1, <1>4, <1>8, TablesOfServices DEF Ahead
<1>11. ASSUME NEW u \in Tables \ {Raw} PROVE Ahead(u)' = Ahead(u)
  <2>1. u[1] \in {"message", "service", "changed"}
    BY TableKinds
  <2> QED
    BY <1>1, <1>8, <2>1 DEF Ahead, ServiceAhead, InLoops
<1>12. Wanted(Raw, table[Raw][i])
  BY TablesOfServices DEF Wanted
<1>13. exact => SlotsOK'
  BY <1>2, <1>3, <1>5, <1>6, <1>9, <1>10, <1>11, <1>12, CallBackDue, TablesOfServices
<1>14. RoundOK'
  BY <1>1, <1>6, <1>8, <1>9, CallBackSlots DEF RoundOK, InLoops
<1>15. ServicesOK' /\ Running' /\ MailOK'
  BY <1>1, <1>2, <1>3, SameServices DEF MailOK
<1> QED
  BY <1>9, <1>13, <1>14, <1>15 DEF ReceiveInv, Life

-----------------------------------------------------------------------------
(* The message is parsed, and it is settled who has to hear it: those it   *)
(* is for in its sender's terms are those handleMessage lets it through to.*)
LEMMA ForWhom ==
  ASSUME NEW mail \in Mails, NEW m, Carries(m, mail), NEW s
  PROVE  IsFor(mail, s) <=> Applies(s, m)
<1>1. ToAll(mail) \/ Addressee(mail).call \in {"group", "target"}
  BY MailConstants
<1>2. Fields(m) = Fields(mail) /\ m.source = mail.source /\ m.type = mail.type
  BY DEF Carries, Fields
<1>3. m.broadcast = ToAll(mail) /\ ToAll(mail) \in BOOLEAN
  BY DEF Carries, ToAll
<1>4. CASE ToAll(mail)
  BY <1>2, <1>3, <1>4 DEF IsFor, Applies, PassesFilters
<1>5. CASE ~ToAll(mail)
  <2>1. /\ m.isGroup = (Addressee(mail).call = "group")
        /\ IF m.isGroup THEN m.group = GroupReached(mail)
                        ELSE m.target = Addressee(mail).arg
    BY <1>5 DEF Carries
  <2>2. CASE Addressee(mail).call = "group"
    BY <1>2, <1>3, <1>5, <2>1, <2>2 DEF IsFor, Applies
  <2>3. CASE Addressee(mail).call # "group"
    <3>1. Addressee(mail).call = "target"
      BY <1>1, <1>5, <2>3
    <3> QED
      BY <1>2, <1>3, <1>5, <2>1, <2>3, <3>1 DEF IsFor, Applies
  <2> QED
    BY <2>2, <2>3
<1> QED
  BY <1>4, <1>5

LEMMA ExpectedSlots ==
  ASSUME NEW mail, NEW slot \in DOMAIN Expected(mail)
  PROVE  \E t \in Tables : \E i \in DOMAIN table[t] :
           /\ slot = <<t, table[t][i]>> /\ table[t][i] \notin {"services", "config"}
           /\ \/ t[1] = "message" /\ Expected(mail)[slot] = 1
              \/ /\ t[1] = "service" /\ t[2] \in Service
                 /\ Expected(mail)[slot] =
                      IF /\ IsFor(mail, t[2])
                         /\ Asks(Selects[table[t][i]], mail.type, mail.class, mail.schema)
                        THEN 1 ELSE 0
<1> DEFINE Slots(t) == {<<t, l>> : l \in Range(table[t]) \ {"services", "config"}}
           all == UNION {Slots(Handlers(s)) : s \in Service}
           wanted == Slots(Messages) \cup
                       {x \in all : /\ IsFor(mail, x[1][2])
                                    /\ Asks(Selects[x[2]], mail.type, mail.class, mail.schema)}
<1>1. /\ slot \in Slots(Messages) \cup all
      /\ Expected(mail)[slot] = IF slot \in wanted THEN 1 ELSE 0
  BY DEF Expected
<1>2. CASE slot \in Slots(Messages)
  <2>1. PICK i \in DOMAIN table[Messages] :
          slot = <<Messages, table[Messages][i]>> /\ table[Messages][i] \notin {"services", "config"}
    BY <1>2 DEF Range
  <2>2. Expected(mail)[slot] = 1
    BY <1>1, <1>2
  <2> QED
    BY <2>1, <2>2, TablesOfServices
<1>3. CASE slot \in all
  <2>1. PICK s \in Service : slot \in Slots(Handlers(s))
    BY <1>3
  <2>2. PICK i \in DOMAIN table[Handlers(s)] :
          /\ slot = <<Handlers(s), table[Handlers(s)][i]>>
          /\ table[Handlers(s)][i] \notin {"services", "config"}
    BY <2>1 DEF Range
  <2>3. slot \notin Slots(Messages)
    BY <2>2, TablesOfServices
  <2>4. slot[1][2] = s /\ slot[2] = table[Handlers(s)][i]
    BY <2>2, TablesOfServices
  <2>5. Expected(mail)[slot] =
          IF IsFor(mail, s) /\ Asks(Selects[table[Handlers(s)][i]], mail.type, mail.class, mail.schema)
            THEN 1 ELSE 0
    BY <1>1, <1>3, <2>3, <2>4
  <2> QED
    BY <2>2, <2>5, TablesOfServices
<1> QED
  BY <1>1, <1>2, <1>3

LEMMA ParseMessageKeeps ==
  ASSUME NEW exact, ReceiveInv(exact), exact => WhatIsHeardIsWhatWasSent', ParseMessage
  PROVE  ReceiveInv(exact)'
<1>1. /\ round \in RoundType /\ round.phase = "raw" /\ round.at = 0
      /\ \A slot \in DOMAIN due : slot[1] = Raw
  BY DEF ReceiveInv, RoundOK, ParseMessage
<1>2. Running /\ TablesOK /\ OwnFirst /\ ServicesOK /\ (exact => SlotsOK) /\ MailOK
  BY <1>1 DEF ReceiveInv, Life
<1>3. UNCHANGED <<table, svc>>
  BY DEF ParseMessage
<1>4. ServicesOK' /\ Running' /\ TablesOK' /\ OwnFirst'
  BY <1>2, <1>3, SameServices, SameTables
<1>5. CASE ~Parses(buff)
  <2>1. EndOfRound
    BY <1>5 DEF ParseMessage
  <2>2. round' \in RoundType /\ round'.phase = "idle" /\ DOMAIN due' = {}
    BY <2>1, AllServices, NothingDue DEF EndOfRound, Idle, RoundType, Phases
  <2>3. RoundOK' /\ MailOK' /\ (exact => SlotsOK')
    BY <2>2, NoSlots DEF RoundOK, InLoops, MailOK
  <2> QED
    BY <1>4, <2>3 DEF ReceiveInv, Life
<1>6. CASE Parses(buff)
  <2>1. /\ round' = [round EXCEPT !.phase = "message", !.at = Len(table[Messages])]
        /\ due' = IF meant.kind = "junk" THEN due ELSE WithSlots(due, Expected(meant))
        /\ UNCHANGED meant
    BY <1>6 DEF ParseMessage
  <2>2. /\ Len(table[Messages]) \in Nat /\ DOMAIN table[Messages] = 1 .. Len(table[Messages])
        /\ 1 \in DOMAIN table[Messages]
    BY <1>2, TableEntries, OwnPlaces, TablesOfServices
  <2>3. /\ round' \in RoundType /\ round'.phase = "message"
        /\ round'.at = Len(table[Messages]) /\ round'.at > 0
    <3>1. Len(table[Messages]) \in Nat /\ Len(table[Messages]) > 0
      BY <2>2
    <3> QED
      BY <1>1, <2>1, <3>1 DEF RoundType, Phases
  <2>4. ASSUME exact, NEW slot \in DOMAIN due, due'[slot] = due[slot] PROVE SlotOK(slot)'
    <3>1. PICK t \in Tables : \E i \in DOMAIN table[t] :
            /\ slot = <<t, table[t][i]>> /\ table[t][i] \in Listeners[t]
            /\ due[slot] = IF Owed(t, i) THEN 1 ELSE 0
      BY <1>2, <2>4 DEF SlotsOK, SlotOK
    <3>2. PICK i \in DOMAIN table[t] :
            /\ slot = <<t, table[t][i]>> /\ table[t][i] \in Listeners[t]
            /\ due[slot] = IF Owed(t, i) THEN 1 ELSE 0
      BY <3>1
    <3>3. t = Raw /\ i > 0 /\ i \in Nat
      BY <1>1, <1>2, <3>2, TableEntries
    <3>4. Ahead(t) = 0 /\ Ahead(t)' = 0
      BY <1>1, <2>3, <3>3, TablesOfServices DEF Ahead
    <3>5. ~Owed(t, i) /\ ~Owed(t, i)'
      BY <3>3, <3>4 DEF Owed
    <3>6. due'[slot] = IF Owed(t, i)' THEN 1 ELSE 0
      BY <2>4, <3>2, <3>5
    <3>7. i \in DOMAIN table'[t] /\ slot = <<t, table'[t][i]>> /\ table'[t][i] \in Listeners[t]
      BY <1>3, <3>2
    <3> QED
      BY <3>6, <3>7, NextSlot
  <2>5. ASSUME exact, meant.kind = "junk" PROVE SlotsOK'
    BY <2>1, <2>4, <2>5 DEF SlotsOK
  <2>6. ASSUME exact, meant.kind # "junk" PROVE SlotsOK'
    <3>1. meant.kind = "mail" /\ Carries(msg', meant) /\ meant \in Mails
      <4>1. meant.kind = "mail" /\ Carries(msg', meant)
        BY <2>1, <2>3, <2>6 DEF WhatIsHeardIsWhatWasSent, InLoops
      <4>2. meant \in Mails \cup Junk
        BY <1>1, <1>2 DEF MailOK
      <4> QED
        BY <4>1, <4>2, MailConstants
    <3>2. /\ DOMAIN due' = DOMAIN due \cup DOMAIN Expected(meant)
          /\ \A slot \in DOMAIN due' :
               due'[slot] = IF slot \in DOMAIN Expected(meant) THEN Expected(meant)[slot] ELSE due[slot]
      BY <2>1, <3>1 DEF WithSlots
    <3>3. ASSUME NEW slot \in DOMAIN due \ DOMAIN Expected(meant) PROVE SlotOK(slot)'
      BY <2>4, <2>6, <3>2
    <3>4. ASSUME NEW slot \in DOMAIN Expected(meant) PROVE SlotOK(slot)'
      <4>1. PICK mail \in Mails : mail = meant
        BY <3>1
      <4>2. PICK t \in Tables : \E i \in DOMAIN table[t] :
              /\ slot = <<t, table[t][i]>> /\ table[t][i] \notin {"services", "config"}
              /\ \/ t[1] = "message" /\ Expected(mail)[slot] = 1
                 \/ /\ t[1] = "service" /\ t[2] \in Service
                    /\ Expected(mail)[slot] =
                         IF /\ IsFor(mail, t[2])
                            /\ Asks(Selects[table[t][i]], mail.type, mail.class, mail.schema)
                           THEN 1 ELSE 0
        BY <4>1, ExpectedSlots
      <4>3. PICK i \in DOMAIN table[t] :
              /\ slot = <<t, table[t][i]>> /\ table[t][i] \notin {"services", "config"}
              /\ \/ t[1] = "message" /\ Expected(mail)[slot] = 1
                 \/ /\ t[1] = "service" /\ t[2] \in Service
                    /\ Expected(mail)[slot] =
                         IF /\ IsFor(mail, t[2])
                            /\ Asks(Selects[table[t][i]], mail.type, mail.class, mail.schema)
                           THEN 1 ELSE 0
        BY <4>2
      <4>4. table[t][i] \in Listeners[t] /\ i \in 1 .. Len(table[t])
        BY <1>2, <4>3, OwnPlaces, TableEntries
      <4>5. i <= Ahead(t)'
        <5>1. CASE t[1] = "message"
          <6>1. t = Messages
            BY <5>1, TableKinds
          <6>2. Ahead(t)' = Len(table[Messages])
            BY <2>3, <5>1 DEF Ahead, InLoops
          <6> QED
            BY <2>2, <4>4, <6>1, <6>2
        <5>2. CASE t[1] = "service"
          <6>1. t = Handlers(t[2])
            BY <5>2, TableKinds
          <6>2. Ahead(t)' = Len(table[Handlers(t[2])])
            BY <1>3, <2>3, <5>2 DEF Ahead, ServiceAhead
          <6> QED
            BY <1>2, <4>4, <6>1, <6>2, TableEntries
        <5> QED
          BY <4>3, <5>1, <5>2
      <4>6. Expected(mail)[slot] = IF Wanted(t, table[t][i])' THEN 1 ELSE 0
        <5>1. CASE t[1] = "message"
          BY <4>3, <5>1 DEF Wanted
        <5>2. CASE t[1] = "service"
          <6>1. (IsFor(mail, t[2]) <=> Applies(t[2], msg')) /\ (Applies(t[2], msg)' <=> Applies(t[2], msg'))
            <7>1. Applies(t[2], msg)' <=> Applies(t[2], msg')
              BY <1>3 DEF Applies, PassesFilters, NameOf
            <7> QED
              BY <3>1, <4>1, <7>1, ForWhom
          <6>2. msg'.type = mail.type /\ msg'.class = mail.class /\ msg'.schema = mail.schema
            BY <3>1, <4>1 DEF Carries
          <6>3. Wanted(t, table[t][i])' <=>
                  IsFor(mail, t[2]) /\ Asks(Selects[table[t][i]], mail.type, mail.class, mail.schema)
            BY <1>3, <5>2, <6>1, <6>2 DEF Wanted
          <6> QED
            BY <4>3, <5>2, <6>3
        <5> QED
          BY <4>3, <5>1, <5>2
      <4>7. due'[slot] = IF Owed(t, i)' THEN 1 ELSE 0
        BY <3>2, <4>1, <4>5, <4>6 DEF Owed
      <4>8. i \in DOMAIN table'[t] /\ slot = <<t, table'[t][i]>> /\ table'[t][i] \in Listeners[t]
        BY <1>3, <4>3, <4>4
      <4> QED
        BY <4>7, <4>8, NextSlot
    <3> QED
      BY <3>2, <3>3, <3>4 DEF SlotsOK
  <2>7. RoundOK' /\ MailOK'
    BY <1>1, <1>2, <1>3, <2>1, <2>2, <2>3 DEF RoundOK, InLoops, MailOK
  <2> QED
    BY <1>4, <2>5, <2>6, <2>7 DEF ReceiveInv, Life
<1> QED
  BY <1>5, <1>6

-----------------------------------------------------------------------------
(* Steps of the loops that call nobody: what is still to come is the same. *)
LEMMA QuietStep ==
  ASSUME NEW exact, ReceiveInv(exact), round.phase # "idle", round'.phase # "idle",
         UNCHANGED <<msg, table, svc, meant, due>>, RoundOK',
         \A t \in Tables : \A i \in DOMAIN table[t] :
           table[t][i] \in Listeners[t] /\ Wanted(t, table[t][i]) =>
             (i <= Ahead(t)' <=> i <= Ahead(t))
  PROVE  ReceiveInv(exact)'
<1>1. Running /\ ServicesOK /\ TablesOK /\ OwnFirst /\ (exact => SlotsOK) /\ MailOK
  BY DEF ReceiveInv, Life
<1>2. ServicesOK' /\ Running' /\ TablesOK' /\ OwnFirst' /\ MailOK'
  BY <1>1, SameServices, SameTables DEF MailOK
<1>3. ASSUME NEW t \in Tables, NEW i \in DOMAIN table[t], table[t][i] \in Listeners[t]
      PROVE  Owed(t, i)' <=> Owed(t, i)
  <2>1. Wanted(t, table[t][i])' <=> Wanted(t, table[t][i])
    BY WantedStays
  <2> QED
    BY <1>3, <2>1 DEF Owed
<1>4. exact => SlotsOK'
  BY <1>1, <1>3, SameSlots
<1> QED
  BY <1>2, <1>4 DEF ReceiveInv, Life

(* Where the loop over the services is.                                    *)
LEMMA AtTurn ==
  ASSUME NEW exact, ReceiveInv(exact),
         round.phase \in {"handler", "changed"} \/ (round.phase = "service" /\ round.service > 0)
  PROVE  /\ round \in RoundType /\ round.at = 1 /\ round.service \in 1 .. Len(Services)
         /\ Running /\ Turn \in Service /\ Turn \notin ServicesUpTo(round.service - 1)
         /\ \A s : s \in ServicesUpTo(round.service) <=>
                     s \in ServicesUpTo(round.service - 1) \/ s = Turn
         /\ Len(table[Handlers(Turn)]) \in Nat
         /\ DOMAIN table[Handlers(Turn)] = 1 .. Len(table[Handlers(Turn)])
<1>1. round \in RoundType /\ round.at = 1 /\ round.service > 0 /\ Running
  BY DEF ReceiveInv, RoundOK, Life
<1>2. round.service \in 1 .. Len(Services)
  BY <1>1, AllServices DEF RoundType
<1>3. /\ Turn \in Service /\ Turn \notin ServicesUpTo(round.service - 1)
      /\ \A s : s \in ServicesUpTo(round.service) <=>
                  s \in ServicesUpTo(round.service - 1) \/ s = Turn
  BY <1>2, OneService DEF Turn
<1>4. /\ Len(table[Handlers(Turn)]) \in Nat
      /\ DOMAIN table[Handlers(Turn)] = 1 .. Len(table[Handlers(Turn)])
  BY <1>3, TableEntries, TablesOfServices DEF ReceiveInv
<1> QED
  BY <1>1, <1>2, <1>3, <1>4

LEMMA AtConfig ==
  ASSUME NEW exact, ReceiveInv(exact), AtConfigHandler
  PROVE  round.handler = 1 /\ Turn \in Configurables
<1>1. /\ Running /\ Turn \in Service /\ round \in RoundType
      /\ Len(table[Handlers(Turn)]) \in Nat
      /\ DOMAIN table[Handlers(Turn)] = 1 .. Len(table[Handlers(Turn)])
      /\ round.handler > 0 /\ round.handler <= Len(table[Handlers(Turn)])
  BY AtTurn DEF AtConfigHandler, ReceiveInv, RoundOK
<1>2. PICK s \in Service : s = Turn
  BY <1>1
<1>3. PICK i \in DOMAIN table[Handlers(s)] : i = round.handler
  BY <1>1, <1>2 DEF RoundType
<1>4. table[Handlers(s)][i] = "config"
  BY <1>2, <1>3 DEF AtConfigHandler
<1>5. /\ Handlers(s) \in Tables /\ Handlers(s)[1] = "service" /\ Handlers(s)[2] = s
      /\ "config" \notin Listeners[Handlers(s)]
  BY TablesOfServices, OwnIsNoListener
<1>6. i = 1 /\ s \in Configurables
  BY <1>1, <1>4, <1>5, OwnPlaces DEF ReceiveInv
<1> QED
  BY <1>2, <1>3, <1>6

LEMMA HandleMessageKeeps ==
  ASSUME NEW exact, ReceiveInv(exact), HandleMessage
  PROVE  ReceiveInv(exact)'
<1>1. /\ round.phase = "service" /\ round \in RoundType /\ round.at = 1
      /\ round.service \in 1 .. Len(Services) /\ Running
      /\ round.at <= Len(table[Messages])
  BY AtTurn DEF HandleMessage, ReceiveInv, RoundOK, InLoops
<1>2. PICK n \in 1 .. Len(Services) : n = round.service
  BY <1>1
<1>3. PICK s \in Service : s = Turn
  BY <1>1, AtTurn
<1>4. /\ Turn = Services[n] /\ s \notin ServicesUpTo(n - 1)
      /\ \A other : other \in ServicesUpTo(n) <=> other \in ServicesUpTo(n - 1) \/ other = s
      /\ Len(table[Handlers(s)]) \in Nat
  BY <1>1, <1>2, <1>3, AtTurn DEF Turn
<1>5. UNCHANGED <<msg, table, svc, meant, due>>
  BY DEF HandleMessage
<1>6. n \in Nat /\ n - 1 \in 0 .. Len(Services)
  BY AllServices
<1>7. CASE Applies(Turn, msg)
  <2>1. round' = [round EXCEPT !.phase = "handler", !.handler = Len(table[Handlers(s)])]
    BY <1>3, <1>7 DEF HandleMessage
  <2>2. /\ round' \in RoundType /\ round'.phase = "handler" /\ round'.at = 1
        /\ round'.service = n /\ round'.handler = Len(table[Handlers(s)])
    BY <1>1, <1>2, <1>4, <2>1 DEF RoundType, Phases
  <2>3. Turn' = s
    BY <1>3, <1>4, <2>2 DEF Turn
  <2>4. Applies(Turn, msg)'
    BY <1>3, <1>5, <1>7, <2>3 DEF Applies, PassesFilters, NameOf
  <2>5. RoundOK'
    BY <1>1, <1>4, <1>5, <1>6, <2>2, <2>3, <2>4 DEF RoundOK, InLoops
  <2>6. ASSUME NEW t \in Tables PROVE Ahead(t)' = Ahead(t)
    <3>1. CASE t[1] = "service"
      <4>1. Ahead(t) = IF t[2] \in ServicesUpTo(n) THEN Len(table[Handlers(t[2])]) ELSE 0
        BY <1>1, <1>2, <3>1 DEF Ahead, ServiceAhead
      <4>2. Ahead(t)' = IF t[2] \in ServicesUpTo(n - 1) THEN Len(table[Handlers(t[2])])
                        ELSE IF t[2] = s THEN Len(table[Handlers(s)]) ELSE 0
        BY <1>5, <2>2, <2>3, <3>1 DEF Ahead, ServiceAhead
      <4> QED
        BY <1>4, <4>1, <4>2
    <3>2. CASE t[1] # "service"
      BY <1>1, <2>2, <3>2, TableKinds DEF Ahead, InLoops
    <3> QED
      BY <3>1, <3>2
  <2> QED
    BY <1>1, <1>5, <2>2, <2>5, <2>6, QuietStep
<1>8. CASE ~Applies(Turn, msg)
  <2>1. round' = [round EXCEPT !.service = n - 1]
    BY <1>2, <1>8 DEF HandleMessage
  <2>2. round' \in RoundType /\ round'.phase = "service" /\ round'.at = 1 /\ round'.service = n - 1
    BY <1>1, <1>6, <2>1 DEF RoundType, Phases
  <2>3. RoundOK'
    BY <1>1, <1>5, <2>2 DEF RoundOK, InLoops
  <2>4. ASSUME NEW t \in Tables, ~(t[1] = "service" /\ t[2] = s) PROVE Ahead(t)' = Ahead(t)
    <3>1. CASE t[1] = "service"
      <4>1. Ahead(t) = IF t[2] \in ServicesUpTo(n) THEN Len(table[Handlers(t[2])]) ELSE 0
        BY <1>1, <1>2, <3>1 DEF Ahead, ServiceAhead
      <4>2. Ahead(t)' = IF t[2] \in ServicesUpTo(n - 1) THEN Len(table[Handlers(t[2])]) ELSE 0
        BY <1>5, <2>2, <3>1 DEF Ahead, ServiceAhead
      <4> QED
        BY <1>4, <2>4, <3>1, <4>1, <4>2
    <3>2. CASE t[1] # "service"
      BY <1>1, <2>2, <3>2, TableKinds DEF Ahead, InLoops
    <3> QED
      BY <3>1, <3>2
  <2>5. ASSUME NEW t \in Tables, t[1] = "service", t[2] = s PROVE \A l : ~Wanted(t, l)
    BY <1>3, <1>8, <2>5 DEF Wanted
  <2> QED
    BY <1>1, <1>5, <2>2, <2>3, <2>4, <2>5, QuietStep
<1> QED
  BY <1>7, <1>8

LEMMA ServicesDoneKeeps ==
  ASSUME NEW exact, ReceiveInv(exact), ServicesDone
  PROVE  ReceiveInv(exact)'
<1>1. /\ round.phase = "service" /\ round \in RoundType /\ round.at = 1 /\ round.service = 0
      /\ Running /\ TablesOK /\ OwnFirst
  BY DEF ServicesDone, ReceiveInv, RoundOK, Life
<1>2. UNCHANGED <<msg, table, svc, meant, due>>
  BY DEF ServicesDone
<1>3. round' = [round EXCEPT !.phase = "message", !.at = 0]
  BY <1>1 DEF ServicesDone, NextIndex
<1>4. round' \in RoundType /\ round'.phase = "message" /\ round'.at = 0
  BY <1>1, <1>3 DEF RoundType, Phases
<1>5. RoundOK'
  BY <1>2, <1>4, <1>1, TableEntries, TablesOfServices DEF RoundOK, InLoops
<1>6. ASSUME NEW t \in Tables, t[1] # "message" PROVE Ahead(t)' = Ahead(t)
  BY <1>1, <1>4, <1>6, AllServices, TableKinds DEF Ahead, ServiceAhead
<1>7. ASSUME NEW t \in Tables, t[1] = "message", NEW i \in DOMAIN table[t], table[t][i] \in Listeners[t]
      PROVE  i <= Ahead(t)' <=> i <= Ahead(t)
  <2>1. i > 1 /\ i \in Nat
    <3>1. /\ i \in 1 .. Len(table[t]) /\ Len(table[t]) \in Nat
          /\ table[t][1] = "services" /\ "services" \notin Listeners[t]
      BY <1>1, <1>7, TableEntries, OwnPlaces, OwnIsNoListener
    <3> QED
      BY <1>7, <3>1
  <2>2. Ahead(t) = 1 /\ Ahead(t)' = 0
    BY <1>1, <1>4, <1>7 DEF Ahead, InLoops
  <2> QED
    BY <2>1, <2>2
<1> QED
  BY <1>1, <1>2, <1>4, <1>5, <1>6, <1>7, QuietStep

LEMMA HandlersDoneKeeps ==
  ASSUME NEW exact, ReceiveInv(exact), HandlersDone
  PROVE  ReceiveInv(exact)'
<1>1. /\ round.phase = "handler" /\ round.handler = 0 /\ round \in RoundType /\ round.at = 1
      /\ round.service \in 1 .. Len(Services) /\ round.at <= Len(table[Messages])
      /\ Turn \notin ServicesUpTo(round.service - 1)
  BY AtTurn DEF HandlersDone, ReceiveInv, RoundOK, InLoops
<1>2. PICK n \in 1 .. Len(Services) : n = round.service
  BY <1>1
<1>3. UNCHANGED <<msg, table, svc, meant, due>>
  BY DEF HandlersDone
<1>4. n \in Nat /\ n - 1 \in 0 .. Len(Services)
  BY AllServices
<1>5. round' = [round EXCEPT !.phase = "service", !.service = n - 1]
  BY <1>2 DEF HandlersDone
<1>6. round' \in RoundType /\ round'.phase = "service" /\ round'.at = 1 /\ round'.service = n - 1
  BY <1>1, <1>4, <1>5 DEF RoundType, Phases
<1>7. RoundOK'
  BY <1>1, <1>3, <1>6 DEF RoundOK, InLoops
<1>8. ASSUME NEW t \in Tables PROVE Ahead(t)' = Ahead(t)
  <2>1. CASE t[1] = "service"
    <3>1. Ahead(t) = IF t[2] \in ServicesUpTo(n - 1) THEN Len(table[Handlers(t[2])]) ELSE 0
      BY <1>1, <1>2, <2>1 DEF Ahead, ServiceAhead
    <3>2. Ahead(t)' = IF t[2] \in ServicesUpTo(n - 1) THEN Len(table[Handlers(t[2])]) ELSE 0
      BY <1>3, <1>6, <2>1 DEF Ahead, ServiceAhead
    <3> QED
      BY <3>1, <3>2
  <2>2. CASE t[1] # "service"
    BY <1>1, <1>6, <2>2, TableKinds DEF Ahead, InLoops
  <2> QED
    BY <2>1, <2>2
<1> QED
  BY <1>1, <1>3, <1>6, <1>7, <1>8, QuietStep

(* configHandler, the last of its table to be called, is done.             *)
LEMMA ConfigHandled ==
  ASSUME NEW exact, ReceiveInv(exact),
         round.phase = "handler" \/ (round.phase = "changed" /\ round.changed = 0),
         round.handler = 1, Turn \in Configurables,
         UNCHANGED <<msg, table, svc, meant, due>>,
         round' \in RoundType, round'.phase = "handler", round'.handler = 0,
         round'.at = round.at, round'.service = round.service
  PROVE  ReceiveInv(exact)'
<1>1. /\ round \in RoundType /\ round.at = 1 /\ round.service \in 1 .. Len(Services)
      /\ round.at <= Len(table[Messages]) /\ Running /\ TablesOK /\ OwnFirst
  BY AtTurn DEF ReceiveInv, RoundOK, InLoops
<1>2. PICK n \in 1 .. Len(Services) : n = round.service
  BY <1>1
<1>3. PICK s \in Service : s = Turn
  BY AtTurn
<1>4. /\ round' \in RoundType /\ round'.phase = "handler" /\ round'.at = 1
      /\ round'.service = n /\ round'.handler = 0
  BY <1>1, <1>2
<1>5. Turn' = s /\ Turn = s
  BY <1>2, <1>3, <1>4 DEF Turn
<1>6. s \notin ServicesUpTo(n - 1) /\ Len(table[Handlers(s)]) \in Nat
  BY <1>2, <1>3, AtTurn
<1>7. RoundOK'
  BY <1>1, <1>4, <1>5, <1>6 DEF RoundOK, InLoops
<1>8. ASSUME NEW t \in Tables, ~(t[1] = "service" /\ t[2] = s) PROVE Ahead(t)' = Ahead(t)
  <2>1. CASE t[1] = "service"
    <3>1. Ahead(t) = IF t[2] \in ServicesUpTo(n - 1) THEN Len(table[Handlers(t[2])]) ELSE 0
      BY <1>2, <1>5, <1>8, <2>1 DEF Ahead, ServiceAhead
    <3>2. Ahead(t)' = IF t[2] \in ServicesUpTo(n - 1) THEN Len(table[Handlers(t[2])]) ELSE 0
      BY <1>4, <1>5, <1>8, <2>1 DEF Ahead, ServiceAhead
    <3> QED
      BY <3>1, <3>2
  <2>2. CASE t[1] # "service"
    BY <1>1, <1>4, <2>2, TableKinds DEF Ahead, InLoops
  <2> QED
    BY <2>1, <2>2
<1>9. ASSUME NEW t \in Tables, t[1] = "service", t[2] = s,
             NEW i \in DOMAIN table[t], table[t][i] \in Listeners[t]
      PROVE  i <= Ahead(t)' <=> i <= Ahead(t)
  <2>1. i > 1 /\ i \in Nat
    <3>1. /\ i \in 1 .. Len(table[t]) /\ Len(table[t]) \in Nat
          /\ table[t][1] = "config" /\ "config" \notin Listeners[t]
      BY <1>1, <1>5, <1>9, TableEntries, OwnPlaces, OwnIsNoListener
    <3> QED
      BY <1>9, <3>1
  <2>2. Ahead(t) = 1
    BY <1>2, <1>5, <1>6, <1>9 DEF Ahead, ServiceAhead
  <2>3. Ahead(t)' = 0
    BY <1>4, <1>5, <1>6, <1>9 DEF Ahead, ServiceAhead
  <2> QED
    BY <2>1, <2>2, <2>3
<1>10. round.phase # "idle" /\ round'.phase # "idle"
  BY <1>4
<1> QED
  BY <1>7, <1>8, <1>9, <1>10, QuietStep

LEMMA RepliesKeep ==
  ASSUME NEW exact, ReceiveInv(exact),
         SendServiceConfigList \/ SendServiceCurrentConfig \/ IgnoreConfig
  PROVE  ReceiveInv(exact)'
<1>1. AtConfigHandler
  BY DEF SendServiceConfigList, SendServiceCurrentConfig, IgnoreConfig
<1>2. round.handler = 1 /\ Turn \in Configurables /\ round.phase = "handler" /\ round \in RoundType
  BY <1>1, AtConfig DEF AtConfigHandler, ReceiveInv, RoundOK
<1>3. /\ round' = [round EXCEPT !.handler = @ - 1]
      /\ UNCHANGED <<msg, table, svc, meant, due>>
  BY DEF SendServiceConfigList, SendServiceCurrentConfig, IgnoreConfig, SendReply, NextIndex
<1>4. /\ round' \in RoundType /\ round'.phase = "handler" /\ round'.handler = 0
      /\ round'.at = round.at /\ round'.service = round.service
  BY <1>2, <1>3 DEF RoundType
<1> QED
  BY <1>2, <1>3, <1>4, ConfigHandled

LEMMA ChangedDoneKeeps ==
  ASSUME NEW exact, ReceiveInv(exact), ChangedDone
  PROVE  ReceiveInv(exact)'
<1>1. /\ round.phase = "changed" /\ round.changed = 0 /\ round.handler = 1 /\ Turn \in Configurables
      /\ round \in RoundType
  BY DEF ChangedDone, ReceiveInv, RoundOK
<1>2. /\ round' \in RoundType /\ round'.phase = "handler" /\ round'.handler = 0
      /\ round'.at = round.at /\ round'.service = round.service
  <2>1. round' = [round EXCEPT !.phase = "handler", !.handler = 0]
    BY <1>1 DEF ChangedDone, NextIndex
  <2> QED
    BY <1>1, <2>1 DEF RoundType, Phases
<1>3. UNCHANGED <<msg, table, svc, meant, due>>
  BY DEF ChangedDone
<1> QED
  BY <1>1, <1>2, <1>3, ConfigHandled

LEMMA ReleaseMessageKeeps ==
  ASSUME NEW exact, ReceiveInv(exact), ReleaseMessage
  PROVE  ReceiveInv(exact)'
<1>1. Running /\ ServicesOK /\ TablesOK /\ OwnFirst
  BY DEF ReceiveInv, Life, ReleaseMessage
<1>2. ServicesOK' /\ Running' /\ TablesOK' /\ OwnFirst'
  BY <1>1, SameServices, SameTables DEF ReleaseMessage
<1>3. round' \in RoundType /\ round'.phase = "idle" /\ DOMAIN due' = {}
  BY AllServices, NothingDue DEF ReleaseMessage, EndOfRound, Idle, RoundType, Phases
<1>4. RoundOK' /\ MailOK' /\ (exact => SlotsOK')
  BY <1>3, NoSlots DEF RoundOK, InLoops, MailOK
<1> QED
  BY <1>2, <1>4 DEF ReceiveInv, Life

-----------------------------------------------------------------------------
(* Steps of the loops that call a listener of the program.                 *)
LEMMA CallBackKeeps ==
  ASSUME NEW exact, ReceiveInv(exact), round.phase # "idle", UNCHANGED <<msg, svc, meant>>,
         NEW t \in Tables, NEW i \in DOMAIN table[t], table[t][i] \in Listeners[t],
         CallBack(t, table[t][i]), Wanted(t, table[t][i]),
         Ahead(t) = i, Ahead(t)' = i - 1,
         \A u \in Tables \ {t} : Ahead(u)' = Ahead(u), RoundOK', round'.phase # "idle"
  PROVE  ReceiveInv(exact)'
<1>1. Running /\ ServicesOK /\ TablesOK /\ OwnFirst /\ (exact => SlotsOK) /\ MailOK
  BY DEF ReceiveInv, Life
<1>2. /\ TablesOK' /\ OwnFirst'
      /\ \A u \in Tables \ {t} : table'[u] = table[u]
  BY <1>1, CallBackTable
<1>3. exact => SlotsOK'
  BY <1>1, <1>2, CallBackDue
<1>4. ServicesOK' /\ Running' /\ MailOK'
  BY <1>1, SameServices DEF MailOK
<1> QED
  BY <1>2, <1>3, <1>4 DEF ReceiveInv, Life

LEMMA DispatchMessageKeeps ==
  ASSUME NEW exact, ReceiveInv(exact), DispatchMessage
  PROVE  ReceiveInv(exact)'
<1>1. /\ round \in RoundType /\ round.phase = "message" /\ round.at > 0
      /\ round.at <= Len(table[Messages]) /\ Running /\ TablesOK /\ OwnFirst /\ ServicesOK
  BY DEF ReceiveInv, Life, RoundOK, InLoops, DispatchMessage
<1>2. /\ Len(table[Messages]) \in Nat /\ DOMAIN table[Messages] = 1 .. Len(table[Messages])
      /\ table[Messages][1] = "services" /\ 1 \in DOMAIN table[Messages]
      /\ \A k, j \in DOMAIN table[Messages] : table[Messages][k] = table[Messages][j] => k = j
  BY <1>1, TableEntries, OwnPlaces, TablesOfServices
<1>3. PICK i \in DOMAIN table[Messages] : i = round.at
  BY <1>1, <1>2 DEF RoundType
<1>4. UNCHANGED <<msg, svc, meant>>
  BY DEF DispatchMessage
<1>5. CASE table[Messages][i] = "services"
  <2>1. i = 1
    BY <1>2, <1>5
  <2>2. /\ round' = [round EXCEPT !.phase = "service", !.service = Len(Services)]
        /\ UNCHANGED <<table, due>>
    BY <1>3, <1>5 DEF DispatchMessage
  <2>3. /\ round' \in RoundType /\ round'.phase = "service" /\ round'.at = 1
        /\ round'.service = Len(Services)
    <3>1. Len(Services) \in 0 .. Len(Services)
      BY AllServices
    <3> QED
      BY <1>1, <1>3, <2>1, <2>2, <3>1 DEF RoundType, Phases
  <2>4. RoundOK'
    BY <1>1, <1>2, <2>2, <2>3 DEF RoundOK, InLoops
  <2>5. ASSUME NEW t \in Tables PROVE Ahead(t)' = Ahead(t)
    <3>1. CASE t[1] = "service"
      <4>1. t[2] \in ServicesUpTo(Len(Services))
        BY <3>1, TableKinds, AllServices
      <4>2. Ahead(t) = Len(table[Handlers(t[2])])
        BY <1>1, <3>1 DEF Ahead, ServiceAhead
      <4>3. Ahead(t)' = Len(table[Handlers(t[2])])
        BY <2>2, <2>3, <3>1, <4>1 DEF Ahead, ServiceAhead
      <4> QED
        BY <4>2, <4>3
    <3>2. CASE t[1] # "service"
      BY <1>1, <1>3, <2>1, <2>3, <3>2, TableKinds DEF Ahead, InLoops
    <3> QED
      BY <3>1, <3>2
  <2>6. round.phase # "idle" /\ round'.phase # "idle"
    BY <1>1, <2>3
  <2> QED
    BY <1>4, <2>2, <2>4, <2>5, <2>6, QuietStep
<1>6. CASE table[Messages][i] # "services"
  <2>1. /\ CallBack(Messages, table[Messages][i])
        /\ round' = [round EXCEPT !.at = i - 1]
    BY <1>3, <1>6 DEF DispatchMessage, NextIndex
  <2>2. table[Messages][i] \in Listeners[Messages] /\ i > 1 /\ i - 1 \in Nat /\ i - 1 > 0
    <3>1. i # 1
      BY <1>2, <1>6
    <3>2. table[Messages][i] \in Listeners[Messages]
      BY <1>1, <3>1, OwnPlaces, TablesOfServices
    <3> QED
      BY <1>2, <3>1, <3>2
  <2>3. round' \in RoundType /\ round'.phase = "message" /\ round'.at = i - 1
    BY <1>1, <2>1, <2>2 DEF RoundType
  <2>4. /\ \A u \in Tables \ {Messages} : table'[u] = table[u]
        /\ i - 1 <= Len(table'[Messages])
    BY <1>1, <1>4, <2>1, <2>2, CallBackTable, TablesOfServices
  <2>5. RoundOK'
    BY <2>3, <2>4 DEF RoundOK, InLoops
  <2>6. Ahead(Messages) = i /\ Ahead(Messages)' = i - 1 /\ Wanted(Messages, table[Messages][i])
    BY <1>1, <1>3, <2>3, TablesOfServices DEF Ahead, InLoops, Wanted
  <2>7. ASSUME NEW u \in Tables \ {Messages} PROVE Ahead(u)' = Ahead(u)
    <3>1. CASE u[1] = "service"
      <4>1. Handlers(u[2]) \in Tables \ {Messages}
        BY <3>1, TableKinds, TablesOfServices
      <4> QED
        BY <1>1, <2>2, <2>3, <2>4, <3>1, <4>1 DEF Ahead, ServiceAhead
    <3>2. CASE u[1] \in {"raw", "changed"}
      BY <1>1, <2>3, <3>2 DEF Ahead
    <3> QED
      BY <3>1, <3>2, TableKinds
  <2>8. round.phase # "idle" /\ round'.phase # "idle"
    BY <1>1, <2>3
  <2> QED
    BY <1>4, <2>1, <2>2, <2>5, <2>6, <2>7, <2>8, CallBackKeeps, TablesOfServices
<1> QED
  BY <1>5, <1>6

LEMMA DispatchServiceKeeps ==
  ASSUME NEW exact, ReceiveInv(exact), DispatchService
  PROVE  ReceiveInv(exact)'
<1>1. /\ round \in RoundType /\ round.phase = "handler" /\ round.at = 1
      /\ round.handler > 0 /\ round.handler <= Len(table[Handlers(Turn)])
      /\ round.at <= Len(table[Messages]) /\ Applies(Turn, msg)
      /\ Running /\ TablesOK /\ OwnFirst /\ ServicesOK
  BY DEF ReceiveInv, Life, RoundOK, InLoops, DispatchService
<1>2. /\ round.service \in 1 .. Len(Services) /\ Turn \in Service
      /\ Turn \notin ServicesUpTo(round.service - 1)
      /\ Len(table[Handlers(Turn)]) \in Nat
      /\ DOMAIN table[Handlers(Turn)] = 1 .. Len(table[Handlers(Turn)])
  BY <1>1, AtTurn
<1>3. PICK s \in Service : s = Turn
  BY <1>2
<1>4. PICK n \in 1 .. Len(Services) : n = round.service
  BY <1>2
<1>5. PICK t \in Tables : t = Handlers(s) /\ t[1] = "service" /\ t[2] = s
  BY TablesOfServices
<1>6. PICK i \in DOMAIN table[t] : i = round.handler
  BY <1>1, <1>2, <1>3, <1>5 DEF RoundType
<1>7. UNCHANGED <<msg, svc, meant>>
  BY DEF DispatchService
<1>8. /\ table[t][i] # "config"
      /\ IF Asks(Selects[table[t][i]], msg.type, msg.class, msg.schema)
           THEN CallBack(t, table[t][i])
           ELSE UNCHANGED <<table, due>>
      /\ round' = [round EXCEPT !.handler = i - 1]
  BY <1>3, <1>5, <1>6 DEF DispatchService, NextIndex
<1>9. table[t][i] \in Listeners[t] /\ i \in Nat /\ i > 0 /\ i - 1 \in Nat
  <2>1. table[t][i] \in Listeners[t]
    BY <1>1, <1>5, <1>8, OwnPlaces
  <2>2. i \in 1 .. Len(table[t]) /\ Len(table[t]) \in Nat
    BY <1>2, <1>3, <1>5
  <2> QED
    BY <2>1, <2>2
<1>10. /\ round' \in RoundType /\ round'.phase = "handler" /\ round'.at = 1
       /\ round'.service = n /\ round'.handler = i - 1
  BY <1>1, <1>4, <1>8, <1>9 DEF RoundType
<1>11. Turn' = s /\ Turn = s
  BY <1>3, <1>4, <1>10 DEF Turn
<1>12. /\ \A u \in Tables \ {t} : table'[u] = table[u]
       /\ i - 1 <= Len(table'[t])
  <2>1. CASE Asks(Selects[table[t][i]], msg.type, msg.class, msg.schema)
    <3>1. CallBack(t, table[t][i])
      BY <1>8, <2>1
    <3> QED
      BY <1>1, <1>7, <1>9, <3>1, CallBackTable
  <2>2. CASE ~Asks(Selects[table[t][i]], msg.type, msg.class, msg.schema)
    <3>1. UNCHANGED <<table, due>>
      BY <1>8, <2>2
    <3>2. i \in 1 .. Len(table[t]) /\ Len(table[t]) \in Nat
      BY <1>2, <1>3, <1>5
    <3> QED
      BY <3>1, <3>2
  <2> QED
    BY <2>1, <2>2
<1>13. Applies(Turn, msg)'
  BY <1>1, <1>7, <1>11 DEF Applies, PassesFilters, NameOf
<1>14. RoundOK'
  <2>1. Messages \in Tables \ {t}
    BY <1>5, TablesOfServices
  <2>2. round'.at <= Len(table'[Messages])
    BY <1>1, <1>10, <1>12, <2>1
  <2>3. round'.service > 0 /\ round'.handler <= Len(table'[Handlers(s)])
    BY <1>5, <1>10, <1>12
  <2> QED
    BY <1>10, <1>11, <1>13, <2>2, <2>3 DEF RoundOK, InLoops
<1>15. Ahead(t) = i
  BY <1>1, <1>2, <1>3, <1>5, <1>6 DEF Ahead, ServiceAhead
<1>16. Ahead(t)' = i - 1
  BY <1>2, <1>3, <1>4, <1>5, <1>10, <1>11 DEF Ahead, ServiceAhead
<1>17. ASSUME NEW u \in Tables \ {t} PROVE Ahead(u)' = Ahead(u)
  <2>1. CASE u[1] = "service"
    <3>1. u = Handlers(u[2]) /\ u[2] # s
      BY <1>5, <2>1, TableKinds
    <3>2. table'[Handlers(u[2])] = table[Handlers(u[2])]
      BY <1>12, <3>1
    <3>3. Ahead(u) = IF u[2] \in ServicesUpTo(n - 1) THEN Len(table[Handlers(u[2])]) ELSE 0
      BY <1>1, <1>4, <1>11, <2>1, <3>1 DEF Ahead, ServiceAhead
    <3>4. Ahead(u)' = IF u[2] \in ServicesUpTo(n - 1) THEN Len(table[Handlers(u[2])]) ELSE 0
      BY <1>10, <1>11, <2>1, <3>1, <3>2 DEF Ahead, ServiceAhead
    <3> QED
      BY <3>3, <3>4
  <2>2. CASE u[1] # "service"
    BY <1>1, <1>10, <2>2, TableKinds DEF Ahead, InLoops
  <2> QED
    BY <2>1, <2>2
<1>18. round.phase # "idle" /\ round'.phase # "idle"
  BY <1>1, <1>10
<1>19. CASE Asks(Selects[table[t][i]], msg.type, msg.class, msg.schema)
  <2>1. CallBack(t, table[t][i]) /\ Wanted(t, table[t][i])
    BY <1>1, <1>5, <1>8, <1>11, <1>19 DEF Wanted
  <2> QED
    BY <1>7, <1>9, <1>14, <1>15, <1>16, <1>17, <1>18, <2>1, CallBackKeeps
<1>20. CASE ~Asks(Selects[table[t][i]], msg.type, msg.class, msg.schema)
  <2>1. UNCHANGED <<table, due>>
    BY <1>8, <1>20
  <2>2. ASSUME NEW j \in DOMAIN table[t], Wanted(t, table[t][j]) PROVE j <= Ahead(t)' <=> j <= Ahead(t)
    <3>1. j # i
      BY <1>5, <1>20, <2>2 DEF Wanted
    <3>2. j \in Nat /\ i \in Nat
      BY <1>2, <1>3, <1>5
    <3> QED
      BY <1>15, <1>16, <3>1, <3>2
  <2> QED
    BY <1>7, <1>14, <1>17, <1>18, <2>1, <2>2, QuietStep
<1> QED
  BY <1>19, <1>20

LEMMA DispatchServiceConfigChangedKeeps ==
  ASSUME NEW exact, ReceiveInv(exact), DispatchServiceConfigChanged
  PROVE  ReceiveInv(exact)'
<1>1. /\ round \in RoundType /\ round.phase = "changed" /\ round.at = 1
      /\ round.changed > 0 /\ round.changed <= Len(table[Changed(Turn)])
      /\ round.handler = 1 /\ round.handler <= Len(table[Handlers(Turn)])
      /\ round.at <= Len(table[Messages]) /\ Turn \in Configurables
      /\ Running /\ TablesOK /\ OwnFirst /\ ServicesOK
  BY DEF ReceiveInv, Life, RoundOK, InLoops, DispatchServiceConfigChanged
<1>2. round.service \in 1 .. Len(Services) /\ Turn \notin ServicesUpTo(round.service - 1)
  BY <1>1, AtTurn
<1>3. PICK s \in Configurables : s = Turn /\ s \in Service
  BY <1>1, AtTurn
<1>4. PICK n \in 1 .. Len(Services) : n = round.service
  BY <1>2
<1>5. PICK t \in Tables : t = Changed(s) /\ t[1] = "changed" /\ t[2] = s
  BY TablesOfServices
<1>6. Len(table[t]) \in Nat /\ DOMAIN table[t] = 1 .. Len(table[t])
  BY <1>1, TableEntries
<1>7. PICK i \in DOMAIN table[t] : i = round.changed
  BY <1>1, <1>3, <1>5, <1>6 DEF RoundType
<1>8. UNCHANGED <<msg, svc, meant>>
  BY DEF DispatchServiceConfigChanged
<1>9. /\ CallBack(t, table[t][i])
      /\ round' = [round EXCEPT !.changed = i - 1]
  BY <1>3, <1>5, <1>7 DEF DispatchServiceConfigChanged, NextIndex
<1>10. table[t][i] \in Listeners[t] /\ i - 1 \in Nat
  BY <1>1, <1>5, <1>6, OwnPlaces
<1>11. /\ round' \in RoundType /\ round'.phase = "changed" /\ round'.at = 1
       /\ round'.service = n /\ round'.handler = 1 /\ round'.changed = i - 1
  BY <1>1, <1>4, <1>9, <1>10 DEF RoundType
<1>12. Turn' = s /\ Turn = s
  BY <1>3, <1>4, <1>11 DEF Turn
<1>13. /\ \A u \in Tables \ {t} : table'[u] = table[u]
       /\ i - 1 <= Len(table'[t])
  BY <1>1, <1>8, <1>9, <1>10, CallBackTable
<1>14. RoundOK'
  <2>1. Messages \in Tables \ {t} /\ Handlers(s) \in Tables \ {t}
    BY <1>3, <1>5, TablesOfServices
  <2>2. round'.at <= Len(table'[Messages]) /\ round'.handler <= Len(table'[Handlers(s)])
    BY <1>1, <1>11, <1>12, <1>13, <2>1
  <2>3. round'.service > 0 /\ round'.changed <= Len(table'[Changed(s)])
    BY <1>5, <1>11, <1>13
  <2> QED
    BY <1>11, <1>12, <2>2, <2>3 DEF RoundOK, InLoops
<1>15. Ahead(t) = i /\ Ahead(t)' = i - 1 /\ Wanted(t, table[t][i])
  BY <1>1, <1>5, <1>7, <1>11, <1>12 DEF Ahead, Wanted
<1>16. ASSUME NEW u \in Tables \ {t} PROVE Ahead(u)' = Ahead(u)
  <2>1. CASE u[1] = "service"
    <3>1. Handlers(u[2]) = u
      BY <2>1, TableKinds
    <3>2. table'[Handlers(u[2])] = table[Handlers(u[2])]
      BY <1>13, <3>1
    <3>3. s \notin ServicesUpTo(n - 1)
      BY <1>2, <1>4, <1>12
    <3>4. Ahead(u) = IF u[2] \in ServicesUpTo(n - 1) THEN Len(table[Handlers(u[2])])
                     ELSE IF u[2] = s THEN 1 ELSE 0
      BY <1>1, <1>4, <1>12, <2>1, <3>3 DEF Ahead, ServiceAhead
    <3>5. Ahead(u)' = IF u[2] \in ServicesUpTo(n - 1) THEN Len(table[Handlers(u[2])])
                      ELSE IF u[2] = s THEN 1 ELSE 0
      BY <1>11, <1>12, <2>1, <3>2, <3>3 DEF Ahead, ServiceAhead
    <3> QED
      BY <3>4, <3>5
  <2>2. CASE u[1] = "changed"
    <3>1. u[2] # s
      BY <1>5, <2>2, TableKinds
    <3> QED
      BY <1>11, <1>12, <2>2, <3>1 DEF Ahead
  <2>3. CASE u[1] \in {"raw", "message"}
    BY <1>1, <1>11, <2>3 DEF Ahead, InLoops
  <2> QED
    BY <2>1, <2>2, <2>3, TableKinds
<1>17. round.phase # "idle" /\ round'.phase # "idle"
  BY <1>1, <1>11
<1> QED
  BY <1>8, <1>9, <1>10, <1>14, <1>15, <1>16, <1>17, CallBackKeeps

(* New settings for the service whose turn it is: they may change whom the *)
(* message would be for, but all its listeners have heard it by then.      *)
LEMMA InstallNewConfigKeeps ==
  ASSUME NEW exact, ReceiveInv(exact), InstallNewConfig
  PROVE  ReceiveInv(exact)'
<1>1. /\ round.handler = 1 /\ Turn \in Configurables /\ round.phase = "handler"
      /\ round \in RoundType /\ round.at = 1 /\ round.at <= Len(table[Messages])
      /\ round.handler <= Len(table[Handlers(Turn)])
      /\ Running /\ TablesOK /\ OwnFirst /\ ServicesOK /\ (exact => SlotsOK) /\ MailOK
  BY AtConfig DEF InstallNewConfig, AtConfigHandler, ReceiveInv, RoundOK, InLoops, Life
<1>2. round.service \in 1 .. Len(Services) /\ Turn \notin ServicesUpTo(round.service - 1)
  BY <1>1, AtTurn
<1>3. PICK s \in Configurables : s = Turn /\ s \in Service
  BY <1>1, AtTurn
<1>4. PICK n \in 1 .. Len(Services) : n = round.service
  BY <1>2
<1>5. s \notin ServicesUpTo(n - 1)
  BY <1>2, <1>3, <1>4
<1>6. PICK t \in Tables : t = Changed(s) /\ t[1] = "changed" /\ t[2] = s
  BY TablesOfServices
<1>7. Len(table[t]) \in Nat /\ DOMAIN table[t] = 1 .. Len(table[t])
  BY <1>1, TableEntries
<1>8. UNCHANGED <<msg, table, meant>>
  BY DEF InstallNewConfig
<1>9. PICK settings : svc' = [svc EXCEPT ![s].settings = settings]
  BY <1>3 DEF InstallNewConfig
<1>10. /\ ServicesOK' /\ \A other \in Service : svc'[other].up = svc[other].up
       /\ \A other \in Service \ {s} : svc'[other] = svc[other]
  BY <1>1, <1>3, <1>9, OtherSettings
<1>11. Running'
  BY <1>1, <1>10 DEF Running
<1>12. TablesOK' /\ OwnFirst'
  BY <1>1, <1>8, SameTables
<1>13. \/ /\ round' = [round EXCEPT !.phase = "changed", !.changed = Len(table[t])]
          /\ due' = WithDue(due, {<<t, l>> : l \in Range(table[t])}, 1)
       \/ /\ round' = [round EXCEPT !.handler = @ - 1]
          /\ UNCHANGED due
  BY <1>3, <1>6 DEF InstallNewConfig, NextIndex
<1>14. /\ round' \in RoundType /\ round'.at = 1 /\ round'.service = n
       /\ \/ round'.phase = "changed" /\ round'.handler = 1 /\ round'.changed = Len(table[t])
          \/ round'.phase = "handler" /\ round'.handler = 0
  <2>1. CASE round' = [round EXCEPT !.phase = "changed", !.changed = Len(table[t])]
    BY <1>1, <1>4, <1>7, <2>1 DEF RoundType, Phases
  <2>2. CASE round' = [round EXCEPT !.handler = @ - 1]
    BY <1>1, <1>4, <2>2 DEF RoundType, Phases
  <2> QED
    BY <1>13, <2>1, <2>2
<1>15. Turn' = s /\ Turn = s
  BY <1>3, <1>4, <1>14 DEF Turn
<1>16. RoundOK'
  <2>1. Len(table[Handlers(s)]) \in Nat
    BY <1>1, <1>3, TableEntries, TablesOfServices
  <2>2. round'.at <= Len(table'[Messages]) /\ round'.handler <= Len(table'[Handlers(s)])
    BY <1>1, <1>8, <1>14, <1>15, <2>1
  <2>3. round'.phase = "changed" => round'.changed <= Len(table'[Changed(s)])
    BY <1>6, <1>7, <1>8, <1>14
  <2>4. round'.service > 0
    BY <1>14
  <2> QED
    BY <1>14, <1>15, <2>2, <2>3, <2>4 DEF RoundOK, InLoops
<1>17. ASSUME NEW u \in Tables \ {t}, NEW i \in DOMAIN table[u], table[u][i] \in Listeners[u]
       PROVE  Owed(u, i)' <=> Owed(u, i)
  <2>1. CASE u[1] = "service" /\ u[2] = s
    <3>1. i > 1 /\ i \in Nat
      <4>1. /\ i \in 1 .. Len(table[u]) /\ Len(table[u]) \in Nat
            /\ table[u][1] = "config" /\ "config" \notin Listeners[u]
        BY <1>1, <2>1, TableEntries, OwnPlaces, OwnIsNoListener
      <4> QED
        BY <1>17, <4>1
    <3>2. Ahead(u) = 1
      BY <1>1, <1>4, <1>5, <1>15, <2>1 DEF Ahead, ServiceAhead
    <3>3. Ahead(u)' \in {0, 1}
      BY <1>5, <1>14, <1>15, <2>1 DEF Ahead, ServiceAhead
    <3> QED
      BY <3>1, <3>2, <3>3 DEF Owed
  <2>2. CASE u[1] = "service" /\ u[2] # s
    <3>1. Ahead(u)' = Ahead(u)
      <4>1. Ahead(u) = IF u[2] \in ServicesUpTo(n - 1) THEN Len(table[Handlers(u[2])]) ELSE 0
        BY <1>1, <1>4, <1>15, <2>2 DEF Ahead, ServiceAhead
      <4>2. Ahead(u)' = IF u[2] \in ServicesUpTo(n - 1) THEN Len(table[Handlers(u[2])]) ELSE 0
        BY <1>8, <1>14, <1>15, <2>2 DEF Ahead, ServiceAhead
      <4> QED
        BY <4>1, <4>2
    <3>2. svc'[u[2]] = svc[u[2]]
      BY <1>10, <2>2, TableKinds
    <3>3. Wanted(u, table[u][i])' <=> Wanted(u, table[u][i])
      BY <1>8, <3>2, WantedStays
    <3> QED
      BY <1>8, <3>1, <3>3 DEF Owed
  <2>3. CASE u[1] # "service"
    <3>1. Ahead(u)' = Ahead(u)
      <4>1. CASE u[1] = "changed"
        <5>1. u[2] # s
          BY <1>6, <4>1, TableKinds
        <5> QED
          BY <1>1, <1>14, <1>15, <4>1, <5>1 DEF Ahead
      <4>2. CASE u[1] \in {"raw", "message"}
        BY <1>1, <1>14, <4>2 DEF Ahead, InLoops
      <4> QED
        BY <2>3, <4>1, <4>2, TableKinds
    <3> QED
      BY <1>8, <2>3, <3>1 DEF Owed, Wanted
  <2> QED
    BY <2>1, <2>2, <2>3
<1>18. exact => SlotsOK'
  <2> SUFFICES ASSUME exact PROVE SlotsOK'
    OBVIOUS
  <2>1. CASE UNCHANGED due /\ round'.phase = "handler"
    <3>1. ASSUME NEW i \in DOMAIN table[t] PROVE Owed(t, i)' <=> Owed(t, i)
      <4>1. Ahead(t) = 0 /\ Ahead(t)' = 0
        BY <1>1, <1>6, <2>1 DEF Ahead
      <4> QED
        BY <1>6, <1>8, <4>1 DEF Owed, Wanted
    <3> QED
      BY <1>1, <1>8, <1>17, <2>1, <3>1, SameSlots
  <2>2. CASE /\ due' = WithDue(due, {<<t, l>> : l \in Range(table[t])}, 1)
             /\ round'.phase = "changed"
    <3> DEFINE fresh == {<<t, l>> : l \in Range(table[t])}
    <3>1. DOMAIN due' = DOMAIN due \cup fresh
          /\ \A slot \in DOMAIN due' : due'[slot] = IF slot \in fresh THEN 1 ELSE due[slot]
      BY <2>2 DEF WithDue, WithSlots
    <3>2. ASSUME NEW slot \in fresh PROVE SlotOK(slot)'
      <4>1. PICK i \in DOMAIN table[t] : slot = <<t, table[t][i]>>
        BY DEF Range
      <4>2. table[t][i] \in Listeners[t]
        BY <1>1, <1>6, OwnPlaces
      <4>3. Owed(t, i)'
        <5>1. Ahead(t)' = Len(table[t])
          BY <1>6, <1>14, <1>15, <2>2 DEF Ahead
        <5> QED
          BY <1>6, <1>7, <5>1 DEF Owed, Wanted
      <4>4. due'[slot] = IF Owed(t, i)' THEN 1 ELSE 0
        BY <3>1, <4>3
      <4>5. i \in DOMAIN table'[t] /\ slot = <<t, table'[t][i]>> /\ table'[t][i] \in Listeners[t]
        BY <1>8, <4>1, <4>2
      <4> QED
        BY <4>4, <4>5, NextSlot
    <3>3. ASSUME NEW slot \in DOMAIN due \ fresh PROVE SlotOK(slot)'
      <4>1. PICK u \in Tables : \E i \in DOMAIN table[u] :
              /\ slot = <<u, table[u][i]>> /\ table[u][i] \in Listeners[u]
              /\ due[slot] = IF Owed(u, i) THEN 1 ELSE 0
        BY <1>1 DEF SlotsOK, SlotOK
      <4>2. PICK i \in DOMAIN table[u] :
              /\ slot = <<u, table[u][i]>> /\ table[u][i] \in Listeners[u]
              /\ due[slot] = IF Owed(u, i) THEN 1 ELSE 0
        BY <4>1
      <4>3. u # t
        BY <3>3, <4>2 DEF Range
      <4>4. Owed(u, i)' <=> Owed(u, i)
        BY <1>17, <4>2, <4>3
      <4>5. due'[slot] = IF Owed(u, i)' THEN 1 ELSE 0
        BY <3>1, <3>3, <4>2, <4>4
      <4>6. i \in DOMAIN table'[u] /\ slot = <<u, table'[u][i]>> /\ table'[u][i] \in Listeners[u]
        BY <1>8, <4>2
      <4> QED
        BY <4>5, <4>6, NextSlot
    <3> QED
      BY <3>1, <3>2, <3>3 DEF SlotsOK
  <2>3. \/ UNCHANGED due /\ round'.phase = "handler"
        \/ /\ due' = WithDue(due, {<<t, l>> : l \in Range(table[t])}, 1)
           /\ round'.phase = "changed"
    BY <1>1, <1>13 DEF RoundType
  <2> QED
    BY <2>1, <2>2, <2>3
<1>19. MailOK'
  BY <1>1, <1>8 DEF MailOK
<1> QED
  BY <1>10, <1>11, <1>12, <1>16, <1>18, <1>19 DEF ReceiveInv, Life

-----------------------------------------------------------------------------
(* Every step keeps the invariant, if the message parsed in it, when there *)
(* is one, is as it was sent.                                              *)
LEMMA NextKeeps ==
  ASSUME NEW exact, ReceiveInv(exact), exact => WhatIsHeardIsWhatWasSent', [Next]_vars
  PROVE  ReceiveInv(exact)'
<1>1. CASE UNCHANGED vars
  <2>1. UNCHANGED <<msg, table, svc, round, meant, due>>
    BY <1>1 DEF vars
  <2>2. CASE Running
    <3>1. ServicesOK' /\ TablesOK' /\ OwnFirst' /\ Running'
      BY <2>1, <2>2, SameServices, SameTables DEF ReceiveInv
    <3>2. ASSUME NEW t \in Tables, NEW i \in DOMAIN table[t] PROVE Owed(t, i)' <=> Owed(t, i)
      <4>1. Wanted(t, table[t][i])' <=> Wanted(t, table[t][i])
        BY <2>1, WantedStays
      <4>2. Ahead(t)' = Ahead(t)
        BY <2>1 DEF Ahead, ServiceAhead, InLoops, Turn
      <4> QED
        BY <2>1, <4>1, <4>2 DEF Owed
    <3>3. exact => SlotsOK'
      BY <2>1, <3>2, SameSlots DEF ReceiveInv
    <3>4. Applies(Turn, msg)' <=> Applies(Turn, msg)
      BY <2>1 DEF Applies, PassesFilters, NameOf, Turn
    <3>5. RoundOK' /\ MailOK'
      BY <2>1, <3>4 DEF ReceiveInv, RoundOK, MailOK, InLoops, Turn
    <3> QED
      BY <3>1, <3>3, <3>5 DEF ReceiveInv, Life
  <2>3. CASE ~Running
    <3>1. round.phase = "idle" /\ ServicesOK' /\ \A s \in Service : svc'[s].up = svc[s].up
      BY <2>1, <2>3, SameServices DEF ReceiveInv, Life
    <3> QED
      BY <2>1, <3>1, BetweenMessages
  <2> QED
    BY <2>2, <2>3
<1>2. CASE Program
  <2>1. ASSUME NEW s \in Configurables, NEW name \in Touched,
               \/ ChangeItem(s, SetServiceConfigValueAt(svc[s].settings, name, 1, <<"default">>))
               \/ ChangeItem(s, RemoveServiceConfigurable(svc[s].settings, name))
        PROVE  ReceiveInv(exact)'
    <3>1. s \in Service
      BY ServiceConstants
    <3>2. PICK settings : ChangeItem(s, settings)
      BY <2>1
    <3> QED
      BY <3>1, <3>2, ChangeItemKeeps
  <2> QED
    BY <1>2, <2>1, StartKeeps, EnableKeeps DEF Program
<1>3. CASE Dispatch
  BY <1>3, ReceiveMessageKeeps, DispatchRawKeeps, ParseMessageKeeps, DispatchMessageKeeps,
     HandleMessageKeeps, ServicesDoneKeeps, DispatchServiceKeeps, HandlersDoneKeeps,
     DispatchServiceConfigChangedKeeps, ChangedDoneKeeps, ReleaseMessageKeeps DEF Dispatch
<1>4. CASE ConfigHandler
  BY <1>4, RepliesKeep, InstallNewConfigKeeps DEF ConfigHandler
<1>5. CASE Crash \/ CrashWhileSaving \/ CompareNoSchema
  BY <1>5, DiesKeeps DEF Crash, CrashWhileSaving, CompareNoSchema
<1> QED
  BY <1>1, <1>2, <1>3, <1>4, <1>5 DEF Next

(* With the loops at their end nobody is owed a call.                      *)
LEMMA HearsItOnce ==
  ASSUME ReceiveInv(TRUE)
  PROVE  EveryListenerHearsItOnce
<1>1. ASSUME NEW slot \in DOMAIN due
      PROVE  /\ due[slot] \in {0, 1}
             /\ round.phase \in {"raw", "message"} /\ round.at = 0 => due[slot] = 0
  <2>1. PICK t \in Tables : \E i \in DOMAIN table[t] :
          due[slot] = IF Owed(t, i) THEN 1 ELSE 0
    BY DEF ReceiveInv, SlotsOK, SlotOK
  <2>2. PICK i \in DOMAIN table[t] : due[slot] = IF Owed(t, i) THEN 1 ELSE 0
    BY <2>1
  <2>3. i \in Nat /\ i > 0
    BY TableEntries DEF ReceiveInv
  <2>4. ASSUME round.phase \in {"raw", "message"}, round.at = 0 PROVE ~Owed(t, i)
    <3>1. Ahead(t) = 0
      BY <2>4, TableKinds DEF Ahead, ServiceAhead
    <3> QED
      BY <2>3, <3>1 DEF Owed
  <2> QED
    BY <2>2, <2>4
<1> QED
  BY <1>1 DEF EveryListenerHearsItOnce

(* The dispatch loops: as long as what is heard is what was sent, whoever  *)
(* is registered when a message comes and stays hears it once if it is for *)
(* it and never otherwise, whatever the callbacks of the round add, remove *)
(* and send, whatever is configured within it, and for any listeners,      *)
(* services and messages.                                                  *)
THEOREM ListenersHearItOnce ==
  Spec /\ []WhatIsHeardIsWhatWasSent => []EveryListenerHearsItOnce
<1>1. Init => ReceiveInv(TRUE)
  BY InitKeeps
<1>2. ReceiveInv(TRUE) /\ WhatIsHeardIsWhatWasSent' /\ [Next]_vars => ReceiveInv(TRUE)'
  BY NextKeeps
<1>3. ReceiveInv(TRUE) => EveryListenerHearsItOnce
  BY HearsItOnce
<1> QED
  BY <1>1, <1>2, <1>3, PTL DEF Spec

-----------------------------------------------------------------------------
(* The raw listeners send nothing, which would overwrite the text, and     *)
(* every mail can be read by a clean object: both hold in the run.         *)
RawSilent == "send" \notin Effects[Raw]

MailsArrive == \A mail \in Mails : Carries(Parse(Blank, MailText(mail)), mail)

IsRound ==
  round = [phase |-> round.phase, at |-> round.at, service |-> round.service,
           handler |-> round.handler, changed |-> round.changed]

(* The object is clean between messages, and holds the text's in the loops.*)
MailInv ==
  /\ IsRound /\ round.phase \in Phases
  /\ ~InLoops => msg = Blank
  /\ round.phase = "raw" => buff = MailText(meant)
  /\ round.phase # "idle" => meant \in Mails \cup Junk
  /\ InLoops => IF meant \in Junk
                  THEN msg.class = NULL /\ hubConfirmed
                  ELSE msg = Parse(Blank, MailText(meant))

(* A step within the loops, or none that matters here.                     *)
LEMMA SameMail ==
  ASSUME MailInv, UNCHANGED <<msg, meant, hubConfirmed>>, IsRound',
         \/ round'.phase = round.phase /\ UNCHANGED buff
         \/ InLoops /\ InLoops'
  PROVE  MailInv'
BY DEF MailInv, InLoops, Phases

LEMMA CleanMail ==
  ASSUME msg' = Blank, round' = Idle
  PROVE  MailInv'
BY DEF MailInv, InLoops, Phases, Idle, IsRound

LEMMA MailNext ==
  ASSUME RawSilent, MailInv, [Next]_vars
  PROVE  MailInv'
<1>1. CASE UNCHANGED vars
  BY <1>1, SameMail DEF vars, MailInv, IsRound
<1>2. CASE Program
  <2>1. UNCHANGED <<buff, msg, hubConfirmed, round, meant>>
    BY <1>2 DEF Program, Start, Enable, ChangeItem
  <2> QED
    BY <2>1, SameMail DEF MailInv, IsRound
<1>3. CASE Crash \/ CrashWhileSaving \/ CompareNoSchema
  BY <1>3, CleanMail DEF Crash, CrashWhileSaving, CompareNoSchema, Dies
<1>4. ASSUME NEW mail \in Mails \cup Junk, ReceiveMessage(mail) PROVE MailInv'
  <2>1. round = Idle /\ msg = Blank
    BY <1>4 DEF ReceiveMessage, MailInv, InLoops, Idle
  <2>2. round' = [Idle EXCEPT !.phase = "raw", !.at = Len(table[Raw])]
    BY <1>4 DEF ReceiveMessage
  <2>3. IsRound' /\ round'.phase = "raw"
    BY <2>2 DEF IsRound, Idle
  <2> QED
    BY <1>4, <2>1, <2>3 DEF ReceiveMessage, MailInv, InLoops, Phases
<1>5. CASE DispatchRaw
  <2>1. UNCHANGED <<msg, meant, buff, hubConfirmed>>
    BY <1>5 DEF DispatchRaw, CallBack, RawSilent
  <2>2. IsRound' /\ round'.phase = round.phase
    BY <1>5 DEF DispatchRaw, MailInv, IsRound
  <2> QED
    BY <2>1, <2>2, SameMail
<1>6. CASE ParseMessage
  <2>1. round.phase = "raw" /\ msg = Blank /\ buff = MailText(meant) /\ meant \in Mails \cup Junk
    BY <1>6 DEF ParseMessage, MailInv, InLoops
  <2>2. CASE ~Parses(buff)
    BY <1>6, <2>2, CleanMail DEF ParseMessage, EndOfRound, Released
  <2>3. CASE Parses(buff)
    <3>1. meant \in Junk => Parse(Blank, MailText(meant)).class = NULL /\ hubConfirmed
      <4>1. meant \in Junk => Parse(Blank, MailText(meant)).class = NULL
        BY <2>1, <2>3, MailConstants DEF MailText
      <4>2. ~AtNoSchema /\ round.phase = "raw" /\ round.at = 0
        BY <1>6 DEF ParseMessage
      <4> QED
        BY <2>1, <2>3, <4>1, <4>2 DEF AtNoSchema
    <3>2. /\ msg' = Parse(Blank, MailText(meant)) /\ UNCHANGED meant
          /\ hubConfirmed' = (hubConfirmed \/ IsHubEcho(msg'))
      BY <1>6, <2>1, <2>3 DEF ParseMessage
    <3>3. IsRound' /\ round'.phase = "message"
      BY <1>6, <2>3 DEF ParseMessage, MailInv, IsRound
    <3> QED
      BY <2>1, <3>1, <3>2, <3>3 DEF MailInv, InLoops, Phases
  <2> QED
    BY <2>2, <2>3
<1>7. CASE ReleaseMessage
  BY <1>7, CleanMail DEF ReleaseMessage, EndOfRound, Released
<1>8. CASE \/ DispatchMessage \/ HandleMessage \/ ServicesDone \/ DispatchService
           \/ HandlersDone \/ DispatchServiceConfigChanged \/ ChangedDone \/ ConfigHandler
  <2>1. UNCHANGED <<msg, meant, hubConfirmed>>
    BY <1>8 DEF DispatchMessage, HandleMessage, ServicesDone, DispatchService, HandlersDone,
                DispatchServiceConfigChanged, ChangedDone, ConfigHandler,
                SendServiceConfigList, SendServiceCurrentConfig, SendReply, IgnoreConfig,
                InstallNewConfig
  <2>2. InLoops
    BY <1>8 DEF DispatchMessage, HandleMessage, ServicesDone, DispatchService, HandlersDone,
                DispatchServiceConfigChanged, ChangedDone, ConfigHandler,
                SendServiceConfigList, SendServiceCurrentConfig, IgnoreConfig,
                InstallNewConfig, AtConfigHandler, InLoops
  <2>3. IsRound' /\ InLoops'
    BY <1>8 DEF DispatchMessage, HandleMessage, ServicesDone, DispatchService, HandlersDone,
                DispatchServiceConfigChanged, ChangedDone, ConfigHandler,
                SendServiceConfigList, SendServiceCurrentConfig, SendReply, IgnoreConfig,
                InstallNewConfig, AtConfigHandler, InLoops, MailInv, IsRound
  <2> QED
    BY <2>1, <2>2, <2>3, SameMail
<1> QED
  BY <1>1, <1>2, <1>3, <1>4, <1>5, <1>6, <1>7, <1>8 DEF Next, Dispatch

(* xPL_receiveMessage: what a listener is given is the text that came, or  *)
(* the message its sender built, and of texts that are no messages only    *)
(* one that ends after its header reaches others, once the hub is known,   *)
(* through any number of messages read by the one recycled object.         *)
THEOREM MessagesArriveAsSent ==
  ASSUME RawSilent, MailsArrive
  PROVE  Spec => []WhatIsHeardIsWhatWasSent
<1>1. Init => MailInv
  BY DEF Init, MailInv, Idle, InLoops, Phases, IsRound
<1>2. MailInv /\ [Next]_vars => MailInv'
  BY MailNext
<1>3. MailInv => WhatIsHeardIsWhatWasSent
  <2> SUFFICES ASSUME MailInv PROVE WhatIsHeardIsWhatWasSent
    OBVIOUS
  <2>1. round.phase = "raw" => buff = MailText(meant)
    BY DEF MailInv
  <2>2. ASSUME InLoops
        PROVE  \/ meant.kind = "mail" /\ Carries(msg, meant)
               \/ meant.kind = "junk" /\ msg.class = NULL /\ hubConfirmed
    <3>1. meant \in Mails \cup Junk
      BY <2>2 DEF MailInv, InLoops
    <3>2. CASE meant \in Junk
      <4>1. msg.class = NULL /\ hubConfirmed
        BY <2>2, <3>2 DEF MailInv
      <4>2. meant.kind = "junk"
        BY <3>2, MailConstants, Zenon
      <4> QED
        BY <4>1, <4>2
    <3>3. CASE meant \notin Junk
      <4>1. meant \in Mails
        BY <3>1, <3>3
      <4>2. msg = Parse(Blank, MailText(meant))
        BY <2>2, <3>3 DEF MailInv
      <4>3. meant.kind = "mail"
        BY <4>1, MailConstants, Zenon
      <4>4. Carries(Parse(Blank, MailText(meant)), meant)
        BY <4>1, Zenon DEF MailsArrive
      <4>5. Carries(msg, meant)
        BY <4>2, <4>4, Zenon
      <4> QED
        BY <4>3, <4>5
    <3> QED
      BY <3>2, <3>3
  <2> QED
    BY <2>1, <2>2 DEF WhatIsHeardIsWhatWasSent
<1> QED
  BY <1>1, <1>2, <1>3, PTL DEF Spec

(* Both together.                                                          *)
THEOREM EveryMessageIsHeardOnce ==
  ASSUME RawSilent, MailsArrive
  PROVE  Spec => []EveryListenerHearsItOnce
BY MessagesArriveAsSent, ListenersHearItOnce, PTL

-----------------------------------------------------------------------------
(* A list of whatever there is, and those in V.                            *)
IsList(list) == \E V : list \in Seq(V)

Texts(V) == {v \in V : IsList(v)}

(* Settings whose names, values and all else are in V.  The name of the    *)
(* service is a text, and what an item writes is never taken for it.       *)
Item(V) ==
  {it \in [name : V, kind : V, max : Nat, values : Seq(V)] :
     Len(it.values) <= it.max /\ it.name # <<"newconf">> /\ <<it.kind>> \in Definitions}

SettingsIn(V) ==
  [name : Texts(V), interval : V, filters : Seq(V), groups : Seq(V), items : Seq(Item(V)),
   configured : BOOLEAN]

(* Settings in a set are settings in any larger one.                       *)
LEMMA Wider ==
  ASSUME NEW V, NEW W, V \subseteq W
  PROVE  SettingsIn(V) \subseteq SettingsIn(W)
<1>1. \A s \in Seq(V) : s \in Seq(W)
  BY SeqMonotonic
<1>2. Item(V) \subseteq Item(W) /\ Texts(V) \subseteq Texts(W)
  <2> HIDE DEF IsList
  <2> QED
    BY <1>1 DEF Item, Texts
<1>3. \A s \in Seq(Item(V)) : s \in Seq(Item(W))
  BY <1>2, SeqMonotonic
<1> HIDE DEF Item, Texts
<1> QED
  BY <1>1, <1>2, <1>3 DEF SettingsIn

(* xPL_findServiceConfigurable: an item that is there, or none.            *)
LEMMA FoundItem ==
  ASSUME NEW V, NEW st \in SettingsIn(V), NEW name
  PROVE  LET k == FindServiceConfigurable(st, name) IN
         k = 0 \/ k \in 1 .. Len(st.items)
<1> DEFINE I == {i \in 1 .. Len(st.items) : st.items[i].name = name}
<1>1. I # {} => Min(I) \in I
  <2>1. I \subseteq Nat
    OBVIOUS
  <2>2. I # {} => \E x \in I : \A y \in I : x <= y
    <3> HIDE DEF I
    <3> QED
      BY <2>1, LeastElement
  <2> HIDE DEF I
  <2> QED
    BY <2>2 DEF Min
<1>2. FindServiceConfigurable(st, name) = IF I # {} THEN Min(I) ELSE 0
  BY DEF FindServiceConfigurable, SelectInSeq
<1>3. \A k \in I : k \in 1 .. Len(st.items)
  OBVIOUS
<1> HIDE DEF I
<1> QED
  BY <1>1, <1>2, <1>3

(* xPL_addServiceConfigurable, with the count it may correct.              *)
LEMMA AddedItem ==
  ASSUME NEW V, NEW st \in SettingsIn(V), NEW name \in V, NEW kind \in V, NEW max \in Int,
         name # <<"newconf">>, <<kind>> \in Definitions
  PROVE  AddServiceConfigurable(st, name, kind, max) \in SettingsIn(V)
<1>1. NewItem(name, kind, max) \in Item(V)
  <2>1. << >> \in Seq(V) /\ Len(<< >>) = 0
    BY EmptySeq
  <2> QED
    BY <2>1 DEF NewItem, Item
<1>2. Append(st.items, NewItem(name, kind, max)) \in Seq(Item(V))
  BY <1>1, AppendProperties DEF SettingsIn
<1> HIDE DEF NewItem
<1> QED
  BY <1>2 DEF AddServiceConfigurable, SettingsIn

(* xPL_removeServiceConfigurable.                                          *)
LEMMA RemovedItem ==
  ASSUME NEW V, NEW st \in SettingsIn(V), NEW name
  PROVE  RemoveServiceConfigurable(st, name) \in SettingsIn(V)
<1> DEFINE k == FindServiceConfigurable(st, name)
<1>1. k = 0 \/ k \in 1 .. Len(st.items)
  BY FoundItem
<1>2. st.items \in Seq(Item(V)) /\ DOMAIN st.items = 1 .. Len(st.items)
  BY LenProperties DEF SettingsIn
<1> HIDE DEF k
<1>3. k # 0 => RemoveAt(st.items, k) \in Seq(Item(V))
  BY <1>1, <1>2, ShorterList
<1>4. RemoveServiceConfigurable(st, name) = IF k = 0 THEN st ELSE [st EXCEPT !.items = RemoveAt(@, k)]
  BY DEF RemoveServiceConfigurable, k
<1> HIDE DEF Item
<1> QED
  BY <1>3, <1>4 DEF SettingsIn

(* Every item is left without values.                                      *)
LEMMA ClearedItems ==
  ASSUME NEW V, NEW st \in SettingsIn(V)
  PROVE  ClearAllServiceConfigValues(st) \in SettingsIn(V)
<1> DEFINE new == [i \in DOMAIN st.items |-> [st.items[i] EXCEPT !.values = << >>]]
<1>1. /\ Len(st.items) \in Nat /\ DOMAIN st.items = 1 .. Len(st.items)
      /\ \A i \in 1 .. Len(st.items) : st.items[i] \in Item(V)
  BY LenProperties, ElementOfSeq DEF SettingsIn
<1>2. ASSUME NEW it \in Item(V) PROVE [it EXCEPT !.values = << >>] \in Item(V)
  <2>1. << >> \in Seq(V) /\ Len(<< >>) = 0
    BY EmptySeq
  <2>2. it \in [name : V, kind : V, max : Nat, values : Seq(V)]
    BY DEF Item
  <2>3. [it EXCEPT !.values = << >>] \in [name : V, kind : V, max : Nat, values : Seq(V)]
    BY <2>1, <2>2
  <2>4. [it EXCEPT !.values = << >>].values = << >> /\ [it EXCEPT !.values = << >>].max \in Nat
    BY <2>2
  <2> QED
    BY <2>1, <2>3, <2>4 DEF Item
<1>3. new \in Seq(Item(V))
  <2>1. \A i \in 1 .. Len(st.items) : new[i] \in Item(V)
    BY <1>1, <1>2
  <2>2. new = [i \in 1 .. Len(st.items) |-> new[i]]
    BY <1>1
  <2>3. new \in [1 .. Len(st.items) -> Item(V)]
    <3> HIDE DEF new
    <3> QED
      BY <2>1, <2>2
  <2> HIDE DEF new
  <2> QED
    BY <1>1, <2>3
<1>4. ClearAllServiceConfigValues(st) = [st EXCEPT !.items = new]
  BY DEF ClearAllServiceConfigValues
<1> HIDE DEF new, Item
<1> QED
  BY <1>3, <1>4 DEF SettingsIn

(* An item gets other values, no more than it may have.                    *)
LEMMA ChangedItem ==
  ASSUME NEW V, NEW st \in SettingsIn(V), NEW k \in 1 .. Len(st.items), NEW values \in Seq(V),
         Len(values) <= st.items[k].max
  PROVE  [st EXCEPT !.items[k].values = values] \in SettingsIn(V)
<1>1. st.items \in Seq(Item(V)) /\ st.items[k] \in Item(V)
  BY ElementOfSeq DEF SettingsIn
<1>2. [st.items[k] EXCEPT !.values = values] \in Item(V)
  BY <1>1 DEF Item
<1>3. [st.items EXCEPT ![k].values = values] \in Seq(Item(V))
  <2>1. [st.items EXCEPT ![k] = [st.items[k] EXCEPT !.values = values]] \in Seq(Item(V))
    BY <1>1, <1>2, ExceptSeq
  <2> QED
    BY <2>1
<1> HIDE DEF Item
<1>4. [st EXCEPT !.items = [st.items EXCEPT ![k].values = values]] \in SettingsIn(V)
  BY <1>3 DEF SettingsIn
<1> QED
  BY <1>4

(* xPL_addServiceConfigValue: a full item takes no more.                   *)
LEMMA AddedValue ==
  ASSUME NEW V, NEW st \in SettingsIn(V), NEW name, NEW value \in V
  PROVE  AddServiceConfigValue(st, name, value) \in SettingsIn(V)
<1> DEFINE k == FindServiceConfigurable(st, name)
<1>1. k = 0 \/ k \in 1 .. Len(st.items)
  BY FoundItem
<1> HIDE DEF k
<1>2. ASSUME k # 0, ~(Len(st.items[k].values) >= st.items[k].max)
      PROVE  [st EXCEPT !.items[k].values = Append(@, value)] \in SettingsIn(V)
  <2>1. st.items[k] \in Item(V)
    BY <1>1, <1>2, ElementOfSeq DEF SettingsIn
  <2>2. /\ st.items[k].values \in Seq(V) /\ st.items[k].max \in Nat
        /\ Len(st.items[k].values) \in Nat
    BY <2>1, LenProperties DEF Item
  <2>3. /\ Append(st.items[k].values, value) \in Seq(V)
        /\ Len(Append(st.items[k].values, value)) = Len(st.items[k].values) + 1
    BY <2>2, AppendProperties
  <2>4. Len(Append(st.items[k].values, value)) <= st.items[k].max
    BY <1>2, <2>2, <2>3
  <2>5. [st EXCEPT !.items[k].values = Append(st.items[k].values, value)] \in SettingsIn(V)
    BY <1>1, <1>2, <2>3, <2>4, ChangedItem
  <2> QED
    BY <2>5
<1> QED
  BY <1>2 DEF AddServiceConfigValue, k

(* xPL_setServiceConfigValueAt.                                            *)
LEMMA SetValue ==
  ASSUME NEW V, NEW st \in SettingsIn(V), NEW name, NEW value \in V
  PROVE  SetServiceConfigValueAt(st, name, 1, value) \in SettingsIn(V)
<1> DEFINE k == FindServiceConfigurable(st, name)
<1>1. k = 0 \/ k \in 1 .. Len(st.items)
  BY FoundItem
<1> HIDE DEF k
<1>2. ASSUME k # 0, 1 <= Len(st.items[k].values)
      PROVE  [st EXCEPT !.items[k].values[1] = value] \in SettingsIn(V)
  <2>1. st.items[k] \in Item(V)
    BY <1>1, <1>2, ElementOfSeq DEF SettingsIn
  <2> DEFINE values == [st.items[k].values EXCEPT ![1] = value]
  <2>2. st.items[k].values \in Seq(V) /\ 1 \in 1 .. Len(st.items[k].values)
    BY <1>2, <2>1, LenProperties DEF Item
  <2>3. values \in Seq(V) /\ Len(values) = Len(st.items[k].values)
    BY <2>2, ExceptSeq
  <2>4. Len(values) <= st.items[k].max
    BY <2>1, <2>3 DEF Item
  <2>5. [st EXCEPT !.items[k].values = values] \in SettingsIn(V)
    <3> HIDE DEF values
    <3> QED
      BY <1>1, <1>2, <2>3, <2>4, ChangedItem
  <2> QED
    BY <2>5
<1> QED
  BY <1>2, AddedValue DEF SetServiceConfigValueAt, k

-----------------------------------------------------------------------------
(* What an element of a response, or a line of the file, may put there.    *)
From(line) ==
  {line.name, line.name[1], line.value, DefinedName(line.value), ParseFilter(line.value),
   NumberOf(line.value) * 60}

(* A line that gives the service its name gives it a text.                 *)
NamesOK(line) == line.name = <<"newconf">> => IsList(line.value)

InstallingIn(V) ==
  [st : SettingsIn(V), name : Texts(V), interval : V, restart : BOOLEAN, filters : BOOLEAN,
   groups : BOOLEAN]

(* What stands behind a bracket is taken for a number, or for zero.        *)
LEMMA CountIsInt ==
  ASSUME NEW text
  PROVE  NumberOf(CountText(text)) \in Int
<1> DEFINE open == IndexOfMark(text, "[")
<1>1. \/ CountText(text) = << >>
      \/ \E c \in DOMAIN Numeral : CountText(text) = <<c>>
  <2> HIDE DEF open
  <2>1. CASE open < Len(text) /\ text[open + 1] \in DOMAIN Numeral
    <3>1. CountText(text) = <<text[open + 1]>>
      BY <2>1 DEF CountText, open
    <3> QED
      BY <2>1, <3>1
  <2>2. CASE ~(open < Len(text) /\ text[open + 1] \in DOMAIN Numeral)
    BY <2>2 DEF CountText, open
  <2> QED
    BY <2>1, <2>2
<1>2. ASSUME NEW c \in DOMAIN Numeral PROVE NumberOf(<<c>>) \in Int
  <2>1. <<c>> # << >> /\ <<c>>[1] = c
    OBVIOUS
  <2> QED
    BY <2>1, MessageConstants DEF NumberOf
<1>3. NumberOf(<< >>) = 0
  BY DEF NumberOf
<1> QED
  BY <1>1, <1>2, <1>3

(* parseConfigDefinition.                                                  *)
LEMMA DefinedItem ==
  ASSUME NEW V, NEW st \in SettingsIn(V), NEW text, NEW kind \in V, DefinedName(text) \in V,
         <<kind>> \in Definitions
  PROVE  Defined(st, text, kind) \in SettingsIn(V)
<1> DEFINE max == IF IndexOfMark(text, "[") = 0 THEN 1 ELSE NumberOf(CountText(text))
<1>1. max \in Int
  BY CountIsInt
<1> HIDE DEF max
<1>2. DefinedName(text) \notin Builtin =>
        AddServiceConfigurable(st, DefinedName(text), kind, max) \in SettingsIn(V)
  BY <1>1, AddedItem, ItemConstants
<1> QED
  BY <1>2 DEF Defined, max

(* What an element may change of the work in hand.                         *)
LEMMA InstallingFields ==
  ASSUME NEW V, NEW acc \in InstallingIn(V), NEW st \in SettingsIn(V), NEW v \in V
  PROVE  /\ acc.st \in SettingsIn(V)
         /\ [acc EXCEPT !.st = st] \in InstallingIn(V)
         /\ \A name \in Texts(V) : [acc EXCEPT !.name = name, !.restart = TRUE] \in InstallingIn(V)
         /\ [acc EXCEPT !.interval = v] \in InstallingIn(V)
         /\ [acc EXCEPT !.interval = v, !.restart = TRUE] \in InstallingIn(V)
         /\ [acc EXCEPT !.filters = TRUE, !.st = st] \in InstallingIn(V)
         /\ [acc EXCEPT !.groups = TRUE, !.st = st] \in InstallingIn(V)
<1>1. TRUE \in BOOLEAN
  OBVIOUS
<1>2. ASSUME NEW S, NEW B, NEW N, NEW t \in B, st \in S,
             acc \in [st : S, name : N, interval : V, restart : B, filters : B, groups : B]
      PROVE  LET R == [st : S, name : N, interval : V, restart : B, filters : B, groups : B] IN
             /\ acc.st \in S
             /\ [acc EXCEPT !.st = st] \in R
             /\ \A name \in N : [acc EXCEPT !.name = name, !.restart = t] \in R
             /\ [acc EXCEPT !.interval = v] \in R
             /\ [acc EXCEPT !.interval = v, !.restart = t] \in R
             /\ [acc EXCEPT !.filters = t, !.st = st] \in R
             /\ [acc EXCEPT !.groups = t, !.st = st] \in R
  BY <1>2
<1> QED
  BY <1>1, <1>2, Zenon DEF InstallingIn

(* installNewConfig: one element.                                          *)
LEMMA ElementStays ==
  ASSUME NEW V, NoInterval \in V, NEW acc \in InstallingIn(V), NEW line, From(line) \subseteq V,
         NamesOK(line), NEW allow
  PROVE  Element(acc, line, allow) \in InstallingIn(V)
<1>0. ASSUME NEW st \in SettingsIn(V), NEW v \in V
      PROVE  /\ acc.st \in SettingsIn(V)
             /\ [acc EXCEPT !.st = st] \in InstallingIn(V)
             /\ \A name \in Texts(V) :
                  [acc EXCEPT !.name = name, !.restart = TRUE] \in InstallingIn(V)
             /\ [acc EXCEPT !.interval = v] \in InstallingIn(V)
             /\ [acc EXCEPT !.interval = v, !.restart = TRUE] \in InstallingIn(V)
             /\ [acc EXCEPT !.filters = TRUE, !.st = st] \in InstallingIn(V)
             /\ [acc EXCEPT !.groups = TRUE, !.st = st] \in InstallingIn(V)
  BY InstallingFields
<1>1. /\ acc.st \in SettingsIn(V)
      /\ line.value \in V /\ line.name[1] \in V /\ DefinedName(line.value) \in V
      /\ ParseFilter(line.value) \in V
      /\ NumberOf(line.value) * 60 \in V
  BY DEF InstallingIn, From
<1>2. CASE line.name \in Definitions
  <2>1. Element(acc, line, allow) =
          IF allow THEN [acc EXCEPT !.st = Defined(@, line.value, line.name[1])] ELSE acc
    BY <1>2 DEF Element, Definitions
  <2>2. Defined(acc.st, line.value, line.name[1]) \in SettingsIn(V)
    <3>1. <<line.name[1]>> \in Definitions
      BY <1>2 DEF Definitions
    <3> QED
      BY <1>1, <3>1, DefinedItem
  <2> QED
    BY <1>0, <1>1, <2>1, <2>2
<1>3. CASE line.name = <<"newconf">>
  <2>1. Element(acc, line, allow) =
          IF line.value = acc.st.name
            THEN acc ELSE [acc EXCEPT !.name = line.value, !.restart = TRUE]
    BY <1>3 DEF Element, Definitions
  <2>2. line.value \in Texts(V)
    BY <1>1, <1>3 DEF NamesOK, Texts
  <2> QED
    BY <1>0, <1>1, <2>1, <2>2
<1>4. CASE line.name = <<"interval">>
  <2>1. Element(acc, line, allow) = WithInterval(acc, line.value)
    BY <1>4 DEF Element, Definitions
  <2>2. \/ WithInterval(acc, line.value) = acc
        \/ WithInterval(acc, line.value) = [acc EXCEPT !.interval = NoInterval]
        \/ WithInterval(acc, line.value) =
             [acc EXCEPT !.interval = NumberOf(line.value) * 60, !.restart = TRUE]
    <3>1. CASE ~IsNumber(line.value)
      BY <3>1 DEF WithInterval
    <3>2. CASE IsNumber(line.value) /\ NumberOf(line.value) * 60 = acc.st.interval
      BY <3>2 DEF WithInterval
    <3>3. CASE IsNumber(line.value) /\ NumberOf(line.value) * 60 # acc.st.interval
      BY <3>3 DEF WithInterval
    <3> QED
      BY <3>1, <3>2, <3>3
  <2> QED
    BY <1>0, <1>1, <2>1, <2>2
<1>5. CASE line.name = <<"filter">>
  <2>1. Element(acc, line, allow) = WithFilter(acc, line.value)
    BY <1>5 DEF Element, Definitions
  <2> DEFINE st == IF acc.filters THEN acc.st ELSE ClearServiceFilters(acc.st)
             new == IF line.value # << >> /\ IsFilter(line.value)
                      THEN [st EXCEPT !.filters = Append(@, ParseFilter(line.value))] ELSE st
  <2>2. st \in SettingsIn(V)
    <3>1. << >> \in Seq(V)
      BY EmptySeq
    <3>2. ClearServiceFilters(acc.st) \in SettingsIn(V)
      BY <1>1, <3>1 DEF ClearServiceFilters, SettingsIn
    <3> QED
      BY <1>1, <3>2
  <2>3. new \in SettingsIn(V)
    <3> HIDE DEF st
    <3>1. Append(st.filters, ParseFilter(line.value)) \in Seq(V)
      BY <1>1, <2>2, AppendProperties DEF SettingsIn
    <3> QED
      BY <2>2, <3>1 DEF SettingsIn
  <2>4. WithFilter(acc, line.value) = [acc EXCEPT !.filters = TRUE, !.st = new]
    BY DEF WithFilter
  <2> HIDE DEF new
  <2> QED
    BY <1>0, <1>1, <2>1, <2>3, <2>4
<1>6. CASE line.name = <<"group">>
  <2>1. Element(acc, line, allow) = WithGroup(acc, line.value)
    BY <1>6 DEF Element, Definitions
  <2> DEFINE st == IF acc.groups THEN acc.st ELSE ClearServiceGroups(acc.st)
             new == IF line.value # << >>
                      THEN [st EXCEPT !.groups = Append(@, line.value)] ELSE st
  <2>2. st \in SettingsIn(V)
    <3>1. << >> \in Seq(V)
      BY EmptySeq
    <3>2. ClearServiceGroups(acc.st) \in SettingsIn(V)
      BY <1>1, <3>1 DEF ClearServiceGroups, SettingsIn
    <3> QED
      BY <1>1, <3>2
  <2>3. new \in SettingsIn(V)
    <3> HIDE DEF st
    <3>1. Append(st.groups, line.value) \in Seq(V)
      BY <1>1, <2>2, AppendProperties DEF SettingsIn
    <3> QED
      BY <2>2, <3>1 DEF SettingsIn
  <2>4. WithGroup(acc, line.value) = [acc EXCEPT !.groups = TRUE, !.st = new]
    BY DEF WithGroup
  <2> HIDE DEF new
  <2> QED
    BY <1>0, <1>1, <2>1, <2>3, <2>4
<1>7. CASE line.name \notin Definitions \cup {<<"newconf">>, <<"interval">>, <<"filter">>, <<"group">>}
  <2>1. Element(acc, line, allow) =
          [acc EXCEPT !.st = AddServiceConfigValue(@, line.name, line.value)]
    BY <1>7 DEF Element
  <2>2. AddServiceConfigValue(acc.st, line.name, line.value) \in SettingsIn(V)
    BY <1>1, AddedValue
  <2> QED
    BY <1>0, <1>1, <2>1, <2>2
<1> QED
  BY <1>2, <1>3, <1>4, <1>5, <1>6, <1>7

(* All of them, which is a fold.                                           *)
LEMMA ElementsStay ==
  ASSUME NEW V, NoInterval \in V, NULL \in V, NEW st \in SettingsIn(V), NEW L, NEW lines \in Seq(L),
         \A i \in DOMAIN lines : From(lines[i]) \subseteq V /\ NamesOK(lines[i]), NEW allow
  PROVE  Elements(st, lines, allow) \in InstallingIn(V)
<1> DEFINE n == Len(lines)
           T == InstallingIn(V)
           base == Installing(st)
           Op(acc, e) == Element(acc, e, allow)
           step == [p \in T \X (1 .. n) |-> Op(p[1], lines[p[2]])]
           Fold(g) == [u \in SUBSET DOMAIN lines |->
                         IF u = {} THEN base ELSE Op(g[u \ {Max(u)}], lines[Max(u)])]
           F == CHOOSE g : g = Fold(g)
<1>1. n \in Nat /\ DOMAIN lines = 1 .. n
  BY LenProperties
<1>2. Elements(st, lines, allow) = F[1 .. n]
  BY <1>1 DEF Elements, FoldLeft, MapThenFoldSet
<1>3. base \in T
  <2>1. ClearAllServiceConfigValues(st) \in SettingsIn(V)
    BY ClearedItems
  <2>2. NULL \in Texts(V)
    <3>1. NULL \in Seq({"NULL"})
      BY DEF NULL
    <3> QED
      BY <3>1 DEF Texts, IsList
  <2> QED
    BY <2>1, <2>2 DEF Installing, InstallingIn
<1>4. ASSUME NEW acc \in T, NEW i \in 1 .. n PROVE Op(acc, lines[i]) \in T
  <2>1. From(lines[i]) \subseteq V /\ NamesOK(lines[i])
    BY <1>1
  <2> QED
    BY <2>1, ElementStays
<1> HIDE DEF Op, base, T, n
<1>5. step \in [T \X (1 .. n) -> T]
  BY <1>4
<1>6. \A acc \in T, i \in 1 .. n : step[<<acc, i>>] = Op(acc, lines[i])
  OBVIOUS
<1> HIDE DEF step
<1>7. F = Fold(F)
  <2>1. PICK g : FoldedWith(g, T, base, step, n)
    BY <1>1, <1>3, <1>5, FoldOnPlaces
  <2>2. ASSUME NEW u \in SUBSET DOMAIN lines
        PROVE  g[u] = IF u = {} THEN base ELSE Op(g[u \ {Max(u)}], lines[Max(u)])
    <3>1. CASE u = {}
      BY <2>1, <3>1 DEF FoldedWith
    <3>2. CASE u # {}
      <4>1. /\ Max(u) \in 1 .. n /\ g[u \ {Max(u)}] \in T
            /\ g[u] = step[<<g[u \ {Max(u)}], Max(u)>>]
        BY <1>1, <2>1, <3>2 DEF FoldedWith
      <4> QED
        BY <1>6, <3>2, <4>1
    <3> QED
      BY <3>1, <3>2
  <2>3. g \in [SUBSET DOMAIN lines -> T]
    BY <1>1, <2>1 DEF FoldedWith
  <2>4. g = Fold(g)
    BY <2>2, <2>3
  <2> HIDE DEF Fold
  <2> QED
    BY <2>4
<1> HIDE DEF F
<1>8. F[{}] = base
  BY <1>7
<1>9. ASSUME NEW u \in SUBSET (1 .. n), u # {}, F[u \ {Max(u)}] \in T
      PROVE  F[u] = step[<<F[u \ {Max(u)}], Max(u)>>]
  <2>1. Max(u) \in 1 .. n
    BY <1>1, <1>9, LastPlace
  <2>2. F[u] = Op(F[u \ {Max(u)}], lines[Max(u)])
    BY <1>1, <1>7, <1>9
  <2> QED
    BY <1>6, <1>9, <2>1, <2>2
<1>10. F[1 .. n] \in T
  BY <1>1, <1>3, <1>5, <1>8, <1>9, FoldStays
<1> QED
  BY <1>2, <1>10 DEF T

(* The items the program defines, which is another.                        *)
LEMMA ItemsAdded ==
  ASSUME NEW V, NEW st \in SettingsIn(V), NEW s \in Configurables,
         \A it \in Range(Items) : it.name \in V /\ it.kind \in V
  PROVE  WithItems(s, st) \in SettingsIn(V)
<1> DEFINE n == Len(Items)
           T == SettingsIn(V)
           base == st
           Op(acc, e) == AddServiceConfigurable(acc, e.name, e.kind, e.max)
           step == [p \in T \X (1 .. n) |-> Op(p[1], Items[p[2]])]
           Fold(g) == [u \in SUBSET DOMAIN Items |->
                         IF u = {} THEN base ELSE Op(g[u \ {Max(u)}], Items[Max(u)])]
           F == CHOOSE g : g = Fold(g)
<1>1. n \in Nat /\ DOMAIN Items = 1 .. n
  BY LenProperties, ItemConstants
<1>2. WithItems(s, st) = F[1 .. n]
  BY <1>1 DEF WithItems, FoldLeft, MapThenFoldSet
<1>3. base \in T
  OBVIOUS
<1>4. ASSUME NEW acc \in T, NEW i \in 1 .. n PROVE Op(acc, Items[i]) \in T
  <2>1. /\ Items[i].name \in V /\ Items[i].kind \in V /\ Items[i].max \in Int
        /\ Items[i].name # <<"newconf">> /\ <<Items[i].kind>> \in Definitions
    BY <1>1, ItemConstants DEF Range
  <2> QED
    BY <2>1, AddedItem
<1> HIDE DEF Op, base, T, n
<1>5. step \in [T \X (1 .. n) -> T]
  BY <1>4
<1>6. \A acc \in T, i \in 1 .. n : step[<<acc, i>>] = Op(acc, Items[i])
  OBVIOUS
<1> HIDE DEF step
<1>7. F = Fold(F)
  <2>1. PICK g : FoldedWith(g, T, base, step, n)
    BY <1>1, <1>3, <1>5, FoldOnPlaces
  <2>2. ASSUME NEW u \in SUBSET DOMAIN Items
        PROVE  g[u] = IF u = {} THEN base ELSE Op(g[u \ {Max(u)}], Items[Max(u)])
    <3>1. CASE u = {}
      BY <2>1, <3>1 DEF FoldedWith
    <3>2. CASE u # {}
      <4>1. /\ Max(u) \in 1 .. n /\ g[u \ {Max(u)}] \in T
            /\ g[u] = step[<<g[u \ {Max(u)}], Max(u)>>]
        BY <1>1, <2>1, <3>2 DEF FoldedWith
      <4> QED
        BY <1>6, <3>2, <4>1
    <3> QED
      BY <3>1, <3>2
  <2>3. g \in [SUBSET DOMAIN Items -> T]
    BY <1>1, <2>1 DEF FoldedWith
  <2>4. g = Fold(g)
    BY <2>2, <2>3
  <2> HIDE DEF Fold
  <2> QED
    BY <2>4
<1> HIDE DEF F
<1>8. F[{}] = base
  BY <1>7
<1>9. ASSUME NEW u \in SUBSET (1 .. n), u # {}, F[u \ {Max(u)}] \in T
      PROVE  F[u] = step[<<F[u \ {Max(u)}], Max(u)>>]
  <2>1. Max(u) \in 1 .. n
    BY <1>1, <1>9, LastPlace
  <2>2. F[u] = Op(F[u \ {Max(u)}], Items[Max(u)])
    BY <1>1, <1>7, <1>9
  <2> QED
    BY <1>6, <1>9, <2>1, <2>2
<1>10. F[1 .. n] \in T
  BY <1>1, <1>3, <1>5, <1>8, <1>9, FoldStays
<1> QED
  BY <1>2, <1>10 DEF T

-----------------------------------------------------------------------------
(* Whatever stands in them.                                                *)
IsSettings(st) == \E V : st \in SettingsIn(V)

(* A list is a function on its places.                                     *)
LEMMA AsAList ==
  ASSUME NEW list, IsList(list)
  PROVE  /\ Len(list) \in Nat /\ DOMAIN list = 1 .. Len(list)
         /\ list \in Seq(Range(list))
         /\ list = [i \in 1 .. Len(list) |-> list[i]]
<1>1. PICK V : list \in Seq(V)
  BY DEF IsList
<1>2. Len(list) \in Nat /\ DOMAIN list = 1 .. Len(list) /\ list = [i \in 1 .. Len(list) |-> list[i]]
  BY <1>1, LenProperties
<1>3. list \in [1 .. Len(list) -> Range(list)]
  BY <1>2 DEF Range
<1>4. \A n \in Nat : [1 .. n -> Range(list)] \subseteq Seq(Range(list))
  OBVIOUS
<1> QED
  BY <1>2, <1>3, <1>4

(* What is made of a list place by place is a list.                        *)
LEMMA MappedList ==
  ASSUME NEW n \in Nat, NEW f, f = [i \in 1 .. n |-> f[i]]
  PROVE  IsList(f)
<1>1. f \in [1 .. n -> Range(f)]
  BY DEF Range
<1>2. f \in Seq(Range(f))
  BY <1>1
<1> QED
  BY <1>2 DEF IsList

(* So are two of them one behind the other.                                *)
LEMMA JoinedLists ==
  ASSUME NEW s, NEW t, IsList(s), IsList(t)
  PROVE  IsList(s \o t)
<1>1. PICK V : s \in Seq(V)
  BY DEF IsList
<1>2. PICK W : t \in Seq(W)
  BY DEF IsList
<1>3. s \in Seq(V \cup W) /\ t \in Seq(V \cup W)
  BY <1>1, <1>2, SeqMonotonic
<1>4. s \o t \in Seq(V \cup W)
  BY <1>3, ConcatProperties
<1> QED
  BY <1>4 DEF IsList

(* So is a list of lists, flattened.                                       *)
LEMMA FlatList ==
  ASSUME NEW n \in Nat, NEW seqs, seqs = [i \in 1 .. n |-> seqs[i]],
         \A i \in 1 .. n : IsList(seqs[i])
  PROVE  IsList(FlattenSeq(seqs))
<1> DEFINE S == UNION {Range(seqs[i]) : i \in 1 .. n}
<1>1. ASSUME NEW i \in 1 .. n PROVE seqs[i] \in Seq(S)
  <2>1. seqs[i] \in Seq(Range(seqs[i]))
    BY AsAList
  <2>2. Range(seqs[i]) \subseteq S
    OBVIOUS
  <2> HIDE DEF S
  <2> QED
    BY <2>1, <2>2, SeqMonotonic
<1> HIDE DEF S
<1>2. seqs \in [1 .. n -> Seq(S)]
  BY <1>1
<1>3. FlattenSeq(seqs) \in Seq(S)
  BY <1>2, FlattenStays
<1> QED
  BY <1>3 DEF IsList

(* A list of lines, as a message or a file has them.                       *)
IsLines(list) == IsList(list) /\ \A line \in Range(list) : NamesOK(line)

LEMMA ShortLines ==
  /\ IsLines(<< >>)
  /\ \A a : NamesOK(a) => IsLines(<<a>>)
  /\ \A a, b : NamesOK(a) /\ NamesOK(b) => IsLines(<<a, b>>)
  /\ \A a, b, c, d :
       NamesOK(a) /\ NamesOK(b) /\ NamesOK(c) /\ NamesOK(d) => IsLines(<<a, b, c, d>>)
<1>1. IsList(<< >>) /\ Range(<< >>) = {}
  BY EmptySeq DEF IsList, Range
<1>2. \A a : <<a>> \in Seq({a}) /\ Range(<<a>>) = {a}
  BY DEF Range
<1>3. \A a, b : <<a, b>> \in Seq({a, b}) /\ Range(<<a, b>>) = {a, b}
  BY DEF Range
<1>4. \A a, b, c, d : <<a, b, c, d>> \in Seq({a, b, c, d}) /\ Range(<<a, b, c, d>>) = {a, b, c, d}
  BY DEF Range
<1>5. ASSUME NEW S, NEW list \in Seq(S), Range(list) = S, \A line \in S : NamesOK(line)
      PROVE  IsLines(list)
  BY <1>5 DEF IsLines, IsList
<1>6. ASSUME NEW a, NamesOK(a) PROVE IsLines(<<a>>)
  BY <1>2, <1>5, <1>6
<1>7. ASSUME NEW a, NEW b, NamesOK(a), NamesOK(b) PROVE IsLines(<<a, b>>)
  <2>1. <<a, b>> \in Seq({a, b}) /\ Range(<<a, b>>) = {a, b}
    BY <1>3
  <2> QED
    BY <1>5, <1>7, <2>1
<1>8. ASSUME NEW a, NEW b, NEW c, NEW d, NamesOK(a), NamesOK(b), NamesOK(c), NamesOK(d)
      PROVE  IsLines(<<a, b, c, d>>)
  <2>1. <<a, b, c, d>> \in Seq({a, b, c, d}) /\ Range(<<a, b, c, d>>) = {a, b, c, d}
    BY <1>4
  <2> QED
    BY <1>5, <1>8, <2>1
<1>9. IsLines(<< >>)
  BY <1>1 DEF IsLines
<1> QED
  BY <1>6, <1>7, <1>8, <1>9

LEMMA MappedLines ==
  ASSUME NEW n \in Nat, NEW f, f = [i \in 1 .. n |-> f[i]], \A i \in 1 .. n : NamesOK(f[i])
  PROVE  IsLines(f)
<1>1. DOMAIN f = 1 .. n
  OBVIOUS
<1>2. \A line \in Range(f) : NamesOK(line)
  BY <1>1 DEF Range
<1> QED
  BY <1>2, MappedList DEF IsLines

LEMMA JoinedLines ==
  ASSUME NEW s, NEW t, IsLines(s), IsLines(t)
  PROVE  IsLines(s \o t)
<1>1. s \in Seq(Range(s) \cup Range(t)) /\ t \in Seq(Range(s) \cup Range(t))
  <2>1. s \in Seq(Range(s)) /\ t \in Seq(Range(t))
    BY AsAList DEF IsLines
  <2> QED
    BY <2>1, SeqMonotonic
<1>2. s \o t \in Seq(Range(s) \cup Range(t))
  BY <1>1, ConcatProperties
<1>3. Range(s \o t) \subseteq Range(s) \cup Range(t)
  BY <1>2, LenProperties, ElementOfSeq DEF Range
<1>4. IsList(s \o t)
  BY <1>2 DEF IsList
<1> QED
  BY <1>3, <1>4 DEF IsLines

LEMMA FlatLines ==
  ASSUME NEW n \in Nat, NEW seqs, seqs = [i \in 1 .. n |-> seqs[i]],
         \A i \in 1 .. n : IsLines(seqs[i])
  PROVE  IsLines(FlattenSeq(seqs))
<1> DEFINE S == UNION {Range(seqs[i]) : i \in 1 .. n}
<1>1. ASSUME NEW i \in 1 .. n PROVE seqs[i] \in Seq(S)
  <2>1. seqs[i] \in Seq(Range(seqs[i]))
    BY AsAList DEF IsLines
  <2>2. Range(seqs[i]) \subseteq S
    OBVIOUS
  <2> HIDE DEF S
  <2> QED
    BY <2>1, <2>2, SeqMonotonic
<1>2. \A line \in S : NamesOK(line)
  BY DEF IsLines
<1> HIDE DEF S
<1>3. FlattenSeq(seqs) \in Seq(S)
  <2>1. seqs \in [1 .. n -> Seq(S)]
    BY <1>1
  <2> QED
    BY <2>1, FlattenStays
<1>4. Range(FlattenSeq(seqs)) \subseteq S
  BY <1>3, LenProperties, ElementOfSeq DEF Range
<1>5. IsList(FlattenSeq(seqs))
  BY <1>3 DEF IsList
<1> QED
  BY <1>2, <1>4, <1>5 DEF IsLines

(* installNewConfig leaves settings, whatever it is given.                 *)
LEMMA InstalledSettings ==
  ASSUME NEW st, IsSettings(st), NEW lines, IsLines(lines), NEW allow
  PROVE  IsSettings(Install(st, lines, allow))
<1>1. PICK V : st \in SettingsIn(V)
  BY DEF IsSettings
<1>2. PICK L : lines \in Seq(L)
  BY DEF IsLines, IsList
<1> DEFINE R == UNION {From(lines[i]) : i \in DOMAIN lines}
           W == V \cup R \cup {NoInterval, NULL}
           acc == Elements(st, lines, allow)
<1>3. st \in SettingsIn(W)
  <2>1. V \subseteq W
    OBVIOUS
  <2> HIDE DEF W
  <2> QED
    BY <1>1, <2>1, Wider
<1>4. /\ NoInterval \in W /\ NULL \in W
      /\ \A i \in DOMAIN lines : From(lines[i]) \subseteq W /\ NamesOK(lines[i])
  <2>1. ASSUME NEW i \in DOMAIN lines, NEW x \in From(lines[i]) PROVE x \in W
    <3> HIDE DEF From
    <3> QED
      BY <2>1
  <2>2. NoInterval \in W /\ NULL \in W
    <3> HIDE DEF R
    <3> QED
      OBVIOUS
  <2>3. \A i \in DOMAIN lines : NamesOK(lines[i])
    BY DEF IsLines, Range
  <2> HIDE DEF W
  <2> QED
    BY <2>1, <2>2, <2>3
<1> HIDE DEF W
<1>5. acc \in InstallingIn(W)
  BY <1>2, <1>3, <1>4, ElementsStay
<1>6. Install(st, lines, allow) =
        [acc.st EXCEPT !.name = IF acc.name = NULL THEN @ ELSE acc.name,
                       !.interval = IF acc.interval = NoInterval THEN @ ELSE acc.interval,
                       !.configured = TRUE]
  BY DEF Install
<1> HIDE DEF acc
<1>7. acc.st \in SettingsIn(W) /\ acc.name \in Texts(W) /\ acc.interval \in W
  BY <1>5 DEF InstallingIn
<1>8. ASSUME NEW name \in Texts(W), NEW interval \in W
      PROVE  [acc.st EXCEPT !.name = name, !.interval = interval, !.configured = TRUE]
               \in SettingsIn(W)
  <2>1. ASSUME NEW B, NEW t \in B, NEW I, NEW N, name \in N,
               acc.st \in [name : N, interval : W, filters : Seq(W), groups : Seq(W),
                           items : I, configured : B]
        PROVE  [acc.st EXCEPT !.name = name, !.interval = interval, !.configured = t]
                 \in [name : N, interval : W, filters : Seq(W), groups : Seq(W),
                      items : I, configured : B]
    BY <2>1
  <2>2. TRUE \in BOOLEAN
    OBVIOUS
  <2> QED
    BY <1>7, <2>1, <2>2, Zenon DEF SettingsIn
<1>9. acc.st.name \in Texts(W) /\ acc.st.interval \in W
  BY <1>7 DEF SettingsIn
<1>10. Install(st, lines, allow) \in SettingsIn(W)
  <2> DEFINE name == IF acc.name = NULL THEN acc.st.name ELSE acc.name
             interval == IF acc.interval = NoInterval THEN acc.st.interval ELSE acc.interval
  <2>1. name \in Texts(W) /\ interval \in W
    BY <1>7, <1>9
  <2>2. Install(st, lines, allow) =
          [acc.st EXCEPT !.name = name, !.interval = interval, !.configured = TRUE]
    BY <1>6
  <2> HIDE DEF name, interval
  <2> QED
    BY <1>8, <2>1, <2>2
<1> QED
  BY <1>10 DEF IsSettings

(* A service that has just been created.                                   *)
LEMMA FreshSettings ==
  ASSUME NEW name, NEW interval, IsList(name)
  PROVE  IsSettings(Unset(name, interval))
<1> DEFINE V == {name, interval}
<1>1. << >> \in Seq(V) /\ << >> \in Seq(Item(V))
  BY EmptySeq
<1>2. FALSE \in BOOLEAN /\ name \in Texts(V) /\ interval \in V
  BY DEF Texts
<1> HIDE DEF V
<1>3. Unset(name, interval) \in SettingsIn(V)
  <2>1. ASSUME NEW B, NEW f \in B
        PROVE  [name |-> name, interval |-> interval, filters |-> << >>, groups |-> << >>,
                items |-> << >>, configured |-> f]
                 \in [name : Texts(V), interval : V, filters : Seq(V), groups : Seq(V),
                      items : Seq(Item(V)), configured : B]
    BY <1>1, <1>2
  <2> QED
    BY <1>2, <2>1, Zenon DEF SettingsIn, Unset
<1> QED
  BY <1>3 DEF IsSettings

(* The same with the items of the program.                                 *)
LEMMA SettingsWithItems ==
  ASSUME NEW st, IsSettings(st), NEW s
  PROVE  IsSettings(WithItems(s, st))
<1>1. CASE s \notin Configurables
  BY <1>1 DEF WithItems
<1>2. CASE s \in Configurables
  <2>1. PICK V : st \in SettingsIn(V)
    BY DEF IsSettings
  <2> DEFINE W == V \cup {it.name : it \in Range(Items)} \cup {it.kind : it \in Range(Items)}
  <2>2. V \subseteq W /\ \A it \in Range(Items) : it.name \in W /\ it.kind \in W
    OBVIOUS
  <2> HIDE DEF W
  <2>3. st \in SettingsIn(W)
    BY <2>1, <2>2, Wider
  <2>4. WithItems(s, st) \in SettingsIn(W)
    BY <1>2, <2>2, <2>3, ItemsAdded
  <2> QED
    BY <2>4 DEF IsSettings
<1> QED
  BY <1>1, <1>2

(* What the program does to its items itself.                              *)
LEMMA SettingsOfProgram ==
  ASSUME NEW st, IsSettings(st), NEW name
  PROVE  /\ IsSettings(SetServiceConfigValueAt(st, name, 1, <<"default">>))
         /\ IsSettings(RemoveServiceConfigurable(st, name))
<1>1. PICK V : st \in SettingsIn(V)
  BY DEF IsSettings
<1>2. PICK W : W = V \cup {<<"default">>}
  OBVIOUS
<1>3. st \in SettingsIn(W) /\ <<"default">> \in W
  BY <1>1, <1>2, Wider
<1> QED
  BY <1>3, SetValue, RemovedItem DEF IsSettings

(* Lists that are written out.                                             *)
LEMMA ShortLists ==
  /\ IsList(<< >>)
  /\ \A a : IsList(<<a>>)
  /\ \A a, b : IsList(<<a, b>>)
  /\ \A a, b, c : IsList(<<a, b, c>>)
  /\ \A a, b, c, d : IsList(<<a, b, c, d>>)
  /\ \A a, b, c, d, e : IsList(<<a, b, c, d, e>>)
<1>1. << >> \in Seq({})
  BY EmptySeq
<1>2. \A a : <<a>> \in Seq({a})
  OBVIOUS
<1>3. \A a, b : <<a, b>> \in Seq({a, b})
  OBVIOUS
<1>4. \A a, b, c : <<a, b, c>> \in Seq({a, b, c})
  OBVIOUS
<1>5. \A a, b, c, d : <<a, b, c, d>> \in Seq({a, b, c, d})
  OBVIOUS
<1>6. \A a, b, c, d, e : <<a, b, c, d, e>> \in Seq({a, b, c, d, e})
  OBVIOUS
<1> QED
  BY <1>1, <1>2, <1>3, <1>4, <1>5, <1>6 DEF IsList

(* What a service has can be told as a list.                               *)
LEMMA ListedIsLines ==
  ASSUME NEW name, NEW values, IsList(values), name # <<"newconf">>
  PROVE  IsLines(Listed(name, values))
<1> DEFINE f == [i \in DOMAIN values |-> Pair(name, values[i])]
<1>1. \A v : NamesOK(Pair(name, v))
  BY DEF NamesOK, Pair
<1>2. /\ Len(values) \in Nat /\ f = [i \in 1 .. Len(values) |-> f[i]]
      /\ \A i \in 1 .. Len(values) : NamesOK(f[i])
  <2>1. DOMAIN values = 1 .. Len(values) /\ Len(values) \in Nat
    BY AsAList
  <2>2. f = [i \in DOMAIN values |-> f[i]] /\ \A i \in DOMAIN values : f[i] = Pair(name, values[i])
    OBVIOUS
  <2> HIDE DEF f
  <2> QED
    BY <1>1, <2>1, <2>2
<1>3. IsLines(f)
  <2> HIDE DEF f
  <2> QED
    BY <1>2, MappedLines
<1>4. IsLines(<<Pair(name, Missing)>>)
  BY <1>1, ShortLines
<1> QED
  BY <1>3, <1>4 DEF Listed

(* The parts of settings are lists.                                        *)
LEMMA SettingsAreLists ==
  ASSUME NEW st, IsSettings(st)
  PROVE  /\ IsList(st.name) /\ IsList(st.filters) /\ IsList(st.groups) /\ IsList(st.items)
         /\ \A i \in DOMAIN st.items :
              /\ IsList(st.items[i].values) /\ st.items[i].name # <<"newconf">>
              /\ <<st.items[i].kind>> \in Definitions
<1>1. PICK V : st \in SettingsIn(V)
  BY DEF IsSettings
<1>2. st.filters \in Seq(V) /\ st.groups \in Seq(V) /\ st.items \in Seq(Item(V))
  BY <1>1 DEF SettingsIn
<1>3. ASSUME NEW i \in DOMAIN st.items
      PROVE  /\ st.items[i].values \in Seq(V) /\ st.items[i].name # <<"newconf">>
             /\ <<st.items[i].kind>> \in Definitions
  <2>1. st.items[i] \in Item(V)
    BY <1>2, LenProperties, ElementOfSeq
  <2> QED
    BY <2>1 DEF Item
<1>4. IsList(st.name)
  <2>1. st.name \in Texts(V)
    BY <1>1 DEF SettingsIn
  <2> HIDE DEF IsList
  <2> QED
    BY <2>1 DEF Texts
<1> QED
  BY <1>2, <1>3, <1>4 DEF IsList

(* xPL_saveServiceConfig: what it writes is a list of lines.               *)
LEMMA SavedIsLines ==
  ASSUME NEW st, IsSettings(st)
  PROVE  IsLines(SavedLines(st))
<1> DEFINE n == Len(st.items)
           definitions == [i \in DOMAIN st.items |-> Definition(st.items[i])]
           values == Values(st)
           texts == FilterTexts(st)
<1>1. n \in Nat /\ DOMAIN st.items = 1 .. n
  BY SettingsAreLists, AsAList
<1>2. IsLines(definitions)
  <2>1. ASSUME NEW i \in 1 .. n PROVE NamesOK(definitions[i])
    <3>1. <<st.items[i].kind>> # <<"newconf">>
      <4>1. <<st.items[i].kind>> \in Definitions
        BY <1>1, SettingsAreLists
      <4> QED
        BY <4>1 DEF Definitions
    <3>2. definitions[i].name = <<st.items[i].kind>>
      BY <1>1 DEF Definition, Pair
    <3> QED
      BY <3>1, <3>2 DEF NamesOK
  <2>2. definitions = [i \in 1 .. n |-> definitions[i]]
    BY <1>1
  <2> HIDE DEF definitions, n
  <2> QED
    BY <1>1, <2>1, <2>2, MappedLines
<1>3. IsLines(FlattenSeq(values))
  <2>1. ASSUME NEW i \in 1 .. n PROVE IsLines(values[i])
    <3> DEFINE own == st.items[i].values
               pairs == [j \in DOMAIN own |-> Pair(st.items[i].name, own[j])]
    <3>1. Len(own) \in Nat /\ DOMAIN own = 1 .. Len(own)
      BY <1>1, SettingsAreLists, AsAList
    <3>2. pairs = [j \in 1 .. Len(own) |-> pairs[j]]
      BY <3>1
    <3>3. values[i] = pairs
      BY <1>1 DEF Values
    <3>4. \A j \in 1 .. Len(own) : NamesOK(pairs[j])
      <4>1. st.items[i].name # <<"newconf">>
        BY <1>1, SettingsAreLists
      <4> QED
        BY <3>1, <4>1 DEF NamesOK, Pair
    <3> HIDE DEF pairs, own, values
    <3> QED
      BY <3>1, <3>2, <3>3, <3>4, MappedLines
  <2>2. values = [i \in 1 .. n |-> values[i]]
    BY <1>1 DEF Values
  <2> HIDE DEF values, n
  <2> QED
    BY <1>1, <2>1, <2>2, FlatLines
<1>4. IsList(texts)
  <2>1. Len(st.filters) \in Nat /\ DOMAIN st.filters = 1 .. Len(st.filters)
    BY SettingsAreLists, AsAList
  <2>2. texts = [i \in 1 .. Len(st.filters) |-> texts[i]]
    BY <2>1 DEF FilterTexts
  <2> HIDE DEF texts
  <2> QED
    BY <2>1, <2>2, MappedList
<1>5. /\ IsLines(Listed(<<"filter">>, texts)) /\ IsLines(Listed(<<"group">>, st.groups))
      /\ IsLines(Settled(st)) /\ IsLines(BuiltinDefinitions)
  <2>1. \A name, value : NamesOK(Pair(name, value)) <=> (name = <<"newconf">> => IsList(value))
    <3> HIDE DEF IsList
    <3> QED
      BY DEF NamesOK, Pair
  <2>2. IsLines(Settled(st))
    <3>1. IsList(st.name) /\ <<"interval">> # <<"newconf">>
      BY SettingsAreLists
    <3>2. NamesOK(Pair(<<"newconf">>, st.name))
      BY <2>1, <3>1, Zenon
    <3>3. NamesOK(Pair(<<"interval">>, NumberText(st.interval \div 60)))
      BY <2>1, <3>1, Zenon
    <3> QED
      BY <3>2, <3>3, ShortLines, Zenon DEF Settled
  <2>3. IsLines(BuiltinDefinitions)
    <3>1. <<"reconf">> # <<"newconf">> /\ <<"option">> # <<"newconf">>
      OBVIOUS
    <3>2. \A value : NamesOK(Pair(<<"reconf">>, value)) /\ NamesOK(Pair(<<"option">>, value))
      BY <2>1, <3>1, Zenon
    <3> QED
      BY <3>2, ShortLines, Zenon DEF BuiltinDefinitions
  <2>4. <<"filter">> # <<"newconf">> /\ <<"group">> # <<"newconf">>
    OBVIOUS
  <2> HIDE DEF texts
  <2> QED
    BY <1>4, <2>2, <2>3, <2>4, ListedIsLines, SettingsAreLists
<1>6. SavedLines(st) =
        BuiltinDefinitions \o definitions \o Settled(st) \o Listed(<<"filter">>, texts)
          \o Listed(<<"group">>, st.groups) \o FlattenSeq(values)
  BY DEF SavedLines
<1> HIDE DEF definitions, texts, values
<1> QED
  BY <1>2, <1>3, <1>5, <1>6, JoinedLines

(* A heartbeat is written as a text.                                       *)
LEMMA BlockIsList ==
  ASSUME NEW header, IsList(header), NEW n \in Nat, NEW list,
         \A i \in 1 .. n : IsList(list[i].name) /\ IsList(list[i].value), DOMAIN list = 1 .. n
  PROVE  IsList(Block(header, list))
<1> DEFINE lines == [i \in DOMAIN list |-> Line(list[i].name, list[i].value)]
<1>1. ASSUME NEW i \in 1 .. n PROVE IsList(lines[i])
  <2>1. lines[i] = list[i].name \o <<"=">> \o list[i].value \o <<"LF">>
    BY DEF Line
  <2> HIDE DEF lines
  <2> QED
    BY <2>1, ShortLists, JoinedLists
<1>2. lines = [i \in 1 .. n |-> lines[i]]
  OBVIOUS
<1>3. IsList(FlattenSeq(lines))
  <2> HIDE DEF lines
  <2> QED
    BY <1>1, <1>2, FlatList
<1>4. Block(header, list) = header \o <<"LF", "{", "LF">> \o FlattenSeq(lines) \o <<"}", "LF">>
  BY DEF Block
<1> HIDE DEF lines
<1> QED
  BY <1>3, <1>4, ShortLists, JoinedLists

(* So is the text of a heartbeat.                                          *)
LEMMA HeartbeatIsList ==
  ASSUME NEW s \in Service, IsList(svc[s].settings.name)
  PROVE  IsList(Text(Heartbeat(s)))
<1> DEFINE m == Heartbeat(s)
           k == CHOOSE w \in DOMAIN Kinds : Kinds[w] = m.type
           head == <<Pair(<<"hop">>, <<"1">>), Pair(<<"source">>, NameText(m.source)),
                     Pair(<<"target">>, AddressText(m))>>
<1>1. /\ m.broadcast = TRUE /\ m.class = <<"hbeat">> /\ m.schema = <<"app">> /\ m.body = << >>
      /\ m.source = NameOf(s)
  BY DEF Heartbeat, SetSchema, SetBroadcastMessage, Sendable, Blank
<1>2. Text(m) = Block(<<k>>, head) \o Block(m.class \o <<".">> \o m.schema, m.body)
  BY DEF Text
<1> HIDE DEF m, k
<1>3. IsList(AddressText(m)) /\ IsList(NameText(m.source))
  <2>1. AddressText(m) = <<"*">>
    BY <1>1 DEF AddressText
  <2>2. IsList(Vendor) /\ IsList(Device[s]) /\ IsList(svc[s].settings.name)
    BY NameConstants DEF IsList
  <2>3. NameText(NameOf(s)) =
          Vendor \o <<"-">> \o Device[s] \o <<".">> \o svc[s].settings.name
    BY DEF NameText, NameOf
  <2>4. IsList(NameText(NameOf(s)))
    BY <2>2, <2>3, ShortLists, JoinedLists
  <2> QED
    BY <1>1, <2>1, <2>4, ShortLists
<1>4. /\ DOMAIN head = 1 .. 3
      /\ \A i \in 1 .. 3 : IsList(head[i].name) /\ IsList(head[i].value)
  <2>1. DOMAIN head = 1 .. 3 /\ head[1] = Pair(<<"hop">>, <<"1">>)
        /\ head[2] = Pair(<<"source">>, NameText(m.source))
        /\ head[3] = Pair(<<"target">>, AddressText(m))
    OBVIOUS
  <2>2. \A a, b : Pair(a, b).name = a /\ Pair(a, b).value = b
    BY DEF Pair
  <2>3. \A i \in 1 .. 3 : i = 1 \/ i = 2 \/ i = 3
    OBVIOUS
  <2> HIDE DEF head
  <2> QED
    BY <1>3, <2>1, <2>2, <2>3, ShortLists
<1> HIDE DEF head
<1>5. IsList(Block(<<k>>, head))
  BY <1>4, ShortLists, BlockIsList
<1>6. IsList(Block(m.class \o <<".">> \o m.schema, m.body))
  <2>1. IsList(m.class \o <<".">> \o m.schema)
    BY <1>1, ShortLists, JoinedLists
  <2>2. DOMAIN m.body = 1 .. 0
    BY <1>1
  <2>3. \A i \in 1 .. 0 : FALSE
    OBVIOUS
  <2> QED
    BY <2>1, <2>2, <2>3, BlockIsList
<1>7. IsList(Text(m))
  BY <1>2, <1>5, <1>6, JoinedLists
<1> QED
  BY <1>7 DEF m

-----------------------------------------------------------------------------
(* Where parseBlock is, and what it has read, all in V.                    *)
Ends == {"header", "open", "opened", "name", "value", "close", "done", "error"}

PairsIn(V) == [name : Seq(V), value : Seq(V), binary : BOOLEAN]

ScansIn(V) ==
  [at : Ends, header : Seq(V), name : Seq(V), value : Seq(V), binary : BOOLEAN,
   pairs : Seq(PairsIn(V)), used : Nat]

(* What a token may change of the state of parseBlock.                     *)
LEMMA ScanFields ==
  ASSUME NEW V, NEW p \in ScansIn(V), NEW at \in Ends, NEW c \in V, NEW t \in BOOLEAN,
         NEW k \in Nat
  PROVE  /\ p.at \in Ends /\ p.used \in Nat
         /\ [p EXCEPT !.used = k] \in ScansIn(V)
         /\ [p EXCEPT !.at = at] \in ScansIn(V)
         /\ [p EXCEPT !.at = at, !.binary = t] \in ScansIn(V)
         /\ [p EXCEPT !.header = Append(@, c)] \in ScansIn(V)
         /\ [p EXCEPT !.name = Append(@, c)] \in ScansIn(V)
         /\ [p EXCEPT !.value = Append(@, c)] \in ScansIn(V)
         /\ [p EXCEPT !.at = at, !.name = << >>, !.value = << >>,
                      !.pairs = Append(@, [name |-> p.name, value |-> p.value,
                                           binary |-> p.binary])] \in ScansIn(V)
<1>1. ASSUME NEW B, NEW s \in B, NEW Q, Q = [name : Seq(V), value : Seq(V), binary : B],
             p \in [at : Ends, header : Seq(V), name : Seq(V), value : Seq(V), binary : B,
                    pairs : Seq(Q), used : Nat]
      PROVE  LET R == [at : Ends, header : Seq(V), name : Seq(V), value : Seq(V), binary : B,
                       pairs : Seq(Q), used : Nat] IN
             /\ p.at \in Ends /\ p.used \in Nat
             /\ [p EXCEPT !.used = k] \in R
             /\ [p EXCEPT !.at = at] \in R
             /\ [p EXCEPT !.at = at, !.binary = s] \in R
             /\ [p EXCEPT !.header = Append(@, c)] \in R
             /\ [p EXCEPT !.name = Append(@, c)] \in R
             /\ [p EXCEPT !.value = Append(@, c)] \in R
             /\ [p EXCEPT !.at = at, !.name = << >>, !.value = << >>,
                          !.pairs = Append(@, [name |-> p.name, value |-> p.value,
                                               binary |-> p.binary])] \in R
  <2>1. /\ p.header \in Seq(V) /\ p.name \in Seq(V) /\ p.value \in Seq(V) /\ p.pairs \in Seq(Q)
        /\ p.binary \in B
    BY <1>1
  <2>2. [name |-> p.name, value |-> p.value, binary |-> p.binary] \in Q
    BY <1>1, <2>1
  <2>3. PICK pair : pair = [name |-> p.name, value |-> p.value, binary |-> p.binary]
    OBVIOUS
  <2>4. /\ Append(p.header, c) \in Seq(V) /\ Append(p.name, c) \in Seq(V)
        /\ Append(p.value, c) \in Seq(V) /\ Append(p.pairs, pair) \in Seq(Q)
        /\ << >> \in Seq(V)
    BY <2>1, <2>2, <2>3, AppendProperties, EmptySeq
  <2> HIDE DEF Ends
  <2>5. [p EXCEPT !.at = at, !.name = << >>, !.value = << >>,
                  !.pairs = Append(p.pairs, pair)]
          \in [at : Ends, header : Seq(V), name : Seq(V), value : Seq(V), binary : B,
               pairs : Seq(Q), used : Nat]
    BY <1>1, <2>4
  <2>6. /\ [p EXCEPT !.header = Append(@, c)] = [p EXCEPT !.header = Append(p.header, c)]
        /\ [p EXCEPT !.name = Append(@, c)] = [p EXCEPT !.name = Append(p.name, c)]
        /\ [p EXCEPT !.value = Append(@, c)] = [p EXCEPT !.value = Append(p.value, c)]
    OBVIOUS
  <2>7. p.at \in Ends /\ p.used \in Nat
    BY <1>1
  <2> QED
    BY <1>1, <2>3, <2>4, <2>5, <2>6, <2>7
<1> QED
  BY <1>1, Zenon DEF ScansIn, PairsIn

(* parseBlock: one token.                                                  *)
LEMMA ScanStays ==
  ASSUME NEW V, "|" \in V, NEW p \in ScansIn(V), NEW c \in V
  PROVE  Scan(p, c) \in ScansIn(V)
<1>0. ASSUME NEW q \in ScansIn(V), NEW at \in Ends, NEW d \in V, NEW t \in BOOLEAN, NEW k \in Nat
      PROVE  /\ q.at \in Ends /\ q.used \in Nat
             /\ [q EXCEPT !.used = k] \in ScansIn(V)
             /\ [q EXCEPT !.at = at] \in ScansIn(V)
             /\ [q EXCEPT !.at = at, !.binary = t] \in ScansIn(V)
             /\ [q EXCEPT !.header = Append(@, d)] \in ScansIn(V)
             /\ [q EXCEPT !.name = Append(@, d)] \in ScansIn(V)
             /\ [q EXCEPT !.value = Append(@, d)] \in ScansIn(V)
             /\ [q EXCEPT !.at = at, !.name = << >>, !.value = << >>,
                          !.pairs = Append(@, [name |-> q.name, value |-> q.value,
                                               binary |-> q.binary])] \in ScansIn(V)
  BY ScanFields
<1>1. Accepted(c) \in V /\ p.at \in Ends /\ p.used \in Nat
  <2>1. "header" \in Ends /\ TRUE \in BOOLEAN /\ 0 \in Nat
    BY DEF Ends
  <2> QED
    BY <1>0, <2>1 DEF Accepted
<1>2. /\ \A at \in Ends : [p EXCEPT !.at = at] \in ScansIn(V)
      /\ \A at \in Ends : \A t \in BOOLEAN : [p EXCEPT !.at = at, !.binary = t] \in ScansIn(V)
      /\ \A d \in V : /\ [p EXCEPT !.header = Append(@, d)] \in ScansIn(V)
                      /\ [p EXCEPT !.name = Append(@, d)] \in ScansIn(V)
                      /\ [p EXCEPT !.value = Append(@, d)] \in ScansIn(V)
      /\ \A at \in Ends :
           [p EXCEPT !.at = at, !.name = << >>, !.value = << >>,
                     !.pairs = Append(@, [name |-> p.name, value |-> p.value,
                                          binary |-> p.binary])] \in ScansIn(V)
  <2>1. "header" \in Ends /\ TRUE \in BOOLEAN /\ 0 \in Nat
    BY DEF Ends
  <2> QED
    BY <1>0, <2>1, Zenon
<1>3. ScanToken(p, c) \in ScansIn(V) \/ p.at \in {"done", "error"}
  <2>1. ASSUME NEW wanted, NEW next \in Ends PROVE Expect(p, c, wanted, next) \in ScansIn(V)
    <3>1. "error" \in Ends
      BY DEF Ends
    <3> QED
      BY <1>2, <3>1 DEF Expect
  <2>2. EndOfValue(p) \in ScansIn(V)
    <3>1. "error" \in Ends /\ "name" \in Ends
      BY DEF Ends
    <3>2. \/ EndOfValue(p) = [p EXCEPT !.at = "error"]
          \/ EndOfValue(p) =
               [p EXCEPT !.at = "name", !.name = << >>, !.value = << >>,
                         !.pairs = Append(@, [name |-> p.name, value |-> p.value,
                                              binary |-> p.binary])]
      BY Zenon DEF EndOfValue
    <3> QED
      BY <1>2, <3>1, <3>2, Zenon
  <2> HIDE DEF Expect, EndOfValue, Accepted
  <2>3. CASE p.at = "header"
    <3>1. "open" \in Ends
      BY DEF Ends
    <3>2. \/ ScanToken(p, c) = [p EXCEPT !.at = "open"]
          \/ ScanToken(p, c) = p
          \/ ScanToken(p, c) = [p EXCEPT !.header = Append(@, Accepted(c))]
      BY <2>3 DEF ScanToken
    <3> QED
      BY <1>1, <1>2, <3>1, <3>2, Zenon
  <2>4. CASE p.at = "open"
    <3>1. ScanToken(p, c) = Expect(p, c, "{", "opened")
      BY <2>4 DEF ScanToken
    <3> QED
      BY <2>1, <3>1 DEF Ends
  <2>5. CASE p.at = "opened"
    <3>1. ScanToken(p, c) = Expect(p, c, "LF", "name")
      BY <2>5 DEF ScanToken
    <3> QED
      BY <2>1, <3>1 DEF Ends
  <2>6. CASE p.at = "name"
    <3>1. "value" \in Ends /\ "close" \in Ends /\ (c = "!") \in BOOLEAN
      BY DEF Ends
    <3>2. CASE c \in {"=", "!"}
      <4>1. ScanToken(p, c) = [p EXCEPT !.at = "value", !.binary = (c = "!")]
        BY <2>6, <3>2 DEF ScanToken
      <4> QED
        BY <1>2, <3>1, <4>1, Zenon
    <3>3. CASE c = "}"
      <4>1. ScanToken(p, c) = [p EXCEPT !.at = "close"]
        BY <2>6, <3>3 DEF ScanToken
      <4> QED
        BY <1>2, <3>1, <4>1, Zenon
    <3>4. CASE c \notin {"=", "!", "}"}
      <4>1. ScanToken(p, c) = [p EXCEPT !.name = Append(@, Accepted(c))]
        BY <2>6, <3>4 DEF ScanToken
      <4> QED
        BY <1>1, <1>2, <4>1, Zenon
    <3> QED
      BY <3>2, <3>3, <3>4
  <2>7. CASE p.at = "value"
    <3>1. \/ ScanToken(p, c) = EndOfValue(p)
          \/ ScanToken(p, c) = [p EXCEPT !.value = Append(@, Accepted(c))]
      BY <2>7 DEF ScanToken
    <3> QED
      BY <1>1, <1>2, <2>2, <3>1, Zenon
  <2>8. CASE p.at = "close"
    <3>1. ScanToken(p, c) = Expect(p, c, "LF", "done")
      BY <2>8 DEF ScanToken
    <3> QED
      BY <2>1, <3>1 DEF Ends
  <2> QED
    BY <1>1, <2>3, <2>4, <2>5, <2>6, <2>7, <2>8 DEF Ends
<1>4. CASE p.at \in {"done", "error"}
  BY <1>4 DEF Scan
<1>5. CASE p.at \notin {"done", "error"}
  <2>1. Scan(p, c) = [ScanToken(p, c) EXCEPT !.used = p.used + 1]
    BY <1>5 DEF Scan
  <2>2. p.used + 1 \in Nat
    BY <1>1
  <2>3. "header" \in Ends /\ TRUE \in BOOLEAN
    BY DEF Ends
  <2> HIDE DEF ScanToken
  <2> QED
    BY <1>0, <1>3, <1>5, <2>1, <2>2, <2>3, Zenon
<1> QED
  BY <1>4, <1>5

(* All of them, which is a fold.                                           *)
LEMMA ParsedStays ==
  ASSUME NEW V, "|" \in V, NEW text \in Seq(V)
  PROVE  ParseBlock(text) \in ScansIn(V)
<1> DEFINE n == Len(text)
           T == ScansIn(V)
           base == Scanning
           Op(acc, e) == Scan(acc, e)
           step == [p \in T \X (1 .. n) |-> Op(p[1], text[p[2]])]
           Fold(g) == [u \in SUBSET DOMAIN text |->
                         IF u = {} THEN base ELSE Op(g[u \ {Max(u)}], text[Max(u)])]
           F == CHOOSE g : g = Fold(g)
<1>1. n \in Nat /\ DOMAIN text = 1 .. n
  BY LenProperties
<1>2. ParseBlock(text) = F[1 .. n]
  BY <1>1 DEF ParseBlock, FoldLeft, MapThenFoldSet
<1>3. base \in T
  <2>1. << >> \in Seq(V) /\ << >> \in Seq(PairsIn(V))
    BY EmptySeq
  <2>2. ASSUME NEW B, NEW f \in B, NEW Q, << >> \in Seq(Q)
        PROVE  [at |-> "header", header |-> << >>, name |-> << >>, value |-> << >>,
                binary |-> f, pairs |-> << >>, used |-> 0]
                 \in [at : Ends, header : Seq(V), name : Seq(V), value : Seq(V), binary : B,
                      pairs : Seq(Q), used : Nat]
    BY <2>1, <2>2 DEF Ends
  <2>3. FALSE \in BOOLEAN
    OBVIOUS
  <2> QED
    BY <2>1, <2>2, <2>3, Zenon DEF ScansIn, Scanning
<1>4. ASSUME NEW acc \in T, NEW i \in 1 .. n PROVE Op(acc, text[i]) \in T
  <2>1. text[i] \in V
    BY ElementOfSeq
  <2> QED
    BY <1>4, <2>1, ScanStays
<1> HIDE DEF Op, base, T, n
<1>5. step \in [T \X (1 .. n) -> T]
  BY <1>4
<1>6. \A acc \in T, i \in 1 .. n : step[<<acc, i>>] = Op(acc, text[i])
  OBVIOUS
<1> HIDE DEF step
<1>7. F = Fold(F)
  <2>1. PICK g : FoldedWith(g, T, base, step, n)
    BY <1>1, <1>3, <1>5, FoldOnPlaces
  <2>2. ASSUME NEW u \in SUBSET DOMAIN text
        PROVE  g[u] = IF u = {} THEN base ELSE Op(g[u \ {Max(u)}], text[Max(u)])
    <3>1. CASE u = {}
      BY <2>1, <3>1 DEF FoldedWith
    <3>2. CASE u # {}
      <4>1. /\ Max(u) \in 1 .. n /\ g[u \ {Max(u)}] \in T
            /\ g[u] = step[<<g[u \ {Max(u)}], Max(u)>>]
        BY <1>1, <2>1, <3>2 DEF FoldedWith
      <4> QED
        BY <1>6, <3>2, <4>1
    <3> QED
      BY <3>1, <3>2
  <2>3. g \in [SUBSET DOMAIN text -> T]
    BY <1>1, <2>1 DEF FoldedWith
  <2>4. g = Fold(g)
    BY <2>2, <2>3
  <2> HIDE DEF Fold
  <2> QED
    BY <2>4
<1> HIDE DEF F
<1>8. F[{}] = base
  BY <1>7
<1>9. ASSUME NEW u \in SUBSET (1 .. n), u # {}, F[u \ {Max(u)}] \in T
      PROVE  F[u] = step[<<F[u \ {Max(u)}], Max(u)>>]
  <2>1. Max(u) \in 1 .. n
    BY <1>1, <1>9, LastPlace
  <2>2. F[u] = Op(F[u \ {Max(u)}], text[Max(u)])
    BY <1>1, <1>7, <1>9
  <2> QED
    BY <1>6, <1>9, <2>1, <2>2
<1>10. F[1 .. n] \in T
  BY <1>1, <1>3, <1>5, <1>8, <1>9, FoldStays
<1> QED
  BY <1>2, <1>10 DEF T

(* What parseBlock reads of a text is a list.                              *)
LEMMA ParsedIsList ==
  ASSUME NEW text, IsList(text)
  PROVE  LET p == ParseBlock(text) IN
         IsLines(p.pairs) /\ IsList(p.header) /\ IsList(Rest(text, p.used))
<1>1. PICK V : text \in Seq(V)
  BY DEF IsList
<1>2. PICK W : V \subseteq W /\ "|" \in W
  <2>1. V \subseteq V \cup {"|"} /\ "|" \in V \cup {"|"}
    OBVIOUS
  <2> QED
    BY <2>1
<1>3. text \in Seq(W)
  BY <1>1, <1>2, SeqMonotonic
<1>4. ParseBlock(text) \in ScansIn(W)
  BY <1>2, <1>3, ParsedStays
<1> DEFINE p == ParseBlock(text)
<1> HIDE DEF p
<1>5. p \in ScansIn(W)
  BY <1>4 DEF p
<1>6. p.header \in Seq(W) /\ p.pairs \in Seq(PairsIn(W)) /\ p.used \in Nat
  <2>1. ASSUME NEW B, NEW Q,
               p \in [at : Ends, header : Seq(W), name : Seq(W), value : Seq(W), binary : B,
                      pairs : Seq(Q), used : Nat]
        PROVE  p.header \in Seq(W) /\ p.pairs \in Seq(Q) /\ p.used \in Nat
    BY <2>1
  <2> QED
    BY <1>5, <2>1, Zenon DEF ScansIn
<1>7. Rest(text, p.used) \in Seq(W)
  <2>1. Len(text) \in Nat /\ p.used + 1 \in Nat /\ p.used + 1 >= 1
    BY <1>3, <1>6, LenProperties
  <2>2. \A i \in p.used + 1 .. Len(text) : text[i] \in W
    <3>1. \A i \in p.used + 1 .. Len(text) : i \in 1 .. Len(text)
      BY <1>6, <2>1
    <3> QED
      BY <1>3, <3>1, ElementOfSeq
  <2>3. SubSeq(text, p.used + 1, Len(text)) \in Seq(W)
    BY <1>3, <1>6, <2>1, <2>2, SubSeqProperties
  <2> QED
    BY <2>3 DEF Rest
<1>8. IsLines(p.pairs)
  <2>1. ASSUME NEW line \in Range(p.pairs) PROVE NamesOK(line)
    <3>1. line \in PairsIn(W)
      BY <1>6, LenProperties, ElementOfSeq DEF Range
    <3>2. line.value \in Seq(W)
      BY <3>1, Zenon DEF PairsIn
    <3> QED
      BY <3>2 DEF NamesOK, IsList
  <2>2. IsList(p.pairs)
    BY <1>6 DEF IsList
  <2> QED
    BY <2>1, <2>2 DEF IsLines
<1> QED
  BY <1>6, <1>7, <1>8 DEF IsList, p

-----------------------------------------------------------------------------
(* A message all of whose fields are in A.                                 *)
NameParts == {"vendor", "device", "instance"}

MessagesIn(A) ==
  [type : A, hop : A, received : A, source : A, broadcast : A, isGroup : A, group : A,
   target : [NameParts -> A], class : A, schema : A, body : A]

(* xPL_setTargetVendor and its like.                                       *)
LEMMA PartSet ==
  ASSUME NEW A, NEW m \in MessagesIn(A), NEW part \in NameParts, NEW word \in A,
         FALSE \in A, NULL \in A
  PROVE  SetTargetPart(m, part, word) \in MessagesIn(A)
<1>1. ASSUME NEW f \in A, NEW g \in A
      PROVE  [m EXCEPT !.target = [m.target EXCEPT ![part] = word], !.group = g,
                       !.isGroup = f] \in MessagesIn(A)
  <2>1. m.target \in [NameParts -> A]
    BY DEF MessagesIn
  <2>2. [m.target EXCEPT ![part] = word] \in [NameParts -> A]
    BY <2>1
  <2> HIDE DEF NameParts
  <2> QED
    BY <2>2 DEF MessagesIn
<1>2. m.group \in A
  BY DEF MessagesIn
<1>3. CASE m.target[part] = word
  BY <1>3 DEF SetTargetPart
<1>4. CASE m.target[part] # word /\ m.isGroup
  <2>1. SetTargetPart(m, part, word) =
          [m EXCEPT !.target = [m.target EXCEPT ![part] = word], !.group = NULL,
                    !.isGroup = FALSE]
    BY <1>4 DEF SetTargetPart
  <2> QED
    BY <1>1, <2>1, Zenon
<1>5. CASE m.target[part] # word /\ ~m.isGroup
  <2>1. SetTargetPart(m, part, word) =
          [m EXCEPT !.target = [m.target EXCEPT ![part] = word], !.group = m.group,
                    !.isGroup = FALSE]
    BY <1>5 DEF SetTargetPart
  <2> QED
    BY <1>1, <1>2, <2>1, Zenon
<1> QED
  BY <1>3, <1>4, <1>5

(* xPL_setTarget, a fold over the parts of the name.                       *)
LEMMA TargetSet ==
  ASSUME NEW A, NEW m \in MessagesIn(A), NEW name, \A part \in NameParts : name[part] \in A,
         FALSE \in A, NULL \in A
  PROVE  SetTarget(m, name) \in MessagesIn(A)
<1> DEFINE n == Len(Parts)
           T == MessagesIn(A)
           base == m
           Op(acc, e) == SetTargetPart(acc, e, name[e])
           step == [p \in T \X (1 .. n) |-> Op(p[1], Parts[p[2]])]
           Fold(g) == [u \in SUBSET DOMAIN Parts |->
                         IF u = {} THEN base ELSE Op(g[u \ {Max(u)}], Parts[Max(u)])]
           F == CHOOSE g : g = Fold(g)
<1>1. n \in Nat /\ DOMAIN Parts = 1 .. n
  BY LenProperties DEF Parts
<1>2. SetTarget(m, name) = F[1 .. n]
  BY <1>1 DEF SetTarget, FoldLeft, MapThenFoldSet
<1>3. base \in T
  OBVIOUS
<1>4. ASSUME NEW acc \in T, NEW i \in 1 .. n PROVE Op(acc, Parts[i]) \in T
  <2>1. Parts[i] \in NameParts
    <3>1. Parts[1] = "vendor" /\ Parts[2] = "device" /\ Parts[3] = "instance" /\ n = 3
      BY DEF Parts
    <3>2. i = 1 \/ i = 2 \/ i = 3
      BY <3>1
    <3> QED
      BY <3>1, <3>2 DEF NameParts
  <2> QED
    BY <1>4, <2>1, PartSet
<1> HIDE DEF Op, base, T, n
<1>5. step \in [T \X (1 .. n) -> T]
  BY <1>4
<1>6. \A acc \in T, i \in 1 .. n : step[<<acc, i>>] = Op(acc, Parts[i])
  OBVIOUS
<1> HIDE DEF step
<1>7. F = Fold(F)
  <2>1. PICK g : FoldedWith(g, T, base, step, n)
    BY <1>1, <1>3, <1>5, FoldOnPlaces
  <2>2. ASSUME NEW u \in SUBSET DOMAIN Parts
        PROVE  g[u] = IF u = {} THEN base ELSE Op(g[u \ {Max(u)}], Parts[Max(u)])
    <3>1. CASE u = {}
      BY <2>1, <3>1 DEF FoldedWith
    <3>2. CASE u # {}
      <4>1. /\ Max(u) \in 1 .. n /\ g[u \ {Max(u)}] \in T
            /\ g[u] = step[<<g[u \ {Max(u)}], Max(u)>>]
        BY <1>1, <2>1, <3>2 DEF FoldedWith
      <4> QED
        BY <1>6, <3>2, <4>1
    <3> QED
      BY <3>1, <3>2
  <2>3. g \in [SUBSET DOMAIN Parts -> T]
    BY <1>1, <2>1 DEF FoldedWith
  <2>4. g = Fold(g)
    BY <2>2, <2>3
  <2> HIDE DEF Fold
  <2> QED
    BY <2>4
<1> HIDE DEF F
<1>8. F[{}] = base
  BY <1>7
<1>9. ASSUME NEW u \in SUBSET (1 .. n), u # {}, F[u \ {Max(u)}] \in T
      PROVE  F[u] = step[<<F[u \ {Max(u)}], Max(u)>>]
  <2>1. Max(u) \in 1 .. n
    BY <1>1, <1>9, LastPlace
  <2>2. F[u] = Op(F[u \ {Max(u)}], Parts[Max(u)])
    BY <1>1, <1>7, <1>9
  <2> QED
    BY <1>6, <1>9, <2>1, <2>2
<1>10. F[1 .. n] \in T
  BY <1>1, <1>3, <1>5, <1>8, <1>9, FoldStays
<1> QED
  BY <1>2, <1>10 DEF T

(* parseMessage puts the pairs of the second block into the message, or    *)
(* those of the first or none if there is no other.                        *)
LEMMA ParsedBody ==
  ASSUME NEW text
  PROVE  LET head == ParseBlock(text) IN
         Parse(Blank, text).body \in
           {head.pairs, << >>, ParseBlock(Rest(text, head.used)).pairs}
<1> DEFINE head == ParseBlock(text)
           body == ParseBlock(Rest(text, head.used))
           dot  == IndexOfMark(body.header, ".")
           t == Kinds[head.header[1]]
           h == Numeral[NamedValue(head.pairs, <<"hop">>)[1]]
           source == AsName(SplitName(NamedValue(head.pairs, <<"source">>)))
           to == NamedValue(head.pairs, <<"target">>)
           parts == SplitName(to)
           group == ReadGroup(parts[3])
           name == AsName(parts)
           fields == {t, h, source, << >>, NULL, group} \cup {name[part] : part \in NameParts}
                       \cup BOOLEAN
           m == SetSource([Received(Blank) EXCEPT !.type = t, !.hop = h], source)
           headed == Headed(Received(Blank), t, head.pairs)
<1>1. \/ Parse(Blank, text) = [headed EXCEPT !.body = head.pairs]
      \/ Parse(Blank, text) = [headed EXCEPT !.body = << >>]
      \/ Parse(Blank, text) =
           SetSchema([headed EXCEPT !.body = body.pairs],
                     SubSeq(body.header, 1, dot - 1), Rest(body.header, dot))
  BY DEF Parse
<1>2. headed = Addressed(m, to)
  BY DEF Headed
<1>3. PICK A : /\ t \in A /\ h \in A /\ source \in A /\ << >> \in A /\ NULL \in A /\ group \in A
               /\ \A part \in NameParts : name[part] \in A
               /\ TRUE \in A /\ FALSE \in A
  <2> HIDE DEF t, h, source, group, name
  <2>1. /\ t \in fields /\ h \in fields /\ source \in fields /\ << >> \in fields
        /\ NULL \in fields /\ group \in fields
    BY Zenon
  <2>2. \A part \in NameParts : name[part] \in fields
    BY Zenon
  <2>3. TRUE \in fields /\ FALSE \in fields
    BY Zenon
  <2> HIDE DEF fields
  <2> QED
    BY <2>1, <2>2, <2>3, Zenon
<1> HIDE DEF t, h, source, group, name, parts
<1>4. m \in MessagesIn(A)
  <2>1. m = [type |-> t, hop |-> h, received |-> TRUE, source |-> source, broadcast |-> FALSE,
             isGroup |-> FALSE, group |-> NULL, target |-> NoName, class |-> NULL,
             schema |-> NULL, body |-> << >>]
    BY DEF SetSource, Received, Blank
  <2>2. NoName \in [NameParts -> A]
    BY <1>3 DEF NoName, NameParts
  <2>3. ASSUME NEW yes \in A, NEW no \in A, NEW none \in A, NEW nobody \in A
        PROVE  [type |-> t, hop |-> h, received |-> yes, source |-> source, broadcast |-> no,
                isGroup |-> no, group |-> none, target |-> NoName, class |-> none,
                schema |-> none, body |-> nobody] \in MessagesIn(A)
    <3> HIDE DEF NameParts, NoName
    <3> QED
      BY <1>3, <2>2, <2>3 DEF MessagesIn
  <2>4. [type |-> t, hop |-> h, received |-> TRUE, source |-> source, broadcast |-> FALSE,
         isGroup |-> FALSE, group |-> NULL, target |-> NoName, class |-> NULL,
         schema |-> NULL, body |-> << >>] \in MessagesIn(A)
    <3> HIDE DEF m, headed
    <3> QED
      BY <1>3, <2>3
  <2> HIDE DEF m, headed
  <2> QED
    BY <2>1, <2>4, Zenon
<1> HIDE DEF m, headed
<1>5. Addressed(m, to) \in MessagesIn(A)
  <2>1. SetBroadcastMessage(m, TRUE) \in MessagesIn(A)
    <3>1. ASSUME NEW yes \in A PROVE [m EXCEPT !.broadcast = yes] \in MessagesIn(A)
      <4> HIDE DEF NameParts
      <4> QED
        BY <1>4, <3>1 DEF MessagesIn
    <3> QED
      BY <1>3, <3>1, Zenon DEF SetBroadcastMessage
  <2>2. SetTargetGroup(m, group) \in MessagesIn(A)
    <3>1. NoName \in [NameParts -> A]
      BY <1>3 DEF NoName, NameParts
    <3>2. ASSUME NEW yes \in A, NEW g \in A
          PROVE  /\ [m EXCEPT !.group = g, !.isGroup = yes] \in MessagesIn(A)
                 /\ [m EXCEPT !.target = NoName, !.isGroup = yes, !.group = g] \in MessagesIn(A)
      <4> HIDE DEF NameParts, NoName
      <4> QED
        BY <1>4, <3>1, <3>2 DEF MessagesIn
    <3>3. \/ SetTargetGroup(m, group) = [m EXCEPT !.group = NULL, !.isGroup = FALSE]
          \/ SetTargetGroup(m, group) = m
          \/ SetTargetGroup(m, group) =
               [m EXCEPT !.target = NoName, !.isGroup = TRUE, !.group = group]
      <4>1. CASE group = NULL
        BY <4>1 DEF SetTargetGroup
      <4>2. CASE group # NULL /\ m.group = group
        BY <4>2 DEF SetTargetGroup
      <4>3. CASE group # NULL /\ m.group # group
        BY <4>3 DEF SetTargetGroup
      <4> QED
        BY <4>1, <4>2, <4>3
    <3> QED
      BY <1>3, <1>4, <3>2, <3>3, Zenon
  <2>3. SetTarget(m, name) \in MessagesIn(A)
    BY <1>3, <1>4, TargetSet
  <2>4. \/ Addressed(m, to) = SetBroadcastMessage(m, TRUE)
        \/ Addressed(m, to) = SetTargetGroup(m, group)
        \/ Addressed(m, to) = SetTarget(m, name)
    <3>1. CASE to = <<"*">>
      BY <3>1 DEF Addressed
    <3>2. CASE to # <<"*">> /\ parts[1] = <<"xpl">> /\ parts[2] = <<"group">>
      BY <3>2 DEF Addressed, group, parts
    <3>3. CASE to # <<"*">> /\ ~(parts[1] = <<"xpl">> /\ parts[2] = <<"group">>)
      BY <3>3 DEF Addressed, name, parts
    <3> QED
      BY <3>1, <3>2, <3>3
  <2> QED
    BY <2>1, <2>2, <2>3, <2>4
<1> HIDE DEF head, body, dot
<1>6. headed \in MessagesIn(A)
  BY <1>2, <1>5
<1>7. ASSUME NEW pairs PROVE [headed EXCEPT !.body = pairs].body = pairs
  <2> HIDE DEF NameParts
  <2> QED
    BY <1>6 DEF MessagesIn
<1>8. ASSUME NEW c, NEW s PROVE SetSchema([headed EXCEPT !.body = body.pairs], c, s).body = body.pairs
  <2>1. ASSUME NEW n, n \in {[headed EXCEPT !.body = body.pairs]}
        PROVE  SetSchema(n, c, s).body = n.body
    <3>1. n = [f \in DOMAIN headed |-> n[f]] /\ "body" \in DOMAIN headed
      BY <1>6, <2>1 DEF MessagesIn
    <3> QED
      BY <3>1 DEF SetSchema
  <2> DEFINE n == [headed EXCEPT !.body = body.pairs]
  <2>2. n \in {[headed EXCEPT !.body = body.pairs]}
    OBVIOUS
  <2>3. n.body = body.pairs
    BY <1>7
  <2> HIDE DEF n
  <2>4. SetSchema(n, c, s).body = n.body
    BY <2>1, <2>2
  <2> QED
    BY <2>3, <2>4 DEF n
<1>9. Parse(Blank, text).body \in {head.pairs, << >>, body.pairs}
  <2>1. CASE Parse(Blank, text) = [headed EXCEPT !.body = head.pairs]
    BY <1>7, <2>1, Zenon
  <2>2. CASE Parse(Blank, text) = [headed EXCEPT !.body = << >>]
    BY <1>7, <2>2, Zenon
  <2>3. CASE Parse(Blank, text) =
               SetSchema([headed EXCEPT !.body = body.pairs],
                         SubSeq(body.header, 1, dot - 1), Rest(body.header, dot))
    BY <1>8, <2>3, Zenon
  <2> QED
    BY <1>1, <2>1, <2>2, <2>3, Zenon
<1> QED
  BY <1>9 DEF body, head

-----------------------------------------------------------------------------
(* The settings of the services, the files they are kept in and the        *)
(* message they may come from.                                             *)
ServiceSettingsOK == \A s \in Service : svc[s].enabled \in BOOLEAN /\ IsSettings(svc[s].settings)

FilesOK ==
  /\ file = [s \in Configurables |-> file[s]]
  /\ \A s \in Configurables :
       file[s].state \in {"none", "torn", "saved"} /\ IsLines(file[s].lines)

(* What is read of a text is a list, and between messages there is none.   *)
TextOK ==
  /\ IsLines(msg.body) /\ (~InLoops => msg = Blank)
  /\ round.phase = "raw" => IsList(buff)

SettingsInv == hubConfirmed \in BOOLEAN /\ ServiceSettingsOK /\ FilesOK /\ TextOK

(* The object is released, or the program dies.                            *)
LEMMA CleanText ==
  ASSUME msg' = Blank, round' = Idle
  PROVE  TextOK'
BY ShortLines DEF TextOK, Blank, Idle

(* A loop that goes on.                                                    *)
LEMMA SameText ==
  ASSUME TextOK, InLoops, InLoops', UNCHANGED msg
  PROVE  TextOK'
BY DEF TextOK, InLoops

(* What a raw listener sends is written over the text.                     *)
LEMMA SentIsList ==
  ASSUME NEW s \in Service, IsList(svc[s].settings.name)
  PROVE  IsList(Sent(Heartbeat(s)))
<1> DEFINE text == Text(Heartbeat(s))
<1>1. PICK V : text \in Seq(V)
  BY HeartbeatIsList DEF IsList
<1>2. CASE Formats(Heartbeat(s))
  BY <1>1, <1>2 DEF Sent, IsList
<1>3. CASE ~Formats(Heartbeat(s))
  <2>1. Sent(Heartbeat(s)) = SubSeq(text, 1, MaxText - 1)
    BY <1>3 DEF Sent
  <2>2. Len(text) >= MaxText
    <3>1. \E w \in DOMAIN Kinds : Kinds[w] = Heartbeat(s).type
      BY DEF Kinds, Heartbeat, SetSchema, SetBroadcastMessage, Sendable, Blank
    <3>2. Len(text) \in Nat
      BY <1>1, LenProperties
    <3> HIDE DEF text
    <3>3. ~(Len(text) < MaxText)
      BY <1>3, <3>1 DEF Formats, text
    <3> QED
      BY <3>2, <3>3, MessageConstants
  <2> HIDE DEF text
  <2>3. MaxText - 1 \in Nat /\ 1 .. MaxText - 1 \subseteq 1 .. Len(text)
    BY <1>1, <2>2, LenProperties, MessageConstants
  <2>4. SubSeq(text, 1, MaxText - 1) \in Seq(V)
    BY <1>1, <2>3, ElementOfSeq, SubSeqProperties, MessageConstants
  <2> QED
    BY <2>1, <2>4 DEF IsList
<1> QED
  BY <1>2, <1>3

(* At first there are no settings, files and messages.                     *)
LEMMA SettingsFirst ==
  ASSUME Init
  PROVE  SettingsInv
<1>1. IsSettings(Unset(NULL, 0)) /\ IsLines(<< >>)
  BY FreshSettings, ShortLists, ShortLines DEF NULL
<1>2. \A s \in Service : svc[s].enabled = FALSE /\ svc[s].settings = Unset(NULL, 0)
  BY DEF Init, Down
<1>3. file = [s \in Configurables |-> NoFile]
  BY DEF Init
<1>4. FilesOK
  BY <1>1, <1>3 DEF FilesOK, NoFile
<1>5. ServiceSettingsOK
  BY <1>1, <1>2 DEF ServiceSettingsOK
<1>6. msg = Blank /\ round.phase = "idle" /\ hubConfirmed \in BOOLEAN
  BY DEF Init, Idle
<1>7. TextOK
  BY <1>1, <1>6 DEF TextOK, Blank
<1> QED
  BY <1>4, <1>5, <1>6, <1>7 DEF SettingsInv

(* Start, with what is read back from the files.                           *)
LEMMA StartSettles ==
  ASSUME SettingsInv, Start
  PROVE  SettingsInv'
<1>1. UNCHANGED <<buff, msg, hubConfirmed, file, round>>
  BY DEF Start
<1>2. ASSUME NEW s \in Service
      PROVE  svc'[s].enabled = FALSE /\ IsSettings(svc'[s].settings)
  <2>1. IsSettings(Loaded(s))
    <3>1. IsSettings(Unset(FirstName[s], 300))
      <4>1. IsList(FirstName[s])
        BY NameConstants DEF IsList
      <4> QED
        BY <4>1, FreshSettings
    <3>2. s \in Configurables => IsLines(file[s].lines)
      BY DEF SettingsInv, FilesOK
    <3>3. s \in Configurables =>
            IsSettings(Install(Unset(FirstName[s], 300), file[s].lines, TRUE))
      BY <3>1, <3>2, InstalledSettings
    <3> QED
      BY <3>1, <3>3 DEF Loaded
  <2>2. IsSettings(WithItems(s, Loaded(s)))
    BY <2>1, SettingsWithItems
  <2>3. svc'[s] = [up |-> TRUE, enabled |-> FALSE, settings |-> WithItems(s, Loaded(s))]
    BY DEF Start
  <2> QED
    BY <2>2, <2>3
<1>3. ServiceSettingsOK'
  BY <1>2 DEF ServiceSettingsOK
<1> QED
  BY <1>1, <1>3 DEF SettingsInv, FilesOK, TextOK, InLoops

(* xPL_setServiceEnabled.                                                  *)
LEMMA EnableSettles ==
  ASSUME ReceiveInv(FALSE), SettingsInv, Enable
  PROVE  SettingsInv'
<1>1. UNCHANGED <<buff, msg, hubConfirmed, file, round>>
  BY DEF Enable
<1>2. ASSUME NEW s \in Service
      PROVE  svc'[s].enabled \in BOOLEAN /\ IsSettings(svc'[s].settings)
  <2>1. IsServiceState(svc[s]) /\ IsSettings(svc[s].settings)
    BY DEF SettingsInv, ServiceSettingsOK, ReceiveInv, ServicesOK
  <2>2. svc'[s] = [svc[s] EXCEPT !.enabled = TRUE]
    BY DEF Enable
  <2>3. svc'[s].enabled = TRUE /\ svc'[s].settings = svc[s].settings
    BY <2>1, <2>2 DEF IsServiceState
  <2> QED
    BY <2>1, <2>3
<1>3. ServiceSettingsOK'
  BY <1>2 DEF ServiceSettingsOK
<1> QED
  BY <1>1, <1>3 DEF SettingsInv, FilesOK, TextOK, InLoops

(* A service gets other settings.                                          *)
LEMMA SettledOne ==
  ASSUME ServicesOK, ServiceSettingsOK, NEW s \in Service, NEW settings, IsSettings(settings),
         svc' = [svc EXCEPT ![s].settings = settings]
  PROVE  ServiceSettingsOK'
<1>1. ASSUME NEW other \in Service
      PROVE  svc'[other].enabled \in BOOLEAN /\ IsSettings(svc'[other].settings)
  <2>1. svc = [x \in Service |-> svc[x]] /\ IsServiceState(svc[other])
    BY DEF ServicesOK
  <2>2. svc'[other] = IF other = s THEN [svc[other] EXCEPT !.settings = settings] ELSE svc[other]
    BY <2>1
  <2>3. /\ svc'[other].enabled = svc[other].enabled
        /\ svc'[other].settings = IF other = s THEN settings ELSE svc[other].settings
    BY <2>1, <2>2 DEF IsServiceState
  <2> QED
    BY <2>3 DEF ServiceSettingsOK
<1> QED
  BY <1>1 DEF ServiceSettingsOK

(* The program changes an item of a service.                               *)
LEMMA ChangeItemSettles ==
  ASSUME ReceiveInv(FALSE), SettingsInv, NEW s \in Configurables, NEW name \in Touched,
         \/ ChangeItem(s, SetServiceConfigValueAt(svc[s].settings, name, 1, <<"default">>))
         \/ ChangeItem(s, RemoveServiceConfigurable(svc[s].settings, name))
  PROVE  SettingsInv'
<1>1. s \in Service /\ IsSettings(svc[s].settings)
  BY ServiceConstants DEF SettingsInv, ServiceSettingsOK
<1>2. PICK settings : IsSettings(settings) /\ ChangeItem(s, settings)
  BY <1>1, SettingsOfProgram
<1>3. ServiceSettingsOK'
  BY <1>1, <1>2, SettledOne DEF ChangeItem, ReceiveInv, SettingsInv
<1> QED
  BY <1>2, <1>3 DEF ChangeItem, SettingsInv, FilesOK, TextOK, InLoops

(* The program dies, and leaves the files.                                 *)
LEMMA DiesSettles ==
  ASSUME FilesOK', Dies
  PROVE  SettingsInv'
<1>1. IsSettings(Unset(NULL, 0))
  BY FreshSettings, ShortLists DEF NULL
<1>2. \A s \in Service : svc'[s].enabled = FALSE /\ svc'[s].settings = Unset(NULL, 0)
  BY DEF Dies, Down
<1>3. ServiceSettingsOK'
  BY <1>1, <1>2 DEF ServiceSettingsOK
<1>4. TextOK' /\ hubConfirmed' \in BOOLEAN
  BY CleanText DEF Dies
<1> QED
  BY <1>3, <1>4 DEF SettingsInv

(* recvfrom.                                                               *)
LEMMA ReceivedText ==
  ASSUME SettingsInv, NEW mail \in Mails \cup Junk, ReceiveMessage(mail)
  PROVE  SettingsInv'
<1>1. UNCHANGED <<msg, hubConfirmed, svc, file>> /\ msg = Blank /\ IsLines(msg.body)
  BY DEF ReceiveMessage, SettingsInv, TextOK, InLoops, Idle
<1>2. IsList(buff')
  BY MailConstants DEF ReceiveMessage, IsList
<1>3. ~InLoops'
  BY DEF ReceiveMessage, InLoops, Idle
<1> QED
  BY <1>1, <1>2, <1>3 DEF SettingsInv, ServiceSettingsOK, FilesOK, TextOK

(* xPL_dispatchRawEvent.                                                   *)
LEMMA DispatchedText ==
  ASSUME ReceiveInv(FALSE), SettingsInv, DispatchRaw
  PROVE  SettingsInv'
<1>1. UNCHANGED <<msg, hubConfirmed, svc, file>> /\ ~InLoops /\ IsList(buff)
  BY DEF DispatchRaw, SettingsInv, TextOK, InLoops
<1>2. round'.phase = "raw"
  BY DEF DispatchRaw, ReceiveInv, RoundOK, RoundType
<1>3. buff' = buff \/ buff' = Sent(Heartbeat(Services[1]))
  BY DEF DispatchRaw, CallBack
<1>4. IsList(buff')
  <2>1. Services[1] \in Service
    BY AllServices, OneService
  <2>2. IsList(svc[Services[1]].settings.name)
    BY <2>1, SettingsAreLists DEF SettingsInv, ServiceSettingsOK
  <2> QED
    BY <1>1, <1>3, <2>1, <2>2, SentIsList
<1> QED
  BY <1>1, <1>2, <1>4 DEF SettingsInv, ServiceSettingsOK, FilesOK, TextOK, InLoops

(* parseMessage.                                                           *)
LEMMA ParsedText ==
  ASSUME ReceiveInv(FALSE), SettingsInv, ParseMessage
  PROVE  SettingsInv'
<1>1. msg = Blank /\ IsList(buff) /\ round.phase = "raw" /\ UNCHANGED <<svc, file>>
  BY DEF ParseMessage, SettingsInv, TextOK, InLoops
<1>2. ServiceSettingsOK' /\ FilesOK'
  BY <1>1 DEF SettingsInv, ServiceSettingsOK, FilesOK
<1>3. CASE Parses(buff)
  <2>1. msg' = Parse(Blank, buff)
    BY <1>1, <1>3 DEF ParseMessage
  <2>2. IsLines(msg'.body)
    <3> DEFINE head == ParseBlock(buff)
               body == ParseBlock(Rest(buff, head.used))
    <3>1. IsLines(head.pairs) /\ IsLines(body.pairs) /\ IsLines(<< >>)
      BY <1>1, ParsedIsList, ShortLines
    <3>2. msg'.body \in {head.pairs, << >>, body.pairs}
      BY <2>1, ParsedBody
    <3> HIDE DEF head, body, IsLines
    <3> QED
      BY <3>1, <3>2
  <2>3. round'.phase = "message"
    BY <1>3 DEF ParseMessage, ReceiveInv, RoundOK, RoundType
  <2>4. hubConfirmed' \in BOOLEAN
    <3>1. hubConfirmed' = (hubConfirmed \/ IsHubEcho(msg'))
      BY <1>3 DEF ParseMessage
    <3>2. \A p, q : (p \/ q) \in BOOLEAN
      OBVIOUS
    <3> QED
      BY <3>1, <3>2, Zenon
  <2> QED
    BY <1>2, <2>2, <2>3, <2>4 DEF SettingsInv, TextOK, InLoops
<1>4. CASE ~Parses(buff)
  <2>1. msg' = Blank /\ round' = Idle /\ UNCHANGED hubConfirmed
    BY <1>4 DEF ParseMessage, Released, EndOfRound
  <2> QED
    BY <1>2, <2>1, CleanText DEF SettingsInv
<1> QED
  BY <1>3, <1>4

(* The end of the round.                                                   *)
LEMMA ReleasedText ==
  ASSUME SettingsInv, ReleaseMessage
  PROVE  SettingsInv'
<1>1. msg' = Blank /\ round' = Idle /\ UNCHANGED <<hubConfirmed, svc, file>>
  BY DEF ReleaseMessage, Released, EndOfRound
<1> QED
  BY <1>1, CleanText DEF SettingsInv, ServiceSettingsOK, FilesOK

(* installNewConfig and xPL_saveServiceConfig.                             *)
LEMMA InstallNewConfigSettles ==
  ASSUME ReceiveInv(FALSE), SettingsInv, InstallNewConfig
  PROVE  SettingsInv'
<1>1. /\ Turn \in Configurables /\ round.phase = "handler" /\ round \in RoundType
      /\ UNCHANGED <<msg, hubConfirmed>>
  BY AtConfig DEF InstallNewConfig, AtConfigHandler, ReceiveInv, RoundOK
<1>2. PICK s \in Configurables : s = Turn /\ s \in Service
  BY <1>1, ServiceConstants
<1>3. IsSettings(NewSettings)
  <2>1. IsSettings(svc[Turn].settings) /\ IsLines(msg.body)
    BY <1>2 DEF SettingsInv, ServiceSettingsOK, TextOK
  <2> HIDE DEF IsSettings, IsLines
  <2> QED
    BY <2>1, InstalledSettings DEF NewSettings
<1>4. PICK settings : settings = NewSettings
  OBVIOUS
<1>5. svc' = [svc EXCEPT ![s].settings = settings]
  BY <1>2, <1>4 DEF InstallNewConfig
<1>6. ServiceSettingsOK'
  BY <1>2, <1>3, <1>4, <1>5, SettledOne DEF ReceiveInv, SettingsInv
<1>7. FilesOK'
  <2>1. \/ UNCHANGED file
        \/ file' = [file EXCEPT ![s] = SavedFile(SavedLines(settings))]
    BY <1>2, <1>4 DEF InstallNewConfig
  <2>2. IsLines(SavedLines(settings))
    BY <1>3, <1>4, SavedIsLines
  <2>3. PICK lines : lines = SavedLines(settings)
    OBVIOUS
  <2>4. CASE UNCHANGED file
    BY <2>4 DEF FilesOK, SettingsInv
  <2>5. CASE file' = [file EXCEPT ![s] = SavedFile(lines)]
    BY <2>2, <2>3, <2>5 DEF FilesOK, SettingsInv, SavedFile
  <2> QED
    BY <2>1, <2>3, <2>4, <2>5
<1>8. InLoops /\ InLoops'
  BY <1>1 DEF InstallNewConfig, InLoops, RoundType
<1>9. TextOK'
  BY <1>1, <1>8, SameText DEF SettingsInv
<1> QED
  BY <1>1, <1>6, <1>7, <1>9 DEF SettingsInv

(* Every step keeps the settings what they are.                            *)
LEMMA SettingsNext ==
  ASSUME ReceiveInv(FALSE), SettingsInv, [Next]_vars
  PROVE  SettingsInv'
<1>1. CASE UNCHANGED vars
  BY <1>1 DEF vars, SettingsInv, ServiceSettingsOK, FilesOK, TextOK, InLoops
<1>2. CASE Program
  BY <1>2, StartSettles, EnableSettles, ChangeItemSettles DEF Program
<1>3. CASE Crash \/ CrashWhileSaving \/ CompareNoSchema
  <2>1. CASE Crash \/ CompareNoSchema
    <3>1. FilesOK'
      BY <2>1 DEF Crash, CompareNoSchema, SettingsInv, FilesOK
    <3> QED
      BY <2>1, <3>1, DiesSettles DEF Crash, CompareNoSchema
  <2>2. CASE CrashWhileSaving
    <3>1. Turn \in Configurables /\ file' = [file EXCEPT ![Turn] = TornFile]
      BY <2>2, AtConfig DEF CrashWhileSaving
    <3>2. IsLines(<< >>)
      BY ShortLines
    <3>3. FilesOK'
      BY <3>1, <3>2 DEF FilesOK, SettingsInv, TornFile
    <3> QED
      BY <2>2, <3>3, DiesSettles DEF CrashWhileSaving
  <2> QED
    BY <1>3, <2>1, <2>2
<1>4. CASE \/ DispatchMessage \/ HandleMessage \/ ServicesDone \/ DispatchService
           \/ HandlersDone \/ DispatchServiceConfigChanged \/ ChangedDone
           \/ SendServiceConfigList \/ SendServiceCurrentConfig \/ IgnoreConfig
  <2>1. UNCHANGED <<msg, hubConfirmed, svc, file>>
    BY <1>4 DEF DispatchMessage, HandleMessage, ServicesDone, DispatchService, HandlersDone,
                DispatchServiceConfigChanged, ChangedDone, SendServiceConfigList,
                SendServiceCurrentConfig, SendReply, IgnoreConfig
  <2>2. InLoops
    BY <1>4 DEF DispatchMessage, HandleMessage, ServicesDone, DispatchService, HandlersDone,
                DispatchServiceConfigChanged, ChangedDone, SendServiceConfigList,
                SendServiceCurrentConfig, IgnoreConfig, AtConfigHandler, InLoops
  <2>3. round \in RoundType
    BY DEF ReceiveInv, RoundOK
  <2>4. InLoops'
    BY <1>4, <2>3 DEF DispatchMessage, HandleMessage, ServicesDone, DispatchService,
                HandlersDone, DispatchServiceConfigChanged, ChangedDone, SendServiceConfigList,
                SendServiceCurrentConfig, SendReply, IgnoreConfig, AtConfigHandler, InLoops,
                RoundType
  <2> QED
    BY <2>1, <2>2, <2>4, SameText DEF SettingsInv, ServiceSettingsOK, FilesOK
<1> QED
  BY <1>1, <1>2, <1>3, <1>4, ReceivedText, DispatchedText, ParsedText, ReleasedText,
     InstallNewConfigSettles DEF Next, Dispatch, ConfigHandler

(* The two invariants together are stronger than the types.                *)
LEMMA Typed ==
  ASSUME ReceiveInv(FALSE), SettingsInv
  PROVE  TypeOK
<1>1. /\ hubConfirmed \in BOOLEAN
      /\ round.phase \in {"idle", "raw", "message", "service", "handler", "changed"}
      /\ round.at \in Nat /\ round.service \in 0..Len(Services)
      /\ round.handler \in Nat /\ round.changed \in Nat
      /\ \A s \in Configurables : file[s].state \in {"none", "torn", "saved"}
  BY DEF SettingsInv, FilesOK, ReceiveInv, RoundOK, RoundType, Phases
<1>2. ASSUME NEW t \in Tables
      PROVE  Range(table[t]) \subseteq Listeners[t] \cup {"services", "config"}
  <2>1. \A i \in DOMAIN table[t] : table[t][i] \in Entries(t)
    BY TableEntries DEF ReceiveInv
  <2>2. Entries(t) \subseteq Listeners[t] \cup {"services", "config"}
    BY OwnIsNoListener
  <2> QED
    BY <2>1, <2>2 DEF Range
<1>3. ASSUME NEW s \in Service, NEW it \in Range(svc[s].settings.items)
      PROVE  Len(it.values) <= it.max
  <2>1. PICK V : svc[s].settings \in SettingsIn(V)
    BY DEF SettingsInv, ServiceSettingsOK, IsSettings
  <2>2. svc[s].settings.items \in Seq(Item(V))
    BY <2>1 DEF SettingsIn
  <2>3. it \in Item(V)
    BY <2>2, LenProperties, ElementOfSeq DEF Range
  <2> QED
    BY <2>3 DEF Item
<1>4. \A s \in Service : svc[s].up \in BOOLEAN /\ svc[s].enabled \in BOOLEAN
  BY DEF SettingsInv, ServiceSettingsOK, ReceiveInv, ServicesOK
<1> QED
  BY <1>1, <1>2, <1>3, <1>4 DEF TypeOK

(* The receiver never leaves its types: the tables hold the listeners of   *)
(* the program and the library's own, the loops stay in them, a service    *)
(* never has more values of an item than the item allows, whatever is      *)
(* installed by messages, read back from files and set by the program      *)
(* between two messages, and whatever it dies in.                          *)
THEOREM ReceiverIsTyped == Spec => []TypeOK
<1>1. Init => ReceiveInv(FALSE) /\ SettingsInv
  BY InitKeeps, SettingsFirst
<1>2. ReceiveInv(FALSE) /\ SettingsInv /\ [Next]_vars => ReceiveInv(FALSE)' /\ SettingsInv'
  BY NextKeeps, SettingsNext
<1>3. ReceiveInv(FALSE) /\ SettingsInv => TypeOK
  BY Typed
<1> QED
  BY <1>1, <1>2, <1>3, PTL DEF Spec

-----------------------------------------------------------------------------
(* The mails of the program itself are those that carry its address and    *)
(* port: what its hub sends back and what no one else sends.               *)
OwnMails == \A mail \in Mails : mail.own <=> IsHubEcho(mail)

(* isHubEcho: it is this program's own announcement, and no other message, *)
(* that confirms the hub, for it is asked of the message the sender built, *)
(* whatever was read into the object before.                               *)
THEOREM HubConfirmedByOwnEcho ==
  ASSUME RawSilent, MailsArrive, OwnMails
  PROVE  Spec => OnlyOwnEchoConfirms
<1>1. Init => MailInv
  BY DEF Init, MailInv, Idle, InLoops, Phases, IsRound
<1>2. MailInv /\ [Next]_vars => MailInv'
  BY MailNext
<1>3. ASSUME MailInv, [Next]_vars, round.phase = "raw" /\ round'.phase = "message"
      PROVE  hubConfirmed' = (hubConfirmed \/ meant.own)
  <2>1. ParseMessage
    <3>1. round' # round
      BY <1>3
    <3>2. CASE Program
      BY <3>1, <3>2 DEF Program, Start, Enable, ChangeItem
    <3>3. CASE Crash \/ CrashWhileSaving \/ CompareNoSchema
      BY <1>3, <3>3 DEF Crash, CrashWhileSaving, CompareNoSchema, Dies, Idle
    <3>4. CASE ConfigHandler
      BY <1>3, <3>4 DEF ConfigHandler, SendServiceConfigList, SendServiceCurrentConfig,
                        IgnoreConfig, InstallNewConfig, AtConfigHandler
    <3>5. CASE Dispatch
      <4>1. CASE DispatchRaw
        <5>1. round'.phase = round.phase
          BY <4>1 DEF DispatchRaw, MailInv, IsRound
        <5> QED
          BY <1>3, <5>1
      <4> QED
        BY <1>3, <3>5, <4>1
           DEF Dispatch, ReceiveMessage, DispatchMessage, HandleMessage, ServicesDone,
               DispatchService, HandlersDone, DispatchServiceConfigChanged, ChangedDone,
               ReleaseMessage, Idle
    <3> QED
      BY <1>3, <3>1, <3>2, <3>3, <3>4, <3>5 DEF Next, vars
  <2>2. Parses(buff)
    BY <1>3, <2>1 DEF ParseMessage, EndOfRound, Idle
  <2>3. /\ hubConfirmed' = (hubConfirmed \/ IsHubEcho(msg'))
        /\ msg' = Parse(Blank, MailText(meant))
    BY <1>3, <2>1, <2>2 DEF ParseMessage, MailInv, InLoops
  <2>4. CASE meant \in Junk
    <3>1. hubConfirmed
      <4>1. Parse(Blank, MailText(meant)).class = NULL
        BY <1>3, <2>2, <2>4, MailConstants DEF MailInv, MailText
      <4>2. ~AtNoSchema /\ round.phase = "raw" /\ round.at = 0
        BY <2>1 DEF ParseMessage
      <4> QED
        BY <1>3, <2>2, <4>1, <4>2 DEF AtNoSchema, MailInv, InLoops
    <3>2. \A h, p, q : h => (h \/ p) = (h \/ q)
      BY Zenon
    <3> QED
      BY <2>3, <3>1, <3>2, Zenon
  <2>5. CASE meant \in Mails
    <3>1. msg'.class = meant.class /\ msg'.body = meant.body
      BY <2>3, <2>5 DEF MailsArrive, Carries
    <3>2. IsHubEcho(msg') <=> IsHubEcho(meant)
      BY <3>1 DEF IsHubEcho
    <3>3. IsHubEcho(msg') <=> meant.own
      BY <2>5, <3>2 DEF OwnMails
    <3>4. \A h, p, q : (p <=> q) => (h \/ p) = (h \/ q)
      BY Zenon
    <3> QED
      BY <2>3, <3>3, <3>4, Zenon
  <2> QED
    BY <1>3, <2>4, <2>5 DEF MailInv
<1>4. MailInv /\ [Next]_vars =>
        [round.phase = "raw" /\ round'.phase = "message" =>
           hubConfirmed' = (hubConfirmed \/ meant.own)]_vars
  BY <1>3
<1> QED
  BY <1>1, <1>2, <1>4, PTL DEF Spec, OnlyOwnEchoConfirms

-----------------------------------------------------------------------------
(* A file that was written and is not torn holds what was installed last.  *)
FileFollows(s) ==
  installed[s].state = "saved" /\ file[s] # TornFile =>
    file[s] = SavedFile(SavedLines(installed[s].settings))

FilesFollow == \A s \in Configurables : FileFollows(s)

FilesInv ==
  /\ file = [s \in Configurables |-> file[s]]
  /\ installed = [s \in Configurables |-> installed[s]]
  /\ FilesFollow

(* What is written says the same to who reads it: that the data survive,   *)
(* which is for TLC to check.                                              *)
FilesReadBack ==
  \A s \in Configurables :
    installed[s].state = "saved" =>
      SameSettings(WithItems(s, Install(Unset(FirstName[s], 300),
                                        SavedLines(installed[s].settings), TRUE)),
                   installed[s].settings)

(* A file is written, or is torn, or the service only knows that it is not.*)
LEMMA FileWritten ==
  ASSUME FilesInv, NEW t, NEW content, NEW last,
         file' = [file EXCEPT ![t] = content], installed' = [installed EXCEPT ![t] = last],
         last.state = "saved" /\ content # TornFile => content = SavedFile(SavedLines(last.settings))
  PROVE  FilesInv'
<1>1. /\ file' = [s \in Configurables |-> file'[s]]
      /\ installed' = [s \in Configurables |-> installed'[s]]
  BY DEF FilesInv
<1>2. ASSUME NEW s \in Configurables PROVE FileFollows(s)'
  <2>1. CASE s = t
    <3>1. file'[s] = content /\ installed'[s] = last
      BY <2>1 DEF FilesInv
    <3> QED
      BY <3>1 DEF FileFollows
  <2>2. CASE s # t
    <3>1. file'[s] = file[s] /\ installed'[s] = installed[s]
      BY <2>2 DEF FilesInv
    <3> QED
      BY <3>1 DEF FileFollows, FilesInv, FilesFollow
  <2> QED
    BY <2>1, <2>2
<1> QED
  BY <1>1, <1>2 DEF FilesInv, FilesFollow

(* Nothing but an installation and a crash within it touches the files.    *)
LEMMA FilesNext ==
  ASSUME FilesInv, [Next]_vars
  PROVE  FilesInv'
<1>1. CASE UNCHANGED <<file, installed>>
  BY <1>1 DEF FilesInv, FilesFollow, FileFollows
<1>2. CASE InstallNewConfig
  <2>1. PICK settings : settings = NewSettings
    OBVIOUS
  <2>2. CASE /\ file' = [file EXCEPT ![Turn] = SavedFile(SavedLines(settings))]
             /\ installed' = [installed EXCEPT ![Turn] = [state |-> "saved", settings |-> settings]]
    <3>1. PICK last : last = [state |-> "saved", settings |-> settings]
      OBVIOUS
    <3>2. last.settings = settings
      BY <3>1
    <3> QED
      BY <2>2, <3>1, <3>2, FileWritten
  <2>3. CASE installed' = [installed EXCEPT ![Turn] = Unsaved] /\ UNCHANGED file
    <3>1. file' = [file EXCEPT ![Turn] = file[Turn]]
      BY <2>3 DEF FilesInv
    <3>2. Unsaved.state # "saved"
      BY DEF Unsaved
    <3> QED
      BY <2>3, <3>1, <3>2, FileWritten
  <2> QED
    BY <1>2, <2>1, <2>2, <2>3 DEF InstallNewConfig
<1>3. CASE CrashWhileSaving
  BY <1>3, FileWritten DEF CrashWhileSaving
<1>4. CASE Program
  BY <1>1, <1>4 DEF Program, Start, Enable, ChangeItem
<1>5. CASE Dispatch
  BY <1>1, <1>5 DEF Dispatch, ReceiveMessage, DispatchRaw, ParseMessage, DispatchMessage,
                    HandleMessage, ServicesDone, DispatchService, HandlersDone,
                    DispatchServiceConfigChanged, ChangedDone, ReleaseMessage
<1>6. CASE SendServiceConfigList \/ SendServiceCurrentConfig \/ IgnoreConfig \/ Crash \/ CompareNoSchema
  BY <1>1, <1>6 DEF SendServiceConfigList, SendServiceCurrentConfig, SendReply, IgnoreConfig, Crash,
                    CompareNoSchema
<1>7. CASE UNCHANGED vars
  BY <1>1, <1>7 DEF vars
<1> QED
  BY <1>2, <1>3, <1>4, <1>5, <1>6, <1>7 DEF Next, ConfigHandler

(* xPL_saveServiceConfig: whatever is installed and set and whenever the   *)
(* program dies and is started again, a file that is there and whole holds *)
(* what the manager installed last, unless that could not be written.      *)
THEOREM FilesHoldTheLastSettings == Spec => []FilesFollow
<1>1. Init => FilesInv
  BY DEF Init, FilesInv, FilesFollow, FileFollows, Nothing
<1>2. FilesInv /\ [Next]_vars => FilesInv'
  BY FilesNext
<1>3. FilesInv => FilesFollow
  BY DEF FilesInv
<1> QED
  BY <1>1, <1>2, <1>3, PTL DEF Spec

(* A program that is started again works with the settings the manager     *)
(* installed last, if what is written says the same to who reads it.       *)
THEOREM SettingsComeBack ==
  Spec /\ []FilesReadBack => SettingsSurviveRestart
<1>1. ASSUME FilesFollow, FilesReadBack, Start, NEW s \in Configurables,
             installed[s].state = "saved", file[s] # TornFile
      PROVE  SameSettings(svc'[s].settings, installed[s].settings)
  <2>1. file[s] = SavedFile(SavedLines(installed[s].settings))
    BY <1>1 DEF FilesFollow, FileFollows
  <2>2. PICK lines : lines = SavedLines(installed[s].settings)
    OBVIOUS
  <2>3. file[s].state = "saved" /\ file[s].lines = lines
    BY <2>1, <2>2 DEF SavedFile
  <2>4. Loaded(s) = Install(Unset(FirstName[s], 300), lines, TRUE)
    BY <2>3 DEF Loaded
  <2>5. s \in Service
    BY ServiceConstants
  <2>6. svc'[s].settings = WithItems(s, Loaded(s))
    BY <1>1, <2>5 DEF Start
  <2> QED
    BY <1>1, <2>2, <2>4, <2>6 DEF FilesReadBack
<1>2. FilesFollow /\ FilesReadBack =>
        [Start => \A s \in Configurables :
           installed[s].state = "saved" /\ file[s] # TornFile =>
             SameSettings(svc'[s].settings, installed[s].settings)]_vars
  BY <1>1
<1> QED
  BY <1>2, FilesHoldTheLastSettings, PTL DEF SettingsSurviveRestart
=============================================================================
