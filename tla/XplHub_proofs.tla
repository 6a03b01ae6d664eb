---------------------------- MODULE XplHub_proofs ----------------------------
(***************************************************************************)
(* Proofs about XplHub for every set of ports, intervals and descriptors.  *)
(*                                                                         *)
(* They rest on two hypotheses, stated in each theorem that needs them:    *)
(*   ForwardCopy  the C library's memcpy copies from the low end, so that  *)
(*                the overlapping copy of releaseClient moves every entry; *)
(*   RealPorts    the announced ports are UDP port numbers.                *)
(***************************************************************************)
EXTENDS XplHub, SequenceTheorems, TLAPS

ForwardCopy == CopyOrder = {"forward"}
RealPorts == Port \subseteq 0 .. PortSpace - 1

(* The inductive invariant: the invariants of the module, and two facts    *)
(* about the list they need.                                               *)
OnlyRealPorts == \A i \in DOMAIN clients : clients[i].port \in Port
StoppedHubIsEmpty == ~hubRunning => clients = << >> /\ sweep = 0

IInv ==
  /\ TypeOK
  /\ UniquePorts
  /\ NoSocketLeak
  /\ WithinAllocation
  /\ SweepInList
  /\ OnlyRealPorts
  /\ StoppedHubIsEmpty

-----------------------------------------------------------------------------
(* Intervals read from a message are integers.                             *)
LEMMA IntervalIsInt ==
  ASSUME NEW m \in Message
  PROVE  HeartbeatInterval(m) \in Int
<1>1. m.interval \in AnnouncedInterval \cup {NoInterval}
  BY DEF Message
<1>2. CASE m.interval = NoInterval
  BY <1>2, HubConstants DEF HeartbeatInterval
<1>3. CASE m.interval # NoInterval
  <2>1. m.interval \in Int
    BY <1>1, <1>3, HubConstants
  <2> QED
    BY <1>3, <2>1, HubConstants DEF HeartbeatInterval
<1> QED
  BY <1>2, <1>3

(* IndexOf returns an entry that carries the port asked for.               *)
LEMMA IndexOfKnown ==
  ASSUME NEW port, clients \in Seq(Client), UniquePorts, Known(port)
  PROVE  /\ IndexOf(port) \in DOMAIN clients
         /\ clients[IndexOf(port)].port = port
<1>1. PICK i \in DOMAIN clients : clients[i].port = port
  BY DEF Known
<1>2. \A j \in DOMAIN clients : clients[j].port = port => i = j
  BY <1>1 DEF UniquePorts
<1>3. DOMAIN clients \subseteq Int
  BY LenProperties
<1>4. \A j \in DOMAIN clients : clients[j].port = port => i <= j
  BY <1>2, <1>3
<1> QED
  BY <1>1, <1>4 DEF IndexOf

(* Removing an entry with a memcpy that copies forward: the result is one  *)
(* entry shorter, made of the other entries, each at most once.            *)
LEMMA SlideForward ==
  ASSUME NEW S, NEW list \in Seq(S), NEW i \in 1 .. Len(list)
  PROVE  LET short == Slide(list, i, "forward")
         IN  /\ short \in Seq(S)
             /\ Len(short) = Len(list) - 1
             /\ DOMAIN short = 1 .. Len(list) - 1
             /\ \A j \in DOMAIN short :
                  short[j] = IF j < i THEN list[j] ELSE list[j + 1]
             /\ \A k \in DOMAIN list \ {i} :
                  \E j \in DOMAIN short : short[j] = list[k]
<1> DEFINE n == Len(list) - 1
           short == Slide(list, i, "forward")
<1>1. /\ n \in Nat
      /\ DOMAIN list = 1 .. Len(list)
      /\ Len(list) \in Nat
  BY LenProperties
<1>2. short = [j \in 1 .. n |-> IF j < i THEN list[j] ELSE list[j + 1]]
  BY DEF Slide
<1>3. \A j \in 1 .. n : (IF j < i THEN list[j] ELSE list[j + 1]) \in S
  BY <1>1, ElementOfSeq
<1> HIDE DEF short, n
<1>4. short \in Seq(S) /\ Len(short) = n
  <2>1. short \in [1 .. n -> S]
    BY <1>2, <1>3
  <2> QED
    BY <2>1, <1>1
<1>5. DOMAIN short = 1 .. n
  BY <1>2
<1>6. \A j \in 1 .. n : short[j] = IF j < i THEN list[j] ELSE list[j + 1]
  BY <1>2
<1>7. ASSUME NEW k \in DOMAIN list \ {i}
      PROVE  \E j \in 1 .. n : short[j] = list[k]
  <2>1. CASE k < i
    BY <2>1, <1>1, <1>6 DEF n
  <2>2. CASE k > i
    <3>1. k - 1 \in 1 .. n /\ ~(k - 1 < i) /\ k - 1 + 1 = k
      BY <2>2, <1>1 DEF n
    <3> QED
      BY <3>1, <1>6
  <2> QED
    BY <2>1, <2>2, <1>1
<1> QED
  BY <1>4, <1>5, <1>6, <1>7 DEF short, n

(* Growing a full list by GrowBy leaves room for one entry more.           *)
LEMMA GrowLeavesRoom ==
  ASSUME NEW n \in Nat, NEW a \in Nat, n <= a,
         NEW b, b = IF n = a THEN a + GrowBy ELSE a
  PROVE  b \in Nat /\ n + 1 <= b
BY HubConstants

(* The addresses of a list of clients are integers.                        *)
LEMMA AddressesAreInts ==
  ASSUME NEW list \in Seq(Client)
  PROVE  /\ Addresses(list) \in Seq(Int)
         /\ DOMAIN Addresses(list) = DOMAIN list
         /\ \A i \in DOMAIN list : Addresses(list)[i] = list[i].port % PortSpace
<1>1. DOMAIN list = 1 .. Len(list) /\ Len(list) \in Nat
  BY LenProperties
<1>2. \A i \in 1 .. Len(list) : list[i] \in Client
  BY <1>1, ElementOfSeq
<1>3. \A i \in 1 .. Len(list) : list[i].port % PortSpace \in Int
  BY <1>2, HubConstants DEF Client
<1>4. Addresses(list) = [i \in 1 .. Len(list) |-> list[i].port % PortSpace]
  BY <1>1 DEF Addresses, Address
<1>5. Addresses(list) \in [1 .. Len(list) -> Int]
  BY <1>3, <1>4
<1>6. Addresses(list) \in Seq(Int)
  BY <1>1, <1>5
<1> QED
  BY <1>1, <1>4, <1>6

-----------------------------------------------------------------------------
(* The registration of a new client keeps the invariant: its port is not   *)
(* in the list, its socket was free, and the list was grown before.        *)
LEMMA AddNewClientKeepsIInv ==
  ASSUME IInv, NEW m \in Message, HandleMessage(m), AddNewClient(m)
  PROVE  IInv'
<1> USE DEF IInv
<1>1. PICK s \in Socket \ openSockets :
        /\ clients' = Append(clients, [port     |-> m.port,
                                       interval |-> HeartbeatInterval(m),
                                       silent   |-> 0,
                                       socket   |-> s])
        /\ openSockets' = openSockets \cup {s}
  BY DEF AddNewClient
<1> DEFINE new == [port     |-> m.port,
                   interval |-> HeartbeatInterval(m),
                   silent   |-> 0,
                   socket   |-> s]
<1>2. /\ m.port \in Port /\ m.port \in Int
      /\ hubRunning' = hubRunning /\ hubRunning
      /\ sinceCheck' = sinceCheck
      /\ sweep' = sweep /\ sweep = 0
  BY HubConstants DEF AddNewClient, HandleMessage, Message
<1>3. new \in Client
  BY <1>2, IntervalIsInt DEF Client
<1> HIDE DEF new
<1>4. new.port = m.port /\ new.socket = s
  BY DEF new
<1>5. clients \in Seq(Client) /\ Len(clients) \in Nat /\ DOMAIN clients = 1 .. Len(clients)
  BY LenProperties DEF TypeOK
<1>6. /\ clients' = Append(clients, new)
      /\ clients' \in Seq(Client)
      /\ Len(clients') = Len(clients) + 1
      /\ DOMAIN clients' = 1 .. Len(clients) + 1
      /\ \A j \in 1 .. Len(clients) : clients'[j] = clients[j]
      /\ clients'[Len(clients) + 1] = new
  BY <1>1, <1>3, <1>5 DEF new
<1>7. \A j \in 1 .. Len(clients) : clients[j].port # m.port /\ clients[j].socket # s
  BY <1>1, <1>5 DEF AddNewClient, Known, NoSocketLeak
<1>8. allocCount' \in Nat /\ Len(clients') <= allocCount'
  <2>1. Len(clients) \in Nat /\ allocCount \in Nat /\ Len(clients) <= allocCount
    BY <1>5 DEF TypeOK, WithinAllocation
  <2>2. allocCount' = IF Len(clients) = allocCount THEN allocCount + GrowBy ELSE allocCount
    BY DEF AddNewClient, GrowList
  <2>3. allocCount' \in Nat /\ Len(clients) + 1 <= allocCount'
    BY <2>1, <2>2, GrowLeavesRoom
  <2> QED
    BY <2>3, <1>6
<1>9. sent' \in Seq(Int)
  <2>1. Addresses(clients') \in Seq(Int)
    BY <1>6, AddressesAreInts
  <2> QED
    BY <2>1 DEF HandleMessage, Rebroadcast
<1>10. TypeOK'
  BY <1>1, <1>2, <1>6, <1>8, <1>9 DEF TypeOK
<1>11. UniquePorts'
  BY <1>4, <1>5, <1>6, <1>7 DEF UniquePorts
<1>12. NoSocketLeak'
  <2>1. openSockets' = {clients'[i].socket : i \in DOMAIN clients'}
    BY <1>1, <1>4, <1>5, <1>6 DEF NoSocketLeak
  <2>2. \A i, j \in DOMAIN clients' : clients'[i].socket = clients'[j].socket => i = j
    BY <1>4, <1>5, <1>6, <1>7 DEF NoSocketLeak
  <2> QED
    BY <2>1, <2>2 DEF NoSocketLeak
<1>13. WithinAllocation' /\ SweepInList' /\ OnlyRealPorts' /\ StoppedHubIsEmpty'
  BY <1>2, <1>4, <1>5, <1>6, <1>8
     DEF WithinAllocation, SweepInList, OnlyRealPorts, StoppedHubIsEmpty
<1> QED
  BY <1>10, <1>11, <1>12, <1>13

(* A step that renews or ages entries without moving them keeps what the   *)
(* invariant says of ports, sockets and sizes.                             *)
LEMMA SameEntriesKeepIInv ==
  ASSUME IInv,
         clients' \in Seq(Client),
         Len(clients') = Len(clients),
         \A i \in 1 .. Len(clients) : /\ clients'[i].port = clients[i].port
                                      /\ clients'[i].socket = clients[i].socket,
         UNCHANGED <<hubRunning, allocCount, openSockets, sweep>>
  PROVE  /\ UniquePorts' /\ NoSocketLeak' /\ WithinAllocation'
         /\ SweepInList' /\ OnlyRealPorts' /\ StoppedHubIsEmpty'
<1> USE DEF IInv
<1>1. clients \in Seq(Client) /\ Len(clients) \in Nat /\ DOMAIN clients = 1 .. Len(clients)
  BY LenProperties DEF TypeOK
<1>2. DOMAIN clients' = 1 .. Len(clients)
  BY LenProperties
<1>3. UniquePorts' /\ OnlyRealPorts'
  BY <1>1, <1>2 DEF UniquePorts, OnlyRealPorts
<1>4. NoSocketLeak'
  BY <1>1, <1>2 DEF NoSocketLeak
<1>5. WithinAllocation' /\ SweepInList'
  BY DEF WithinAllocation, SweepInList
<1>6. StoppedHubIsEmpty'
  <2>1. ~hubRunning => Len(clients') = 0
    BY <1>1 DEF StoppedHubIsEmpty
  <2>2. ~hubRunning => clients' = << >>
    BY <2>1, EmptySeq
  <2> QED
    BY <2>2 DEF StoppedHubIsEmpty
<1> QED
  BY <1>3, <1>4, <1>5, <1>6

(* A heartbeat of a known client rewrites its entry in place.              *)
LEMMA RefreshClientKeepsIInv ==
  ASSUME IInv, NEW m \in Message, HandleMessage(m), RefreshClient(m)
  PROVE  IInv'
<1> USE DEF IInv
<1> DEFINE k == IndexOf(m.port)
           beat == [clients[k] EXCEPT !.interval = HeartbeatInterval(m), !.silent = 0]
<1>1. clients \in Seq(Client) /\ DOMAIN clients = 1 .. Len(clients)
  BY LenProperties DEF TypeOK
<1>2. k \in DOMAIN clients
  BY IndexOfKnown, <1>1 DEF RefreshClient
<1>3. beat \in Client /\ beat.port = clients[k].port /\ beat.socket = clients[k].socket
  <2>1. clients[k] \in Client
    BY <1>1, <1>2, ElementOfSeq
  <2> QED
    BY <2>1, IntervalIsInt DEF Client
<1>4. clients' = [clients EXCEPT ![k] = beat]
  BY DEF RefreshClient
<1> HIDE DEF beat, k
<1>5. /\ clients' \in Seq(Client)
      /\ Len(clients') = Len(clients)
      /\ \A j \in 1 .. Len(clients) : clients'[j] = IF j = k THEN beat ELSE clients[j]
  BY <1>1, <1>2, <1>3, <1>4, ExceptSeq
<1>6. \A i \in 1 .. Len(clients) : /\ clients'[i].port = clients[i].port
                                   /\ clients'[i].socket = clients[i].socket
  BY <1>3, <1>5
<1>7. UNCHANGED <<hubRunning, sinceCheck, sweep, allocCount, openSockets>>
  BY DEF HandleMessage, RefreshClient
<1>8. sent' \in Seq(Int)
  <2>1. Addresses(clients') \in Seq(Int)
    BY <1>5, AddressesAreInts
  <2> QED
    BY <2>1 DEF HandleMessage, Rebroadcast
<1>9. TypeOK'
  BY <1>5, <1>7, <1>8 DEF TypeOK
<1> QED
  BY <1>5, <1>6, <1>7, <1>9, SameEntriesKeepIInv

(* A message that leaves the list alone, and a failed registration, which  *)
(* may have grown it.                                                      *)
LEMMA OtherMessagesKeepIInv ==
  ASSUME IInv, NEW m \in Message, HandleMessage(m),
         IgnoreMessage(m) \/ AddNewClientFails(m)
  PROVE  IInv'
<1> USE DEF IInv
<1>1. UNCHANGED <<hubRunning, sinceCheck, sweep, clients, openSockets>>
  BY DEF HandleMessage, IgnoreMessage, AddNewClientFails
<1>2. /\ clients \in Seq(Client) /\ Len(clients) \in Nat
      /\ allocCount \in Nat /\ Len(clients) <= allocCount
  BY LenProperties DEF TypeOK, WithinAllocation
<1>3. allocCount' \in Nat /\ Len(clients) <= allocCount'
  <2>1. CASE IgnoreMessage(m)
    BY <1>2, <2>1 DEF IgnoreMessage
  <2>2. CASE AddNewClientFails(m)
    <3>1. allocCount' = IF Len(clients) = allocCount THEN allocCount + GrowBy ELSE allocCount
      BY <2>2 DEF AddNewClientFails, GrowList
    <3>2. allocCount' \in Nat /\ Len(clients) + 1 <= allocCount'
      BY <1>2, <3>1, GrowLeavesRoom
    <3> QED
      BY <1>2, <3>2
  <2> QED
    BY <2>1, <2>2
<1>4. sent' \in Seq(Int)
  <2>1. Addresses(clients') \in Seq(Int)
    BY <1>1, <1>2, AddressesAreInts
  <2> QED
    BY <2>1 DEF HandleMessage, Rebroadcast
<1> QED
  BY <1>1, <1>3, <1>4
     DEF TypeOK, UniquePorts, NoSocketLeak, WithinAllocation, SweepInList,
         OnlyRealPorts, StoppedHubIsEmpty

(* Time ages every entry where it stands.                                  *)
LEMMA TickKeepsIInv ==
  ASSUME IInv, Tick
  PROVE  IInv'
<1> USE DEF IInv
<1> DEFINE old == [i \in DOMAIN clients |->
                     [clients[i] EXCEPT !.silent = Aged(clients[i].silent)]]
<1>1. clients \in Seq(Client) /\ Len(clients) \in Nat /\ DOMAIN clients = 1 .. Len(clients)
  BY LenProperties DEF TypeOK
<1>2. \A a \in Nat : Aged(a) \in Nat
  BY HubConstants DEF Aged
<1>3. \A i \in 1 .. Len(clients) :
        /\ old[i] \in Client
        /\ old[i].port = clients[i].port
        /\ old[i].socket = clients[i].socket
  <2> TAKE i \in 1 .. Len(clients)
  <2>1. clients[i] \in Client
    BY <1>1, ElementOfSeq
  <2>2. Aged(clients[i].silent) \in Nat
    BY <1>2, <2>1 DEF Client
  <2> QED
    BY <1>1, <2>1, <2>2 DEF Client
<1>4. DOMAIN old = 1 .. Len(clients) /\ clients' = old
  BY <1>1 DEF Tick
<1> HIDE DEF old
<1>5. old \in [1 .. Len(clients) -> Client]
  <2>1. old = [i \in 1 .. Len(clients) |-> old[i]]
    BY <1>1 DEF old
  <2> QED
    BY <1>3, <2>1
<1>6. clients' \in Seq(Client) /\ Len(clients') = Len(clients)
  BY <1>1, <1>4, <1>5
<1>7. \A i \in 1 .. Len(clients) : /\ clients'[i].port = clients[i].port
                                   /\ clients'[i].socket = clients[i].socket
  BY <1>3, <1>4
<1>8. UNCHANGED <<hubRunning, allocCount, openSockets, sweep, sent>>
  BY DEF Tick
<1>9. TypeOK'
  BY <1>2, <1>6, <1>8 DEF TypeOK, Tick
<1> QED
  BY <1>6, <1>7, <1>8, <1>9, SameEntriesKeepIInv

(* A removal in the middle of the loop: the entry goes with its socket,    *)
(* the ones behind it move down by one, and the loop, which walks down,    *)
(* has seen all of those already.                                          *)
LEMMA ReleaseClientKeepsIInv ==
  ASSUME ForwardCopy, IInv, ReleaseClient
  PROVE  IInv'
<1> USE DEF IInv
<1>1. /\ clients \in Seq(Client) /\ Len(clients) \in Nat /\ DOMAIN clients = 1 .. Len(clients)
      /\ sweep \in Nat /\ sweep > 0 /\ sweep <= Len(clients)
      /\ sweep \in 1 .. Len(clients)
  BY LenProperties DEF TypeOK, SweepInList, ReleaseClient
<1>2. /\ clients' = Slide(clients, sweep, "forward")
      /\ openSockets' = openSockets \ {clients[sweep].socket}
      /\ sweep' = sweep - 1
      /\ UNCHANGED <<hubRunning, allocCount, sinceCheck, sent>>
  BY DEF ReleaseClient, ForwardCopy
<1>3. /\ clients' \in Seq(Client)
      /\ Len(clients') = Len(clients) - 1
      /\ DOMAIN clients' = 1 .. Len(clients) - 1
  BY <1>1, <1>2, SlideForward
<1>4. \A j \in 1 .. Len(clients) - 1 :
        clients'[j] = IF j < sweep THEN clients[j] ELSE clients[j + 1]
  BY <1>1, <1>2, <1>3, SlideForward
<1>5. \A k \in DOMAIN clients \ {sweep} : \E j \in DOMAIN clients' : clients'[j] = clients[k]
  BY <1>1, <1>2, SlideForward
<1> DEFINE src(j) == IF j < sweep THEN j ELSE j + 1
<1>6. \A j \in DOMAIN clients' :
        /\ src(j) \in DOMAIN clients \ {sweep}
        /\ clients'[j] = clients[src(j)]
  BY <1>1, <1>3, <1>4
<1>7. \A i, j \in DOMAIN clients' : src(i) = src(j) => i = j
  BY <1>1, <1>3
<1> HIDE DEF src
<1>8. UniquePorts'
  BY <1>6, <1>7 DEF UniquePorts
<1>9. NoSocketLeak'
  <2>1. \A i, j \in DOMAIN clients' : clients'[i].socket = clients'[j].socket => i = j
    BY <1>6, <1>7 DEF NoSocketLeak
  <2>2. ASSUME NEW x \in openSockets'
        PROVE  x \in {clients'[i].socket : i \in DOMAIN clients'}
    <3>1. PICK k \in DOMAIN clients : clients[k].socket = x
      BY <1>2 DEF NoSocketLeak
    <3>2. k # sweep
      BY <1>2, <3>1
    <3>3. PICK j \in DOMAIN clients' : clients'[j] = clients[k]
      BY <1>5, <3>2
    <3> QED
      BY <3>1, <3>3
  <2>3. ASSUME NEW j \in DOMAIN clients'
        PROVE  clients'[j].socket \in openSockets'
    <3>1. src(j) \in DOMAIN clients /\ src(j) # sweep /\ clients'[j] = clients[src(j)]
      BY <1>6
    <3>2. clients[src(j)].socket # clients[sweep].socket
      BY <1>1, <3>1 DEF NoSocketLeak
    <3> QED
      BY <1>2, <3>1, <3>2 DEF NoSocketLeak
  <2>4. openSockets' = {clients'[i].socket : i \in DOMAIN clients'}
    BY <2>2, <2>3
  <2> QED
    BY <2>1, <2>4 DEF NoSocketLeak
<1>10. WithinAllocation' /\ SweepInList'
  BY <1>1, <1>2, <1>3 DEF WithinAllocation, SweepInList, TypeOK
<1>11. OnlyRealPorts'
  BY <1>6 DEF OnlyRealPorts
<1>12. StoppedHubIsEmpty'
  <2>1. hubRunning
    BY <1>1 DEF StoppedHubIsEmpty
  <2> QED
    BY <1>2, <2>1 DEF StoppedHubIsEmpty
<1>13. TypeOK'
  BY <1>1, <1>2, <1>3 DEF TypeOK
<1> QED
  BY <1>8, <1>9, <1>10, <1>11, <1>12, <1>13

(* Starting, stopping and beginning or continuing a loop.                  *)
LEMMA ControlStepsKeepIInv ==
  ASSUME IInv, StartHub \/ StopHub \/ BeginTimeoutChecks \/ KeepClient
  PROVE  IInv'
<1> USE DEF IInv
<1>1. clients \in Seq(Client) /\ Len(clients) \in Nat /\ DOMAIN clients = 1 .. Len(clients)
  BY LenProperties DEF TypeOK
<1>2. CASE StartHub
  BY <1>2 DEF StartHub, TypeOK, UniquePorts, NoSocketLeak, WithinAllocation,
              SweepInList, OnlyRealPorts, StoppedHubIsEmpty
<1>3. CASE StopHub
  <2>1. /\ clients' = << >> /\ sweep' = 0 /\ openSockets' = {}
        /\ sinceCheck' = 0 /\ hubRunning' = FALSE
        /\ UNCHANGED <<allocCount, sent>>
    BY <1>3 DEF StopHub, NoSocketLeak
  <2>2. clients' \in Seq(Client) /\ Len(clients') = 0 /\ DOMAIN clients' = {}
    BY <2>1
  <2>3. TypeOK'
    BY <2>1, <2>2 DEF TypeOK
  <2>4. UniquePorts' /\ NoSocketLeak' /\ OnlyRealPorts'
    BY <2>1, <2>2 DEF UniquePorts, NoSocketLeak, OnlyRealPorts
  <2>5. WithinAllocation' /\ SweepInList' /\ StoppedHubIsEmpty'
    BY <2>1, <2>2 DEF WithinAllocation, SweepInList, StoppedHubIsEmpty, TypeOK
  <2> QED
    BY <2>3, <2>4, <2>5
<1>4. CASE BeginTimeoutChecks
  BY <1>1, <1>4 DEF BeginTimeoutChecks, TypeOK, UniquePorts, NoSocketLeak,
                    WithinAllocation, SweepInList, OnlyRealPorts, StoppedHubIsEmpty
<1>5. CASE KeepClient
  <2>1. /\ sweep' \in Nat /\ sweep' <= Len(clients) /\ hubRunning
        /\ UNCHANGED <<hubRunning, clients, allocCount, openSockets, sinceCheck, sent>>
    BY <1>1, <1>5 DEF KeepClient, TypeOK, SweepInList, StoppedHubIsEmpty
  <2> QED
    BY <2>1 DEF TypeOK, UniquePorts, NoSocketLeak, WithinAllocation,
                SweepInList, OnlyRealPorts, StoppedHubIsEmpty
<1> QED
  BY <1>2, <1>3, <1>4, <1>5

-----------------------------------------------------------------------------
(* The list of the hub is sound in every reachable state.                  *)
THEOREM InductiveInvariant ==
  ASSUME ForwardCopy
  PROVE  Spec => []IInv
<1>1. Init => IInv
  <2> SUFFICES ASSUME Init PROVE IInv
    OBVIOUS
  <2>1. clients = << >> /\ Len(clients) = 0 /\ DOMAIN clients = {} /\ clients \in Seq(Client)
    BY DEF Init
  <2>2. sent \in Seq(Int)
    BY DEF Init
  <2>3. TypeOK
    BY <2>1, <2>2 DEF Init, TypeOK
  <2>4. UniquePorts /\ NoSocketLeak /\ OnlyRealPorts
    BY <2>1 DEF Init, UniquePorts, NoSocketLeak, OnlyRealPorts
  <2>5. WithinAllocation /\ SweepInList /\ StoppedHubIsEmpty
    BY <2>1 DEF Init, WithinAllocation, SweepInList, StoppedHubIsEmpty
  <2> QED
    BY <2>3, <2>4, <2>5 DEF IInv
<1>2. IInv /\ [Next]_vars => IInv'
  <2> SUFFICES ASSUME IInv, [Next]_vars PROVE IInv'
    OBVIOUS
  <2>1. CASE UNCHANGED vars
    BY <2>1 DEF vars, IInv, TypeOK, UniquePorts, NoSocketLeak, WithinAllocation,
                SweepInList, OnlyRealPorts, StoppedHubIsEmpty
  <2>2. ASSUME NEW m \in Message, HandleMessage(m) PROVE IInv'
    <3>1. IgnoreMessage(m) \/ AddNewClient(m) \/ AddNewClientFails(m) \/ RefreshClient(m)
      BY <2>2 DEF HandleMessage
    <3> QED
      BY <2>2, <3>1, AddNewClientKeepsIInv, RefreshClientKeepsIInv, OtherMessagesKeepIInv
  <2>3. CASE StartHub \/ StopHub \/ BeginTimeoutChecks \/ KeepClient
    BY <2>3, ControlStepsKeepIInv
  <2>4. CASE ReleaseClient
    BY <2>4, ReleaseClientKeepsIInv
  <2>5. CASE Tick
    BY <2>5, TickKeepsIInv
  <2> QED
    BY <2>1, <2>2, <2>3, <2>4, <2>5 DEF Next
<1> QED
  BY <1>1, <1>2, PTL DEF Spec

(* What the runs check of the list holds for every instance.  Each fact is *)
(* a part of the inductive invariant, which none of them is by itself.     *)

(* The variables have the types the code gives them.                       *)
THEOREM RegistryIsTyped == ASSUME ForwardCopy PROVE Spec => []TypeOK
<1>1. IInv => TypeOK
  BY DEF IInv
<1> QED
  BY <1>1, InductiveInvariant, PTL

(* A port is registered once, by findClientByPort alone.                   *)
THEOREM PortsStayUnique == ASSUME ForwardCopy PROVE Spec => []UniquePorts
<1>1. IInv => UniquePorts
  BY DEF IInv
<1> QED
  BY <1>1, InductiveInvariant, PTL

(* One open socket per entry and none besides, whichever call of           *)
(* addNewClient fails and wherever releaseClient takes an entry out.       *)
THEOREM SocketsFollowTheList == ASSUME ForwardCopy PROVE Spec => []NoSocketLeak
<1>1. IInv => NoSocketLeak
  BY DEF IInv
<1> QED
  BY <1>1, InductiveInvariant, PTL

(* addNewClient never writes outside the array it allocated.               *)
THEOREM ListStaysAllocated == ASSUME ForwardCopy PROVE Spec => []WithinAllocation
<1>1. IInv => WithinAllocation
  BY DEF IInv
<1> QED
  BY <1>1, InductiveInvariant, PTL

(* doClientTimeoutChecks never reads an entry past the end of the list it  *)
(* shortens while it walks.                                                *)
THEOREM LoopStaysInTheList == ASSUME ForwardCopy PROVE Spec => []SweepInList
<1>1. IInv => SweepInList
  BY DEF IInv
<1> QED
  BY <1>1, InductiveInvariant, PTL

(* A turn of that loop takes the entry it is at out of the list, or none.  *)
THEOREM OthersSurviveRemoval ==
  ASSUME ForwardCopy
  PROVE  Spec => RemovalTakesOnlyThePassedClient
<1> DEFINE Survive ==
      sweep > 0 =>
        \A i \in DOMAIN clients \ {sweep} :
          \E j \in DOMAIN clients' : clients'[j] = clients[i]
<1>1. IInv /\ [Next]_vars => [Survive]_vars
  <2> SUFFICES ASSUME IInv, Next, sweep > 0 PROVE Survive
    BY DEF IInv
  <2>1. sweep \in 1 .. Len(clients) /\ clients \in Seq(Client)
    BY DEF IInv, TypeOK, SweepInList
  <2>2. KeepClient \/ ReleaseClient
    BY <2>1 DEF Next, StartHub, StopHub, HandleMessage, BeginTimeoutChecks, Tick,
                IInv, StoppedHubIsEmpty
  <2>3. CASE KeepClient
    BY <2>3 DEF KeepClient
  <2>4. CASE ReleaseClient
    <3>1. clients' = Slide(clients, sweep, "forward")
      BY <2>4 DEF ReleaseClient, ForwardCopy
    <3> QED
      BY <2>1, <3>1, SlideForward
  <2> QED
    BY <2>2, <2>3, <2>4
<1> QED
  BY <1>1, InductiveInvariant, PTL DEF Spec, RemovalTakesOnlyThePassedClient

(* With real port numbers, different entries have different addresses.     *)
LEMMA DistinctAddresses ==
  ASSUME RealPorts, NEW list \in Seq(Client),
         \A i \in DOMAIN list : list[i].port \in Port,
         \A i, j \in DOMAIN list : list[i].port = list[j].port => i = j
  PROVE  \A i, j \in DOMAIN Addresses(list) :
           Addresses(list)[i] = Addresses(list)[j] => i = j
<1>1. \A p \in 0 .. PortSpace - 1 : p % PortSpace = p
  BY HubConstants
<1>2. \A i \in DOMAIN list : Addresses(list)[i] = list[i].port
  BY <1>1, AddressesAreInts DEF RealPorts
<1> QED
  BY <1>2, AddressesAreInts

(* No program is sent a message twice, whatever the list went through.     *)
THEOREM NoDuplicates ==
  ASSUME ForwardCopy, RealPorts
  PROVE  Spec => []NoDuplicateDelivery
<1>1. Init => NoDuplicateDelivery
  BY DEF Init, NoDuplicateDelivery
<1>2. NoDuplicateDelivery /\ IInv' /\ [Next]_vars => NoDuplicateDelivery'
  <2> SUFFICES ASSUME NoDuplicateDelivery, IInv', [Next]_vars
               PROVE  NoDuplicateDelivery'
    OBVIOUS
  <2>1. CASE sent' = sent
    BY <2>1 DEF NoDuplicateDelivery
  <2>2. ASSUME NEW m \in Message, HandleMessage(m)
        PROVE  NoDuplicateDelivery'
    <3>1. sent' = Addresses(clients') \/ sent' = << >>
      BY <2>2 DEF HandleMessage, Rebroadcast
    <3>2. CASE sent' = Addresses(clients')
      <4>1. /\ clients' \in Seq(Client)
            /\ \A i \in DOMAIN clients' : clients'[i].port \in Port
            /\ \A i, j \in DOMAIN clients' : clients'[i].port = clients'[j].port => i = j
        BY DEF IInv, TypeOK, OnlyRealPorts, UniquePorts
      <4>2. \A i, j \in DOMAIN Addresses(clients') :
              Addresses(clients')[i] = Addresses(clients')[j] => i = j
        BY <4>1, DistinctAddresses
      <4> QED
        BY <3>2, <4>2 DEF NoDuplicateDelivery
    <3>3. CASE sent' = << >>
      BY <3>3 DEF NoDuplicateDelivery
    <3> QED
      BY <3>1, <3>2, <3>3
  <2>3. ASSUME StartHub \/ StopHub \/ BeginTimeoutChecks \/ KeepClient \/ ReleaseClient \/ Tick
        PROVE  sent' = sent
    BY <2>3 DEF StartHub, StopHub, BeginTimeoutChecks, KeepClient, ReleaseClient, Tick
  <2>4. ASSUME UNCHANGED vars
        PROVE  sent' = sent
    BY <2>4 DEF vars
  <2> QED
    BY <2>1, <2>2, <2>3, <2>4 DEF Next
<1> QED
  BY <1>1, <1>2, InductiveInvariant, PTL DEF Spec

(* A program that enters the list is sent the very message that put it     *)
(* there, whenever that message is forwarded at all.                       *)
THEOREM EchoReachesNewcomer ==
  ASSUME ForwardCopy
  PROVE  Spec => AnnounceIsEchoed
<1> DEFINE Echoed ==
      \A i \in DOMAIN clients' :
        clients'[i].port \notin Ports /\ sent' # << >>
          => Address(clients'[i]) \in {sent'[k] : k \in DOMAIN sent'}
<1>1. IInv /\ IInv' /\ [Next]_vars => [Echoed]_vars
  <2> SUFFICES ASSUME IInv, IInv', [Next]_vars PROVE [Echoed]_vars
    OBVIOUS
  <2>1. ASSUME NEW m \in Message, HandleMessage(m)
        PROVE  Echoed
    <3>1. sent' = Addresses(clients') \/ sent' = << >>
      BY <2>1 DEF HandleMessage, Rebroadcast
    <3> QED
      BY <3>1 DEF Addresses
  <2>2. ASSUME \A i \in DOMAIN clients' : clients'[i].port \in Ports
        PROVE  Echoed
    BY <2>2
  <2>3. ASSUME StartHub \/ StopHub \/ BeginTimeoutChecks \/ KeepClient
        PROVE  \A i \in DOMAIN clients' : clients'[i].port \in Ports
    BY <2>3 DEF StartHub, StopHub, BeginTimeoutChecks, KeepClient, Ports
  <2>4. ASSUME Tick
        PROVE  \A i \in DOMAIN clients' : clients'[i].port \in Ports
    <3>1. DOMAIN clients' = DOMAIN clients
      BY <2>4 DEF Tick
    <3>2. ASSUME NEW i \in DOMAIN clients PROVE clients'[i].port = clients[i].port
      <4>1. clients[i] \in Client
        BY ElementOfSeq, LenProperties DEF IInv, TypeOK
      <4>2. clients'[i] = [clients[i] EXCEPT !.silent = Aged(clients[i].silent)]
        BY <2>4 DEF Tick
      <4> QED
        BY <4>1, <4>2 DEF Client
    <3> QED
      BY <3>1, <3>2 DEF Ports
  <2>5. ASSUME ReleaseClient
        PROVE  \A i \in DOMAIN clients' : clients'[i].port \in Ports
    <3>1. /\ clients \in Seq(Client) /\ DOMAIN clients = 1 .. Len(clients)
          /\ sweep \in 1 .. Len(clients) /\ Len(clients) \in Nat
      BY <2>5, LenProperties DEF IInv, TypeOK, SweepInList, ReleaseClient
    <3>2. clients' = Slide(clients, sweep, "forward")
      BY <2>5 DEF ReleaseClient, ForwardCopy
    <3>3. \A j \in DOMAIN clients' :
            /\ j \in 1 .. Len(clients) - 1
            /\ clients'[j] = IF j < sweep THEN clients[j] ELSE clients[j + 1]
      BY <3>1, <3>2, SlideForward
    <3>4. \A j \in DOMAIN clients' : \E i \in DOMAIN clients : clients'[j] = clients[i]
      BY <3>1, <3>3
    <3> QED
      BY <3>4 DEF Ports
  <2> QED
    BY <2>1, <2>2, <2>3, <2>4, <2>5 DEF Next
<1> QED
  BY <1>1, InductiveInvariant, PTL DEF Spec, AnnounceIsEchoed

-----------------------------------------------------------------------------
(* The hub implements its table of leases.                                 *)

LeaseOf(c) == [port |-> c.port, interval |-> c.interval, silent |-> c.silent]
Table(list) == {LeaseOf(list[i]) : i \in DOMAIN list}
Renewed(table, l) ==
  {x \in table : x.port # l.port}
    \cup {[port |-> l.port, interval |-> l.interval, silent |-> 0]}

(* Whole minutes counted with an integer division never run ahead of time: *)
(* a client the loop finds timed out has used up its lease.                *)
LEMMA TimedOutIsExpired ==
  ASSUME NEW c \in Client, TimedOut(c)
  PROVE  c.silent >= (2 * c.interval + 1) * Minute
<1>1. c.silent \in Nat /\ c.interval \in Int /\ Minute \in Nat /\ Minute > 0
  BY HubConstants DEF Client
<1> DEFINE q == c.silent \div Minute
           k == 2 * c.interval + 1
<1>2. q \in Int /\ k \in Int /\ q >= k
  BY <1>1 DEF TimedOut
<1>3. c.silent >= q * Minute
  BY <1>1
<1> HIDE DEF q, k
<1>4. q * Minute >= k * Minute
  BY <1>1, <1>2
<1>5. q * Minute \in Int /\ k * Minute \in Int
  BY <1>1, <1>2
<1>6. c.silent >= k * Minute
  BY <1>1, <1>3, <1>4, <1>5
<1> QED
  BY <1>6 DEF k

(* A table where the entry of one port was replaced, or added, is the old  *)
(* table with that port's lease renewed.                                   *)
LEMMA RenewedTable ==
  ASSUME NEW list \in Seq(Client), NEW new \in Seq(Client),
         NEW k \in DOMAIN new, new[k].silent = 0,
         \A i, j \in DOMAIN list : list[i].port = list[j].port => i = j,
         \A i, j \in DOMAIN new : new[i].port = new[j].port => i = j,
         \A i \in DOMAIN list : list[i].port # new[k].port => i \in DOMAIN new /\ new[i] = list[i],
         \A i \in DOMAIN new \ {k} : i \in DOMAIN list /\ new[i] = list[i]
  PROVE  /\ LeaseOf(new[k]) \in Table(new)
         /\ LeaseOf(new[k]).silent = 0
         /\ Table(new) = Renewed(Table(list), LeaseOf(new[k]))
<1> DEFINE fresh == LeaseOf(new[k])
<1>1. fresh \in Table(new) /\ fresh.silent = 0 /\ fresh.port = new[k].port
  BY DEF Table, LeaseOf
<1>2. fresh = [port |-> fresh.port, interval |-> fresh.interval, silent |-> 0]
  BY DEF LeaseOf
<1>3. ASSUME NEW l \in Table(new), l # fresh
      PROVE  l \in Table(list) /\ l.port # fresh.port
  <2>1. PICK i \in DOMAIN new : l = LeaseOf(new[i])
    BY DEF Table
  <2>2. i # k
    BY <1>3, <2>1
  <2>3. i \in DOMAIN list /\ new[i] = list[i] /\ new[i].port # new[k].port
    BY <2>2
  <2> QED
    BY <2>1, <2>3 DEF Table, LeaseOf
<1>4. ASSUME NEW l \in Table(list), l.port # fresh.port
      PROVE  l \in Table(new)
  <2>1. PICK i \in DOMAIN list : l = LeaseOf(list[i])
    BY DEF Table
  <2>2. list[i].port # new[k].port
    BY <1>1, <1>4, <2>1 DEF LeaseOf
  <2> QED
    BY <2>1, <2>2 DEF Table
<1> HIDE DEF fresh
<1>5. Table(new) = {l \in Table(list) : l.port # fresh.port} \cup {fresh}
  BY <1>1, <1>3, <1>4
<1> QED
  BY <1>1, <1>2, <1>5 DEF fresh, Renewed

(* Facts about the list that every case below starts from.                 *)
LEMMA ListFacts ==
  ASSUME IInv
  PROVE  /\ clients \in Seq(Client)
         /\ Len(clients) \in Nat
         /\ DOMAIN clients = 1 .. Len(clients)
         /\ \A i \in DOMAIN clients : clients[i] \in Client
         /\ \A i, j \in DOMAIN clients : clients[i].port = clients[j].port => i = j
BY LenProperties, ElementOfSeq DEF IInv, TypeOK, UniquePorts

(* A heartbeat the hub takes in, from a new client or a known one, grants  *)
(* or renews one lease.                                                    *)
LEMMA AnnouncementRenews ==
  ASSUME IInv, IInv', NEW m \in Message, AddNewClient(m) \/ RefreshClient(m)
  PROVE  \E l \in Table(clients') :
           l.silent = 0 /\ Table(clients') = Renewed(Table(clients), l)
<1>1. /\ clients \in Seq(Client) /\ Len(clients) \in Nat /\ DOMAIN clients = 1 .. Len(clients)
      /\ \A i, j \in DOMAIN clients : clients[i].port = clients[j].port => i = j
      /\ \A i \in DOMAIN clients : clients[i] \in Client
  BY ListFacts
<1>2. /\ clients' \in Seq(Client)
      /\ \A i, j \in DOMAIN clients' : clients'[i].port = clients'[j].port => i = j
  BY DEF IInv, TypeOK, UniquePorts
<1>3. CASE AddNewClient(m)
  <2>1. PICK s \in Socket \ openSockets :
          clients' = Append(clients, [port     |-> m.port,
                                      interval |-> HeartbeatInterval(m),
                                      silent   |-> 0,
                                      socket   |-> s])
    BY <1>3 DEF AddNewClient
  <2> DEFINE new == [port     |-> m.port,
                     interval |-> HeartbeatInterval(m),
                     silent   |-> 0,
                     socket   |-> s]
             k == Len(clients) + 1
  <2>2. new.port = m.port /\ new.silent = 0
    OBVIOUS
  <2> HIDE DEF new
  <2>3. clients' = Append(clients, new)
    BY <2>1 DEF new
  <2>4. /\ DOMAIN clients' = 1 .. k /\ k \in DOMAIN clients'
        /\ clients'[k] = new
        /\ \A i \in 1 .. Len(clients) : clients'[i] = clients[i]
    BY <1>1, <2>3
  <2>5. \A i \in DOMAIN clients : i \in DOMAIN clients' /\ clients'[i] = clients[i]
    BY <1>1, <2>4
  <2>6. \A i \in DOMAIN clients' \ {k} : i \in DOMAIN clients /\ clients'[i] = clients[i]
    BY <1>1, <2>4
  <2> HIDE DEF k
  <2>7. /\ clients \in Seq(Client)
        /\ \A i, j \in DOMAIN clients : clients[i].port = clients[j].port => i = j
    BY <1>1
  <2>8. k \in DOMAIN clients' /\ clients'[k].silent = 0
    BY <2>2, <2>4
  <2>9. \A i \in DOMAIN clients : clients[i].port # clients'[k].port =>
          i \in DOMAIN clients' /\ clients'[i] = clients[i]
    BY <2>5
  <2>10. /\ LeaseOf(clients'[k]) \in Table(clients')
         /\ LeaseOf(clients'[k]).silent = 0
         /\ Table(clients') = Renewed(Table(clients), LeaseOf(clients'[k]))
    BY <1>2, <2>6, <2>7, <2>8, <2>9, RenewedTable
  <2> QED
    BY <2>10
<1>4. CASE RefreshClient(m)
  <2> DEFINE k == IndexOf(m.port)
  <2>1. k \in DOMAIN clients
    BY <1>1, <1>4, IndexOfKnown DEF IInv, RefreshClient
  <2>2. clients' = [clients EXCEPT ![k] =
                      [@ EXCEPT !.interval = HeartbeatInterval(m), !.silent = 0]]
    BY <1>4 DEF RefreshClient
  <2> HIDE DEF k
  <2>3. DOMAIN clients' = DOMAIN clients
    BY <2>2
  <2>4. clients'[k].silent = 0 /\ clients'[k].port = clients[k].port
    BY <1>1, <2>1, <2>2 DEF Client
  <2>5. \A i \in DOMAIN clients \ {k} : clients'[i] = clients[i]
    BY <2>2
  <2>6. \A i \in DOMAIN clients : clients[i].port # clients'[k].port =>
          i \in DOMAIN clients' /\ clients'[i] = clients[i]
    BY <2>1, <2>3, <2>4, <2>5
  <2>7. clients'[k].silent = 0 /\ k \in DOMAIN clients'
    BY <2>1, <2>3, <2>4
  <2>8. \A i \in DOMAIN clients' \ {k} : i \in DOMAIN clients /\ clients'[i] = clients[i]
    BY <2>3, <2>5
  <2>9. /\ LeaseOf(clients'[k]) \in Table(clients')
        /\ LeaseOf(clients'[k]).silent = 0
        /\ Table(clients') = Renewed(Table(clients), LeaseOf(clients'[k]))
    BY <1>1, <1>2, <2>6, <2>7, <2>8, RenewedTable
  <2> QED
    BY <2>9
<1> QED
  BY <1>3, <1>4

(* A removal takes away exactly the lease of the client that timed out.    *)
LEMMA ReleaseExpires ==
  ASSUME ForwardCopy, IInv, ReleaseClient
  PROVE  \E l \in Table(clients) :
           /\ l.silent >= (2 * l.interval + 1) * Minute
           /\ Table(clients') = Table(clients) \ {l}
<1>1. /\ clients \in Seq(Client) /\ Len(clients) \in Nat /\ DOMAIN clients = 1 .. Len(clients)
      /\ \A i, j \in DOMAIN clients : clients[i].port = clients[j].port => i = j
      /\ \A i \in DOMAIN clients : clients[i] \in Client
      /\ sweep \in 1 .. Len(clients)
  BY ListFacts DEF IInv, TypeOK, SweepInList, ReleaseClient
<1>2. clients' = Slide(clients, sweep, "forward")
  BY DEF ReleaseClient, ForwardCopy
<1>0. clients \in Seq(Client) /\ sweep \in 1 .. Len(clients)
  BY <1>1
<1>3. \A j \in DOMAIN clients' :
        /\ j \in 1 .. Len(clients) - 1
        /\ clients'[j] = IF j < sweep THEN clients[j] ELSE clients[j + 1]
  BY <1>0, <1>2, SlideForward
<1>4. \A j \in DOMAIN clients' : \E i \in DOMAIN clients \ {sweep} : clients'[j] = clients[i]
  <2> TAKE j \in DOMAIN clients'
  <2>1. CASE j < sweep
    BY <1>1, <1>3, <2>1
  <2>2. CASE ~(j < sweep)
    <3>1. j + 1 \in DOMAIN clients \ {sweep}
      BY <1>1, <1>3, <2>2
    <3> QED
      BY <1>3, <2>2, <3>1
  <2> QED
    BY <2>1, <2>2
<1>5. \A k \in DOMAIN clients \ {sweep} : \E j \in DOMAIN clients' : clients'[j] = clients[k]
  BY <1>0, <1>2, SlideForward
<1> DEFINE gone == LeaseOf(clients[sweep])
<1>6. gone \in Table(clients) /\ gone.silent >= (2 * gone.interval + 1) * Minute
  <2>1. clients[sweep].silent >= (2 * clients[sweep].interval + 1) * Minute
    BY <1>1, TimedOutIsExpired DEF ReleaseClient
  <2> QED
    BY <1>1, <2>1 DEF Table, LeaseOf
<1>7. \A i \in DOMAIN clients \ {sweep} : LeaseOf(clients[i]) # gone
  BY <1>1 DEF LeaseOf
<1> HIDE DEF gone
<1>8. ASSUME NEW l \in Table(clients')
      PROVE  l \in Table(clients) \ {gone}
  BY <1>4, <1>7 DEF Table
<1>9. ASSUME NEW l \in Table(clients) \ {gone}
      PROVE  l \in Table(clients')
  <2>1. PICK i \in DOMAIN clients : l = LeaseOf(clients[i])
    BY DEF Table
  <2>2. i # sweep
    BY <1>9, <2>1 DEF gone
  <2>3. PICK j \in DOMAIN clients' : clients'[j] = clients[i]
    BY <1>5, <2>2
  <2> QED
    BY <2>1, <2>3 DEF Table
<1>10. Table(clients') = Table(clients) \ {gone}
  BY <1>8, <1>9
<1> QED
  BY <1>6, <1>10

(* A tick wears every lease by one.                                        *)
LEMMA TickWears ==
  ASSUME IInv, Tick
  PROVE  Table(clients') = {[l EXCEPT !.silent = Aged(l.silent)] : l \in Table(clients)}
<1>1. \A i \in DOMAIN clients : clients[i] \in Client
  BY ListFacts
<1>2. DOMAIN clients' = DOMAIN clients
  BY DEF Tick
<1>3. \A i \in DOMAIN clients :
        LeaseOf(clients'[i]) = [LeaseOf(clients[i]) EXCEPT !.silent = Aged(clients[i].silent)]
  <2> TAKE i \in DOMAIN clients
  <2>1. clients'[i] = [clients[i] EXCEPT !.silent = Aged(clients[i].silent)]
    BY DEF Tick
  <2>2. clients[i] \in Client
    BY <1>1
  <2>3. /\ clients'[i].port = clients[i].port
        /\ clients'[i].interval = clients[i].interval
        /\ clients'[i].silent = Aged(clients[i].silent)
    BY <2>1, <2>2 DEF Client
  <2> QED
    BY <2>3 DEF LeaseOf
<1>4. \A i \in DOMAIN clients : LeaseOf(clients[i]).silent = clients[i].silent
  BY DEF LeaseOf
<1> QED
  BY <1>2, <1>3, <1>4 DEF Table

(* The table of the refinement mapping, and the fact that it is Table.     *)
Mapped == {[port     |-> clients[i].port,
            interval |-> clients[i].interval,
            silent   |-> clients[i].silent] : i \in DOMAIN clients}

LEMMA MappedIsTable == Mapped = Table(clients) /\ Mapped' = Table(clients')
BY DEF Mapped, Table, LeaseOf

(* Each step of the hub is a step of the lease table or leaves it alone.   *)
LEMMA StepImplementsLeases ==
  ASSUME ForwardCopy, IInv, IInv', [Next]_vars
  PROVE  [Leases!Next]_Mapped
<1>1. ASSUME NEW m \in Message, HandleMessage(m)
      PROVE  [Leases!Next]_Mapped
  <2>1. CASE AddNewClient(m) \/ RefreshClient(m)
    <3>1. PICK l \in Table(clients') :
            l.silent = 0 /\ Table(clients') = Renewed(Table(clients), l)
      BY <2>1, AnnouncementRenews
    <3>2. \E x \in Mapped' : x.silent = 0 /\ Leases!Renew(x.port, x.interval)
      BY <3>1, MappedIsTable DEF Leases!Renew, Renewed, Mapped
    <3> QED
      BY <3>2 DEF Leases!Next, Mapped
  <2>2. CASE IgnoreMessage(m) \/ AddNewClientFails(m)
    BY <2>2 DEF IgnoreMessage, AddNewClientFails, Mapped
  <2> QED
    BY <1>1, <2>1, <2>2 DEF HandleMessage
<1>2. CASE StartHub
  BY <1>2 DEF StartHub, Mapped
<1>3. CASE StopHub
  <2>1. clients' = << >> /\ DOMAIN << >> = {}
    BY <1>3 DEF StopHub
  <2>2. Mapped' = {}
    BY <2>1 DEF Mapped
  <2> QED
    BY <2>2 DEF Leases!Next, Leases!HubStops, Mapped
<1>4. CASE BeginTimeoutChecks
  BY <1>4 DEF BeginTimeoutChecks, Mapped
<1>5. CASE KeepClient
  BY <1>5 DEF KeepClient, Mapped
<1>6. CASE ReleaseClient
  <2>1. \E l \in Mapped :
          l.silent >= (2 * l.interval + 1) * Minute /\ Mapped' = Mapped \ {l}
    BY <1>6, ReleaseExpires, MappedIsTable
  <2> QED
    BY <2>1 DEF Leases!Next, Leases!Expire, Mapped
<1>7. CASE Tick
  <2>1. Mapped' = {[l EXCEPT !.silent = Aged(l.silent)] : l \in Mapped}
    BY <1>7, TickWears, MappedIsTable
  <2> QED
    BY <2>1 DEF Leases!Next, Leases!Tick, Leases!Wear, Aged, Mapped
<1>8. CASE UNCHANGED vars
  BY <1>8 DEF vars, Mapped
<1> QED
  BY <1>1, <1>2, <1>3, <1>4, <1>5, <1>6, <1>7, <1>8 DEF Next

(* The hub implements the lease table: on every behaviour, a heartbeat     *)
(* grants or renews one lease, and the removal loop of                     *)
(* doClientTimeoutChecks, entry by entry, only takes away leases that      *)
(* were overdue.                                                           *)
THEOREM HubImplementsLeases ==
  ForwardCopy => (Spec => ImplementsLeases)
<1> SUFFICES ASSUME ForwardCopy PROVE Spec => ImplementsLeases
  OBVIOUS
<1>1. Init => Leases!Init
  <2>1. DOMAIN << >> = {}
    OBVIOUS
  <2> QED
    BY <2>1 DEF Init, Leases!Init
<1>2. IInv /\ IInv' /\ [Next]_vars => [Leases!Next]_Mapped
  BY StepImplementsLeases
<1>3. Spec => []IInv
  BY InductiveInvariant
<1> QED
  BY <1>1, <1>2, <1>3, PTL DEF Spec, ImplementsLeases, Leases!Spec, Mapped
=============================================================================
