------------------------------- MODULE XplHub -------------------------------
(***************************************************************************)
(* The xPL hub (src/xPLLib/xPL-hub.c): it learns the local xPL programs    *)
(* from their heartbeats, keeps one socket per program, forwards every     *)
(* message it hears to all of them and drops the ones it has not heard     *)
(* from for too long.                                                      *)
(*                                                                         *)
(* The library is single threaded: a message handler or a timeout handler  *)
(* runs to its end before anything else happens.  The loop of the timeout  *)
(* handler takes one step per client here; sweep > 0 while it runs, and    *)
(* every other action waits for sweep = 0.                                 *)
(*                                                                         *)
(* Time.  The code stores time(NULL) stamps and only ever looks at the     *)
(* difference to now.  The model keeps that difference (an age, in ticks), *)
(* so that time needs no bound: an age stops growing at AgeCap, past which *)
(* no comparison of the code changes any more (AgeCapReachesEveryLimit).   *)
(***************************************************************************)
EXTENDS Integers, Sequences

CONSTANTS
  Port,              \* the values a "port" item can carry
  AnnouncedInterval, \* the values an "interval" item can carry
  NoInterval,        \* the "interval" item is missing or not a number
  Socket,            \* the descriptors the kernel can hand out
  PortSpace,         \* UDP ports are taken modulo this (2^16 in the code)
  Minute,            \* ticks per minute
  DefaultInterval,   \* minutes assumed without an interval (5 in the code)
  MaxInterval,       \* longest interval believed, minutes (30 in the code)
  GrowBy,            \* GROW_CLIENT_LIST_BY (8 in the code)
  AgeCap,            \* bound: ages saturate here
  CopyOrder          \* the directions memcpy may copy in, see Slide

NoPort == -1         \* the port is missing or not a number

(* What a limit can be at most: MaxInterval, or DefaultInterval.           *)
Limit(interval) == (2 * interval + 1) * Minute

ASSUME HubConstants ==
  /\ Port \subseteq Int
  /\ AnnouncedInterval \subseteq Int
  /\ NoInterval \notin Int
  /\ PortSpace \in Nat \ {0}
  /\ Minute \in Nat \ {0}
  /\ DefaultInterval \in Nat
  /\ MaxInterval \in Nat
  /\ GrowBy \in Nat \ {0}
  /\ AgeCap \in Nat
  /\ CopyOrder \subseteq {"forward", "backward"}

ASSUME AgeCapReachesEveryLimit ==
  \A i \in {DefaultInterval, MaxInterval} : Limit(i) <= AgeCap

VARIABLES
  hubRunning,   \* hubRunning
  clients,      \* clientList[0 .. clientCount-1], as a sequence
  allocCount,   \* clientAllocCount
  openSockets,  \* the descriptors this module holds open
  sinceCheck,   \* now - lastTimedoutAt of the hub's timeout handler
  sweep,        \* clientIndex + 1 inside doClientTimeoutChecks, else 0
  sent          \* addresses the last message handled was forwarded to

vars == <<hubRunning, clients, allocCount, openSockets, sinceCheck, sweep, sent>>

Client == [port : Int, interval : Int, silent : Nat, socket : Socket]

(* What the hub reads in a message: is it of class hbeat or config, does   *)
(* its remote-ip name this host, is its type "end", does it fit the send   *)
(* buffer once formatted again, and its port and interval items.           *)
Message ==
  [heartbeat : BOOLEAN, local : BOOLEAN, signoff : BOOLEAN, fits : BOOLEAN,
   port : Port \cup {NoPort}, interval : AnnouncedInterval \cup {NoInterval}]

-----------------------------------------------------------------------------
(* The definitions named Wrong... are slips the properties must notice: each *)
(* stands before the definition it would replace and is used nowhere else. *)

(* A missing interval taken as it comes.                                   *)
WrongInterval(m) ==
  IF m.interval # NoInterval /\ m.interval > MaxInterval THEN MaxInterval ELSE m.interval

(* getHeartbeatInterval: defaulted when absent, cut at the top only.       *)
HeartbeatInterval(m) ==
  CASE m.interval = NoInterval  -> DefaultInterval
    [] m.interval > MaxInterval -> MaxInterval
    [] OTHER                    -> m.interval

Ports == {clients[i].port : i \in DOMAIN clients}

(* The search loop starts one entry late.                                  *)
WrongKnown(port) == \E i \in DOMAIN clients : i > 1 /\ clients[i].port = port

Known(port) == \E i \in DOMAIN clients : clients[i].port = port

(* findClientByPort: the first entry with that port.                       *)
IndexOf(port) ==
  CHOOSE i \in DOMAIN clients :
    /\ clients[i].port = port
    /\ \A j \in DOMAIN clients : clients[j].port = port => i <= j

(* htons(clientPort): only the low bits of the port reach the address.     *)
Address(c) == c.port % PortSpace

Addresses(list) == [i \in DOMAIN list |-> Address(list[i])]

(* One entry too few moved down.                                           *)
WrongSlide(list, i, order) ==
  [j \in 1 .. Len(list) - 1 |->
     IF j < i \/ j = Len(list) - 1 THEN list[j] ELSE list[j + 1]]

(* The list without its i-th entry.  The code moves the tail down with     *)
(* memcpy although source and destination overlap, which C leaves          *)
(* undefined: a memcpy that copies from the low end moves every entry; one *)
(* that copies from the high end reads entries it has overwritten already, *)
(* so that the last entry fills the whole tail.                            *)
Slide(list, i, order) ==
  [j \in 1 .. Len(list) - 1 |->
     IF j < i THEN list[j]
     ELSE IF order = "forward" THEN list[j + 1] ELSE list[Len(list)]]

Aged(age) == IF age < AgeCap THEN age + 1 ELSE age

(* Expires one minute early.                                               *)
WrongTimedOut(c) == c.silent \div Minute >= 2 * c.interval

(* The condition under which doClientTimeoutChecks removes an entry.       *)
TimedOut(c) == c.silent \div Minute >= 2 * c.interval + 1

-----------------------------------------------------------------------------
Init ==
  /\ hubRunning = FALSE
  /\ clients = << >>
  /\ allocCount = 0
  /\ openSockets = {}
  /\ sinceCheck = 0
  /\ sweep = 0
  /\ sent = << >>

(* xPL_startHub; a call on a running hub changes nothing.                  *)
StartHub ==
  /\ ~hubRunning
  /\ hubRunning' = TRUE
  /\ sinceCheck' = 0
  /\ UNCHANGED <<clients, allocCount, openSockets, sweep, sent>>

(* xPL_stopHub: handlers removed, every client released, last one first.   *)
(* The allocation is kept.                                                 *)
StopHub ==
  /\ hubRunning
  /\ sweep = 0
  /\ hubRunning' = FALSE
  /\ clients' = << >>
  /\ openSockets' = openSockets \ {clients[i].socket : i \in DOMAIN clients}
  /\ sinceCheck' = 0
  /\ UNCHANGED <<allocCount, sweep, sent>>

(* checkForClientUpdates, the early returns.                               *)
IgnoreMessage(m) ==
  /\ \/ ~m.heartbeat
     \/ ~m.local
     \/ m.port = NoPort
     \/ m.signoff /\ ~Known(m.port)
  /\ UNCHANGED <<clients, allocCount, openSockets>>

(* Grows one addition late.                                                *)
WrongGrowList ==
  allocCount' = IF Len(clients) > allocCount THEN allocCount + GrowBy ELSE allocCount

(* addNewClient, first lines: the list grows when it is full.              *)
GrowList ==
  allocCount' = IF Len(clients) = allocCount THEN allocCount + GrowBy ELSE allocCount

(* checkForClientUpdates on a port not in the list, and addNewClient.      *)
AddNewClient(m) ==
  /\ m.heartbeat /\ m.local /\ m.port # NoPort
  /\ ~Known(m.port) /\ ~m.signoff
  /\ GrowList
  /\ \E s \in Socket \ openSockets :
       /\ clients' = Append(clients, [port     |-> m.port,
                                      interval |-> HeartbeatInterval(m),
                                      silent   |-> 0,
                                      socket   |-> s])
       /\ openSockets' = openSockets \cup {s}

(* The socket stays open when setsockopt fails.                            *)
WrongAddNewClientFails(m) ==
  /\ m.heartbeat /\ m.local /\ m.port # NoPort
  /\ ~Known(m.port) /\ ~m.signoff
  /\ GrowList
  /\ \E s \in Socket \ openSockets : openSockets' = openSockets \cup {s}
  /\ UNCHANGED clients

(* addNewClient when getprotobyname, socket or setsockopt fails: the entry *)
(* is taken back, and a socket already open is closed.                     *)
AddNewClientFails(m) ==
  /\ m.heartbeat /\ m.local /\ m.port # NoPort
  /\ ~Known(m.port) /\ ~m.signoff
  /\ GrowList
  /\ UNCHANGED <<clients, openSockets>>

(* checkForClientUpdates on a port in the list.  A sign-off is not told    *)
(* from a heartbeat here: it renews the entry like one.                    *)
RefreshClient(m) ==
  /\ m.heartbeat /\ m.local /\ m.port # NoPort
  /\ Known(m.port)
  /\ clients' = [clients EXCEPT ![IndexOf(m.port)].interval = HeartbeatInterval(m),
                                ![IndexOf(m.port)].silent = 0]
  /\ UNCHANGED <<allocCount, openSockets>>

(* Forwards to the clients known before the message.                       *)
WrongRebroadcast(m) == sent' = IF m.fits THEN Addresses(clients) ELSE << >>

(* rebroadcastMessageToClients, after the list was updated: one sendto per *)
(* entry whatever the result of the others; nothing for a message that     *)
(* cannot be formatted.                                                    *)
Rebroadcast(m) == sent' = IF m.fits THEN Addresses(clients') ELSE << >>

(* handleXPLMessage.                                                       *)
HandleMessage(m) ==
  /\ hubRunning
  /\ sweep = 0
  /\ \/ IgnoreMessage(m)
     \/ AddNewClient(m)
     \/ AddNewClientFails(m)
     \/ RefreshClient(m)
  /\ Rebroadcast(m)
  /\ UNCHANGED <<hubRunning, sinceCheck, sweep>>

(* The loop leaves out the last entry.                                     *)
WrongBeginTimeoutChecks ==
  /\ hubRunning
  /\ sweep = 0
  /\ sinceCheck >= Minute
  /\ sweep' = IF clients = << >> THEN 0 ELSE Len(clients) - 1
  /\ sinceCheck' = 0
  /\ UNCHANGED <<hubRunning, clients, allocCount, openSockets, sent>>

(* checkAllTimeoutHandlers calls doClientTimeoutChecks once a minute.      *)
BeginTimeoutChecks ==
  /\ hubRunning
  /\ sweep = 0
  /\ sinceCheck >= Minute
  /\ sweep' = Len(clients)
  /\ sinceCheck' = 0
  /\ UNCHANGED <<hubRunning, clients, allocCount, openSockets, sent>>

(* One turn of the loop of doClientTimeoutChecks, for a client heard from. *)
KeepClient ==
  /\ sweep > 0
  /\ ~TimedOut(clients[sweep])
  /\ sweep' = sweep - 1
  /\ UNCHANGED <<hubRunning, clients, allocCount, openSockets, sinceCheck, sent>>

(* The index stays where it is after a removal, as in a loop that goes up. *)
WrongReleaseClient ==
  /\ sweep > 0
  /\ TimedOut(clients[sweep])
  /\ \E order \in CopyOrder : clients' = Slide(clients, sweep, order)
  /\ openSockets' = openSockets \ {clients[sweep].socket}
  /\ UNCHANGED <<hubRunning, allocCount, sinceCheck, sweep, sent>>

(* The same for a client that timed out, with releaseClient.               *)
ReleaseClient ==
  /\ sweep > 0
  /\ TimedOut(clients[sweep])
  /\ \E order \in CopyOrder : clients' = Slide(clients, sweep, order)
  /\ openSockets' = openSockets \ {clients[sweep].socket}
  /\ sweep' = sweep - 1
  /\ UNCHANGED <<hubRunning, allocCount, sinceCheck, sent>>

Tick ==
  /\ sweep = 0
  /\ sinceCheck' = IF hubRunning THEN Aged(sinceCheck) ELSE sinceCheck
  /\ clients' = [i \in DOMAIN clients |->
                   [clients[i] EXCEPT !.silent = Aged(clients[i].silent)]]
  /\ UNCHANGED <<hubRunning, allocCount, openSockets, sweep, sent>>

Next ==
  \/ StartHub
  \/ StopHub
  \/ \E m \in Message : HandleMessage(m)
  \/ BeginTimeoutChecks
  \/ KeepClient
  \/ ReleaseClient
  \/ Tick

Spec == Init /\ [][Next]_vars

(* Time passes, and the program that runs the hub keeps calling            *)
(* xPL_processMessages, which runs the timeout handlers that are due and   *)
(* never leaves their loop half way.                                       *)
FairSpec ==
  /\ Spec
  /\ WF_vars(Tick)
  /\ WF_vars(BeginTimeoutChecks)
  /\ WF_vars(KeepClient \/ ReleaseClient)

-----------------------------------------------------------------------------
TypeOK ==
  /\ hubRunning \in BOOLEAN
  /\ clients \in Seq(Client)
  /\ allocCount \in Nat
  /\ openSockets \subseteq Socket
  /\ sinceCheck \in Nat
  /\ sweep \in Nat
  /\ sent \in Seq(Int)

(* A port is registered once: findClientByPort decides alone who is new,   *)
(* and neither a failed registration, a removal in the middle of the loop  *)
(* nor a restart of the hub leaves a second entry behind.                  *)
UniquePorts ==
  \A i, j \in DOMAIN clients : clients[i].port = clients[j].port => i = j

(* The hub holds exactly one open socket per entry of the list, and no two *)
(* entries share one: none leaks on an error path, on removal or when the  *)
(* hub stops.                                                              *)
NoSocketLeak ==
  /\ openSockets = {clients[i].socket : i \in DOMAIN clients}
  /\ \A i, j \in DOMAIN clients : clients[i].socket = clients[j].socket => i = j

(* No entry is written past the allocated list, whatever the order of      *)
(* additions, failed additions, removals and restarts.                     *)
WithinAllocation == Len(clients) <= allocCount

(* No program gets a message twice from the hub.                           *)
NoDuplicateDelivery ==
  \A i, j \in DOMAIN sent : sent[i] = sent[j] => i = j

(* The loop index of doClientTimeoutChecks stays inside the list although  *)
(* the loop removes entries from the list it walks.                        *)
SweepInList == sweep <= Len(clients)

(* A program is registered by its own heartbeat before that heartbeat is   *)
(* forwarded, so that it hears the echo it waits for (isHubEcho): whenever *)
(* a port enters the list, the message that did it is sent to it too.      *)
AnnounceIsEchoed ==
  [][\A i \in DOMAIN clients' :
       clients'[i].port \notin Ports /\ sent' # << >>
         => Address(clients'[i]) \in {sent'[k] : k \in DOMAIN sent'}]_vars

(* The hub keeps its promise as a table of leases: what happens to the     *)
(* list, entry by entry and in the middle of a removal loop, is a grant, a *)
(* renewal, an expiry that was due or the end of the hub.                  *)
Leases == INSTANCE HubLeases WITH
  leases <- {[port     |-> clients[i].port,
              interval |-> clients[i].interval,
              silent   |-> clients[i].silent] : i \in DOMAIN clients}

ImplementsLeases == Leases!Spec

(* releaseClient, "Given the passed client, remove it from our list": when *)
(* the timeout check removes an entry, every other entry is still there.   *)
RemovalTakesOnlyThePassedClient ==
  [][sweep > 0 =>
       \A i \in DOMAIN clients \ {sweep} :
         \E j \in DOMAIN clients' : clients'[j] = clients[i]]_vars

Overdue(port) ==
  \E i \in DOMAIN clients :
    clients[i].port = port /\ clients[i].silent >= Limit(clients[i].interval)

(* A client silent past its limit is eventually heard again or dropped.    *)
SilentClientIsDropped ==
  \A port \in Port : Overdue(port) ~> ~Overdue(port)
=============================================================================
