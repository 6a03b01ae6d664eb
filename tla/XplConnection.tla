--------------------------- MODULE XplConnection ---------------------------
(***************************************************************************)
(* How xPLLib connects to the network (src/xPLLib/xPL-io.c): a socket to   *)
(* broadcast from, on the interface chosen, and a socket to listen on,     *)
(* bound to the xPL port or, if that is a hub's, to a port of its own.     *)
(* Each of the calls to the system this takes may fail, and the functions  *)
(* undo what they did before they say so.  An operator yields the outcomes *)
(* its function may have: what it returns and the connection it leaves.    *)
(***************************************************************************)
EXTENDS Integers

CONSTANTS
  Interface,    \* the network interfaces that are up and not a loopback
  AssignedPort  \* the ports the system assigns to who asks for any

BASE_XPL_PORT == "3865"
Closed == "closed"
NoInterface == ""

ASSUME ConnectionConstants ==
  /\ {BASE_XPL_PORT, Closed} \cap AssignedPort = {}
  /\ NoInterface \notin Interface

ConnectType == {"xcStandAlone", "xcViaHub", "xcAuto"}
Port == AssignedPort \cup {BASE_XPL_PORT}

(* bound: the port xPLFD is bound to; port: xPLPort; type: xPLconnectType; *)
(* broadcast: whether xPLBroadcastFD is a socket; interface:               *)
(* xPLInterfaceName; open: the sockets the library has open.               *)
Connection ==
  [bound : Port \cup {Closed}, port : Port, type : ConnectType,
   broadcast : BOOLEAN, interface : Interface \cup {NoInterface}, open : Nat]

NoConnection ==
  [bound |-> Closed, port |-> BASE_XPL_PORT, type |-> "xcViaHub",
   broadcast |-> FALSE, interface |-> NoInterface, open |-> 0]

Outcome(ok, net) == [ok |-> ok, net |-> net]

(* A socket is made, and closed if one of the calls that prepare it fails. *)
Opened(net) == [net EXCEPT !.open = @ + 1]
ClosedAgain(net) == [net EXCEPT !.open = @ - 1]
Fails(net) == {Outcome(FALSE, net), Outcome(FALSE, ClosedAgain(Opened(net)))}

(* The interface is not changed while it is in use.                        *)
SetBroadcastInterface(net, newInterfaceName) ==
  IF net.bound # Closed THEN net ELSE [net EXCEPT !.interface = newInterfaceName]

(* The first that will do; the choice stays.                               *)
FindDefaultInterface(net) ==
  {Outcome(FALSE, net)} \cup {Outcome(TRUE, [net EXCEPT !.interface = i]) : i \in Interface}

(* The socket an earlier attempt left in xPLBroadcastFD is not closed.     *)
SetupBroadcastAddr(net) ==
  LET chosen == IF net.interface = NoInterface THEN FindDefaultInterface(net)
                ELSE {Outcome(TRUE, net)} IN
  UNION {IF c.ok THEN Fails(c.net) \cup {Outcome(TRUE, [Opened(c.net) EXCEPT !.broadcast = TRUE])}
                 ELSE Fails(c.net) : c \in chosen}

(* The socket bound becomes xPLFD; that it blocks, or has a small buffer,  *)
(* is put up with.                                                         *)
Listening(net, port, type) ==
  Outcome(TRUE, [Opened(net) EXCEPT !.bound = port, !.port = port, !.type = type])

AttemptStandaloneConnection(net) == Fails(net) \cup {Listening(net, net.port, "xcStandAlone")}

AttempHubConnection(net) ==
  Fails(net) \cup {Listening(net, p, "xcViaHub") : p \in AssignedPort}

MakeConnection(net, theConnectType) ==
  CASE theConnectType = "xcStandAlone" -> AttemptStandaloneConnection(net)
    [] theConnectType = "xcViaHub" -> AttempHubConnection(net)
    [] theConnectType = "xcAuto" ->
         UNION {IF o.ok THEN {o} ELSE AttempHubConnection(o.net) :
                  o \in AttemptStandaloneConnection(net)}

(* What xPL_initialize leaves; a broadcast socket outlives its failure.    *)
Connect(net, theConnectType) ==
  UNION {IF b.ok THEN MakeConnection(b.net, theConnectType) ELSE {b} : b \in SetupBroadcastAddr(net)}

(* What xPL_shutdown leaves: it closes both sockets it knows.              *)
Disconnect(net) == [net EXCEPT !.bound = Closed, !.broadcast = FALSE, !.open = @ - 2]
=============================================================================
