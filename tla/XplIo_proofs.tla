---------------------------- MODULE XplIo_proofs ----------------------------
(***************************************************************************)
(* Proofs about XplIo, for any devices, timeout handlers, intervals, waits *)
(* and numbers of starts, whatever handlers do and whichever calls to the  *)
(* system fail.  Those about the two loops have the hypotheses             *)
(*   NoRemoval     no handler takes another device, or a timeout handler,  *)
(*                 out of the tables: those of this repository do not;     *)
(*   RealIntervals  no timeout handler asks to be run all the time.        *)
(***************************************************************************)
EXTENDS XplIo, ListTheorems

NoRemoval == Effect \subseteq Effects \ {"remove"}
RealIntervals == \A h \in TimeoutHandler : Interval[h] > 0

DeviceEntry == [fd : Device \cup {xPLFD}, revents : BOOLEAN]
TimeoutEntry == [handler : TimeoutHandler, age : Nat]

(* No device and no handler is in its table twice.                         *)
EachOnce(d, t) ==
  /\ \A i, j \in DOMAIN d : d[i].fd = d[j].fd => i = j
  /\ \A i, j \in DOMAIN t : t[i].handler = t[j].handler => i = j

(* What a connection in use is; what an attempt that failed left open is   *)
(* counted as one of the failures, also while xPLBroadcastFD remembers it. *)
ConnectionOK(n, f) ==
  /\ n \in Connection
  /\ n.bound # Closed =>
       /\ n.broadcast /\ n.interface # NoInterface
       /\ n.port = n.bound
       /\ n.type = "xcViaHub" => n.bound # BASE_XPL_PORT
       /\ n.open \in 2 .. 2 + f
  /\ n.bound = Closed => n.open \in (IF n.broadcast THEN 1 ELSE 0) .. f

TablesOK(n, d, t, f) ==
  /\ d \in Seq(DeviceEntry) /\ t \in Seq(TimeoutEntry)
  /\ \A i \in DOMAIN t : t[i].age <= Interval[t[i].handler]
  /\ EachOnce(d, t)
  /\ (\E i \in DOMAIN d : d[i].fd = xPLFD) <=> n.bound # Closed
  /\ ConnectionOK(n, f)

Calls ==
  [theTimeout : Timeout \cup {0}, thisTimeout : 0 .. Second, left : 0 .. Second,
   soFar : Nat, timeoutDone : BOOLEAN, index : Nat, active : Nat, return : {"out", "loop"}]

(* A call never has waited for longer than it was to, so that what is left *)
(* to wait is never less than nothing; and in the loop over the devices    *)
(* there is one to serve.                                                  *)
WaitOK(c) == c \in Calls /\ (c.theTimeout > Second => c.soFar <= c.theTimeout)

CallOK ==
  /\ WaitOK(call)
  /\ at = "poll" /\ call.theTimeout > Second =>
       call.soFar + call.thisTimeout <= call.theTimeout
  /\ at = "devices" => call.index >= 1 /\ call.active >= 1

CountsOK ==
  /\ failures \in Nat /\ listeners \in Nat /\ failures + listeners <= MaxStarts
  /\ sinceBeat \in 0 .. HeartbeatCheck /\ sinceChecks \in 0 .. Second

IInv ==
  /\ TablesOK(net, devices, timeouts, failures)
  /\ CountsOK
  /\ CallOK
  /\ ready \subseteq Listed
  /\ at \in Places

-----------------------------------------------------------------------------
(* The connection: what xPL_initialize and xPL_shutdown leave.             *)

LEMMA ConnectionFields ==
  ASSUME NEW n \in Connection
  PROVE  /\ n.bound \in Port \cup {Closed} /\ n.port \in Port /\ n.type \in ConnectType
         /\ n.broadcast \in BOOLEAN /\ n.interface \in Interface \cup {NoInterface}
         /\ n.open \in Nat
         /\ \A k \in Nat : [n EXCEPT !.open = k] \in Connection
         /\ \A b \in BOOLEAN : [n EXCEPT !.broadcast = b] \in Connection
         /\ \A i \in Interface : [n EXCEPT !.interface = i] \in Connection
         /\ \A p \in Port \cup {Closed} : [n EXCEPT !.bound = p] \in Connection
         /\ \A p \in Port : [n EXCEPT !.port = p] \in Connection
         /\ \A t \in ConnectType : [n EXCEPT !.type = t] \in Connection
         /\ [n EXCEPT !.open = n.open] = n
BY DEF Connection

(* What failed left the sockets as they were.                              *)
LEMMA FailureLeavesAll ==
  ASSUME NEW n \in Connection, NEW o \in Fails(n)
  PROVE  o.ok = FALSE /\ o.net = n
<1>1. ClosedAgain(Opened(n)) = n
  <2>1. n.open \in Nat /\ n.open + 1 - 1 = n.open
    BY ConnectionFields
  <2>2. Opened(n) \in Connection /\ Opened(n).open = n.open + 1
    BY <2>1, ConnectionFields DEF Opened, Connection
  <2>3. ClosedAgain(Opened(n)) = [Opened(n) EXCEPT !.open = n.open]
    BY <2>1, <2>2 DEF ClosedAgain
  <2> QED
    BY <2>3 DEF Opened, Connection
<1> QED
  BY <1>1 DEF Fails, Outcome

LEMMA BroadcastSocket ==
  ASSUME NEW n \in Connection, n.bound = Closed, NEW o \in SetupBroadcastAddr(n)
  PROVE  /\ o.ok \in BOOLEAN /\ o.net \in Connection /\ o.net.bound = Closed
         /\ o.ok => /\ o.net.broadcast /\ o.net.interface # NoInterface
                    /\ o.net.open = n.open + 1
         /\ ~o.ok => o.net.broadcast = n.broadcast /\ o.net.open = n.open
<1> DEFINE chosen == IF n.interface = NoInterface THEN FindDefaultInterface(n)
                     ELSE {Outcome(TRUE, n)}
<1>1. PICK c \in chosen :
        o \in IF c.ok
                THEN Fails(c.net) \cup {Outcome(TRUE, [Opened(c.net) EXCEPT !.broadcast = TRUE])}
                ELSE Fails(c.net)
  BY DEF SetupBroadcastAddr
<1>2. /\ c.ok \in BOOLEAN /\ c.net \in Connection /\ c.net.bound = Closed
      /\ c.net.broadcast = n.broadcast /\ c.net.open = n.open
      /\ c.ok => c.net.interface # NoInterface
  <2>1. \/ c = Outcome(TRUE, n) /\ n.interface # NoInterface
        \/ c = Outcome(FALSE, n)
        \/ \E i \in Interface : c = Outcome(TRUE, [n EXCEPT !.interface = i])
    BY DEF FindDefaultInterface
  <2>2. CASE \/ c = Outcome(TRUE, n) /\ n.interface # NoInterface
             \/ c = Outcome(FALSE, n)
    <3>1. Outcome(TRUE, n).ok = TRUE /\ Outcome(TRUE, n).net = n
      BY DEF Outcome
    <3>2. Outcome(FALSE, n).ok = FALSE /\ Outcome(FALSE, n).net = n
      BY DEF Outcome
    <3>3. CASE c = Outcome(TRUE, n) /\ n.interface # NoInterface
      BY <3>1, <3>3
    <3>4. CASE c = Outcome(FALSE, n)
      BY <3>2, <3>4
    <3> QED
      BY <2>2, <3>3, <3>4
  <2>3. ASSUME NEW i \in Interface, c = Outcome(TRUE, [n EXCEPT !.interface = i])
        PROVE  /\ c.ok \in BOOLEAN /\ c.net \in Connection /\ c.net.bound = Closed
               /\ c.net.broadcast = n.broadcast /\ c.net.open = n.open
               /\ c.ok => c.net.interface # NoInterface
    <3>1. c.ok = TRUE /\ c.net = [n EXCEPT !.interface = i]
      BY <2>3 DEF Outcome
    <3>2. c.net \in Connection
      BY <3>1, ConnectionFields
    <3> QED
      BY <3>1, <3>2, ConnectionConstants DEF Connection
  <2> QED
    BY <2>1, <2>2, <2>3
<1>3. CASE o \in Fails(c.net)
  BY <1>2, <1>3, FailureLeavesAll
<1>4. CASE c.ok /\ o = Outcome(TRUE, [Opened(c.net) EXCEPT !.broadcast = TRUE])
  <2> DEFINE opened == Opened(c.net)
  <2>1. opened \in Connection /\ opened = [c.net EXCEPT !.open = c.net.open + 1]
    <3>1. c.net.open + 1 \in Nat
      BY <1>2, ConnectionFields
    <3> QED
      BY <1>2, <3>1, ConnectionFields DEF Opened
  <2>2. /\ opened.bound = Closed /\ opened.interface = c.net.interface
        /\ opened.open = n.open + 1
    BY <1>2, <2>1 DEF Connection
  <2> HIDE DEF opened
  <2>3. o.ok = TRUE /\ o.net = [opened EXCEPT !.broadcast = TRUE]
    BY <1>4 DEF Outcome, opened
  <2>4. o.net \in Connection
    BY <2>1, <2>3, ConnectionFields
  <2>5. /\ o.net.bound = opened.bound /\ o.net.interface = opened.interface
        /\ o.net.open = opened.open /\ o.net.broadcast = TRUE
    BY <2>1, <2>3 DEF Connection
  <2> QED
    BY <1>2, <1>4, <2>2, <2>3, <2>4, <2>5
<1> QED
  BY <1>1, <1>3, <1>4

(* A connection made: its socket is one more.                              *)
Made(n, o) ==
  /\ o.ok = TRUE
  /\ o.net \in Connection /\ o.net.bound # Closed /\ o.net.port = o.net.bound
  /\ o.net.type = "xcViaHub" => o.net.bound # BASE_XPL_PORT
  /\ o.net.broadcast = n.broadcast /\ o.net.interface = n.interface
  /\ o.net.open = n.open + 1

LEMMA ListeningMade ==
  ASSUME NEW n \in Connection, NEW p \in Port, NEW t \in ConnectType,
         t = "xcViaHub" => p # BASE_XPL_PORT
  PROVE  Made(n, Listening(n, p, t))
<1> DEFINE opened == Opened(n)
           new == [opened EXCEPT !.bound = p, !.port = p, !.type = t]
<1>1. opened \in Connection /\ opened = [n EXCEPT !.open = n.open + 1]
  BY ConnectionFields DEF Opened
<1>2. /\ opened.broadcast = n.broadcast /\ opened.interface = n.interface
      /\ opened.open = n.open + 1
  BY <1>1 DEF Connection
<1> HIDE DEF opened
<1>3. new \in Connection
  BY <1>1 DEF Connection
<1>4. /\ new.bound = p /\ new.port = p /\ new.type = t
      /\ new.broadcast = opened.broadcast /\ new.interface = opened.interface
      /\ new.open = opened.open
  BY <1>1 DEF Connection
<1>5. Listening(n, p, t) = Outcome(TRUE, new)
  BY DEF Listening, opened
<1>6. p # Closed
  BY ConnectionConstants DEF Port, BASE_XPL_PORT, Closed
<1> HIDE DEF new
<1> QED
  BY <1>2, <1>3, <1>4, <1>5, <1>6 DEF Made, Outcome

LEMMA AttemptsLeave ==
  ASSUME NEW n \in Connection
  PROVE  /\ \A o \in AttemptStandaloneConnection(n) : Made(n, o) \/ (o.ok = FALSE /\ o.net = n)
         /\ \A o \in AttempHubConnection(n) : Made(n, o) \/ (o.ok = FALSE /\ o.net = n)
<1>1. \A o \in Fails(n) : o.ok = FALSE /\ o.net = n
  BY FailureLeavesAll
<1>2. Made(n, Listening(n, n.port, "xcStandAlone"))
  BY ListeningMade, ConnectionFields DEF ConnectType
<1>3. \A p \in AssignedPort : Made(n, Listening(n, p, "xcViaHub"))
  BY ListeningMade, ConnectionConstants DEF ConnectType, Port
<1> QED
  BY <1>1, <1>2, <1>3 DEF AttemptStandaloneConnection, AttempHubConnection

LEMMA ConnectionMade ==
  ASSUME NEW n \in Connection, NEW t \in ConnectType, NEW o \in MakeConnection(n, t)
  PROVE  Made(n, o) \/ (o.ok = FALSE /\ o.net = n)
<1>1. CASE t = "xcStandAlone"
  BY <1>1, AttemptsLeave DEF MakeConnection
<1>2. CASE t = "xcViaHub"
  BY <1>2, AttemptsLeave DEF MakeConnection
<1>3. CASE t = "xcAuto"
  <2>1. PICK first \in AttemptStandaloneConnection(n) :
          o \in IF first.ok THEN {first} ELSE AttempHubConnection(first.net)
    BY <1>3 DEF MakeConnection
  <2>2. Made(n, first) \/ (first.ok = FALSE /\ first.net = n)
    BY AttemptsLeave
  <2>3. CASE Made(n, first)
    BY <2>1, <2>3 DEF Made
  <2>4. CASE first.ok = FALSE /\ first.net = n
    BY <2>1, <2>4, AttemptsLeave
  <2> QED
    BY <2>2, <2>3, <2>4
<1> QED
  BY <1>1, <1>2, <1>3 DEF ConnectType

(* xPL_initialize, successful or not.                                      *)
LEMMA ConnectKeeps ==
  ASSUME NEW n, NEW f \in Nat, ConnectionOK(n, f), n.bound = Closed,
         NEW t \in ConnectType, NEW o \in Connect(n, t)
  PROVE  /\ o.ok \in BOOLEAN
         /\ o.ok => ConnectionOK(o.net, f) /\ o.net.bound # Closed
         /\ ~o.ok => ConnectionOK(o.net, f + 1) /\ o.net.bound = Closed
<1>1. n \in Connection /\ n.open \in (IF n.broadcast THEN 1 ELSE 0) .. f
  BY DEF ConnectionOK
<1>2. PICK b \in SetupBroadcastAddr(n) :
        o \in IF b.ok THEN MakeConnection(b.net, t) ELSE {b}
  BY DEF Connect
<1>3. /\ b.ok \in BOOLEAN /\ b.net \in Connection /\ b.net.bound = Closed
      /\ b.ok => /\ b.net.broadcast /\ b.net.interface # NoInterface
                 /\ b.net.open = n.open + 1
      /\ ~b.ok => b.net.broadcast = n.broadcast /\ b.net.open = n.open
  BY <1>1, BroadcastSocket
<1>4. CASE ~b.ok
  BY <1>1, <1>2, <1>3, <1>4 DEF ConnectionOK
<1>5. CASE b.ok
  <2>1. Made(b.net, o) \/ (o.ok = FALSE /\ o.net = b.net)
    BY <1>2, <1>3, <1>5, ConnectionMade
  <2>2. n.open \in Nat /\ n.open <= f
    BY <1>1, ConnectionFields
  <2>3. b.net.open = n.open + 1 /\ b.net.broadcast = TRUE
    BY <1>3, <1>5, ConnectionFields
  <2>4. CASE Made(b.net, o)
    <3>1. o.net.open = n.open + 2
      BY <2>2, <2>3, <2>4 DEF Made
    <3>2. o.net.open \in 2 .. 2 + f
      BY <2>2, <3>1
    <3> QED
      BY <1>3, <1>5, <2>3, <2>4, <3>2 DEF Made, ConnectionOK
  <2>5. CASE o.ok = FALSE /\ o.net = b.net
    <3>1. o.net.open \in 1 .. f + 1
      BY <2>2, <2>3, <2>5
    <3> QED
      BY <1>3, <2>3, <2>5, <3>1 DEF ConnectionOK
  <2> QED
    BY <2>1, <2>4, <2>5
<1> QED
  BY <1>3, <1>4, <1>5

LEMMA DisconnectKeeps ==
  ASSUME NEW n, NEW f \in Nat, ConnectionOK(n, f), n.bound # Closed
  PROVE  ConnectionOK(Disconnect(n), f) /\ Disconnect(n).bound = Closed
<1>1. n \in Connection /\ n.open \in 2 .. 2 + f
  BY DEF ConnectionOK
<1>2. n.open - 2 \in Nat /\ n.open - 2 <= f
  BY <1>1
<1>3. Disconnect(n) \in Connection
  BY <1>1, <1>2 DEF Disconnect, Connection
<1>4. /\ Disconnect(n).bound = Closed /\ Disconnect(n).broadcast = FALSE
      /\ Disconnect(n).open = n.open - 2
  BY <1>1 DEF Disconnect, Connection
<1> QED
  BY <1>2, <1>3, <1>4 DEF ConnectionOK

-----------------------------------------------------------------------------
(* The tables: what the operations on them leave.                          *)

LEMMA TypedTables ==
  ASSUME NEW n, NEW d, NEW t, NEW f, TablesOK(n, d, t, f)
  PROVE  /\ d \in Seq(DeviceEntry) /\ DOMAIN d = 1 .. Len(d) /\ Len(d) \in Nat
         /\ \A i \in DOMAIN d : d[i] \in DeviceEntry
         /\ t \in Seq(TimeoutEntry) /\ DOMAIN t = 1 .. Len(t) /\ Len(t) \in Nat
         /\ \A i \in DOMAIN t : t[i] \in TimeoutEntry
BY LenProperties, ElementOfSeq DEF TablesOK

Fds(d) == {d[i].fd : i \in DOMAIN d}

(* xPL_addIODevice, also of the library's own.                             *)
LEMMA AddedDevice ==
  ASSUME NEW n, NEW d, NEW t, NEW f, TablesOK(n, d, t, f),
         NEW fd \in Device \cup {xPLFD}, NEW r \in BOOLEAN,
         \A i \in DOMAIN d : d[i].fd # fd
  PROVE  LET new == Append(d, [fd |-> fd, revents |-> r]) IN
         /\ new \in Seq(DeviceEntry) /\ EachOnce(new, t)
         /\ Len(new) = Len(d) + 1
         /\ \A i \in DOMAIN d : new[i] = d[i]
         /\ Fds(new) = Fds(d) \cup {fd}
<1> DEFINE e == [fd |-> fd, revents |-> r]
           new == Append(d, e)
<1>1. /\ d \in Seq(DeviceEntry) /\ DOMAIN d = 1 .. Len(d) /\ Len(d) \in Nat
      /\ EachOnce(d, t)
  BY TypedTables DEF TablesOK
<1>2. e \in DeviceEntry /\ e.fd = fd
  BY DEF DeviceEntry
<1> HIDE DEF e
<1>3. /\ new \in Seq(DeviceEntry) /\ Len(new) = Len(d) + 1
      /\ \A i \in 1 .. Len(d) : new[i] = d[i]
      /\ new[Len(d) + 1] = e
  BY <1>1, <1>2, AppendProperties
<1>4. DOMAIN new = 1 .. Len(d) + 1
  BY <1>3, LenProperties
<1> HIDE DEF new
<1>5. \A i \in DOMAIN new : IF i \in DOMAIN d THEN new[i] = d[i] ELSE i = Len(d) + 1 /\ new[i] = e
  BY <1>1, <1>3, <1>4
<1>6. EachOnce(new, t)
  BY <1>1, <1>2, <1>5 DEF EachOnce
<1>7. {new[i].fd : i \in DOMAIN new} = {d[i].fd : i \in DOMAIN d} \cup {fd}
  <2>1. DOMAIN d \subseteq DOMAIN new /\ Len(d) + 1 \in DOMAIN new /\ Len(d) + 1 \notin DOMAIN d
    BY <1>1, <1>4
  <2> QED
    BY <1>2, <1>5, <2>1
<1> QED
  BY <1>1, <1>3, <1>6, <1>7 DEF new, e, Fds

(* An entry taken out of a table, wherever it stands.                      *)
LEMMA DeviceRemoved ==
  ASSUME NEW n, NEW d, NEW t, NEW f, TablesOK(n, d, t, f), NEW k \in DOMAIN d
  PROVE  LET new == RemoveAt(d, k) IN
         /\ new \in Seq(DeviceEntry) /\ EachOnce(new, t)
         /\ Len(new) = Len(d) - 1
         /\ \A i \in 1 .. k - 1 : new[i] = d[i]
         /\ Fds(new) = Fds(d) \ {d[k].fd}
<1> DEFINE new == RemoveAt(d, k)
<1>1. d \in Seq(DeviceEntry) /\ EachOnce(d, t)
  BY DEF TablesOK
<1>2. /\ new \in Seq(DeviceEntry)
      /\ Len(d) \in Nat /\ DOMAIN d = 1 .. Len(d)
      /\ DOMAIN new = 1 .. Len(d) - 1 /\ Len(new) = Len(d) - 1
      /\ \A j \in 1 .. Len(d) - 1 : new[j] = IF j < k THEN d[j] ELSE d[j + 1]
  BY <1>1, ShorterList
<1> HIDE DEF new
<1> DEFINE old(j) == IF j < k THEN j ELSE j + 1
<1>3. \A j \in DOMAIN new : old(j) \in DOMAIN d \ {k} /\ new[j] = d[old(j)]
  BY <1>2
<1>4. \A i, j \in DOMAIN new : old(i) = old(j) => i = j
  BY <1>2
<1>5. \A i \in DOMAIN d \ {k} : \E j \in DOMAIN new : new[j] = d[i]
  <2> TAKE i \in DOMAIN d \ {k}
  <2> DEFINE j == IF i < k THEN i ELSE i - 1
  <2>1. j \in DOMAIN new /\ old(j) = i
    BY <1>2
  <2> QED
    BY <1>3, <2>1
<1> HIDE DEF old
<1>6. EachOnce(new, t)
  BY <1>1, <1>3, <1>4 DEF EachOnce
<1>7. {new[i].fd : i \in DOMAIN new} = {d[i].fd : i \in DOMAIN d} \ {d[k].fd}
  <2>1. \A i \in DOMAIN d \ {k} : d[i].fd # d[k].fd
    BY <1>1 DEF EachOnce
  <2> QED
    BY <1>3, <1>5, <2>1
<1>8. \A i \in 1 .. k - 1 : new[i] = d[i]
  BY <1>2
<1> QED
  BY <1>2, <1>6, <1>7, <1>8 DEF new, Fds

(* The ages of the timeout handlers are those of an interval.              *)
Aging(t) ==
  /\ t \in Seq(TimeoutEntry)
  /\ \A i \in DOMAIN t : t[i].age <= Interval[t[i].handler]
  /\ \A i, j \in DOMAIN t : t[i].handler = t[j].handler => i = j

LEMMA AgingTable ==
  ASSUME NEW n, NEW d, NEW t, NEW f
  PROVE  /\ TablesOK(n, d, t, f) => Aging(t)
         /\ \A new : TablesOK(n, d, t, f) /\ Aging(new) => TablesOK(n, d, new, f)
BY DEF TablesOK, Aging, EachOnce

(* xPL_addTimeoutHandler.                                                  *)
LEMMA AddedTimeout ==
  ASSUME NEW t, Aging(t), NEW h \in TimeoutHandler, \A i \in DOMAIN t : t[i].handler # h
  PROVE  LET new == Append(t, [handler |-> h, age |-> 0]) IN
         /\ Aging(new) /\ Len(new) = Len(t) + 1 /\ DOMAIN new = 1 .. Len(t) + 1
         /\ \A i \in DOMAIN t : new[i] = t[i]
         /\ new[Len(t) + 1].age = 0 /\ new[Len(t) + 1].handler = h
<1> DEFINE e == [handler |-> h, age |-> 0]
           new == Append(t, e)
<1>1. t \in Seq(TimeoutEntry) /\ DOMAIN t = 1 .. Len(t) /\ Len(t) \in Nat
  BY LenProperties DEF Aging
<1>2. e \in TimeoutEntry /\ e.handler = h /\ e.age = 0
  BY DEF TimeoutEntry
<1> HIDE DEF e
<1>3. /\ new \in Seq(TimeoutEntry) /\ Len(new) = Len(t) + 1
      /\ \A i \in 1 .. Len(t) : new[i] = t[i]
      /\ new[Len(t) + 1] = e
  BY <1>1, <1>2, AppendProperties
<1>4. DOMAIN new = 1 .. Len(t) + 1
  BY <1>3, LenProperties
<1> HIDE DEF new
<1>5. \A i \in DOMAIN new : IF i \in DOMAIN t THEN new[i] = t[i] ELSE i = Len(t) + 1 /\ new[i] = e
  BY <1>1, <1>3, <1>4
<1>6. 0 <= Interval[h]
  BY IoConstants
<1>7. Aging(new)
  BY <1>2, <1>3, <1>5, <1>6 DEF Aging
<1> QED
  BY <1>1, <1>2, <1>3, <1>4, <1>7 DEF new, e

(* xPL_removeTimeoutHandler.                                               *)
LEMMA TimeoutRemoved ==
  ASSUME NEW t, Aging(t), NEW k \in DOMAIN t
  PROVE  LET new == RemoveAt(t, k) IN
         /\ Aging(new)
         /\ \A j \in DOMAIN new : \E i \in DOMAIN t : new[j] = t[i]
<1> DEFINE new == RemoveAt(t, k)
           old(j) == IF j < k THEN j ELSE j + 1
<1>1. /\ new \in Seq(TimeoutEntry)
      /\ Len(t) \in Nat /\ DOMAIN t = 1 .. Len(t)
      /\ DOMAIN new = 1 .. Len(t) - 1
      /\ \A j \in 1 .. Len(t) - 1 : new[j] = IF j < k THEN t[j] ELSE t[j + 1]
  BY ShorterList DEF Aging
<1> HIDE DEF new
<1>2. \A j \in DOMAIN new : old(j) \in DOMAIN t \ {k} /\ new[j] = t[old(j)]
  BY <1>1
<1>3. \A i, j \in DOMAIN new : old(i) = old(j) => i = j
  BY <1>1
<1> HIDE DEF old
<1> QED
  BY <1>1, <1>2, <1>3 DEF Aging, new

(* A table of the same handlers, none of them older than its interval.     *)
LEMMA AgesChanged ==
  ASSUME NEW t, Aging(t), NEW new \in [DOMAIN t -> TimeoutEntry],
         \A i \in DOMAIN t :
           new[i].handler = t[i].handler /\ new[i].age <= Interval[t[i].handler]
  PROVE  Aging(new) /\ Len(new) = Len(t)
<1>1. DOMAIN t = 1 .. Len(t) /\ Len(t) \in Nat
  BY LenProperties DEF Aging
<1>2. new \in Seq(TimeoutEntry) /\ DOMAIN new = 1 .. Len(t)
  BY <1>1, SeqDef
<1>3. Len(new) = Len(t)
  BY <1>1, <1>2, LenProperties
<1> QED
  BY <1>1, <1>2, <1>3 DEF Aging

(* The removals take out the first entry that has the descriptor or the    *)
(* handler, which is the only one.                                         *)
LEMMA DeviceFound ==
  ASSUME NEW fd, devices \in Seq(DeviceEntry), fd \in Listed
  PROVE  \E k \in DOMAIN devices :
           devices[k].fd = fd /\ WithoutDevice(fd) = RemoveAt(devices, k)
<1> DEFINE P == {e \in DeviceEntry : e.fd = fd}
<1>1. /\ Len(devices) \in Nat /\ DOMAIN devices = 1 .. Len(devices)
      /\ \A i \in 1 .. Len(devices) : devices[i] \in DeviceEntry
  BY LenProperties, ElementOfSeq
<1>2. \A i \in 1 .. Len(devices) : devices[i].fd = fd <=> devices[i] \in P
  BY <1>1
<1>3. WithoutDevice(fd) = WithoutFirst(devices, P)
  <2> HIDE DEF P
  <2>1. {i \in 1 .. Len(devices) : devices[i].fd = fd}
          = {i \in 1 .. Len(devices) : devices[i] \in P}
    BY <1>2
  <2> QED
    BY <1>2, <2>1 DEF WithoutDevice, WithoutFirst, RemoveFirstMatch, SelectInSeq, SelectInSubSeq
<1> HIDE DEF P
<1>4. \/ PlacesOf(devices, P) = {} /\ WithoutDevice(fd) = devices
      \/ \E k \in PlacesOf(devices, P) : WithoutDevice(fd) = RemoveAt(devices, k)
  BY <1>3, FirstMatch
<1>5. \E i \in 1 .. Len(devices) : devices[i].fd = fd
  BY <1>1 DEF Listed
<1> QED
  BY <1>1, <1>2, <1>4, <1>5 DEF PlacesOf

Ended(h) == RemoveFirstMatch(timeouts, LAMBDA t : t.handler = h)

LEMMA TimeoutFound ==
  ASSUME NEW h \in Handlers, timeouts \in Seq(TimeoutEntry)
  PROVE  \E k \in DOMAIN timeouts :
           /\ timeouts[k].handler = h
           /\ Ended(h) = RemoveAt(timeouts, k)
<1> DEFINE P == {e \in TimeoutEntry : e.handler = h}
           new == Ended(h)
<1>1. /\ Len(timeouts) \in Nat /\ DOMAIN timeouts = 1 .. Len(timeouts)
      /\ \A i \in 1 .. Len(timeouts) : timeouts[i] \in TimeoutEntry
  BY LenProperties, ElementOfSeq
<1>2. \A i \in 1 .. Len(timeouts) : timeouts[i].handler = h <=> timeouts[i] \in P
  BY <1>1
<1>3. new = WithoutFirst(timeouts, P)
  <2> HIDE DEF P
  <2>1. {i \in 1 .. Len(timeouts) : timeouts[i].handler = h}
          = {i \in 1 .. Len(timeouts) : timeouts[i] \in P}
    BY <1>2
  <2> QED
    BY <1>2, <2>1 DEF Ended, WithoutFirst, RemoveFirstMatch, SelectInSeq, SelectInSubSeq
<1> HIDE DEF P, new
<1>4. \/ PlacesOf(timeouts, P) = {} /\ new = timeouts
      \/ \E k \in PlacesOf(timeouts, P) : new = RemoveAt(timeouts, k)
  BY <1>3, FirstMatch
<1>5. \E i \in 1 .. Len(timeouts) : timeouts[i].handler = h
  BY <1>1 DEF Handlers
<1>6. \E k \in DOMAIN timeouts : timeouts[k].handler = h /\ new = RemoveAt(timeouts, k)
  BY <1>1, <1>2, <1>4, <1>5 DEF PlacesOf
<1> QED
  BY <1>6 DEF new

(* What the program or a handler does to the tables is one of these.       *)
LEMMA ResultIs ==
  ASSUME NEW effects, NEW own, NEW new \in Results(effects, own)
  PROVE  \/ new = Tables(net, devices, timeouts)
         \/ \E fd \in Device \ Listed, r \in BOOLEAN :
              new = Tables(net, Append(devices, [fd |-> fd, revents |-> r]), timeouts)
         \/ \E h \in TimeoutHandler \ Handlers :
              new = Tables(net, devices, Append(timeouts, [handler |-> h, age |-> 0]))
         \/ \E fd \in Device \cap Listed :
              /\ "remove" \in effects \/ fd = own
              /\ new = Tables(net, WithoutDevice(fd), timeouts)
         \/ /\ "remove" \in effects
            /\ \E h \in Handlers :
                 new = Tables(net, devices, Ended(h))
         \/ started /\ new = Tables(Disconnect(net), WithoutDevice(xPLFD), timeouts)
<1> DEFINE Adding == {AddIODevice(fd) : fd \in IF "add" \in effects THEN Device \ Listed ELSE {}}
           Timing == {AddTimeoutHandler(h) :
                        h \in IF "add" \in effects THEN TimeoutHandler \ Handlers ELSE {}}
           Removing == {RemoveIODevice(fd) :
                          fd \in Device \cap Listed \cap
                                 (IF "remove" \in effects THEN Device
                                  ELSE IF "remove own device" \in effects THEN {own} ELSE {})}
           Ending == {RemoveTimeoutHandler(h) :
                        h \in IF "remove" \in effects THEN Handlers ELSE {}}
           Stopping == IF "stop" \in effects THEN Shutdown ELSE {}
<1>1. \/ new = Tables(net, devices, timeouts)
      \/ \E S \in Adding : new \in S
      \/ \E S \in Timing : new \in S
      \/ \E S \in Removing : new \in S
      \/ \E S \in Ending : new \in S
      \/ new \in Stopping
  BY DEF Results
<1>2. ASSUME NEW S \in Adding, new \in S
      PROVE  \E fd \in Device \ Listed, r \in BOOLEAN :
               new = Tables(net, Append(devices, [fd |-> fd, revents |-> r]), timeouts)
  BY <1>2 DEF AddIODevice
<1>3. ASSUME NEW S \in Timing, new \in S
      PROVE  \E h \in TimeoutHandler \ Handlers :
               new = Tables(net, devices, Append(timeouts, [handler |-> h, age |-> 0]))
  BY <1>3 DEF AddTimeoutHandler
<1>4. ASSUME NEW S \in Removing, new \in S
      PROVE  \E fd \in Device \cap Listed :
               /\ "remove" \in effects \/ fd = own
               /\ new = Tables(net, WithoutDevice(fd), timeouts)
  BY <1>4 DEF RemoveIODevice
<1>5. ASSUME NEW S \in Ending, new \in S
      PROVE  /\ "remove" \in effects
             /\ \E h \in Handlers :
                  new = Tables(net, devices, Ended(h))
  BY <1>5 DEF RemoveTimeoutHandler, Ended
<1>6. ASSUME new \in Stopping
      PROVE  started /\ new = Tables(Disconnect(net), WithoutDevice(xPLFD), timeouts)
  BY <1>6 DEF Shutdown
<1> QED
  BY <1>1, <1>2, <1>3, <1>4, <1>5, <1>6

LEMMA TablesFields ==
  ASSUME NEW n, NEW d, NEW t
  PROVE  Tables(n, d, t).net = n /\ Tables(n, d, t).devices = d /\ Tables(n, d, t).timeouts = t
BY DEF Tables

LEMMA ListedIs ==
  TablesOK(net, devices, timeouts, failures) => (xPLFD \in Listed <=> started)
BY DEF TablesOK, Listed, started

(* Whatever it is, the tables stay in order.                               *)
LEMMA ResultKeeps ==
  ASSUME TablesOK(net, devices, timeouts, failures), failures \in Nat,
         NEW effects, NEW own, NEW new \in Results(effects, own)
  PROVE  TablesOK(new.net, new.devices, new.timeouts, failures)
<1>1. /\ devices \in Seq(DeviceEntry) /\ Aging(timeouts) /\ ConnectionOK(net, failures)
      /\ EachOnce(devices, timeouts)
      /\ xPLFD \in Fds(devices) <=> net.bound # Closed
      /\ Fds(devices) = Listed
  BY AgingTable DEF TablesOK, Listed, Fds
<1>2. ASSUME NEW d \in Seq(DeviceEntry), EachOnce(d, timeouts),
             xPLFD \in Fds(d) <=> xPLFD \in Listed
      PROVE  TablesOK(net, d, timeouts, failures)
  BY <1>1, <1>2 DEF TablesOK, Fds
<1>3. ASSUME NEW t, Aging(t)
      PROVE  TablesOK(net, devices, t, failures)
  BY <1>3, AgingTable
<1>4. CASE new = Tables(net, devices, timeouts)
  BY <1>4, TablesFields
<1>5. ASSUME NEW fd \in Device \ Listed, NEW r \in BOOLEAN,
             new = Tables(net, Append(devices, [fd |-> fd, revents |-> r]), timeouts)
      PROVE  TablesOK(new.net, new.devices, new.timeouts, failures)
  <2> DEFINE d == Append(devices, [fd |-> fd, revents |-> r])
  <2>1. \A i \in DOMAIN devices : devices[i].fd # fd
    BY DEF Listed
  <2>2. /\ d \in Seq(DeviceEntry) /\ EachOnce(d, timeouts)
        /\ Fds(d) = Fds(devices) \cup {fd}
    BY <2>1, AddedDevice
  <2> HIDE DEF d
  <2>3. xPLFD \in Fds(d) <=> xPLFD \in Listed
    BY <1>1, <2>2, IoConstants
  <2>4. TablesOK(net, d, timeouts, failures)
    BY <1>2, <2>2, <2>3
  <2> QED
    BY <1>5, <2>4, TablesFields DEF d
<1>6. ASSUME NEW h \in TimeoutHandler \ Handlers,
             new = Tables(net, devices, Append(timeouts, [handler |-> h, age |-> 0]))
      PROVE  TablesOK(new.net, new.devices, new.timeouts, failures)
  <2> DEFINE t == Append(timeouts, [handler |-> h, age |-> 0])
  <2>1. \A i \in DOMAIN timeouts : timeouts[i].handler # h
    BY DEF Handlers
  <2>2. Aging(t)
    BY <1>1, <2>1, AddedTimeout
  <2> HIDE DEF t
  <2>3. TablesOK(net, devices, t, failures)
    BY <1>3, <2>2
  <2> QED
    BY <1>6, <2>3, TablesFields DEF t
<1>7. ASSUME NEW fd \in Device \cap Listed, new = Tables(net, WithoutDevice(fd), timeouts)
      PROVE  TablesOK(new.net, new.devices, new.timeouts, failures)
  <2> DEFINE d == WithoutDevice(fd)
  <2>1. PICK k \in DOMAIN devices : devices[k].fd = fd /\ d = RemoveAt(devices, k)
    BY <1>1, DeviceFound
  <2> HIDE DEF d
  <2>2. /\ d \in Seq(DeviceEntry) /\ EachOnce(d, timeouts)
        /\ Fds(d) = Fds(devices) \ {fd}
    BY <2>1, DeviceRemoved
  <2>3. xPLFD \in Fds(d) <=> xPLFD \in Listed
    BY <1>1, <2>2, IoConstants
  <2>4. TablesOK(net, d, timeouts, failures)
    BY <1>2, <2>2, <2>3
  <2> QED
    BY <1>7, <2>4, TablesFields DEF d
<1>8. ASSUME NEW h \in Handlers,
             new = Tables(net, devices, Ended(h))
      PROVE  TablesOK(new.net, new.devices, new.timeouts, failures)
  <2> DEFINE t1 == Ended(h)
  <2>1. timeouts \in Seq(TimeoutEntry)
    BY <1>1 DEF Aging
  <2>2. PICK k \in DOMAIN timeouts : t1 = RemoveAt(timeouts, k)
    BY <2>1, TimeoutFound
  <2> HIDE DEF t1
  <2>3. Aging(t1)
    BY <1>1, <2>2, TimeoutRemoved
  <2>4. TablesOK(net, devices, t1, failures)
    BY <1>3, <2>3
  <2> QED
    BY <1>8, <2>4, TablesFields DEF t1
<1>9. ASSUME started, new = Tables(Disconnect(net), WithoutDevice(xPLFD), timeouts)
      PROVE  TablesOK(new.net, new.devices, new.timeouts, failures)
  <2> DEFINE d == WithoutDevice(xPLFD)
             n == Disconnect(net)
  <2>1. PICK k \in DOMAIN devices : devices[k].fd = xPLFD /\ d = RemoveAt(devices, k)
    BY <1>1, <1>9, ListedIs, DeviceFound
  <2>2. ConnectionOK(n, failures) /\ n.bound = Closed
    BY <1>1, <1>9, DisconnectKeeps DEF started
  <2> HIDE DEF d, n
  <2>3. /\ d \in Seq(DeviceEntry) /\ EachOnce(d, timeouts)
        /\ Fds(d) = Fds(devices) \ {xPLFD}
    BY <2>1, DeviceRemoved
  <2>4. TablesOK(n, d, timeouts, failures)
    BY <1>1, <2>2, <2>3 DEF TablesOK, Aging, Fds
  <2> QED
    BY <1>9, <2>4, TablesFields DEF d, n
<1> QED
  <2>1. \/ new = Tables(net, devices, timeouts)
        \/ \E fd \in Device \ Listed, r \in BOOLEAN :
             new = Tables(net, Append(devices, [fd |-> fd, revents |-> r]), timeouts)
        \/ \E h \in TimeoutHandler \ Handlers :
             new = Tables(net, devices, Append(timeouts, [handler |-> h, age |-> 0]))
        \/ \E fd \in Device \cap Listed : new = Tables(net, WithoutDevice(fd), timeouts)
        \/ \E h \in Handlers : new = Tables(net, devices, Ended(h))
        \/ started /\ new = Tables(Disconnect(net), WithoutDevice(xPLFD), timeouts)
    BY ResultIs, Zenon
  <2> QED
    BY <1>4, <1>5, <1>6, <1>7, <1>8, <1>9, <2>1

-----------------------------------------------------------------------------
(* The steps, one by one.                                                  *)

(* Those that leave the tables alone.                                      *)
LEMMA QuietStep ==
  ASSUME IInv, UNCHANGED tables, UNCHANGED ready, at' \in Places, CallOK',
         sinceBeat' \in 0 .. HeartbeatCheck, sinceChecks' \in 0 .. Second
  PROVE  IInv'
BY DEF IInv, tables, TablesOK, CountsOK, Listed

LEMMA InitializeKeeps ==
  ASSUME IInv, NEW theConnectType \in ConnectType, Initialize(theConnectType)
  PROVE  IInv'
<1>1. /\ TablesOK(net, devices, timeouts, failures) /\ failures \in Nat /\ listeners \in Nat
      /\ net.bound = Closed /\ listeners + failures < MaxStarts /\ MaxStarts \in Nat
      /\ UNCHANGED <<timeouts, ages, ready, at, call>>
  BY IoConstants DEF IInv, CountsOK, Initialize, started
<1>2. ConnectionOK(net, failures)
  BY <1>1 DEF TablesOK
<1>3. PICK o \in Connect(net, theConnectType) :
        /\ net' = o.net
        /\ IF o.ok
             THEN /\ \E r \in BOOLEAN : devices' = Append(devices, [fd |-> xPLFD, revents |-> r])
                  /\ listeners' = listeners + 1
                  /\ UNCHANGED failures
             ELSE /\ failures' = failures + 1
                  /\ UNCHANGED <<devices, listeners>>
  BY DEF Initialize
<1>4. /\ o.ok \in BOOLEAN
      /\ o.ok => ConnectionOK(o.net, failures) /\ o.net.bound # Closed
      /\ ~o.ok => ConnectionOK(o.net, failures + 1) /\ o.net.bound = Closed
  BY <1>1, <1>2, ConnectKeeps
<1>5. /\ TablesOK(net', devices', timeouts', failures')
      /\ Fds(devices) \subseteq Fds(devices')
      /\ failures' \in Nat /\ listeners' \in Nat /\ failures' + listeners' <= MaxStarts
  <2>1. CASE o.ok
    <3>1. PICK r \in BOOLEAN : devices' = Append(devices, [fd |-> xPLFD, revents |-> r])
      BY <1>3, <2>1
    <3>2. \A i \in DOMAIN devices : devices[i].fd # xPLFD
      BY <1>1 DEF TablesOK
    <3>3. /\ devices' \in Seq(DeviceEntry) /\ EachOnce(devices', timeouts)
          /\ Fds(devices') = Fds(devices) \cup {xPLFD}
      BY <1>1, <3>1, <3>2, AddedDevice
    <3>4. \E i \in DOMAIN devices' : devices'[i].fd = xPLFD
      BY <3>3 DEF Fds
    <3>5. /\ net' = o.net /\ failures' = failures /\ timeouts' = timeouts
          /\ listeners' = listeners + 1
      BY <1>1, <1>3, <2>1
    <3> QED
      BY <1>1, <1>4, <2>1, <3>3, <3>4, <3>5 DEF TablesOK
  <2>2. CASE ~o.ok
    <3>1. /\ net' = o.net /\ failures' = failures + 1 /\ timeouts' = timeouts
          /\ devices' = devices /\ listeners' = listeners
      BY <1>1, <1>3, <2>2
    <3> QED
      BY <1>1, <1>4, <2>2, <3>1 DEF TablesOK
  <2> QED
    BY <1>4, <2>1, <2>2
<1> QED
  BY <1>1, <1>5 DEF IInv, CountsOK, CallOK, ages, Listed, Fds

LEMMA ChooseInterfaceKeeps ==
  ASSUME IInv, ChooseInterface
  PROVE  IInv'
<1>1. PICK i \in Interface : net' = SetBroadcastInterface(net, i)
  BY DEF ChooseInterface
<1>2. ConnectionOK(net, failures) /\ net \in Connection
  BY DEF IInv, TablesOK, ConnectionOK
<1>3. ConnectionOK(net', failures) /\ net'.bound = net.bound
  <2>1. CASE net.bound # Closed
    BY <1>1, <1>2, <2>1 DEF SetBroadcastInterface
  <2>2. CASE net.bound = Closed
    <3>1. net' = [net EXCEPT !.interface = i]
      BY <1>1, <2>2 DEF SetBroadcastInterface
    <3>2. net' \in Connection
      BY <1>2, <3>1, ConnectionFields
    <3>3. net'.bound = Closed /\ net'.broadcast = net.broadcast /\ net'.open = net.open
      BY <1>2, <2>2, <3>1 DEF Connection
    <3> QED
      BY <1>2, <2>2, <3>2, <3>3 DEF ConnectionOK
  <2> QED
    BY <2>1, <2>2
<1>4. UNCHANGED <<failures, devices, timeouts, listeners, ages, ready, at, call>>
  BY DEF ChooseInterface
<1>5. TablesOK(net', devices', timeouts', failures')
  BY <1>3, <1>4 DEF IInv, TablesOK
<1> QED
  BY <1>4, <1>5 DEF IInv, CountsOK, CallOK, ages, Listed

(* What Becomes leaves of the other variables.                             *)
LEMMA BecomesKeeps ==
  ASSUME IInv, NEW effects, NEW own, NEW new \in Results(effects, own),
         Becomes(new)
  PROVE  TablesOK(net', devices', timeouts', failures')
<1>1. TablesOK(net, devices, timeouts, failures) /\ failures \in Nat
  BY DEF IInv, CountsOK
<1> QED
  BY <1>1, ResultKeeps DEF Becomes

LEMMA ProgramKeeps ==
  ASSUME IInv, ProgramChangesTables
  PROVE  IInv'
<1>1. PICK new \in Results(Effects, xPLFD) : Becomes(new)
  BY DEF ProgramChangesTables
<1>2. TablesOK(net', devices', timeouts', failures')
  BY <1>1, BecomesKeeps
<1>3. /\ UNCHANGED <<failures, listeners, ages, at, call>>
      /\ ready' = ready \cap {devices'[i].fd : i \in DOMAIN devices'}
  BY <1>1 DEF ProgramChangesTables, Becomes
<1>4. ready' \subseteq Listed'
  BY <1>3 DEF Listed
<1> QED
  BY <1>2, <1>3, <1>4 DEF IInv, CountsOK, CallOK, ages

LEMMA WaitIsInt ==
  ASSUME NEW t \in Timeout \cup {0}
  PROVE  t \in Int
<1>1. Timeout \subseteq Int
  BY IoConstants
<1>2. 0 \in Int
  OBVIOUS
<1> QED
  BY <1>1, <1>2

LEMMA NoCallWaits ==
  \A t \in Timeout \cup {0} : WaitOK([NoCall EXCEPT !.theTimeout = t])
<1>1. 0 \in 0 .. Second /\ \A t \in Timeout \cup {0} : t > Second => 0 <= t
  BY IoConstants
<1> QED
  BY <1>1 DEF WaitOK, Calls, NoCall

LEMMA ProcessMessagesKeeps ==
  ASSUME IInv, ProcessMessages
  PROVE  IInv'
<1>1. PICK t \in Timeout : call' = [NoCall EXCEPT !.theTimeout = t]
  BY DEF ProcessMessages
<1>2. WaitOK(call')
  BY <1>1, NoCallWaits
<1>3. at' = "loop" /\ UNCHANGED <<tables, ages, ready>>
  BY DEF ProcessMessages
<1>4. CallOK'
  BY <1>2, <1>3 DEF CallOK
<1> QED
  BY <1>3, <1>4, QuietStep DEF Places, ages, IInv, CountsOK

LEMMA PollKeeps ==
  ASSUME IInv, Poll
  PROVE  IInv'
<1>1. /\ at' = "poll" /\ UNCHANGED <<tables, ages, ready>>
      /\ call' = [call EXCEPT !.thisTimeout = ThisTimeout, !.left = ThisTimeout]
  BY DEF Poll
<1>2. /\ call \in Calls /\ call.theTimeout \in Int /\ call.soFar \in Nat
      /\ call.theTimeout > Second => call.soFar <= call.theTimeout
      /\ Second \in Nat \ {0}
  <2>1. WaitOK(call)
    BY DEF IInv, CallOK
  <2>2. call \in Calls /\ call.theTimeout \in Timeout \cup {0} /\ call.soFar \in Nat
    BY <2>1 DEF WaitOK, Calls
  <2>3. call.theTimeout \in Int /\ Second \in Nat \ {0}
    BY <2>2, WaitIsInt, IoConstants
  <2> QED
    BY <2>1, <2>2, <2>3 DEF WaitOK
<1>3. /\ ThisTimeout \in 0 .. Second
      /\ call.theTimeout > Second => call.soFar + ThisTimeout <= call.theTimeout
  <2>1. CASE call.theTimeout > Second
    BY <1>2, <2>1 DEF ThisTimeout, Forever
  <2>2. CASE ~(call.theTimeout > Second)
    BY <1>2, <2>2 DEF ThisTimeout, Forever
  <2> QED
    BY <2>1, <2>2
<1> DEFINE t == ThisTimeout
<1>4. /\ call' \in Calls /\ call'.theTimeout = call.theTimeout /\ call'.soFar = call.soFar
      /\ call'.thisTimeout = t
  <2> HIDE DEF t
  <2>1. call' = [call EXCEPT !.thisTimeout = t, !.left = t] /\ t \in 0 .. Second
    BY <1>1, <1>3 DEF t
  <2> QED
    BY <1>2, <2>1 DEF Calls
<1>5. CallOK'
  BY <1>1, <1>2, <1>3, <1>4 DEF CallOK, WaitOK
<1> QED
  BY <1>1, <1>5, QuietStep DEF Places, ages, IInv, CountsOK

LEMMA BecomesReadyKeeps ==
  ASSUME IInv, NEW fd, BecomesReady(fd)
  PROVE  IInv'
BY DEF IInv, BecomesReady, tables, ages, TablesOK, CountsOK, CallOK, Listed

(* doTimeouts, and then on with what is left of the call.                  *)
LEMMA TimeoutsKeep ==
  ASSUME IInv, NEW place \in {"out", "loop"}, NEW locals, WaitOK(locals),
         DoTimeouts(place, locals)
  PROVE  IInv'
<1>1. UNCHANGED tables /\ UNCHANGED ready
  BY DEF DoTimeouts
<1>2. sinceBeat' \in 0 .. HeartbeatCheck /\ sinceChecks' \in 0 .. Second
  BY IoConstants DEF DoTimeouts, IInv, CountsOK
<1>3. Len(timeouts) \in Nat
  BY TypedTables DEF IInv
<1>4. WaitOK([locals EXCEPT !.index = Len(timeouts), !.return = place])
  BY <1>3 DEF WaitOK, Calls
<1>5. WaitOK(call') /\ at' \in {"timeouts", place}
  BY <1>4 DEF DoTimeouts
<1>6. CallOK' /\ at' \in Places
  BY <1>5 DEF CallOK, Places
<1> QED
  BY <1>1, <1>2, <1>6, QuietStep

LEMMA LeaveKeeps ==
  ASSUME IInv, Leave
  PROVE  IInv'
<1>1. WaitOK(NoCall)
  BY IoConstants DEF WaitOK, Calls, NoCall
<1>2. CASE call.timeoutDone
  <2>1. at' = "out" /\ call' = NoCall /\ UNCHANGED <<tables, ages, ready>>
    BY <1>2 DEF Leave
  <2>2. CallOK'
    BY <1>1, <2>1 DEF CallOK
  <2> QED
    BY <2>1, <2>2, QuietStep DEF Places, ages, IInv, CountsOK
<1>3. CASE ~call.timeoutDone
  BY <1>1, <1>3, TimeoutsKeep DEF Leave
<1> QED
  BY <1>2, <1>3

LEMMA PollFailsKeeps ==
  ASSUME IInv, PollFails
  PROVE  IInv'
<1>1. NoCall = [NoCall EXCEPT !.theTimeout = 0]
  BY DEF NoCall
<1>2. WaitOK(call')
  BY <1>1, NoCallWaits DEF PollFails
<1>3. UNCHANGED <<tables, ages, ready>> /\ at' = "out"
  BY DEF PollFails
<1>4. CallOK'
  BY <1>2, <1>3 DEF CallOK, WaitOK
<1> QED
  BY <1>3, <1>4, QuietStep DEF Places, ages, IInv, CountsOK

LEMMA PollTimesOutKeeps ==
  ASSUME IInv, PollTimesOut
  PROVE  IInv'
<1>1. CASE call.thisTimeout < Second
  BY <1>1, LeaveKeeps DEF PollTimesOut
<1>2. CASE ~(call.thisTimeout < Second)
  <2> DEFINE n == SoFar
             locals == [call EXCEPT !.timeoutDone = TRUE, !.soFar = n]
  <2>1. DoTimeouts("loop", locals) /\ at = "poll"
    BY <1>2 DEF PollTimesOut
  <2>2. call \in Calls /\ n \in Nat /\ (call.theTimeout > Second => n <= call.theTimeout)
    BY <2>1, IoConstants DEF IInv, CallOK, WaitOK, Calls, SoFar
  <2> HIDE DEF n
  <2>3. WaitOK(locals)
    BY <2>2 DEF WaitOK, Calls
  <2> HIDE DEF locals
  <2> QED
    BY <2>1, <2>3, TimeoutsKeep
<1> QED
  BY <1>1, <1>2

LEMMA SkipDeviceKeeps ==
  ASSUME IInv, SkipDevice
  PROVE  IInv'
<1>1. /\ at = "devices" /\ call.index > 0 /\ UNCHANGED <<tables, ages, ready>>
      /\ at' = IF call.index = 1 THEN "loop" ELSE "devices"
      /\ call' = [call EXCEPT !.index = call.index - 1]
  BY DEF SkipDevice
<1>2. WaitOK(call) /\ call.index \in Nat /\ call.active >= 1
  BY <1>1 DEF IInv, CallOK, WaitOK, Calls
<1>3. WaitOK(call') /\ call'.index = call.index - 1 /\ call'.active = call.active
  BY <1>1, <1>2 DEF WaitOK, Calls
<1>4. CallOK' /\ at' \in Places
  BY <1>1, <1>2, <1>3 DEF CallOK, Places
<1> QED
  BY <1>1, <1>4, QuietStep DEF ages, IInv, CountsOK

LEMMA TimeoutsDoneKeeps ==
  ASSUME IInv, TimeoutsDone
  PROVE  IInv'
<1>1. /\ at' = call.return /\ UNCHANGED <<tables, ages, ready>>
      /\ call' = [call EXCEPT !.index = 0, !.return = "out"]
  BY DEF TimeoutsDone
<1>2. WaitOK(call) /\ call.return \in {"out", "loop"}
  BY DEF IInv, CallOK, WaitOK, Calls
<1>3. WaitOK(call')
  BY <1>1, <1>2 DEF WaitOK, Calls
<1>4. CallOK' /\ at' \in Places
  BY <1>1, <1>2, <1>3 DEF CallOK, Places
<1> QED
  BY <1>1, <1>4, QuietStep DEF ages, IInv, CountsOK

(* The devices poll found, counted.                                        *)
Active(d, n) == {i \in 1 .. n : d[i].revents}

LEMMA ActiveIsFinite ==
  ASSUME NEW d, NEW n \in Nat
  PROVE  IsFiniteSet(Active(d, n)) /\ Cardinality(Active(d, n)) \in Nat
<1>1. IsFiniteSet(1 .. n)
  BY FS_Interval
<1>2. Active(d, n) \subseteq 1 .. n
  BY DEF Active
<1> QED
  BY <1>1, <1>2, FS_Subset, FS_CardinalityType

LEMMA FoundDevices ==
  ASSUME IInv, PollFindsDevices
  PROVE  /\ devices' \in Seq(DeviceEntry) /\ Len(devices') = Len(devices)
         /\ DOMAIN devices' = DOMAIN devices
         /\ \A i \in DOMAIN devices : devices'[i].fd = devices[i].fd
         /\ call' = [call EXCEPT !.soFar = 0, !.index = Len(devices),
                                 !.active = Cardinality(Active(devices', Len(devices)))]
         /\ Len(devices) >= 1 /\ Cardinality(Active(devices', Len(devices))) >= 1
<1>1. /\ devices \in Seq(DeviceEntry) /\ DOMAIN devices = 1 .. Len(devices)
      /\ Len(devices) \in Nat /\ \A i \in DOMAIN devices : devices[i] \in DeviceEntry
  BY TypedTables DEF IInv
<1>2. devices' = [i \in DOMAIN devices |->
                    [devices[i] EXCEPT !.revents = devices[i].fd \in ready]]
  BY DEF PollFindsDevices
<1>3. ASSUME NEW i \in DOMAIN devices
      PROVE  /\ devices'[i] \in DeviceEntry /\ devices'[i].fd = devices[i].fd
             /\ devices'[i].revents <=> devices[i].fd \in ready
  <2>1. devices'[i] = [devices[i] EXCEPT !.revents = devices[i].fd \in ready]
    BY <1>2
  <2>2. devices[i] \in DeviceEntry /\ (devices[i].fd \in ready) \in BOOLEAN
    BY <1>1
  <2> QED
    BY <2>1, <2>2 DEF DeviceEntry
<1>4. devices' \in [1 .. Len(devices) -> DeviceEntry]
  BY <1>1, <1>2, <1>3
<1>5. devices' \in Seq(DeviceEntry) /\ Len(devices') = Len(devices)
  <2>1. devices' \in Seq(DeviceEntry)
    BY <1>1, <1>4, SeqDef
  <2> QED
    BY <1>1, <1>4, <2>1, LenProperties
<1>6. {i \in DOMAIN devices : devices[i].fd \in ready} = Active(devices', Len(devices))
  BY <1>1, <1>3 DEF Active
<1>7. \E i \in DOMAIN devices : devices[i].fd \in ready
  BY DEF PollFindsDevices, IInv, Listed
<1>8. Cardinality(Active(devices', Len(devices))) >= 1
  <2>1. Active(devices', Len(devices)) # {}
    BY <1>6, <1>7
  <2>2. /\ IsFiniteSet(Active(devices', Len(devices)))
        /\ Cardinality(Active(devices', Len(devices))) \in Nat
    BY <1>1, ActiveIsFinite
  <2>3. Cardinality(Active(devices', Len(devices))) # 0
    BY <2>1, <2>2, FS_EmptySet
  <2> QED
    BY <2>2, <2>3
<1>9. call' = [call EXCEPT !.soFar = 0, !.index = Len(devices),
                           !.active = Cardinality(Active(devices', Len(devices)))]
  BY <1>6 DEF PollFindsDevices, LastDevice
<1>10. Len(devices) >= 1
  BY <1>1, <1>7
<1> QED
  BY <1>2, <1>3, <1>5, <1>8, <1>9, <1>10

LEMMA PollFindsDevicesKeeps ==
  ASSUME IInv, PollFindsDevices
  PROVE  IInv'
<1> DEFINE n == Cardinality(Active(devices', Len(devices)))
<1>1. /\ devices' \in Seq(DeviceEntry) /\ Len(devices') = Len(devices)
      /\ DOMAIN devices' = DOMAIN devices
      /\ \A i \in DOMAIN devices : devices'[i].fd = devices[i].fd
      /\ call' = [call EXCEPT !.soFar = 0, !.index = Len(devices), !.active = n]
      /\ Len(devices) >= 1 /\ n >= 1
  BY FoundDevices
<1>2. Len(devices) \in Nat /\ n \in Nat
  BY TypedTables, ActiveIsFinite DEF IInv
<1> HIDE DEF n
<1>3. at' = "devices" /\ UNCHANGED <<net, failures, timeouts, listeners, ages, ready>>
  BY DEF PollFindsDevices
<1>4. TablesOK(net', devices', timeouts', failures')
  BY <1>1, <1>3 DEF IInv, TablesOK, EachOnce
<1>5. WaitOK(call)
  BY DEF IInv, CallOK
<1>6. WaitOK(call') /\ call'.index = Len(devices) /\ call'.active = n
  <2>1. call'.theTimeout = call.theTimeout /\ call'.soFar = 0 /\ call' \in Calls
    BY <1>1, <1>2, <1>5 DEF WaitOK, Calls
  <2>2. call.theTimeout \in Timeout \cup {0}
    BY <1>5 DEF WaitOK, Calls
  <2>3. call.theTimeout \in Int /\ Second \in Nat
    BY <2>2, WaitIsInt, IoConstants
  <2>4. call'.theTimeout > Second => 0 <= call'.theTimeout
    BY <2>1, <2>3
  <2>5. WaitOK(call')
    BY <2>1, <2>4 DEF WaitOK
  <2> QED
    BY <1>1, <1>2, <1>5, <2>5 DEF WaitOK, Calls
<1>7. CallOK'
  BY <1>1, <1>3, <1>6 DEF CallOK
<1>8. ready' \subseteq Listed'
  BY <1>1, <1>3 DEF IInv, Listed
<1> QED
  BY <1>3, <1>4, <1>7, <1>8 DEF IInv, CountsOK, Places, ages

LEMMA DispatchDeviceKeeps ==
  ASSUME IInv, DispatchDevice
  PROVE  IInv'
<1>1. /\ at = "devices" /\ call.index > 0 /\ UNCHANGED ages
      /\ ready' \subseteq Listed'
      /\ at' \in {"loop", "devices"}
      /\ at' = "devices" => ~LastActive /\ call.index # 1
      /\ call' = [call EXCEPT !.active = call.active - 1, !.index = call.index - 1]
  BY DEF DispatchDevice, Listed
<1>2. PICK new \in Results(Effect, devices[call.index].fd) : Becomes(new)
  BY DEF DispatchDevice
<1>3. TablesOK(net', devices', timeouts', failures')
  BY <1>2, BecomesKeeps
<1>4. UNCHANGED <<failures, listeners>>
  BY <1>2 DEF Becomes
<1>5. /\ WaitOK(call) /\ call.index \in Nat /\ call.index >= 1
      /\ call.active \in Nat /\ call.active >= 1
  BY <1>1 DEF IInv, CallOK, WaitOK, Calls
<1>6. WaitOK(call') /\ call'.index = call.index - 1 /\ call'.active = call.active - 1
  <2>1. call.index - 1 \in Nat /\ call.active - 1 \in Nat /\ call \in Calls
    BY <1>5 DEF WaitOK
  <2>2. /\ call' \in Calls /\ call'.theTimeout = call.theTimeout /\ call'.soFar = call.soFar
        /\ call'.index = call.index - 1 /\ call'.active = call.active - 1
    BY <1>1, <2>1 DEF Calls
  <2> QED
    BY <1>5, <2>2 DEF WaitOK
<1>7. CallOK'
  BY <1>1, <1>5, <1>6 DEF CallOK, LastActive
<1> QED
  BY <1>1, <1>3, <1>4, <1>7 DEF IInv, CountsOK, Places, ages

(* The stamp of a timeout handler that was run, or of the entry that stands *)
(* in its place now.                                                       *)
LEMMA StampedKeeps ==
  ASSUME NEW t, Aging(t)
  PROVE  /\ Aging(Stamped(t)) /\ Len(Stamped(t)) = Len(t) /\ DOMAIN Stamped(t) = DOMAIN t
         /\ \A i \in DOMAIN t :
              /\ Stamped(t)[i].handler = t[i].handler
              /\ i # call.index => Stamped(t)[i] = t[i]
              /\ i = call.index => Stamped(t)[i].age = 0
<1>1. /\ DOMAIN t = 1 .. Len(t) /\ t \in [1 .. Len(t) -> TimeoutEntry]
      /\ \A i \in DOMAIN t : t[i] \in TimeoutEntry
  <2>1. t \in Seq(TimeoutEntry)
    BY DEF Aging
  <2> QED
    BY <2>1, LenProperties, ElementOfSeq
<1>2. CASE call.index \in DOMAIN t
  <2> DEFINE k == call.index
             e == [t[k] EXCEPT !.age = 0]
             new == [t EXCEPT ![k] = e]
  <2>1. e \in TimeoutEntry /\ e.handler = t[k].handler /\ e.age = 0
    BY <1>1, <1>2 DEF TimeoutEntry
  <2>2. Stamped(t) = new
    BY <1>2 DEF Stamped
  <2> HIDE DEF e
  <2>3. /\ new \in [DOMAIN t -> TimeoutEntry] /\ DOMAIN new = DOMAIN t
        /\ \A i \in DOMAIN t : new[i] = IF i = k THEN e ELSE t[i]
    BY <1>1, <1>2, <2>1
  <2> HIDE DEF new
  <2>4. t[k].handler \in TimeoutHandler
    BY <1>1, <1>2 DEF TimeoutEntry
  <2>5. 0 <= Interval[t[k].handler]
    BY <2>4, IoConstants
  <2>6. \A i \in DOMAIN t :
          new[i].handler = t[i].handler /\ new[i].age <= Interval[t[i].handler]
    BY <2>1, <2>3, <2>5 DEF Aging
  <2>7. Aging(new) /\ Len(new) = Len(t)
    BY <2>3, <2>6, AgesChanged
  <2> QED
    BY <2>1, <2>2, <2>3, <2>7
<1>3. CASE call.index \notin DOMAIN t
  <2>1. Stamped(t) = t
    BY <1>3 DEF Stamped
  <2> QED
    BY <1>3, <2>1
<1> QED
  BY <1>2, <1>3

LEMMA CheckTimeoutTables ==
  ASSUME IInv, CheckTimeout
  PROVE  TablesOK(net', devices', timeouts', failures') /\ UNCHANGED <<failures, listeners>>
<1>1. TablesOK(net, devices, timeouts, failures) /\ failures \in Nat
  BY DEF IInv, CountsOK
<1>2. \/ UNCHANGED tables
      \/ \E new \in Results(Effect, xPLFD) : Becomes([new EXCEPT !.timeouts = Stamped(@)])
  BY DEF CheckTimeout
<1>3. ASSUME NEW new \in Results(Effect, xPLFD),
             Becomes([new EXCEPT !.timeouts = Stamped(@)])
      PROVE  TablesOK(net', devices', timeouts', failures') /\ UNCHANGED <<failures, listeners>>
  <2>1. /\ net' = new.net /\ devices' = new.devices /\ timeouts' = Stamped(new.timeouts)
        /\ UNCHANGED <<failures, listeners>>
    <3>1. \E n, d, t : new = [net |-> n, devices |-> d, timeouts |-> t]
      BY ResultIs DEF Tables
    <3> QED
      BY <1>3, <3>1 DEF Becomes
  <2>2. TablesOK(new.net, new.devices, new.timeouts, failures)
    BY <1>1, ResultKeeps
  <2>3. Aging(Stamped(new.timeouts))
    BY <2>2, AgingTable, StampedKeeps
  <2> QED
    BY <2>1, <2>2, <2>3, AgingTable
<1> QED
  BY <1>1, <1>2, <1>3 DEF tables, TablesOK

LEMMA CheckTimeoutKeeps ==
  ASSUME IInv, CheckTimeout
  PROVE  IInv'
<1>1. /\ at = "timeouts" /\ call.index > 0 /\ at' = at /\ UNCHANGED ages
      /\ call' = [call EXCEPT !.index = call.index - 1]
      /\ ready' \subseteq Listed'
  BY DEF CheckTimeout, LastTimeout, Listed
<1>2. TablesOK(net', devices', timeouts', failures') /\ UNCHANGED <<failures, listeners>>
  BY CheckTimeoutTables
<1>3. WaitOK(call) /\ call.index \in Nat
  BY DEF IInv, CallOK, WaitOK, Calls
<1>4. WaitOK(call')
  BY <1>1, <1>3 DEF WaitOK, Calls
<1>5. CallOK'
  BY <1>1, <1>4 DEF CallOK
<1> QED
  BY <1>1, <1>2, <1>5 DEF IInv, CountsOK, ages

LEMMA TickedTimeouts ==
  ASSUME IInv, Tick
  PROVE  /\ Aging(timeouts') /\ Len(timeouts') = Len(timeouts) /\ DOMAIN timeouts' = DOMAIN timeouts
         /\ \A i \in DOMAIN timeouts :
              timeouts'[i].handler = timeouts[i].handler /\ timeouts'[i].age >= timeouts[i].age
<1>1. /\ Aging(timeouts) /\ \A i \in DOMAIN timeouts : timeouts[i] \in TimeoutEntry
  BY TypedTables, AgingTable DEF IInv
<1>2. timeouts' = [i \in DOMAIN timeouts |->
                     [timeouts[i] EXCEPT !.age = Aged(timeouts[i].age, Interval[timeouts[i].handler])]]
  BY DEF Tick
<1>3. ASSUME NEW i \in DOMAIN timeouts
      PROVE  /\ timeouts'[i] \in TimeoutEntry /\ timeouts'[i].handler = timeouts[i].handler
             /\ timeouts'[i].age <= Interval[timeouts[i].handler]
             /\ timeouts'[i].age >= timeouts[i].age
  <2> DEFINE old == timeouts[i]
             a == Aged(old.age, Interval[old.handler])
  <2>1. old \in TimeoutEntry /\ old.age <= Interval[old.handler]
    BY <1>1 DEF Aging
  <2>2. old.age \in Nat /\ Interval[old.handler] \in Nat
    BY <2>1, IoConstants DEF TimeoutEntry
  <2>3. a \in Nat /\ a <= Interval[old.handler] /\ a >= old.age
    BY <2>1, <2>2 DEF Aged
  <2>4. timeouts'[i] = [old EXCEPT !.age = a]
    BY <1>2
  <2> HIDE DEF a, old
  <2>5. timeouts'[i] \in TimeoutEntry /\ timeouts'[i].handler = old.handler /\ timeouts'[i].age = a
    BY <2>1, <2>3, <2>4 DEF TimeoutEntry
  <2> QED
    BY <2>3, <2>5 DEF old
<1>4. timeouts' \in [DOMAIN timeouts -> TimeoutEntry]
  BY <1>2, <1>3
<1>5. Aging(timeouts') /\ Len(timeouts') = Len(timeouts)
  BY <1>1, <1>3, <1>4, AgesChanged
<1> QED
  BY <1>3, <1>4, <1>5

LEMMA TickKeeps ==
  ASSUME IInv, Tick
  PROVE  IInv'
<1>1. UNCHANGED <<net, failures, devices, listeners, ready, at>> /\ Aging(timeouts')
  BY TickedTimeouts DEF Tick
<1>2. TablesOK(net', devices', timeouts', failures')
  BY <1>1, AgingTable DEF IInv
<1>3. sinceBeat' \in 0 .. HeartbeatCheck /\ sinceChecks' \in 0 .. Second
  <2>1. \A n \in Nat : \A age \in 0 .. n : Aged(age, n) \in 0 .. n
    BY DEF Aged
  <2> QED
    BY <2>1, IoConstants DEF Tick, IInv, CountsOK
<1>4. CallOK'
  <2>1. CASE UNCHANGED call
    BY <1>1, <2>1 DEF IInv, CallOK
  <2>2. CASE at = "poll" /\ call.left > 0 /\ call' = [call EXCEPT !.left = call.left - 1]
    <3>1. WaitOK(call) /\ call.left \in 0 .. Second /\ Second \in Nat
      BY IoConstants DEF IInv, CallOK, WaitOK, Calls
    <3>2. call.left - 1 \in 0 .. Second
      BY <2>2, <3>1
    <3>3. /\ call' \in Calls /\ call'.theTimeout = call.theTimeout /\ call'.soFar = call.soFar
          /\ call'.thisTimeout = call.thisTimeout
      BY <2>2, <3>1, <3>2 DEF WaitOK, Calls
    <3> QED
      BY <1>1, <2>2, <3>1, <3>3 DEF IInv, CallOK, WaitOK
  <2> QED
    BY <2>1, <2>2 DEF Tick
<1> QED
  BY <1>1, <1>2, <1>3, <1>4 DEF IInv, CountsOK, Listed

LEMMA InitOK == Init => IInv
<1> SUFFICES ASSUME Init PROVE IInv
  OBVIOUS
<1>1. ConnectionOK(net, failures) /\ net.bound = Closed
  <2>1. net = NoConnection /\ failures = 0
    BY DEF Init
  <2>2. /\ NoConnection.bound = Closed /\ NoConnection.broadcast = FALSE
        /\ NoConnection.open = 0
    BY DEF NoConnection
  <2>3. BASE_XPL_PORT \in Port /\ "xcViaHub" \in ConnectType
    BY DEF Port, ConnectType
  <2>4. NoConnection \in Connection
    BY <2>3 DEF NoConnection, Connection
  <2>5. 0 \in 0 .. 0
    OBVIOUS
  <2> HIDE DEF NoConnection
  <2> QED
    BY <2>1, <2>2, <2>4, <2>5 DEF ConnectionOK
<1>2. DOMAIN devices = {} /\ DOMAIN timeouts = {}
  BY DEF Init
<1>3. TablesOK(net, devices, timeouts, failures)
  BY <1>1, <1>2, EmptySeq DEF Init, TablesOK, EachOnce
<1>4. NoCall = [NoCall EXCEPT !.theTimeout = 0]
  BY DEF NoCall
<1>5. WaitOK(call)
  BY <1>4, NoCallWaits DEF Init
<1>6. CallOK /\ at \in Places /\ ready \subseteq Listed
  BY <1>5 DEF Init, CallOK, Places
<1>7. CountsOK
  BY IoConstants DEF Init, CountsOK
<1> QED
  BY <1>3, <1>6, <1>7 DEF IInv

LEMMA StepOK == IInv /\ [Next]_vars => IInv'
<1> SUFFICES ASSUME IInv, [Next]_vars PROVE IInv'
  OBVIOUS
<1>1. ASSUME NEW theConnectType \in ConnectType, Initialize(theConnectType) PROVE IInv'
  BY <1>1, InitializeKeeps
<1>2. CASE ChooseInterface
  BY <1>2, ChooseInterfaceKeeps
<1>3. CASE ProgramChangesTables
  BY <1>3, ProgramKeeps
<1>4. CASE ProcessMessages
  BY <1>4, ProcessMessagesKeeps
<1>5. ASSUME NEW fd \in Device \cup {xPLFD}, BecomesReady(fd) PROVE IInv'
  BY <1>5, BecomesReadyKeeps
<1>6. CASE Poll
  BY <1>6, PollKeeps
<1>7. CASE PollFindsDevices
  BY <1>7, PollFindsDevicesKeeps
<1>8. CASE PollTimesOut
  BY <1>8, PollTimesOutKeeps
<1>9. CASE LeaveStopped
  BY <1>9, LeaveKeeps DEF LeaveStopped
<1>10. CASE SkipDevice
  BY <1>10, SkipDeviceKeeps
<1>11. CASE DispatchDevice
  BY <1>11, DispatchDeviceKeeps
<1>12. CASE CheckTimeout
  BY <1>12, CheckTimeoutKeeps
<1>13. CASE TimeoutsDone
  BY <1>13, TimeoutsDoneKeeps
<1>14. CASE Tick
  BY <1>14, TickKeeps
<1>15. CASE UNCHANGED vars
  BY <1>15 DEF vars, tables, ages, IInv, TablesOK, CountsOK, CallOK, Listed
<1>16. CASE PollFails
  BY <1>16, PollFailsKeeps
<1> QED
  BY <1>1, <1>2, <1>3, <1>4, <1>5, <1>6, <1>7, <1>8, <1>9, <1>10, <1>11, <1>12, <1>13,
     <1>14, <1>15, <1>16
  DEF Next, Loop

LEMMA IoInvariant == Spec => []IInv
<1> QED
  BY InitOK, StepOK, PTL DEF Spec

(* Every variable of the loop keeps its type: the tables hold devices and  *)
(* handlers only, no age passes its interval, and what is left to wait,    *)
(* counted and indexed is never less than nothing, whatever handlers do    *)
(* to the tables and however often the library is started and stopped.     *)
THEOREM IoIsTyped == Spec => []TypeOK
<1>1. ASSUME IInv PROVE TypeOK
  <2>1. /\ net \in Connection
        /\ devices \in Seq([fd : Device \cup {xPLFD}, revents : BOOLEAN])
        /\ timeouts \in Seq([handler : TimeoutHandler, age : Nat])
        /\ \A i \in DOMAIN timeouts : timeouts[i].age <= Interval[timeouts[i].handler]
    BY <1>1 DEF IInv, TablesOK, ConnectionOK, DeviceEntry, TimeoutEntry
  <2>2. failures + listeners \in 0 .. MaxStarts /\ listeners \in 0 .. MaxStarts
    BY <1>1, IoConstants DEF IInv, CountsOK
  <2>3. sinceBeat \in 0 .. HeartbeatCheck /\ sinceChecks \in 0 .. Second
    BY <1>1 DEF IInv, CountsOK
  <2>4. call \in Calls
    BY <1>1 DEF IInv, CallOK, WaitOK
  <2> QED
    BY <1>1, <2>1, <2>2, <2>3, <2>4 DEF IInv, TypeOK, Calls
<1> QED
  BY <1>1, IoInvariant, PTL

(* xPL_initialize and xPL_shutdown: the library's device is in the table   *)
(* while it runs and then only, and no socket is open that will not be     *)
(* closed, but for one of each start that failed.                          *)
THEOREM ConnectionStaysConsistent == Spec => []ConnectionIsConsistent
<1>1. ASSUME IInv PROVE ConnectionIsConsistent
  <2>1. /\ ConnectionOK(net, failures) /\ failures \in Nat
        /\ EachOnce(devices, timeouts) /\ ((\E i \in DOMAIN devices : devices[i].fd = xPLFD) <=> started)
    BY <1>1 DEF IInv, TablesOK, CountsOK, started
  <2> DEFINE own == {i \in DOMAIN devices : devices[i].fd = xPLFD}
  <2>2. Cardinality(own) = IF started THEN 1 ELSE 0
    <3>1. CASE started
      <4>1. PICK i \in own : TRUE
        BY <2>1, <3>1
      <4>2. own = {i}
        BY <2>1, <4>1 DEF EachOnce
      <4> QED
        BY <3>1, <4>2, FS_Singleton
    <3>2. CASE ~started
      <4>1. own = {}
        BY <2>1, <3>2
      <4> QED
        BY <3>2, <4>1, FS_EmptySet
    <3> QED
      BY <3>1, <3>2
  <2>3. started =>
          /\ net.broadcast /\ net.interface # NoInterface
          /\ net.port = net.bound
          /\ net.type = "xcViaHub" => net.bound # BASE_XPL_PORT
    BY <2>1 DEF ConnectionOK, started
  <2>4. LET known == (IF started THEN 1 ELSE 0) + (IF net.broadcast THEN 1 ELSE 0)
        IN net.open \in known .. known + failures
    <3>1. CASE started
      BY <2>1, <3>1 DEF ConnectionOK, started
    <3>2. CASE ~started
      BY <2>1, <3>2 DEF ConnectionOK, started
    <3> QED
      BY <3>1, <3>2
  <2> QED
    BY <2>2, <2>3, <2>4 DEF ConnectionIsConsistent
<1> QED
  BY <1>1, IoInvariant, PTL
-----------------------------------------------------------------------------
(* The two loops, under handlers that take nothing of others out of the    *)
(* tables.                                                                 *)

(* The part of either table in what a handler leaves.                      *)
LEMMA ResultParts ==
  ASSUME NEW effects, NEW own, NEW new \in Results(effects, own)
  PROVE  /\ \/ new.timeouts = timeouts
            \/ \E h \in TimeoutHandler \ Handlers :
                 new = Tables(net, devices, Append(timeouts, [handler |-> h, age |-> 0]))
            \/ "remove" \in effects /\ \E h \in Handlers : new = Tables(net, devices, Ended(h))
         /\ \/ new.devices = devices
            \/ \E fd \in Device \ Listed, r \in BOOLEAN :
                 new = Tables(net, Append(devices, [fd |-> fd, revents |-> r]), timeouts)
            \/ \E fd \in Device \cap Listed :
                 /\ "remove" \in effects \/ fd = own
                 /\ new = Tables(net, WithoutDevice(fd), timeouts)
            \/ started /\ new = Tables(Disconnect(net), WithoutDevice(xPLFD), timeouts)
<1>1. \A n, d, t : new = Tables(n, d, t) => new.timeouts = t /\ new.devices = d
  BY TablesFields
<1>2. CASE new = Tables(net, devices, timeouts)
  BY <1>1, <1>2
<1>3. CASE \E fd \in Device \ Listed, r \in BOOLEAN :
             new = Tables(net, Append(devices, [fd |-> fd, revents |-> r]), timeouts)
  <2>1. new.timeouts = timeouts
    BY <1>1, <1>3, Zenon
  <2> QED
    BY <1>3, <2>1, Zenon
<1>4. CASE \E h \in TimeoutHandler \ Handlers :
             new = Tables(net, devices, Append(timeouts, [handler |-> h, age |-> 0]))
  <2>1. new.devices = devices
    BY <1>1, <1>4, Zenon
  <2> QED
    BY <1>4, <2>1, Zenon
<1>5. CASE \E fd \in Device \cap Listed :
             /\ "remove" \in effects \/ fd = own
             /\ new = Tables(net, WithoutDevice(fd), timeouts)
  <2>1. new.timeouts = timeouts
    BY <1>1, <1>5, Zenon
  <2> QED
    BY <1>5, <2>1, Zenon
<1>6. CASE "remove" \in effects /\ \E h \in Handlers : new = Tables(net, devices, Ended(h))
  <2>1. new.devices = devices
    BY <1>1, <1>6, Zenon
  <2> QED
    BY <1>6, <2>1, Zenon
<1>7. CASE started /\ new = Tables(Disconnect(net), WithoutDevice(xPLFD), timeouts)
  <2>1. new.timeouts = timeouts
    BY <1>1, <1>7, Zenon
  <2> QED
    BY <1>7, <2>1, Zenon
<1> QED
  <2>1. \/ new = Tables(net, devices, timeouts)
        \/ \E fd \in Device \ Listed, r \in BOOLEAN :
             new = Tables(net, Append(devices, [fd |-> fd, revents |-> r]), timeouts)
        \/ \E h \in TimeoutHandler \ Handlers :
             new = Tables(net, devices, Append(timeouts, [handler |-> h, age |-> 0]))
        \/ \E fd \in Device \cap Listed :
             /\ "remove" \in effects \/ fd = own
             /\ new = Tables(net, WithoutDevice(fd), timeouts)
        \/ "remove" \in effects /\ \E h \in Handlers : new = Tables(net, devices, Ended(h))
        \/ started /\ new = Tables(Disconnect(net), WithoutDevice(xPLFD), timeouts)
    BY ResultIs
  <2> QED
    BY <1>2, <1>3, <1>4, <1>5, <1>6, <1>7, <2>1, Zenon

(* The table of timeout handlers only grows, at its end, by handlers that  *)
(* were not in it and are not due.                                         *)
Grown(new) ==
  /\ Len(new) >= Len(timeouts)
  /\ \A i \in DOMAIN timeouts : i \in DOMAIN new /\ new[i] = timeouts[i]
  /\ \A i \in DOMAIN new \ DOMAIN timeouts : new[i].age = 0 /\ new[i].handler \notin Handlers

LEMMA GrownTimers ==
  ASSUME Aging(timeouts), NEW effects, "remove" \notin effects, NEW own,
         NEW new \in Results(effects, own)
  PROVE  Grown(new.timeouts)
<1>1. Grown(timeouts)
  BY LenProperties DEF Grown, Aging
<1>2. ASSUME NEW h \in TimeoutHandler \ Handlers,
             new = Tables(net, devices, Append(timeouts, [handler |-> h, age |-> 0]))
      PROVE  Grown(new.timeouts)
  <2> DEFINE t == Append(timeouts, [handler |-> h, age |-> 0])
  <2>1. \A i \in DOMAIN timeouts : timeouts[i].handler # h
    BY DEF Handlers
  <2>2. /\ Len(t) = Len(timeouts) + 1 /\ DOMAIN t = 1 .. Len(timeouts) + 1
        /\ \A i \in DOMAIN timeouts : t[i] = timeouts[i]
        /\ t[Len(timeouts) + 1].age = 0 /\ t[Len(timeouts) + 1].handler = h
    BY <2>1, AddedTimeout
  <2>3. DOMAIN timeouts = 1 .. Len(timeouts) /\ Len(timeouts) \in Nat
    BY LenProperties DEF Aging
  <2> HIDE DEF t
  <2>4. Grown(t)
    <3>1. \A i \in DOMAIN t \ DOMAIN timeouts : i = Len(timeouts) + 1
      BY <2>2, <2>3
    <3> QED
      BY <2>2, <2>3, <3>1 DEF Grown
  <2> QED
    BY <1>2, <2>4, TablesFields DEF t
<1>3. \/ new.timeouts = timeouts
      \/ \E h \in TimeoutHandler \ Handlers :
           new = Tables(net, devices, Append(timeouts, [handler |-> h, age |-> 0]))
  BY ResultParts, Zenon
<1> QED
  BY <1>1, <1>2, <1>3

(* The devices before the one that is served stay where they are, unless   *)
(* its handler stops the library.                                          *)
Kept(new, k) == Len(new) \in Nat /\ Len(new) >= k - 1 /\ \A i \in 1 .. k - 1 : new[i] = devices[i]

LEMMA DevicesBeforeStay ==
  ASSUME TablesOK(net, devices, timeouts, failures), failures \in Nat,
         NEW effects, "remove" \notin effects, NEW k \in DOMAIN devices,
         NEW new \in Results(effects, devices[k].fd), new.net.bound # Closed
  PROVE  Kept(new.devices, k)
<1>1. /\ devices \in Seq(DeviceEntry) /\ DOMAIN devices = 1 .. Len(devices) /\ Len(devices) \in Nat
      /\ EachOnce(devices, timeouts) /\ ConnectionOK(net, failures)
  BY TypedTables DEF TablesOK
<1>2. Kept(devices, k)
  BY <1>1 DEF Kept
<1>3. ASSUME NEW fd \in Device \ Listed, NEW r \in BOOLEAN,
             new = Tables(net, Append(devices, [fd |-> fd, revents |-> r]), timeouts)
      PROVE  Kept(new.devices, k)
  <2> DEFINE d == Append(devices, [fd |-> fd, revents |-> r])
  <2>1. \A i \in DOMAIN devices : devices[i].fd # fd
    BY DEF Listed
  <2>2. Len(d) = Len(devices) + 1 /\ \A i \in DOMAIN devices : d[i] = devices[i]
    BY <2>1, AddedDevice
  <2> HIDE DEF d
  <2>3. Kept(d, k)
    BY <1>1, <2>2 DEF Kept
  <2> QED
    BY <1>3, <2>3, TablesFields DEF d
<1>4. ASSUME devices[k].fd \in Device \cap Listed,
             new = Tables(net, WithoutDevice(devices[k].fd), timeouts)
      PROVE  Kept(new.devices, k)
  <2> DEFINE d == WithoutDevice(devices[k].fd)
  <2>1. PICK l \in DOMAIN devices : devices[l].fd = devices[k].fd /\ d = RemoveAt(devices, l)
    BY <1>1, <1>4, DeviceFound
  <2>2. l = k
    BY <1>1, <2>1 DEF EachOnce
  <2> HIDE DEF d
  <2>3. Len(d) = Len(devices) - 1 /\ \A i \in 1 .. k - 1 : d[i] = devices[i]
    BY <2>1, <2>2, DeviceRemoved
  <2>4. Kept(d, k)
    BY <1>1, <2>3 DEF Kept
  <2> QED
    BY <1>4, <2>4, TablesFields DEF d
<1>5. ~(started /\ new = Tables(Disconnect(net), WithoutDevice(xPLFD), timeouts))
  BY <1>1, DisconnectKeeps, TablesFields DEF started
<1>6. \/ new.devices = devices
      \/ \E fd \in Device \ Listed, r \in BOOLEAN :
           new = Tables(net, Append(devices, [fd |-> fd, revents |-> r]), timeouts)
      \/ /\ devices[k].fd \in Device \cap Listed
         /\ new = Tables(net, WithoutDevice(devices[k].fd), timeouts)
  <2>1. \/ new.devices = devices
        \/ \E fd \in Device \ Listed, r \in BOOLEAN :
             new = Tables(net, Append(devices, [fd |-> fd, revents |-> r]), timeouts)
        \/ \E fd \in Device \cap Listed :
             /\ "remove" \in effects \/ fd = devices[k].fd
             /\ new = Tables(net, WithoutDevice(fd), timeouts)
        \/ started /\ new = Tables(Disconnect(net), WithoutDevice(xPLFD), timeouts)
    BY ResultParts
  <2>2. ASSUME NEW fd \in Device \cap Listed, "remove" \in effects \/ fd = devices[k].fd,
               new = Tables(net, WithoutDevice(fd), timeouts)
        PROVE  /\ devices[k].fd \in Device \cap Listed
               /\ new = Tables(net, WithoutDevice(devices[k].fd), timeouts)
    <3>1. fd = devices[k].fd
      BY <2>2
    <3> QED
      BY <2>2, <3>1, Zenon
  <2> QED
    BY <1>5, <2>1, <2>2, Zenon
<1> QED
  BY <1>2, <1>3, <1>4, <1>6

(* doTimeouts leads to the last timeout handler, if into the loop at all.  *)
Entering ==
  /\ at' \in {"timeouts", "out", "loop"}
  /\ at' = "timeouts" => call'.index = Len(timeouts)

LEMMA TimeoutsEntered ==
  ASSUME NEW place \in {"out", "loop"}, NEW locals, WaitOK(locals), DoTimeouts(place, locals)
  PROVE  Entering
<1>1. CASE sinceChecks >= Second
  <2>1. at' = "timeouts" /\ call' = [locals EXCEPT !.index = Len(timeouts), !.return = place]
    BY <1>1 DEF DoTimeouts
  <2> QED
    BY <2>1 DEF WaitOK, Calls, Entering
<1>2. CASE ~(sinceChecks >= Second)
  BY <1>2 DEF DoTimeouts, Entering
<1> QED
  BY <1>1, <1>2

LEMMA WaitingEnded ==
  ASSUME IInv, PollTimesOut \/ LeaveStopped
  PROVE  Entering /\ UNCHANGED tables
<1>1. ASSUME Leave PROVE Entering /\ UNCHANGED tables
  <2>1. CASE call.timeoutDone
    BY <1>1, <2>1 DEF Leave, Entering
  <2>2. CASE ~call.timeoutDone
    <3>1. DoTimeouts("out", NoCall)
      BY <1>1, <2>2 DEF Leave
    <3>2. WaitOK(NoCall)
      BY IoConstants DEF WaitOK, Calls, NoCall
    <3>3. UNCHANGED tables
      BY <3>1 DEF DoTimeouts
    <3> QED
      BY <3>1, <3>2, <3>3, TimeoutsEntered
  <2> QED
    BY <2>1, <2>2
<1>2. CASE PollTimesOut /\ ~(call.thisTimeout < Second)
  <2> DEFINE n == SoFar
             locals == [call EXCEPT !.timeoutDone = TRUE, !.soFar = n]
  <2>1. DoTimeouts("loop", locals) /\ at = "poll"
    BY <1>2 DEF PollTimesOut
  <2>2. call \in Calls /\ n \in Nat /\ (call.theTimeout > Second => n <= call.theTimeout)
    BY <2>1, IoConstants DEF IInv, CallOK, WaitOK, Calls, SoFar
  <2> HIDE DEF n
  <2>3. WaitOK(locals)
    BY <2>2 DEF WaitOK, Calls
  <2> HIDE DEF locals
  <2>4. UNCHANGED tables
    BY <2>1 DEF DoTimeouts
  <2> QED
    BY <2>1, <2>3, <2>4, TimeoutsEntered
<1>3. CASE PollTimesOut /\ call.thisTimeout < Second
  BY <1>1, <1>3 DEF PollTimesOut
<1>4. CASE LeaveStopped
  BY <1>1, <1>4 DEF LeaveStopped
<1> QED
  BY <1>2, <1>3, <1>4

(* Of the devices up to the k-th as many are active as up to the one       *)
(* before, and the k-th if it is.                                          *)
LEMMA OneFewerActive ==
  ASSUME NEW d, NEW k \in Nat, k >= 1
  PROVE  /\ Cardinality(Active(d, k)) \in Nat /\ Cardinality(Active(d, k - 1)) \in Nat
         /\ d[k].revents => Cardinality(Active(d, k)) = Cardinality(Active(d, k - 1)) + 1
         /\ ~d[k].revents => Cardinality(Active(d, k)) = Cardinality(Active(d, k - 1))
<1>1. k - 1 \in Nat /\ 1 .. k = 1 .. (k - 1) \cup {k} /\ k \notin 1 .. (k - 1)
  OBVIOUS
<1>2. /\ IsFiniteSet(Active(d, k - 1)) /\ Cardinality(Active(d, k - 1)) \in Nat
      /\ Cardinality(Active(d, k)) \in Nat
  BY <1>1, ActiveIsFinite
<1>3. ASSUME d[k].revents
      PROVE  Cardinality(Active(d, k)) = Cardinality(Active(d, k - 1)) + 1
  <2>1. Active(d, k) = Active(d, k - 1) \cup {k} /\ k \notin Active(d, k - 1)
    BY <1>1, <1>3 DEF Active
  <2> QED
    BY <1>2, <2>1, FS_AddElement
<1>4. ASSUME ~d[k].revents PROVE Active(d, k) = Active(d, k - 1)
  BY <1>1, <1>4 DEF Active
<1> QED
  BY <1>2, <1>3, <1>4

LEMMA SkipStaysInTable ==
  ASSUME IInv, LoopsStayInTheTables, SkipDevice
  PROVE  LoopsStayInTheTables'
<1>1. /\ at = "devices" /\ call.index > 0 /\ ~devices[call.index].revents
      /\ UNCHANGED <<tables, ages, ready>> /\ at' \in {"loop", "devices"}
      /\ call' = [call EXCEPT !.index = call.index - 1]
  BY DEF SkipDevice
<1>2. call \in Calls
  BY DEF IInv, CallOK, WaitOK
<1>3. call.index \in Nat /\ call.active \in Nat /\ call.index >= 1
  BY <1>1, <1>2 DEF Calls
<1>4. call'.index = call.index - 1 /\ call'.active = call.active
  BY <1>1, <1>2 DEF Calls
<1>5. /\ call.index <= Len(devices)
      /\ call.active <= Cardinality(Active(devices, call.index))
  BY <1>1 DEF LoopsStayInTheTables, Active
<1>6. Len(devices) \in Nat
  BY TypedTables DEF IInv
<1>7. Cardinality(Active(devices, call.index)) = Cardinality(Active(devices, call.index - 1))
  BY <1>1, <1>3, OneFewerActive
<1>8. call'.index <= Len(devices) /\ call'.active <= Cardinality(Active(devices, call'.index))
  BY <1>3, <1>4, <1>5, <1>6, <1>7
<1> QED
  BY <1>1, <1>8 DEF LoopsStayInTheTables, Active, tables

LEMMA DispatchStaysInTable ==
  ASSUME NoRemoval, IInv, LoopsStayInTheTables, DispatchDevice
  PROVE  LoopsStayInTheTables'
<1>1. /\ at = "devices" /\ call.index > 0 /\ devices[call.index].revents
      /\ call' = [call EXCEPT !.active = call.active - 1, !.index = call.index - 1]
  BY DEF DispatchDevice
<1>2. PICK new \in Results(Effect, devices[call.index].fd) :
        /\ Becomes(new)
        /\ at' = IF new.net.bound = Closed \/ LastActive \/ call.index = 1 THEN "loop" ELSE "devices"
  BY DEF DispatchDevice
<1>3. call \in Calls
  BY DEF IInv, CallOK, WaitOK
<1>4. call.index \in Nat /\ call.active \in Nat /\ call.index >= 1
  BY <1>1, <1>3 DEF Calls
<1>5. call'.index = call.index - 1 /\ call'.active = call.active - 1
  BY <1>1, <1>3 DEF Calls
<1>6. CASE new.net.bound = Closed
  BY <1>2, <1>6 DEF LoopsStayInTheTables
<1>7. CASE new.net.bound # Closed
  <2> DEFINE k == call.index
             n == Cardinality(Active(devices, k - 1))
  <2>1. /\ k <= Len(devices)
        /\ call.active <= Cardinality(Active(devices, k))
    BY <1>1 DEF LoopsStayInTheTables, Active
  <2>2. /\ TablesOK(net, devices, timeouts, failures) /\ failures \in Nat
        /\ DOMAIN devices = 1 .. Len(devices) /\ Len(devices) \in Nat
    BY TypedTables DEF IInv, CountsOK
  <2>3. "remove" \notin Effect
    BY DEF NoRemoval
  <2>4. k \in DOMAIN devices
    BY <1>4, <2>1, <2>2
  <2>5. Kept(new.devices, k)
    BY <1>2, <1>7, <2>2, <2>3, <2>4, DevicesBeforeStay
  <2>6. devices' = new.devices
    BY <1>2 DEF Becomes
  <2>7. n \in Nat /\ Cardinality(Active(devices, k)) = n + 1
    BY <1>1, <1>4, OneFewerActive
  <2>8. Active(devices', k - 1) = Active(devices, k - 1)
    BY <2>5, <2>6 DEF Kept, Active
  <2> HIDE DEF n
  <2>9. call'.index <= Len(devices') /\ call'.active <= n
    BY <1>4, <1>5, <2>1, <2>5, <2>6, <2>7 DEF Kept
  <2>10. at' \in {"loop", "devices"}
    BY <1>2
  <2>11. call'.active <= Cardinality(Active(devices', call'.index))
    BY <1>5, <2>8, <2>9 DEF n
  <2> QED
    BY <2>9, <2>10, <2>11 DEF LoopsStayInTheTables, Active
<1> QED
  BY <1>6, <1>7

(* One timeout handler of the table was looked at, run perhaps, and        *)
(* stamped.                                                                *)
LEMMA CheckedTimers ==
  ASSUME NoRemoval, IInv, CheckTimeout, call.index <= Len(timeouts)
  PROVE  /\ call.index \in DOMAIN timeouts /\ call'.index = call.index - 1 /\ at' = "timeouts"
         /\ Len(timeouts') \in Nat /\ Len(timeouts') >= Len(timeouts)
         /\ \A i \in DOMAIN timeouts :
              i # call.index => i \in DOMAIN timeouts' /\ timeouts'[i] = timeouts[i]
         /\ \A i \in DOMAIN timeouts' \ DOMAIN timeouts :
              timeouts'[i].age = 0 /\ timeouts'[i].handler \notin Handlers
         /\ LET k == call.index IN
              IF timeouts[k].age >= Interval[timeouts[k].handler]
                THEN timeouts'[k].age = 0 /\ timeouts'[k].handler = timeouts[k].handler
                ELSE timeouts'[k] = timeouts[k]
<1> DEFINE k == call.index
           due == timeouts[k].age >= Interval[timeouts[k].handler]
<1>1. /\ at' = "timeouts" /\ k > 0 /\ call' = [call EXCEPT !.index = call.index - 1]
  BY DEF CheckTimeout, LastTimeout
<1>2. call \in Calls
  BY DEF IInv, CallOK, WaitOK
<1>3. k \in Nat /\ k >= 1 /\ call'.index = k - 1
  BY <1>1, <1>2 DEF Calls
<1>4. /\ Aging(timeouts) /\ Len(timeouts) \in Nat /\ DOMAIN timeouts = 1 .. Len(timeouts)
      /\ TablesOK(net, devices, timeouts, failures) /\ failures \in Nat
  BY TypedTables, AgingTable DEF IInv, CountsOK
<1>5. k \in DOMAIN timeouts
  BY <1>3, <1>4
<1>6. CASE ~due
  <2>1. timeouts' = timeouts
    BY <1>6 DEF CheckTimeout, tables
  <2> QED
    BY <1>1, <1>3, <1>4, <1>5, <1>6, <2>1
<1>7. CASE due
  <2>1. PICK new \in Results(Effect, xPLFD) : Becomes([new EXCEPT !.timeouts = Stamped(@)])
    BY <1>7 DEF CheckTimeout
  <2> DEFINE t == new.timeouts
  <2>2. timeouts' = Stamped(t)
    <3>1. \E n, d, l : new = [net |-> n, devices |-> d, timeouts |-> l]
      BY ResultIs DEF Tables
    <3> QED
      BY <2>1, <3>1 DEF Becomes
  <2>3. Aging(t)
    BY <1>4, ResultKeeps, AgingTable
  <2>4. "remove" \notin Effect
    BY DEF NoRemoval
  <2>5. Grown(t)
    BY <1>4, <2>4, GrownTimers
  <2> HIDE DEF t
  <2>6. Len(t) \in Nat
    BY <2>3, LenProperties DEF Aging
  <2>7. /\ Len(timeouts') = Len(t) /\ DOMAIN timeouts' = DOMAIN t
        /\ \A i \in DOMAIN t : /\ timeouts'[i].handler = t[i].handler
                               /\ i # k => timeouts'[i] = t[i]
                               /\ i = k => timeouts'[i].age = 0
    BY <2>2, <2>3, StampedKeeps
  <2>8. k \in DOMAIN t /\ t[k] = timeouts[k]
    BY <1>5, <2>5 DEF Grown
  <2>9. /\ Len(timeouts') \in Nat /\ Len(timeouts') >= Len(timeouts)
        /\ \A i \in DOMAIN timeouts : i # k => i \in DOMAIN timeouts' /\ timeouts'[i] = timeouts[i]
        /\ \A i \in DOMAIN timeouts' \ DOMAIN timeouts :
             timeouts'[i].age = 0 /\ timeouts'[i].handler \notin Handlers
        /\ timeouts'[k].age = 0 /\ timeouts'[k].handler = timeouts[k].handler
    BY <1>5, <2>5, <2>6, <2>7, <2>8 DEF Grown
  <2> QED
    BY <1>1, <1>3, <1>5, <1>7, <2>9
<1> QED
  BY <1>6, <1>7
(* The steps that are in neither loop afterwards.                          *)
LEMMA ElsewhereSteps ==
  ASSUME \/ \E theConnectType \in ConnectType : Initialize(theConnectType)
         \/ ChooseInterface
         \/ ProgramChangesTables
         \/ ProcessMessages
         \/ \E fd \in Device \cup {xPLFD} : BecomesReady(fd)
         \/ Poll
         \/ PollFails
         \/ Tick
  PROVE  at' \notin {"devices", "timeouts"}
BY DEF Initialize, ChooseInterface, ProgramChangesTables, ProcessMessages, BecomesReady,
       Poll, PollFails, Tick

LEMMA NextIs ==
  ASSUME [Next]_vars
  PROVE  \/ /\ \/ \E theConnectType \in ConnectType : Initialize(theConnectType)
               \/ ChooseInterface
               \/ ProgramChangesTables
               \/ ProcessMessages
               \/ \E fd \in Device \cup {xPLFD} : BecomesReady(fd)
               \/ Poll
               \/ PollFails
               \/ Tick
            /\ at' \notin {"devices", "timeouts"}
         \/ PollFindsDevices
         \/ PollTimesOut \/ LeaveStopped
         \/ SkipDevice
         \/ DispatchDevice
         \/ CheckTimeout
         \/ TimeoutsDone
         \/ UNCHANGED vars
BY ElsewhereSteps DEF Next, Loop

LEMMA LoopsStep ==
  ASSUME NoRemoval, IInv, LoopsStayInTheTables, [Next]_vars
  PROVE  LoopsStayInTheTables'
<1>1. CASE at' \notin {"devices", "timeouts"}
  BY <1>1 DEF LoopsStayInTheTables
<1>2. CASE PollFindsDevices
  <2> DEFINE n == Cardinality(Active(devices', Len(devices)))
  <2>1. Len(devices) \in Nat /\ n \in Nat
    BY TypedTables, ActiveIsFinite DEF IInv
  <2>2. /\ Len(devices') = Len(devices)
        /\ call' = [call EXCEPT !.soFar = 0, !.index = Len(devices), !.active = n]
    BY <1>2, FoundDevices
  <2>3. call \in Calls /\ at' = "devices"
    BY <1>2 DEF IInv, CallOK, WaitOK, PollFindsDevices
  <2> HIDE DEF n
  <2>4. call'.index = Len(devices) /\ call'.active = n
    BY <2>2, <2>3 DEF Calls
  <2> QED
    BY <2>1, <2>2, <2>3, <2>4 DEF LoopsStayInTheTables, n, Active
<1>3. CASE PollTimesOut \/ LeaveStopped
  <2>1. Entering /\ UNCHANGED tables
    BY <1>3, WaitingEnded
  <2>2. Len(timeouts) \in Nat
    BY TypedTables DEF IInv
  <2> QED
    BY <2>1, <2>2 DEF Entering, tables, LoopsStayInTheTables
<1>4. CASE SkipDevice
  BY <1>4, SkipStaysInTable
<1>5. CASE DispatchDevice
  BY <1>5, DispatchStaysInTable
<1>6. CASE CheckTimeout
  <2>1. call.index <= Len(timeouts)
    BY <1>6 DEF LoopsStayInTheTables, CheckTimeout
  <2>2. /\ call.index \in DOMAIN timeouts /\ call'.index = call.index - 1 /\ at' = "timeouts"
        /\ Len(timeouts') \in Nat /\ Len(timeouts') >= Len(timeouts)
    BY <1>6, <2>1, CheckedTimers
  <2>3. DOMAIN timeouts = 1 .. Len(timeouts) /\ Len(timeouts) \in Nat
    BY TypedTables DEF IInv
  <2>4. call'.index <= Len(timeouts')
    BY <2>2, <2>3
  <2> QED
    BY <2>2, <2>4 DEF LoopsStayInTheTables
<1>7. CASE TimeoutsDone
  BY <1>7 DEF TimeoutsDone, IInv, CallOK, WaitOK, Calls, LoopsStayInTheTables
<1>8. CASE UNCHANGED vars
  BY <1>8 DEF vars, tables, LoopsStayInTheTables
<1> QED
  BY <1>1, <1>2, <1>3, <1>4, <1>5, <1>6, <1>7, <1>8, NextIs

LEMMA LoopsInvariant ==
  ASSUME NoRemoval
  PROVE  Spec => [](IInv /\ LoopsStayInTheTables)
<1>1. Init => IInv /\ LoopsStayInTheTables
  BY InitOK DEF Init, LoopsStayInTheTables
<1>2. IInv /\ LoopsStayInTheTables /\ [Next]_vars => IInv' /\ LoopsStayInTheTables'
  BY StepOK, LoopsStep
<1> QED
  BY <1>1, <1>2, PTL DEF Spec

(* xPL_processMessages and checkAllTimeoutHandlers: the entry either loop  *)
(* looks at next is in its table, and there are as many devices left to    *)
(* serve as the loop counts, however handlers add devices and timeout      *)
(* handlers, remove the device they serve, or stop the library.            *)
THEOREM LoopsStay ==
  ASSUME NoRemoval
  PROVE  Spec => []LoopsStayInTheTables
<1> QED
  BY LoopsInvariant, PTL

-----------------------------------------------------------------------------
(* The run of the timeout handlers.                                        *)

Due(list, i) == list[i].age >= Interval[list[i].handler]

(* None that the run has passed is due.                                    *)
PassedAreServed ==
  at = "timeouts" => \A i \in DOMAIN timeouts : i > call.index => ~Due(timeouts, i)

LEMMA NotDue ==
  ASSUME NEW t, Aging(t), NEW i \in DOMAIN t
  PROVE  /\ t[i].age \in Nat /\ t[i].handler \in TimeoutHandler
         /\ Interval[t[i].handler] \in Nat
         /\ ~Due(t, i) <=> t[i].age < Interval[t[i].handler]
         /\ RealIntervals /\ t[i].age = 0 => ~Due(t, i)
<1>1. t[i] \in TimeoutEntry
  BY ElementOfSeq, LenProperties DEF Aging
<1>2. t[i].age \in Nat /\ t[i].handler \in TimeoutHandler
  BY <1>1 DEF TimeoutEntry
<1>3. Interval[t[i].handler] \in Nat
  BY <1>2, IoConstants
<1> QED
  BY <1>2, <1>3 DEF Due, RealIntervals

LEMMA PassedStep ==
  ASSUME NoRemoval, RealIntervals, IInv, IInv', LoopsStayInTheTables, PassedAreServed,
         [Next]_vars
  PROVE  PassedAreServed'
<1>1. CASE at' # "timeouts"
  BY <1>1 DEF PassedAreServed
<1>2. CASE PollFindsDevices \/ SkipDevice \/ DispatchDevice \/ TimeoutsDone
  BY <1>2 DEF PollFindsDevices, SkipDevice, DispatchDevice, TimeoutsDone, IInv, CallOK,
              WaitOK, Calls, PassedAreServed
<1>3. CASE PollTimesOut \/ LeaveStopped
  <2>1. Entering /\ timeouts' = timeouts
    BY <1>3, WaitingEnded DEF tables
  <2>2. DOMAIN timeouts = 1 .. Len(timeouts) /\ Len(timeouts) \in Nat
    BY TypedTables DEF IInv
  <2>3. at' = "timeouts" => \A i \in DOMAIN timeouts' : ~(i > call'.index)
    BY <2>1, <2>2 DEF Entering
  <2> QED
    BY <2>3 DEF PassedAreServed
<1>4. CASE CheckTimeout
  <2>1. at = "timeouts" /\ call.index <= Len(timeouts)
    BY <1>4 DEF LoopsStayInTheTables, CheckTimeout
  <2> DEFINE k == call.index
  <2>2. /\ k \in DOMAIN timeouts /\ call'.index = k - 1
        /\ \A i \in DOMAIN timeouts :
             i # k => i \in DOMAIN timeouts' /\ timeouts'[i] = timeouts[i]
        /\ \A i \in DOMAIN timeouts' \ DOMAIN timeouts : timeouts'[i].age = 0
        /\ IF Due(timeouts, k) THEN timeouts'[k].age = 0 ELSE timeouts'[k] = timeouts[k]
    BY <1>4, <2>1, CheckedTimers DEF Due
  <2>3. Aging(timeouts') /\ k \in Nat /\ DOMAIN timeouts \subseteq Nat
    <3>1. Aging(timeouts')
      BY AgingTable DEF IInv
    <3>2. DOMAIN timeouts \subseteq Nat
      BY TypedTables DEF IInv
    <3> QED
      BY <2>2, <3>1, <3>2
  <2>4. ASSUME NEW i \in DOMAIN timeouts', i > k - 1 PROVE ~Due(timeouts', i)
    <3>1. timeouts'[i].age = 0 => ~Due(timeouts', i)
      BY <2>3, NotDue
    <3>2. CASE i \notin DOMAIN timeouts
      BY <2>2, <3>1, <3>2
    <3>3. CASE i \in DOMAIN timeouts /\ i # k
      <4>1. i > k
        BY <2>3, <2>4, <3>3
      <4>2. ~Due(timeouts, i)
        BY <2>1, <3>3, <4>1 DEF PassedAreServed
      <4> QED
        BY <2>2, <3>3, <4>2 DEF Due
    <3>4. CASE i = k
      BY <2>2, <3>1, <3>4 DEF Due
    <3> QED
      BY <3>2, <3>3, <3>4
  <2>5. call'.index = k - 1
    BY <2>2
  <2> QED
    BY <2>4, <2>5 DEF PassedAreServed
<1>5. CASE UNCHANGED vars
  BY <1>5 DEF vars, tables, PassedAreServed
<1> QED
  BY <1>1, <1>2, <1>3, <1>4, <1>5, NextIs

(* A handler of the table of timeout handlers and what was there of it     *)
(* before the step.                                                        *)
Older(new) ==
  \A i \in DOMAIN timeouts, j \in DOMAIN new :
     timeouts[i].handler = new[j].handler /\ new[j].age < timeouts[i].age => Due(timeouts, i)

LEMMA SameEntries ==
  ASSUME Aging(timeouts), NEW new, Aging(new),
         \A j \in DOMAIN new :
           \/ \E i \in DOMAIN timeouts :
                new[j].handler = timeouts[i].handler /\ new[j].age >= timeouts[i].age
           \/ new[j].handler \notin Handlers
  PROVE  Older(new)
<1> SUFFICES ASSUME NEW i \in DOMAIN timeouts, NEW j \in DOMAIN new,
                    timeouts[i].handler = new[j].handler, new[j].age < timeouts[i].age
             PROVE  FALSE
  BY DEF Older
<1>1. new[j].handler \in Handlers
  BY DEF Handlers
<1>2. PICK l \in DOMAIN timeouts :
        new[j].handler = timeouts[l].handler /\ new[j].age >= timeouts[l].age
  BY <1>1
<1>3. l = i
  BY <1>2 DEF Aging
<1>4. new[j].age \in Nat /\ timeouts[i].age \in Nat
  BY NotDue
<1> QED
  BY <1>2, <1>3, <1>4

(* Entries that were there, or whose handler was not.                      *)
LEMMA ResultTimers ==
  ASSUME Aging(timeouts), NEW effects, NEW own, NEW new \in Results(effects, own)
  PROVE  \A j \in DOMAIN new.timeouts :
           \/ \E i \in DOMAIN timeouts : new.timeouts[j] = timeouts[i]
           \/ new.timeouts[j].handler \notin Handlers
<1>1. CASE new.timeouts = timeouts
  BY <1>1
<1>2. ASSUME NEW h \in TimeoutHandler \ Handlers,
             new = Tables(net, devices, Append(timeouts, [handler |-> h, age |-> 0]))
      PROVE  \A j \in DOMAIN new.timeouts :
               \/ \E i \in DOMAIN timeouts : new.timeouts[j] = timeouts[i]
               \/ new.timeouts[j].handler \notin Handlers
  <2> DEFINE t == Append(timeouts, [handler |-> h, age |-> 0])
  <2>1. \A i \in DOMAIN timeouts : timeouts[i].handler # h
    BY DEF Handlers
  <2>2. /\ DOMAIN t = 1 .. Len(timeouts) + 1
        /\ \A i \in DOMAIN timeouts : t[i] = timeouts[i]
        /\ t[Len(timeouts) + 1].handler = h
    BY <2>1, AddedTimeout
  <2>3. DOMAIN timeouts = 1 .. Len(timeouts) /\ Len(timeouts) \in Nat
    BY LenProperties DEF Aging
  <2>4. new.timeouts = t
    BY <1>2 DEF Tables
  <2> HIDE DEF t
  <2>5. \A j \in DOMAIN t : j \in DOMAIN timeouts \/ j = Len(timeouts) + 1
    BY <2>2, <2>3
  <2> QED
    BY <2>2, <2>4, <2>5
<1>3. ASSUME NEW h \in Handlers, new = Tables(net, devices, Ended(h))
      PROVE  \A j \in DOMAIN new.timeouts : \E i \in DOMAIN timeouts : new.timeouts[j] = timeouts[i]
  <2>1. timeouts \in Seq(TimeoutEntry)
    BY DEF Aging
  <2>2. PICK k \in DOMAIN timeouts : Ended(h) = RemoveAt(timeouts, k)
    BY <2>1, TimeoutFound
  <2>3. new.timeouts = RemoveAt(timeouts, k)
    BY <1>3, <2>2, TablesFields
  <2> QED
    BY <2>3, TimeoutRemoved
<1>4. \/ new.timeouts = timeouts
      \/ \E h \in TimeoutHandler \ Handlers :
           new = Tables(net, devices, Append(timeouts, [handler |-> h, age |-> 0]))
      \/ \E h \in Handlers : new = Tables(net, devices, Ended(h))
  BY ResultParts, Zenon
<1> QED
  BY <1>1, <1>2, <1>3, <1>4

LEMMA AgesStep ==
  ASSUME NoRemoval, IInv, IInv', LoopsStayInTheTables, [Next]_vars
  PROVE  Older(timeouts')
<1>1. Aging(timeouts) /\ Aging(timeouts')
  BY AgingTable DEF IInv
<1>2. CASE timeouts' = timeouts
  <2>1. \A j \in DOMAIN timeouts : timeouts[j].age >= timeouts[j].age
    BY <1>1, NotDue
  <2> QED
    BY <1>1, <1>2, <2>1, SameEntries
<1>3. CASE ProgramChangesTables
  <2>1. PICK new \in Results(Effects, xPLFD) : Becomes(new)
    BY <1>3 DEF ProgramChangesTables
  <2>2. timeouts' = new.timeouts
    BY <2>1 DEF Becomes
  <2>3. \A j \in DOMAIN timeouts' :
          \/ \E i \in DOMAIN timeouts : timeouts'[j] = timeouts[i]
          \/ timeouts'[j].handler \notin Handlers
    BY <1>1, <2>1, <2>2, ResultTimers
  <2>4. \A i \in DOMAIN timeouts : timeouts[i].age >= timeouts[i].age
    BY <1>1, NotDue
  <2> QED
    BY <1>1, <2>3, <2>4, SameEntries
<1>4. CASE Tick
  <2>1. /\ DOMAIN timeouts' = DOMAIN timeouts
        /\ \A i \in DOMAIN timeouts :
             timeouts'[i].handler = timeouts[i].handler /\ timeouts'[i].age >= timeouts[i].age
    BY <1>4, TickedTimeouts
  <2> QED
    BY <1>1, <2>1, SameEntries
<1>5. CASE DispatchDevice
  <2>1. PICK new \in Results(Effect, devices[call.index].fd) : Becomes(new)
    BY <1>5 DEF DispatchDevice
  <2>2. timeouts' = new.timeouts
    BY <2>1 DEF Becomes
  <2>3. \A j \in DOMAIN timeouts' :
          \/ \E i \in DOMAIN timeouts : timeouts'[j] = timeouts[i]
          \/ timeouts'[j].handler \notin Handlers
    BY <1>1, <2>1, <2>2, ResultTimers
  <2>4. \A i \in DOMAIN timeouts : timeouts[i].age >= timeouts[i].age
    BY <1>1, NotDue
  <2> QED
    BY <1>1, <2>3, <2>4, SameEntries
<1>6. CASE CheckTimeout
  <2> DEFINE k == call.index
  <2>1. k <= Len(timeouts)
    BY <1>6 DEF LoopsStayInTheTables, CheckTimeout
  <2>2. /\ k \in DOMAIN timeouts
        /\ \A i \in DOMAIN timeouts : i # k => timeouts'[i] = timeouts[i]
        /\ \A i \in DOMAIN timeouts' \ DOMAIN timeouts : timeouts'[i].handler \notin Handlers
        /\ timeouts'[k].handler = timeouts[k].handler
        /\ ~Due(timeouts, k) => timeouts'[k] = timeouts[k]
    BY <1>6, <2>1, CheckedTimers DEF Due
  <2> SUFFICES ASSUME NEW i \in DOMAIN timeouts, NEW j \in DOMAIN timeouts',
                      timeouts[i].handler = timeouts'[j].handler,
                      timeouts'[j].age < timeouts[i].age
               PROVE  Due(timeouts, i)
    BY DEF Older
  <2>3. j \in DOMAIN timeouts
    BY <2>2 DEF Handlers
  <2>4. timeouts'[j].handler = timeouts[j].handler
    BY <2>2, <2>3
  <2>5. i = j
    BY <1>1, <2>3, <2>4 DEF Aging
  <2>6. timeouts[i].age \in Nat
    BY <1>1, NotDue
  <2> QED
    BY <2>2, <2>5, <2>6
<1>7. CASE \/ \E theConnectType \in ConnectType : Initialize(theConnectType)
           \/ ChooseInterface \/ ProcessMessages
           \/ \E fd \in Device \cup {xPLFD} : BecomesReady(fd)
           \/ Poll \/ PollFindsDevices \/ PollFails \/ PollTimesOut \/ LeaveStopped \/ SkipDevice
           \/ TimeoutsDone \/ UNCHANGED vars
  <2>1. ASSUME PollTimesOut \/ LeaveStopped PROVE timeouts' = timeouts
    BY <2>1, WaitingEnded DEF tables
  <2>2. timeouts' = timeouts
    BY <1>7, <2>1 DEF Initialize, ChooseInterface, ProcessMessages, BecomesReady, Poll,
       PollFindsDevices, PollFails, SkipDevice, TimeoutsDone, vars, tables
  <2> QED
    BY <1>2, <2>2
<1> QED
  BY <1>3, <1>4, <1>5, <1>6, <1>7 DEF Next, Loop

(* checkAllTimeoutHandlers: the run ends with no timeout handler due, also *)
(* of those that were added while it went on, and no step starts the       *)
(* interval of a handler anew that was not due.                            *)
THEOREM DueTimersRun ==
  ASSUME NoRemoval, RealIntervals
  PROVE  Spec => EveryDueTimerRuns
<1> DEFINE Inv == IInv /\ LoopsStayInTheTables /\ PassedAreServed
           Served == /\ (at = "timeouts" /\ at' # at) =>
                          \A i \in DOMAIN timeouts : timeouts[i].age < Interval[timeouts[i].handler]
                     /\ \A i \in DOMAIN timeouts, j \in DOMAIN timeouts' :
                          /\ timeouts[i].handler = timeouts'[j].handler
                          /\ timeouts'[j].age < timeouts[i].age
                          => timeouts[i].age >= Interval[timeouts[i].handler]
<1>1. Init => Inv
  BY InitOK DEF Init, LoopsStayInTheTables, PassedAreServed
<1>2. Inv /\ [Next]_vars => Inv'
  BY StepOK, LoopsStep, PassedStep
<1>3. ASSUME Inv, [Next]_vars PROVE Served
  <2>1. Older(timeouts')
    BY <1>2, <1>3, AgesStep
  <2>2. Aging(timeouts) /\ DOMAIN timeouts \subseteq Nat /\ \A i \in DOMAIN timeouts : i >= 1
    BY <1>3, AgingTable, TypedTables DEF IInv
  <2>3. ASSUME at = "timeouts", at' # at
        PROVE  \A i \in DOMAIN timeouts : timeouts[i].age < Interval[timeouts[i].handler]
    <3>1. TimeoutsDone
      BY <1>3, <2>3 DEF Next, Loop, Initialize, ChooseInterface, ProgramChangesTables,
         ProcessMessages, BecomesReady, Poll, PollFindsDevices, PollFails, PollTimesOut,
         LeaveStopped, SkipDevice, DispatchDevice, CheckTimeout, Tick, vars
    <3>2. call.index <= 0 /\ call.index \in Nat
      BY <1>3, <3>1 DEF TimeoutsDone, LastTimeout, IInv, CallOK, WaitOK, Calls
    <3>3. \A i \in DOMAIN timeouts : i > call.index
      BY <2>2, <3>2
    <3>4. \A i \in DOMAIN timeouts : ~Due(timeouts, i)
      BY <1>3, <2>3, <3>3 DEF PassedAreServed
    <3> QED
      BY <2>2, <3>4, NotDue
  <2> QED
    BY <2>1, <2>3 DEF Older, Due
<1>4. Inv /\ [Next]_vars => [Served]_vars
  BY <1>3
<1> HIDE DEF Inv, Served
<1>5. Spec => [][Served]_vars
  BY <1>1, <1>2, <1>4, PTL DEF Spec
<1> QED
  BY <1>5 DEF EveryDueTimerRuns, Served
=============================================================================
