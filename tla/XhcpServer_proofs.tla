------------------------- MODULE XhcpServer_proofs -------------------------
(***************************************************************************)
(* Proofs about XhcpServer for any set of clients, any number of commands  *)
(* and lines, whether a client sends its dot early, and whether clients    *)
(* vanish.                                                                 *)
(***************************************************************************)
EXTENDS XhcpServer, SequenceTheorems, TLAPS

(* The clients in the backlog, each once.                                  *)
InBacklog(c) == \E i \in DOMAIN backlog : backlog[i] = c

(* A client that the server does not know is away and has sent nothing;    *)
(* one in the backlog is not served, and waits or has given up.            *)
QueueInv ==
  /\ conn # NoClient => ~InBacklog(conn)
  /\ \A c \in Client :
       /\ InBacklog(c) => phase[c] \in {"waiting", "gone"}
       /\ c # conn /\ ~InBacklog(c) => phase[c] = "away" /\ pending[c] = << >>
  /\ status = "down" => backlog = << >>
  /\ lines \in [Client -> 0 .. MaxLines]

(* Before a client is asked for a text there is no handler and no buffer.  *)
HandlerInv ==
  status # "waitData" => handler = NoHandler /\ data = << >>

(* What waitCommand can receive is at most one command, of the client      *)
(* served, that has sent no line since.                                    *)
CommandInv ==
  status = "waitCommand" =>
    /\ phase[conn] \in {"ready", "asked", "leaving", "gone"}
    /\ phase[conn] = "ready" => pending[conn] = << >>
    /\ Len(pending[conn]) <= 1
    /\ pending[conn] # << >> =>
         \E kind \in Command :
           /\ pending[conn] = << Item(kind, conn, 0) >>
           /\ lines[conn] = 0
           /\ phase[conn] = "asked" => kind \notin {"QUIT", "SHUTDOWN"}
           /\ phase[conn] = "leaving" => kind \in {"QUIT", "SHUTDOWN"}
    /\ phase[conn] \in {"asked", "leaving"} => pending[conn] # << >>

(* The nth thing a client sends when it is asked for a text and has sent m *)
(* lines so far.                                                           *)
Expected(c, m, n) ==
  IF n <= m THEN Item("line", c, n) ELSE Item("dot", c, 0)

(* What was received of a text and what was not are, one after the other,  *)
(* the first things a client sends: its m lines, and the dot if it sent    *)
(* that.                                                                   *)
FirstOf(length, c, m, got, rest) ==
  /\ Len(got) + Len(rest) = length
  /\ \A n \in 1 .. Len(got) : got[n] = Expected(c, m, n)
  /\ \A n \in 1 .. Len(rest) : rest[n] = Expected(c, m, Len(got) + n)

LinesSoFar == FirstOf(lines[conn], conn, lines[conn], data, pending[conn])
WholeText == FirstOf(lines[conn] + 1, conn, lines[conn], data, pending[conn])

(* A text that is being received.  A client that is gone may have left the *)
(* end of the stream in the buffer, but then there is nothing more to      *)
(* receive.                                                                *)
DataInv ==
  status = "waitData" =>
    /\ handler # NoHandler /\ handler.from = conn
    /\ phase[conn] \in {"sending", "sent", "gone"}
    /\ phase[conn] = "sending" => LinesSoFar
    /\ phase[conn] = "sent" => WholeText
    /\ phase[conn] = "gone" => pending[conn] = << >> \/ LinesSoFar \/ WholeText

(* A connection that is not yet greeted is that of a client that waits, or *)
(* has given up; one that ends has nothing more to receive.                *)
EdgeInv ==
  /\ status = "waitHTTPRequest" => phase[conn] \in {"waiting", "gone"}
  /\ status = "endConnect" =>
       phase[conn] \in {"leaving", "gone"} /\ pending[conn] = << >>

IInv ==
  TypeOK /\ QueueInv /\ HandlerInv /\ CommandInv /\ DataInv /\ EdgeInv
-----------------------------------------------------------------------------
(* A queue in which nobody stands twice stays so when somebody joins who   *)
(* is not in it.                                                           *)
LEMMA JoinQueue ==
  ASSUME NEW S, NEW queue \in Seq(S), IsInjective(queue),
         NEW c \in S, \A i \in DOMAIN queue : queue[i] # c
  PROVE  LET longer == Append(queue, c) IN
         /\ longer \in Seq(S) /\ IsInjective(longer)
         /\ \A x : (\E i \in DOMAIN longer : longer[i] = x)
                     <=> x = c \/ \E i \in DOMAIN queue : queue[i] = x
<1> DEFINE longer == Append(queue, c)
<1>1. Len(queue) \in Nat /\ DOMAIN queue = 1 .. Len(queue)
  BY LenProperties
<1>2. /\ longer \in Seq(S) /\ Len(longer) = Len(queue) + 1
      /\ \A i \in 1 .. Len(queue) : longer[i] = queue[i]
      /\ longer[Len(queue) + 1] = c
  BY AppendProperties
<1>3. DOMAIN longer = 1 .. Len(queue) + 1
  BY <1>2, LenProperties
<1> HIDE DEF longer
<1>4. IsInjective(longer)
  BY <1>1, <1>2, <1>3 DEF IsInjective
<1>5. \A x : (\E i \in DOMAIN longer : longer[i] = x)
               <=> x = c \/ \E i \in DOMAIN queue : queue[i] = x
  BY <1>1, <1>2, <1>3
<1> QED
  BY <1>2, <1>4, <1>5 DEF longer

(* The same when the first leaves.                                         *)
LEMMA LeaveQueue ==
  ASSUME NEW S, NEW queue \in Seq(S), IsInjective(queue), queue # << >>
  PROVE  LET shorter == Tail(queue) IN
         /\ Head(queue) \in S /\ shorter \in Seq(S) /\ IsInjective(shorter)
         /\ \E i \in DOMAIN queue : queue[i] = Head(queue)
         /\ \A x : (\E i \in DOMAIN shorter : shorter[i] = x)
                     <=> x # Head(queue) /\ \E i \in DOMAIN queue : queue[i] = x
<1> DEFINE shorter == Tail(queue)
<1>1. Len(queue) \in Nat \ {0} /\ DOMAIN queue = 1 .. Len(queue)
  BY LenProperties, EmptySeq
<1>2. /\ Head(queue) \in S /\ shorter \in Seq(S)
      /\ Len(shorter) = Len(queue) - 1
      /\ \A i \in 1 .. Len(shorter) : shorter[i] = queue[i + 1]
  BY HeadTailProperties
<1>3. DOMAIN shorter = 1 .. Len(queue) - 1
  BY <1>2, LenProperties
<1>4. Head(queue) = queue[1]
  BY <1>1
<1> HIDE DEF shorter
<1>5. IsInjective(shorter)
  BY <1>1, <1>2, <1>3 DEF IsInjective
<1>6. ASSUME NEW x, NEW i \in DOMAIN queue, queue[i] = x, x # Head(queue)
      PROVE  \E j \in DOMAIN shorter : shorter[j] = x
  <2>1. i - 1 \in DOMAIN shorter /\ i - 1 + 1 = i
    BY <1>1, <1>3, <1>4, <1>6
  <2> QED
    BY <1>2, <1>3, <1>6, <2>1
<1>7. ASSUME NEW x, NEW j \in DOMAIN shorter, shorter[j] = x
      PROVE  x # Head(queue) /\ \E i \in DOMAIN queue : queue[i] = x
  <2>1. j + 1 \in DOMAIN queue /\ j + 1 # 1 /\ queue[j + 1] = x /\ 1 \in DOMAIN queue
    BY <1>1, <1>2, <1>3, <1>7
  <2> QED
    BY <1>4, <2>1 DEF IsInjective
<1>8. \E i \in DOMAIN queue : queue[i] = Head(queue)
  BY <1>1, <1>4
<1> QED
  BY <1>2, <1>5, <1>6, <1>7, <1>8 DEF shorter

(* The parts of TypeOK as a proof needs them.                              *)
LEMMA ServedClient ==
  ASSUME TypeOK, status \notin {"down", "waitConnect"}
  PROVE  /\ conn \in Client /\ conn # NoClient
         /\ pending[conn] \in Seq(Items) /\ Len(pending[conn]) \in Nat
         /\ phase[conn] \in Phases
         /\ data \in Seq(Items) /\ Len(data) \in Nat
<1>1. conn \in Client /\ conn # NoClient
  BY DEF TypeOK
<1>2. pending[conn] \in Seq(Items) /\ phase[conn] \in Phases /\ data \in Seq(Items)
  BY <1>1 DEF TypeOK
<1> QED
  BY <1>1, <1>2, LenProperties

LEMMA IInvInit == Init => IInv
<1> SUFFICES ASSUME Init PROVE IInv
  OBVIOUS
<1>1. << >> \in Seq(Client) /\ << >> \in Seq(Items) /\ DOMAIN << >> = {}
  BY EmptySeq
<1>2. TypeOK
  BY <1>1, ServerConstants DEF Init, TypeOK, IsInjective, Phases
<1>3. QueueInv
  BY <1>1, ServerConstants DEF Init, QueueInv, InBacklog
<1> QED
  BY <1>2, <1>3 DEF Init, IInv, HandlerInv, CommandInv, DataInv, EdgeInv

(* The process ends or starts again.                                       *)
LEMMA IInvDown == IInv /\ (Down \/ Start) => IInv'
<1> SUFFICES ASSUME IInv, Down \/ Start PROVE IInv'
  OBVIOUS
<1>0. << >> \in Seq(Client) /\ << >> \in Seq(Items) /\ DOMAIN << >> = {}
  BY EmptySeq
<1>1. CASE Down
  <2>1. TypeOK'
    BY <1>0, <1>1 DEF Down, IInv, TypeOK, IsInjective, Phases
  <2>2. QueueInv'
    BY <1>0, <1>1 DEF Down, IInv, QueueInv, InBacklog
  <2> QED
    BY <1>1, <2>1, <2>2 DEF Down, IInv, HandlerInv, CommandInv, DataInv, EdgeInv
<1>2. CASE Start
  BY <1>2 DEF Start, clientVars, IInv, TypeOK, QueueInv, InBacklog, HandlerInv,
              CommandInv, DataInv, EdgeInv
<1> QED
  BY <1>1, <1>2

(* A client is accepted.                                                   *)
LEMMA IInvAccept == IInv /\ Accept => IInv'
<1> SUFFICES ASSUME IInv, Accept PROVE IInv'
  OBVIOUS
<1>1. /\ backlog \in Seq(Client) /\ IsInjective(backlog) /\ backlog # << >>
      /\ conn' = Head(backlog) /\ backlog' = Tail(backlog)
      /\ status = "waitConnect" /\ status' = "waitHTTPRequest"
      /\ UNCHANGED <<handler, data, pending, phase, commands, lines>>
  BY DEF Accept, IInv, TypeOK, clientVars
<1>2. /\ conn' \in Client /\ backlog' \in Seq(Client) /\ IsInjective(backlog')
      /\ InBacklog(conn')
      /\ \A c : InBacklog(c)' <=> c # conn' /\ InBacklog(c)
  <2> DEFINE shorter == Tail(backlog)
  <2>1. /\ Head(backlog) \in Client /\ shorter \in Seq(Client) /\ IsInjective(shorter)
        /\ \E i \in DOMAIN backlog : backlog[i] = Head(backlog)
        /\ \A x : (\E i \in DOMAIN shorter : shorter[i] = x)
                    <=> x # Head(backlog) /\ \E i \in DOMAIN backlog : backlog[i] = x
    BY <1>1, LeaveQueue
  <2>2. backlog' = shorter /\ conn' = Head(backlog)
    BY <1>1
  <2> HIDE DEF shorter
  <2> QED
    BY <2>1, <2>2 DEF InBacklog
<1>3. TypeOK'
  BY <1>1, <1>2, RealClients DEF IInv, TypeOK
<1>4. QueueInv'
  <2>1. conn = NoClient
    BY <1>1 DEF IInv, TypeOK
  <2> QED
    BY <1>1, <1>2, <2>1, RealClients DEF IInv, QueueInv
<1> QED
  BY <1>1, <1>2, <1>3, <1>4
     DEF IInv, QueueInv, HandlerInv, CommandInv, DataInv, EdgeInv

(* A connection is closed: after a page or after QUIT.                     *)
LEMMA IInvClose == IInv /\ (AnswerRequest \/ EndConnect) => IInv'
<1> SUFFICES ASSUME IInv, AnswerRequest \/ EndConnect PROVE IInv'
  OBVIOUS
<1>1. status \in {"waitHTTPRequest", "endConnect"} /\ Close
  BY DEF AnswerRequest, EndConnect
<1>2. conn \in Client /\ conn # NoClient
  BY <1>1, ServedClient DEF IInv
<1>3. TypeOK'
  BY <1>1, <1>2, EmptySeq DEF Close, IInv, TypeOK, Phases
<1>4. QueueInv'
  BY <1>1, <1>2 DEF Close, IInv, TypeOK, QueueInv, InBacklog
<1> QED
  BY <1>1, <1>3, <1>4 DEF Close, IInv, HandlerInv, CommandInv, DataInv, EdgeInv

(* A silent client is greeted.                                             *)
LEMMA IInvGreet == IInv /\ Greet => IInv'
<1> SUFFICES ASSUME IInv, Greet PROVE IInv'
  OBVIOUS
<1>1. conn \in Client /\ conn # NoClient /\ status = "waitHTTPRequest"
  BY ServedClient DEF Greet, IInv
<1>2. phase[conn] \in {"waiting", "gone"}
  BY <1>1 DEF IInv, EdgeInv
<1>3. /\ phase' \in [Client -> Phases]
      /\ phase'[conn] \in {"ready", "gone"}
      /\ \A c \in Client : c # conn => phase'[c] = phase[c]
  BY <1>1, <1>2 DEF Greet, Told, IInv, TypeOK, Phases
<1>4. /\ status' = "waitCommand" /\ pending[conn] = << >>
      /\ UNCHANGED <<backlog, conn, handler, data, pending, commands, lines>>
  BY DEF Greet
<1>5. TypeOK'
  BY <1>1, <1>3, <1>4 DEF IInv, TypeOK
<1>6. QueueInv'
  BY <1>1, <1>3, <1>4 DEF IInv, QueueInv, InBacklog
<1>7. CommandInv'
  BY <1>3, <1>4, EmptySeq DEF CommandInv
<1> QED
  BY <1>1, <1>4, <1>5, <1>6, <1>7 DEF IInv, HandlerInv, DataInv, EdgeInv

(* Another client, one in the backlog or none yet, or the clock, moves:    *)
(* nothing of the client served changes.                                   *)
LEMMA IInvAside ==
  ASSUME IInv, TypeOK', QueueInv',
         UNCHANGED <<status, conn, handler, data>>,
         conn # NoClient => /\ phase'[conn] = phase[conn]
                            /\ pending'[conn] = pending[conn]
                            /\ lines'[conn] = lines[conn]
  PROVE  IInv'
<1>1. CASE status \in {"down", "waitConnect"}
  BY <1>1 DEF IInv, HandlerInv, CommandInv, DataInv, EdgeInv
<1>2. CASE status \notin {"down", "waitConnect"}
  <2>1. conn # NoClient
    BY <1>2, ServedClient DEF IInv
  <2>2. (LinesSoFar' <=> LinesSoFar) /\ (WholeText' <=> WholeText)
    BY <2>1 DEF LinesSoFar, WholeText
  <2> QED
    BY <2>1, <2>2 DEF IInv, HandlerInv, CommandInv, DataInv, EdgeInv
<1> QED
  BY <1>1, <1>2

LEMMA IInvConnect ==
  ASSUME IInv, NEW c \in Client, Connect(c)
  PROVE  IInv'
<1>1. /\ backlog \in Seq(Client) /\ IsInjective(backlog)
      /\ status # "down" /\ phase[c] = "away"
      /\ backlog' = Append(backlog, c)
      /\ phase' = [phase EXCEPT ![c] = "waiting"]
      /\ lines' = [lines EXCEPT ![c] = 0]
      /\ UNCHANGED <<status, conn, timer, handler, data, pending>>
  BY DEF Connect, IInv, TypeOK
<1>2. ~InBacklog(c) /\ c # conn
  <2>1. ~InBacklog(c)
    BY <1>1 DEF IInv, QueueInv
  <2>2. c # conn
    BY <1>1, ServedClient, RealClients DEF IInv, TypeOK, CommandInv, DataInv, EdgeInv
  <2> QED
    BY <2>1, <2>2
<1>3. /\ backlog' \in Seq(Client) /\ IsInjective(backlog')
      /\ \A x : InBacklog(x)' <=> x = c \/ InBacklog(x)
  <2> DEFINE longer == Append(backlog, c)
  <2>1. \A i \in DOMAIN backlog : backlog[i] # c
    BY <1>2 DEF InBacklog
  <2>2. /\ longer \in Seq(Client) /\ IsInjective(longer)
        /\ \A x : (\E i \in DOMAIN longer : longer[i] = x)
                    <=> x = c \/ \E i \in DOMAIN backlog : backlog[i] = x
    BY <1>1, <2>1, JoinQueue
  <2>3. backlog' = longer
    BY <1>1
  <2> HIDE DEF longer
  <2> QED
    BY <2>2, <2>3 DEF InBacklog
<1>4. TypeOK'
  BY <1>1, <1>3 DEF IInv, TypeOK, Phases
<1>5. QueueInv'
  BY <1>1, <1>2, <1>3, ServerConstants DEF IInv, TypeOK, QueueInv
<1>6. conn # NoClient => conn \in Client
  BY DEF IInv, TypeOK
<1> QED
  BY <1>1, <1>2, <1>4, <1>5, <1>6, IInvAside DEF IInv, TypeOK, QueueInv

(* What Send does to the line of one client.                               *)
LEMMA Sending ==
  ASSUME TypeOK, NEW c \in Client, NEW item \in Items, Send(c, item)
  PROVE  /\ pending' \in [Client -> Seq(Items)]
         /\ pending'[c] = Append(pending[c], item)
         /\ \A x \in Client : x # c => pending'[x] = pending[x]
         /\ Len(pending'[c]) = Len(pending[c]) + 1 /\ Len(pending[c]) \in Nat
         /\ \A n \in 1 .. Len(pending[c]) : pending'[c][n] = pending[c][n]
         /\ pending'[c][Len(pending[c]) + 1] = item
         /\ pending'[c] # << >>
<1>1. pending \in [Client -> Seq(Items)] /\ pending[c] \in Seq(Items)
  BY DEF TypeOK
<1>2. pending' = [pending EXCEPT ![c] = Append(pending[c], item)]
  BY DEF Send
<1>3. Append(pending[c], item) \in Seq(Items)
  BY <1>1, AppendProperties
<1>4. /\ pending' \in [Client -> Seq(Items)]
      /\ pending'[c] = Append(pending[c], item)
      /\ \A x \in Client : x # c => pending'[x] = pending[x]
  BY <1>1, <1>2, <1>3
<1> QED
  BY <1>1, <1>4, AppendProperties, LenProperties

(* The items that clients send are items.                                  *)
LEMMA SentItems ==
  ASSUME NEW c \in Client
  PROVE  /\ Item("request", c, 0) \in Items
         /\ Item("dot", c, 0) \in Items
         /\ Item("blank", c, 0) \in Items
         /\ \A kind \in Command : Item(kind, c, 0) \in Items
         /\ \A n \in 0 .. MaxLines : Item("line", c, n) \in Items
<1>1. 0 \in 0 .. MaxLines
  BY ServerConstants
<1> QED
  BY <1>1 DEF Item, Items

LEMMA IInvSendRequest ==
  ASSUME IInv, NEW c \in Client, SendRequest(c)
  PROVE  IInv'
<1>1. /\ phase[c] = "waiting" /\ UNCHANGED <<serverVars, phase, commands, lines>>
      /\ Send(c, Item("request", c, 0))
  BY DEF SendRequest
<1>2. /\ pending' \in [Client -> Seq(Items)]
      /\ \A x \in Client : x # c => pending'[x] = pending[x]
  BY <1>1, Sending, SentItems DEF IInv
<1>3. TypeOK'
  BY <1>1, <1>2 DEF serverVars, IInv, TypeOK
<1>4. QueueInv'
  BY <1>1, <1>2 DEF serverVars, IInv, QueueInv, InBacklog
<1>5. conn # NoClient => conn \in Client
  BY DEF IInv, TypeOK
<1>6. CASE conn # c
  BY <1>1, <1>2, <1>3, <1>4, <1>5, <1>6, IInvAside DEF serverVars
<1>7. CASE conn = c
  <2>1. status = "waitHTTPRequest"
    BY <1>1, <1>7, RealClients DEF IInv, TypeOK, CommandInv, DataInv, EdgeInv
  <2> QED
    BY <1>1, <1>3, <1>4, <2>1
       DEF serverVars, IInv, HandlerInv, CommandInv, DataInv, EdgeInv
<1> QED
  BY <1>6, <1>7

(* A client that may send a command is the one served, and waitCommand     *)
(* reads what it sends.                                                    *)
LEMMA IInvSendCommand ==
  ASSUME IInv, NEW c \in Client, NEW kind \in Command, SendCommand(c, kind)
  PROVE  IInv'
<1> DEFINE next == IF kind \in {"QUIT", "SHUTDOWN"} THEN "leaving" ELSE "asked"
<1>1. /\ phase[c] = "ready" /\ Send(c, Item(kind, c, 0))
      /\ phase' = [phase EXCEPT ![c] = next] /\ lines' = [lines EXCEPT ![c] = 0]
      /\ UNCHANGED serverVars
  BY DEF SendCommand
<1>2. conn = c /\ status = "waitCommand" /\ pending[c] = << >>
  <2>1. conn = c
    BY <1>1 DEF IInv, QueueInv
  <2>2. status = "waitCommand"
    BY <1>1, <2>1, RealClients DEF IInv, TypeOK, DataInv, EdgeInv
  <2> QED
    BY <1>1, <2>1, <2>2 DEF IInv, CommandInv
<1>3. /\ pending' \in [Client -> Seq(Items)]
      /\ \A x \in Client : x # c => pending'[x] = pending[x]
      /\ pending'[c] = << Item(kind, c, 0) >>
  BY <1>1, <1>2, Sending, SentItems DEF IInv
<1>4. /\ phase' \in [Client -> Phases] /\ phase'[c] = next
      /\ lines' \in [Client -> 0 .. MaxLines] /\ lines'[c] = 0
      /\ \A x \in Client : x # c => phase'[x] = phase[x] /\ lines'[x] = lines[x]
  BY <1>1, ServerConstants DEF IInv, TypeOK, QueueInv, Phases
<1>5. TypeOK'
  BY <1>1, <1>3, <1>4 DEF serverVars, IInv, TypeOK
<1>6. QueueInv'
  BY <1>1, <1>2, <1>3, <1>4, RealClients DEF serverVars, IInv, QueueInv, InBacklog
<1>7. CommandInv'
  <2>1. Len(pending'[c]) = 1 /\ pending'[c] # << >>
    BY <1>3
  <2> QED
    BY <1>1, <1>2, <1>3, <1>4, <2>1 DEF serverVars, CommandInv
<1> QED
  BY <1>1, <1>2, <1>5, <1>6, <1>7
     DEF serverVars, IInv, HandlerInv, DataInv, EdgeInv

(* A client sends the next line or the dot.                                *)
LEMMA NextOfText ==
  ASSUME NEW got \in Seq(Items), NEW rest \in Seq(Items), NEW longer,
         NEW c, NEW m \in Nat, NEW k \in {m, m + 1},
         FirstOf(m, c, m, got, rest),
         Len(longer) = Len(rest) + 1,
         \A n \in 1 .. Len(rest) : longer[n] = rest[n],
         longer[Len(rest) + 1] = Expected(c, k, m + 1)
  PROVE  FirstOf(m + 1, c, k, got, longer)
<1>1. Len(got) \in Nat /\ Len(rest) \in Nat
  BY LenProperties
<1>2. Len(got) + Len(rest) = m
  BY DEF FirstOf
<1>3. \A n \in 1 .. m : Expected(c, k, n) = Expected(c, m, n)
  BY DEF Expected
<1>4. ASSUME NEW n \in 1 .. Len(got)
      PROVE  got[n] = Expected(c, k, n)
  <2>1. n \in 1 .. m
    BY <1>1, <1>2
  <2>2. got[n] = Expected(c, m, n)
    BY DEF FirstOf
  <2> QED
    BY <1>3, <2>1, <2>2
<1>5. ASSUME NEW n \in 1 .. Len(rest) + 1
      PROVE  longer[n] = Expected(c, k, Len(got) + n)
  <2>1. CASE n = Len(rest) + 1
    <3>1. Len(got) + n = m + 1
      BY <1>1, <1>2, <2>1
    <3> QED
      BY <2>1, <3>1
  <2>2. CASE n # Len(rest) + 1
    <3>1. n \in 1 .. Len(rest) /\ Len(got) + n \in 1 .. m
      BY <1>1, <1>2, <2>2
    <3>2. rest[n] = Expected(c, m, Len(got) + n)
      BY <3>1 DEF FirstOf
    <3> QED
      BY <1>3, <3>1, <3>2
  <2> QED
    BY <2>1, <2>2
<1>6. Len(got) + Len(longer) = m + 1
  BY <1>1, <1>2
<1> QED
  BY <1>4, <1>5, <1>6 DEF FirstOf

(* A client that sends a text is the one served by waitData.               *)
LEMMA SenderIsServed ==
  ASSUME IInv, NEW c \in Client, phase[c] \in {"sending", "sent"}
  PROVE  conn = c /\ status = "waitData"
<1>1. conn = c
  BY DEF IInv, QueueInv
<1> QED
  BY <1>1, RealClients DEF IInv, TypeOK, CommandInv, EdgeInv

LEMMA IInvSendLine ==
  ASSUME IInv, NEW c \in Client, SendLine(c)
  PROVE  IInv'
<1> DEFINE m == lines[c]
<1>1. /\ phase[c] = "sending" /\ m < MaxLines
      /\ Send(c, Item("line", c, m + 1))
      /\ lines' = [lines EXCEPT ![c] = m + 1]
      /\ UNCHANGED <<serverVars, phase, commands>>
  BY DEF SendLine
<1>2. conn = c /\ status = "waitData" /\ LinesSoFar
  BY <1>1, SenderIsServed DEF IInv, DataInv
<1>3. /\ m \in Nat /\ m + 1 \in 0 .. MaxLines
      /\ lines' \in [Client -> 0 .. MaxLines] /\ lines'[c] = m + 1
      /\ \A x \in Client : x # c => lines'[x] = lines[x]
  BY <1>1, ServerConstants DEF IInv, QueueInv
<1>4. /\ pending' \in [Client -> Seq(Items)]
      /\ \A x \in Client : x # c => pending'[x] = pending[x]
      /\ Len(pending'[c]) = Len(pending[c]) + 1 /\ Len(pending[c]) \in Nat
      /\ \A n \in 1 .. Len(pending[c]) : pending'[c][n] = pending[c][n]
      /\ pending'[c][Len(pending[c]) + 1] = Item("line", c, m + 1)
  <2>1. Item("line", c, m + 1) \in Items
    BY <1>3, SentItems
  <2> QED
    BY <1>1, <2>1, Sending DEF IInv
<1>5. TypeOK'
  BY <1>1, <1>4 DEF serverVars, IInv, TypeOK
<1>6. QueueInv'
  BY <1>1, <1>2, <1>3, <1>4 DEF serverVars, IInv, QueueInv, InBacklog
<1>7. LinesSoFar'
  <2>1. /\ data \in Seq(Items) /\ pending[c] \in Seq(Items)
        /\ data' = data /\ conn' = conn
    BY <1>1, <1>2, ServedClient DEF serverVars, IInv
  <2>2. FirstOf(m, c, m, data, pending[c])
    BY <1>2 DEF LinesSoFar
  <2>3. FirstOf(m + 1, c, m + 1, data, pending'[c])
    <3> HIDE DEF m
    <3>1. Expected(c, m + 1, m + 1) = Item("line", c, m + 1) /\ m + 1 \in {m, m + 1}
      BY <1>3 DEF Expected
    <3> QED
      BY <1>3, <1>4, <2>1, <2>2, <3>1, NextOfText
  <2> QED
    BY <1>2, <1>3, <2>1, <2>3 DEF LinesSoFar
<1>8. DataInv'
  BY <1>1, <1>2, <1>7 DEF serverVars, IInv, DataInv
<1> QED
  BY <1>1, <1>2, <1>5, <1>6, <1>8
     DEF serverVars, IInv, HandlerInv, CommandInv, EdgeInv

LEMMA IInvSendDot ==
  ASSUME IInv, NEW c \in Client, SendDot(c)
  PROVE  IInv'
<1> DEFINE m == lines[c]
<1>1. /\ phase[c] = "sending" /\ Send(c, Item("dot", c, 0))
      /\ phase' = [phase EXCEPT ![c] = "sent"]
      /\ UNCHANGED <<serverVars, commands, lines>>
  BY DEF SendDot
<1>2. conn = c /\ status = "waitData" /\ LinesSoFar
  BY <1>1, SenderIsServed DEF IInv, DataInv
<1>3. /\ m \in Nat
      /\ phase' \in [Client -> Phases] /\ phase'[c] = "sent"
      /\ \A x \in Client : x # c => phase'[x] = phase[x]
  BY <1>1, ServerConstants DEF IInv, TypeOK, QueueInv, Phases
<1>4. /\ pending' \in [Client -> Seq(Items)]
      /\ \A x \in Client : x # c => pending'[x] = pending[x]
      /\ Len(pending'[c]) = Len(pending[c]) + 1 /\ Len(pending[c]) \in Nat
      /\ \A n \in 1 .. Len(pending[c]) : pending'[c][n] = pending[c][n]
      /\ pending'[c][Len(pending[c]) + 1] = Item("dot", c, 0)
  BY <1>1, Sending, SentItems DEF IInv
<1>5. TypeOK'
  BY <1>1, <1>3, <1>4 DEF serverVars, IInv, TypeOK
<1>6. QueueInv'
  BY <1>1, <1>2, <1>3, <1>4 DEF serverVars, IInv, QueueInv, InBacklog
<1>7. WholeText'
  <2>1. /\ data \in Seq(Items) /\ pending[c] \in Seq(Items)
        /\ data' = data /\ conn' = conn /\ lines' = lines
    BY <1>1, <1>2, ServedClient DEF serverVars, IInv
  <2>2. FirstOf(m, c, m, data, pending[c])
    BY <1>2 DEF LinesSoFar
  <2>3. FirstOf(m + 1, c, m, data, pending'[c])
    <3> HIDE DEF m
    <3>1. Expected(c, m, m + 1) = Item("dot", c, 0) /\ m \in {m, m + 1}
      BY <1>3 DEF Expected
    <3> QED
      BY <1>3, <1>4, <2>1, <2>2, <3>1, NextOfText
  <2> QED
    BY <1>2, <2>1, <2>3 DEF WholeText
<1>8. DataInv'
  BY <1>1, <1>2, <1>3, <1>7 DEF serverVars, IInv, DataInv
<1> QED
  BY <1>1, <1>2, <1>5, <1>6, <1>8
     DEF serverVars, IInv, HandlerInv, CommandInv, EdgeInv

LEMMA IInvVanish ==
  ASSUME IInv, NEW c \in Client, Vanish(c)
  PROVE  IInv'
<1>1. /\ phase[c] \notin {"away", "gone"}
      /\ phase' = [phase EXCEPT ![c] = "gone"]
      /\ UNCHANGED <<serverVars, pending, commands, lines>>
  BY DEF Vanish
<1>2. /\ phase' \in [Client -> Phases] /\ phase'[c] = "gone"
      /\ \A x \in Client : x # c => phase'[x] = phase[x]
  BY <1>1 DEF IInv, TypeOK, Phases
<1>3. TypeOK'
  BY <1>1, <1>2 DEF serverVars, IInv, TypeOK
<1>4. QueueInv'
  BY <1>1, <1>2 DEF serverVars, IInv, QueueInv, InBacklog
<1>5. conn # NoClient => conn \in Client
  BY DEF IInv, TypeOK
<1>6. CASE conn # c
  BY <1>1, <1>2, <1>3, <1>4, <1>5, <1>6, IInvAside DEF serverVars
<1>7. CASE conn = c
  <2>2. (LinesSoFar' <=> LinesSoFar) /\ (WholeText' <=> WholeText)
    BY <1>1 DEF serverVars, LinesSoFar, WholeText
  <2>3. DataInv'
    BY <1>1, <1>2, <1>7, <2>2 DEF serverVars, IInv, DataInv
  <2>4. CommandInv'
    BY <1>1, <1>2, <1>7 DEF serverVars, IInv, CommandInv
  <2> QED
    BY <1>1, <1>2, <1>3, <1>4, <1>7, <2>3, <2>4 DEF serverVars, IInv, HandlerInv, EdgeInv
<1> QED
  BY <1>6, <1>7

(* The prefix of one line that recv brings, and what is left.              *)
LEMMA Portion ==
  ASSUME NEW S, NEW stream \in Seq(S), NEW n \in 1 .. Len(stream)
  PROVE  /\ SubSeq(stream, 1, n) \in Seq(S) /\ Len(SubSeq(stream, 1, n)) = n
         /\ \A i \in 1 .. n : SubSeq(stream, 1, n)[i] = stream[i]
         /\ SubSeq(stream, n + 1, Len(stream)) \in Seq(S)
         /\ Len(SubSeq(stream, n + 1, Len(stream))) = Len(stream) - n
         /\ \A i \in 1 .. Len(stream) - n :
              SubSeq(stream, n + 1, Len(stream))[i] = stream[n + i]
         /\ Len(stream) \in Nat
<1>1. Len(stream) \in Nat /\ \A i \in 1 .. Len(stream) : stream[i] \in S
  BY LenProperties, ElementOfSeq
<1>2. /\ SubSeq(stream, 1, n) \in Seq(S) /\ Len(SubSeq(stream, 1, n)) = n
      /\ \A i \in 1 .. n : SubSeq(stream, 1, n)[i] = stream[i]
  <2>1. \A i \in 1 .. n : stream[i] \in S
    BY <1>1
  <2> QED
    BY <1>1, <2>1, SubSeqProperties
<1>3. /\ SubSeq(stream, n + 1, Len(stream)) \in Seq(S)
      /\ Len(SubSeq(stream, n + 1, Len(stream))) = Len(stream) - n
      /\ \A i \in 1 .. Len(stream) - n :
           SubSeq(stream, n + 1, Len(stream))[i] = stream[n + i]
  <2>1. \A i \in n + 1 .. Len(stream) : stream[i] \in S
    BY <1>1
  <2> QED
    BY <1>1, <2>1, SubSeqProperties
<1> QED
  BY <1>1, <1>2, <1>3

(* A portion moves from what was not received to what was.                 *)
LEMMA PortionOfText ==
  ASSUME NEW got \in Seq(Items), NEW rest \in Seq(Items), NEW n \in 1 .. Len(rest),
         NEW c, NEW m \in Nat, NEW length \in Nat,
         FirstOf(length, c, m, got, rest)
  PROVE  FirstOf(length, c, m, got \o SubSeq(rest, 1, n), SubSeq(rest, n + 1, Len(rest)))
<1> DEFINE more == got \o SubSeq(rest, 1, n)
           left == SubSeq(rest, n + 1, Len(rest))
<1>1. Len(got) \in Nat /\ Len(rest) \in Nat
  BY LenProperties
<1>2. /\ Len(more) = Len(got) + n
      /\ \A i \in 1 .. Len(got) + n :
           more[i] = IF i <= Len(got) THEN got[i] ELSE rest[i - Len(got)]
  BY <1>1, Portion, ConcatProperties
<1>3. /\ Len(left) = Len(rest) - n
      /\ \A i \in 1 .. Len(rest) - n : left[i] = rest[n + i]
  BY Portion
<1> HIDE DEF more, left
<1>4. \A i \in 1 .. Len(more) : more[i] = Expected(c, m, i)
  <2> SUFFICES ASSUME NEW i \in 1 .. Len(got) + n
               PROVE  more[i] = Expected(c, m, i)
    BY <1>2
  <2>1. CASE i <= Len(got)
    BY <1>1, <1>2, <2>1 DEF FirstOf
  <2>2. CASE ~(i <= Len(got))
    <3>1. i - Len(got) \in 1 .. Len(rest) /\ Len(got) + (i - Len(got)) = i
      BY <1>1, <2>2
    <3>2. rest[i - Len(got)] = Expected(c, m, Len(got) + (i - Len(got)))
      BY <3>1 DEF FirstOf
    <3> QED
      BY <1>2, <2>2, <3>1, <3>2
  <2> QED
    BY <2>1, <2>2
<1>5. \A i \in 1 .. Len(left) : left[i] = Expected(c, m, Len(more) + i)
  <2> SUFFICES ASSUME NEW i \in 1 .. Len(rest) - n
               PROVE  left[i] = Expected(c, m, Len(more) + i)
    BY <1>3
  <2>1. n + i \in 1 .. Len(rest) /\ Len(got) + (n + i) = Len(more) + i
    BY <1>1, <1>2
  <2>2. rest[n + i] = Expected(c, m, Len(got) + (n + i))
    BY <2>1 DEF FirstOf
  <2> QED
    BY <1>3, <2>1, <2>2
<1>6. Len(more) + Len(left) = length
  <2>1. Len(got) + Len(rest) = length
    BY DEF FirstOf
  <2>2. Len(more) = Len(got) + n /\ Len(left) = Len(rest) - n
    BY <1>2, <1>3
  <2> QED
    BY <1>1, <2>1, <2>2
<1> QED
  BY <1>4, <1>5, <1>6 DEF FirstOf, more, left

(* A dot that comes alone is the last of its text, and what was received   *)
(* before it are its lines.                                                *)
LEMMA DotIsLast ==
  ASSUME NEW got \in Seq(Items), NEW rest \in Seq(Items),
         NEW c, NEW m \in Nat, NEW length \in {m, m + 1},
         FirstOf(length, c, m, got, rest),
         Len(rest) # 0, rest[1].kind = "dot"
  PROVE  /\ length = m + 1 /\ Len(rest) = 1
         /\ got = [n \in 1 .. m |-> Item("line", c, n)]
<1>1. Len(got) \in Nat /\ Len(rest) \in Nat /\ DOMAIN got = 1 .. Len(got)
  BY LenProperties
<1>2. rest[1] = Expected(c, m, Len(got) + 1)
  BY <1>1 DEF FirstOf
<1>3. ~(Len(got) + 1 <= m)
  BY <1>2 DEF Expected, Item
<1>4. Len(got) = m /\ length = m + 1 /\ Len(rest) = 1
  <2>1. Len(got) + Len(rest) = length
    BY DEF FirstOf
  <2>2. \A a, b \in Nat : /\ a + b \in {m, m + 1} /\ b # 0 /\ ~(a + 1 <= m)
                          => a = m /\ a + b = m + 1 /\ b = 1
    OBVIOUS
  <2> QED
    BY <1>1, <1>3, <2>1, <2>2
<1>5. \A n \in 1 .. m : got[n] = Item("line", c, n)
  BY <1>4 DEF FirstOf, Expected
<1>6. got = [n \in DOMAIN got |-> got[n]]
  BY <1>1, LenProperties
<1> QED
  BY <1>1, <1>4, <1>5, <1>6

(* A command: it is the only thing the client sent.                        *)
LEMMA IInvReceiveCommand == IInv /\ ReceiveCommand => IInv'
<1> SUFFICES ASSUME IInv, ReceiveCommand PROVE IInv'
  OBVIOUS
<1>1. /\ status = "waitCommand" /\ pending[conn] # << >>
      /\ conn \in Client /\ conn # NoClient /\ pending[conn] \in Seq(Items)
      /\ phase[conn] \in {"asked", "leaving", "gone"}
  <2>1. status = "waitCommand" /\ pending[conn] # << >>
    BY DEF ReceiveCommand
  <2> QED
    BY <2>1, ServedClient DEF IInv, CommandInv
<1>2. PICK kind \in Command :
        /\ pending[conn] = << Item(kind, conn, 0) >>
        /\ lines[conn] = 0
        /\ phase[conn] = "asked" => kind \notin {"QUIT", "SHUTDOWN"}
        /\ phase[conn] = "leaving" => kind \in {"QUIT", "SHUTDOWN"}
  BY <1>1 DEF IInv, CommandInv
<1> DEFINE command == Item(kind, conn, 0)
<1>3. /\ Head(pending[conn]) = command /\ Tail(pending[conn]) = << >>
      /\ command \in Items /\ command.kind = kind /\ command.from = conn
      /\ command # NoHandler
  <2>1. Head(pending[conn]) = command /\ Tail(pending[conn]) = << >>
    BY <1>2
  <2>2. command \in Items /\ command.kind = kind /\ command.from = conn
    BY <1>1, SentItems DEF Item
  <2>3. kind # "none"
    BY DEF Command, Upload
  <2> QED
    BY <2>1, <2>2, <2>3 DEF NoHandler
<1> HIDE DEF command
<1>4. CASE kind = "SHUTDOWN"
  <2>1. Down
    BY <1>3, <1>4 DEF ReceiveCommand
  <2> QED
    BY <2>1, IInvDown
<1>5. CASE kind # "SHUTDOWN"
  <2>1. /\ pending' = [pending EXCEPT ![conn] = << >>]
        /\ CASE kind = "QUIT" ->
                  status' = "endConnect" /\ UNCHANGED <<handler, phase>>
             [] kind \in Upload ->
                  /\ status' = "waitData"
                  /\ handler' = command
                  /\ phase' = Told(conn, "sending")
             [] OTHER ->
                  phase' = Told(conn, "ready") /\ UNCHANGED <<status, handler>>
        /\ UNCHANGED <<backlog, conn, timer, data, commands, lines>>
    BY <1>3, <1>5 DEF ReceiveCommand
  <2>2. /\ pending' \in [Client -> Seq(Items)] /\ pending'[conn] = << >>
        /\ \A c \in Client : c # conn => pending'[c] = pending[c]
    BY <1>1, <2>1, EmptySeq DEF IInv, TypeOK
  <2>3. handler = NoHandler /\ data = << >>
    BY <1>1 DEF IInv, HandlerInv
  <2>4. CASE kind = "QUIT"
    <3>1. status' = "endConnect" /\ UNCHANGED <<handler, phase>>
      BY <2>1, <2>4 DEF Upload
    <3>2. phase[conn] \in {"leaving", "gone"}
      BY <1>1, <1>2, <2>4
    <3>3. TypeOK'
      BY <1>1, <2>1, <2>2, <3>1 DEF IInv, TypeOK
    <3>4. QueueInv'
      BY <1>1, <2>1, <2>2, <3>1 DEF IInv, QueueInv, InBacklog
    <3> QED
      BY <2>1, <2>2, <2>3, <3>1, <3>2, <3>3, <3>4
         DEF IInv, HandlerInv, CommandInv, DataInv, EdgeInv
  <2>5. CASE kind \in Upload
    <3>1. /\ kind # "QUIT" /\ status' = "waitData" /\ handler' = command
          /\ phase' = Told(conn, "sending")
      BY <2>1, <2>5 DEF Upload
    <3>2. /\ phase' \in [Client -> Phases] /\ phase'[conn] \in {"sending", "gone"}
          /\ \A c \in Client : c # conn => phase'[c] = phase[c]
      BY <1>1, <3>1 DEF Told, IInv, TypeOK, Phases
    <3>3. TypeOK'
      BY <1>1, <1>3, <2>1, <2>2, <3>1, <3>2 DEF IInv, TypeOK
    <3>4. QueueInv'
      BY <1>1, <2>1, <2>2, <3>1, <3>2 DEF IInv, QueueInv, InBacklog
    <3>5. LinesSoFar'
      BY <1>2, <2>1, <2>2, <2>3, EmptySeq DEF LinesSoFar, FirstOf
    <3>6. DataInv'
      BY <1>3, <2>1, <2>2, <3>1, <3>2, <3>5 DEF DataInv
    <3> QED
      BY <3>1, <3>3, <3>4, <3>6 DEF IInv, HandlerInv, CommandInv, EdgeInv
  <2>6. CASE kind # "QUIT" /\ kind \notin Upload
    <3>1. phase' = Told(conn, "ready") /\ UNCHANGED <<status, handler>>
      BY <2>1, <2>6
    <3>2. /\ phase' \in [Client -> Phases] /\ phase'[conn] \in {"ready", "gone"}
          /\ \A c \in Client : c # conn => phase'[c] = phase[c]
      BY <1>1, <3>1 DEF Told, IInv, TypeOK, Phases
    <3>3. TypeOK'
      BY <1>1, <2>1, <2>2, <3>1, <3>2 DEF IInv, TypeOK
    <3>4. QueueInv'
      BY <1>1, <2>1, <2>2, <3>1, <3>2 DEF IInv, QueueInv, InBacklog
    <3>5. CommandInv'
      BY <1>1, <2>1, <2>2, <3>1, <3>2, EmptySeq DEF CommandInv
    <3> QED
      BY <1>1, <2>1, <2>3, <3>1, <3>3, <3>4, <3>5 DEF IInv, HandlerInv, DataInv, EdgeInv
  <2> QED
    BY <2>4, <2>5, <2>6
<1> QED
  BY <1>4, <1>5

(* What a portion of a text is: a dot alone ends it, and the handler has   *)
(* the lines; anything else is added to the buffer.                        *)
LEMMA ReceiveDataCases ==
  ASSUME IInv, ReceiveData
  PROVE  /\ status = "waitData" /\ UNCHANGED <<backlog, conn, timer, commands, lines>>
         /\ \E n \in 1 .. Len(pending[conn]) :
              /\ pending' = [pending EXCEPT ![conn] = SubSeq(@, n + 1, Len(@))]
              /\ \/ n = 1 /\ pending[conn][1].kind = "dot" /\ Handle
                 \/ /\ data' = data \o SubSeq(pending[conn], 1, n)
                    /\ UNCHANGED <<status, handler, phase>>
<1>1. status = "waitData"
  BY DEF ReceiveData
<1>2. pending[conn] \in Seq(Items)
  BY <1>1, ServedClient DEF IInv
<1>3. \A n \in 1 .. Len(pending[conn]) :
        SubSeq(pending[conn], 1, n)[1] = pending[conn][1]
  BY <1>2, Portion
<1> QED
  BY <1>1, <1>3 DEF ReceiveData

LEMMA IInvReceiveData == IInv /\ ReceiveData => IInv'
<1> SUFFICES ASSUME IInv, ReceiveData PROVE IInv'
  OBVIOUS
<1>1. status = "waitData" /\ UNCHANGED <<backlog, conn, timer, commands, lines>>
  BY ReceiveDataCases
<1>2. PICK n \in 1 .. Len(pending[conn]) :
        /\ pending' = [pending EXCEPT ![conn] = SubSeq(@, n + 1, Len(@))]
        /\ \/ n = 1 /\ pending[conn][1].kind = "dot" /\ Handle
           \/ /\ data' = data \o SubSeq(pending[conn], 1, n)
              /\ UNCHANGED <<status, handler, phase>>
  BY ReceiveDataCases
<1> DEFINE rest == pending[conn]
           left == SubSeq(rest, n + 1, Len(rest))
<1>3. /\ conn \in Client /\ conn # NoClient /\ rest \in Seq(Items) /\ Len(rest) \in Nat
      /\ data \in Seq(Items) /\ rest # << >>
  BY <1>1, <1>2, ServedClient, EmptySeq DEF IInv
<1>4. /\ left \in Seq(Items) /\ Len(left) = Len(rest) - n
      /\ SubSeq(rest, 1, n) \in Seq(Items)
  BY <1>3, Portion
<1>5. /\ pending' \in [Client -> Seq(Items)] /\ pending'[conn] = left
      /\ \A c \in Client : c # conn => pending'[c] = pending[c]
  BY <1>2, <1>3, <1>4 DEF IInv, TypeOK
<1>6. lines[conn] \in Nat
  BY <1>3, ServerConstants DEF IInv, QueueInv
<1>7. /\ phase[conn] \in {"sending", "sent", "gone"}
      /\ phase[conn] = "sending" => LinesSoFar
      /\ phase[conn] = "sent" => WholeText
      /\ phase[conn] = "gone" => LinesSoFar \/ WholeText
  BY <1>1, <1>3 DEF IInv, DataInv
<1>8. CASE n = 1 /\ rest[1].kind = "dot" /\ Handle
  <2>1. /\ handler' = NoHandler /\ data' = << >> /\ status' = "waitCommand"
        /\ phase' = Told(conn, "ready")
    BY <1>8 DEF Handle
  <2>2. /\ phase' \in [Client -> Phases] /\ phase'[conn] \in {"ready", "gone"}
        /\ \A c \in Client : c # conn => phase'[c] = phase[c]
    BY <1>3, <2>1 DEF Told, IInv, TypeOK, Phases
  <2>3. left = << >>
    <3>1. Len(rest) = 1
      BY <1>3, <1>6, <1>7, <1>8, DotIsLast, EmptySeq DEF LinesSoFar, WholeText
    <3> QED
      BY <1>4, <1>8, <3>1, EmptySeq
  <2>4. TypeOK'
    BY <1>1, <1>3, <1>5, <2>1, <2>2, EmptySeq DEF IInv, TypeOK
  <2>5. QueueInv'
    BY <1>1, <1>3, <1>5, <2>1, <2>2 DEF IInv, QueueInv, InBacklog
  <2>6. CommandInv'
    <3>1. pending'[conn'] = << >> /\ phase'[conn'] \in {"ready", "gone"}
      BY <1>1, <1>5, <2>2, <2>3
    <3> QED
      BY <3>1, EmptySeq DEF CommandInv
  <2> QED
    BY <2>1, <2>4, <2>5, <2>6 DEF IInv, HandlerInv, DataInv, EdgeInv
<1>9. CASE data' = data \o SubSeq(rest, 1, n) /\ UNCHANGED <<status, handler, phase>>
  <2>1. data' \in Seq(Items)
    BY <1>3, <1>4, <1>9, ConcatProperties
  <2>2. TypeOK'
    BY <1>1, <1>5, <1>9, <2>1 DEF IInv, TypeOK
  <2>3. QueueInv'
    BY <1>1, <1>3, <1>5, <1>9 DEF IInv, QueueInv, InBacklog
  <2>4. (LinesSoFar => LinesSoFar') /\ (WholeText => WholeText')
    <3>1. lines[conn] + 1 \in Nat
      BY <1>6
    <3>2. LinesSoFar => LinesSoFar'
      BY <1>1, <1>3, <1>5, <1>6, <1>9, PortionOfText DEF LinesSoFar
    <3>3. WholeText => WholeText'
      BY <1>1, <1>3, <1>5, <1>6, <1>9, <3>1, PortionOfText DEF WholeText
    <3> QED
      BY <3>2, <3>3
  <2>5. DataInv'
    BY <1>1, <1>7, <1>9, <2>4 DEF IInv, DataInv
  <2> QED
    BY <1>1, <1>9, <2>2, <2>3, <2>5 DEF IInv, HandlerInv, CommandInv, EdgeInv
<1> QED
  BY <1>2, <1>8, <1>9

(* At the end of the stream every turn adds an empty line.                 *)
LEMMA IInvReceiveNothing == IInv /\ ReceiveNothing => IInv'
<1> SUFFICES ASSUME IInv, ReceiveNothing PROVE IInv'
  OBVIOUS
<1>1. /\ status = "waitData" /\ phase[conn] = "gone" /\ pending[conn] = << >>
      /\ data' = Append(data, Item("blank", conn, 0))
      /\ UNCHANGED <<status, backlog, conn, handler, pending, phase, commands, lines>>
  BY DEF ReceiveNothing, AtEnd, clientVars
<1>2. data' \in Seq(Items)
  <2>1. data \in Seq(Items) /\ conn \in Client
    BY <1>1, ServedClient DEF IInv
  <2> QED
    BY <1>1, <2>1, SentItems, AppendProperties
<1>3. TypeOK'
  BY <1>1, <1>2 DEF IInv, TypeOK
<1>4. QueueInv'
  BY <1>1 DEF IInv, QueueInv, InBacklog
<1>5. DataInv'
  BY <1>1 DEF IInv, DataInv
<1> QED
  BY <1>1, <1>3, <1>4, <1>5 DEF IInv, HandlerInv, CommandInv, EdgeInv

LEMMA IInvNext == IInv /\ [Next]_vars => IInv'
<1> SUFFICES ASSUME IInv, [Next]_vars PROVE IInv'
  OBVIOUS
<1>1. CASE Accept
  BY <1>1, IInvAccept
<1>2. CASE AnswerRequest \/ EndConnect
  BY <1>2, IInvClose
<1>3. CASE Greet
  BY <1>3, IInvGreet
<1>4. CASE ReceiveCommand
  BY <1>4, IInvReceiveCommand
<1>5. CASE ReceiveData
  BY <1>5, IInvReceiveData
<1>6. CASE ReceiveNothing
  BY <1>6, IInvReceiveNothing
<1>7. CASE ConnectionFails \/ Start
  BY <1>7, IInvDown DEF ConnectionFails
<1>8. CASE Tick \/ UNCHANGED vars
  <2>1. UNCHANGED <<status, backlog, conn, handler, data, pending, phase, commands, lines>>
    BY <1>8 DEF Tick, vars, serverVars, clientVars
  <2> QED
    BY <2>1, IInvAside DEF IInv, TypeOK, QueueInv, InBacklog
<1>9. ASSUME NEW c \in Client, Connect(c) \/ SendRequest(c) \/ Proceed(c) \/ Vanish(c)
      PROVE  IInv'
  BY <1>9, IInvConnect, IInvSendRequest, IInvSendCommand, IInvSendLine, IInvSendDot,
     IInvVanish DEF Proceed
<1> QED
  BY <1>1, <1>2, <1>3, <1>4, <1>5, <1>6, <1>7, <1>8, <1>9 DEF Next, Turn

-----------------------------------------------------------------------------
(* The inductive invariant: what the clients wait for, what they have sent *)
(* and the state of the server fit together at all times.                  *)
THEOREM ServerInvariant == Spec => []IInv
<1> QED
  BY IInvInit, IInvNext, PTL DEF Spec

(* The server's variables keep their types, there is a connection in just  *)
(* the states that serve one, and nobody stands in the backlog twice.      *)
THEOREM ServerIsTyped == Spec => []TypeOK
<1>1. IInv => TypeOK
  BY DEF IInv
<1> QED
  BY <1>1, ServerInvariant, PTL

(* A client that was greeted is the one served, and the status is the one  *)
(* that reads what it sends next: no client sends a command that is read   *)
(* as a line of a text, or the other way round, and no line goes to the    *)
(* handler of another client's command.                                    *)
THEOREM StatusFitsTheClient == Spec => []ServerFollowsItsClient
<1>1. IInv => ServerFollowsItsClient
  <2> SUFFICES ASSUME IInv, NEW c \in Client
               PROVE  /\ phase[c] \in {"ready", "asked"}
                           => conn = c /\ status = "waitCommand"
                      /\ phase[c] \in {"sending", "sent"}
                           => conn = c /\ status = "waitData" /\ handler.from = c
                      /\ phase[c] = "leaving"
                           => conn = c /\ status \in {"waitCommand", "endConnect"}
    BY DEF ServerFollowsItsClient
  <2>1. phase[c] \notin {"away", "waiting", "gone"} => conn = c
    BY DEF IInv, QueueInv
  <2> QED
    BY <2>1, RealClients DEF IInv, TypeOK, CommandInv, DataInv, EdgeInv
<1> QED
  BY <1>1, ServerInvariant, PTL

(* A handler is run with the lines its client sent since it was asked for  *)
(* them, all of them, in order and nothing else, however recv divided them *)
(* and whether or not the client has gone since; and the text of a command *)
(* is never handed to the next one.                                        *)
THEOREM HandlersGetTheirText == Spec => HandlerGetsItsText
<1>1. ASSUME IInv, [Next]_vars, handler # NoHandler, handler' = NoHandler, status' # "down"
      PROVE  data = [n \in 1 .. lines[conn] |-> Item("line", conn, n)]
  <2>1. status = "waitData"
    BY <1>1 DEF IInv, HandlerInv
  <2>2. ReceiveData
    BY <1>1, <2>1 DEF Next, Turn, Accept, AnswerRequest, Greet, ReceiveCommand, EndConnect,
       ReceiveNothing, ConnectionFails, Down, Start, Tick, Connect, SendRequest, Proceed,
       SendCommand, SendLine, SendDot, Vanish, vars, serverVars, clientVars
  <2>3. Len(pending[conn]) # 0 /\ pending[conn][1].kind = "dot"
    <3>1. PICK n \in 1 .. Len(pending[conn]) :
            \/ n = 1 /\ pending[conn][1].kind = "dot"
            \/ UNCHANGED handler
      BY <1>1, <2>2, ReceiveDataCases
    <3> QED
      BY <1>1, <2>1, <3>1, ServedClient DEF IInv
  <2>4. LinesSoFar \/ WholeText
    <3>1. pending[conn] # << >>
      BY <2>3, EmptySeq
    <3> QED
      BY <1>1, <2>1, <3>1 DEF IInv, DataInv
  <2>5. lines[conn] \in Nat /\ data \in Seq(Items) /\ pending[conn] \in Seq(Items)
    BY <1>1, <2>1, ServedClient, ServerConstants DEF IInv, QueueInv
  <2> DEFINE m == lines[conn]
  <2>6. m \in {m, m + 1} /\ m + 1 \in {m, m + 1}
    OBVIOUS
  <2>7. FirstOf(m, conn, m, data, pending[conn]) \/ FirstOf(m + 1, conn, m, data, pending[conn])
    BY <2>4 DEF LinesSoFar, WholeText
  <2> HIDE DEF m
  <2> QED
    BY <2>3, <2>5, <2>6, <2>7, DotIsLast DEF m
<1> QED
  BY <1>1, ServerInvariant, PTL DEF Spec, HandlerGetsItsText
=============================================================================
