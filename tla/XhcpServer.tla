----------------------------- MODULE XhcpServer -----------------------------
(***************************************************************************)
(* The XHCP server of the xPLHal4L daemon (src/XHCP_server_ipv6.c): the    *)
(* main loop calls XHCP_server every tenth of a second, which serves one   *)
(* connection at a time.  A client that sends something at once is a web   *)
(* browser and gets a page; one that keeps silent for a while is greeted   *)
(* and may send commands.  PUTCONFIGXML and SETRULE ask for a text that    *)
(* ends with a line of one dot.  What the commands do to the configuration *)
(* is HalConfig's subject.                                                 *)
(*                                                                         *)
(* The cases of the switch fall through from one to the next.  They are    *)
(* steps of their own here: the clients run meanwhile, so that whatever a  *)
(* client may do between two of them it may as well have done before.      *)
(***************************************************************************)
EXTENDS Integers, SequencesExt

CONSTANTS
  Client,
  Fraction,    \* units of tv_usec in a second (1000000)
  Milli,       \* what timerdiff adds for each second (1000)
  Limit,       \* the silence after which a client is greeted (100000)
  EagerDot,    \* is the dot sent before the lines before it were received?
  Vanishing,   \* may clients go without QUIT?
  MaxCommands, \* bound: commands of one session before its QUIT
  MaxLines     \* bound: lines of one text, and of what a lost client leaves

ASSUME ServerConstants ==
  /\ {Fraction, Milli, Limit} \subseteq Nat \ {0}
  /\ EagerDot \in BOOLEAN /\ Vanishing \in BOOLEAN
  /\ MaxCommands \in Nat /\ MaxLines \in Nat

NoClient == "no client"
ASSUME RealClients == NoClient \notin Client

Upload == {"PUTCONFIGXML", "SETRULE"}

(* A line a client sends: a request of a browser, a command ("other" is    *)
(* any that leaves the connection as it is, known or not), the nth line of *)
(* a text, the dot.                                                        *)
Item(kind, c, n) == [kind |-> kind, from |-> c, nth |-> n]

Command == Upload \cup {"other", "QUIT", "SHUTDOWN"}

Items ==
  [kind : Command \cup {"request", "line", "dot", "blank"}, from : Client, nth : 0 .. MaxLines]

NoHandler == [kind |-> "none"]

(* The second after which timerdiff is above the limit whatever the        *)
(* fractions are; later ones make no difference.                           *)
LastSecond == (Limit + Fraction) \div Milli + 1

VARIABLES
  status,    \* XHCP_running_status, or "down"
  backlog,   \* connections not accepted yet
  conn,      \* the connection served
  timer,     \* time_conn and the present time
  handler,   \* additionalDataHandler with the arguments kept for it
  data,      \* additionalDataBuffer
  pending,   \* what each client sent and the server did not receive
  phase,     \* what each client is doing
  commands,  \* commands sent in this session
  lines      \* lines sent of this text

serverVars == <<status, backlog, conn, timer, handler, data>>
clientVars == <<pending, phase, commands, lines>>
vars == <<serverVars, clientVars>>

Phases == {"away", "waiting", "ready", "asked", "sending", "sent", "leaving", "gone"}

-----------------------------------------------------------------------------
(* timerdiff: milliseconds for the seconds, microseconds for the rest.     *)
WrongTimerDiff == timer.now - timer.start

TimerDiff == timer.secs * Milli + (timer.now - timer.start)

(* The client hears an answer, unless it is gone.                          *)
Told(c, p) == IF phase[c] = "gone" THEN phase ELSE [phase EXCEPT ![c] = p]

Init ==
  /\ status = "waitConnect"
  /\ backlog = << >>
  /\ conn = NoClient
  /\ timer = [start |-> 0, now |-> 0, secs |-> 0]
  /\ handler = NoHandler
  /\ data = << >>
  /\ pending = [c \in Client |-> << >>]
  /\ phase = [c \in Client |-> "away"]
  /\ commands = [c \in Client |-> 0]
  /\ lines = [c \in Client |-> 0]

(* The process is gone, with all connections.                              *)
Down ==
  /\ status' = "down"
  /\ backlog' = << >>
  /\ conn' = NoClient
  /\ handler' = NoHandler
  /\ data' = << >>
  /\ phase' = [c \in Client |-> "away"]
  /\ pending' = [c \in Client |-> << >>]
  /\ UNCHANGED <<timer, commands, lines>>

(* XHCPstate_init.                                                         *)
Start ==
  /\ status = "down"
  /\ status' = "waitConnect"
  /\ UNCHANGED <<backlog, conn, timer, handler, data, clientVars>>

(* XHCPstate_waitConnect.                                                  *)
Accept ==
  /\ status = "waitConnect"
  /\ backlog # << >>
  /\ conn' = Head(backlog)
  /\ backlog' = Tail(backlog)
  /\ \E f \in 0 .. Fraction - 1 : timer' = [start |-> f, now |-> f, secs |-> 0]
  /\ status' = "waitHTTPRequest"
  /\ UNCHANGED <<handler, data, clientVars>>

(* The status is not set back.                                             *)
WrongClose ==
  /\ conn' = NoClient
  /\ phase' = [phase EXCEPT ![conn] = "away"]
  /\ pending' = [pending EXCEPT ![conn] = << >>]
  /\ UNCHANGED <<status, backlog, timer, handler, data, commands, lines>>

(* close(conn), and back to waitConnect.                                   *)
Close ==
  /\ status' = "waitConnect"
  /\ conn' = NoClient
  /\ phase' = [phase EXCEPT ![conn] = "away"]
  /\ pending' = [pending EXCEPT ![conn] = << >>]
  /\ UNCHANGED <<backlog, timer, handler, data, commands, lines>>

AtEnd == phase[conn] = "gone" /\ pending[conn] = << >>

(* XHCPstate_waitHTTPRequest: whatever was received gets the page, nothing *)
(* at all from a client that is gone included.                             *)
AnswerRequest ==
  /\ status = "waitHTTPRequest"
  /\ pending[conn] # << >> \/ AtEnd
  /\ Close

(* XHCPstate_waitHTTPRequest: silent long enough.                          *)
Greet ==
  /\ status = "waitHTTPRequest"
  /\ pending[conn] = << >> /\ ~AtEnd
  /\ TimerDiff > Limit
  /\ status' = "waitCommand"
  /\ phase' = Told(conn, "ready")
  /\ UNCHANGED <<backlog, conn, timer, handler, data, pending, commands, lines>>

(* XHCPstate_waitCommand with exec_Line.                                   *)
ReceiveCommand ==
  /\ status = "waitCommand"
  /\ pending[conn] # << >>
  /\ LET command == Head(pending[conn]) IN
       IF command.kind = "SHUTDOWN"
         THEN Down
         ELSE /\ pending' = [pending EXCEPT ![conn] = Tail(@)]
              /\ CASE command.kind = "QUIT" ->
                        status' = "endConnect" /\ UNCHANGED <<handler, phase>>
                   [] command.kind \in Upload ->
                        /\ status' = "waitData"
                        /\ handler' = command
                        /\ phase' = Told(conn, "sending")
                   [] OTHER ->
                        phase' = Told(conn, "ready") /\ UNCHANGED <<status, handler>>
              /\ UNCHANGED <<backlog, conn, timer, data, commands, lines>>

(* The buffer is kept.                                                     *)
WrongHandle ==
  /\ handler' = NoHandler
  /\ status' = "waitCommand"
  /\ phase' = Told(conn, "ready")
  /\ UNCHANGED data

(* The next command is expected to be data.                                *)
WrongHandleStatus ==
  /\ handler' = NoHandler
  /\ data' = << >>
  /\ phase' = Told(conn, "ready")
  /\ UNCHANGED status

(* The handler is run and its answer sent, the buffer released.            *)
Handle ==
  /\ handler' = NoHandler
  /\ data' = << >>
  /\ status' = "waitCommand"
  /\ phase' = Told(conn, "ready")

(* XHCPstate_waitData: recv brings one or several lines; the dot counts    *)
(* only when it comes alone.                                               *)
ReceiveData ==
  /\ status = "waitData"
  /\ \E n \in 1 .. Len(pending[conn]) :
       LET chunk == SubSeq(pending[conn], 1, n) IN
       /\ pending' = [pending EXCEPT ![conn] = SubSeq(@, n + 1, Len(@))]
       /\ IF n = 1 /\ chunk[1].kind = "dot"
            THEN Handle
            ELSE data' = data \o chunk /\ UNCHANGED <<status, handler, phase>>
  /\ UNCHANGED <<backlog, conn, timer, commands, lines>>

(* The same at the end of the stream: an empty line in every turn.         *)
ReceiveNothing ==
  /\ status = "waitData"
  /\ AtEnd
  /\ Len(data) < MaxLines
  /\ data' = Append(data, Item("blank", conn, 0))
  /\ UNCHANGED <<status, backlog, conn, timer, handler, clientVars>>

(* XHCPstate_endConnect.                                                   *)
EndConnect == status = "endConnect" /\ Close

(* recv or write reports that the client is gone: Error_Quit or SIGPIPE.   *)
ConnectionFails ==
  /\ conn # NoClient
  /\ phase[conn] = "gone"
  /\ Down

-----------------------------------------------------------------------------
Send(c, item) == pending' = [pending EXCEPT ![c] = Append(@, item)]

Connect(c) ==
  /\ status # "down"
  /\ phase[c] = "away"
  /\ backlog' = Append(backlog, c)
  /\ phase' = [phase EXCEPT ![c] = "waiting"]
  /\ commands' = [commands EXCEPT ![c] = 0]
  /\ lines' = [lines EXCEPT ![c] = 0]
  /\ UNCHANGED <<status, conn, timer, handler, data, pending>>

SendRequest(c) ==
  /\ phase[c] = "waiting"
  /\ pending[c] = << >>
  /\ Send(c, Item("request", c, 0))
  /\ UNCHANGED <<serverVars, phase, commands, lines>>

SendCommand(c, kind) ==
  /\ phase[c] = "ready"
  /\ kind = "QUIT" \/ commands[c] < MaxCommands
  /\ Send(c, Item(kind, c, 0))
  /\ phase' = [phase EXCEPT ![c] = IF kind \in {"QUIT", "SHUTDOWN"} THEN "leaving" ELSE "asked"]
  /\ commands' = [commands EXCEPT ![c] = IF kind = "QUIT" THEN @ ELSE @ + 1]
  /\ lines' = [lines EXCEPT ![c] = 0]
  /\ UNCHANGED serverVars

SendLine(c) ==
  /\ phase[c] = "sending"
  /\ lines[c] < MaxLines
  /\ Send(c, Item("line", c, lines[c] + 1))
  /\ lines' = [lines EXCEPT ![c] = @ + 1]
  /\ UNCHANGED <<serverVars, phase, commands>>

SendDot(c) ==
  /\ phase[c] = "sending"
  /\ EagerDot \/ pending[c] = << >>
  /\ Send(c, Item("dot", c, 0))
  /\ phase' = [phase EXCEPT ![c] = "sent"]
  /\ UNCHANGED <<serverVars, commands, lines>>

(* The client breaks the connection off or is lost.                        *)
Vanish(c) ==
  /\ Vanishing
  /\ phase[c] \notin {"away", "gone"}
  /\ phase' = [phase EXCEPT ![c] = "gone"]
  /\ UNCHANGED <<serverVars, pending, commands, lines>>

(* A client goes on with its session.                                      *)
Proceed(c) ==
  \/ \E kind \in Command : SendCommand(c, kind)
  \/ SendLine(c)
  \/ SendDot(c)

(* The clock; nobody looks at it but waitHTTPRequest.                      *)
Tick ==
  /\ status = "waitHTTPRequest"
  /\ timer' = IF timer.now + 1 < Fraction
                THEN [timer EXCEPT !.now = @ + 1]
                ELSE [timer EXCEPT !.now = 0,
                        !.secs = IF @ < LastSecond THEN @ + 1 ELSE @]
  /\ UNCHANGED <<status, backlog, conn, handler, data, clientVars>>

(* One call of XHCP_server.                                                *)
Turn ==
  \/ Accept
  \/ AnswerRequest
  \/ Greet
  \/ ReceiveCommand
  \/ ReceiveData
  \/ EndConnect

Next ==
  \/ Turn
  \/ ReceiveNothing
  \/ ConnectionFails
  \/ Start
  \/ Tick
  \/ \E c \in Client : Connect(c) \/ SendRequest(c) \/ Proceed(c) \/ Vanish(c)

Spec == Init /\ [][Next]_vars

(* The loop goes on calling the server, time passes, and a client that     *)
(* stays goes on with its session.                                         *)
FairSpec ==
  /\ Spec
  /\ WF_vars(Turn) /\ WF_vars(Tick)
  /\ \A c \in Client : WF_vars(Proceed(c))

-----------------------------------------------------------------------------
TypeOK ==
  /\ status \in {"down", "waitConnect", "waitHTTPRequest", "waitCommand", "waitData", "endConnect"}
  /\ conn \in Client \cup {NoClient}
  /\ conn = NoClient <=> status \in {"down", "waitConnect"}
  /\ backlog \in Seq(Client) /\ IsInjective(backlog)
  /\ handler \in Items \cup {NoHandler}
  /\ data \in Seq(Items)
  /\ pending \in [Client -> Seq(Items)]
  /\ phase \in [Client -> Phases]

(* The server's one state fits what its client waits for, and no client    *)
(* that was greeted is left for another: a client that may send a command  *)
(* is read by waitCommand, one that sends a text by waitData, with the     *)
(* handler of its own command.                                             *)
ServerFollowsItsClient ==
  \A c \in Client :
    /\ phase[c] \in {"ready", "asked"} => conn = c /\ status = "waitCommand"
    /\ phase[c] \in {"sending", "sent"} => conn = c /\ status = "waitData" /\ handler.from = c
    /\ phase[c] = "leaving" => conn = c /\ status \in {"waitCommand", "endConnect"}

(* "The handler is activate, so all lignes are added in buffer": the       *)
(* handler is given the lines its client sent since it was asked for them, *)
(* in order and nothing else, in whatever portions they came.              *)
HandlerGetsItsText ==
  [][handler # NoHandler /\ handler' = NoHandler /\ status' # "down" =>
       data = [n \in 1 .. lines[conn] |-> Item("line", conn, n)]]_vars

(* Whoever connects is served sooner or later, at whatever point of a      *)
(* second it was accepted, unless a client that is gone without QUIT keeps *)
(* the server.                                                             *)
EveryClientIsServed ==
  \A c \in Client :
    phase[c] = "waiting" ~>
      \/ phase[c] # "waiting"
      \/ status \in {"waitCommand", "waitData"} /\ phase[conn] = "gone"

(* "Enter configuration document, end with <CrLf>.<CrLf>": a client that   *)
(* did so gets its answer.                                                 *)
TextIsAnswered ==
  \A c \in Client : phase[c] = "sent" ~> phase[c] # "sent"
=============================================================================
