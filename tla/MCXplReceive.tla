---------------------------- MODULE MCXplReceive ----------------------------
(* A small instance of XplReceive for TLC: a configurable service a, a     *)
(* plain one b, and what a manager and a sensor may send them.             *)
EXTENDS XplReceive

CONSTANTS a, b, l1, l2, p, r, c

MCNumeral == [w \in {"0", "1", "2", "3", "5", "255"} |->
                CASE w = "0" -> 0 [] w = "1" -> 1 [] w = "2" -> 2 [] w = "3" -> 3
                  [] w = "5" -> 5 [] OTHER -> 255]
MCHex == {"0", "1", "2", "3", "5"}
MCUnclean == {"~"}
MCCut == (<<"bedrooms">> :> <<"bedroo">>) @@ (<<"xpl", "-", "group", ".", "g1">> :> <<"xpl", "-", "gr">>)
MCBuiltin == {<<"newconf">>, <<"interval">>, <<"filter">>, <<"group">>}
MCServices == <<a, b>>
MCVendor == <<"acme">>
MCDevice == [s \in {a, b} |-> IF s = a THEN <<"heat">> ELSE <<"lamp">>]
MCFirstName == [s \in {a, b} |-> IF s = a THEN <<"u1">> ELSE <<"den">>]
MCItems == <<[name |-> <<"mode">>, kind |-> "reconf", max |-> 1],
             [name |-> <<"list">>, kind |-> "option", max |-> 2]>>
MCTables == {<<"raw", NULL>>, <<"message", NULL>>, <<"service", a>>, <<"service", b>>, <<"changed", a>>}
MCListeners == [t \in MCTables |->
                  CASE t[1] = "raw" -> {r} [] t[1] = "message" -> {p}
                    [] t = Handlers(a) -> {l1, l2} [] t = Handlers(b) -> {l1} [] OTHER -> {c}]
MCFirst == [t \in MCTables |->
                  CASE t[1] = "raw" -> <<r>> [] t[1] = "message" -> <<p>>
                    [] t = Handlers(a) -> <<l1, l2>> [] t = Handlers(b) -> <<l1>> [] OTHER -> <<c>>]
MCTouched == {<<"list">>}
MCSelects == [l \in {l1, l2} |->
                IF l = l1 THEN [type |-> "any", class |-> NULL, schema |-> NULL]
                ELSE [type |-> "trigger", class |-> <<"sensor">>, schema |-> <<"basic">>]]
MCEffects == [t \in MCTables |->
                IF t = Handlers(a) THEN {"add", "remove itself", "send"} ELSE {}]

Named(device, instance) == [vendor |-> MCVendor, device |-> <<device>>, instance |-> instance]
All == [call |-> "broadcast", arg |-> TRUE]
Grp(g) == [call |-> "group", arg |-> <<g>>]
To(name) == [call |-> "target", arg |-> name]
Body(list) == [i \in DOMAIN list |-> Pair(list[i][1], list[i][2])]

Mail(type, source, calls, class, schema, body, own) ==
  [kind |-> "mail", type |-> type, source |-> source, calls |-> calls,
   class |-> <<class>>, schema |-> <<schema>>, body |-> body, own |-> own, hub |-> FALSE]
OverHub(mail) == [mail EXCEPT !.hub = TRUE]

Boss == Named("boss", <<"main">>)
Den == Named("lamp", <<"den">>)
Sensor(calls) ==
  Mail("trigger", Named("probe", <<"hall">>), calls, "sensor", "basic",
       Body(<<<<<<"temp">>, <<"2", "1">>>>, <<<<"unit">>, << >>>>>>), FALSE)
ToManaged(name, schema, body) ==
  Mail("command", Boss, <<To(Named("heat", name))>>, "config", schema, body, FALSE)
Asked == Body(<<<<<<"command">>, <<"request">>>>>>)
Beat(source, address, own) ==
  Mail("status", source, <<All>>, "hbeat", "app",
       Body(<<<<<<"port">>, <<"5">>>>, <<<<"remote-ip">>, address>>>>), own)

OldName == <<"u1">>
NewName == <<"n", "-", "1">>

MCMails ==
  {Sensor(<<All, To(Den)>>), Sensor(<<To(Den), Grp("g1")>>), Sensor(<<Grp("bedrooms")>>),
   OverHub(Sensor(<<Grp("g1")>>)), Sensor(<<To(Den), Grp("g1"), To(Den)>>),
   Mail("command", Boss, <<All>>, "hbeat", "request", << >>, FALSE),
   Beat(Named("heat", <<"u1">>), <<"ip1">>, TRUE), Beat(Boss, <<"ip2">>, FALSE),
   ToManaged(OldName, "response",
     Body(<<<<<<"newconf">>, NewName>>, <<<<"interval">>, <<"1">>>>,
            <<<<"filter">>, <<"xpltrig", ".", "*", ".", "probe", ".", "*", ".", "*", ".", "basic">>>>,
            <<<<"filter">>, <<"noise">>>>,
            <<<<"group">>, <<"xpl", "-", "group", ".", "g1">>>>,
            <<<<"mode">>, <<"v1">>>>, <<<<"list">>, <<"v1">>>>>>)),
   ToManaged(NewName, "response",
     Body(<<<<<<"newconf">>, << >>>>, <<<<"interval">>, <<"2">>>>,
            <<<<"group">>, <<"xpl", "-", "group", ".", "xpl", "-", "gr">>>>,
            <<<<"group">>, <<"xpl", "-", "group", ".", "bedrooms">>>>,
            <<<<"mode">>, <<"v1">>>>, <<<<"mode">>, <<"v2">>>>,
            <<<<"list">>, <<"v1">>>>, <<<<"list">>, <<"v2">>>>>>)),
   ToManaged(OldName, "list", Asked), ToManaged(NewName, "current", Asked),
   ToManaged(<< >>, "current", Asked)}

NoMessage(text) == [kind |-> "junk", text |-> text, own |-> FALSE]
Complete == Text(Built(Sensor(<<All>>)))
MCJunk ==
  {NoMessage(<<"noise">> \o Tail(Complete)), NoMessage(SubSeq(Complete, 1, Len(Complete) - 1)),
   NoMessage([Complete EXCEPT ![6] = "0"]),
   NoMessage(SubSeq(Complete, 1, ParseBlock(Complete).used)),
   NoMessage([Complete EXCEPT ![Len(Complete) - 8] = "!", ![Len(Complete) - 7] = "x"])}
MCOwnAddress == <<"ip1">>
MCOwnPort == <<"5">>
=============================================================================
