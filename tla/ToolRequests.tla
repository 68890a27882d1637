---------------------------- MODULE ToolRequests ----------------------------
(***************************************************************************)
(* A guarded request from the call to its effect: the entry points (the    *)
(* chat agent's tools, the MCP server, POST /devices/control and           *)
(* POST /agent/act), the scan of what influenced it (provenance.py), the   *)
(* rules that judge it (policy._local_evaluate), its risk score (risk.py), *)
(* the owner's answer, and the handler that runs (agent._register_executor *)
(* and home_assistant.control on the mock home).                           *)
(*                                                                         *)
(* ConsentGate has the gate's failures and races, PolicyEngine changing    *)
(* rules, MailClient the mails: here the rules and the mode stay, and an   *)
(* effect and its ledger entry are one step.  Text is abstracted to what   *)
(* the scanner and the matching of names tell apart.                       *)
(***************************************************************************)
EXTENDS Integers, Sequences, FiniteSets, SequencesExt

CONSTANTS
    Requests,   \* threads, each with one request
    Calls,      \* what may be asked: records [via, action, args, extra, content, query, header]
    RuleLists,  \* rules that may be in force, in the order of their ids
    Modes,      \* policy modes
    Hours,      \* hours of one day at which the clock is read
    Devices,    \* the devices in their order: records [id, name, domain, state, level]
    Within,     \* [words -> ids of the devices whose id or name contains them]
    Inboxes,    \* what may be in the inbox: sequences of the signals in each mail
    MaxLines,   \* _INBOX_CONTENT_CAP, in lines
    McpToken,   \* ORA_MCP_TOKEN (None: not set)
    Junk,       \* an amount that float() refuses
    NaN,        \* one that it takes and that is not a number
    None        \* no call, no device, no token, no content

\* Rows of the policies table, kinds of signals, and what a request may have.
RuleTypes == {"spend_limit", "time_window", "action_deny", "recipient_block"}
Signals == {"pattern", "hidden_unicode", "oversized"}
Vias == {"agent", "mcp", "http", "signed"}
MailActions == {"send_email", "reply_to_email"}
Statuses == {"idle", "asked", "cleared", "executed", "held", "denied", "raised"}
Answers == {"nothing", "done", "held", "blocked", "unavailable", "error"}

\* What the tools of the agent and of the MCP server must be given.
Needed ==
    [agent |-> [control_device |-> {"device", "action"}, make_purchase |-> {"amount"},
                send_message |-> {"recipient"}, send_email |-> {"to"},
                reply_to_email |-> {"email_id"}, read_inbox |-> {"limit"}],
     mcp |-> [control_device |-> {"entity", "command"}, make_purchase |-> {"amount"},
              send_message |-> {"recipient"}]]

\* The arguments of a call through a tool or the page have fixed keys, those of a signed call
\* any.  The amounts of a rule are what add_policy was given, below zero too.
ASSUME ToolAssumption ==
    /\ \A c \in Calls :
          /\ c.via \in Vias /\ (c.content = None \/ c.content \subseteq Signals)
          /\ \A k \in DOMAIN c.args \cap {"amount", "cost", "price", "total"} :
                c.args[k] \in Int \cup {NaN, Junk}
          /\ \A k \in DOMAIN c.extra : c.extra[k] \in Int
          /\ c.via = "http" =>
                c.action = "control_device" /\ {"device", "action"} \subseteq DOMAIN c.args
          /\ c.via \in DOMAIN Needed =>
                c.action \in DOMAIN Needed[c.via] /\ DOMAIN c.args = Needed[c.via][c.action]
          /\ c.via \in DOMAIN Needed /\ c.action = "make_purchase" => c.args.amount # Junk
          /\ c.action = "control_device" =>
                \A k \in DOMAIN c.args \cap {"device", "entity"} :
                    c.args[k] \in DOMAIN Within \cup {""}
          /\ c.action = "read_inbox" /\ c.via = "agent" => c.args.limit \in Int
    /\ \A l \in RuleLists :
          /\ l \in Seq(Range(l))
          /\ \A i \in DOMAIN l :
                /\ l[i].type \in RuleTypes
                /\ l[i].type = "spend_limit" =>
                      {l[i].max_amount, l[i].max_per_day} \subseteq Int \cup {None}
    /\ Hours \subseteq 0..23
    /\ None \notin Calls /\ {None, Junk, NaN} \cap Int = {} /\ Junk # NaN
    /\ Devices \in Seq(Range(Devices))
    /\ \A i \in DOMAIN Devices : Devices[i].level \in 0..255
    /\ \A i, j \in DOMAIN Devices : Devices[i].id = Devices[j].id => i = j
    /\ \A w \in DOMAIN Within : Within[w] \subseteq {Devices[i].id : i \in DOMAIN Devices}
    /\ Inboxes \subseteq Seq(SUBSET Signals)
    /\ MaxLines \in Nat \ {0, 1}

VARIABLES
    rules,     \* the rules in force, by id
    mode,      \* the policy mode
    hour,      \* the local hour
    house,     \* the mock home: [state, level] of each device
    call,      \* what each request asks
    scanned,   \* the content the gate is given with it (None: no sources)
    status,    \* how far request_action is, or what it has returned
    verdict,   \* [decision, why, hour, spent] of the evaluation
    score,     \* its risk score
    approval,  \* "none", "pending", or how the owner's answer ended
    ran,       \* history: effects the request has had
    told,      \* what the caller has been told
    shown      \* what read_inbox has returned: its lines, and the signals that were in
               \* the mails

request == <<call, scanned, status, verdict, score, approval>>
settings == <<rules, mode>>
vars == <<settings, hour, house, request, ran, told, shown>>

DeviceSet == {Devices[i] : i \in DOMAIN Devices}
Ids == {d.id : d \in DeviceSet}
Device(id) == CHOOSE d \in DeviceSet : d.id = id

NoVerdict == [decision |-> "none", why |-> 0, hour |-> 0, spent |-> 0]
NoInbox == [lines |-> <<>>, signals |-> {}]

TypeOK ==
    /\ rules \in RuleLists /\ mode \in Modes /\ hour \in Hours
    /\ \A d \in Ids :
          /\ house[d].level \in Int
          /\ Device(d).domain # "climate" => house[d].level \in 0..255
    /\ call \in [Requests -> Calls \cup {None}]
    /\ \A r \in Requests : scanned[r] = None \/ scanned[r] \subseteq Signals
    /\ status \in [Requests -> Statuses]
    /\ \A r \in Requests : verdict[r].decision \in {"none", "allow", "hold", "deny"}
    /\ score \in [Requests -> 0..100]
    /\ approval \in [Requests -> {"none", "pending", "executed", "refused", "error"}]
    /\ \A r \in Requests : Len(ran[r]) <= 1
    /\ told \in [Requests -> Answers]
    /\ \A r \in Requests : Len(shown[r].lines) <= MaxLines + 1

Init ==
    /\ rules \in RuleLists /\ mode \in Modes /\ hour \in Hours
    /\ house = [d \in Ids |-> [state |-> Device(d).state, level |-> Device(d).level]]
    /\ call = [r \in Requests |-> None]
    /\ scanned = [r \in Requests |-> None]
    /\ status = [r \in Requests |-> "idle"]
    /\ verdict = [r \in Requests |-> NoVerdict]
    /\ score = [r \in Requests |-> 0]
    /\ approval = [r \in Requests |-> "none"]
    /\ ran = [r \in Requests |-> <<>>]
    /\ told = [r \in Requests |-> "nothing"]
    /\ shown = [r \in Requests |-> NoInbox]

----------------------------------------------------------------------------
(* Arguments *)

Value(args, key, default) == IF key \in DOMAIN args THEN args[key] ELSE default

\* float(), or 0 where that raises.
Number(v) == IF v = Junk THEN 0 ELSE v

AmountKeys == <<"amount", "cost", "price", "total">>

\* Mutant: the keys are tried from the last to the first.
AmountLast(args) ==
    LET given == {i \in DOMAIN AmountKeys : AmountKeys[i] \in DOMAIN args} IN
    IF given = {} THEN 0 ELSE Number(args[AmountKeys[Max(given)]])

\* policy._amount: the first key that is there, 0 if it has no number.
Amount(args) ==
    LET given == {i \in DOMAIN AmountKeys : AmountKeys[i] \in DOMAIN args} IN
    IF given = {} THEN 0 ELSE Number(args[AmountKeys[Min(given)]])

\* No comparison with NaN is true.
Exceeds(amount, cap) == amount # NaN /\ amount > cap

\* risk.score: the first key that has a number, be it NaN.
Exposure(args) ==
    LET given == {i \in DOMAIN AmountKeys :
                    AmountKeys[i] \in DOMAIN args /\ args[AmountKeys[i]] # Junk} IN
    IF given = {} THEN 0 ELSE args[AmountKeys[Min(given)]]

----------------------------------------------------------------------------
(* provenance.py *)

\* scan: every rule that matches gives a signal; an empty text none.
Scan(text) == IF text = None THEN {} ELSE text

\* scan_sources: the signals of all sources; suspicious if there is one.
ScanSources(sources) == UNION {Scan(sources[i]) : i \in DOMAIN sources}

Suspicious(content) == ScanSources(<<content>>) # {}

----------------------------------------------------------------------------
(* policy._local_evaluate *)

Severity == [allow |-> 0, hold |-> 1, deny |-> 2]

\* A window that ends before it starts goes over midnight.
InWindow(start, end, now) ==
    IF start <= end THEN start <= now /\ now < end ELSE now >= start \/ now < end

\* ledger.sum_today: what executed entries of purchases say under "amount"; what is no number
\* counts nothing.
Summed(v) == IF v \in {Junk, NaN} THEN 0 ELSE v

Spent ==
    LET counted == {r \in Requests : /\ status[r] = "executed"
                                     /\ call[r].action = "make_purchase"
                                     /\ "amount" \in DOMAIN call[r].args} IN
    FoldFunctionOnSet(LAMBDA amount, sum : Summed(amount) + sum, 0,
                      [r \in counted |-> call[r].args.amount], counted)

\* The verdict of one rule at an hour, with the day's spending so far.  Words that block a
\* recipient are the recipient's whole name here.
OneRule(rule, action, args, now, spent) ==
    CASE /\ rule.type = "spend_limit" /\ action = "make_purchase"
         /\ \/ rule.max_amount # None /\ Exceeds(Amount(args), rule.max_amount)
            \/ rule.max_per_day # None /\ Exceeds(Amount(args), rule.max_per_day - spent)
         -> "hold"
      [] /\ rule.type = "time_window" /\ action \in {"make_purchase", "control_device"}
         /\ InWindow(rule.start_hour, rule.end_hour, now) -> "hold"
      [] rule.type = "action_deny" /\ action = rule.action -> "deny"
      [] /\ rule.type = "recipient_block" /\ action = "send_message"
         /\ rule.recipient \in {"all_contacts", Value(args, "recipient", "")} -> "hold"
      [] OTHER -> "allow"

\* Mutant: the last rule that has a verdict decides.
LastWins(best, next) == IF next.decision = "allow" THEN best ELSE next

\* A verdict replaces a milder one.
Stricter(best, next) == IF Severity[next.decision] > Severity[best.decision] THEN next ELSE best

\* The loop over the rules, at an hour, with what the day has cost so far.
Evaluate(action, args, now, spent) ==
    LET best[i \in 0..Len(rules)] ==
            IF i = 0 THEN [decision |-> "allow", why |-> 0]
            ELSE Stricter(best[i - 1],
                          [decision |-> OneRule(rules[i], action, args, now, spent), why |-> i])
    IN  best[Len(rules)]

----------------------------------------------------------------------------
(* risk.score *)

Category(action) ==
    CASE action = "make_purchase" -> "financial"
      [] action = "control_device" -> "home_control"
      [] action \in {"send_message"} \cup MailActions -> "communication"
      [] OTHER -> "other"

Base == [financial |-> 60, home_control |-> 45, communication |-> 40, other |-> 15]

Reaction(decision) == CASE decision = "deny" -> 20 [] decision = "hold" -> 10 [] OTHER -> 0

\* Of NaN, min() and max() make a score of 0.
Score(action, args, decision) ==
    IF action = "make_purchase" /\ Exposure(args) = NaN THEN 0
    ELSE Max({0, Min({100, Base[Category(action)] + Reaction(decision)
                           + (IF action = "make_purchase" THEN Min({Exposure(args) \div 20, 40})
                              ELSE 0)})})

----------------------------------------------------------------------------
(* home_assistant.control *)

\* Mutant: the first device that contains the words will do.
MatchEntityFirst(words) ==
    LET exact == {d \in Ids : d = words}
        named == {i \in DOMAIN Devices : Devices[i].name = words}
        partly == {i \in DOMAIN Devices : Devices[i].id \in Within[words]} IN
    CASE words = "" -> None
      [] words # "" /\ exact # {} -> words
      [] words # "" /\ exact = {} /\ named # {} -> Devices[Max(named)].id
      [] words # "" /\ exact = {} /\ named = {} /\ partly # {} -> Devices[Min(partly)].id
      [] OTHER -> None

\* An exact id, else the last device of that name, else the only one with the words in it.
MatchEntity(words) ==
    LET exact == {d \in Ids : d = words}
        named == {i \in DOMAIN Devices : Devices[i].name = words} IN
    CASE words = "" -> None
      [] words # "" /\ exact # {} -> words
      [] words # "" /\ exact = {} /\ named # {} -> Devices[Max(named)].id
      [] words # "" /\ exact = {} /\ named = {} /\ Cardinality(Within[words]) = 1 ->
            CHOOSE d \in Within[words] : TRUE
      [] OTHER -> None

Generic == [on |-> "turn_on", off |-> "turn_off", toggle |-> "toggle"]
ByDomain ==
    [lock |-> [lock |-> "lock", unlock |-> "unlock", on |-> "lock", off |-> "unlock"],
     cover |-> [open |-> "open_cover", close |-> "close_cover", on |-> "open_cover",
                off |-> "close_cover"],
     climate |-> [set_temperature |-> "set_temperature", heat |-> "set_hvac_mode",
                  cool |-> "set_hvac_mode", auto |-> "set_hvac_mode", off |-> "turn_off"]]

\* _service_for: the domain's own word for a command, else the generic one.
ServiceFor(domain, command) ==
    IF domain \in DOMAIN ByDomain /\ command \in DOMAIN ByDomain[domain]
    THEN ByDomain[domain][command]
    ELSE Value(Generic, command, "nothing")

ResultState ==
    [turn_on |-> "on", turn_off |-> "off", lock |-> "locked", unlock |-> "unlocked",
     open_cover |-> "open", close_cover |-> "closed", set_temperature |-> "updated"]

\* What a call of control comes to: no device, no service for it, or a service call.
Control(words, command, extra) ==
    LET on == MatchEntity(words) IN
    [kind |-> "control_device", on |-> on, cost |-> 0, extra |-> extra,
     does |-> IF on = None THEN "nothing" ELSE ServiceFor(Device(on).domain, command)]

\* _MockHome.control
Toggled(state) == IF state = "on" THEN "off" ELSE "on"

After(device, effect) ==
    [state |-> IF effect.does = "toggle" THEN Toggled(device.state)
               ELSE Value(ResultState, effect.does, device.state),
     level |-> CASE effect.does = "turn_on" -> Value(effect.extra, "brightness", device.level)
                 [] effect.does = "set_temperature" ->
                        Value(effect.extra, "temperature", device.level)
                 [] OTHER -> device.level]

HouseAfter(effect) ==
    IF effect.kind = "control_device" /\ effect.does # "nothing"
    THEN [house EXCEPT ![effect.on] = After(@, effect)]
    ELSE house

----------------------------------------------------------------------------
(* Handlers *)

NoExtra == <<>>
Raises == [kind |-> "raises", on |-> None, does |-> "nothing", cost |-> 0, extra |-> NoExtra]
Effect(kind, does, on, cost) ==
    [kind |-> kind, on |-> on, does |-> does, cost |-> cost, extra |-> NoExtra]

\* agent._register_executor: what runs on approval, and for a signed request.
Executor(action, args) ==
    CASE action = "control_device" ->
            Control(Value(args, "device", ""), Value(args, "action", ""), NoExtra)
      [] action = "make_purchase" ->
            IF Value(args, "amount", 0) = Junk THEN Raises
            ELSE Effect(action, "order", None, Value(args, "amount", 0))
      [] action = "send_message" ->
            Effect(action, "send", Value(args, "recipient", "someone"), 0)
      [] action = "send_email" -> Effect(action, "send", Value(args, "to", ""), 0)
      [] action = "reply_to_email" -> Effect(action, "send", Value(args, "email_id", ""), 0)
      [] OTHER -> Raises

\* What the agent's tools give the gate to execute.
AgentTool(c) ==
    CASE c.action = "control_device" -> Control(c.args.device, c.args.action, NoExtra)
      [] c.action = "make_purchase" -> Effect(c.action, "order", None, c.args.amount)
      [] c.action = "send_message" -> Effect(c.action, "send", c.args.recipient, 0)
      [] c.action = "send_email" -> Effect(c.action, "send", c.args.to, 0)
      [] c.action = "reply_to_email" -> Effect(c.action, "send", c.args.email_id, 0)
      [] OTHER -> Raises

\* And those of the MCP server, which queue what the others order or send.
McpTool(c) ==
    CASE c.action = "control_device" -> Control(c.args.entity, c.args.command, NoExtra)
      [] c.action = "make_purchase" -> Effect(c.action, "queue", None, c.args.amount)
      [] c.action = "send_message" -> Effect(c.action, "queue", c.args.recipient, 0)
      [] OTHER -> Raises

\* Mutant: the brightness is taken as it is.
ClampedNot(extra) == extra

\* DeviceControlRequest: the brightness is kept in its range.
Clamped(extra) ==
    [k \in DOMAIN extra |-> IF k = "brightness" THEN Max({0, Min({255, extra[k]})}) ELSE extra[k]]

\* The `execute` that each entry point gives the gate.
Direct(c) ==
    CASE c.via = "agent" -> AgentTool(c)
      [] c.via = "mcp" -> McpTool(c)
      [] c.via = "http" -> Control(c.args.device, c.args.action, Clamped(c.extra))
      [] c.via = "signed" -> Executor(c.action, c.args)

----------------------------------------------------------------------------
(* Entry points *)

\* _TokenGuard: the token of the query, else of the header, is the configured one.
Admitted(c) ==
    McpToken = None \/ McpToken = (IF c.query # None THEN c.query ELSE c.header)

ReadsInbox(c) == c.via = "agent" /\ c.action = "read_inbox"

\* A call arrives, with the content its entry point hands over.
Arrive(r, c, content) ==
    /\ status[r] = "idle"
    /\ call' = [call EXCEPT ![r] = c]
    /\ scanned' = [scanned EXCEPT ![r] = content]
    /\ status' = [status EXCEPT ![r] = "asked"]
    /\ UNCHANGED <<settings, hour, house, verdict, score, approval, ran, told, shown>>

Given(c) == {c.content}

\* A reply is asked for with a preview of the mail it answers, unless fetching that fails.
Previewed(c) == {c.content} \cup (IF c.action = "reply_to_email" THEN {None} ELSE {})

Through(via) == {c \in Calls : c.via = via}

AskTool(r) == \E c \in Through("agent") : \E content \in Previewed(c) : Arrive(r, c, content)
AskMcp(r) ==
    \E c \in Through("mcp") : Admitted(c) /\ \E content \in Given(c) : Arrive(r, c, content)
AskPage(r) == \E c \in Through("http") : \E content \in Given(c) : Arrive(r, c, content)
\* A request whose signature has been verified (AgentRequests).
AskSigned(r) == \E c \in Through("signed") : \E content \in Given(c) : Arrive(r, c, content)

----------------------------------------------------------------------------
(* The gate *)

OverLimit == [decision |-> "hold", why |-> -1]
Flagged == [decision |-> "hold", why |-> -2]

\* Mutant: the rules' verdict stands, whatever the content has been flagged for.
DecideUnflagged(r, tripped) ==
    IF tripped THEN OverLimit ELSE Evaluate(call[r].action, call[r].args, hour, Spent)

\* Limits first, then the rules; flagged content is not allowed.
Decide(r, tripped) ==
    LET judged == IF tripped THEN OverLimit
                  ELSE Evaluate(call[r].action, call[r].args, hour, Spent) IN
    IF Suspicious(scanned[r]) /\ judged.decision = "allow" THEN Flagged ELSE judged

\* request_action up to its effect; a held call becomes an approval.
Judge(r) ==
    /\ status[r] = "asked" /\ ~ReadsInbox(call[r])
    /\ \E tripped \in BOOLEAN : LET v == Decide(r, tripped) IN
        /\ verdict' = [verdict EXCEPT ![r] = [decision |-> v.decision, why |-> v.why,
                                              hour |-> hour, spent |-> Spent]]
        /\ score' = [score EXCEPT ![r] = Score(call[r].action, call[r].args, v.decision)]
        /\ status' = [status EXCEPT ![r] =
                CASE mode # "enforced" \/ v.decision = "allow" -> "cleared"
                  [] mode = "enforced" /\ v.decision = "hold" -> "held"
                  [] mode = "enforced" /\ v.decision = "deny" -> "denied"]
        /\ approval' = [approval EXCEPT ![r] =
                IF mode = "enforced" /\ v.decision = "hold" THEN "pending" ELSE "none"]
    /\ UNCHANGED <<settings, hour, house, call, scanned, ran, told, shown>>

\* A NaN that the ledger holds as JSON is not JSON to every version of SQLite: where it is not,
\* the day's sum raises.
SumRaises(r) ==
    /\ status[r] = "asked" /\ call[r].action = "make_purchase"
    /\ \E i \in DOMAIN rules : rules[i].type = "spend_limit" /\ rules[i].max_per_day # None
    /\ \E q \in Requests : /\ status[q] = "executed" /\ call[q].action = "make_purchase"
                           /\ Value(call[q].args, "amount", 0) = NaN
    /\ status' = [status EXCEPT ![r] = "raised"]
    /\ UNCHANGED <<settings, hour, house, call, scanned, verdict, score, approval, ran, told,
                   shown>>

\* A handler may have its effect and return; one of a mail, and one that is not there, may
\* raise instead, and one of a mail after its effect as well: the answer is lost.
Happens(r, effect) ==
    /\ effect.kind # "raises"
    /\ ran' = [ran EXCEPT ![r] = Append(@, effect)]
    /\ house' = HouseAfter(effect)

MayRaise(effect) == effect.kind \in {"raises"} \cup MailActions

RaisesOver(r, effect) ==
    /\ MayRaise(effect)
    /\ Happens(r, effect) \/ UNCHANGED <<ran, house>>

\* request_action runs `execute` and writes the entry.
Run(r) ==
    /\ status[r] = "cleared"
    /\ \/ /\ Happens(r, Direct(call[r]))
          /\ status' = [status EXCEPT ![r] = "executed"]
       \/ /\ RaisesOver(r, Direct(call[r]))
          /\ status' = [status EXCEPT ![r] = "raised"]
    /\ UNCHANGED <<settings, hour, call, scanned, verdict, score, approval, told, shown>>

\* Mutant: the arguments are lost on the way.
ApproveBare(r) ==
    /\ approval[r] = "pending"
    /\ LET effect == Executor(call[r].action, NoExtra) IN
       \/ /\ Happens(r, effect)
          /\ approval' = [approval EXCEPT ![r] = "executed"]
       \/ /\ RaisesOver(r, effect)
          /\ approval' = [approval EXCEPT ![r] = "error"]
    /\ UNCHANGED <<settings, hour, call, scanned, status, verdict, score, told, shown>>

\* POST /approvals/{id}/resolve: the executor runs what has been stored.
Approve(r) ==
    /\ approval[r] = "pending"
    /\ LET effect == Executor(call[r].action, call[r].args) IN
       \/ /\ Happens(r, effect)
          /\ approval' = [approval EXCEPT ![r] = "executed"]
       \/ /\ RaisesOver(r, effect)
          /\ approval' = [approval EXCEPT ![r] = "error"]
    /\ UNCHANGED <<settings, hour, call, scanned, status, verdict, score, told, shown>>

Refuse(r) ==
    /\ approval[r] = "pending"
    /\ approval' = [approval EXCEPT ![r] = "refused"]
    /\ UNCHANGED <<settings, hour, house, call, scanned, status, verdict, score, ran, told,
                   shown>>

\* Mutant: what is not denied is told as done.
ToolMessageUnheld(r) ==
    CASE status[r] \in {"executed", "held"} -> "done"
      [] status[r] = "denied" -> "blocked"
      [] OTHER -> "error"

\* What a tool tells the agent; mail that is not available is no error.
ToolMessage(r) ==
    CASE status[r] = "executed" -> "done"
      [] status[r] = "held" -> "held"
      [] status[r] = "denied" -> "blocked"
      [] status[r] = "raised" -> IF call[r].action \in MailActions THEN "unavailable" ELSE "error"

\* The page, and an external agent.
RouteMessage(r) ==
    CASE status[r] = "executed" -> "done"
      [] status[r] = "held" -> "held"
      [] status[r] = "denied" -> "blocked"
      [] status[r] = "raised" -> "error"

\* Every guarded tool of the MCP server ends in a call of _gate_message, which nothing
\* defines: its client is told of an error, whatever has happened.
McpMessage(r) == "error"

Message(r) ==
    CASE call[r].via = "agent" -> ToolMessage(r)
      [] call[r].via = "mcp" -> McpMessage(r)
      [] call[r].via \in {"http", "signed"} -> RouteMessage(r)

Tell(r) ==
    /\ status[r] \in {"executed", "held", "denied", "raised"} /\ told[r] = "nothing"
    /\ ~ReadsInbox(call[r])
    /\ told' = [told EXCEPT ![r] = Message(r)]
    /\ UNCHANGED <<settings, hour, house, request, ran, shown>>

----------------------------------------------------------------------------
(* read_inbox *)

Warning == "warning"
Mail == "mail"

Lines(mails) == <<"head">> \o [i \in DOMAIN mails |-> Mail]

\* Mutant: the warning is the last line.
WarnedLast(mails) ==
    IF ScanSources(mails) # {} THEN Append(Lines(mails), Warning) ELSE Lines(mails)

\* The warning goes in after the first line.
Warned(mails) ==
    IF ScanSources(mails) # {} THEN InsertAt(Lines(mails), 2, Warning) ELSE Lines(mails)

Truncated(lines) ==
    IF Len(lines) > MaxLines THEN Append(SubSeq(lines, 1, MaxLines), "truncated") ELSE lines

\* At most `limit` mails, kept between 1 and 50, are scanned, shown and noted in the ledger.
ReadInbox(r) ==
    /\ status[r] = "asked" /\ ReadsInbox(call[r])
    /\ \E inbox \in Inboxes :
        LET mails == SubSeq(inbox, 1, Min({Len(inbox), Max({1, Min({call[r].args.limit, 50})})}))
        IN  shown' = [shown EXCEPT ![r] =
                [lines |-> IF mails = <<>> THEN <<"empty">> ELSE Truncated(Warned(mails)),
                 signals |-> UNION {Scan(mails[i]) : i \in DOMAIN mails}]]
    /\ status' = [status EXCEPT ![r] = "executed"]
    /\ UNCHANGED <<settings, hour, house, call, scanned, verdict, score, approval, ran, told>>

\* The clock goes on within the day.
Tick ==
    /\ \E h \in Hours : h > hour /\ hour' = h
    /\ UNCHANGED <<settings, house, request, ran, told, shown>>

Next ==
    \/ \E r \in Requests :
          \/ AskTool(r) \/ AskMcp(r) \/ AskPage(r) \/ AskSigned(r)
          \/ Judge(r) \/ SumRaises(r) \/ Run(r) \/ Tell(r)
          \/ Approve(r) \/ Refuse(r) \/ ReadInbox(r)
    \/ Tick

Spec == Init /\ [][Next]_vars

----------------------------------------------------------------------------
(* Properties *)

Judged(r) == verdict[r].decision # "none"
ByOwner(r) == approval[r] \in {"executed", "error"}

\* What content with an injection signal has led to happens, under enforcement, only when
\* the owner approves it (consent.py:253-255, provenance.py:120-189).
FlaggedWaitsForOwner ==
    \A r \in Requests :
        mode = "enforced" /\ Suspicious(scanned[r]) /\ ran[r] # <<>> => ByOwner(r)

\* Whatever the order of the rules, the decision is the strictest verdict of any of them,
\* and the reason given is the first rule with that verdict (policy.py:231-272).
StrictestRuleDecides ==
    \A r \in Requests : Judged(r) /\ verdict[r].why # OverLimit.why =>
        LET v == verdict[r]
            of(i) == OneRule(rules[i], call[r].action, call[r].args, v.hour, v.spent) IN
        IF v.why > 0
        THEN /\ of(v.why) = v.decision /\ v.decision # "allow"
             /\ \A i \in DOMAIN rules :
                  IF i < v.why THEN Severity[of(i)] < Severity[v.decision]
                               ELSE Severity[of(i)] <= Severity[v.decision]
        ELSE \A i \in DOMAIN rules : of(i) = "allow"

\* A purchase that happens without the owner, under enforcement, costs no more than any limit
\* per purchase in force: what was judged is what is paid, whichever of the keys
\* for an amount the arguments have.  The one exception is an amount that is not a number,
\* which no limit holds (policy.py:214-221, 238-243, agent.py:91-95).
PurchasesStayInLimits ==
    \A r \in Requests :
        mode = "enforced" /\ ran[r] # <<>> /\ ~ByOwner(r) /\ ran[r][1].cost # NaN =>
            \A i \in DOMAIN rules :
                rules[i].type = "spend_limit" /\ rules[i].max_amount # None =>
                    ran[r][1].cost <= rules[i].max_amount

\* An approved request does what it would have done had it been allowed, and nothing else,
\* but for three entry points whose handlers and the executor differ: a device command of
\* the MCP server does nothing, a purchase or message of its is ordered or sent where it would
\* have been queued, and a device command of the page loses its brightness and temperature
\* (agent.py:84-110, mcp_server.py:78-127, main.py:653-667, home_tools.py:28,
\* purchase_tools.py:21, message_tools.py:23, 57, 107).
ApprovalRunsWhatWasHeld ==
    \A r \in Requests : ByOwner(r) /\ ran[r] # <<>> =>
        LET did == ran[r][1]
            due == Direct(call[r]) IN
        \/ did = due
        \/ /\ call[r].via = "mcp" /\ call[r].action = "control_device"
           /\ did.on = None /\ did.does = "nothing"
        \/ /\ call[r].via = "mcp" /\ due.does = "queue"
           /\ did = [due EXCEPT !.does = IF call[r].action = "make_purchase" THEN "order"
                                         ELSE "send"]
        \/ call[r].via = "http" /\ did = [due EXCEPT !.extra = NoExtra]

\* Who is told that a request is done, held or blocked is told the truth: it has run without
\* the owner, or waits and has run only if he approved it, or has not happened.  Who is told
\* that mail is unavailable knows nothing: it may have been sent (home_tools.py:31-43,
\* message_tools.py:31-39, 67-77, main.py:669-674, atomicmail_client.py:265-277).
AnswersAreTrue ==
    \A r \in Requests :
        /\ told[r] = "done" => ran[r] # <<>> /\ ~ByOwner(r)
        /\ told[r] = "held" => approval[r] # "none" /\ (ran[r] # <<>> => ByOwner(r))
        /\ told[r] = "blocked" => ran[r] = <<>>

\* If any mail that was read had a signal, the agent sees the warning in what is left of
\* the list (message_tools.py:156-178).
InboxWarningIsSeen ==
    \A r \in Requests :
        LET inbox == shown[r] IN
        inbox.signals # {} => \E i \in DOMAIN inbox.lines : inbox.lines[i] = Warning

\* How well words fit a device: its id, its name, a part of either, or not at all.
Fit(words, d) ==
    CASE words = d -> 3
      [] words # d /\ words = Device(d).name -> 2
      [] words # d /\ words # Device(d).name /\ words # "" /\ d \in Within[words] -> 1
      [] OTHER -> 0

Words(c) == Value(c.args, IF c.via = "mcp" THEN "entity" ELSE "device", "")

\* A device changes only by a request that names it better than any other device and that has
\* been let through by the rules, the mode or the owner (home_assistant.py:84-108, 308-331).
OnlyNamedDevicesMove ==
    [][\A d \in Ids : house'[d] # house[d] =>
          \E r \in Requests :
            /\ ran'[r] # ran[r] /\ call[r].action = "control_device"
            /\ \A e \in Ids \ {d} : Fit(Words(call[r]), d) > Fit(Words(call[r]), e)
            /\ mode = "enforced" => verdict[r].decision = "allow" \/ approval'[r] = "executed"
      ]_vars

----------------------------------------------------------------------------
(* What the documentation says and the code does not do *)

\* "By default, every outgoing email is held for your approval" (src/README.md:244): under
\* the default rules, enforced, a mail that has left has been approved.
EveryMailIsHeld ==
    \A r \in Requests :
        ran[r] # <<>> /\ ran[r][1].kind \in MailActions => ByOwner(r)
=============================================================================
