--------------------------- MODULE MCToolRequests ---------------------------
(* A small home, its rules, and the calls that come to it, for TLC. *)
EXTENDS ToolRequests, TLC

CONSTANTS r1, r2, right, wrong

\* A part of the mock home (home_assistant.py:162-174).
Home == <<
    [id |-> "light.living_room", name |-> "living room lamp", domain |-> "light",
     state |-> "off", level |-> 200],
    [id |-> "lock.front_door", name |-> "front door", domain |-> "lock",
     state |-> "locked", level |-> 0],
    [id |-> "climate.thermostat", name |-> "thermostat", domain |-> "climate",
     state |-> "heat", level |-> 70]>>

\* "r" is in all of them, "room" in one, "attic" in none.
Parts ==
    [w \in {"r", "room", "attic"} \cup UNION {{Home[i].id, Home[i].name} : i \in 1..3} |->
        CASE w = "r" -> {Home[i].id : i \in 1..3}
          [] w = "room" -> {Home[1].id}
          [] w = "attic" -> {}
          [] OTHER -> {Home[i].id : i \in {j \in 1..3 : w \in {Home[j].id, Home[j].name}}}]

OneCall(via, action, args, content) ==
    [via |-> via, action |-> action, args |-> args, extra |-> NoExtra, content |-> content,
     query |-> None, header |-> None]

DeviceCalls ==
    {OneCall("agent", "control_device", [device |-> "r", action |-> "on"], None),
     OneCall("agent", "control_device", [device |-> "front door", action |-> "on"], None),
     OneCall("signed", "control_device", [device |-> "room", action |-> "toggle"], None),
     [OneCall("http", "control_device", [device |-> "light.living_room", action |-> "on"], None)
        EXCEPT !.extra = [brightness |-> 300]],
     [OneCall("http", "control_device",
              [device |-> "thermostat", action |-> "set_temperature"], None)
        EXCEPT !.extra = [temperature |-> 72]],
     [OneCall("mcp", "control_device",
              [entity |-> "lock.front_door", command |-> "unlock"], None)
        EXCEPT !.query = right],
     [OneCall("mcp", "control_device",
              [entity |-> "lock.front_door", command |-> "unlock"], None)
        EXCEPT !.query = wrong, !.header = right]}

Purchases ==
    {OneCall("agent", "make_purchase", [amount |-> 20], None),
     OneCall("signed", "make_purchase", [amount |-> 60, price |-> 20], None),
     OneCall("signed", "make_purchase", [amount |-> Junk, price |-> 60], None),
     OneCall("signed", "make_purchase", [amount |-> NaN, price |-> 60], None),
     [OneCall("mcp", "make_purchase", [amount |-> 60], None) EXCEPT !.header = right]}

Messages ==
    {OneCall("agent", "send_message", [recipient |-> "boss"], None),
     [OneCall("mcp", "send_message", [recipient |-> "friend"], {"pattern"})
        EXCEPT !.header = right],
     OneCall("agent", "send_email", [to |-> "friend"], None),
     OneCall("agent", "reply_to_email", [email_id |-> "m1"], {"hidden_unicode"}),
     OneCall("agent", "read_inbox", [limit |-> 0], None),
     OneCall("agent", "read_inbox", [limit |-> 3], None),
     OneCall("signed", "unlock_everything", [device |-> "front door"], None)}

SomeCalls == DeviceCalls \cup Purchases \cup Messages

\* policy._DEFAULTS
Defaults == <<
    [type |-> "spend_limit", max_amount |-> 50, max_per_day |-> None],
    [type |-> "time_window", start_hour |-> 23, end_hour |-> 6],
    [type |-> "recipient_block", recipient |-> "all_contacts"]>>

DefaultsOnly == {Defaults}

\* The defaults; rules of which a milder one follows a stricter one.
SomeRules == {
    Defaults,
    << [type |-> "action_deny", action |-> "make_purchase"],
       [type |-> "action_deny", action |-> "control_device"],
       [type |-> "spend_limit", max_amount |-> None, max_per_day |-> 30],
       [type |-> "time_window", start_hour |-> 9, end_hour |-> 17],
       [type |-> "recipient_block", recipient |-> "boss"] >>,
    << [type |-> "spend_limit", max_amount |-> 50, max_per_day |-> 30],
       [type |-> "recipient_block", recipient |-> "boss"] >>}

SomeInboxes == {<<>>, <<{"pattern"}, {}, {}>>, <<{}, {}, {}>>}

RequestSymmetry == Permutations(Requests)
=============================================================================
