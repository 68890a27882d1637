# Domestic Oracle in TLA+

Domestic Oracle is a home agent whose every effect on the world (a device, a
purchase, a message) passes a *consent gate*, is judged by the owner's rules and
by limits, and is recorded in a signed, hash-chained *ledger*. This directory
models the parts of `src/backend` on which that promise rests, from the entry
points to the mail that is sent and the device that moves, and what the owner
sees of it; it checks them with TLC on small instances, and proves the most
important properties with TLAPS for every value of the constants.

Paths below are relative to `src/backend` unless they say otherwise.

## 1. The system

A FastAPI server (`main.py`) and an MCP server (`mcp_server.py`) call the gate;
the chat agent's tools (`domestic_oracle/tools`) call it too. Synchronous routes
and tools run on threads of a pool, so **calls of every component below run
concurrently in one process**. All state is in one SQLite database (`oracle.db`,
a connection per thread, `db.py`), in files (key, keyset, anchor, mail tokens)
and in module variables of the process. Module variables and `threading.Lock`s
are per process; a second process shares the database and the files, not the locks.

| Component | State | Operations | Talks to |
|---|---|---|---|
| Consent gate, `consent.py` | tables `agents`, `approvals`; `_executor`; `_lock` | `request_action`, `resolve`, `set_agent_status`, `set_executor`, `init_db` | limits, policy, ledger, the executor |
| Agent identity, `consent.py:165-197`, `crypto.py:201-240` | `agents`, `nonces` | `register_agent`, `verify_agent_request`, `consume_nonce` | called by the agent route and MCP |
| Ledger, `ledger.py` | table `ledger`; anchor file; `_lock`; `_verify_checkpoint`, `_verify_lock` | `append`, `update_outcome`, `verify_chain`, `verify_anchor`, `integrity`, `sum_today`, reads | crypto |
| Server key, `crypto.py` | key file, `keyset.json`, `_server_key`, `ORA_LEDGER_KEY` | load or create, `sign`, `rotate_server_key`, `keyset_info`, `all_public_keys` | the file system |
| Policy engine, `policy.py` | tables `policies`, `settings`; `_policy_cache`, `_cache_lock` | `add_policy`, `delete_policy`, `evaluate`, `get_mode`, `set_mode`, `parse_policy` | `ledger.sum_today` |
| Limits, `limits.py` | tables `actor_hourly`, `daily_totals`; `_lock` | `check_and_record`, `get_status` | |
| Sessions, `sessions.py`, `auth.py` | table `sessions`; `_passphrase`, `owner_token.txt` | `create`, `validate`, `revoke`, `prune`, `init` | every owner route |
| Key routes, `main.py` | none of their own | `/keys/rotate`, `/keys/status`, `/keys/backup`; `/ledger/export`, which asks for no session | sessions, crypto, ledger |
| Monitor, `monitor.py` | `_state` | periodic `integrity()` | ledger |
| Provenance and risk, `provenance.py`, `risk.py` | none | pure functions of text and arguments | called by the gate |
| Tools, MCP server, device and agent routes | none | one guarded call each, and the answer to its caller | the gate |
| Device events, `main.py`, `home_assistant.py` | `_ha_state_cache`, `_sse_subscribers` with a queue of 200 each | `_ha_ws_loop`, `_ha_event_handler`, `GET /devices`, `GET /devices/events` | Home Assistant, the page |
| Chat route, `main.py` | `_history` (LRU of 500 users) | `POST /chat`, its wipe | stream bridge |
| Stream bridge, `domestic_oracle/stream.py` | one queue of 64 and one thread per chat | `deerflow_to_sse` | the agent framework |
| Mail client, `domestic_oracle/atomicmail_client.py` | token and expiry in memory and in files, session token | token renewal, proof of work, `send`, `reply`, `list_inbox` | a mail service |
| Offline verifier, `src/tools/verify_ledger.py` | none | walks an export | |
| Frontend, vendored framework, deployment | | user interface, third-party code | |

What makes them correct, and what is hard about it:

* **Gate.** An effect happens only with a reason (an allowing verdict, an
  unenforced mode, the owner's approval), at most once, and the ledger's account of
  it is true. Hard: the verdict, the mode, the effect, the ledger entry and the
  approval row are separate steps; any of them may raise or be the last one
  before the process dies; two answers to one approval may overlap.
* **Ledger.** The rows form one chain; the checks accept every ledger that
  `append` wrote and reject damaged ones. Hard: the head is read before the row is
  written; the anchor is written outside the lock; checkpoints make a later
  verification trust an earlier one; keys rotate.
* **Key.** Every key that signed an entry can verify it for ever. Hard: three
  places (file, memory, keyset) change one after the other without a lock.
* **Policy and limits.** A rule applies from the moment its change returns;
  no count exceeds its cap. Hard: the cache is filled and invalidated by different
  threads; checking and spending are separate steps; the hour turns.

* **Requests.** The strictest rule decides, flagged content waits for the owner, what
  is approved is what was held, and the caller is told the truth. Hard: the entry
  points pass arguments under their own names to one gate, each with its own function to
  run; another function runs the approved action; an effect may have happened although
  the function raised; and each entry point words its own answer.
* **Sessions and key routes.** A logout wins, a window slides with its use, a key
  that the ledger announces is recorded. Hard: a session is read in one statement and
  extended or deleted in another; a route is a chain of steps of three modules.
* **Device events.** What a page shows and what is on its way to it add up to the home.
  Hard: a snapshot, a queue, a cache and a list that was asked for earlier overlap.
* **Mail.** An approval sends one copy at most, and a token in use is good. Hard: the
  token has three copies that threads write without a lock, and answers are lost.
* **Export.** What the offline tool accepts has been damaged nowhere but at its end.

`PROJECT.json` lists every hazard with its line and the properties that watch it.

## 2. The modules

| Module | Models | Used by |
|---|---|---|
| `ConsentGate` | `consent.py`: the gate with its agents, mode, executor and approvals | `MCConsentGate`, `ConsentGateProofs` |
| `ActionLifecycle` | the abstract promise: what may become of one guarded action | refined by `ConsentGate` |
| `ToolRequests` | what is asked, judged, run and answered: tools, MCP, routes, provenance, rules, risk, executor, mock home | `MCToolRequests`, `ToolRequestsProofs` |
| `Ledger` | `ledger.py` with the keys it signs with | `LedgerExport`, `LedgerProofs` |
| `LedgerExport` | `GET /ledger/export` and `tools/verify_ledger.py` | `MCLedgerExport`, `LedgerProofs` |
| `KeyRotation` | `crypto.py`: key file, keyset, cached key | `OwnerControl`, `OwnerControlProofs` |
| `Sessions` | `sessions.py`, `auth.py`, login and logout | `OwnerControl` |
| `OwnerControl` | the key routes: `KeyRotation` and `Sessions` composed | `MCOwnerControl`, `OwnerControlProofs` |
| `PolicyEngine` | `limits.py`, the cache and rules of `policy.py`, `ledger.sum_today` | `MCPolicyEngine`, `PolicyProofs` |
| `AgentRequests` | `consent.py:144-197`, `crypto.py:213-240`: signed requests of agents | `MCAgentRequests`, `AgentRequestsProofs` |
| `ChatStream` | `domestic_oracle/stream.py`, the chat route of `main.py` | `MCChatStream`, `StreamProofs` |
| `DeviceEvents` | the listener of `home_assistant.py`, the fan-out and device routes of `main.py`, the page | `MCDeviceEvents`, `StreamProofs` |
| `MailClient` | `atomicmail_client.py`, as approvals and reads use it | `MCMailClient`, `MailClientProofs` |

Every thread has a program counter; one action is one atomic piece of the code: a
committed transaction, a write or read of a file, an effect, a lock taken or given
back. `WorkerOf` (or `RequestWorker`, `ResolverWorker`) says which process a
thread is in, so one module serves both the deployment of one worker that the
Dockerfile starts and one of several workers. Definitions that begin with
"Mutant:" are plausible bugs of the definition below them; `Next` uses none.

### ConsentGate

`ReadAgent`, `CheckLimits`, `Evaluate`, `ReadMode`, `Execute`, `LogAttempt`, `Park`
are `request_action` in the order of its statements, `RaiseEarly` an error of one of
its first reads. `Select` and `Claim` are the locked read and update at the start of
`resolve`; `CloseDenied`, `LogDenied` the refusal; `Reopen` the return to
the queue when no executor is registered; `MarkApproved`, `ExecuteApproved`,
`CloseExecuted`, `LogExecuted` the approval; `CloseError`, `LogError` its `except`
branch. `ChangeRules`, `SetMode`, `SetAgentStatus` are the owner's control plane,
`SetExecutor` the first chat after a start, `Restart` the death of a process.
Every write may raise (`StorageFails`), every effect too, before or after it took
place (`EffectRaises`). Abstracted: which action it is (only the verdict
matters), why a limit or the provenance rail trips (an open choice), and
the order of the ledger's entries (a set of statuses; `Ledger` has the order).

`ActionLifecycle` promises that an action goes from open through held to ran,
blocked, refused or failed, that it runs at most once and never after it was
blocked, refused or failed. `Stage` maps the gate's state to it.

### Ledger

An append is `ReadHead` (lock taken), `Insert` (commit, lock released), `SignAnchor`,
`WriteAnchor`; any of them may raise. A check is `VerifyChain` (the
walk from genesis or from the checkpoint, in one snapshot), `ReadAnchor`,
`CheckAnchor`. `Hash` is injective and a signature is the number of its key. `Damage`
edits, rewrites, deletes or truncates rows as the tests do (`tests/test_anchor.py`,
`tests/test_governance.py`).

A rotation is `BeginRotation` (with `_ensure_keyset`), `ReplaceKey`, `OpenKeyset` (which empties
the file), `WriteKeyset`, and then an append of its own; any of them may raise
(`RotationRaises`) or be the last before a death. Rotations of several threads may overlap. `cut`
records that one was cut short between the key and the keyset, `mislaid` that another began
after such a cut or beside a rotation under way: from then on a key that has signed may be in no
keyset.

### LedgerExport

`LedgerExport` extends `Ledger`. `ReadKeys` is `keyset_info` and `ReadRows` is
`export_chain`, in the order of `main.py:387-393`, with any steps of the ledger between
them. What the tool says of the result (`ToolVerifies`: the keys of the export, the
links, the hashes in either format, the signatures) is evaluated when the rows are read, since a
file does not change any more; `toolSays` keeps it.

### KeyRotation

`Begin` to `WriteKeyset` are `rotate_server_key` with `_ensure_keyset`; `BeginStatus`
is `keyset_info`, which may create the keyset. Opening `keyset.json` for writing
empties it (`Truncate`: no key is recorded, `torn`), and `Dump` fills it; a dump that raises
(`DumpRaises`) or a death in between leaves it so, and then neither a rotation nor a status
request can begin, since the file does not parse. `fromEnv` is a deployment with `ORA_LEDGER_KEY`.

### Sessions

`Prune`, `ReadPass`, `OpenPass`, `WritePass` are the start of a process; `Login` and
`Logout` the two routes. `Present` reads the clock, `Select` the row, and `Unknown`, `Expire` or
`Extend` is what `validate` does next, in a statement of its own; `Enter` and `Leave`
are the route behind it. `SessionTick` lets time pass, at most `MaxDelay` while a
call is between the clock and its last statement. `SessionRaises` is a statement that
fails, `SessionRestart` the death of a process; rows and file survive. `Accepted` is
`verify_passphrase`, which looks whether the passphrase is empty before it strips it: one of
whitespace opens a session where the stored one is empty. `revoked` and
`bootCut` only record what has happened.

### OwnerControl

A call that `Enter` has let in becomes a route: `Rotate`, `Status` or `Backup`; `Export` needs no
session, and may create the keyset like a status request. `KeyStep` takes
the steps of `KeyRotation` for it; `Announce` appends the ledger entry of a finished
rotation (`announced` is the set of keys such entries name), `AnnounceRaises` fails to;
`Return` answers. `OwnerRestart` ends the calls of all three parts at once. `Others` are
the steps of `Sessions` by callers of other routes.

### PolicyEngine

`Begin`, `Refuse`, `Pass`, `Record` are `check_and_record`; `Hit`, `FillRead`, `FillStore`,
`FillRaises` are `_cached_policies`; `Hold`, `Execute`, `Append` judge a purchase
by the cached rules and the day's spend, run it, and write the entry that
`sum_today` counts, if it counts it: the cost of a purchase may be under `amount` or another key
(`named`), and the append may raise (`AppendRaises`) or never come. `made` counts the purchases
that a day cap has let through, `unseen` those of them that the sum will never find.
`AddPolicy`, `DeletePolicy`, `Invalidate` are the owner's changes, `Tick` is the clock, `Restart` seeds the defaults when the table is empty. Every
purchase costs one unit. A rule is one that holds, or a daily cap: what other rules
look at (recipient, time, single amount) does not change and is in the choice
of the kind.

### AgentRequests

`ReadAgent`, `CheckFresh`, `CheckSignature`, `ReadClock`, `Consume` and `Refuse` are
`verify_agent_request` in the order of its statements; it reads the server's clock in
`CheckFresh` and again in `ReadClock`, and `Tick` lets time pass in between and
before the transaction of `Consume`, at most `MaxDelay` in all. `Sign` stamps a request with
the agent's clock, which may be behind or up to `MaxSkew` ahead. `Receive` delivers a
signed request, any number of times, or something else in its place (`genuine` says whether
the signature verifies). `Restart` ends calls; the table of nonces is durable.
`accepted`, `first` and `last` only record what has been accepted, by the clock that
the accepting call has read.

### ChatStream

`Ask` and `Open` are the route and the start of its generator; `GetFrame`, `GetSentinel`,
`Join`, `JoinRaises`, `Apologised` the reader; `StartPump`, `NextEvent`, `PutFrame`,
`SourceEnds`, `PutSentinel`, `EndPump` the pump on its thread; `FinishPut` a put that the
loop completes when the queue has room; `Leave` the cancellation of the reader when the
page disconnects, wherever it waits. The frames of a chat are numbered as the agent
produces them, so order and completeness are about numbers. Which frames an event has is
`_translate`, abstracted to how many and which are text.

### DeviceEvents

A state of a device is the number of the change that made it, so older and newer can be
compared. `link` goes through the handshake of `_ha_ws_loop` (`Connect`, `AuthRequired`,
`AuthOk`, `Subscribed`, `Refuse`, `Reconnect`); `wire` is what Home Assistant has sent and
the listener not yet read, lost with the connection. `Handle` is one event: the cache,
then every subscriber's queue, and a subscriber whose queue is full leaves the set.
`Open`, `Snapshot`, `SnapshotError`, `Deliver`, `Close` and `Abandon` are the stream of a page;
`AskList`, `Answer` and `Arrive` its `GET /devices`, which lists, overlays the cache and
replaces what the page shows (`TrustCenter.tsx:55-69`). `overtaken`, `stale` and `missed`
record the devices that a late list, an old cache or a lost event has put wrong. The
HTTP calls to a live home are the change they make (`Change`).

### MailClient

A token is the time at which it expires. `capJwt` and `capExp` are the two variables in
memory, `capFile` and `sessFile` the files. `ReadClock`, `MemoryHit`, `Take`, `FileHit`,
`SessionHit`, `ProveWork`, `Refresh`, `WriteFile`, `StoreJwt` and `StoreExp` are
`_get_capability_jwt` and `_refresh_capability` in the order of their statements; `Discover`,
`PostFirst`, `PostRead` and `Post` the JMAP calls of a send (one) or of a reply or a read (two),
which `Refused` or `RequestLost` may end with an error. After `Post` the service has submitted
the mail: `Answered` or `AnswerLost` is what the client sees of that. `Approve`, `Deny`, `Close`,
`Update`, `CloseFailed` are `consent.resolve` around them; closing the row or updating the entry
may raise (`RecordRaises`, then handled like a failed action; `CloseRaises`), and `Restart` may
come between any two steps. `sent` counts the copies of each mail, `unsure` has the mails that
were submitted before an answer or a row was lost or the process died; `mixed` and `disturbed`
record that two threads stored tokens at once.

### ToolRequests

`AskTool`, `AskMcp`, `AskPage` and `AskSigned` are the entry points, with the content each hands to
the provenance scan; `Judge` is `request_action` up to the verdict (`Evaluate` over
`OneRule` and `Stricter`, the rail, the limits, `Score`), `Run`, `Approve` and `Refuse` what follows.
`Direct` is the function an entry point gives the gate to run (`AgentTool`, `McpTool`, the page's,
which all differ), `Executor` the one an approval runs (`agent.py:84-110`), `Control` with
`MatchEntity` and `ServiceFor` the mock home. A handler that raises may have had its effect before
(`RaisesOver`, as a mail whose answer is lost). `Tell` is the answer
to the caller, `ReadInbox` the one tool that shows content.
Content is the set of signals the scanner finds in it; the words of a request are
abstracted to the devices they are part of (`Within`). Rules and mode do not change
during a run: `PolicyEngine` and `ConsentGate` have that. `ToolAssumption` says what a call may
carry: the tools, the page and the MCP server fix the names of the arguments, a signed call does
not. An amount that `float()` refuses is `Junk`; one that it takes and that is not a number is
`NaN`: no comparison with it is true (`Exceeds`), and where SQLite does not take it for
JSON the day's sum raises (`SumRaises`). Limits of rules are any integers, and a temperature
is any, since the code checks neither; a brightness it keeps in 0 to 255.

Bounds are in the `.cfg` files and named in the modules.

| Run | Instance | Shows |
|---|---|---|
| `gate_one_worker` | 2 requests, 2 resolvers, 1 process, all failures and restarts | effects are authorised and happen at most once; approvals are logged; the ledger is truthful about effects; `ActionLifecycle` is implemented |
| `gate_live` | the same without crashes and storage failures, fair | `GateSettles`: every request ends and every claimed approval is settled |
| `tool_requests` | 2 of 19 calls of all entry points, 3 rule lists, 2 modes, hours 12 and 23, amounts that are no number, mails that are sent though they raise | flagged content waits for the owner; the strictest rule decides; purchases stay in the limits; an approval runs what was held, but for three entry points; callers and the inbox tell the truth; only the named device moves |
| `ledger_one_process` | 2 appenders, 1 verifier, 2 rows, 3 keys, rotations in steps, failures, restarts, fair | no false alarm of the chain until a rotation has forgotten a key, and none of the anchor before a rotation; appends end; the tool accepts an export that no rotation comes into |
| `ledger_damaged` | 1 appender, 1 verifier, 3 rows, any damage | what walks, walk plus anchor, and the offline tool vouch for |
| `keys_rotated` | 1 process, a rotator and another caller, 1 token, 3 keys, TTL 1, delay 1, 3 units of time, failures, restarts, with and without secrets in the environment | signers stay known, a retired key rests, announced keys are recorded while the keyset can be read, keys change for the owner only; a logout wins, a window slides, the owner can log in |
| `policy_one_process` | 2 requests, 1 owner thread, 3 calls, 2 rules, 3 hours in 2 days | the rules in force apply; caps hold; a day cap is passed only by what runs at once and by what its sum never finds |
| `requests_signed` | 2 requests of 1 agent, 2 calls, window 2, skew 1, delay 1, 4 units of time, failures, restarts | a second acceptance of a request has its narrow place in time |
| `chat_streams` | 3 chats of 4, 1 and 0 frames, 2 threads, queue of 1, events of up to 2 frames, one page that may leave, fair | the page sees the reply in order and whole, with the apology exactly when the agent raised; chats whose page stays end |
| `device_events` | 3 devices, 2 of them controllable, 1 page, queue of 2, 3 changes, 2 losses, 1 reload, fair | a page with what is under way to it shows the home, and settles there; the listener always comes back |
| `mail_client` | 2 threads, 1 reply, margin 1, lives of 2 and 3, 3 units of time, 2 faults, 1 read | copies are accounted for; the token in hand is good |
| `mail_not_held` | 1 request, the default rules | ends in a counterexample on purpose (below) |

The types of a module are a theorem (`TypeCorrect`, `OwnerTypesHold`, `EventsTypeCorrect`,
`ToolTypesCorrect`); the runs `device_events` and `tool_requests` check them as well.

Why the bounds are enough. Two threads of each kind give every pairwise overlap: two resolvers of
one approval, two appends around one head, two requests at the last free place, a cache fill
around a rule change, two stores of a token. Three rows (`ledger_damaged`) are a first, a middle
and a last one, so a checkpoint can have rows before and behind it and a deletion can be in the
middle; in `ledger_one_process` two are enough for two threads at one head, a checkpoint with a
row behind it, and a row of a key that a cut rotation has left. Three keys
are the first one, and two rotations after which the middle one is retired in its turn: an
unrecorded key is lost only then. Two faults are a mail whose answer is lost and a row that then
cannot be closed. Three hours over two days in which UTC and local days turn at
different hours show each turn. `MaxEffects = 3` lets a repeated effect happen rather than be cut
off. A window of 2 with skew 1 and delay 1 is the smallest in which a pruned nonce can meet a
request that is still fresh, and 4 units of time reach it. A session of length 1 can be extended,
expire and be deleted within 3. Four frames exceed a queue of 1 and an event of 2, so the bound
of the back-pressure can be broken; the shorter chats are there to compete for the thread the
first does not hold. Three changes overfill a queue of 2; two losses are a lost connection and a
refused one. A token of life 2 can be used, run into its margin of 1 and expire, and so can the
session of life 3 that renews it. The calls of `tool_requests` have each entry point, each
action, words that fit one, several and no device, amounts under one and two keys and none,
content with and without signals, and an amount that is not a number
from a signed call.

Deadlock is checked except in `chat_streams`, `device_events`, `mail_client` and
`tool_requests`: a server whose chats are over, whose pump waits for a page
that has gone, or whose bounded supply of changes, calls and time is used up, just waits;
the liveness properties see what is stuck.

Fairness. A call that has begun is a thread that the scheduler runs, and a Python lock
that keeps becoming free is acquired in the end: strong fairness of a
begun call (`gate_live`, `AppendsEnd`). The beginning of a call has
none: nobody has to ask or to answer, nor to export. The monitor's loop checks again and again
(`monitor.py:53-57`), hence weak fairness of the verifier. In `ChatStream` the loop turns
and a running thread goes on (weak), and a pump that waits for a thread gets one that keeps
becoming free (strong; the executor's queue is FIFO). That the agent's stream ends
is assumed of the framework (it has a recursion limit). In `DeviceEvents` the loop turns:
the listener goes on with its handshake, its events and its reconnection, and each stream
with its snapshot and its queue (weak). That Home Assistant answers when it
is not losing or refusing the connection is assumed, and it does that finitely
often. No page has to leave, to ask or to reload.

Every property has a mutant in `PROJECT.json`, a change of one
mapped definition under which TLC finds the property violated: an
unlocked claim, an append whose error is ignored, an exception that goes back to
the queue, a lock kept, a cache invalidated without its lock, and so on.

### Where the code does not do what its documentation says

The run `mail_not_held` ends in a counterexample on purpose and is a finding in
`PROJECT.json`: no default rule is about mail (`policy.py:262` looks at one action's
name, mails go out under two others), so under the default rules, enforced, a mail leaves
without having been held, although "by default, every outgoing email is held"
(`src/README.md:244`, `message_tools.py:46`). The `time_window` rule that `README.md:246`
advises has no effect on mail either.

Others are visible in the models or in the code they were read from, without a run of their own.

The gate and its entry points:

* A restart between the ledger entry and the approval row, or while a row is
  `resolving`, leaves a held action that nobody can answer, although "a restart never
  loses a held action" (`consent.py:17`).
* An allowed action runs before its ledger entry is written (`consent.py:289-290`), and one
  that raises gets none, although "the attempt is recorded ... no matter the verdict"
  (`consent.py:8`).
* With two processes an approval can be answered twice and its action happen twice
  (`consent.py:304`), and two appends can read the same head and break the chain for good
  (`ledger.py:134`): the claim and the head are protected by locks of one process, while
  `consent.py:17-18` speaks of multiple workers. The theorems that need one
  process say so.
* A nonce is remembered for one window from its use, but a request of an agent whose clock
  is ahead stays fresh for longer (`crypto.py:213-240`); `RepeatsOnlyLate` says exactly when.
* An approved action is not judged again: `consent.py:19-20` says the policy is
  re-checked, the docstring of `resolve` says it is deliberately not, and the code
  does what the docstring says. `EffectAuthorised` therefore accepts the approval.
* A limit that trips replaces the verdict: an action that a rule denies is then held,
  and the owner can approve it (`consent.py:246-250`).
* The MCP tools end in `_gate_message`, which is defined nowhere
  (`mcp_server.py:85, 110, 134`): the gate has acted, and the caller gets a `NameError`.
* An approved device action of MCP does nothing: it is stored as `entity` and `command`, and the
  executor reads `device` and `action` (`agent.py:87-89`). An approved purchase or message of MCP
  is ordered or sent by that executor, where the MCP server itself would only have queued it
  (`mcp_server.py:107, 127`, `agent.py:90-99`). The brightness or temperature
  that the page asked for is lost when the action is held and approved
  (`main.py:656-667`). `ApprovalRunsWhatWasHeld` names the three.
* An amount of `nan` is above no limit (`policy.py:218, 242, 248`) and has a risk score of 0
  (`risk.py:45-60`), so such a purchase is allowed and ordered. Its entry has a NaN in its JSON:
  older versions of SQLite call that malformed and `sum_today` raises for the rest of the day,
  newer ones leave it out of the sum. Infinite amounts, which are above every limit and which
  the risk score takes as large, are not modelled.
* The agent is told that "email is unavailable" when a mail was sent and its answer lost
  (`atomicmail_client.py:265-277`, `message_tools.py:66-67`); `AnswersAreTrue` promises nothing
  of that answer.
* The mock home's "toggle" of a lock gives "on", and `set_hvac_mode` is asked for without a mode
  (`home_assistant.py`); a timeout of the live home is not caught by its `control`.

The ledger and its keys:

* After a rotation the integrity check reports an invalid anchor signature until the
  next entry (`ledger.py:366`), although rotation is said not to break verification
  (`src/README.md:40`).
* The last anchor line may be that of an older row than the last (it is written after
  the lock is released, and may fail), so a truncation down to it is not seen; and
  a truncation followed by an append that is anchored leaves an anchor that
  matches. `IntegrityVouches` is stated for the rows inserted before the anchored one.
* An edit of a row at or before the checkpoint is not reported by the default
  `integrity()` nor by the monitor, only by a full walk: `WalksDetect` says of each walk
  what it vouches for. Rows of the legacy hash format do not cover their category, risk and
  `args_json`.
* The monitor keeps its last result when the verification raises (`monitor.py:30`).
* The export reads the keys and then the rows (`main.py:387-393`). A rotation and an append in
  between put a row into it whose key it lacks, and the tool calls a sound ledger forged;
  `SoundExportVerifies` leaves those exports out.
* A rotation that is cut short between the key file and the keyset (`crypto.py:151-155`) leaves a
  signing key out of the keyset; after one more rotation its entries no longer verify, and
  `verify_chain` and the offline tool call an undamaged ledger broken. `NoChainAlarm` and
  `SoundExportVerifies` hold until then (`mislaid`).
* `_save_keyset` opens `keyset.json` with "w" (`crypto.py:69-72`): a death, or a dump that raises,
  before it is written leaves a file that does not parse, and no retired key is recorded any
  more. Every later status request, export, rotation and verification of a signature raises,
  until someone repairs the file.
  `AnnouncedKeysAreRecorded` speaks of keysets that can be read.
* `GET /ledger/export` asks for no session and may create the keyset (`main.py:380-387`);
  `KeysNeedASession` says that it can do no more to the keys.
* With `ORA_LEDGER_KEY` set, a restart returns to the key that a rotation retired
  (`crypto.py:36-40`); `RetiredStaysRetired` is about keys from the file, and holds also when a
  rotation is cut short.
* Two rotations at once, or a status request during one, can lose a key
  (`crypto.py:75-86`). `Ledger` has rotations that overlap, as `mislaid`; the run and the theorems
  of the key routes have one thread there. When the entry about
  a rotation cannot be appended, the rotation stays done and unrecorded (`main.py:418`).

Rules and limits:

* A rule change does not reach the caches of other processes, and the locks
  of the limits do not either: the properties of `PolicyEngine` are for one process.
* The hourly limit counts in fixed hours, not in a "rolling hour window"
  (`limits.py:6`).
* A purchase the owner approved does not count towards the daily spend: `sum_today` counts
  executed purchases (`ledger.py:216`), the row of a held one stays "pending", and its
  execution is logged under the action "resolve" (`ledger.py:178-186`).
* `sum_today` reads only `amount` of the entries' arguments (`ledger.py:211-222`), while the rules
  judge by `amount`, `cost`, `price` or `total` (`policy.py:214-221`); and a purchase whose entry is
  lost by a raising append or a death was made all the same (`consent.py:289-290`). A day cap
  stops none of these, also one at a time: `OvershootBounded` counts them apart (`unseen`).
* An error between the inserts and the commit of the limits leaves a transaction open that the
  thread's next commit completes (`limits.py:104`).
* The rules table is seeded again at a start that finds it empty.

Sessions:

* A call that was validated earlier may write the shorter window, since the `UPDATE` compares
  nothing; a row that another call has just extended may be deleted as expired; and `validate`
  may let a call in whose session is logged out between its statements (`sessions.py:49`).
  `LogoutWins` and `WindowSlides` say what holds nevertheless.
* Two processes that start at once, or a start that dies between opening and writing the
  file, may leave or read an empty passphrase (`auth.py:64`), and an `ORA_OWNER_TOKEN` of whitespace
  is one (`auth.py:53-55`). Then a passphrase of whitespace logs in, since it is tested before it
  is stripped (`auth.py:80-82`); `OwnerCanLogIn` leaves these two cases out.

Streams, events and mail:

* The pump of a page that has gone waits for ever for room in the queue and keeps its thread
  of the loop's pool; when all are kept no chat starts, although "multiple chats ...
  can proceed in parallel" (`stream.py:22`).
* The chat history is looked up, made and evicted in steps by threads, and a reply is added
  when its stream ends, also after a wipe or an eviction (`main.py:112-120, 353`).
* A subscriber that is dropped because its queue is full is never told (`main.py:104`), and a
  stream that is abandoned before its generator has started stays subscribed (`main.py:622`).
* After a lost connection the cache, which the code takes for fresher (`main.py:605`), is
  older than the list it is laid over; and a late answer of `GET /devices` takes back newer
  events (`TrustCenter.tsx:68`).
* A mail whose answer was lost, or whose row could not be closed, is sent and recorded as an
  error; one that the process died over is sent, and its row stays `resolving`
  (`consent.py:330-341`). A token that the service refuses stays cached until it expires (`atomicmail_client.py:274-276`).

## 4. What is proved

The theorems hold for every number of threads, rows, keys, rules, hours, sessions, pages,
devices, calls and mails, and use only the named assumptions of the modules (`GateAssumption`,
`LedgerAssumption`, `ExportAssumption`, `RotationAssumption`, `SessionAssumption`,
`OwnerAssumption`, `PolicyAssumption`, `RequestAssumption`, `ChatAssumption`, `DeviceAssumption`,
`MailAssumption`, `ToolAssumption`). Where a theorem says "in one process" it assumes in its
statement that there is one worker: with two it fails, as section 3 tells.

**`ConsentGateProofs`.** `TypeCorrect` is inductive as it stands. `EffectAuthorised`
is not: a request that is about to run has had no effect yet but must already have a
plan that allows it, and a resolver about to execute must already have marked the
approval. `GateInv` adds these relations between program counter, plan, row and
ledger, and gives `EffectsAreAuthorised`, `ApprovalsAreLogged` and `OnlyHoldsAreParked`
for any number of processes. At-most-once needs the claim to be exclusive, which is a
fact about the lock: `OneWorkerInv` says that only a resolver between `Select` and `Claim`
holds the lock, that each row being resolved has at most one resolver, and what row,
effects and outcomes are at each of its program counters. It
yields `EffectsHappenOnce`, `ResolversAreAlone`, `LedgerIsTruthful`, the action
property `AnswersStay`, and `GateImplementsLifecycle`: every step of the gate is a step of
`ActionLifecycle` or leaves its state alone (the safety of the refinement; the abstract
specification has no fairness).

**`LedgerProofs`.** `TypeCorrect` needs `LineReady` (a thread about to sign or
write an anchor line has one) and holds also for damaged ledgers and many processes.
`ChainIsLinked`, for one process and no damage, rests on an
invariant that the ids are `1..lastId`, that an appender about to insert holds the lock and
has read the hash of the last row, and that checkpoints are rows; and on `KeysetInv`: while no
rotation has forgotten a key, one rotation at a time goes from the key to the keyset, and every
signer is the current key, in the keyset, or in the hands of the rotation that has emptied it. `LinkedRowsVerify` then shows that a walk from any such
checkpoint accepts every row, which gives `ChainNeverAlarms` and `CheckpointsAreOnChain`.

`AnchorNeverAlarms` adds `AnchorInv`: every line written, or in the hands of an appender,
names a row with its hash, and is signed by the first key as long as that is in use.

`SoundInv` carries `ChainIsLinked` over to a ledger that may be damaged: nothing that is
damaged becomes whole again (`DamageStays`), so a ledger without damage never had any. It yields
`OnlyDamageAlarms`, and, with the keyset not empty once an export has begun, `ToolAcceptsSound`:
in one process the tool accepts every export of an undamaged ledger that no rotation comes into,
until a rotation has forgotten a key.

The theorems about damage cannot rest on the chain being sound. `TamperInv` says what damage
cannot undo: the rows that were there when a row was inserted (`RowPast`), what its signature is
of (`RowSigned`), and what the hash that an appender or a checkpoint carries is the hash of. Were
there damage that a content walk has passed, there would be a first place where the rows are not
as they were (the least counterexample, by well-foundedness of the naturals), and there a link, a
hash or a signature fails: `FullWalkFinds` and `TailWalkFinds` give `WalksFindDamage`, with the
anchor `IntegrityVouchesForAnchored`, and with the keys of an export `ToolFindsDamage`. They need
one process: two could write two rows onto one, and the deletion of either would be invisible.

**`OwnerControlProofs`** is compositional: `RoutesImplementRotation` and
`RoutesImplementSessions` show that each step of the routes is a step or a stutter of
`KeyRotation` and of `Sessions`, so that what is proved of these holds behind the routes.
`SessionInv` (a call knows when it read the clock and what row it saw; a revoked token has
no row) yields `RevokedSessionsStayOut`, `LoggedOutIsOut`, both together in
`LogoutAlwaysWins`, and `SessionWindowSlides` for any number of processes;
`PassphraseIsKnown` is for one. `RouteInv` (who is in a step of a rotation has entered) gives
`KeysAreForTheOwner`, and with `KeyInv` `AnnouncedStayRecorded`.

Behind it is what is proved of `KeyRotation` for one process and one thread at the key routes
(`Alone`). `KeyInv` has six parts: types; at which step what is in file, memory and
keyset (`PhaseInv`); when the keyset is torn (`TornInv`); the first key (`FirstKeyInv`); that a
retired key is neither in file nor memory, and is in every keyset that can be read (`RetiredInv`,
also when cut short); and that signers are recorded or about to be (`RecordedInv`). From it come
`SignersAreKnown`, `RetiredKeysRest`, `FileKeyIsRecorded` and `RetiredKeysAreRecorded`.

**`PolicyProofs`.** `NoLockStaysTaken` (any number of processes): `LockInv` says who
holds each lock. `CacheIsCoherent` and `RulesApplyAtOnce` (one process): `CacheInv` adds
that a thread about to store what it read holds the cache's lock, and that what it read
differs from the table only by changes that have not returned. `CapsAlwaysHold` (one
process): `CapsInv` adds that a thread about to count is within its limits, alone.
`OvershootStaysBounded` holds for any number of processes and across restarts: `OvershootInv`
says that each purchase made is in the sum that the rules read, on its way there (`Pending`, each
by another thread), or never to be found (`unseen`). That sum is over the
day the clock shows when the entry is written, hence its hypothesis `DaysGoOn`, that a later hour
is not in an earlier local day; a clock set back would let a day be spent twice.

**`AgentRequestsProofs`.** `WindowInv` relates what a call has checked to the present: its
first reading of the clock is at most `MaxDelay` old and within the window of the
stamp, the second not later than now, and a stamp is at most `MaxSkew` ahead; and an
accepted message is still remembered up to its last acceptance plus the window, or that is past.
It yields `NoncesStayEarned` and the action property `RepeatsAreLate`.

**`StreamProofs`** has the two streams to the page. The chat: the items a pump hands over are its
frames and then the end marker. `StreamInv` says that they are sent, in the queue, or in the one
pending put, consecutively (`InFlight`), until the marker has arrived (`Arrived`), and where pump
and reader can be meanwhile. It yields `FramesStayInOrder`, `CompleteWhenDone` (together
`PagesSeeTheReply`) and `AgentIsHeldBack` for any capacity, pool and length.

The device events: `After(s, events, d)` is what `s` becomes by a run of events, and the lemmas
about it say what an event added, taken or dropped does. `PagesCatchUp` is about page, queue and
wire; what keeps it are three facts behind it, joined in `EventsInv`: the cache followed by the
wire is the home, for devices whose last change an event has told (`SourceInv`); a queue ends
with what the cache has (`QueueInv`); and what a page shows, or has got in a list that newer
events have not overtaken, leads to what the cache has, or to the home while the cache is empty
(`ViewInv`, `GotInv`). `PagesDoCatchUp` follows for any number of pages, devices, changes and
losses, and `EventsTypeCorrect` bounds each queue.

**`MailClientProofs`.** `CopiesStayAccounted` adds to its statement that a mail some thread has
in hand is with that thread alone, with nothing sent before the submission, an open row until it
is closed, and a failure after the submission noted (`JobInv`): nobody has a mail in hand to send
a second time. `CachedPairIsOneToken` and `UsedTokensAreGood` rest on `PairInv` and `HandInv`:
which token a thread holds between its statements and when it was last good, unless another
thread has stored one meanwhile (`mixed`, `disturbed`).

**`ToolRequestsProofs`.** `ToolInv` adds to the types, for each request, what its stage says of
verdict, approval and effect (`StageInv`: what has raised may have had its effect), that what the
caller was told fits the stage (`ToldInv`), and that a verdict is the limits', the provenance rail's over rules that all allow, or the strictest
of the rules' (`VerdictInv`). `Evaluate` is a function on the numbers of the rules. `LoopEnds`
shows that there is such a function for a list of any length, and `EvaluateIsStrictest` what it
computes: were it not the strictest verdict of the first rules and the first rule to have it,
there would be a least number of rules with which it is not (the naturals are well-founded), and
the last of them would have to disagree with `Stricter`. From this follow `FlaggedContentWaits`,
`StrictestOfAllRules`, `AnswersTrue` and `InboxWarningSeen`, for any rules,
calls and contents. `ApprovalRunsIt` compares `Direct` and `Executor` by cases of the entry point
and the action. Two theorems have a hypothesis in their statement. `PurchasesWithinLimits`
assumes `LimitsAreAmounts`, that no rule has a limit below zero: what costs nothing, a light that
is turned on, is above such a limit without being a purchase that the rule looks at.
`OnlyNamedMove` assumes `NamesDiffer`: of two devices with one name the matching takes the last
listed, and neither fits better.

Model-checked only: the liveness properties `GateSettles`, `AppendsEnd`, `ChatsEnd`,
`PageConverges` and `ListenerReturns`, which are out of the prover's reach. Every invariant and
every action property that a passing run checks is a theorem; `EveryMailIsHeld` is false (section
3). Proved and not checked by a run of its own: the types of the other modules,
`OnlyHoldsArePending`, `OneResolverPerApproval`, `AnswersAreFinal`, `NoncesAreEarned`,
`Backpressure`, `ChainLinked`, `CheckpointOnChain`, `CacheCoherent`, `LocksAreReleased`,
`FileKeyInKeyset`, `RetiredRecorded`, `PairIsOneToken`.

## 5. What is not modelled

The order was: the gate, because every effect passes it; the ledger, because every claim
about the past rests on it; the keys it rests on; the rules and limits; the agents'
requests; the chat stream; then the owner's sessions and routes, the device events, the mail
client, the requests from entry point to effect, and the export. What could be added:

* the chat history with its lookup, creation and eviction in steps, and replies that arrive
  after a wipe;
* the monitor's stored result;
* the open transaction that an error leaves on a connection, and the database's
  write lock (a committed transaction is one step here);
* two threads at the key routes at once, and a reader of half a keyset (`Ledger` has overlapping
  rotations, without sessions and status requests);
* infinite amounts;
* the cached JMAP session and mailbox id of the mail client.

The remaining parts stay out: texts, prompts and the grammar of `parse_policy`
(wording), `discover_devices`, `check_policy`, the dry run and the listings (they only read), the arithmetic of the proof
of work, the optional Countersig mirror
(its failures are swallowed and it is disabled by default), the rest of the
frontend, the vendored agent framework and the deployment scripts.

## 6. Running it

    tlc -config GateOneWorker.cfg MCConsentGate.tla
    tlapm ConsentGateProofs.tla

Each line of `runs` in `PROJECT.json` names its module and `.cfg`. Every run takes less than
three minutes on two cores, and so does every proof module.
