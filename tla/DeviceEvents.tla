---------------------------- MODULE DeviceEvents ----------------------------
(***************************************************************************)
(* How the owner's page learns the state of the home: the WebSocket        *)
(* listener of backend/home_assistant.py, the cache and the subscribers'   *)
(* queues it fills (_ha_event_handler in backend/main.py), the stream of   *)
(* GET /devices/events, and GET /devices, which the page asks beside it.   *)
(*                                                                         *)
(* The listener, the handler and the streams run on the event loop: each   *)
(* runs without interruption between two awaits, and list_devices, which   *)
(* they call synchronously, stops the loop.  GET /devices runs in a        *)
(* thread.  A state of a device is the number of the change that made it.  *)
(***************************************************************************)
EXTENDS Naturals, Sequences

CONSTANTS
    Devices,     \* entities of Home Assistant
    Controllable, \* those of a domain in CONTROLLABLE
    Pages,       \* streams of pages of the owner
    QueueMax,    \* the 200 events a subscriber's queue holds
    MaxChanges,  \* bound: changes in the home
    MaxLosses,   \* bound: connections lost or refused, lists that fail
    MaxReloads,  \* bound: times a page asks for the list
    Gone,        \* the state of a device that was removed
    None         \* no state

ASSUME DeviceAssumption ==
    /\ Controllable \subseteq Devices
    /\ {MaxChanges, MaxLosses, MaxReloads} \subseteq Nat
    /\ QueueMax \in Nat \ {0}
    /\ Gone \notin Nat /\ None \notin Nat /\ Gone # None

VARIABLES
    home,      \* external: the state of each device
    link,      \* where _ha_ws_loop is
    wire,      \* events that Home Assistant sent and the loop has not read
    cache,     \* _ha_state_cache
    subs,      \* _sse_subscribers
    stream,    \* where the stream of each page is
    queued,    \* the subscribers' queues
    view,      \* what each page shows
    reload,    \* where a page's GET /devices is
    got,       \* the devices it has so far
    overtaken, \* history: events shown since that answer was made
    stale,     \* history: devices whose newer state an answer has covered
    missed,    \* history: devices whose last change no event told
    changes, losses, reloads

outside == <<home, missed, changes>>
listener == <<link, wire>>
pages == <<stream, view, stale>>
asking == <<reload, got, overtaken, reloads>>
eventVars == <<outside, listener, cache, subs, queued, pages, asking, losses>>

State == 0..MaxChanges
Seen == State \cup {None}
Nothing == [d \in Devices |-> None]

EventsTypeOK ==
    /\ home \in [Devices -> State \cup {Gone}]
    /\ link \in {"down", "hello", "auth", "asked", "up", "lost"}
    /\ wire \in Seq(Devices \X (State \cup {Gone}))
    /\ cache \in [Devices -> Seen]
    /\ subs \subseteq Pages
    /\ stream \in [Pages -> {"closed", "opened", "live", "abandoned"}]
    /\ queued \in [Pages -> Seq(Controllable \X State)]
    /\ \A p \in Pages : Len(queued[p]) <= QueueMax
    /\ view \in [Pages -> [Devices -> Seen]]
    /\ reload \in [Pages -> {"none", "listed", "answered"}]
    /\ got \in [Pages -> [Devices -> Seen]]
    /\ overtaken \in [Pages -> SUBSET Devices]
    /\ stale \in [Pages -> SUBSET Devices]
    /\ missed \subseteq Devices
    /\ changes \in State /\ losses \in 0..MaxLosses /\ reloads \in 0..MaxReloads

EventsInit ==
    /\ home = [d \in Devices |-> 0]
    /\ link = "down" /\ wire = <<>>
    /\ cache = Nothing
    /\ subs = {}
    /\ stream = [p \in Pages |-> "closed"]
    /\ queued = [p \in Pages |-> <<>>]
    /\ view = [p \in Pages |-> Nothing]
    /\ reload = [p \in Pages |-> "none"]
    /\ got = [p \in Pages |-> Nothing]
    /\ overtaken = [p \in Pages |-> {}]
    /\ stale = [p \in Pages |-> {}]
    /\ missed = {}
    /\ changes = 0 /\ losses = 0 /\ reloads = 0

----------------------------------------------------------------------------
(* Home Assistant *)

\* A device changes, also when the server controls it (_live_control), or is removed;
\* a subscribed listener is sent an event.
Change(d) ==
    /\ changes < MaxChanges
    /\ changes' = changes + 1
    /\ \E s \in {changes + 1, Gone} : home' = [home EXCEPT ![d] = s]
    /\ wire' = IF link = "up" THEN Append(wire, <<d, home'[d]>>) ELSE wire
    /\ missed' = IF link = "up" THEN missed \ {d} ELSE missed \cup {d}
    /\ UNCHANGED <<link, cache, subs, queued, pages, asking, losses>>

\* The connection breaks: what was still on its way is lost.
LoseConnection ==
    /\ losses < MaxLosses /\ link \in {"hello", "auth", "asked", "up"}
    /\ losses' = losses + 1
    /\ \E n \in 0..Len(wire) :
          /\ wire' = SubSeq(wire, 1, n)
          /\ missed' = missed \cup {wire[i][1] : i \in n+1..Len(wire)}
    /\ link' = IF link = "up" THEN "lost" ELSE "down"
    /\ UNCHANGED <<home, changes, cache, subs, queued, pages, asking>>

----------------------------------------------------------------------------
(* _ha_ws_loop *)

Advance(from, to) ==
    /\ link = from
    /\ link' = to
    /\ UNCHANGED <<outside, wire, cache, subs, queued, pages, asking>>

Connect == Advance("down", "hello") /\ UNCHANGED losses
AuthRequired == Advance("hello", "auth") /\ UNCHANGED losses
AuthOk == Advance("auth", "asked") /\ UNCHANGED losses
Subscribed == Advance("asked", "up") /\ UNCHANGED losses

\* Another greeting, or a refused token: the loop pauses and connects again.
Refuse ==
    /\ losses < MaxLosses /\ losses' = losses + 1
    /\ Advance("hello", "down") \/ Advance("auth", "down")

\* Mutant: the loop ends with its connection.
ReconnectNever ==
    /\ wire = <<>>
    /\ Advance("lost", "lost")
    /\ UNCHANGED losses

\* recv raises after the last event it had; the loop pauses and connects again.
Reconnect ==
    /\ wire = <<>>
    /\ Advance("lost", "down")
    /\ UNCHANGED losses

Forwarded(e) == e[1] \in Controllable /\ e[2] # Gone

\* An event of another domain, or of a removal, goes no further.
SkipEvent ==
    /\ wire # <<>> /\ ~Forwarded(Head(wire))
    /\ wire' = Tail(wire)
    /\ UNCHANGED <<outside, link, cache, subs, queued, pages, asking, losses>>

\* Mutant: one event more.
FullLate(p) == Len(queued[p]) > QueueMax

Full(p) == Len(queued[p]) = QueueMax

\* Mutant: a full queue loses the event and its subscriber stays.
HandleKeepingFull ==
    /\ wire # <<>> /\ Forwarded(Head(wire))
    /\ wire' = Tail(wire)
    /\ cache' = [cache EXCEPT ![Head(wire)[1]] = Head(wire)[2]]
    /\ queued' = [p \in Pages |-> IF p \in subs /\ ~Full(p) THEN Append(queued[p], Head(wire))
                                                           ELSE queued[p]]
    /\ UNCHANGED <<outside, link, subs, pages, asking, losses>>

\* _ha_event_handler: the cache, and every subscriber; one that is full is dropped.
Handle ==
    /\ wire # <<>> /\ Forwarded(Head(wire))
    /\ wire' = Tail(wire)
    /\ cache' = [cache EXCEPT ![Head(wire)[1]] = Head(wire)[2]]
    /\ queued' = [p \in Pages |-> IF p \in subs /\ ~Full(p) THEN Append(queued[p], Head(wire))
                                                           ELSE queued[p]]
    /\ subs' = {p \in subs : ~Full(p)}
    /\ UNCHANGED <<outside, link, pages, asking, losses>>

----------------------------------------------------------------------------
(* list_devices, and the overlay of the cache *)

Listed == [d \in Devices |-> IF d \in Controllable /\ home[d] # Gone THEN home[d] ELSE None]

Overlaid(list) ==
    [d \in Devices |-> IF list[d] # None /\ cache[d] # None THEN cache[d] ELSE list[d]]

(* GET /devices/events *)

\* The route subscribes; the stream begins later.
Subscribe(p) ==
    /\ stream[p] = "closed"
    /\ stream' = [stream EXCEPT ![p] = "opened"]
    /\ queued' = [queued EXCEPT ![p] = <<>>]
    /\ subs' = subs \cup {p}
    /\ UNCHANGED <<outside, listener, cache, view, stale, asking, losses>>

Snapshot(p) ==
    /\ stream[p] = "opened"
    /\ stream' = [stream EXCEPT ![p] = "live"]
    /\ view' = [view EXCEPT ![p] = Overlaid(Listed)]
    /\ UNCHANGED <<outside, listener, cache, subs, queued, stale, asking, losses>>

\* Home Assistant is unreachable: the snapshot holds nothing but the error.
SnapshotError(p) ==
    /\ losses < MaxLosses /\ losses' = losses + 1
    /\ stream[p] = "opened"
    /\ stream' = [stream EXCEPT ![p] = "live"]
    /\ UNCHANGED <<outside, listener, cache, subs, queued, view, stale, asking>>

\* An event reaches the page, which changes a device it knows and adds none.
Deliver(p) ==
    /\ stream[p] = "live" /\ queued[p] # <<>>
    /\ queued' = [queued EXCEPT ![p] = Tail(@)]
    /\ view' = [view EXCEPT ![p][Head(queued[p])[1]] = IF @ = None THEN @ ELSE Head(queued[p])[2]]
    /\ overtaken' = [overtaken EXCEPT ![p] =
            IF reload[p] = "answered" THEN @ \cup {Head(queued[p])[1]} ELSE @]
    /\ stale' = [stale EXCEPT ![p] = @ \ {Head(queued[p])[1]}]
    /\ UNCHANGED <<outside, listener, cache, subs, stream, reload, got, reloads, losses>>

\* The page goes, or the snapshot raises what list_devices does not catch: the stream
\* unsubscribes when it ends.
Close(p) ==
    /\ stream[p] \in {"opened", "live"}
    /\ stream' = [stream EXCEPT ![p] = "closed"]
    /\ subs' = subs \ {p}
    /\ queued' = [queued EXCEPT ![p] = <<>>]
    /\ view' = [view EXCEPT ![p] = Nothing]
    /\ stale' = [stale EXCEPT ![p] = {}]
    /\ reload' = [reload EXCEPT ![p] = "none"]
    /\ got' = [got EXCEPT ![p] = Nothing]
    /\ overtaken' = [overtaken EXCEPT ![p] = {}]
    /\ UNCHANGED <<outside, listener, cache, reloads, losses>>

\* The page goes before the stream has begun: nothing unsubscribes.
Abandon(p) ==
    /\ stream[p] = "opened"
    /\ stream' = [stream EXCEPT ![p] = "abandoned"]
    /\ UNCHANGED <<outside, listener, cache, subs, queued, view, stale, asking, losses>>

----------------------------------------------------------------------------
(* GET /devices, in a thread: the list, the overlay, and the answer's way to the page *)

AskList(p) ==
    /\ stream[p] = "live" /\ reload[p] = "none" /\ reloads < MaxReloads
    /\ reloads' = reloads + 1
    /\ reload' = [reload EXCEPT ![p] = "listed"]
    /\ got' = [got EXCEPT ![p] = Listed]
    /\ UNCHANGED <<outside, listener, cache, subs, queued, pages, overtaken, losses>>

\* Mutant: the list is answered as it is.
AnswerRaw(p) ==
    /\ reload[p] = "listed"
    /\ reload' = [reload EXCEPT ![p] = "answered"]
    /\ UNCHANGED <<outside, listener, cache, subs, queued, pages, got, overtaken, reloads, losses>>

Answer(p) ==
    /\ reload[p] = "listed"
    /\ reload' = [reload EXCEPT ![p] = "answered"]
    /\ got' = [got EXCEPT ![p] = Overlaid(@)]
    /\ UNCHANGED <<outside, listener, cache, subs, queued, pages, overtaken, reloads, losses>>

Arrive(p) ==
    /\ reload[p] = "answered"
    /\ reload' = [reload EXCEPT ![p] = "none"]
    /\ view' = [view EXCEPT ![p] = got[p]]
    /\ stale' = [stale EXCEPT ![p] = overtaken[p]]
    /\ got' = [got EXCEPT ![p] = Nothing]
    /\ overtaken' = [overtaken EXCEPT ![p] = {}]
    /\ UNCHANGED <<outside, listener, cache, subs, queued, stream, reloads, losses>>

----------------------------------------------------------------------------

Listening == Connect \/ AuthRequired \/ AuthOk \/ Subscribed \/ Reconnect \/ SkipEvent \/ Handle

Serving(p) == Snapshot(p) \/ Deliver(p) \/ Answer(p) \/ Arrive(p)

EventsNext ==
    \/ \E d \in Devices : Change(d)
    \/ Listening \/ LoseConnection \/ Refuse
    \/ \E p \in Pages :
          \/ Serving(p)
          \/ Subscribe(p) \/ SnapshotError(p) \/ Close(p) \/ Abandon(p)
          \/ AskList(p)

\* The loop runs, Home Assistant answers it, and the pages read what they are sent.
Fairness == WF_eventVars(Listening) /\ \A p \in Pages : WF_eventVars(Serving(p))

EventsSpec == EventsInit /\ [][EventsNext]_eventVars /\ Fairness

----------------------------------------------------------------------------
(* Properties *)

About(events, d) == {i \in 1..Len(events) : events[i][1] = d}

\* The state of d after a run of events, from state s.
After(s, events, d) ==
    IF About(events, d) = {} THEN s
    ELSE events[CHOOSE i \in About(events, d) : \A j \in About(events, d) : j <= i][2]

Shown(p) == {d \in Controllable : view[p][d] # None}

\* And followed by the events on the wire too it is the home's own state, for every
\* device whose last change was sent as an event (home_assistant.py:249-270).
PagesCatchUp ==
    \A p \in subs : stream[p] = "live" =>
        \A d \in Shown(p) \ (stale[p] \cup missed) :
            home[d] # Gone => After(view[p][d], queued[p] \o wire, d) = home[d]

\* A page that stays subscribed comes to show the home as it is, but for the changes
\* that no event told (main.py:614-651).
PageConverges ==
    \A p \in Pages :
        <>[](p \in subs /\ stream[p] = "live") =>
        <>[](\A d \in Shown(p) \ (stale[p] \cup missed) :
                home[d] # Gone => view[p][d] = home[d])

\* However the connection ends, and whatever Home Assistant answered, the listener
\* subscribes again (home_assistant.py:225-275).
ListenerReturns == []<>(link = "up")
=============================================================================
