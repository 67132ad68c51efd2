---------------------------- MODULE EventStream ----------------------------
(***************************************************************************)
(* The event bus of every node (internal/events) and the firehose one      *)
(* client reads at its entry node: SSEHandlerWithPeers, the WatchEvents    *)
(* streams it opens to the peers, and the Merger                           *)
(* (internal/apiserver/sse.go, watchevents.go).                            *)
(*                                                                         *)
(* An event is <<n, b, k>>: number k of node n in its b-th run.  Its wire  *)
(* id "n-k" does not name the run.  chan is a bus subscription; wire is    *)
(* what is on the way from there to the client (gRPC stream, peerCh,       *)
(* merged), which blocks and loses nothing while it is connected.          *)
(***************************************************************************)
EXTENDS Naturals, Sequences, FiniteSetsExt, Functions

CONSTANTS
    Sources,
    Entry,          \* the node the client is connected to
    RingSize,       \* events a bus keeps
    ChanSize,       \* events a subscription buffers
    MaxEvents,      \* bound on the events of a node's run
    MaxConnects,
    MaxRestarts,
    NoCursor

Events == Sources \X (0 .. MaxRestarts) \X (1 .. MaxEvents)

ASSUME EventStreamAssumption ==
    /\ Entry \in Sources
    /\ RingSize \in Nat \ {0} /\ ChanSize \in Nat \ {0}
    /\ MaxEvents \in Nat /\ MaxConnects \in Nat /\ MaxRestarts \in Nat
    /\ NoCursor \notin Events

VARIABLES
    run, seq, ring, \* a bus: runs of the node before this one, last number, buffer
    spc,            \* the stream from a node: "off", "replay", "subscribe" or "live"
    chan, wire,     \* see above
    seen,           \* Merger.seen
    since,          \* Last-Event-ID of the connection: the event it names, or NoCursor
    cursor,         \* the event whose id the client got last, or NoCursor
    got,            \* the events the client ever got
    last,           \* per node, number of the last event of this connection
    connects, restarts,
    gap, dropped    \* history: events no stream will carry; why, see the properties

bus == <<run, seq, ring>>
client == <<cursor, got, last>>
firehoseVars == <<bus, spc, chan, wire, seen, since, client, connects, restarts, gap, dropped>>

FirehoseInit ==
    /\ run = [n \in Sources |-> 0] /\ seq = [n \in Sources |-> 0] /\ ring = [n \in Sources |-> <<>>]
    /\ spc = [n \in Sources |-> "off"]
    /\ chan = [n \in Sources |-> <<>>] /\ wire = [n \in Sources |-> <<>>]
    /\ seen = {} /\ since = NoCursor
    /\ cursor = NoCursor /\ got = {} /\ last = [n \in Sources |-> 0]
    /\ connects = 0 /\ restarts = 0
    /\ gap = {} /\ dropped = {}

-----------------------------------------------------------------------------
Id(e) == <<e[1], e[3]>>

\* The last RingSize events.
Trim(s) == IF Len(s) > RingSize THEN SubSeq(s, Len(s) - RingSize + 1, Len(s)) ELSE s

\* Publish: number, buffer, fan out without blocking.
Publish(n) ==
    LET e == <<n, run[n], seq[n] + 1>>
        full == Len(chan[n]) >= ChanSize
        rotated == Range(ring[n]) \ Range(Trim(Append(ring[n], e))) IN
    /\ seq[n] < MaxEvents
    /\ seq' = [seq EXCEPT ![n] = @ + 1]
    /\ ring' = [ring EXCEPT ![n] = Trim(Append(@, e))]
    /\ chan' = IF spc[n] = "live" /\ ~full THEN [chan EXCEPT ![n] = Append(@, e)] ELSE chan
    /\ gap' = IF spc[n] = "subscribe" THEN gap \cup {e} ELSE gap
    /\ dropped' = dropped
            \cup (IF spc[n] = "live" /\ full THEN {e} ELSE {})
            \cup (rotated \ (got \cup Range(chan[n]) \cup Range(wire[n])))
    /\ UNCHANGED <<run, spc, wire, seen, since, client, connects, restarts>>

-----------------------------------------------------------------------------
\* The client connects, with the last id it got.
Connect ==
    /\ spc[Entry] = "off"
    /\ connects < MaxConnects /\ connects' = connects + 1
    /\ since' = cursor
    /\ spc' = [spc EXCEPT ![Entry] = "replay"]
    /\ seen' = {} /\ last' = [n \in Sources |-> 0]
    /\ UNCHANGED <<bus, chan, wire, cursor, got, restarts, gap, dropped>>

\* parseSinceSeq: the number behind the last dash, whichever node's it is.
SinceSeq == IF since = NoCursor THEN 0 ELSE since[3]

\* Bus.Replay: what the buffer has after number k, and as it is in order, that is
\* its end.
After(s, k) ==
    LET newer == {i \in DOMAIN s : s[i][3] > k} IN
    IF newer = {} THEN <<>> ELSE SubSeq(s, Min(newer), Len(s))

\* Mutant: an off-by-one in the comparison with the cursor.
BackfillStrict(n) == After(ring[n], SinceSeq + 1)

\* The backfill of a stream.
Backfill(n) == After(ring[n], SinceSeq)

\* The backfill is written: at the entry node to the client, at a peer to its
\* stream.
Replay(n) ==
    LET out == Backfill(n)
        foreign == since # NoCursor /\ (since[1] # n \/ since[2] # run[n]) IN
    /\ spc[n] = "replay"
    /\ spc' = [spc EXCEPT ![n] = "subscribe"]
    /\ IF n = Entry /\ out # <<>>
       THEN /\ got' = got \cup Range(out)
            /\ cursor' = out[Len(out)]
            /\ last' = [last EXCEPT ![n] = out[Len(out)][3]]
            /\ UNCHANGED wire
       ELSE /\ wire' = [wire EXCEPT ![n] = @ \o out]
            /\ UNCHANGED client
    /\ dropped' = IF foreign THEN dropped \cup (Range(ring[n]) \ (Range(out) \cup got)) ELSE dropped
    /\ UNCHANGED <<bus, chan, seen, since, connects, restarts, gap>>

\* Mutant: Subscribe waits for a first event.
SubscribeWaits(n) ==
    /\ spc[n] = "subscribe" /\ ring[n] # <<>>
    /\ spc' = [m \in Sources |-> IF m = n THEN "live" ELSE IF n = Entry THEN "replay" ELSE spc[m]]
    /\ UNCHANGED <<bus, chan, wire, seen, since, client, connects, restarts, gap, dropped>>

\* Bus.Subscribe; after its own the entry node opens the peers' streams.
Subscribe(n) ==
    /\ spc[n] = "subscribe"
    /\ spc' = [m \in Sources |-> IF m = n THEN "live" ELSE IF n = Entry THEN "replay" ELSE spc[m]]
    /\ UNCHANGED <<bus, chan, wire, seen, since, client, connects, restarts, gap, dropped>>

\* The stream takes an event from its subscription.
Forward(n) ==
    /\ chan[n] # <<>>
    /\ wire' = [wire EXCEPT ![n] = Append(@, Head(chan[n]))]
    /\ chan' = [chan EXCEPT ![n] = Tail(@)]
    /\ UNCHANGED <<bus, spc, seen, since, client, connects, restarts, gap, dropped>>

\* Merger.Consume and the write of what it has not seen.
Consume(n) ==
    LET e == Head(wire[n]) IN
    /\ wire[n] # <<>> /\ spc[Entry] # "off"
    /\ wire' = [wire EXCEPT ![n] = Tail(@)]
    /\ seen' = seen \cup {Id(e)}
    /\ IF Id(e) \in seen
       THEN UNCHANGED client
       ELSE /\ got' = got \cup {e}
            /\ cursor' = e
            /\ last' = [last EXCEPT ![n] = e[3]]
    /\ UNCHANGED <<bus, spc, chan, since, connects, restarts, gap, dropped>>

\* What is on the way is lost with the connection; the buffers may still have it.
Hangup(buffers) ==
    LET flying == UNION {Range(chan[n]) \cup Range(wire[n]) : n \in Sources} IN
    /\ spc' = [n \in Sources |-> "off"]
    /\ chan' = [n \in Sources |-> <<>>] /\ wire' = [n \in Sources |-> <<>>]
    /\ dropped' = dropped \cup (flying \ UNION {Range(buffers[n]) : n \in Sources})

Disconnect ==
    /\ spc[Entry] # "off"
    /\ Hangup(ring)
    /\ UNCHANGED <<bus, seen, since, client, connects, restarts, gap>>

\* A peer's stream cannot be opened, or breaks; it is not opened again.
StreamFails(n) ==
    /\ n # Entry /\ spc[n] # "off"
    /\ spc' = [spc EXCEPT ![n] = "off"]
    /\ chan' = [chan EXCEPT ![n] = <<>>]
    /\ dropped' = dropped \cup (Range(chan[n]) \ Range(ring[n]))
    /\ UNCHANGED <<bus, wire, seen, since, client, connects, restarts, gap>>

\* A node dies and starts with a new bus; the entry node takes the connection
\* along, a peer only its own stream.
Restart(n) ==
    /\ restarts < MaxRestarts /\ restarts' = restarts + 1
    /\ run' = [run EXCEPT ![n] = @ + 1]
    /\ seq' = [seq EXCEPT ![n] = 0]
    /\ ring' = [ring EXCEPT ![n] = <<>>]
    /\ IF n = Entry THEN Hangup(ring')
       ELSE /\ spc' = [spc EXCEPT ![n] = "off"]
            /\ chan' = [chan EXCEPT ![n] = <<>>]
            /\ UNCHANGED <<wire, dropped>>
    /\ UNCHANGED <<seen, since, client, connects, gap>>

FirehoseStep(n) == Replay(n) \/ Subscribe(n) \/ Forward(n) \/ Consume(n)

FirehoseNext ==
    \/ \E n \in Sources : Publish(n) \/ FirehoseStep(n) \/ StreamFails(n) \/ Restart(n)
    \/ Connect \/ Disconnect

FirehoseSpec == FirehoseInit /\ [][FirehoseNext]_firehoseVars

\* Goroutines of the stream are scheduled.
FairFirehose == FirehoseSpec /\ \A n \in Sources : WF_firehoseVars(FirehoseStep(n))

-----------------------------------------------------------------------------
Quiet == \A n \in Sources : spc[n] = "live" /\ chan[n] = <<>> /\ wire[n] = <<>>

\* Type invariant.
EventTypeOK ==
    /\ run \in [Sources -> 0 .. MaxRestarts] /\ seq \in [Sources -> 0 .. MaxEvents]
    /\ \A n \in Sources : Range(ring[n]) \subseteq Events /\ Len(ring[n]) <= RingSize
    /\ spc \in [Sources -> {"off", "replay", "subscribe", "live"}]
    /\ \A n \in Sources : Range(chan[n]) \cup Range(wire[n]) \subseteq Events /\ Len(chan[n]) <= ChanSize
    /\ seen \subseteq Sources \X (1 .. MaxEvents) /\ since \in Events \cup {NoCursor}
    /\ cursor \in Events \cup {NoCursor} /\ got \subseteq Events /\ last \in [Sources -> 0 .. MaxEvents]
    /\ connects \in 0 .. MaxConnects /\ restarts \in 0 .. MaxRestarts
    /\ gap \subseteq Events /\ dropped \subseteq Events

\* In one connection the events of a node come in the order of their numbers
\* and none comes twice, through backfill, subscription and merger: what is on
\* the way is newer than what the client has, and in order.
PerNodeOrder ==
    \A n \in Sources :
        LET way == wire[n] \o chan[n] IN
        \A i \in DOMAIN way : way[i][3] > IF i = 1 THEN last[n] ELSE way[i - 1][3]

\* A client that is caught up has every event except those published between
\* Replay and Subscribe (gap), those a full channel refused, those the ring had
\* rotated out before a backfill, and those a backfill left out because the
\* Last-Event-ID was another node's, or of a node's earlier run (dropped):
\* reconnecting loses nothing else.
NothingElseIsLost ==
    Quiet => \A n \in Sources : \A k \in 1 .. seq[n] : <<n, run[n], k>> \in got \cup gap \cup dropped

\* The stream is the log of each node with named holes: in order on every hop,
\* no event twice in a connection, and none missing but those a reconnecting
\* client can account for.
StreamIsFaithful == PerNodeOrder /\ NothingElseIsLost

\* A stream backfills and then carries the live events, with nothing between.
NoGap == gap = {}

\* A node's ids are monotonic: no two of its events have the same id.
IdsAreUnique == \A d, e \in got : Id(d) = Id(e) => d = e

\* Once publishing pauses, a connected client catches up with every node whose
\* stream has not failed, or loses the connection.
CatchesUp ==
    [](spc[Entry] # "off" =>
        <>(spc[Entry] = "off" \/ \A n \in Sources : spc[n] \in {"live", "off"} /\ chan[n] = <<>> /\ wire[n] = <<>>))
=============================================================================
