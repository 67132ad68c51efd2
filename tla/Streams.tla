------------------------------ MODULE Streams -------------------------------
(***************************************************************************)
(* What watches a sandbox while the requests of DaemonCalls work on it:    *)
(* the log and statistics streams (internal/apiserver/observe_sse.go), the *)
(* terminal (terminal.go), and the statistics collector whose samples      *)
(* count as activity (internal/obsd/stats.go, the ticker of                *)
(* internal/node/node.go).                                                 *)
(*                                                                         *)
(* A log stream is a handler, a pump that scans the session into a bounded *)
(* channel, and a closer that ends the session with the request's context. *)
(* A terminal is a handler that reads the socket and a pump that reads the *)
(* session.                                                                *)
(***************************************************************************)
EXTENDS DaemonCalls, Sequences

CONSTANTS
    Streams,     \* requests for a stream; setup.streams[s] is its kind
    ChanCap,     \* capacity of the channel of lines
    MaxOutput    \* lines or chunks a session yields

VARIABLES
    hand,        \* the handler: "new", "loop", "ended"
    pump,        \* "none", "read", "send", "fail", "ended"
    closer,      \* "none", "wait", "ended"
    client,      \* "here", "gone"
    done,        \* the context is cancelled
    sess,        \* "none", "open", "eof", "broken", "closed"
    chan,        \* lines: sequence of "line" and "err"
    output,      \* what the session has yielded
    tpc, got, latest    \* the ticker: step, the sample taken, the sample cached

streams == <<hand, pump, closer, client, done, sess, chan, output>>
ticker == <<tpc, got, latest>>
allVars == <<vars, streams, ticker>>

kind(s) == setup.streams[s]
Set(f, s, x) == [f EXCEPT ![s] = x]

StreamInit ==
    /\ Init
    /\ hand = [s \in Streams |-> "new"] /\ pump = [s \in Streams |-> "none"]
    /\ closer = [s \in Streams |-> "none"] /\ client = [s \in Streams |-> "here"]
    /\ done = [s \in Streams |-> FALSE] /\ sess = [s \in Streams |-> "none"]
    /\ chan = [s \in Streams |-> <<>>] /\ output = [s \in Streams |-> 0]
    /\ tpc = "idle" /\ got = None /\ latest = None

-----------------------------------------------------------------------------
\* What the streams leave alone: all but the machine, the activity, the faults.
Quiet == UNCHANGED <<setup, handlers, record, audit, tables, runs, history, ticker>>

\* The session that the stream is fed from; a terminal starts the machine.
OpenSession(s) ==
    \/ kind(s) = "logs" /\ vm = "running" /\ UNCHANGED vm
    \/ kind(s) = "terminal" /\ vm # "none" /\ vm' = "running"

Refused(s) == vm = "none" \/ (kind(s) = "logs" /\ vm # "running")

\* net/http cancels the request's context when the handler returns.
Return(s) ==
    /\ hand' = Set(hand, s, "ended")
    /\ done' = Set(done, s, TRUE)

\* A terminal is activity, when it begins; f counts the faults until then.
Open(s) ==
    /\ hand[s] = "new" /\ kind(s) # "none"
    /\ \E f \in {faults, faults + 1} :
        /\ IF kind(s) = "terminal" THEN BumpActivity(f) ELSE f = faults /\ UNCHANGED age
        /\ \/ record = "none" /\ Return(s) /\ faults' = f /\ UNCHANGED <<vm, pump, closer, sess>>
           \/ /\ record # "none" /\ kind(s) = "stats"
              /\ hand' = Set(hand, s, "loop") /\ faults' = f /\ UNCHANGED <<vm, pump, closer, sess, done>>
           \/ /\ record # "none" /\ kind(s) # "stats" /\ OpenSession(s)
              /\ hand' = Set(hand, s, "loop") /\ pump' = Set(pump, s, "read") /\ sess' = Set(sess, s, "open")
              /\ closer' = Set(closer, s, IF kind(s) = "logs" THEN "wait" ELSE "none")
              /\ faults' = f /\ UNCHANGED done
           \/ /\ record # "none" /\ kind(s) # "stats" /\ Return(s)
              /\ \/ Refused(s) /\ faults' = f
                 \/ f < MaxFaults /\ faults' = f + 1
              /\ UNCHANGED <<vm, pump, closer, sess>>
    /\ UNCHANGED <<client, chan, output>> /\ Quiet

\* The session yields a line; the process behind it ends, or its machine does;
\* the transport breaks.
Yield(s) ==
    /\ sess[s] = "open" /\ pump[s] = "read" /\ output[s] < MaxOutput
    /\ output' = Set(output, s, output[s] + 1)
    /\ pump' = Set(pump, s, "send")
    /\ UNCHANGED <<hand, closer, client, done, sess, chan, vm, age, faults>> /\ Quiet

SessionEnds(s) ==
    /\ sess[s] = "open"
    /\ \/ sess' = Set(sess, s, "eof") /\ UNCHANGED faults
       \/ sess' = Set(sess, s, "broken") /\ faults < MaxFaults /\ faults' = faults + 1
    /\ UNCHANGED <<hand, pump, closer, client, done, chan, output, vm, age>> /\ Quiet

MachineGone(s) ==
    /\ sess[s] = "open" /\ vm # "running"
    /\ sess' = Set(sess, s, "eof")
    /\ UNCHANGED <<hand, pump, closer, client, done, chan, output, vm, age, faults>> /\ Quiet

ClientLeaves(s) ==
    /\ kind(s) # "none" /\ client[s] = "here" /\ client' = Set(client, s, "gone")
    /\ UNCHANGED <<hand, pump, closer, done, sess, chan, output, vm, age, faults>> /\ Quiet

\* The server notices that the peer of a plain request has gone.
NoticeLeft(s) ==
    /\ client[s] = "gone" /\ hand[s] = "loop" /\ kind(s) # "terminal" /\ ~done[s]
    /\ done' = Set(done, s, TRUE)
    /\ UNCHANGED <<hand, pump, closer, client, sess, chan, output, vm, age, faults>> /\ Quiet

-----------------------------------------------------------------------------
(***************************************************************************)
(* Logs.                                                                   *)
(***************************************************************************)
PumpEnds(s) == pump' = Set(pump, s, "ended") /\ sess' = Set(sess, s, "closed")

\* The scan ends: on a clean end of the stream nothing is sent.
LogsScanned(s) ==
    /\ kind(s) = "logs" /\ pump[s] = "read" /\ sess[s] # "open"
    /\ \/ sess[s] \in {"eof", "closed"} /\ PumpEnds(s)
       \/ sess[s] \in {"broken", "closed"} /\ pump' = Set(pump, s, "fail") /\ UNCHANGED sess
    /\ UNCHANGED <<hand, closer, client, done, chan, output, vm, age, faults>> /\ Quiet

LogsSend(s) ==
    /\ kind(s) = "logs" /\ pump[s] \in {"send", "fail"}
    /\ \/ /\ Len(chan[s]) < ChanCap
          /\ chan' = Set(chan, s, Append(chan[s], IF pump[s] = "send" THEN "line" ELSE "err"))
          /\ IF pump[s] = "send" THEN pump' = Set(pump, s, "read") /\ UNCHANGED sess ELSE PumpEnds(s)
       \/ done[s] /\ PumpEnds(s) /\ UNCHANGED chan
    /\ UNCHANGED <<hand, closer, client, done, output, vm, age, faults>> /\ Quiet

\* Mutant: the session is left to the pump.
CloserIdle(s) ==
    /\ closer[s] = "wait" /\ done[s]
    /\ closer' = Set(closer, s, "ended") /\ UNCHANGED sess
    /\ UNCHANGED <<hand, pump, client, done, chan, output, vm, age, faults>> /\ Quiet

\* The end of the context closes the session under a parked scan.
Closer(s) ==
    /\ closer[s] = "wait" /\ done[s]
    /\ closer' = Set(closer, s, "ended") /\ sess' = Set(sess, s, "closed")
    /\ UNCHANGED <<hand, pump, client, done, chan, output, vm, age, faults>> /\ Quiet

LogsLoop(s) ==
    /\ kind(s) = "logs" /\ hand[s] = "loop"
    /\ \/ done[s] /\ Return(s) /\ UNCHANGED chan
       \/ /\ chan[s] # <<>> /\ chan' = Set(chan, s, Tail(chan[s]))
          /\ IF Head(chan[s]) = "err" THEN Return(s) ELSE UNCHANGED <<hand, done>>
    /\ UNCHANGED <<pump, closer, client, sess, output, vm, age, faults>> /\ Quiet

-----------------------------------------------------------------------------
(***************************************************************************)
(* Terminals, and the statistics stream, which only waits for its end.     *)
(***************************************************************************)
\* The one reader of the session's output; its end closes the socket and
\* cancels the handler's read.
TermPump(s) ==
    /\ kind(s) = "terminal"
    /\ \/ pump[s] = "read" /\ sess[s] # "open" /\ pump' = Set(pump, s, "ended") /\ done' = Set(done, s, TRUE)
       \/ /\ pump[s] = "send" /\ client[s] = "here" /\ ~done[s]
          /\ pump' = Set(pump, s, "read") /\ UNCHANGED done
       \/ /\ pump[s] = "send" /\ (client[s] = "gone" \/ done[s])
          /\ pump' = Set(pump, s, "ended") /\ done' = Set(done, s, TRUE)
    /\ UNCHANGED <<hand, closer, client, sess, chan, output, vm, age, faults>> /\ Quiet

\* The socket's read fails, or the write of a keystroke does; the deferred
\* calls cancel the pump and close the session.
TermLoop(s) ==
    /\ kind(s) = "terminal" /\ hand[s] = "loop"
    /\ client[s] = "gone" \/ done[s] \/ sess[s] # "open"
    /\ Return(s) /\ sess' = Set(sess, s, "closed")
    /\ UNCHANGED <<pump, closer, client, chan, output, vm, age, faults>> /\ Quiet

StatsLoop(s) ==
    /\ kind(s) = "stats" /\ hand[s] = "loop" /\ done[s] /\ Return(s)
    /\ UNCHANGED <<pump, closer, client, sess, chan, output, vm, age, faults>> /\ Quiet

-----------------------------------------------------------------------------
(***************************************************************************)
(* The ticker: the running sandboxes are probed, the cache is replaced,    *)
(* and a busy sandbox is active.                                           *)
(***************************************************************************)
PollStats ==
    /\ setup.ticks
    /\ \/ /\ tpc = "idle" /\ tpc' = IF record = "running" THEN "probe" ELSE "swap"
          /\ got' = None /\ UNCHANGED <<latest, age, faults>>
       \/ /\ tpc = "probe" /\ tpc' = "swap" /\ UNCHANGED <<latest, age, faults>>
          /\ \E u \in IF vm = "running" THEN {"busy", "calm"} ELSE {None} : got' = u
       \/ tpc = "swap" /\ tpc' = "bump" /\ latest' = got /\ UNCHANGED <<got, age, faults>>
       \/ /\ tpc = "bump" /\ tpc' = "idle" /\ UNCHANGED <<got, latest>>
          /\ IF record = "running" /\ latest = "busy" THEN BumpActivity(faults') ELSE UNCHANGED <<age, faults>>
    /\ UNCHANGED <<setup, handlers, record, audit, vm, tables, runs, history, streams>>

-----------------------------------------------------------------------------
Serve(s) ==
    LogsScanned(s) \/ LogsSend(s) \/ Closer(s) \/ LogsLoop(s) \/ TermPump(s) \/ TermLoop(s) \/ StatsLoop(s)

StreamNext ==
    \/ Next /\ UNCHANGED <<streams, ticker>>
    \/ \E s \in Streams : Open(s) \/ Yield(s) \/ SessionEnds(s) \/ MachineGone(s) \/ ClientLeaves(s) \/ NoticeLeft(s) \/ Serve(s)
    \/ PollStats

StreamSpec == StreamInit /\ [][StreamNext]_allVars

\* Goroutines run, the server notices closed connections, and a session ends
\* with its machine.
StreamFairness ==
    \A s \in Streams :
        /\ WF_allVars(LogsScanned(s) \/ LogsSend(s)) /\ WF_allVars(Closer(s)) /\ WF_allVars(LogsLoop(s))
        /\ WF_allVars(TermPump(s)) /\ WF_allVars(TermLoop(s)) /\ WF_allVars(StatsLoop(s))
        /\ WF_allVars(NoticeLeft(s)) /\ WF_allVars(MachineGone(s))

StreamFairSpec == StreamSpec /\ StreamFairness

-----------------------------------------------------------------------------
Released(s) ==
    /\ hand[s] # "loop" /\ pump[s] \in {"none", "ended"} /\ closer[s] # "wait"
    /\ sess[s] \in {"none", "closed"}

\* Nothing leaks: when the client has gone, or a terminal's session has ended,
\* the handler returns, its goroutines end and the session is closed.
StreamsEnd ==
    \A s \in Streams :
        (client[s] = "gone" \/ (kind(s) = "terminal" /\ sess[s] \in {"eof", "broken"})) ~> Released(s)

\* "lines are sent to out until ctx is done or the stream ends (a final LogLine
\* with non-nil Err signals end/error)": when the log has ended, so does the
\* stream.
LogStreamEnds == \A s \in Streams : (kind(s) = "logs" /\ sess[s] \in {"eof", "broken"}) ~> (hand[s] = "ended")
=============================================================================
