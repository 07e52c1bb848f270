------------------------------- MODULE LiveStream -------------------------------
(***************************************************************************)
(* The portal's live channels: what the backend publishes (EventBus, the     *)
(* log ring), one SSE connection, and the browser's channel that keeps       *)
(* itself alive over it (sseChannelStore.ts with the reducers of             *)
(* useEventStream.ts and useLogStream.ts).                                   *)
(*                                                                          *)
(* A behaviour is about one of the two channels, `kind`: "ingest", fed by    *)
(* the save tail through the bus, or "logs", polled from the ring.  A        *)
(* connection's queue stands for the subscriber queue and the bytes under    *)
(* way behind it.  A connection may break, the backend may crash and the     *)
(* page be left and opened again at any time.  Pings, and responses a        *)
(* browser does not retry (a 404), are left out.                             *)
(***************************************************************************)
EXTENDS Integers, Sequences, FiniteSetsExt, SequencesExt

CONSTANTS Kinds,        \* the channels looked at, of {"ingest", "logs"}
          Buffer,       \* BUFFER_SIZE of a subscriber queue
          Ring,         \* MAX_BUFFERED_LINES of the log ring
          MaxErrors,    \* MAX_CONSECUTIVE_ERRORS
          InOrder,      \* whether replies come in the order of the requests
          MaxSaves,     \* bound on the saves captured
          MaxLines,     \* bound on the lines logged in one boot
          MaxFaults,    \* bound on broken connections and crashes
          MaxVisits,    \* bound on the visits to the page
          MaxStarts,    \* bound on the starts of the tail
          None

\* What is kept for a page of each kind: the ingest page's connection is
\* registered from its first byte and has frames in its queue, the log page's
\* has line numbers, and only its channel keeps lines.
IngestFrame ==
  [k : {"cache_state", "save_pair_completed", "save_dropped_foreign", "save_tail_stopped",
        "chronicler_recovering", "chronicler_recovered"},
   n : Int]
Connection == [registered : {TRUE}, q : Seq(IngestFrame), owed : Int,
               from : {0}, cursor : {0}, gone : {{}}]
LogChannel == [source : {"connecting", "open", "closed"}, grace : BOOLEAN, errors : Nat,
               timer : BOOLEAN, connected : BOOLEAN, dead : BOOLEAN,
               shown : {None}, seq : {0}, recovering : {FALSE},
               lines : SUBSET (Nat \X Nat), lastSeen : Nat]
LogConnection == [registered : BOOLEAN, q : Seq(Nat), owed : {0}, from : Nat, cursor : Nat,
                  gone : SUBSET Int]

ASSUME StreamAssumption ==
  /\ Kinds \subseteq {"ingest", "logs"} /\ InOrder \in BOOLEAN
  /\ {Buffer, Ring, MaxErrors, MaxVisits, MaxStarts} \subseteq Nat \ {0}
  /\ {MaxSaves, MaxLines, MaxFaults} \subseteq Nat
  /\ None \notin Connection /\ None \notin LogChannel /\ None \notin LogConnection

VARIABLES kind,
          server,    \* up, boot; the tail and its pending saves; the last log line
          posted,    \* frames a worker thread handed to the event loop
          conn,      \* the connection of the page, None without one
          stale,     \* subscriber queues whose client has gone
          channel,   \* the browser's channel, None while the page is closed
          requests,  \* REST requests of this visit under way
          spent      \* what is used up of the bounds

vars == <<kind, server, posted, conn, stale, channel, requests, spent>>

Up == server.up
Tailing == server.tail = "on"
Visiting == channel # None
Spend(what, limit) == spent[what] < limit /\ spent' = [spent EXCEPT ![what] = @ + 1]

(*---------------------------------------------------------------------------
  The bus.
 ---------------------------------------------------------------------------*)

\* Faulty variant: a full queue drops the new frame.
EnqueueOrDrop(q, frame) == IF Len(q) < Buffer THEN Append(q, frame) ELSE q

\* A full queue drops its oldest frame.
Enqueue(q, frame) == Append(IF Len(q) < Buffer THEN q ELSE Tail(q), frame)

\* `owed` counts the frames published since the first byte that were neither
\* received nor displaced.
Deliver(c, frame) ==
  IF c = None THEN None
  ELSE IF ~c.registered THEN [c EXCEPT !.owed = @ + 1]
  ELSE [c EXCEPT !.q = Enqueue(@, frame), !.owed = IF Len(c.q) < Buffer THEN @ + 1 ELSE @]

\* publish from the event loop, and from a worker thread: the subscribers are
\* looked up at once and the frame is put on their queues by the loop.
Publish(frame) == conn' = Deliver(conn, frame)
PublishBoth(first, second) == conn' = Deliver(Deliver(conn, first), second)
PublishFromThread(frame) ==
  IF conn = None THEN UNCHANGED <<posted, conn>>
  ELSE /\ posted' = Append(posted, frame)
       /\ conn' = [conn EXCEPT !.owed = @ + 1]

\* The loop gets to a posted frame.
RunPosted ==
  /\ Up /\ posted # << >>
  /\ conn' = Deliver([conn EXCEPT !.owed = @ - 1], Head(posted))
  /\ posted' = Tail(posted)
  /\ UNCHANGED <<kind, server, stale, channel, requests, spent>>

(*---------------------------------------------------------------------------
  The save tail, as far as it publishes.
 ---------------------------------------------------------------------------*)

Frame(k, n) == [k |-> k, n |-> n]
CacheState(n) == Frame("cache_state", n)

\* A tail with a baseline announces the recovery, which ends with the last save
\* that was waiting: at once if none was.
StartTail ==
  /\ kind = "ingest" /\ Up /\ ~Tailing
  /\ Spend("starts", MaxStarts)
  /\ server' = [server EXCEPT !.tail = "on", !.backlog = server.pending]
  /\ IF server.pending = 0
     THEN PublishBoth(Frame("chronicler_recovering", 0), Frame("chronicler_recovered", 0))
     ELSE Publish(Frame("chronicler_recovering", server.pending))
  /\ UNCHANGED <<kind, posted, stale, channel, requests>>

\* A new save is cached.
Capture ==
  /\ Up /\ Tailing
  /\ Spend("saves", MaxSaves)
  /\ server' = [server EXCEPT !.pending = @ + 1]
  /\ Publish(CacheState(server.pending + 1))
  /\ UNCHANGED <<kind, posted, stale, channel, requests>>

\* A worker thread takes a save in, or finds it to be of another playthrough.
AdvanceBaseline ==
  /\ Up /\ Tailing /\ server.pending > 0 /\ ~server.busy
  /\ server' = [server EXCEPT !.busy = TRUE]
  /\ \E k \in {"save_pair_completed", "save_dropped_foreign"} : PublishFromThread(Frame(k, 0))
  /\ UNCHANGED <<kind, stale, channel, requests, spent>>

\* The thread's result reaches the loop behind the frames it posted.
MarkProcessed ==
  /\ Up /\ Tailing /\ server.busy /\ posted = << >>
  /\ server' = [server EXCEPT !.busy = FALSE, !.pending = @ - 1,
                              !.backlog = IF @ > 0 THEN @ - 1 ELSE 0]
  /\ IF server.backlog = 1
     THEN PublishBoth(CacheState(server.pending - 1), Frame("chronicler_recovered", 0))
     ELSE Publish(CacheState(server.pending - 1))
  /\ UNCHANGED <<kind, posted, stale, channel, requests, spent>>

\* The tail ends, the backend goes on.
StopTail ==
  /\ Up /\ Tailing /\ spent.starts < MaxStarts
  /\ server' = [server EXCEPT !.tail = "off", !.busy = FALSE]
  /\ Publish(Frame("save_tail_stopped", 0))
  /\ UNCHANGED <<kind, posted, stale, channel, requests, spent>>

(*---------------------------------------------------------------------------
  The log ring: lines are numbered from 1 in every boot.
 ---------------------------------------------------------------------------*)

Emit ==
  /\ kind = "logs" /\ Up /\ server.line < MaxLines
  /\ server' = [server EXCEPT !.line = @ + 1]
  /\ UNCHANGED <<kind, posted, conn, stale, channel, requests, spent>>

Recent == {n \in 1..server.line : n > server.line - Ring}
Since(seen) ==
  LET before == Max({seen, server.line - Ring})
  IN  [k \in 1..(server.line - before) |-> before + k]

\* One poll, when the lines of the last one are sent.
Poll ==
  /\ kind = "logs" /\ conn # None /\ conn.registered /\ conn.q = << >>
  /\ conn.cursor < server.line
  /\ conn' = [conn EXCEPT !.q = Since(conn.cursor), !.cursor = server.line,
                          !.gone = @ \cup ((conn.cursor + 1)..(server.line - Ring))]
  /\ UNCHANGED <<kind, server, posted, stale, channel, requests, spent>>

(*---------------------------------------------------------------------------
  The connection.
 ---------------------------------------------------------------------------*)

\* Faulty variant: the queue joins the subscribers on the first iteration.
RegistersFirstNever == FALSE

\* event_stream registers before its first byte; the log stream sets its cursor
\* after it.
RegistersFirst == kind = "ingest"

Accept ==
  /\ Up /\ Visiting /\ channel.source = "connecting" /\ conn = None
  /\ conn' = [registered |-> RegistersFirst, q |-> << >>, owed |-> 0,
              from |-> 0, cursor |-> 0, gone |-> {}]
  /\ UNCHANGED <<kind, server, posted, stale, channel, requests, spent>>

SeedCursor ==
  /\ conn # None /\ ~conn.registered
  /\ conn' = [conn EXCEPT !.registered = TRUE, !.from = server.line, !.cursor = server.line]
  /\ UNCHANGED <<kind, server, posted, stale, channel, requests, spent>>

\* The backend notices that a client has gone, and unsubscribes its queue.
Unwind ==
  /\ stale > 0 /\ stale' = stale - 1
  /\ UNCHANGED <<kind, server, posted, conn, channel, requests, spent>>

\* What is left of a connection the client let go of: frames posted for it end
\* up on a queue nobody reads.
Abandon ==
  /\ conn' = None /\ posted' = << >>
  /\ stale' = IF conn # None /\ conn.registered THEN stale + 1 ELSE stale

(*---------------------------------------------------------------------------
  The browser's channel.
 ---------------------------------------------------------------------------*)

NewChannel ==
  [source |-> "connecting", grace |-> TRUE, errors |-> 0, timer |-> FALSE,
   connected |-> FALSE, dead |-> FALSE,
   shown |-> None, seq |-> 0, recovering |-> FALSE,   \* useEventStream
   lines |-> {}, lastSeen |-> 0]                      \* useLogStream, lines as <<boot, seq>>

\* onDead: only the ingest channel drops what a live stream has to vouch for.
OnDead(ch) == IF kind = "ingest" THEN [ch EXCEPT !.shown = None] ELSE ch

\* onerror.  Nothing counts in the grace period, and the browser tries again by
\* itself until the channel closes the source and sets a timer.  (Errors are
\* counted up to the limit, past which the count makes no difference.)
OnError(ch) ==
  IF ch.grace THEN [ch EXCEPT !.source = "connecting"]
  ELSE IF ch.errors + 1 >= MaxErrors
       THEN OnDead([ch EXCEPT !.source = "closed", !.errors = MaxErrors, !.connected = FALSE,
                              !.dead = TRUE, !.timer = TRUE])
       ELSE [ch EXCEPT !.source = "connecting", !.errors = @ + 1, !.connected = FALSE]

\* onopen, and the ingest channel's resync, which remembers the sequence number
\* it starts from.
Opened ==
  /\ Visiting /\ channel.source = "connecting" /\ conn # None
  /\ channel' = [channel EXCEPT !.source = "open", !.errors = 0, !.connected = TRUE,
                                !.dead = FALSE]
  /\ requests' = IF kind = "ingest"
                 THEN Append(requests, [seq |-> channel.seq, reply |-> None]) ELSE requests
  /\ UNCHANGED <<kind, server, posted, conn, stale, spent>>

\* A try to connect that nobody answers.
Refused ==
  /\ Visiting /\ channel.source = "connecting" /\ ~Up /\ ~channel.grace
  /\ channel' = OnError(channel)
  /\ UNCHANGED <<kind, server, posted, conn, stale, requests, spent>>

\* STARTUP_GRACE_MS have passed since the page was opened.
GraceEnds ==
  /\ Visiting /\ channel.grace
  /\ channel' = [channel EXCEPT !.grace = FALSE]
  /\ UNCHANGED <<kind, server, posted, conn, stale, requests, spent>>

\* The reconnect timer of a dead channel.
Probe ==
  /\ Visiting /\ channel.timer
  /\ channel' = [channel EXCEPT !.timer = FALSE,
                   !.source = IF @ = "closed" THEN "connecting" ELSE @]
  /\ UNCHANGED <<kind, server, posted, conn, stale, requests, spent>>

\* Frames that only a live tail sends.
TailAlive == {"cache_state", "save_pair_completed", "chronicler_recovering",
              "chronicler_recovered"}

\* reduceIngestFrame
ReduceIngestFrame(ch, frame) ==
  LET next == IF ch.dead /\ frame.k \in TailAlive
              THEN [ch EXCEPT !.dead = FALSE, !.connected = TRUE] ELSE ch
  IN  CASE frame.k = "cache_state" -> [next EXCEPT !.shown = frame.n, !.seq = @ + 1]
        [] frame.k = "chronicler_recovering" -> [next EXCEPT !.recovering = TRUE]
        [] frame.k = "chronicler_recovered" -> [next EXCEPT !.recovering = FALSE]
        [] frame.k = "save_tail_stopped" -> [next EXCEPT !.connected = FALSE, !.dead = TRUE]
        [] OTHER -> next

\* reduceLogFrame: a line no newer than the newest seen is a repetition.
ReduceLogFrame(ch, n) ==
  IF n <= ch.lastSeen THEN ch
  ELSE [ch EXCEPT !.lines = @ \cup {<<server.boot, n>>}, !.lastSeen = n]

Receive ==
  /\ Visiting /\ channel.source = "open" /\ conn # None /\ conn.q # << >>
  /\ channel' = IF kind = "ingest" THEN ReduceIngestFrame(channel, Head(conn.q))
                ELSE ReduceLogFrame(channel, Head(conn.q))
  /\ conn' = [conn EXCEPT !.q = Tail(@), !.owed = IF kind = "ingest" THEN @ - 1 ELSE @]
  /\ UNCHANGED <<kind, server, posted, stale, requests, spent>>

(*---------------------------------------------------------------------------
  REST beside the stream.
 ---------------------------------------------------------------------------*)

\* ingest-state and logs/recent: the reply says what is so when it is made.
Answer ==
  /\ Up
  /\ \E i \in DOMAIN requests :
       /\ requests[i].reply = None
       /\ requests' = [requests EXCEPT ![i].reply =
                         IF kind = "ingest" THEN server.pending ELSE Recent]
  /\ UNCHANGED <<kind, server, posted, conn, stale, channel, spent>>

\* resyncCacheState: a reply stands unless a frame came since the request.
ApplySnapshot(ch, request) ==
  IF ch.seq # request.seq THEN ch ELSE [ch EXCEPT !.shown = request.reply]

\* Faulty variant: the backfill takes the place of the lines that came live.
SeedReplacing(ch, lines) ==
  [ch EXCEPT !.lines = {<<server.boot, n>> : n \in lines},
             !.lastSeen = Max(lines \cup {@})]

\* seedLogStream: lines whose number is already there are left out.
Seed(ch, lines) ==
  LET fresh == lines \ {l[2] : l \in ch.lines}
  IN  [ch EXCEPT !.lines = @ \cup {<<server.boot, n>> : n \in fresh},
                 !.lastSeen = Max(fresh \cup {@})]

\* A reply arrives.  A line under way that the backfill no longer had is lost to
\* it like one the ring has dropped.
Reply ==
  \E i \in DOMAIN requests :
    LET reply == requests[i].reply
    IN  /\ Visiting /\ reply # None /\ (InOrder => i = 1)
        /\ requests' = RemoveAt(requests, i)
        /\ channel' = IF kind = "ingest" THEN ApplySnapshot(channel, requests[i])
                      ELSE Seed(channel, reply)
        /\ conn' = IF kind = "ingest" \/ conn = None \/ reply = {} THEN conn
                   ELSE [conn EXCEPT !.gone = @ \cup (Range(conn.q) \cap 0..(Min(reply) - 1))]
        /\ UNCHANGED <<kind, server, posted, stale, spent>>

(*---------------------------------------------------------------------------
  What goes wrong, and the user.
 ---------------------------------------------------------------------------*)

\* The network breaks the connection; the backend finds out later.
Break ==
  /\ conn # None /\ Spend("faults", MaxFaults)
  /\ Abandon
  /\ channel' = OnError(channel)
  /\ UNCHANGED <<kind, server, requests>>

\* The process ends, by a crash or through the halt route.  Requests fail, which
\* their callers ignore.
Crash ==
  /\ Up /\ Spend("faults", MaxFaults)
  /\ server' = [server EXCEPT !.up = FALSE, !.tail = "off", !.busy = FALSE]
  /\ posted' = << >> /\ conn' = None /\ stale' = 0
  /\ channel' = IF conn = None THEN channel ELSE OnError(channel)
  /\ requests' = << >>
  /\ UNCHANGED kind

Restart ==
  /\ ~Up
  /\ server' = [server EXCEPT !.up = TRUE, !.boot = @ + 1, !.line = 0]
  /\ UNCHANGED <<kind, posted, conn, stale, channel, requests, spent>>

\* The page is opened: a new channel, and for the log page the backfill.
Mount ==
  /\ ~Visiting /\ Spend("visits", MaxVisits)
  /\ channel' = NewChannel
  /\ requests' = IF kind = "logs" /\ Up THEN <<[seq |-> 0, reply |-> None]>> ELSE << >>
  /\ UNCHANGED <<kind, server, posted, conn, stale>>

\* The last subscriber releases the channel: the source is closed, the timer is
\* cleared, and replies still under way find no channel to be applied to.
Unmount ==
  /\ Visiting /\ spent.visits < MaxVisits
  /\ channel' = None /\ requests' = << >>
  /\ Abandon
  /\ UNCHANGED <<kind, server, spent>>

Init ==
  /\ kind \in Kinds
  /\ server = [up |-> FALSE, boot |-> 0, tail |-> "off", pending |-> 0, backlog |-> 0,
               busy |-> FALSE, line |-> 0]
  /\ posted = << >> /\ conn = None /\ stale = 0 /\ channel = None /\ requests = << >>
  /\ spent = [saves |-> 0, faults |-> 0, visits |-> 0, starts |-> 0]

Client == Opened \/ Refused \/ GraceEnds \/ Probe \/ Receive \/ Reply
Backend == \/ RunPosted \/ AdvanceBaseline \/ MarkProcessed \/ Poll \/ Accept \/ SeedCursor
           \/ Unwind \/ Answer
Upsets == \/ StartTail \/ Capture \/ StopTail \/ Emit \/ Break \/ Crash \/ Restart
          \/ Mount \/ Unmount

Next == Client \/ Backend \/ Upsets

\* Browser and backend get on with what they have begun; that a request is
\* answered and its reply taken is assumed of each on its own.
Fairness ==
  /\ WF_vars(Opened) /\ WF_vars(Refused) /\ WF_vars(GraceEnds)
  /\ WF_vars(Probe) /\ WF_vars(Receive) /\ WF_vars(Reply) /\ WF_vars(Accept)
  /\ WF_vars(Answer) /\ WF_vars(Unwind) /\ WF_vars(RunPosted) /\ WF_vars(MarkProcessed)

Spec == Init /\ [][Next]_vars /\ Fairness

(*---------------------------------------------------------------------------
  Properties.
 ---------------------------------------------------------------------------*)

\* From the first byte of a connection every frame published is received, still
\* under way, or was displaced by a newer one in a full queue, whichever thread
\* published it (EventBus.register before the first yield, publish).
FramesAccounted == conn # None => conn.owed = (IF kind = "ingest" THEN Len(conn.q) ELSE 0) + Len(posted)

\* While the log page is connected, every line since the stream set its cursor
\* is on the page, under way, to be polled, or fell out of the ring before; a
\* line of a restarted backend is also missing while its number is below one of
\* the earlier process (useLogStream.ts, LogBufferHandler.since).
LogComplete ==
  (kind = "logs" /\ Visiting /\ conn # None /\ conn.registered) =>
    LET floor == Max({0} \cup {l[2] : l \in {m \in channel.lines : m[1] # server.boot}})
    IN  \A n \in (conn.from + 1)..conn.cursor :
          \/ <<server.boot, n>> \in channel.lines
          \/ n \in Range(conn.q) \cup conn.gone
          \/ n <= floor

\* Once the backend stays up with a running tail and the page stays open, the
\* page comes to show the tail as connected with the true number of pending
\* saves, whatever broke before and whether or not another save comes, and no
\* subscriber queue of a lost connection remains.
StripSettles ==
  (kind = "ingest" /\ <>[](Up /\ Tailing /\ Visiting)) =>
    <>[](/\ channel # None /\ channel.connected /\ ~channel.dead
         /\ channel.shown = server.pending
         /\ stale = 0)

==============================================================================
