--------------------------- MODULE LiveStreamProofs ---------------------------
(***************************************************************************)
(* That no frame vanishes between the bus and the page, and that the log     *)
(* page misses nothing the ring still held: for every size of subscriber     *)
(* queue and ring, and every number of saves, lines, visits, faults and      *)
(* starts of the tail.                                                       *)
(*                                                                          *)
(* The count in FramesAccounted is kept only because a frame a worker        *)
(* thread has posted still has its connection when the loop gets to it, and  *)
(* because the queue of an ingest page is registered from the first byte on; *)
(* on the log page nothing is ever published.                                *)
(*                                                                          *)
(* The log page throws a line away when its number is not above the newest   *)
(* it has seen, and a backfill can push that number past lines still to      *)
(* come: so the invariant has to say of every line still to come, in the     *)
(* queue or in the ring, that it is settled if it will be thrown away        *)
(* (Repetitions).                                                            *)
(***************************************************************************)
EXTENDS LiveStream, WellFoundedInduction, TLAPS

\* The backend's state as far as it publishes, and that only the ingest
\* channel has a tail.
ServerOK ==
  /\ server \in [up : BOOLEAN, boot : Int, tail : {"on", "off"}, pending : Int,
                 backlog : Int, busy : BOOLEAN, line : Int]
  /\ kind \in {"ingest", "logs"}
  /\ Tailing => kind = "ingest"

\* A posted frame has a connection to go to, and none is posted for a log page.
PostedOK ==
  /\ posted \in Seq(IngestFrame)
  /\ posted # << >> => conn # None /\ kind = "ingest"

\* An ingest page's queue is registered for as long as it is there; the log
\* page is owed nothing.
ConnOK ==
  conn # None =>
    /\ kind = "ingest" => conn \in Connection
    /\ kind = "logs" => "owed" \in DOMAIN conn

IInv == ServerOK /\ PostedOK /\ ConnOK /\ FramesAccounted

-----------------------------------------------------------------------------

\* What is owed a connection of the ingest page, besides the posted frames.
Square(c, n) == c \in Connection /\ c.owed = Len(c.q) + n

\* Deliver keeps the account: the new frame is in the queue, in the place of
\* the oldest one when the queue was full (EventBus._enqueue).
LEMMA Delivered ==
  ASSUME NEW c, NEW n \in Int, Square(c, n), NEW f \in IngestFrame
  PROVE  Deliver(c, f) # None /\ Square(Deliver(c, f), n)
<1> USE DEF Square
<1>1. c # None /\ c.registered /\ c.q \in Seq(IngestFrame) /\ c.owed \in Int
  BY StreamAssumption DEF Connection
<1>2. Buffer \in Nat /\ Buffer >= 1
  BY StreamAssumption
<1> DEFINE q == Enqueue(c.q, f)
           o == IF Len(c.q) < Buffer THEN c.owed + 1 ELSE c.owed
<1>3. Deliver(c, f) = [c EXCEPT !.q = q, !.owed = o]
  BY <1>1 DEF Deliver
<1>4. q \in Seq(IngestFrame) /\ o \in Int /\ o = Len(q) + n
  <2>0. Len(c.q) \in Nat /\ c.owed = Len(c.q) + n
    BY <1>1
  <2>1. CASE Len(c.q) < Buffer
    <3>1. q = Append(c.q, f) /\ o = c.owed + 1
      BY <2>1 DEF Enqueue
    <3>2. q \in Seq(IngestFrame) /\ Len(q) = Len(c.q) + 1
      BY <3>1, <1>1
    <3> HIDE DEF q, o
    <3> QED BY <3>1, <3>2, <2>0, <1>1
  <2>2. CASE ~(Len(c.q) < Buffer)
    <3>1. q = Append(Tail(c.q), f) /\ o = c.owed
      BY <2>2 DEF Enqueue
    <3>2. c.q # << >> BY <2>2, <1>2, <2>0
    <3>3. Tail(c.q) \in Seq(IngestFrame) /\ Len(Tail(c.q)) = Len(c.q) - 1
      BY <3>2, <1>1
    <3>4. q \in Seq(IngestFrame) /\ Len(q) = Len(Tail(c.q)) + 1
      BY <3>1, <3>3
    <3> HIDE DEF q, o
    <3> QED BY <3>1, <3>3, <3>4, <2>0, <1>1
  <2> QED BY <2>1, <2>2
<1> HIDE DEF q, o
<1>5. /\ Deliver(c, f) \in Connection
      /\ Deliver(c, f).owed = o /\ Deliver(c, f).q = q
  BY <1>3, <1>4 DEF Connection
<1> QED BY <1>4, <1>5, StreamAssumption

\* The account as Square has it.
LEMMA Squared ==
  ASSUME IInv, conn # None, kind = "ingest"
  PROVE  Square(conn, Len(posted))
BY DEF IInv, ConnOK, FramesAccounted, Square

\* A publication on the event loop keeps the account: of the frames posted, and
\* so of those in the queue.
LEMMA Published ==
  ASSUME IInv, kind = "ingest", NEW f \in IngestFrame
  PROVE  /\ conn = None => Deliver(conn, f) = None
         /\ conn # None => Deliver(conn, f) # None /\ Square(Deliver(conn, f), Len(posted))
<1>1. Len(posted) \in Int BY DEF IInv, PostedOK
<1> QED BY <1>1, Squared, Delivered DEF Deliver

\* Two frames one after the other.
LEMMA PublishedTwice ==
  ASSUME IInv, kind = "ingest", NEW f \in IngestFrame, NEW g \in IngestFrame
  PROVE  LET c == Deliver(Deliver(conn, f), g)
         IN  /\ conn = None => c = None
             /\ conn # None => c # None /\ Square(c, Len(posted))
<1>1. Len(posted) \in Int BY DEF IInv, PostedOK
<1>2. CASE conn = None BY <1>2 DEF Deliver
<1>3. CASE conn # None
  <2>1. Square(Deliver(conn, f), Len(posted)) BY <1>3, Published
  <2>2. Deliver(Deliver(conn, f), g) # None /\ Square(Deliver(Deliver(conn, f), g), Len(posted))
    BY <2>1, <1>1, Delivered
  <2> QED BY <2>2, <1>3
<1> QED BY <1>2, <1>3

\* What a step that publishes, or leaves the connection alone, has to show.
LEMMA StillSquare ==
  ASSUME IInv, kind' = kind, posted' = posted,
         conn = None => conn' = None,
         conn # None => conn' # None /\ (kind = "ingest" => Square(conn', Len(posted))),
         kind = "logs" /\ conn # None => "owed" \in DOMAIN conn' /\ conn'.owed = conn.owed
  PROVE  PostedOK' /\ ConnOK' /\ FramesAccounted'
<1>1. kind \in {"ingest", "logs"} BY DEF IInv, ServerOK
<1>2. PostedOK' BY DEF IInv, PostedOK
<1>3. ConnOK' BY <1>1 DEF IInv, ConnOK, Square
<1>4. FramesAccounted' BY <1>1 DEF IInv, FramesAccounted, Square
<1> QED BY <1>2, <1>3, <1>4

\* Whoever lets a connection go takes the frames posted for it along.
LEMMA LetGo ==
  ASSUME IInv, conn' = None, posted' = << >>
  PROVE  PostedOK' /\ ConnOK' /\ FramesAccounted'
BY DEF PostedOK, ConnOK, FramesAccounted

-----------------------------------------------------------------------------

\* The steps that leave bus and connection alone.
LEMMA Elsewhere ==
  ASSUME IInv, UNCHANGED <<kind, posted, conn>>
  PROVE  PostedOK' /\ ConnOK' /\ FramesAccounted'
BY DEF IInv, PostedOK, ConnOK, FramesAccounted

\* The tail's steps, each with what it publishes.
LEMMA TailStep ==
  ASSUME IInv, StartTail \/ Capture \/ AdvanceBaseline \/ MarkProcessed \/ StopTail
  PROVE  IInv'
<1>0. /\ server \in [up : BOOLEAN, boot : Int, tail : {"on", "off"}, pending : Int,
                     backlog : Int, busy : BOOLEAN, line : Int]
      /\ kind \in {"ingest", "logs"}
  BY DEF IInv, ServerOK
<1>1. kind' = kind /\ kind = "ingest"
  BY DEF IInv, ServerOK, StartTail, Capture, AdvanceBaseline, MarkProcessed, StopTail
<1>2. ServerOK'
  <2>1. CASE StartTail BY <2>1, <1>0, <1>1 DEF StartTail, ServerOK
  <2>2. CASE Capture BY <2>2, <1>0, <1>1 DEF Capture, ServerOK
  <2>3. CASE AdvanceBaseline BY <2>3, <1>0, <1>1 DEF AdvanceBaseline, ServerOK
  <2>4. CASE MarkProcessed
    <3> DEFINE p == server.pending - 1
               b == IF server.backlog > 0 THEN server.backlog - 1 ELSE 0
    <3>1. server' = [server EXCEPT !.busy = FALSE, !.pending = p, !.backlog = b]
      BY <2>4 DEF MarkProcessed
    <3>2. p \in Int /\ b \in Int BY <1>0
    <3> HIDE DEF p, b
    <3> QED BY <3>1, <3>2, <1>0, <1>1 DEF ServerOK
  <2>5. CASE StopTail BY <2>5, <1>0, <1>1 DEF StopTail, ServerOK
  <2> QED BY <2>1, <2>2, <2>3, <2>4, <2>5
<1>3. \A n \in Int :
        /\ CacheState(n) \in IngestFrame
        /\ Frame("chronicler_recovering", n) \in IngestFrame
        /\ Frame("chronicler_recovered", n) \in IngestFrame
        /\ Frame("save_pair_completed", n) \in IngestFrame
        /\ Frame("save_dropped_foreign", n) \in IngestFrame
        /\ Frame("save_tail_stopped", n) \in IngestFrame
  BY DEF Frame, CacheState, IngestFrame
<1>4. /\ server.pending \in Int /\ server.pending + 1 \in Int /\ server.pending - 1 \in Int
      /\ 0 \in Int
  BY <1>0
<1>5. ASSUME NEW f \in IngestFrame, Publish(f), posted' = posted
      PROVE  PostedOK' /\ ConnOK' /\ FramesAccounted'
  BY <1>1, <1>5, Published, StillSquare DEF Publish
<1>6. ASSUME NEW f \in IngestFrame, NEW g \in IngestFrame, PublishBoth(f, g), posted' = posted
      PROVE  PostedOK' /\ ConnOK' /\ FramesAccounted'
  BY <1>1, <1>6, PublishedTwice, StillSquare DEF PublishBoth
<1>7. ASSUME NEW f \in IngestFrame, PublishFromThread(f)
      PROVE  PostedOK' /\ ConnOK' /\ FramesAccounted'
  <2>1. CASE conn = None
    <3>1. UNCHANGED <<kind, posted, conn>> BY <2>1, <1>1, <1>7 DEF PublishFromThread
    <3> QED BY <3>1, Elsewhere
  <2>2. CASE conn # None
    <3>1. posted \in Seq(IngestFrame) /\ Len(posted) \in Nat BY DEF IInv, PostedOK
    <3>2. posted' = Append(posted, f) /\ conn' = [conn EXCEPT !.owed = @ + 1]
      BY <2>2, <1>7 DEF PublishFromThread
    <3>3. posted' \in Seq(IngestFrame) /\ Len(posted') = Len(posted) + 1
      BY <3>1, <3>2
    <3>4. conn \in Connection /\ conn.owed = Len(conn.q) + Len(posted)
      BY <2>2, <1>1, Squared DEF Square
    <3>5. conn.q \in Seq(IngestFrame) /\ conn.owed \in Int BY <3>4 DEF Connection
    <3> DEFINE o == conn.owed + 1
    <3>12. o \in Int /\ conn' = [conn EXCEPT !.owed = o] BY <3>2, <3>5
    <3> HIDE DEF o
    <3>6. conn' \in Connection /\ conn'.q = conn.q /\ conn'.owed = o
      BY <3>12, <3>4 DEF Connection
    <3>7. conn' # None BY <3>6, StreamAssumption
    <3>8. PostedOK' BY <3>3, <3>7, <1>1 DEF PostedOK
    <3>9. ConnOK' BY <3>6, <1>1 DEF ConnOK
    <3>10. Len(conn.q) \in Nat BY <3>5
    <3>11. conn'.owed = Len(conn'.q) + Len(posted')
      <4> DEFINE q == Len(conn.q)
                 n == Len(posted)
                 w == conn.owed
      <4>1. Len(conn'.q) = q /\ Len(posted') = n + 1 /\ conn'.owed = w + 1
        BY <3>3, <3>6 DEF o
      <4>2. q \in Nat /\ n \in Nat /\ w = q + n BY <3>1, <3>4, <3>10
      <4> HIDE DEF q, n, w
      <4> QED BY <4>1, <4>2
    <3> QED BY <3>8, <3>9, <3>11, <1>1 DEF FramesAccounted
  <2> QED BY <2>1, <2>2
<1>8. PostedOK' /\ ConnOK' /\ FramesAccounted'
  <2>1. CASE StartTail
    <3>1. posted' = posted BY <2>1 DEF StartTail
    <3>2. CASE server.pending = 0
      <4>1. PublishBoth(Frame("chronicler_recovering", 0), Frame("chronicler_recovered", 0))
        BY <2>1, <3>2 DEF StartTail
      <4> QED BY <4>1, <3>1, <1>3, <1>4, <1>6
    <3>3. CASE server.pending # 0
      <4>1. Publish(Frame("chronicler_recovering", server.pending))
        BY <2>1, <3>3 DEF StartTail
      <4> QED BY <4>1, <3>1, <1>3, <1>4, <1>5
    <3> QED BY <3>2, <3>3
  <2>2. CASE Capture
    <3>1. posted' = posted /\ Publish(CacheState(server.pending + 1)) BY <2>2 DEF Capture
    <3> QED BY <3>1, <1>3, <1>4, <1>5
  <2>3. CASE AdvanceBaseline
    <3>1. PICK k \in {"save_pair_completed", "save_dropped_foreign"} :
            PublishFromThread(Frame(k, 0))
      BY <2>3 DEF AdvanceBaseline
    <3> QED BY <3>1, <1>3, <1>4, <1>7
  <2>4. CASE MarkProcessed
    <3>1. posted' = posted BY <2>4 DEF MarkProcessed
    <3>2. CASE server.backlog = 1
      <4>1. PublishBoth(CacheState(server.pending - 1), Frame("chronicler_recovered", 0))
        BY <2>4, <3>2 DEF MarkProcessed
      <4> QED BY <4>1, <3>1, <1>3, <1>4, <1>6
    <3>3. CASE server.backlog # 1
      <4>1. Publish(CacheState(server.pending - 1)) BY <2>4, <3>3 DEF MarkProcessed
      <4> QED BY <4>1, <3>1, <1>3, <1>4, <1>5
    <3> QED BY <3>2, <3>3
  <2>5. CASE StopTail
    <3>1. posted' = posted /\ Publish(Frame("save_tail_stopped", 0)) BY <2>5 DEF StopTail
    <3> QED BY <3>1, <1>3, <1>4, <1>5
  <2> QED BY <2>1, <2>2, <2>3, <2>4, <2>5
<1> QED BY <1>2, <1>8 DEF IInv

\* The loop gets to a frame a worker thread has posted: its connection is
\* still the one it was posted for.
LEMMA PostedStep ==
  ASSUME IInv, RunPosted
  PROVE  IInv'
<1>1. /\ UNCHANGED <<kind, server>> /\ posted # << >> /\ posted' = Tail(posted)
      /\ conn' = Deliver([conn EXCEPT !.owed = @ - 1], Head(posted))
  BY DEF RunPosted
<1>2. posted \in Seq(IngestFrame) /\ conn # None /\ kind = "ingest"
  BY <1>1 DEF IInv, PostedOK
<1>3. /\ Head(posted) \in IngestFrame /\ Tail(posted) \in Seq(IngestFrame)
      /\ Len(posted) \in Nat /\ Len(Tail(posted)) = Len(posted) - 1
  BY <1>1, <1>2
<1>4. Square(conn, Len(posted)) BY <1>2, Squared
<1> DEFINE o == conn.owed - 1
           c == [conn EXCEPT !.owed = o]
<1>5. conn \in Connection /\ conn.owed = Len(conn.q) + Len(posted)
  BY <1>4 DEF Square
<1>6. conn.q \in Seq(IngestFrame) /\ conn.owed \in Int BY <1>5 DEF Connection
<1>7. o \in Int BY <1>6
<1>8. conn' = Deliver(c, Head(posted)) BY <1>1
<1>9. o = Len(conn.q) + Len(Tail(posted))
  <2> DEFINE q == Len(conn.q)
             n == Len(posted)
  <2>1. q \in Nat /\ n \in Nat /\ conn.owed = q + n /\ Len(Tail(posted)) = n - 1
    BY <1>3, <1>5, <1>6
  <2> HIDE DEF q, n
  <2>2. o = q + (n - 1) BY <2>1
  <2> QED BY <2>1, <2>2 DEF q
<1> HIDE DEF o
<1>10. c \in Connection /\ c.q = conn.q /\ c.owed = o
  BY <1>5, <1>7 DEF Connection
<1> HIDE DEF c
<1>11. Square(c, Len(Tail(posted))) BY <1>9, <1>10 DEF Square
<1>12. Len(Tail(posted)) \in Int BY <1>3
<1>13. conn' # None /\ Square(conn', Len(Tail(posted)))
  BY <1>3, <1>8, <1>11, <1>12, Delivered
<1>14. ServerOK' BY <1>1 DEF IInv, ServerOK, Tailing
<1>15. PostedOK' BY <1>1, <1>2, <1>3, <1>13 DEF PostedOK
<1>16. ConnOK' BY <1>1, <1>2, <1>13 DEF ConnOK, Square
<1>17. FramesAccounted' BY <1>1, <1>2, <1>13 DEF FramesAccounted, Square
<1> QED BY <1>14, <1>15, <1>16, <1>17 DEF IInv

\* The page takes the frame at the head of its queue.
LEMMA ReceiveStep ==
  ASSUME IInv, Receive
  PROVE  IInv'
<1>1. /\ UNCHANGED <<kind, server, posted>> /\ conn # None /\ conn.q # << >>
      /\ conn' = [conn EXCEPT !.q = Tail(@), !.owed = IF kind = "ingest" THEN @ - 1 ELSE @]
  BY DEF Receive
<1>2. ServerOK' BY <1>1 DEF IInv, ServerOK, Tailing
<1>3. CASE kind = "ingest"
  <2> DEFINE o == conn.owed - 1
             t == Tail(conn.q)
  <2>1. conn \in Connection /\ conn.owed = Len(conn.q) + Len(posted)
    BY <1>1, <1>3, Squared DEF Square
  <2>2. conn.q \in Seq(IngestFrame) /\ conn.owed \in Int BY <2>1 DEF Connection
  <2>3. /\ t \in Seq(IngestFrame) /\ Len(t) = Len(conn.q) - 1 /\ Len(conn.q) \in Nat
        /\ Len(posted) \in Nat /\ o \in Int
    BY <1>1, <2>2 DEF IInv, PostedOK
  <2>4. o = Len(t) + Len(posted) BY <2>1, <2>2, <2>3
  <2>5. conn' = [conn EXCEPT !.q = t, !.owed = o] BY <1>1, <1>3
  <2> HIDE DEF o, t
  <2>6. conn' \in Connection /\ conn'.q = t /\ conn'.owed = o
    BY <2>1, <2>3, <2>5 DEF Connection
  <2>7. conn' # None /\ Square(conn', Len(posted))
    BY <2>4, <2>6, StreamAssumption DEF Square
  <2> QED BY <1>1, <1>2, <1>3, <2>7, StillSquare DEF IInv
<1>4. CASE kind = "logs"
  <2>1. posted = << >> BY <1>4 DEF IInv, PostedOK
  <2>2. "owed" \in DOMAIN conn BY <1>1, <1>4 DEF IInv, ConnOK
  <2>3. "owed" \in DOMAIN conn' /\ conn'.owed = conn.owed BY <1>1, <1>4, <2>2
  <2>4. PostedOK' BY <1>1, <2>1 DEF IInv, PostedOK
  <2>5. ConnOK' BY <1>1, <1>4, <2>3 DEF ConnOK
  <2>6. FramesAccounted' BY <1>1, <1>4, <2>3 DEF IInv, FramesAccounted
  <2> QED BY <1>2, <2>4, <2>5, <2>6 DEF IInv
<1> QED BY <1>3, <1>4 DEF IInv, ServerOK

\* The connection begins with a registered queue on an ingest page; on a log
\* page a poll, a backfill and the cursor leave the account alone.
LEMMA ConnectionStep ==
  ASSUME IInv, Accept \/ SeedCursor \/ Poll \/ Reply
  PROVE  IInv'
<1>0. UNCHANGED <<kind, server, posted>>
  BY DEF Accept, SeedCursor, Poll, Reply
<1>1. ServerOK' BY <1>0 DEF IInv, ServerOK, Tailing
<1>2. CASE Accept
  <2>1. /\ conn = None
        /\ conn' = [registered |-> RegistersFirst, q |-> << >>, owed |-> 0,
                    from |-> 0, cursor |-> 0, gone |-> {}]
    BY <1>2 DEF Accept
  <2>2. posted = << >> BY <2>1 DEF IInv, PostedOK
  <2>3. "owed" \in DOMAIN conn' /\ conn'.owed = 0 /\ conn'.q = << >> BY <2>1
  <2>4. kind = "ingest" => conn' \in Connection
    <3>1. << >> \in Seq(IngestFrame) /\ 0 \in Int OBVIOUS
    <3>2. kind = "ingest" => RegistersFirst = TRUE BY DEF RegistersFirst
    <3> QED BY <2>1, <3>1, <3>2 DEF Connection
  <2>5. PostedOK' BY <1>0, <2>2 DEF IInv, PostedOK
  <2>6. ConnOK' BY <1>0, <2>3, <2>4 DEF ConnOK
  <2>7. FramesAccounted' BY <1>0, <2>2, <2>3 DEF FramesAccounted
  <2> QED BY <1>1, <2>5, <2>6, <2>7 DEF IInv
<1>3. CASE conn' = conn
  BY <1>0, <1>1, <1>3, Elsewhere DEF IInv
<1>4. CASE /\ kind = "logs" /\ conn # None
           /\ "owed" \in DOMAIN conn' /\ conn'.owed = conn.owed
  <2>1. posted = << >> BY <1>4 DEF IInv, PostedOK
  <2>4. PostedOK' BY <1>0, <2>1 DEF IInv, PostedOK
  <2>5. ConnOK' BY <1>0, <1>4 DEF ConnOK
  <2>6. FramesAccounted' BY <1>0, <1>4 DEF IInv, FramesAccounted
  <2> QED BY <1>1, <2>4, <2>5, <2>6 DEF IInv
<1>5. kind = "logs" /\ conn # None => "owed" \in DOMAIN conn
  BY DEF IInv, ConnOK
<1>6. kind = "ingest" /\ conn # None => conn.registered
  BY DEF IInv, ConnOK, Connection
<1>7. kind \in {"ingest", "logs"} BY DEF IInv, ServerOK
<1>8. CASE SeedCursor
  <2>1. /\ kind = "logs" /\ conn # None
        /\ conn' = [conn EXCEPT !.registered = TRUE, !.from = server.line, !.cursor = server.line]
    BY <1>6, <1>7, <1>8 DEF SeedCursor
  <2>2. "owed" \in DOMAIN conn' /\ conn'.owed = conn.owed BY <2>1, <1>5
  <2> QED BY <2>1, <2>2, <1>4
<1>9. CASE Poll
  <2>1. /\ kind = "logs" /\ conn # None
        /\ \E x, y, z : conn' = [conn EXCEPT !.q = x, !.cursor = y, !.gone = z]
    BY <1>9 DEF Poll
  <2>2. "owed" \in DOMAIN conn' /\ conn'.owed = conn.owed BY <2>1, <1>5
  <2> QED BY <2>1, <2>2, <1>4
<1>10. CASE Reply
  <2>1. \/ conn' = conn
        \/ /\ kind = "logs" /\ conn # None
           /\ \E z : conn' = [conn EXCEPT !.gone = z]
    BY <1>7, <1>10 DEF Reply
  <2>2. CASE kind = "logs" /\ conn # None /\ \E z : conn' = [conn EXCEPT !.gone = z]
    <3>1. "owed" \in DOMAIN conn' /\ conn'.owed = conn.owed BY <2>2, <1>5
    <3> QED BY <2>2, <3>1, <1>4
  <2> QED BY <2>1, <2>2, <1>3
<1> QED BY <1>2, <1>8, <1>9, <1>10

\* Breaks, crashes and the page that is left take the posted frames along.
LEMMA UpsetStep ==
  ASSUME IInv, Break \/ Crash \/ Unmount
  PROVE  IInv'
<1>1. conn' = None /\ posted' = << >> /\ kind' = kind
  BY DEF Break, Crash, Unmount, Abandon
<1>2. ServerOK'
  <2>1. CASE server' = server BY <1>1, <2>1 DEF IInv, ServerOK, Tailing
  <2>2. CASE Crash BY <1>1, <2>2 DEF IInv, ServerOK, Tailing, Crash
  <2> QED BY <2>1, <2>2 DEF Break, Unmount
<1> QED BY <1>1, <1>2, LetGo DEF IInv

\* Every other step leaves the bus alone.
LEMMA OtherStep ==
  ASSUME IInv,
         \/ Opened \/ Refused \/ GraceEnds \/ Probe \/ Unwind \/ Answer
         \/ Emit \/ Restart \/ Mount \/ UNCHANGED vars
  PROVE  IInv'
<1>1. UNCHANGED <<kind, posted, conn>>
  BY DEF Opened, Refused, GraceEnds, Probe, Unwind, Answer, Emit, Restart, Mount, vars
<1>2. ServerOK'
  <2>1. CASE server' = server BY <1>1, <2>1 DEF IInv, ServerOK, Tailing
  <2>2. CASE Emit BY <1>1, <2>2 DEF IInv, ServerOK, Tailing, Emit
  <2>3. CASE Restart
    <3> DEFINE b == server.boot + 1
    <3>1. server' = [server EXCEPT !.up = TRUE, !.boot = b, !.line = 0]
      BY <2>3 DEF Restart
    <3>2. b \in Int /\ 0 \in Int BY DEF IInv, ServerOK
    <3> HIDE DEF b
    <3> QED BY <1>1, <3>1, <3>2 DEF IInv, ServerOK, Tailing
  <2> QED BY <2>1, <2>2, <2>3 DEF Opened, Refused, GraceEnds, Probe, Unwind, Answer, Mount, vars
<1> QED BY <1>1, <1>2, Elsewhere DEF IInv

LEMMA InitOK == Init => IInv
BY StreamAssumption DEF Init, IInv, ServerOK, Tailing, PostedOK, ConnOK, FramesAccounted

LEMMA StepOK == IInv /\ [Next]_vars => IInv'
BY TailStep, PostedStep, ReceiveStep, ConnectionStep, UpsetStep, OtherStep
   DEF Next, Client, Backend, Upsets

\* No frame published after the first byte of a connection vanishes before the
\* page has it, whichever thread published it and however connections, backend
\* and page come and go (EventBus.publish, register, _enqueue).
THEOREM NoFrameVanishes == Spec => []FramesAccounted
<1>1. IInv => FramesAccounted BY DEF IInv
<1> QED BY InitOK, StepOK, <1>1, PTL DEF Spec

-----------------------------------------------------------------------------
(* The log page.                                                           *)

Numbers == 0..MaxLines

\* Type correctness, on the log page.
LogTypes ==
  /\ server \in [up : BOOLEAN, boot : Nat, tail : {"off"}, pending : {0}, backlog : {0},
                 busy : {FALSE}, line : Numbers]
  /\ channel \in LogChannel \cup {None}
  /\ conn \in LogConnection \cup {None}
  /\ posted = << >>
  /\ channel # None => \A l \in channel.lines : l[2] \in Numbers
  /\ conn # None => conn.from \in Numbers /\ conn.cursor \in Numbers

\* A connection is one of a running backend to an open page.
BothEnds == conn # None => Up /\ Visiting

\* The backfill under way, and what its reply says: the ring of some moment of
\* this boot.
Backfill ==
  \/ requests = << >>
  \/ \E r \in [seq : {0}, reply : {None} \cup SUBSET Numbers] :
       /\ requests = <<r>> /\ Up
       /\ r.reply # None => \E h \in 0..server.line : r.reply = {n \in 1..h : n > h - Ring}

\* The page's lines are of this boot, and then no newer than its newest, or of
\* an earlier one; the newest number seen is one of them.
LinesOK ==
  channel # None =>
    /\ \A l \in channel.lines : l[1] <= server.boot /\ (l[1] = server.boot => l[2] <= server.line)
    /\ channel.lastSeen = 0 \/ \E l \in channel.lines : l[2] = channel.lastSeen

\* The numbers in the queue ascend up to the cursor.
QueueOK ==
  conn # None =>
    /\ conn.cursor <= server.line /\ (~conn.registered => conn.q = << >>)
    /\ \A i, j \in 1..Len(conn.q) : i < j => conn.q[i] < conn.q[j]
    /\ \A i \in 1..Len(conn.q) : conn.q[i] <= conn.cursor /\ conn.q[i] >= 1

\* Line n is on the page, was lost to the ring, or is below a number of an
\* earlier boot.
Settled(n) ==
  \/ <<server.boot, n>> \in channel.lines
  \/ n \in conn.gone
  \/ \E l \in channel.lines : l[1] # server.boot /\ l[2] >= n

\* What is to come but will be taken for a repetition is settled.
Repetitions ==
  conn # None /\ conn.registered =>
    /\ \A i \in 1..Len(conn.q) : conn.q[i] <= channel.lastSeen => Settled(conn.q[i])
    /\ \A n \in 1..server.line :
         n > server.line - Ring /\ n > conn.cursor /\ n <= channel.lastSeen => Settled(n)

\* LogComplete, without Max.
Complete ==
  conn # None /\ conn.registered =>
    \A n \in Numbers : conn.from < n /\ n <= conn.cursor =>
      Settled(n) \/ \E i \in 1..Len(conn.q) : conn.q[i] = n

LogState == LogTypes /\ BothEnds /\ Backfill /\ LinesOK /\ QueueOK /\ Repetitions /\ Complete
LogInv == kind \in {"ingest", "logs"} /\ (kind = "logs" => LogState)

\* A set of numbers that is not empty has a greatest one if it is bounded.
LEMMA MaxOf ==
  ASSUME NEW S \in SUBSET Nat, S # {}, NEW b \in Nat, \A x \in S : x <= b
  PROVE  Max(S) \in S /\ \A y \in S : Max(S) >= y
<1> DEFINE T == {b - x : x \in S}
<1>1. T \in SUBSET Nat /\ T # {}
  <2>1. \A x \in S : b - x \in Nat OBVIOUS
  <2>2. PICK x \in S : TRUE OBVIOUS
  <2>3. b - x \in T BY <2>2
  <2> QED BY <2>1, <2>3
<1> HIDE DEF T
<1>2. PICK t \in T : \A u \in T : ~(<<u, t>> \in OpToRel(<, Nat))
  BY <1>1, NatLessThanWellFounded, WFMin
<1>3. \A y, z \in Nat : y < z => <<y, z>> \in OpToRel(<, Nat) BY SMT DEF OpToRel
<1>4. \A u \in T : ~(u < t) BY <1>1, <1>2, <1>3
<1>5. PICK x \in S : t = b - x BY DEF T
<1>6. \A y \in S : b - y \in T BY DEF T
<1>7. \A y \in S : x >= y BY <1>4, <1>5, <1>6
<1> QED BY <1>7 DEF Max

\* The numbers a bounded set and one more have a greatest among them.
LEMMA MaxWith ==
  ASSUME NEW S \in SUBSET Numbers, NEW n \in Nat
  PROVE  Max(S \cup {n}) \in S \cup {n} /\ \A y \in S \cup {n} : Max(S \cup {n}) >= y
<1>1. MaxLines \in Nat BY StreamAssumption
<1> DEFINE b == MaxLines + n
<1>2. S \cup {n} \in SUBSET Nat /\ S \cup {n} # {} /\ b \in Nat
  BY <1>1 DEF Numbers
<1>3. \A x \in S \cup {n} : x <= b BY <1>1 DEF Numbers
<1> HIDE DEF b
<1> QED BY <1>2, <1>3, MaxOf

\* A step in the browser that changes no line.
LEMMA SamePage ==
  ASSUME LogState, UNCHANGED <<server, posted, conn, requests>>,
         channel # None, channel' \in LogChannel,
         channel'.lines = channel.lines, channel'.lastSeen = channel.lastSeen
  PROVE  LogState'
<1>1. channel' # None BY StreamAssumption
<1>2. LogTypes' BY DEF LogState, LogTypes
<1>3. BothEnds' BY <1>1 DEF LogState, BothEnds, Up, Visiting
<1>4. Backfill' BY DEF LogState, Backfill, Up
<1>5. LinesOK' BY DEF LogState, LinesOK
<1>6. QueueOK' BY DEF LogState, QueueOK
<1>7. \A n : Settled(n)' <=> Settled(n) BY DEF Settled
<1>8. Repetitions' BY <1>7 DEF LogState, Repetitions
<1>9. Complete' BY <1>7 DEF LogState, Complete
<1> QED BY <1>2, <1>3, <1>4, <1>5, <1>6, <1>8, <1>9 DEF LogState

\* Without a connection only types, backfill and lines matter.
LEMMA NoConnection ==
  ASSUME conn' = None, LogTypes', Backfill', LinesOK'
  PROVE  LogState'
BY DEF LogState, BothEnds, QueueOK, Repetitions, Complete

\* onerror keeps the lines of the log page.
LEMMA ErrorKeeps ==
  ASSUME channel \in LogChannel, kind = "logs"
  PROVE  /\ OnError(channel) \in LogChannel
         /\ OnError(channel).lines = channel.lines
         /\ OnError(channel).lastSeen = channel.lastSeen
<1>1. CASE channel.grace BY <1>1 DEF OnError, LogChannel
<1>2. CASE ~channel.grace /\ channel.errors + 1 >= MaxErrors
  <2>1. MaxErrors \in Nat BY StreamAssumption
  <2>2. OnError(channel) = [channel EXCEPT !.source = "closed", !.errors = MaxErrors,
                              !.connected = FALSE, !.dead = TRUE, !.timer = TRUE]
    BY <1>2 DEF OnError, OnDead
  <2> QED BY <2>1, <2>2 DEF LogChannel
<1>3. CASE ~channel.grace /\ ~(channel.errors + 1 >= MaxErrors)
  <2> DEFINE e == channel.errors + 1
  <2>1. e \in Nat BY DEF LogChannel
  <2>2. OnError(channel) = [channel EXCEPT !.source = "connecting", !.errors = e,
                              !.connected = FALSE]
    BY <1>3 DEF OnError
  <2> HIDE DEF e
  <2> QED BY <2>1, <2>2 DEF LogChannel
<1> QED BY <1>1, <1>2, <1>3

LEMMA PageStep ==
  ASSUME LogState, kind = "logs", Opened \/ Refused \/ GraceEnds \/ Probe
  PROVE  LogState'
<1>1. channel # None /\ channel \in LogChannel
  BY DEF Opened, Refused, GraceEnds, Probe, Visiting, LogState, LogTypes
<1>2. UNCHANGED <<server, posted, conn, requests>>
  BY DEF Opened, Refused, GraceEnds, Probe
<1>3. /\ channel' \in LogChannel
      /\ channel'.lines = channel.lines /\ channel'.lastSeen = channel.lastSeen
  <2>1. CASE Opened
    <3>1. channel' = [channel EXCEPT !.source = "open", !.errors = 0, !.connected = TRUE,
                                     !.dead = FALSE]
      BY <2>1 DEF Opened
    <3>2. 0 \in Nat OBVIOUS
    <3> QED BY <1>1, <3>1, <3>2 DEF LogChannel
  <2>2. CASE Refused BY <1>1, <2>2, ErrorKeeps DEF Refused
  <2>3. CASE GraceEnds BY <1>1, <2>3 DEF GraceEnds, LogChannel
  <2>4. CASE Probe BY <1>1, <2>4 DEF Probe, LogChannel
  <2> QED BY <2>1, <2>2, <2>3, <2>4
<1> QED BY <1>1, <1>2, <1>3, SamePage

\* A line is logged: it is new, or below a number of an earlier boot.
LEMMA EmitStep ==
  ASSUME LogState, kind = "logs", Emit
  PROVE  LogState'
<1>1. /\ server.up /\ server.line < MaxLines
      /\ server' = [server EXCEPT !.line = @ + 1]
      /\ UNCHANGED <<posted, conn, channel, requests>>
  BY DEF Emit, Up
<1>2. /\ server \in [up : BOOLEAN, boot : Nat, tail : {"off"}, pending : {0}, backlog : {0},
                     busy : {FALSE}, line : Numbers]
      /\ MaxLines \in Nat
  BY StreamAssumption DEF LogState, LogTypes
<1> DEFINE m == server.line + 1
<1>3. server.line \in Nat /\ m \in Numbers /\ m \in Nat /\ server.boot \in Nat
  BY <1>1, <1>2 DEF Numbers
<1>4. server' = [server EXCEPT !.line = m] BY <1>1
<1> HIDE DEF m
<1>5. /\ server' \in [up : BOOLEAN, boot : Nat, tail : {"off"}, pending : {0}, backlog : {0},
                      busy : {FALSE}, line : Numbers]
      /\ server'.line = m /\ server'.boot = server.boot /\ server'.up = server.up
  BY <1>2, <1>3, <1>4
<1>6. LogTypes' BY <1>1, <1>5 DEF LogState, LogTypes
<1>7. BothEnds' BY <1>1, <1>5 DEF LogState, BothEnds, Up, Visiting
<1>8. m = server.line + 1 BY DEF m
<1>9. Backfill'
  <2>1. CASE requests = << >> BY <1>1, <2>1 DEF Backfill
  <2>2. CASE requests # << >>
    <3>1. PICK r \in [seq : {0}, reply : {None} \cup SUBSET Numbers] :
            /\ requests = <<r>> /\ Up
            /\ r.reply # None => \E h \in 0..server.line : r.reply = {n \in 1..h : n > h - Ring}
      BY <2>2 DEF LogState, Backfill
    <3>2. \A h \in 0..server.line : h \in 0..server'.line BY <1>3, <1>5, <1>8
    <3>3. r.reply # None => \E h \in 0..server'.line : r.reply = {n \in 1..h : n > h - Ring}
      BY <3>1, <3>2
    <3>4. requests' = <<r>> /\ Up' BY <1>1, <1>5, <3>1 DEF Up
    <3> QED BY <3>3, <3>4 DEF Backfill
  <2> QED BY <2>1, <2>2
<1>10. LinesOK'
  <2> SUFFICES ASSUME channel # None
               PROVE  /\ \A l \in channel.lines :
                            l[1] <= server.boot /\ (l[1] = server.boot => l[2] <= m)
                      /\ channel.lastSeen = 0 \/ \E l \in channel.lines : l[2] = channel.lastSeen
    BY <1>1, <1>5 DEF LinesOK
  <2>1. \A l \in channel.lines : l[2] \in Nat
    BY StreamAssumption DEF LogState, LogTypes, Numbers
  <2> QED BY <1>3, <1>8, <2>1 DEF LogState, LinesOK
<1>11. QueueOK'
  <2>1. conn # None => conn.cursor <= server.line /\ conn.cursor \in Nat
    BY <1>2 DEF LogState, QueueOK, LogTypes, Numbers
  <2>2. conn # None => conn.cursor <= m BY <1>3, <1>8, <2>1
  <2> QED BY <1>1, <1>5, <2>2 DEF LogState, QueueOK
<1>12. \A n : Settled(n)' <=> Settled(n) BY <1>1, <1>5 DEF Settled
<1>13. Complete' BY <1>1, <1>12 DEF LogState, Complete
<1>14. Repetitions'
  <2> SUFFICES ASSUME conn # None, conn.registered
               PROVE  /\ \A i \in 1..Len(conn.q) :
                            conn.q[i] <= channel.lastSeen => Settled(conn.q[i])
                      /\ \A n \in 1..m :
                           n > m - Ring /\ n > conn.cursor /\ n <= channel.lastSeen => Settled(n)
    BY <1>1, <1>5, <1>12 DEF Repetitions
  <2>1. \A i \in 1..Len(conn.q) : conn.q[i] <= channel.lastSeen => Settled(conn.q[i])
    BY DEF LogState, Repetitions
  <2>2. ASSUME NEW n \in 1..m, n > m - Ring, n > conn.cursor, n <= channel.lastSeen
        PROVE  Settled(n)
    <3>0. n \in Nat /\ n >= 1 /\ n <= m /\ Ring \in Nat BY <1>3, StreamAssumption
    <3>1. CASE n <= server.line
      <4>1. n \in 1..server.line /\ n > server.line - Ring BY <1>3, <1>8, <2>2, <3>0, <3>1
      <4> QED BY <4>1, <2>2 DEF LogState, Repetitions
    <3>2. CASE ~(n <= server.line)
      <4>1. n = m BY <1>3, <1>8, <3>0, <3>2
      <4>2. channel # None /\ channel.lastSeen \in Nat
        BY DEF LogState, BothEnds, Visiting, LogTypes, LogChannel
      <4>3. channel.lastSeen # 0 BY <2>2, <3>0, <4>2
      <4>4. PICK l \in channel.lines : l[2] = channel.lastSeen
        BY <4>2, <4>3 DEF LogState, LinesOK
      <4>5. l[2] > server.line BY <1>3, <2>2, <3>0, <3>2, <4>2, <4>4
      <4>6. l[1] = server.boot => l[2] <= server.line BY <4>2 DEF LogState, LinesOK
      <4>7. l[1] # server.boot BY <1>3, <4>2, <4>4, <4>5, <4>6
      <4>8. l[2] >= n BY <2>2, <3>0, <4>2, <4>4
      <4> QED BY <4>7, <4>8 DEF Settled
    <3> QED BY <3>1, <3>2
  <2> QED BY <2>1, <2>2
<1> QED BY <1>6, <1>7, <1>9, <1>10, <1>11, <1>13, <1>14 DEF LogState

\* A poll takes every line past the cursor that the ring still has.
LEMMA PollStep ==
  ASSUME LogState, kind = "logs", Poll
  PROVE  LogState'
<1>1. /\ conn # None /\ conn.registered /\ conn.q = << >> /\ conn.cursor < server.line
      /\ conn' = [conn EXCEPT !.q = Since(conn.cursor), !.cursor = server.line,
                    !.gone = @ \cup ((conn.cursor + 1)..(server.line - Ring))]
      /\ UNCHANGED <<server, posted, channel, requests>>
  BY DEF Poll
<1>2. /\ conn \in LogConnection /\ conn.cursor \in Nat /\ conn.from \in Nat
      /\ server.line \in Nat /\ server.line \in Numbers /\ Ring \in Nat /\ Ring >= 1
      /\ conn.gone \in SUBSET Int
  BY <1>1, StreamAssumption DEF LogState, LogTypes, LogConnection, Numbers
<1> DEFINE lost == (conn.cursor + 1)..(server.line - Ring)
           b == Max({conn.cursor, server.line - Ring})
           q == Since(conn.cursor)
           g == conn.gone \cup lost
<1>3. /\ b \in Int /\ b >= conn.cursor /\ b >= server.line - Ring /\ b < server.line
      /\ b = conn.cursor \/ b = server.line - Ring
  <2> DEFINE S == {conn.cursor, server.line - Ring}
  <2>1. \E x \in S : \A y \in S : x >= y
    <3>1. CASE conn.cursor >= server.line - Ring BY <1>2, <3>1
    <3>2. CASE ~(conn.cursor >= server.line - Ring) BY <1>2, <3>2
    <3> QED BY <3>1, <3>2
  <2>2. Max(S) \in S /\ \A y \in S : Max(S) >= y BY <2>1 DEF Max
  <2>3. b \in {conn.cursor, server.line - Ring} /\ b >= conn.cursor /\ b >= server.line - Ring
    BY <2>2
  <2> HIDE DEF b
  <2> QED BY <1>1, <1>2, <2>3
<1>4. b \in Nat BY <1>2, <1>3
<1>5. q = [k \in 1..(server.line - b) |-> b + k] BY DEF Since
<1> HIDE DEF b
<1>6. /\ q \in Seq(Nat) /\ Len(q) = server.line - b
      /\ \A k \in 1..(server.line - b) : q[k] = b + k
  <2> DEFINE d == server.line - b
  <2>1. d \in Nat BY <1>2, <1>3, <1>4
  <2> HIDE DEF d
  <2>2. q = [k \in 1..d |-> b + k] BY <1>5 DEF d
  <2> HIDE DEF q
  <2>3. \A k \in 1..d : b + k \in Nat BY <1>4, <2>1
  <2>4. q \in [1..d -> Nat] BY <2>2, <2>3
  <2>5. q \in Seq(Nat) /\ Len(q) = d BY <2>1, <2>4
  <2>6. \A k \in 1..d : q[k] = b + k BY <2>2
  <2> QED BY <2>5, <2>6 DEF d
<1> HIDE DEF q
<1>7. conn' = [conn EXCEPT !.q = q, !.cursor = server.line, !.gone = g]
  BY <1>1 DEF q
<1>8. g \in SUBSET Int BY <1>2
<1> HIDE DEF g
<1>9. /\ conn' \in LogConnection /\ conn'.q = q /\ conn'.cursor = server.line
      /\ conn'.gone = g /\ conn'.from = conn.from /\ conn'.registered
  BY <1>1, <1>2, <1>6, <1>7, <1>8 DEF LogConnection
<1>10. conn' # None BY <1>9, StreamAssumption
<1>11. LogTypes' BY <1>1, <1>2, <1>9 DEF LogState, LogTypes
<1>12. BothEnds' BY <1>1 DEF LogState, BothEnds, Up, Visiting
<1>13. Backfill' BY <1>1 DEF LogState, Backfill, Up
<1>14. LinesOK' BY <1>1 DEF LogState, LinesOK
<1>15. QueueOK'
  <2>1. \A i, j \in 1..Len(q) : i < j => q[i] < q[j]
    BY <1>2, <1>3, <1>4, <1>6
  <2>2. \A i \in 1..Len(q) : q[i] <= server.line /\ q[i] >= 1
    BY <1>2, <1>3, <1>4, <1>6
  <2>3. server.line <= server.line BY <1>2
  <2> QED BY <1>1, <1>9, <2>1, <2>2, <2>3 DEF QueueOK
<1>16. \A n : Settled(n) => Settled(n)' BY <1>1, <1>9 DEF Settled, g
<1>17. Repetitions'
  <2>1. ASSUME NEW i \in 1..Len(q), q[i] <= channel.lastSeen
        PROVE  Settled(q[i])
    <3>1. q[i] = b + i /\ i \in 1..(server.line - b) BY <1>6
    <3>2. q[i] \in 1..server.line /\ q[i] > server.line - Ring /\ q[i] > conn.cursor
      BY <1>2, <1>3, <1>4, <3>1
    <3> QED BY <1>1, <2>1, <3>2 DEF LogState, Repetitions
  <2>2. \A n \in 1..server.line : ~(n > server.line) BY <1>2
  <2> QED BY <1>1, <1>9, <1>16, <2>1, <2>2 DEF Repetitions
<1>18. Complete'
  <2> SUFFICES ASSUME NEW n \in Numbers, conn.from < n, n <= server.line
               PROVE  Settled(n)' \/ \E i \in 1..Len(q) : q[i] = n
    BY <1>9 DEF Complete
  <2>0. n \in Nat BY DEF Numbers
  <2>1. CASE n <= conn.cursor
    <3>1. Settled(n) \/ \E i \in 1..Len(conn.q) : conn.q[i] = n
      BY <1>1, <2>1 DEF LogState, Complete
    <3>2. Len(conn.q) = 0 BY <1>1
    <3>3. Settled(n) BY <3>1, <3>2
    <3> QED BY <3>3, <1>16
  <2>2. CASE conn.cursor < n /\ n <= server.line - Ring
    <3>1. n \in lost BY <1>2, <2>0, <2>2
    <3>2. n \in conn'.gone BY <1>9, <3>1 DEF g
    <3> QED BY <3>2 DEF Settled
  <2>3. CASE conn.cursor < n /\ n > server.line - Ring
    <3>1. n > b BY <1>3, <2>3
    <3> DEFINE i == n - b
    <3>2. i \in 1..(server.line - b) /\ b + i = n BY <1>2, <1>4, <2>0, <3>1
    <3>3. q[i] = n /\ i \in 1..Len(q) BY <1>6, <3>2
    <3> QED BY <3>3
  <2> QED BY <1>2, <2>0, <2>1, <2>2, <2>3
<1> QED BY <1>11, <1>12, <1>13, <1>14, <1>15, <1>17, <1>18 DEF LogState

\* The page takes the line at the head of the queue, or a repetition of it.
LEMMA LogReceiveStep ==
  ASSUME LogState, kind = "logs", Receive
  PROVE  LogState'
<1>0. PICK n : n = Head(conn.q) OBVIOUS
<1> DEFINE t == Tail(conn.q)
<1>1. /\ channel # None /\ conn # None /\ conn.q # << >>
      /\ channel' = ReduceLogFrame(channel, n)
      /\ conn' = [conn EXCEPT !.q = t, !.owed = @]
      /\ UNCHANGED <<server, posted, requests>>
  BY <1>0 DEF Receive, Visiting
<1>2. /\ conn \in LogConnection /\ conn.q \in Seq(Nat) /\ conn.registered
      /\ channel \in LogChannel /\ channel.lastSeen \in Nat
      /\ server.boot \in Nat /\ server.line \in Numbers /\ MaxLines \in Nat
      /\ conn.cursor \in Nat
  BY <1>1, StreamAssumption DEF LogState, LogTypes, LogConnection, LogChannel, QueueOK
<1>3. /\ t \in Seq(Nat) /\ Len(conn.q) \in Nat /\ Len(conn.q) >= 1
      /\ Len(t) = Len(conn.q) - 1 /\ n = conn.q[1] /\ n \in Nat
      /\ \A i \in 1..Len(t) : t[i] = conn.q[i + 1]
  BY <1>0, <1>1, <1>2
<1>4. /\ \A i, j \in 1..Len(conn.q) : i < j => conn.q[i] < conn.q[j]
      /\ \A i \in 1..Len(conn.q) : conn.q[i] <= conn.cursor /\ conn.q[i] >= 1
      /\ conn.cursor <= server.line
  BY <1>1 DEF LogState, QueueOK
<1>5. n <= conn.cursor /\ n >= 1 BY <1>3, <1>4
<1>6. \A i \in 1..Len(t) : i + 1 \in 1..Len(conn.q) /\ 1 < i + 1 BY <1>3
<1>7. \A i \in 1..Len(t) : t[i] > n /\ t[i] <= conn.cursor /\ t[i] >= 1 /\ t[i] \in Nat
  <2> SUFFICES ASSUME NEW i \in 1..Len(t)
               PROVE  t[i] > n /\ t[i] <= conn.cursor /\ t[i] >= 1 /\ t[i] \in Nat
    OBVIOUS
  <2>1. i + 1 \in 1..Len(conn.q) /\ 1 < i + 1 /\ 1 \in 1..Len(conn.q) BY <1>3, <1>6
  <2>2. t[i] = conn.q[i + 1] /\ conn.q[i + 1] \in Nat BY <1>2, <1>3, <2>1
  <2>3. conn.q[1] < conn.q[i + 1] BY <1>4, <2>1
  <2>4. conn.q[i + 1] <= conn.cursor /\ conn.q[i + 1] >= 1 BY <1>4, <2>1
  <2> QED BY <1>3, <2>2, <2>3, <2>4
<1>8. \A i, j \in 1..Len(t) : i < j => t[i] < t[j]
  <2> SUFFICES ASSUME NEW i \in 1..Len(t), NEW j \in 1..Len(t), i < j
               PROVE  t[i] < t[j]
    OBVIOUS
  <2>1. i + 1 \in 1..Len(conn.q) /\ j + 1 \in 1..Len(conn.q) /\ i + 1 < j + 1 BY <1>6
  <2>2. conn.q[i + 1] < conn.q[j + 1] BY <1>4, <2>1
  <2> QED BY <1>3, <2>2
<1>9. \A i \in 1..Len(conn.q) : conn.q[i] = n \/ \E j \in 1..Len(t) : t[j] = conn.q[i]
  <2> SUFFICES ASSUME NEW i \in 1..Len(conn.q), i # 1
               PROVE  \E j \in 1..Len(t) : t[j] = conn.q[i]
    BY <1>3
  <2> DEFINE j == i - 1
  <2>1. j \in 1..Len(t) /\ j + 1 = i BY <1>3
  <2> QED BY <1>3, <2>1
<1> HIDE DEF t
<1>10. /\ conn' \in LogConnection /\ conn'.q = t /\ conn'.cursor = conn.cursor
       /\ conn'.from = conn.from /\ conn'.gone = conn.gone /\ conn'.registered
  BY <1>1, <1>2, <1>3 DEF LogConnection
<1>11. n \in Numbers
  BY <1>2, <1>3, <1>4, <1>5 DEF Numbers
<1>12. /\ channel' \in LogChannel /\ channel.lines \subseteq channel'.lines
       /\ \/ channel' = channel /\ n <= channel.lastSeen
          \/ /\ channel'.lines = channel.lines \cup {<<server.boot, n>>}
             /\ channel'.lastSeen = n /\ n > channel.lastSeen
  <2>1. CASE n <= channel.lastSeen BY <1>1, <1>2, <2>1 DEF ReduceLogFrame
  <2>2. CASE ~(n <= channel.lastSeen)
    <3> DEFINE L == channel.lines \cup {<<server.boot, n>>}
    <3>1. channel' = [channel EXCEPT !.lines = L, !.lastSeen = n]
      BY <1>1, <2>2 DEF ReduceLogFrame
    <3>2. channel.lines \in SUBSET (Nat \X Nat) BY <1>2 DEF LogChannel
    <3>3. L \in SUBSET (Nat \X Nat) BY <1>2, <1>3, <3>2
    <3> HIDE DEF L
    <3>4. channel' \in LogChannel /\ channel'.lines = L /\ channel'.lastSeen = n
      BY <1>2, <1>3, <3>1, <3>3 DEF LogChannel
    <3>5. n > channel.lastSeen BY <1>2, <1>3, <2>2
    <3> QED BY <3>4, <3>5 DEF L
  <2> QED BY <2>1, <2>2
<1>13. channel' # None /\ conn' # None BY <1>10, <1>12, StreamAssumption
<1>14. \A l \in channel'.lines : l \in channel.lines \/ l = <<server.boot, n>> BY <1>12
<1>15. LogTypes'
  <2>1. \A l \in channel'.lines : l[2] \in Numbers
    BY <1>1, <1>11, <1>14 DEF LogState, LogTypes
  <2> QED BY <1>1, <1>10, <1>12, <2>1 DEF LogState, LogTypes
<1>16. BothEnds' BY <1>1, <1>13 DEF LogState, BothEnds, Up, Visiting
<1>17. Backfill' BY <1>1 DEF LogState, Backfill, Up
<1>18. LinesOK'
  <2>1. \A l \in channel.lines : l[1] <= server.boot /\ (l[1] = server.boot => l[2] <= server.line)
    BY <1>1 DEF LogState, LinesOK
  <2>2. server.boot <= server.boot /\ n <= server.line
    BY <1>2, <1>3, <1>4, <1>5 DEF Numbers
  <2>3. \A l \in channel'.lines :
          l[1] <= server.boot /\ (l[1] = server.boot => l[2] <= server.line)
    BY <1>14, <2>1, <2>2
  <2>4. channel'.lastSeen = 0 \/ \E l \in channel'.lines : l[2] = channel'.lastSeen
    <3>1. CASE channel' = channel BY <1>1, <3>1 DEF LogState, LinesOK
    <3>2. CASE /\ channel'.lines = channel.lines \cup {<<server.boot, n>>}
               /\ channel'.lastSeen = n
      <4>1. <<server.boot, n>> \in channel'.lines /\ <<server.boot, n>>[2] = n BY <3>2
      <4> QED BY <3>2, <4>1
    <3> QED BY <1>12, <3>1, <3>2
  <2> QED BY <1>1, <2>3, <2>4 DEF LinesOK
<1>19. QueueOK' BY <1>1, <1>4, <1>7, <1>8, <1>10 DEF QueueOK
<1>20. \A m : Settled(m) => Settled(m)' BY <1>1, <1>10, <1>12 DEF Settled
<1>21. Settled(n)'
  <2>1. CASE n <= channel.lastSeen
    <3>1. 1 \in 1..Len(conn.q) /\ conn.q[1] = n BY <1>3
    <3>2. Settled(n) BY <1>1, <1>2, <2>1, <3>1 DEF LogState, Repetitions
    <3> QED BY <3>2, <1>20
  <2>2. CASE ~(n <= channel.lastSeen)
    <3>1. <<server.boot, n>> \in channel'.lines BY <1>12, <2>2
    <3> QED BY <1>1, <3>1 DEF Settled
  <2> QED BY <2>1, <2>2
<1>22. Repetitions'
  <2>1. CASE channel' = channel
    <3>1. \A i \in 1..Len(t) : t[i] <= channel.lastSeen => Settled(t[i])
      <4> SUFFICES ASSUME NEW i \in 1..Len(t), t[i] <= channel.lastSeen
                   PROVE  Settled(t[i])
        OBVIOUS
      <4>1. i + 1 \in 1..Len(conn.q) /\ t[i] = conn.q[i + 1] BY <1>3, <1>6
      <4> QED BY <1>1, <1>2, <4>1 DEF LogState, Repetitions
    <3>2. \A m \in 1..server.line :
            m > server.line - Ring /\ m > conn.cursor /\ m <= channel.lastSeen => Settled(m)
      BY <1>1, <1>2 DEF LogState, Repetitions
    <3> QED BY <1>1, <1>10, <1>20, <2>1, <3>1, <3>2 DEF Repetitions
  <2>2. CASE channel'.lastSeen = n
    <3>1. \A i \in 1..Len(t) : ~(t[i] <= n) BY <1>3, <1>7
    <3>2. \A m \in 1..server.line : m > conn.cursor => ~(m <= n)
      BY <1>2, <1>3, <1>5 DEF Numbers
    <3> QED BY <1>1, <1>10, <2>2, <3>1, <3>2 DEF Repetitions
  <2> QED BY <1>12, <2>1, <2>2
<1>23. Complete'
  <2> SUFFICES ASSUME NEW m \in Numbers, conn.from < m, m <= conn.cursor
               PROVE  Settled(m)' \/ \E i \in 1..Len(t) : t[i] = m
    BY <1>10 DEF Complete
  <2>1. Settled(m) \/ \E i \in 1..Len(conn.q) : conn.q[i] = m
    BY <1>1, <1>2 DEF LogState, Complete
  <2> QED BY <1>9, <1>20, <1>21, <2>1
<1> QED BY <1>15, <1>16, <1>17, <1>18, <1>19, <1>22, <1>23 DEF LogState

\* The backfill arrives: what it does not hold, or holds under a number of an
\* earlier boot, is settled by that.
LEMMA BackfillStep ==
  ASSUME LogState, kind = "logs", Reply
  PROVE  LogState'
<1>1. PICK i \in DOMAIN requests :
        /\ channel # None /\ requests[i].reply # None
        /\ requests' = RemoveAt(requests, i)
        /\ channel' = Seed(channel, requests[i].reply)
        /\ conn' = IF conn = None \/ requests[i].reply = {} THEN conn
                   ELSE [conn EXCEPT !.gone = @ \cup (Range(conn.q) \cap 0..(Min(requests[i].reply) - 1))]
        /\ UNCHANGED <<server, posted>>
  BY DEF Reply, Visiting
<1>2. requests # << >> BY <1>1
<1>3. PICK r \in [seq : {0}, reply : {None} \cup SUBSET Numbers] :
        /\ requests = <<r>> /\ Up
        /\ r.reply # None => \E h \in 0..server.line : r.reply = {n \in 1..h : n > h - Ring}
  BY <1>2 DEF LogState, Backfill
<1>4. i = 1 /\ requests[i] = r /\ requests' = << >>
  <2>1. i = 1 /\ requests[i] = r BY <1>1, <1>3
  <2>2. requests \in Seq({r}) /\ Len(requests) = 1 BY <1>3
  <2>3. SubSeq(requests, 1, 0) = << >> /\ SubSeq(requests, 2, 1) = << >> BY <2>2
  <2>4. requests' = SubSeq(requests, 1, 0) \o SubSeq(requests, 2, 1)
    BY <1>1, <2>1, <2>2 DEF RemoveAt
  <2> QED BY <2>1, <2>3, <2>4
<1>5. PICK h \in 0..server.line : r.reply = {n \in 1..h : n > h - Ring}
  BY <1>1, <1>3, <1>4
<1>6. PICK R : R = r.reply OBVIOUS
<1>7. /\ server.line \in Nat /\ server.line \in Numbers /\ server.boot \in Nat
      /\ Ring \in Nat /\ Ring >= 1 /\ MaxLines \in Nat
      /\ channel \in LogChannel /\ channel.lastSeen \in Nat
      /\ channel.lines \in SUBSET (Nat \X Nat)
  <2>1. Ring \in Nat /\ Ring >= 1 /\ MaxLines \in Nat BY StreamAssumption
  <2>2. server.line \in Nat /\ server.line \in Numbers /\ server.boot \in Nat
    BY <2>1 DEF LogState, LogTypes, Numbers
  <2>3. channel \in LogChannel BY <1>1 DEF LogState, LogTypes
  <2>4. channel.lastSeen \in Nat /\ channel.lines \in SUBSET (Nat \X Nat)
    BY <2>3 DEF LogChannel
  <2> QED BY <2>1, <2>2, <2>3, <2>4
<1>8. h \in Nat /\ h <= server.line /\ R = {n \in 1..h : n > h - Ring} /\ R \in SUBSET Numbers
  BY <1>5, <1>6, <1>7 DEF Numbers
<1>9. PICK fresh : fresh = R \ {l[2] : l \in channel.lines} OBVIOUS
<1>10. PICK L : L = channel.lines \cup {<<server.boot, n>> : n \in fresh} OBVIOUS
<1>11. PICK s : s = Max(fresh \cup {channel.lastSeen}) OBVIOUS
<1>12. fresh \in SUBSET Numbers /\ fresh \subseteq R BY <1>8, <1>9
<1>13. s \in fresh \cup {channel.lastSeen} BY <1>7, <1>11, <1>12, MaxWith
<1>14. s \in Nat BY <1>7, <1>12, <1>13 DEF Numbers
<1>15. channel' = [channel EXCEPT !.lines = L, !.lastSeen = s]
  BY <1>1, <1>4, <1>6, <1>9, <1>10, <1>11 DEF Seed
<1>16. L \in SUBSET (Nat \X Nat) BY <1>7, <1>10, <1>12 DEF Numbers
<1>17. channel' \in LogChannel /\ channel'.lines = L /\ channel'.lastSeen = s
  BY <1>7, <1>14, <1>15, <1>16 DEF LogChannel
<1>18. \A l \in L : l \in channel.lines \/ \E n \in fresh : l = <<server.boot, n>>
  BY <1>10
<1>19. \A n \in fresh : n <= server.line /\ n \in Nat
  BY <1>7, <1>8, <1>12
<1>20. channel' # None BY <1>17, StreamAssumption
\* The connection: only what is gone from it may grow.
<1>21. /\ conn = None => conn' = None
       /\ conn # None =>
            /\ conn' \in LogConnection /\ conn'.q = conn.q /\ conn'.cursor = conn.cursor
            /\ conn'.from = conn.from /\ conn'.registered = conn.registered
            /\ conn.gone \subseteq conn'.gone
            /\ \A j \in 1..Len(conn.q) : R # {} /\ conn.q[j] < Min(R) => conn.q[j] \in conn'.gone
  <2>1. CASE conn = None BY <1>1, <2>1
  <2>2. CASE conn # None /\ R = {}
    <3>1. conn' = conn BY <1>1, <1>4, <1>6, <2>2
    <3>2. conn \in LogConnection BY <2>2 DEF LogState, LogTypes
    <3> QED BY <2>2, <3>1, <3>2
  <2>3. CASE conn # None /\ R # {}
    <3>1. conn \in LogConnection /\ conn.q \in Seq(Nat) /\ conn.gone \in SUBSET Int
      BY <2>3 DEF LogState, LogTypes, LogConnection
    <3>2. PICK x \in R : TRUE BY <2>3
    <3> DEFINE g == conn.gone \cup (Range(conn.q) \cap 0..(Min(R) - 1))
    <3>3. conn' = [conn EXCEPT !.gone = g] BY <1>1, <1>4, <1>6, <2>3
    <3>4. Range(conn.q) \subseteq Nat BY <3>1 DEF Range
    <3>5. g \in SUBSET Int BY <3>1, <3>4
    <3>6. \A j \in 1..Len(conn.q) : conn.q[j] \in Range(conn.q) /\ conn.q[j] \in Nat
      BY <3>1 DEF Range
    <3>7. Min(R) \in Nat
      <4> DEFINE lo == IF h - Ring >= 1 THEN h - Ring + 1 ELSE 1
      <4>1. lo \in R /\ \A y \in R : lo <= y BY <1>7, <1>8, <3>2
      <4>2. Min(R) \in R BY <4>1 DEF Min
      <4> QED BY <1>8, <4>2
    <3>8. \A j \in 1..Len(conn.q) : conn.q[j] < Min(R) => conn.q[j] \in g
      BY <3>6, <3>7
    <3> HIDE DEF g
    <3>9. /\ conn' \in LogConnection /\ conn'.q = conn.q /\ conn'.cursor = conn.cursor
          /\ conn'.from = conn.from /\ conn'.registered = conn.registered /\ conn'.gone = g
      BY <3>1, <3>3, <3>5 DEF LogConnection
    <3> QED BY <2>3, <3>8, <3>9 DEF g
  <2> QED BY <2>1, <2>2, <2>3
<1>22. conn # None => conn' # None BY <1>21, StreamAssumption
<1>23. LogTypes'
  <2>1. \A l \in L : l[2] \in Numbers
    BY <1>1, <1>12, <1>18 DEF LogState, LogTypes
  <2> QED BY <1>1, <1>17, <1>21, <2>1 DEF LogState, LogTypes
<1>24. BothEnds' BY <1>1, <1>20, <1>21 DEF LogState, BothEnds, Up, Visiting
<1>25. Backfill' BY <1>4 DEF Backfill
<1>26. LinesOK'
  <2>1. \A l \in channel.lines : l[1] <= server.boot /\ (l[1] = server.boot => l[2] <= server.line)
    BY <1>1 DEF LogState, LinesOK
  <2>2. server.boot <= server.boot BY <1>7
  <2>3. \A l \in L : l[1] <= server.boot /\ (l[1] = server.boot => l[2] <= server.line)
    BY <1>18, <1>19, <2>1, <2>2
  <2>4. s = 0 \/ \E l \in L : l[2] = s
    <3>1. CASE s \in fresh
      <4>1. <<server.boot, s>> \in L /\ <<server.boot, s>>[2] = s BY <1>10, <3>1
      <4> QED BY <4>1
    <3>2. CASE s = channel.lastSeen
      BY <1>1, <1>10, <3>2 DEF LogState, LinesOK
    <3> QED BY <1>13, <3>1, <3>2
  <2> QED BY <1>1, <1>17, <2>3, <2>4 DEF LinesOK
<1>27. QueueOK' BY <1>1, <1>21 DEF LogState, QueueOK
<1>28. channel.lines \subseteq L BY <1>10
<1>29. \A n : conn # None /\ Settled(n) => Settled(n)'
  BY <1>1, <1>17, <1>21, <1>28 DEF Settled
\* A number the backfill holds is on the page, or below one of an earlier boot.
<1>30. ASSUME NEW n \in R PROVE Settled(n)'
  <2>1. CASE n \in fresh
    <3>1. <<server.boot, n>> \in channel'.lines BY <1>10, <1>17, <2>1
    <3> QED BY <1>1, <3>1 DEF Settled
  <2>2. CASE n \notin fresh
    <3>1. PICK l \in channel.lines : l[2] = n BY <1>9, <2>2
    <3>2. l \in Nat \X Nat /\ l \in channel'.lines BY <1>7, <1>17, <1>28
    <3>3. l = <<l[1], n>> /\ n \in Nat /\ n >= n BY <3>1, <3>2
    <3>4. CASE l[1] = server.boot BY <1>1, <3>2, <3>3, <3>4 DEF Settled
    <3>5. CASE l[1] # server.boot BY <1>1, <3>1, <3>2, <3>3, <3>5 DEF Settled
    <3> QED BY <3>4, <3>5
  <2> QED BY <2>1, <2>2
<1>31. ASSUME NEW n \in Nat, n >= 1, n <= s, n > h - Ring, n > channel.lastSeen
       PROVE  n \in R
  <2>1. s \in fresh BY <1>7, <1>13, <1>14, <1>31
  <2>2. s <= h BY <1>8, <1>12, <2>1
  <2> QED BY <1>8, <1>14, <1>31, <2>2
<1>32. Repetitions'
  <2> SUFFICES ASSUME conn # None, conn.registered
               PROVE  /\ \A j \in 1..Len(conn.q), n \in Nat :
                            n = conn.q[j] /\ n <= s => Settled(n)'
                      /\ \A n \in 1..server.line :
                           n > server.line - Ring /\ n > conn.cursor /\ n <= s => Settled(n)'
    <3>1. ASSUME conn' # None, conn'.registered
          PROVE  conn # None /\ conn.registered
      BY <1>21, <3>1
    <3>2. conn # None => \A j \in 1..Len(conn.q) : conn.q[j] \in Nat
      <4>1. conn # None => conn.q \in Seq(Nat) BY DEF LogState, LogTypes, LogConnection
      <4> QED BY <4>1
    <3> QED BY <1>1, <1>17, <1>21, <3>1, <3>2 DEF Repetitions
  <2>0. /\ \A j \in 1..Len(conn.q) : conn.q[j] <= channel.lastSeen => Settled(conn.q[j])
        /\ \A n \in 1..server.line :
             n > server.line - Ring /\ n > conn.cursor /\ n <= channel.lastSeen => Settled(n)
        /\ conn.q \in Seq(Nat)
        /\ \A j \in 1..Len(conn.q) : conn.q[j] >= 1
    BY DEF LogState, Repetitions, LogTypes, LogConnection, QueueOK
  <2>1. ASSUME NEW j \in 1..Len(conn.q), NEW n \in Nat, n = conn.q[j], n <= s
        PROVE  Settled(n)'
    <3>1. CASE n <= channel.lastSeen BY <1>29, <2>0, <2>1, <3>1
    <3>2. CASE n > channel.lastSeen /\ n > h - Ring
      <4>1. n >= 1 BY <2>0, <2>1
      <4>2. n \in R BY <1>31, <2>1, <3>2, <4>1
      <4> QED BY <1>30, <4>2
    <3>3. CASE n > channel.lastSeen /\ ~(n > h - Ring)
      <4>1. s \in fresh BY <1>7, <1>13, <1>14, <2>1, <3>3
      <4>2. R # {} BY <1>12, <4>1
      <4>3. \E x \in R : \A y \in R : x =< y
        <5> DEFINE lo == IF h - Ring >= 1 THEN h - Ring + 1 ELSE 1
        <5>1. lo \in R /\ \A y \in R : lo <= y BY <1>7, <1>8, <4>2
        <5> QED BY <5>1
      <4>4. Min(R) \in R BY <4>3 DEF Min
      <4>5. n < Min(R) BY <1>7, <1>8, <3>3, <4>4
      <4>6. n \in conn'.gone BY <1>21, <2>1, <4>2, <4>5
      <4> QED BY <4>6 DEF Settled
    <3> QED BY <1>7, <3>1, <3>2, <3>3
  <2>2. ASSUME NEW n \in 1..server.line, n > server.line - Ring, n > conn.cursor, n <= s
        PROVE  Settled(n)'
    <3>1. CASE n <= channel.lastSeen BY <1>29, <2>0, <2>2, <3>1
    <3>2. CASE ~(n <= channel.lastSeen)
      <4>1. n \in Nat /\ n >= 1 /\ n > h - Ring /\ n > channel.lastSeen
        BY <1>7, <1>8, <2>2, <3>2
      <4>2. n \in R BY <1>31, <2>2, <4>1
      <4> QED BY <1>30, <4>2
    <3> QED BY <3>1, <3>2
  <2> QED BY <2>1, <2>2
<1>33. Complete'
  <2>1. ASSUME conn' # None, conn'.registered
        PROVE  conn # None /\ conn.registered
    BY <1>21, <2>1
  <2> SUFFICES ASSUME conn # None, conn.registered,
                      NEW n \in Numbers, conn.from < n, n <= conn.cursor
               PROVE  Settled(n)' \/ \E j \in 1..Len(conn.q) : conn.q[j] = n
    BY <1>21, <2>1 DEF Complete
  <2>2. Settled(n) \/ \E j \in 1..Len(conn.q) : conn.q[j] = n
    BY DEF LogState, Complete
  <2> QED BY <1>29, <2>2
<1> QED BY <1>23, <1>24, <1>25, <1>26, <1>27, <1>32, <1>33 DEF LogState

\* A connection begins, and its stream sets the cursor.
LEMMA BeginStep ==
  ASSUME LogState, kind = "logs", Accept \/ SeedCursor
  PROVE  LogState'
<1>1. UNCHANGED <<server, posted, channel, requests>> BY DEF Accept, SeedCursor
<1>2. server.line \in Numbers /\ server.line \in Nat
  BY StreamAssumption DEF LogState, LogTypes, Numbers
<1>3. /\ conn' \in LogConnection /\ conn'.q = << >> /\ conn'.cursor \in Numbers
      /\ conn'.from = conn'.cursor /\ conn'.cursor <= server.line
      /\ conn'.registered => conn'.cursor = server.line
      /\ Up /\ Visiting
  <2>1. CASE Accept
    <3>1. /\ conn' = [registered |-> FALSE, q |-> << >>, owed |-> 0,
                      from |-> 0, cursor |-> 0, gone |-> {}]
          /\ Up /\ Visiting
      BY <2>1 DEF Accept, RegistersFirst
    <3>2. << >> \in Seq(Nat) /\ 0 \in Nat /\ {} \in SUBSET Int /\ 0 <= server.line
      BY <1>2
    <3>3. 0 \in Numbers BY StreamAssumption DEF Numbers
    <3> QED BY <3>1, <3>2, <3>3 DEF LogConnection
  <2>2. CASE SeedCursor
    <3>1. /\ conn # None /\ ~conn.registered
          /\ conn' = [conn EXCEPT !.registered = TRUE, !.from = server.line, !.cursor = server.line]
      BY <2>2 DEF SeedCursor
    <3>2. conn \in LogConnection /\ conn.q = << >> /\ Up /\ Visiting
      BY <3>1 DEF LogState, LogTypes, QueueOK, BothEnds
    <3>3. server.line <= server.line BY <1>2
    <3> QED BY <1>2, <3>1, <3>2, <3>3 DEF LogConnection
  <2> QED BY <2>1, <2>2
<1>4. Len(conn'.q) = 0 BY <1>3
<1>5. LogTypes' BY <1>1, <1>3 DEF LogState, LogTypes
<1>6. BothEnds' BY <1>1, <1>3 DEF BothEnds, Up, Visiting
<1>7. Backfill' BY <1>1 DEF LogState, Backfill, Up
<1>8. LinesOK' BY <1>1 DEF LogState, LinesOK
<1>9. QueueOK' BY <1>1, <1>3, <1>4 DEF QueueOK
<1>10. Repetitions'
  <2>1. \A n \in 1..server.line : ~(n > server.line) BY <1>2
  <2> QED BY <1>1, <1>3, <1>4, <2>1 DEF Repetitions
<1>11. Complete'
  <2>1. \A n \in Numbers : ~(conn'.cursor < n /\ n <= conn'.cursor)
    BY <1>3 DEF Numbers
  <2> QED BY <1>3, <2>1 DEF Complete
<1> QED BY <1>5, <1>6, <1>7, <1>8, <1>9, <1>10, <1>11 DEF LogState

\* Connections break, the backend comes and goes, the page is left and opened.
LEMMA LogUpsetStep ==
  ASSUME LogState, kind = "logs", Break \/ Crash \/ Restart \/ Mount \/ Unmount
  PROVE  LogState'
<1> USE DEF LogState
<1>0. /\ server \in [up : BOOLEAN, boot : Nat, tail : {"off"}, pending : {0}, backlog : {0},
                     busy : {FALSE}, line : Numbers]
      /\ 0 \in Numbers
  <2>1. MaxLines \in Nat BY StreamAssumption
  <2>2. 0 \in Numbers BY <2>1 DEF Numbers
  <2> QED BY <2>2 DEF LogTypes
<1>1. conn' = None
  <2>1. CASE Restart \/ Mount BY <2>1 DEF Restart, Mount, BothEnds, Visiting, Up
  <2> QED BY <2>1 DEF Break, Crash, Unmount, Abandon
<1>2. posted' = << >>
  BY DEF Break, Crash, Unmount, Abandon, Restart, Mount, LogTypes
<1>3. CASE Break
  <2>1. channel \in LogChannel /\ channel # None
    BY <1>3 DEF Break, BothEnds, Visiting, LogTypes
  <2>2. UNCHANGED <<server, requests>> /\ channel' = OnError(channel) BY <1>3 DEF Break
  <2>3. /\ channel' \in LogChannel /\ channel'.lines = channel.lines
        /\ channel'.lastSeen = channel.lastSeen
    BY <2>1, <2>2, ErrorKeeps
  <2>4. LogTypes' BY <1>1, <1>2, <2>1, <2>2, <2>3 DEF LogTypes
  <2>5. LinesOK' BY <2>1, <2>2, <2>3 DEF LinesOK
  <2>6. Backfill' BY <2>2 DEF Backfill, Up
  <2> QED BY <1>1, <2>4, <2>5, <2>6, NoConnection
<1>4. CASE Crash
  <2>1. /\ server' = [server EXCEPT !.up = FALSE, !.tail = "off", !.busy = FALSE]
        /\ requests' = << >>
        /\ channel' = IF conn = None THEN channel ELSE OnError(channel)
    BY <1>4 DEF Crash
  <2>2. /\ server' \in [up : BOOLEAN, boot : Nat, tail : {"off"}, pending : {0}, backlog : {0},
                        busy : {FALSE}, line : Numbers]
        /\ server'.boot = server.boot /\ server'.line = server.line
    BY <1>0, <2>1
  <2>3. channel' \in LogChannel \cup {None}
    BY <2>1, ErrorKeeps DEF LogTypes, BothEnds, Visiting
  <2>4. channel' # None =>
          /\ channel # None /\ channel'.lines = channel.lines
          /\ channel'.lastSeen = channel.lastSeen
    BY <2>1, ErrorKeeps DEF LogTypes, BothEnds, Visiting
  <2>5. LogTypes' BY <1>1, <1>2, <2>2, <2>3, <2>4 DEF LogTypes
  <2>6. LinesOK' BY <2>2, <2>4 DEF LinesOK
  <2>7. Backfill' BY <2>1 DEF Backfill
  <2> QED BY <1>1, <2>5, <2>6, <2>7, NoConnection
<1>5. CASE Restart
  <2> DEFINE b == server.boot + 1
  <2>1. /\ server' = [server EXCEPT !.up = TRUE, !.boot = b, !.line = 0]
        /\ UNCHANGED <<channel, requests>> /\ ~Up
    BY <1>5 DEF Restart
  <2>2. b \in Nat /\ server.boot \in Nat BY <1>0
  <2>3. b = server.boot + 1 OBVIOUS
  <2> HIDE DEF b
  <2>4. /\ server' \in [up : BOOLEAN, boot : Nat, tail : {"off"}, pending : {0}, backlog : {0},
                        busy : {FALSE}, line : Numbers]
        /\ server'.boot = b /\ server'.line = 0
    BY <1>0, <2>1, <2>2
  <2>5. LogTypes' BY <1>1, <1>2, <2>1, <2>4 DEF LogTypes
  <2>6. LinesOK'
    <3> SUFFICES ASSUME channel # None
                 PROVE  \A l \in channel.lines : l[1] <= b /\ l[1] # b
      BY <2>1, <2>4 DEF LinesOK
    <3>1. channel.lines \in SUBSET (Nat \X Nat) BY DEF LogTypes, LogChannel
    <3>2. \A l \in channel.lines : l[1] \in Nat /\ l[1] <= server.boot BY <3>1 DEF LinesOK
    <3> QED BY <2>2, <2>3, <3>2
  <2>7. Backfill' BY <2>1 DEF Backfill
  <2> QED BY <1>1, <2>5, <2>6, <2>7, NoConnection
<1>6. CASE Mount
  <2>1. /\ channel' = NewChannel /\ server' = server
        /\ requests' = IF Up THEN <<[seq |-> 0, reply |-> None]>> ELSE << >>
    BY <1>6 DEF Mount
  <2>2. channel' \in LogChannel /\ channel'.lines = {} /\ channel'.lastSeen = 0
    <3>1. 0 \in Nat /\ {} \in SUBSET (Nat \X Nat) OBVIOUS
    <3> QED BY <2>1, <3>1 DEF NewChannel, LogChannel
  <2>3. LogTypes' BY <1>1, <1>2, <2>1, <2>2 DEF LogTypes
  <2>4. LinesOK' BY <2>1, <2>2 DEF LinesOK
  <2>5. Backfill'
    <3> DEFINE r == [seq |-> 0, reply |-> None]
    <3>1. r \in [seq : {0}, reply : {None} \cup SUBSET Numbers] /\ r.reply = None OBVIOUS
    <3> HIDE DEF r
    <3>2. CASE Up
      <4>1. requests' = <<r>> /\ Up' BY <2>1, <3>2 DEF r, Up
      <4> QED BY <3>1, <4>1 DEF Backfill
    <3>3. CASE ~Up BY <2>1, <3>3 DEF Backfill
    <3> QED BY <3>2, <3>3
  <2> QED BY <1>1, <2>3, <2>4, <2>5, NoConnection
<1>7. CASE Unmount
  <2>1. channel' = None /\ requests' = << >> /\ server' = server BY <1>7 DEF Unmount
  <2>2. LogTypes' BY <1>1, <1>2, <2>1 DEF LogTypes
  <2>3. LinesOK' BY <2>1 DEF LinesOK
  <2>4. Backfill' BY <2>1 DEF Backfill
  <2> QED BY <1>1, <2>2, <2>3, <2>4, NoConnection
<1> QED BY <1>3, <1>4, <1>5, <1>6, <1>7

\* The backfill is answered from the ring.
LEMMA AnswerStep ==
  ASSUME LogState, kind = "logs", Answer
  PROVE  LogState'
<1>1. UNCHANGED <<server, posted, conn, channel>> BY DEF Answer
<1>2. PICK i \in DOMAIN requests :
        Up /\ requests' = [requests EXCEPT ![i].reply = Recent]
  BY DEF Answer
<1>3. requests # << >> BY <1>2
<1>4. PICK r \in [seq : {0}, reply : {None} \cup SUBSET Numbers] : requests = <<r>>
  BY <1>3 DEF LogState, Backfill
<1>5. i = 1 BY <1>2, <1>4
<1>6. PICK R : R = Recent OBVIOUS
<1> DEFINE s == [r EXCEPT !.reply = R]
<1>7. requests' = <<s>> BY <1>2, <1>4, <1>5, <1>6
<1>8. /\ server.line \in Nat /\ server.line \in Numbers /\ MaxLines \in Nat
      /\ server.line \in 0..server.line
  BY StreamAssumption DEF LogState, LogTypes, Numbers
<1>9. R = {n \in 1..server.line : n > server.line - Ring} BY <1>6 DEF Recent
<1>10. R \in SUBSET Numbers BY <1>8, <1>9 DEF Numbers
<1>11. s \in [seq : {0}, reply : {None} \cup SUBSET Numbers] /\ s.reply = R
  BY <1>4, <1>10
<1> HIDE DEF s
<1>12. \E h \in 0..server'.line : s.reply = {n \in 1..h : n > h - Ring}
  BY <1>1, <1>8, <1>9, <1>11
<1>13. Backfill' BY <1>1, <1>2, <1>7, <1>11, <1>12 DEF Backfill, Up
<1>14. /\ LogTypes' /\ BothEnds' /\ LinesOK' /\ QueueOK' /\ Repetitions' /\ Complete'
  BY <1>1 DEF LogState, LogTypes, BothEnds, Up, Visiting, LinesOK, QueueOK, Repetitions,
              Complete, Settled
<1> QED BY <1>13, <1>14 DEF LogState

\* The rest does not concern the log page, which has no tail.
LEMMA LogOtherStep ==
  ASSUME LogState, kind = "logs",
         UNCHANGED <<server, posted, conn, channel, requests>>
  PROVE  LogState'
BY DEF LogState, LogTypes, BothEnds, Backfill, Up, Visiting, LinesOK, QueueOK, Repetitions,
       Complete, Settled

LEMMA LogInitOK == Init => LogInv
<1> SUFFICES ASSUME Init, kind = "logs" PROVE LogState
  BY StreamAssumption DEF Init, LogInv
<1>1. 0 \in Numbers BY StreamAssumption DEF Numbers
<1>2. /\ server = [up |-> FALSE, boot |-> 0, tail |-> "off", pending |-> 0, backlog |-> 0,
                   busy |-> FALSE, line |-> 0]
      /\ posted = << >> /\ conn = None /\ channel = None /\ requests = << >>
  BY DEF Init
<1> QED BY <1>1, <1>2 DEF LogState, LogTypes, BothEnds, Backfill, LinesOK, QueueOK,
                          Repetitions, Complete

LEMMA LogStepOK == LogInv /\ [Next]_vars => LogInv'
<1> SUFFICES ASSUME LogInv, [Next]_vars PROVE LogInv'
  OBVIOUS
<1>1. kind' = kind
  BY DEF Next, Client, Backend, Upsets, vars, Opened, Refused, GraceEnds, Probe, Receive,
         Reply, RunPosted, AdvanceBaseline, MarkProcessed, Poll, Accept, SeedCursor, Unwind,
         Answer, StartTail, Capture, StopTail, Emit, Break, Crash, Restart, Mount, Unmount
<1> SUFFICES ASSUME kind = "logs", LogState PROVE LogState'
  BY <1>1 DEF LogInv
<1>2. ~(StartTail \/ Capture \/ AdvanceBaseline \/ MarkProcessed \/ StopTail \/ RunPosted)
  BY DEF StartTail, Capture, AdvanceBaseline, MarkProcessed, StopTail, RunPosted, Tailing,
         LogState, LogTypes
<1>3. CASE Unwind \/ UNCHANGED vars BY <1>3, LogOtherStep DEF Unwind, vars
<1> QED BY <1>2, <1>3, PageStep, EmitStep, PollStep, LogReceiveStep, BackfillStep, BeginStep,
           LogUpsetStep, AnswerStep
        DEF Next, Client, Backend, Upsets

\* What LogComplete says with Max follows from Complete.
LEMMA CompleteMeans == LogInv => LogComplete
<1> SUFFICES ASSUME LogInv, kind = "logs", channel # None, conn # None, conn.registered
             PROVE  LET floor == Max({0} \cup {l[2] : l \in {m \in channel.lines : m[1] # server.boot}})
                    IN  \A n \in (conn.from + 1)..conn.cursor :
                          \/ <<server.boot, n>> \in channel.lines
                          \/ n \in Range(conn.q) \cup conn.gone
                          \/ n <= floor
  BY DEF LogComplete, Visiting
<1>1. LogState BY DEF LogInv
<1> DEFINE S == {l[2] : l \in {m \in channel.lines : m[1] # server.boot}}
           floor == Max({0} \cup S)
<1>2. S \in SUBSET Numbers BY <1>1 DEF LogState, LogTypes
<1>3. S \cup {0} = {0} \cup S OBVIOUS
<1>4. \A l \in channel.lines : l[1] # server.boot => l[2] \in S OBVIOUS
<1> HIDE DEF S
<1>5. floor \in {0} \cup S /\ \A y \in {0} \cup S : floor >= y
  BY <1>2, <1>3, MaxWith
<1> HIDE DEF floor
<1>6. floor \in Nat /\ S \subseteq Nat
  <2>1. MaxLines \in Nat BY StreamAssumption
  <2>2. S \subseteq Nat BY <1>2, <2>1 DEF Numbers
  <2> QED BY <1>5, <2>2
<1>7. /\ conn.from \in Numbers /\ conn.cursor \in Numbers /\ conn.q \in Seq(Nat)
      /\ MaxLines \in Nat
  BY <1>1, StreamAssumption DEF LogState, LogTypes, LogConnection
<1>8. ASSUME NEW n \in (conn.from + 1)..conn.cursor
      PROVE  <<server.boot, n>> \in channel.lines \/ n \in Range(conn.q) \cup conn.gone \/ n <= floor
  <2>1. n \in Numbers /\ n \in Nat /\ conn.from < n /\ n <= conn.cursor BY <1>7 DEF Numbers
  <2>2. Settled(n) \/ \E i \in 1..Len(conn.q) : conn.q[i] = n
    BY <1>1, <2>1 DEF LogState, Complete
  <2>3. CASE \E i \in 1..Len(conn.q) : conn.q[i] = n BY <1>7, <2>3 DEF Range
  <2>4. CASE \E l \in channel.lines : l[1] # server.boot /\ l[2] >= n
    <3>1. PICK l \in channel.lines : l[1] # server.boot /\ l[2] >= n BY <2>4
    <3>2. l[2] \in S /\ floor >= l[2] BY <1>4, <1>5, <3>1
    <3>3. l[2] \in Nat BY <1>6, <3>2
    <3> QED BY <1>6, <2>1, <3>1, <3>2, <3>3
  <2> QED BY <2>2, <2>3, <2>4 DEF Settled
<1> QED BY <1>8 DEF floor, S

\* While the log page is connected it misses no line the ring still held when
\* the stream or the backfill looked, however often the backend restarts and
\* the page reconnects: for every size of the ring (LogBufferHandler.since,
\* seedLogStream, reduceLogFrame).
THEOREM LogPageComplete == Spec => []LogComplete
BY LogInitOK, LogStepOK, CompleteMeans, PTL DEF Spec
=============================================================================
