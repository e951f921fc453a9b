--------------------------- MODULE LifecycleProofs ---------------------------
(***************************************************************************)
(* Proofs about Lifecycle, for any clients, streams and bounds: the last   *)
(* health report is the true one, no open stream misses its end marker,    *)
(* and the database outlives what the shutdown waits for.  Three           *)
(* invariants, each about the few variables it needs; a step that leaves   *)
(* those alone preserves it.                                               *)
(***************************************************************************)
EXTENDS Lifecycle, SequenceTheorems, TLAPS

Stage == {"serving", "tasks", "proxy", "streams", "grace", "down"}

\* The guards of the form "not yet so far", spelled out.
LEMMA StageOrder ==
  ASSUME main \in Stage
  PROVE  /\ Before(main, "proxy") <=> main \in {"serving", "tasks"}
         /\ Before(main, "streams") <=> main \in {"serving", "tasks", "proxy"}
         /\ Before(main, "grace") <=> main \in {"serving", "tasks", "proxy", "streams"}
  <1>1. /\ DOMAIN Stages = 1..6
        /\ Stages[1] = "serving" /\ Stages[2] = "tasks" /\ Stages[3] = "proxy"
        /\ Stages[4] = "streams" /\ Stages[5] = "grace" /\ Stages[6] = "down"
    BY DEF Stages
  <1>2. \A i \in 1..6 : i \in {1, 2, 3, 4, 5, 6}
    OBVIOUS
  <1>3. Before(main, "proxy") <=> main \in {"serving", "tasks"}
    BY <1>1, <1>2 DEF Before, Stage
  <1>4. Before(main, "streams") <=> main \in {"serving", "tasks", "proxy"}
    BY <1>1, <1>2 DEF Before, Stage
  <1>5. Before(main, "grace") <=> main \in {"serving", "tasks", "proxy", "streams"}
    BY <1>1, <1>2 DEF Before, Stage
  <1>6. QED
    BY <1>3, <1>4, <1>5

-----------------------------------------------------------------------------
(* Health.                                                                 *)

HealthVars == <<main, connected, reports, health>>

HealthInv ==
  /\ main \in Stage
  /\ connected \in BOOLEAN /\ health \in BOOLEAN /\ reports \in Seq(BOOLEAN)
  /\ HealthTold

LEMMA HealthUntouched == HealthInv /\ UNCHANGED HealthVars => HealthInv'
  BY DEF HealthInv, HealthVars, HealthTold, Before

LEMMA HealthInit == LifecycleInit => HealthInv
  <1> SUFFICES ASSUME LifecycleInit PROVE HealthInv
    OBVIOUS
  <1>1. /\ main = "serving" /\ connected = FALSE /\ health = FALSE /\ reports = <<>>
    BY DEF LifecycleInit
  <1>2. reports \in Seq(BOOLEAN)
    BY <1>1
  <1>3. HealthTold
    BY <1>1 DEF HealthTold
  <1>4. QED
    BY <1>1, <1>2, <1>3 DEF HealthInv, Stage

\* A report that says what the supervisor knows becomes the last one.
LEMMA NotifyKeeps ==
  ASSUME HealthInv, NEW up \in BOOLEAN, Notify(up), connected' = up,
         UNCHANGED <<main, health>>
  PROVE  HealthInv'
  <1>1. /\ reports' \in Seq(BOOLEAN) /\ reports' # <<>>
        /\ reports'[Len(reports')] = up
    BY DEF Notify, HealthInv
  <1>2. QED
    BY <1>1 DEF HealthInv, HealthTold

\* The oldest report takes effect; the newest is the last to do so.
LEMMA ReportsKeep == HealthInv /\ Reports => HealthInv'
  <1> SUFFICES ASSUME HealthInv, Reports PROVE HealthInv'
    OBVIOUS
  <1>1. /\ reports # <<>> /\ reports' = Tail(reports)
        /\ health' = (Head(reports) /\ Before(main, "streams"))
        /\ main' = main /\ connected' = connected
    BY DEF Reports
  <1>2. /\ reports \in Seq(BOOLEAN) /\ Head(reports) \in BOOLEAN /\ reports' \in Seq(BOOLEAN)
        /\ Len(reports') = Len(reports) - 1
        /\ \A i \in 1..Len(reports') : reports'[i] = reports[i + 1]
    BY <1>1, HeadTailProperties DEF HealthInv
  <1>3. health' \in BOOLEAN
    BY <1>1, Zenon
  <1>4. ASSUME Before(main, "streams") PROVE health' = Head(reports)
    BY <1>1, <1>2, <1>4, Zenon
  <1>5. ASSUME Before(main, "streams")
        PROVE  IF reports' = <<>> THEN health' = connected
               ELSE reports'[Len(reports')] = connected
    <2>1. reports[Len(reports)] = connected
      BY <1>1, <1>5 DEF HealthInv, HealthTold
    <2>2. CASE reports' = <<>>
      <3>1. Len(reports) = 1
        BY <1>2, <2>2
      <3>2. Head(reports) = reports[1]
        BY <1>2
      <3>3. QED
        BY <1>1, <1>4, <1>5, <2>1, <2>2, <3>1, <3>2
    <2>3. CASE reports' # <<>>
      <3>1. Len(reports') \in 1..Len(reports') /\ Len(reports') + 1 = Len(reports)
        BY <1>2, <2>3
      <3>2. QED
        BY <1>1, <1>2, <2>1, <2>3, <3>1
    <2>4. QED
      BY <2>2, <2>3
  <1>6. HealthTold'
    BY <1>1, <1>5 DEF HealthTold, Before
  <1>7. QED
    BY <1>1, <1>2, <1>3, <1>6 DEF HealthInv

\* Daemon.run only ever gets further.
LEMMA StagesKeepHealth ==
  ASSUME HealthInv, BeginsShutdown \/ MainGoesOn
  PROVE  HealthInv'
  <1>1. CASE BeginsShutdown \/ StopsProxy
    <2>1. /\ main \in {"serving", "tasks"} /\ main' \in {"tasks", "proxy"}
          /\ UNCHANGED <<connected, reports, health>>
      BY <1>1 DEF BeginsShutdown, StopsProxy, deviceVars
    <2>2. main' \in Stage /\ Before(main, "streams")
      BY <2>1, StageOrder DEF Stage
    <2>3. QED
      BY <2>1, <2>2 DEF HealthInv, HealthTold
  <1>2. CASE StopsHealth \/ ClosesStreams \/ ClosesDatabase
    <2>1. /\ main' \in {"streams", "grace", "down"}
          /\ health' \in BOOLEAN
          /\ UNCHANGED <<connected, reports>>
      BY <1>2 DEF StopsHealth, ClosesStreams, ClosesDatabase, deviceVars, HealthInv
    <2>2. main' \in Stage /\ ~Before(main', "streams")
      BY <2>1 DEF Stage, Before, Stages
    <2>3. HealthTold'
      BY <2>2 DEF HealthTold, Before
    <2>4. QED
      BY <2>1, <2>2, <2>3 DEF HealthInv
  <1>3. QED
    BY <1>1, <1>2 DEF MainGoesOn

LEMMA HealthStep == HealthInv /\ [LifecycleNext]_lifecycleVars => HealthInv'
  <1> SUFFICES ASSUME HealthInv, [LifecycleNext]_lifecycleVars PROVE HealthInv'
    OBVIOUS
  <1>1. CASE ConnectSucceeds
    BY <1>1, NotifyKeeps DEF ConnectSucceeds
  <1>2. CASE SeesFailure
    BY <1>2, NotifyKeeps DEF SeesFailure
  <1>3. CASE Reports
    BY <1>3, ReportsKeep
  <1>4. CASE BeginsShutdown \/ MainGoesOn
    BY <1>4, StagesKeepHealth
  <1>5. CASE ConnectFails \/ TriesAgain \/ GivesUp \/ Parts \/ SupervisorEnds \/ LoopsEnd
    <2>1. UNCHANGED HealthVars
      BY <1>5 DEF ConnectFails, TriesAgain, GivesUp, Parts, SupervisorEnds, LoopsEnd, HealthVars
    <2>2. QED
      BY <2>1, HealthUntouched
  <1>6. CASE RetentionEnds \/ RpcBegins \/ RpcEnds \/ Emits
    <2>1. UNCHANGED HealthVars
      BY <1>6 DEF RetentionEnds, RpcBegins, RpcEnds, Emits, HealthVars, deviceVars
    <2>2. QED
      BY <2>1, HealthUntouched
  <1>7. ASSUME NEW c \in Clients,
               \/ Accepts(c) \/ Registers(c) \/ Receives(c) \/ CommandBegins(c) \/ CommandEnds(c)
               \/ HandlerEnds(c) \/ PeerGone(c) \/ Flushed(c) \/ StopsReading(c) \/ ReadsOn(c)
        PROVE  HealthInv'
    <2>1. UNCHANGED HealthVars
      BY <1>7 DEF Accepts, Registers, Receives, CommandBegins, CommandEnds, HandlerEnds,
           PeerGone, Flushed, StopsReading, ReadsOn, elsewhere,
                  HealthVars, deviceVars
    <2>2. QED
      BY <2>1, HealthUntouched
  <1>8. ASSUME NEW s \in Streams,
               StreamCalled(s) \/ StreamBegins(s) \/ StreamTakes(s) \/ StreamCancelled(s)
        PROVE  HealthInv'
    <2>1. UNCHANGED HealthVars
      BY <1>8 DEF StreamCalled, StreamBegins, StreamTakes, StreamCancelled, HealthVars, deviceVars
    <2>2. QED
      BY <2>1, HealthUntouched
  <1>9. CASE UNCHANGED lifecycleVars
    BY <1>9, HealthUntouched DEF lifecycleVars, deviceVars, HealthVars
  <1>10. QED
    BY <1>1, <1>2, <1>3, <1>4, <1>5, <1>6, <1>7, <1>8, <1>9 DEF LifecycleNext

-----------------------------------------------------------------------------
\* However connections and losses follow each other, the last health report is the
\* true one (_notify_connection, set_device_health).
THEOREM TrueHealth == LifecycleSpec => []HealthTold
  <1>1. HealthInv => HealthTold
    BY DEF HealthInv
  <1>2. QED
    BY HealthInit, HealthStep, <1>1, PTL DEF LifecycleSpec

-----------------------------------------------------------------------------
(* Event streams.                                                          *)

StreamVars == <<main, stream, queue, told>>

HasEnd(q) == \E i \in DOMAIN q : q[i] = "end"

\* A stream is told at most once, and before that there is room for it.
StreamFine(s) ==
  /\ Len(queue[s]) <= QueueMax + 1
  /\ main \notin {"grace", "down"} => s \notin told /\ Len(queue[s]) <= QueueMax
  /\ s \in told => stream[s] \in {"open", "ended"}
  /\ s \in told /\ stream[s] = "open" => HasEnd(queue[s])

StreamInv ==
  /\ main \in Stage
  /\ stream \in [Streams -> {"none", "called", "open", "ended"}]
  /\ queue \in [Streams -> Seq({"event", "end"})]
  /\ \A s \in Streams : StreamFine(s)

LEMMA StreamUntouched == StreamInv /\ UNCHANGED StreamVars => StreamInv'
  BY DEF StreamInv, StreamVars, StreamFine, HasEnd

LEMMA StreamInit == LifecycleInit => StreamInv
  <1> SUFFICES ASSUME LifecycleInit PROVE StreamInv
    OBVIOUS
  <1>1. /\ main = "serving" /\ stream = [s \in Streams |-> "none"]
        /\ queue = [s \in Streams |-> <<>>] /\ told = {}
    BY DEF LifecycleInit
  <1>2. \A s \in Streams : queue[s] = <<>> /\ queue[s] \in Seq({"event", "end"})
    BY <1>1
  <1>3. queue \in [Streams -> Seq({"event", "end"})]
    BY <1>1, <1>2
  <1>4. \A s \in Streams : StreamFine(s)
    BY <1>1, <1>2, LifecycleAssumption DEF StreamFine
  <1>5. QED
    BY <1>1, <1>3, <1>4 DEF StreamInv, Stage

\* Appending keeps what is there.
LEMMA AppendKeepsEnd ==
  ASSUME NEW q \in Seq({"event", "end"}), NEW x \in {"event", "end"}
  PROVE  /\ Append(q, x) \in Seq({"event", "end"})
         /\ Len(Append(q, x)) = Len(q) + 1
         /\ HasEnd(q) \/ x = "end" => HasEnd(Append(q, x))
  <1>1. ASSUME HasEnd(q) PROVE HasEnd(Append(q, x))
    <2>1. PICK i \in DOMAIN q : q[i] = "end"
      BY <1>1 DEF HasEnd
    <2>2. i \in DOMAIN Append(q, x) /\ Append(q, x)[i] = "end"
      BY <2>1
    <2>3. QED
      BY <2>2 DEF HasEnd
  <1>2. ASSUME x = "end" PROVE HasEnd(Append(q, x))
    <2>1. /\ Len(q) + 1 \in DOMAIN Append(q, x)
          /\ Append(q, x)[Len(q) + 1] = "end"
      BY <1>2
    <2>2. QED
      BY <2>1 DEF HasEnd
  <1>3. QED
    BY <1>1, <1>2

\* Taking an item that is not the end marker leaves the marker.
LEMMA TailKeepsEnd ==
  ASSUME NEW q \in Seq({"event", "end"}), q # <<>>
  PROVE  /\ Tail(q) \in Seq({"event", "end"})
         /\ Len(Tail(q)) = Len(q) - 1
         /\ HasEnd(q) /\ Head(q) # "end" => HasEnd(Tail(q))
  <1>1. /\ Tail(q) \in Seq({"event", "end"}) /\ Len(Tail(q)) = Len(q) - 1
        /\ \A i \in 1..Len(Tail(q)) : Tail(q)[i] = q[i + 1]
    BY HeadTailProperties
  <1>2. ASSUME HasEnd(q), Head(q) # "end" PROVE HasEnd(Tail(q))
    <2>1. PICK i \in DOMAIN q : q[i] = "end"
      BY <1>2 DEF HasEnd
    <2>2. i \in 2..Len(q)
      BY <1>2, <2>1
    <2>3. /\ i - 1 \in DOMAIN Tail(q)
          /\ Tail(q)[i - 1] = "end"
      BY <1>1, <2>1, <2>2
    <2>4. QED
      BY <2>3 DEF HasEnd
  <1>3. QED
    BY <1>1, <1>2

\* An event is dropped when a stream is too far behind.
LEMMA EmitsKeeps == StreamInv /\ Emits => StreamInv'
  <1> SUFFICES ASSUME StreamInv, Emits PROVE StreamInv'
    OBVIOUS
  <1>1. /\ queue' = [s \in Streams |-> IF s \in OpenStreams /\ Len(queue[s]) < QueueMax
                                       THEN Append(queue[s], "event") ELSE queue[s]]
        /\ UNCHANGED <<main, stream, told>>
    BY DEF Emits, streamVars
  <1>2. ASSUME NEW s \in Streams
        PROVE  queue'[s] \in Seq({"event", "end"}) /\ StreamFine(s)'
    <2>1. StreamFine(s) /\ queue[s] \in Seq({"event", "end"})
      BY DEF StreamInv
    <2>2. CASE s \in OpenStreams /\ Len(queue[s]) < QueueMax
      <3>1. queue'[s] = Append(queue[s], "event")
        BY <1>1, <2>2
      <3>2. /\ queue'[s] \in Seq({"event", "end"}) /\ Len(queue'[s]) = Len(queue[s]) + 1
            /\ HasEnd(queue[s]) => HasEnd(queue'[s])
        BY <2>1, <3>1, AppendKeepsEnd
      <3>3. Len(queue'[s]) <= QueueMax
        BY <2>1, <2>2, <3>2, LifecycleAssumption
      <3>4. QED
        BY <1>1, <2>1, <3>2, <3>3, LifecycleAssumption DEF StreamFine
    <2>3. CASE ~(s \in OpenStreams /\ Len(queue[s]) < QueueMax)
      <3>1. queue'[s] = queue[s]
        BY <1>1, <2>3
      <3>2. QED
        BY <1>1, <2>1, <3>1 DEF StreamFine
    <2>4. QED
      BY <2>2, <2>3
  <1>3. queue' \in [Streams -> Seq({"event", "end"})]
    BY <1>1, <1>2
  <1>4. QED
    BY <1>1, <1>2, <1>3 DEF StreamInv

\* A step of one stream that is fine afterwards.
LEMMA OneStreamMoves ==
  ASSUME StreamInv, NEW s \in Streams,
         NEW to \in {"none", "called", "open", "ended"}, NEW q \in Seq({"event", "end"}),
         stream' = [stream EXCEPT ![s] = to], queue' = [queue EXCEPT ![s] = q],
         UNCHANGED <<main, told>>,
         Len(q) <= Len(queue[s]),
         s \in told => to \in {"open", "ended"},
         s \in told /\ to = "open" => HasEnd(q)
  PROVE  StreamInv'
  <1>1. /\ stream' \in [Streams -> {"none", "called", "open", "ended"}]
        /\ queue' \in [Streams -> Seq({"event", "end"})]
        /\ stream'[s] = to /\ queue'[s] = q
    BY DEF StreamInv
  <1>2. ASSUME NEW t \in Streams PROVE StreamFine(t)'
    <2>1. StreamFine(t) /\ queue[t] \in Seq({"event", "end"})
      BY DEF StreamInv
    <2>2. CASE t = s
      BY <1>1, <2>1, <2>2, LifecycleAssumption DEF StreamFine
    <2>3. CASE t # s
      <3>1. stream'[t] = stream[t] /\ queue'[t] = queue[t]
        BY <2>3 DEF StreamInv
      <3>2. QED
        BY <2>1, <3>1 DEF StreamFine
    <2>4. QED
      BY <2>2, <2>3
  <1>3. QED
    BY <1>1, <1>2 DEF StreamInv

LEMMA StreamCallsKeep ==
  ASSUME StreamInv, NEW s \in Streams,
         StreamCalled(s) \/ StreamBegins(s) \/ StreamTakes(s) \/ StreamCancelled(s)
  PROVE  StreamInv'
  <1>1. /\ stream[s] \in {"none", "called", "open", "ended"}
        /\ queue[s] \in Seq({"event", "end"}) /\ Len(queue[s]) \in Nat
        /\ StreamFine(s) /\ queue = [queue EXCEPT ![s] = queue[s]]
    BY DEF StreamInv
  <1>2. CASE StreamCalled(s) \/ StreamBegins(s)
    <2>1. PICK to \in {"called", "open"} :
            /\ stream[s] \in {"none", "called"}
            /\ stream' = [stream EXCEPT ![s] = to] /\ UNCHANGED <<main, queue, told>>
      BY <1>2 DEF StreamCalled, StreamBegins
    <2>2. s \notin told
      BY <1>1, <2>1 DEF StreamFine
    <2>3. queue' = [queue EXCEPT ![s] = queue[s]]
      BY <1>1, <2>1
    <2>4. to \in {"none", "called", "open", "ended"} /\ Len(queue[s]) <= Len(queue[s])
      BY <1>1, <2>1
    <2>5. /\ queue[s] \in Seq({"event", "end"}) /\ UNCHANGED <<main, told>>
          /\ stream' = [stream EXCEPT ![s] = to]
      BY <1>1, <2>1
    <2>6. QED
      BY <2>2, <2>3, <2>4, <2>5, OneStreamMoves
  <1>3. CASE StreamTakes(s)
    <2>1. /\ stream[s] = "open" /\ queue[s] # <<>> /\ UNCHANGED <<main, told>>
          /\ stream' = [stream EXCEPT ![s] = IF Head(queue[s]) = "end" THEN "ended"
                                             ELSE stream[s]]
          /\ queue' = [queue EXCEPT ![s] = IF Head(queue[s]) = "end" THEN <<>>
                                           ELSE Tail(queue[s])]
      BY <1>1, <1>3 DEF StreamTakes, StreamInv
    <2>2. CASE Head(queue[s]) = "end"
      <3>1. /\ stream' = [stream EXCEPT ![s] = "ended"]
            /\ queue' = [queue EXCEPT ![s] = <<>>]
        BY <2>1, <2>2
      <3>2. <<>> \in Seq({"event", "end"}) /\ Len(<<>>) <= Len(queue[s])
        BY <1>1
      <3>3. QED
        BY <2>1, <3>1, <3>2, OneStreamMoves
    <2>3. CASE Head(queue[s]) # "end"
      <3>1. /\ stream' = [stream EXCEPT ![s] = "open"]
            /\ queue' = [queue EXCEPT ![s] = Tail(queue[s])]
        BY <2>1, <2>3
      <3>2. /\ Tail(queue[s]) \in Seq({"event", "end"})
            /\ Len(Tail(queue[s])) <= Len(queue[s])
            /\ s \in told => HasEnd(Tail(queue[s]))
        BY <1>1, <2>1, <2>3, TailKeepsEnd DEF StreamFine
      <3>3. QED
        BY <2>1, <3>1, <3>2, OneStreamMoves
    <2>4. QED
      BY <2>2, <2>3
  <1>4. CASE StreamCancelled(s)
    <2>1. /\ stream' = [stream EXCEPT ![s] = "ended"] /\ queue' = [queue EXCEPT ![s] = <<>>]
          /\ UNCHANGED <<main, told>>
      BY <1>4 DEF StreamCancelled
    <2>2. <<>> \in Seq({"event", "end"}) /\ Len(<<>>) <= Len(queue[s])
      BY <1>1
    <2>3. QED
      BY <2>1, <2>2, OneStreamMoves
  <1>5. QED
    BY <1>2, <1>3, <1>4

\* close_event_streams: the marker goes into every open queue, whatever its length.
LEMMA ClosesKeeps == StreamInv /\ ClosesStreams => StreamInv'
  <1> SUFFICES ASSUME StreamInv, ClosesStreams PROVE StreamInv'
    OBVIOUS
  <1>1. /\ main = "streams" /\ main' = "grace" /\ told' = OpenStreams
        /\ queue' = [s \in Streams |-> IF s \in OpenStreams THEN PutEnd(queue[s]) ELSE queue[s]]
        /\ UNCHANGED stream
    BY DEF ClosesStreams, streamVars
  <1>2. ASSUME NEW s \in Streams
        PROVE  queue'[s] \in Seq({"event", "end"}) /\ StreamFine(s)'
    <2>1. /\ queue[s] \in Seq({"event", "end"}) /\ Len(queue[s]) \in Nat
          /\ Len(queue[s]) <= QueueMax
      BY <1>1 DEF StreamInv, StreamFine
    <2>2. CASE s \in OpenStreams
      <3>1. queue'[s] = Append(queue[s], "end")
        BY <1>1, <2>2 DEF PutEnd
      <3>2. /\ queue'[s] \in Seq({"event", "end"}) /\ Len(queue'[s]) = Len(queue[s]) + 1
            /\ HasEnd(queue'[s])
        BY <2>1, <3>1, AppendKeepsEnd
      <3>3. stream[s] = "open"
        BY <2>2 DEF OpenStreams
      <3>4. QED
        BY <1>1, <2>1, <3>2, <3>3, LifecycleAssumption DEF StreamFine
    <2>3. CASE s \notin OpenStreams
      <3>1. queue'[s] = queue[s] /\ s \notin told'
        BY <1>1, <2>3
      <3>2. QED
        BY <1>1, <2>1, <3>1, LifecycleAssumption DEF StreamFine
    <2>4. QED
      BY <2>2, <2>3
  <1>3. queue' \in [Streams -> Seq({"event", "end"})]
    BY <1>1, <1>2
  <1>4. QED
    BY <1>1, <1>2, <1>3 DEF StreamInv, Stage

LEMMA DownKeepsStreams == StreamInv /\ ClosesDatabase => StreamInv'
  <1> SUFFICES ASSUME StreamInv, ClosesDatabase PROVE StreamInv'
    OBVIOUS
  <1>1. /\ main' = "down" /\ stream' = [s \in Streams |-> "ended"]
        /\ queue' = [s \in Streams |-> <<>>]
    BY DEF ClosesDatabase, CutRest
  <1>2. ASSUME NEW s \in Streams
        PROVE  queue'[s] \in Seq({"event", "end"}) /\ StreamFine(s)'
    <2>1. queue'[s] = <<>> /\ stream'[s] = "ended"
      BY <1>1
    <2>2. <<>> \in Seq({"event", "end"}) /\ Len(<<>>) = 0
      OBVIOUS
    <2>3. QED
      BY <1>1, <2>1, <2>2, LifecycleAssumption DEF StreamFine
  <1>3. /\ queue' \in [Streams -> Seq({"event", "end"})]
        /\ stream' \in [Streams -> {"none", "called", "open", "ended"}]
    BY <1>1, <1>2
  <1>4. QED
    BY <1>1, <1>2, <1>3 DEF StreamInv, Stage

\* The other stages come before the streams are told.
LEMMA EarlyStages ==
  ASSUME StreamInv, BeginsShutdown \/ StopsProxy \/ StopsHealth
  PROVE  StreamInv'
  <1>1. /\ main \in {"serving", "tasks", "proxy"} /\ main' \in {"tasks", "proxy", "streams"}
        /\ UNCHANGED <<stream, queue, told>>
    BY DEF BeginsShutdown, StopsProxy, StopsHealth, streamVars
  <1>2. ASSUME NEW s \in Streams PROVE StreamFine(s)'
    <2>1. StreamFine(s)
      BY DEF StreamInv
    <2>2. QED
      BY <1>1, <2>1 DEF StreamFine, HasEnd
  <1>3. QED
    BY <1>1, <1>2 DEF StreamInv, Stage

LEMMA StreamStep == StreamInv /\ [LifecycleNext]_lifecycleVars => StreamInv'
  <1> SUFFICES ASSUME StreamInv, [LifecycleNext]_lifecycleVars PROVE StreamInv'
    OBVIOUS
  <1>1. CASE Emits
    BY <1>1, EmitsKeeps
  <1>2. CASE BeginsShutdown \/ MainGoesOn
    BY <1>2, EarlyStages, ClosesKeeps, DownKeepsStreams DEF MainGoesOn
  <1>3. ASSUME NEW s \in Streams,
               StreamCalled(s) \/ StreamBegins(s) \/ StreamTakes(s) \/ StreamCancelled(s)
        PROVE  StreamInv'
    BY <1>3, StreamCallsKeep
  <1>4. CASE \/ ConnectSucceeds \/ ConnectFails \/ TriesAgain \/ GivesUp \/ SeesFailure \/ Parts
             \/ SupervisorEnds \/ LoopsEnd \/ Reports \/ RetentionEnds \/ RpcBegins \/ RpcEnds
    <2>1. UNCHANGED StreamVars
      BY <1>4 DEF ConnectSucceeds, ConnectFails, TriesAgain, GivesUp, SeesFailure, Parts,
                  SupervisorEnds, LoopsEnd, Reports, RetentionEnds, RpcBegins, RpcEnds,
                  StreamVars, streamVars
    <2>2. QED
      BY <2>1, StreamUntouched
  <1>5. ASSUME NEW c \in Clients,
               \/ Accepts(c) \/ Registers(c) \/ Receives(c) \/ CommandBegins(c) \/ CommandEnds(c)
               \/ HandlerEnds(c) \/ PeerGone(c) \/ Flushed(c) \/ StopsReading(c) \/ ReadsOn(c)
        PROVE  StreamInv'
    <2>1. UNCHANGED StreamVars
      BY <1>5 DEF Accepts, Registers, Receives, CommandBegins, CommandEnds, HandlerEnds,
           PeerGone, Flushed, StopsReading, ReadsOn, elsewhere,
                  StreamVars, streamVars
    <2>2. QED
      BY <2>1, StreamUntouched
  <1>6. CASE UNCHANGED lifecycleVars
    BY <1>6, StreamUntouched DEF lifecycleVars, streamVars, StreamVars
  <1>7. QED
    BY <1>1, <1>2, <1>3, <1>4, <1>5, <1>6 DEF LifecycleNext

\* Every stream that was open when the shutdown told them gets its end marker, also one
\* whose consumer is as far behind as the limit allows (close_event_streams).
THEOREM StreamsEnd == LifecycleSpec => []EndMarked
  <1>1. StreamInv => EndMarked
    BY DEF StreamInv, StreamFine, HasEnd, EndMarked
  <1>2. QED
    BY StreamInit, StreamStep, <1>1, PTL DEF LifecycleSpec

-----------------------------------------------------------------------------
(* The end of the daemon.                                                  *)

UserVars == <<main, sup, retention, rpc, conn, stream>>

UserInv ==
  /\ main \in Stage
  /\ conn \in [Clients -> {"away", "accepted", "served", "closing"}]
  /\ main \in {"proxy", "streams", "grace", "down"} => sup = "ended" /\ retention = "ended"
  /\ main \in {"streams", "grace", "down"} => \A c \in Clients : conn[c] = "away"
  /\ main = "down" => ~rpc /\ \A s \in Streams : stream[s] \in {"none", "ended"}

LEMMA UsersUntouched == UserInv /\ UNCHANGED UserVars => UserInv'
  BY DEF UserInv, UserVars

LEMMA UsersInit == LifecycleInit => UserInv
  BY DEF LifecycleInit, UserInv, Stage

\* The supervisor does nothing new once it was cancelled.
LEMMA SupervisorKeepsUsers ==
  ASSUME UserInv,
         \/ ConnectSucceeds \/ ConnectFails \/ TriesAgain \/ GivesUp \/ SeesFailure \/ Parts
         \/ SupervisorEnds \/ LoopsEnd \/ Reports
  PROVE  UserInv'
  <1>1. UNCHANGED <<main, retention, rpc, conn, stream>>
    BY DEF ConnectSucceeds, ConnectFails, TriesAgain, GivesUp, SeesFailure, Parts,
           SupervisorEnds, LoopsEnd, Reports, taskVars, proxyVars, streamVars
  <1>2. sup' = sup \/ main = "serving" \/ sup' = "ended"
    BY DEF ConnectSucceeds, ConnectFails, TriesAgain, GivesUp, SeesFailure, Parts,
           SupervisorEnds, LoopsEnd, Reports, Cancelled
  <1>3. QED
    BY <1>1, <1>2 DEF UserInv

LEMMA TasksKeepUsers == UserInv /\ (RetentionEnds \/ RpcBegins \/ RpcEnds) => UserInv'
  <1> SUFFICES ASSUME UserInv, RetentionEnds \/ RpcBegins \/ RpcEnds PROVE UserInv'
    OBVIOUS
  <1>1. /\ UNCHANGED <<main, sup, conn, stream>>
        /\ retention' = retention \/ retention' = "ended"
    BY DEF RetentionEnds, RpcBegins, RpcEnds, deviceVars, proxyVars, streamVars
  <1>2. main = "down" => rpc' = rpc \/ ~rpc'
    BY StageOrder DEF RetentionEnds, RpcBegins, RpcEnds, UserInv
  <1>3. QED
    BY <1>1, <1>2 DEF UserInv

\* Nobody gets to the proxy once its server is closed.
LEMMA ClientsKeepUsers ==
  ASSUME UserInv, NEW c \in Clients,
         \/ Accepts(c) \/ Registers(c) \/ Receives(c) \/ CommandBegins(c) \/ CommandEnds(c)
         \/ HandlerEnds(c) \/ PeerGone(c) \/ Flushed(c) \/ StopsReading(c) \/ ReadsOn(c)
  PROVE  UserInv'
  <1>1. UNCHANGED <<main, sup, retention, rpc, stream>>
    BY DEF Accepts, Registers, Receives, CommandBegins, CommandEnds, HandlerEnds,
           PeerGone, Flushed, StopsReading, ReadsOn, elsewhere,
           deviceVars, taskVars, streamVars
  <1>2. \/ conn' = conn
        \/ \E to \in {"away", "accepted", "served", "closing"} :
             conn' = [conn EXCEPT ![c] = to]
        \/ conn' = [conn EXCEPT ![c] = IF @ = "served" THEN "closing" ELSE @]
    BY DEF Accepts, Registers, Receives, CommandBegins, CommandEnds, HandlerEnds,
           PeerGone, Flushed, StopsReading, ReadsOn, elsewhere
  <1>3. main \in {"streams", "grace", "down"} => conn' = conn
    BY StageOrder DEF Accepts, Registers, Receives, CommandBegins, CommandEnds, HandlerEnds,
           PeerGone, Flushed, StopsReading, ReadsOn, elsewhere,
                      UserInv
  <1>4. QED
    BY <1>1, <1>2, <1>3 DEF UserInv

LEMMA StreamsKeepUsers ==
  ASSUME UserInv, NEW s \in Streams,
         StreamCalled(s) \/ StreamBegins(s) \/ StreamTakes(s) \/ StreamCancelled(s)
  PROVE  UserInv'
  <1>1. UNCHANGED <<main, sup, retention, rpc, conn>>
    BY DEF StreamCalled, StreamBegins, StreamTakes, StreamCancelled, deviceVars, taskVars,
           proxyVars
  <1>2. main = "down" => \A t \in Streams : stream'[t] = stream[t] \/ stream'[t] = "ended"
    BY StageOrder DEF StreamCalled, StreamBegins, StreamTakes, StreamCancelled, UserInv
  <1>3. QED
    BY <1>1, <1>2 DEF UserInv

LEMMA StagesKeepUsers ==
  ASSUME UserInv, BeginsShutdown \/ MainGoesOn
  PROVE  UserInv'
  <1>1. CASE BeginsShutdown
    BY <1>1 DEF BeginsShutdown, UserInv, Stage, deviceVars, taskVars, proxyVars, streamVars
  <1>2. CASE StopsProxy
    <2>1. /\ main' = "proxy" /\ sup' = "ended" /\ retention' = "ended"
          /\ conn' = [c \in Clients |-> IF conn[c] = "served" THEN "closing" ELSE conn[c]]
      BY <1>2 DEF StopsProxy, TasksOver, CloseAll, deviceVars, taskVars
    <2>2. QED
      BY <2>1 DEF UserInv, Stage
  <1>3. CASE StopsHealth
    BY <1>3 DEF StopsHealth, UserInv, Stage, taskVars, proxyVars, streamVars
  <1>4. CASE ClosesStreams
    BY <1>4 DEF ClosesStreams, UserInv, Stage, deviceVars, taskVars, proxyVars
  <1>5. CASE ClosesDatabase
    <2>1. /\ main' = "down" /\ main = "grace" /\ rpc' = FALSE
          /\ stream' = [s \in Streams |-> "ended"]
          /\ UNCHANGED <<sup, retention, conn>>
      BY <1>5 DEF ClosesDatabase, CutRest, deviceVars, proxyVars
    <2>2. QED
      BY <2>1 DEF UserInv, Stage
  <1>6. QED
    BY <1>1, <1>2, <1>3, <1>4, <1>5 DEF MainGoesOn

LEMMA UsersStep == UserInv /\ [LifecycleNext]_lifecycleVars => UserInv'
  <1> SUFFICES ASSUME UserInv, [LifecycleNext]_lifecycleVars PROVE UserInv'
    OBVIOUS
  <1>1. CASE Emits
    BY <1>1, UsersUntouched DEF Emits, UserVars, deviceVars, taskVars, proxyVars
  <1>2. CASE UNCHANGED lifecycleVars
    BY <1>2, UsersUntouched
       DEF lifecycleVars, deviceVars, taskVars, proxyVars, streamVars, UserVars
  <1>3. QED
    BY <1>1, <1>2, SupervisorKeepsUsers, TasksKeepUsers, ClientsKeepUsers, StreamsKeepUsers,
       StagesKeepUsers DEF LifecycleNext

\* The database is closed after everything that Daemon.run waits for: the supervisor,
\* retention, the RPCs, the streams and the connections to the proxy.  The handler of
\* a connection may outlive it and is not among them.
THEOREM DatabaseClosedAfterAwaited == LifecycleSpec => []ClosedAfterAwaited
  <1>1. UserInv => ClosedAfterAwaited
    BY DEF UserInv, ClosedAfterAwaited
  <1>2. QED
    BY UsersInit, UsersStep, <1>1, PTL DEF LifecycleSpec
=============================================================================
