------------------------------ MODULE Lifecycle ------------------------------
(***************************************************************************)
(* The daemon from its first connection to its end: the supervisor that    *)
(* connects to the node and rebuilds the connection, the health reports it *)
(* causes, the proxy's and the gRPC server's clients, and the order in     *)
(* which Daemon.run takes everything down.  What the parts do meanwhile is *)
(* in the other modules.                                                   *)
(***************************************************************************)
EXTENDS Naturals, Sequences

CONSTANTS Clients,    \* proxy clients
          Stalling,   \* those that may stop reading for ever
          Streams,    \* StreamEvents calls
          QueueMax,   \* events a stream may be behind (1000)
          MaxReports  \* bound: no new connection while so many reports wait

ASSUME LifecycleAssumption ==
  /\ Stalling \subseteq Clients
  /\ QueueMax \in Nat \ {0}
  /\ MaxReports \in Nat

VARIABLES
  main,        \* how far Daemon.run is
  sup,         \* how far DeviceManager.run is
  mc,          \* is there a connection object that has not been disconnected?
  connected,   \* _connected
  failed,      \* _conn_failed
  loops,       \* the message pump and the contact sync, which live together
  retention,   \* the retention task
  rpc,         \* is a unary RPC being handled?
  reports,     \* health reports that are tasks still to run
  health,      \* what the health service says of the device
  conn,        \* the connection of each proxy client, a transport
  handler,     \* the task of _handle_client that serves it
  backlog,     \* clients with commands received that their handler has not begun
  unsent,      \* clients whose transport holds data they do not read
  stream,      \* each StreamEvents call
  queue,       \* its queue
  told,        \* history: the streams open when close_event_streams ran
  slipped      \* history: clients accepted but not registered when the proxy stopped

deviceVars == <<sup, mc, connected, failed, loops, reports, health>>
taskVars   == <<retention, rpc>>
proxyVars  == <<conn, handler, backlog, unsent, slipped>>
streamVars == <<stream, queue, told>>
lifecycleVars == <<main, deviceVars, taskVars, proxyVars, streamVars>>

\* Daemon.run: serving; waiting for the two tasks; for the proxy's server;
\* about to end the streams; in the grace period; database closed.
Stages == <<"serving", "tasks", "proxy", "streams", "grace", "down">>
Before(a, b) == \E i, j \in DOMAIN Stages : Stages[i] = a /\ Stages[j] = b /\ i < j

\* The supervisor's task and retention's are cancelled together with the stop.
Cancelled == main # "serving"

LifecycleInit ==
  /\ main = "serving" /\ sup = "connecting" /\ mc = FALSE /\ connected = FALSE
  /\ failed = FALSE /\ loops = "running" /\ retention = "running" /\ rpc = FALSE
  /\ reports = <<>> /\ health = FALSE
  /\ conn = [c \in Clients |-> "away"] /\ handler = [c \in Clients |-> "none"]
  /\ backlog = {} /\ unsent = {} /\ slipped = {}
  /\ stream = [s \in Streams |-> "none"]
  /\ queue = [s \in Streams |-> <<>>] /\ told = {}

-----------------------------------------------------------------------------
(* The supervisor.                                                         *)

\* Mutated form: the listeners are told of connections only.
NotifyUp(up) == reports' = IF up THEN Append(reports, up) ELSE reports

\* The connection listeners; the gRPC server's spawns a task per report.
Notify(up) == reports' = Append(reports, up)

ConnectSucceeds ==
  /\ sup = "connecting" /\ ~Cancelled /\ Len(reports) < MaxReports
  /\ sup' = "watching" /\ mc' = TRUE
  /\ failed' = FALSE /\ connected' = TRUE
  /\ Notify(TRUE)
  /\ UNCHANGED <<main, loops, health, taskVars, proxyVars, streamVars>>

\* The back-off after a failed attempt only delays the next one.
ConnectFails ==
  /\ sup = "connecting" /\ ~Cancelled
  /\ sup' = "backoff"
  /\ UNCHANGED <<main, mc, connected, failed, loops, reports, health, taskVars, proxyVars, streamVars>>

TriesAgain ==
  /\ sup = "backoff" /\ ~Cancelled
  /\ sup' = "connecting"
  /\ UNCHANGED <<main, mc, connected, failed, loops, reports, health, taskVars, proxyVars, streamVars>>

\* The library gives up reconnecting: a DISCONNECTED event of the last kind.
GivesUp ==
  /\ mc /\ ~failed
  /\ failed' = TRUE
  /\ UNCHANGED <<main, sup, mc, connected, loops, reports, health, taskVars, proxyVars, streamVars>>

SeesFailure ==
  /\ sup = "watching" /\ failed /\ ~Cancelled
  /\ sup' = "parting" /\ connected' = FALSE
  /\ Notify(FALSE)
  /\ UNCHANGED <<main, mc, failed, loops, health, taskVars, proxyVars, streamVars>>

\* mc.disconnect() returns or raises.
Parts ==
  /\ sup = "parting" /\ ~Cancelled
  /\ sup' = "connecting" /\ mc' = FALSE
  /\ UNCHANGED <<main, connected, failed, loops, reports, health, taskVars, proxyVars, streamVars>>

\* A cancelled task gets its CancelledError at the await it is in, whichever
\* that is: only the finally blocks run.
SupervisorEnds ==
  /\ Cancelled /\ sup # "ended"
  /\ sup' = "ended" /\ loops' = "cancelled"
  /\ UNCHANGED <<main, mc, connected, failed, reports, health, taskVars, proxyVars, streamVars>>

LoopsEnd ==
  /\ loops = "cancelled"
  /\ loops' = "ended"
  /\ UNCHANGED <<main, sup, mc, connected, failed, reports, health, taskVars, proxyVars, streamVars>>

\* A report's task runs; after enter_graceful_shutdown it changes nothing.
Reports ==
  /\ reports # <<>>
  /\ reports' = Tail(reports)
  /\ health' = (Head(reports) /\ Before(main, "streams"))
  /\ UNCHANGED <<main, sup, mc, connected, failed, loops, taskVars, proxyVars, streamVars>>

-----------------------------------------------------------------------------
(* Retention and unary RPCs.                                               *)

RetentionEnds ==
  /\ retention = "running" /\ Cancelled
  /\ retention' = "ended"
  /\ UNCHANGED <<main, deviceVars, rpc, proxyVars, streamVars>>

RpcBegins ==
  /\ ~rpc /\ Before(main, "grace")
  /\ rpc' = TRUE
  /\ UNCHANGED <<main, deviceVars, retention, proxyVars, streamVars>>

RpcEnds ==
  /\ rpc
  /\ rpc' = FALSE
  /\ UNCHANGED <<main, deviceVars, retention, proxyVars, streamVars>>

-----------------------------------------------------------------------------
(* Proxy clients: a connection, and the task of _handle_client that serves  *)
(* it.  Either may be over before the other.                                *)

elsewhere == <<main, deviceVars, taskVars, slipped, streamVars>>

\* The server accepts: a transport exists, _handle_client has not begun.
Accepts(c) ==
  /\ Before(main, "proxy")
  /\ conn[c] = "away" /\ handler[c] = "none"
  /\ conn' = [conn EXCEPT ![c] = "accepted"]
  /\ UNCHANGED <<elsewhere, handler, backlog, unsent>>

\* _handle_client adds the client to _clients, whatever the server's state.
Registers(c) ==
  /\ conn[c] = "accepted"
  /\ conn' = [conn EXCEPT ![c] = "served"]
  /\ handler' = [handler EXCEPT ![c] = "reading"]
  /\ UNCHANGED <<elsewhere, backlog, unsent>>

\* Commands arrive; a transport that is closed takes none.
Receives(c) ==
  /\ conn[c] = "served" /\ c \notin backlog
  /\ backlog' = backlog \union {c}
  /\ UNCHANGED <<elsewhere, conn, handler, unsent>>

\* The next command received, also when the connection is gone: the reader hands
\* out what it has before the end of the stream.
CommandBegins(c) ==
  /\ handler[c] = "reading" /\ c \in backlog
  /\ handler' = [handler EXCEPT ![c] = "busy"]
  /\ backlog' \in {backlog, backlog \ {c}}
  /\ UNCHANGED <<elsewhere, conn, unsent>>

\* _handle_command returns, after whatever it waited for and wrote.
CommandEnds(c) ==
  /\ handler[c] = "busy"
  /\ handler' = [handler EXCEPT ![c] = "reading"]
  /\ UNCHANGED <<elsewhere, conn, backlog, unsent>>

\* A command raises, the connection is lost, or the peer has hung up.
MayEnd(c) ==
  \/ handler[c] = "busy"
  \/ handler[c] = "reading" /\ conn[c] = "away"
  \/ handler[c] = "reading" /\ conn[c] = "served" /\ c \notin backlog

\* The finally of _handle_client.
HandlerEnds(c) ==
  /\ MayEnd(c)
  /\ handler' = [handler EXCEPT ![c] = "none"]
  /\ conn' = [conn EXCEPT ![c] = IF @ = "served" THEN "closing" ELSE @]
  /\ backlog' = backlog \ {c}
  /\ UNCHANGED <<elsewhere, unsent>>

\* The connection breaks; the handler learns of it when it next reads or writes.
PeerGone(c) ==
  /\ conn[c] \in {"served", "closing"}
  /\ conn' = [conn EXCEPT ![c] = "away"]
  /\ unsent' = unsent \ {c}
  /\ UNCHANGED <<elsewhere, handler, backlog>>

\* A transport whose close() was called disappears when its data is sent.
Flushed(c) ==
  /\ conn[c] = "closing" /\ c \notin unsent
  /\ conn' = [conn EXCEPT ![c] = "away"]
  /\ UNCHANGED <<elsewhere, handler, backlog, unsent>>

StopsReading(c) ==
  /\ c \in Stalling \ unsent /\ conn[c] = "served"
  /\ unsent' = unsent \union {c}
  /\ UNCHANGED <<elsewhere, conn, handler, backlog>>

ReadsOn(c) ==
  /\ c \in unsent
  /\ unsent' = unsent \ {c}
  /\ UNCHANGED <<elsewhere, conn, handler, backlog>>

-----------------------------------------------------------------------------
(* Event streams.                                                          *)

\* Mutated form: the end marker is dropped like any other item.
PutIfRoom(q) == IF Len(q) < QueueMax THEN Append(q, "end") ELSE q

\* put_nowait(None): the queue itself is unbounded.
PutEnd(q) == Append(q, "end")

OpenStreams == {s \in Streams : stream[s] = "open"}

\* The server takes the call; its handler has not begun.
StreamCalled(s) ==
  /\ stream[s] = "none" /\ Before(main, "grace")
  /\ stream' = [stream EXCEPT ![s] = "called"]
  /\ UNCHANGED <<main, deviceVars, taskVars, proxyVars, queue, told>>

StreamBegins(s) ==
  /\ stream[s] = "called"
  /\ stream' = [stream EXCEPT ![s] = "open"]
  /\ UNCHANGED <<main, deviceVars, taskVars, proxyVars, queue, told>>

\* _on_any_event: the library goes on emitting, also during the shutdown.
Emits ==
  /\ mc /\ OpenStreams # {}
  /\ queue' = [s \in Streams |-> IF s \in OpenStreams /\ Len(queue[s]) < QueueMax
                                 THEN Append(queue[s], "event") ELSE queue[s]]
  /\ UNCHANGED <<main, deviceVars, taskVars, proxyVars, stream, told>>

StreamTakes(s) ==
  /\ stream[s] = "open" /\ queue[s] # <<>>
  /\ stream' = [stream EXCEPT ![s] = IF Head(queue[s]) = "end" THEN "ended" ELSE @]
  /\ queue' = [queue EXCEPT ![s] = IF Head(@) = "end" THEN <<>> ELSE Tail(@)]
  /\ UNCHANGED <<main, deviceVars, taskVars, proxyVars, told>>

StreamCancelled(s) ==
  /\ stream[s] \in {"called", "open"}
  /\ stream' = [stream EXCEPT ![s] = "ended"]
  /\ queue' = [queue EXCEPT ![s] = <<>>]
  /\ UNCHANGED <<main, deviceVars, taskVars, proxyVars, told>>

-----------------------------------------------------------------------------
(* Daemon.run, from the signal on.                                         *)

\* retention_task.cancel(), device.stop() and device_task.cancel() in one go.
BeginsShutdown ==
  /\ main = "serving"
  /\ main' = "tasks"
  /\ UNCHANGED <<deviceVars, taskVars, proxyVars, streamVars>>

\* Mutated form: only the supervisor's task is awaited.
SupervisorOver == sup = "ended"

TasksOver == sup = "ended" /\ retention = "ended"

\* Mutated form: the set is cleared before its clients are closed.
CloseNobody(cs) == conn' = cs

\* The writers of _clients are closed, and the set is cleared.
CloseAll(cs) == conn' = [c \in Clients |-> IF cs[c] = "served" THEN "closing" ELSE cs[c]]

\* proxy.stop() up to wait_closed().
StopsProxy ==
  /\ main = "tasks" /\ TasksOver
  /\ main' = "proxy"
  /\ CloseAll(conn)
  /\ slipped' = {c \in Clients : conn[c] = "accepted"}
  /\ UNCHANGED <<deviceVars, taskVars, handler, backlog, unsent, streamVars>>

\* wait_closed() returns when no transport is left, whatever the handlers are
\* doing; health goes down next.
StopsHealth ==
  /\ main = "proxy"
  /\ \A c \in Clients : conn[c] = "away"
  /\ main' = "streams" /\ health' = FALSE
  /\ UNCHANGED <<sup, mc, connected, failed, loops, reports, taskVars, proxyVars, streamVars>>

\* close_event_streams() and the beginning of server.stop().
ClosesStreams ==
  /\ main = "streams"
  /\ main' = "grace" /\ told' = OpenStreams
  /\ queue' = [s \in Streams |-> IF s \in OpenStreams THEN PutEnd(queue[s]) ELSE queue[s]]
  /\ UNCHANGED <<deviceVars, taskVars, proxyVars, stream>>

\* The grace period ends: what is left of the RPCs is cancelled.
CutRest ==
  /\ rpc' = FALSE
  /\ stream' = [s \in Streams |-> "ended"]
  /\ queue' = [s \in Streams |-> <<>>]

\* server.stop() returns and the database is closed.
ClosesDatabase ==
  /\ main = "grace"
  /\ main' = "down"
  /\ CutRest
  /\ UNCHANGED <<deviceVars, retention, proxyVars, told>>

MainGoesOn == StopsProxy \/ StopsHealth \/ ClosesStreams \/ ClosesDatabase

LifecycleNext ==
  \/ ConnectSucceeds \/ ConnectFails \/ TriesAgain \/ GivesUp \/ SeesFailure \/ Parts
  \/ SupervisorEnds \/ LoopsEnd \/ Reports \/ RetentionEnds \/ RpcBegins \/ RpcEnds
  \/ \E c \in Clients :
       \/ Accepts(c) \/ Registers(c) \/ Receives(c) \/ CommandBegins(c) \/ CommandEnds(c)
       \/ HandlerEnds(c) \/ PeerGone(c) \/ Flushed(c) \/ StopsReading(c) \/ ReadsOn(c)
  \/ Emits
  \/ \E s \in Streams : StreamCalled(s) \/ StreamBegins(s) \/ StreamTakes(s) \/ StreamCancelled(s)
  \/ BeginsShutdown \/ MainGoesOn

LifecycleSpec == LifecycleInit /\ [][LifecycleNext]_lifecycleVars

\* What the event loop does by itself: tasks that can run do, the transport of
\* a client that reads is flushed.  Nothing is assumed of the node, of signals
\* or of peers.
LifecycleFairSpec ==
  /\ LifecycleSpec
  /\ WF_lifecycleVars(SupervisorEnds) /\ WF_lifecycleVars(RetentionEnds)
  /\ WF_lifecycleVars(MainGoesOn)
  /\ \A c \in Clients : WF_lifecycleVars(Registers(c)) /\ WF_lifecycleVars(Flushed(c))

-----------------------------------------------------------------------------
(* Properties.                                                             *)

\* The health service's last word is what the supervisor last knew: reports are
\* tasks of their own, yet after a disconnect and a reconnect in quick succession
\* the one that runs last is the newest (_notify_connection, set_device_health).
HealthTold ==
  Before(main, "streams") =>
    IF reports = <<>> THEN health = connected ELSE reports[Len(reports)] = connected

\* Every stream that was open when close_event_streams ran gets its end marker,
\* also when its consumer is so far behind that events are dropped, and no queue
\* ever grows beyond the limit by more than that marker.
EndMarked ==
  \A s \in Streams :
    /\ Len(queue[s]) <= QueueMax + 1
    /\ s \in told /\ stream[s] = "open" => \E i \in DOMAIN queue[s] : queue[s][i] = "end"

\* When the database is closed, what Daemon.run waits for is over: the supervisor,
\* retention, every RPC and stream, and every connection to the proxy.  Nothing is said
\* of tasks that it does not wait for, and these can meet a closed database: the
\* library's callbacks, channel tasks, and the handler of a client whose connection is
\* gone, in the middle of a command (_log_outgoing_message, raw_command) or with
\* commands left that it received before.
ClosedAfterAwaited ==
  main = "down" =>
    /\ sup = "ended" /\ retention = "ended" /\ ~rpc
    /\ \A s \in Streams : stream[s] \in {"none", "ended"}
    /\ \A c \in Clients : conn[c] = "away"

\* What wait_closed() waits for beyond the daemon's control: a client accepted
\* but not registered when the others were closed, or one that leaves the data
\* in its transport unread.
Holding(c) ==
  \/ c \in slipped /\ conn[c] = "served"
  \/ conn[c] = "closing" /\ c \in unsent

\* A signal ends the daemon, whatever its tasks, clients and streams are doing at
\* that moment, unless a client holds the proxy's server open for ever.
ShutdownEnds ==
  (\A c \in Clients : []<>~Holding(c)) => (main = "tasks" ~> main = "down")
=============================================================================
