---------------------------- MODULE MessagePump ----------------------------
(***************************************************************************)
(* The message pump of DeviceManager (device.py) and the proxy's client    *)
(* set (proxy.py): draining the messages the node has queued.              *)
(*                                                                         *)
(* The node holds received messages until somebody asks for them, and      *)
(* pushes MESSAGES_WAITING when one arrives.  The daemon turns the push    *)
(* into a hint (an asyncio.Event); the pump waits for the hint, clears it, *)
(* and fetches until the node has no more, as long as fetching is allowed: *)
(* in mode "auto" a connected proxy client is left to fetch for itself.    *)
(* The last client that leaves and every new connection renew the hint.    *)
(* The command slot is seen as one lock that the pump shares with clients  *)
(* and with the daemon's other commands (CommandSlot has its details).     *)
(***************************************************************************)
EXTENDS Naturals, FiniteSets

CONSTANTS
    Clients,      \* proxy clients that come and go
    MaxClients,   \* settings.proxy_max_clients
    MaxArrivals,  \* bound: messages that arrive at the node
    MaxFaults     \* bound: outages, lost connections and failed commands

ASSUME PumpAssumption ==
    /\ MaxClients \in Nat \ {0}
    /\ MaxArrivals \in Nat
    /\ MaxFaults \in Nat
    /\ "free" \notin Clients /\ "pump" \notin Clients /\ "daemon" \notin Clients

VARIABLES
    mode,       \* settings.message_fetch_mode
    isConnected,  \* DeviceManager.is_connected
    clients,    \* MeshCoreProxy._clients
    holder,     \* who holds the command slot: "free", "pump", "daemon", a client
    hint,       \* DeviceManager._msgs_waiting
    pc,         \* where the pump is: "parked", "wait", "fetch", "nap"
    resp,       \* the answer to the pump's get_msg
    queue,      \* messages the node holds
    pushed,     \* MESSAGES_WAITING pushes on their way to the daemon
    arrivals, faults,  \* counters, bounded
    stolen,     \* history: messages the pump took since clients are connected
    excused     \* history: a fault since the pump last began to drain

pumpVars == <<mode, isConnected, clients, holder, hint, pc, resp, queue, pushed,
              arrivals, faults, stolen, excused>>

Modes == {"auto", "always", "never"}

-----------------------------------------------------------------------------
\* _fetch_allowed
FetchAllowed ==
    \/ mode = "always"
    \/ mode = "auto" /\ clients = {}

MayFetch == isConnected /\ FetchAllowed

\* command("get_msg"): a free slot is taken in the same step, else the pump
\* queues up for it.
Ask ==
    /\ IF holder = "free" THEN holder' = "pump" /\ pc' = "fetch"
                          ELSE UNCHANGED holder /\ pc' = "wait"
    /\ resp' = "pending"

Park == pc' = "parked" /\ resp' = "pending"

\* Mutated form: the loop goes on as long as there are messages.
RoundUnchecked == Ask

\* The next round of the pump's loop: it asks for the slot, or stops draining.
\* The condition is not looked at again once the pump waits for the slot.
Round == IF MayFetch THEN Ask ELSE Park /\ UNCHANGED holder

PumpInit ==
    /\ mode \in Modes
    /\ isConnected = FALSE
    /\ clients = {}
    /\ holder = "free"
    /\ hint = FALSE
    /\ pc = "parked"
    /\ resp = "pending"
    /\ queue = 0
    /\ pushed = 0
    /\ arrivals = 0
    /\ faults = 0
    /\ stolen = 0
    /\ excused = FALSE

-----------------------------------------------------------------------------
(* The pump.                                                                *)

\* The hint is set: it is consumed whether or not fetching is allowed now.
Wake ==
    /\ pc = "parked"
    /\ hint
    /\ hint' = FALSE
    /\ Round
    /\ excused' = (excused /\ ~MayFetch)
    /\ UNCHANGED <<mode, isConnected, clients, queue, pushed, arrivals,
                   faults, stolen>>

\* The pump's turn at the slot has come.
PumpAcquires ==
    /\ pc = "wait"
    /\ holder = "free"
    /\ holder' = "pump"
    /\ pc' = "fetch"
    /\ UNCHANGED <<mode, isConnected, clients, hint, resp, queue, pushed, arrivals,
                   faults, stolen, excused>>

\* The node hands out its oldest message, or says that it has none.
NodeHandsOut ==
    /\ pc = "fetch"
    /\ resp = "pending"
    /\ IF queue > 0
       THEN resp' = "msg" /\ queue' = queue - 1
       ELSE resp' = "empty" /\ UNCHANGED queue
    /\ UNCHANGED <<mode, isConnected, clients, holder, hint, pc, pushed, arrivals,
                   faults, stolen, excused>>

\* get_msg returns with the answer; after a message the pump naps.
PumpReceives ==
    /\ pc = "fetch"
    /\ holder' = "free"
    /\ \/ /\ resp = "msg"
          /\ pc' = "nap"
          /\ stolen' = IF clients = {} THEN 0 ELSE stolen + 1
          /\ UNCHANGED resp
       \/ /\ resp = "empty"
          /\ Park
          /\ UNCHANGED stolen
    /\ UNCHANGED <<mode, isConnected, clients, hint, queue, pushed, arrivals, faults,
                   excused>>

\* get_msg yields an ERROR event or raises: the drain ends until the next hint.
\* The node may answer with an error at any time, the library times out when
\* the answer was lost.
PumpFails ==
    /\ pc = "fetch"
    /\ \/ /\ resp = "pending"
          /\ faults < MaxFaults
          /\ faults' = faults + 1
       \/ /\ resp = "lost"
          /\ UNCHANGED faults
    /\ holder' = "free"
    /\ Park
    /\ excused' = TRUE
    /\ UNCHANGED <<mode, isConnected, clients, hint, queue, pushed, arrivals, stolen>>

\* The loop condition is evaluated again after the nap.
NapEnds ==
    /\ pc = "nap"
    /\ Round
    /\ UNCHANGED <<mode, isConnected, clients, hint, queue, pushed, arrivals, faults,
                   stolen, excused>>

-----------------------------------------------------------------------------
(* The proxy's clients, and the daemon's other commands.                    *)

Accepted == Cardinality(clients) < MaxClients

ClientConnects(c) ==
    /\ c \notin clients
    /\ Accepted
    /\ clients' = clients \cup {c}
    /\ stolen' = IF clients = {} THEN 0 ELSE stolen
    /\ UNCHANGED <<mode, isConnected, holder, hint, pc, resp, queue, pushed, arrivals,
                   faults, excused>>

\* Mutated form: the pump is not told that the last client has left.
LeaveSilently(left) == UNCHANGED hint
PokeIfLast(left) == hint' = (hint \/ left = {})

\* The handler notices only between two commands; the last one to leave pokes
\* the pump.
ClientLeaves(c) ==
    /\ c \in clients
    /\ holder # c
    /\ clients' = clients \ {c}
    /\ PokeIfLast(clients')
    /\ UNCHANGED <<mode, isConnected, holder, pc, resp, queue, pushed, arrivals, faults,
                   stolen, excused>>

\* A client or the daemon gets the slot; waiters are served in order, so that
\* nobody overtakes the pump once it waits.
OtherTakes(o) ==
    /\ isConnected
    /\ holder = "free"
    /\ pc # "wait"
    /\ o \in clients \cup {"daemon"}
    /\ holder' = o
    /\ UNCHANGED <<mode, isConnected, clients, hint, pc, resp, queue, pushed,
                   arrivals, faults, stolen, excused>>

\* The command ends; a client's may have been a fetch.
OtherReleases ==
    /\ holder \in Clients \cup {"daemon"}
    /\ holder' = "free"
    /\ \/ UNCHANGED queue
       \/ holder \in Clients /\ isConnected /\ queue > 0 /\ queue' = queue - 1
    /\ UNCHANGED <<mode, isConnected, clients, hint, pc, resp, pushed, arrivals,
                   faults, stolen, excused>>

-----------------------------------------------------------------------------
(* The node and the link.                                                   *)

MessageArrives ==
    /\ arrivals < MaxArrivals
    /\ arrivals' = arrivals + 1
    /\ queue' = queue + 1
    /\ pushed' = IF isConnected THEN pushed + 1 ELSE pushed
    /\ UNCHANGED <<mode, isConnected, clients, holder, hint, pc, resp, faults, stolen,
                   excused>>

\* _on_messages_waiting
PushDelivered ==
    /\ pushed > 0
    /\ pushed' = pushed - 1
    /\ hint' = TRUE
    /\ UNCHANGED <<mode, isConnected, clients, holder, pc, resp, queue, arrivals,
                   faults, stolen, excused>>

\* What was on its way is lost, the pump's command with it.
LoseLink ==
    /\ faults < MaxFaults
    /\ faults' = faults + 1
    /\ pushed' = 0

\* The library repairs the link by itself and tells nobody.
Outage ==
    /\ isConnected
    /\ LoseLink
    /\ resp' = IF pc = "fetch" THEN "lost" ELSE resp
    /\ excused' = (excused \/ pushed > 0)
    /\ UNCHANGED <<mode, isConnected, clients, holder, hint, pc, queue, arrivals,
                   stolen>>

\* run() gives the MeshCore object up; a pump that waits for the slot will still
\* use the old one.
ConnectionLost ==
    /\ isConnected
    /\ LoseLink
    /\ isConnected' = FALSE
    /\ resp' = IF pc \in {"wait", "fetch"} THEN "lost" ELSE resp
    /\ UNCHANGED <<mode, clients, holder, hint, pc, queue, arrivals, stolen, excused>>

\* Mutated form: the messages queued in between are not asked for.
DrainLater == UNCHANGED hint
DrainNow   == hint' = TRUE

\* run() has built a new object: "drain anything queued while we were away".
Connect ==
    /\ ~isConnected
    /\ isConnected' = TRUE
    /\ DrainNow
    /\ UNCHANGED <<mode, clients, holder, pc, resp, queue, pushed, arrivals, faults,
                   stolen, excused>>

-----------------------------------------------------------------------------
PumpStep == \/ Wake \/ PumpAcquires \/ PumpReceives \/ PumpFails \/ NapEnds

PumpNext ==
    \/ PumpStep
    \/ NodeHandsOut
    \/ \E c \in Clients : ClientConnects(c) \/ ClientLeaves(c)
    \/ \E o \in Clients \cup {"daemon"} : OtherTakes(o)
    \/ OtherReleases
    \/ MessageArrives \/ PushDelivered \/ Outage \/ ConnectionLost \/ Connect

PumpSpec == PumpInit /\ [][PumpNext]_pumpVars

\* The pump's task runs when it can, every command ends (its timeout sees to
\* that), the node answers, and what it sends arrives unless it is lost.
PumpFairness ==
    /\ WF_pumpVars(PumpStep)
    /\ WF_pumpVars(OtherReleases)
    /\ WF_pumpVars(NodeHandsOut)
    /\ WF_pumpVars(PushDelivered)

PumpFairSpec == PumpSpec /\ PumpFairness

-----------------------------------------------------------------------------
\* The state is well typed, and the proxy never serves more than MaxClients.
PumpTypeOK ==
    /\ mode \in Modes
    /\ isConnected \in BOOLEAN
    /\ clients \in SUBSET Clients
    /\ Cardinality(clients) <= MaxClients
    /\ holder \in Clients \cup {"free", "pump", "daemon"}
    /\ hint \in BOOLEAN
    /\ pc \in {"parked", "wait", "fetch", "nap"}
    /\ resp \in {"pending", "msg", "empty", "lost"}
    /\ queue \in Nat /\ pushed \in Nat /\ arrivals \in Nat /\ faults \in Nat
    /\ stolen \in Nat
    /\ excused \in BOOLEAN

\* No wake-up is lost: whenever the pump sleeps without a pending hint although
\* it may fetch, the node has nothing for it or a push is under way.  Clearing
\* the hint before the drain, the poke of the last client and the hint of a new
\* connection are what this rests on; a drain that ended in an error and a push
\* lost in an outage the library repairs are the two ways around it.
NoLostHint ==
    pc = "parked" /\ ~hint /\ MayFetch => queue = 0 \/ pushed > 0 \/ excused

\* In mode "auto" a client that connects loses at most the one message that the
\* pump was about to ask for.
AtMostOneStolen == mode = "auto" /\ clients # {} => stolen <= 1

\* Messages the daemon may fetch do not stay in the node: the pump, or a client,
\* fetches them all unless a client or a fault comes in between.
Drained == (queue > 0) ~> (queue = 0 \/ ~MayFetch \/ excused)
=============================================================================
