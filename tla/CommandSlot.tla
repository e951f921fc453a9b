---------------------------- MODULE CommandSlot ----------------------------
(***************************************************************************)
(* The device-wide command slot of DeviceManager (device.py): one          *)
(* asyncio.Lock serialises every command sent to the MeshCore node, since  *)
(* the companion protocol matches responses to commands only by order.     *)
(*                                                                         *)
(* Three kinds of caller compete for the slot.  A proxy client's handler   *)
(* and the SendRawCommand and Reboot RPCs use raw_command, which routes    *)
(* every non-push frame into a queue of its own while it holds the slot;   *)
(* everything else uses command, which lets the meshcore library wait for  *)
(* a matching event.  The node answers in order, but late or never, and a  *)
(* caller may give up before its answer has arrived.                       *)
(*                                                                         *)
(* Each frame carries, as a ghost, the number of the request it answers    *)
(* (0 for a push); no action reads it to decide anything.                  *)
(***************************************************************************)
EXTENDS Naturals, Sequences, SequencesExt

CONSTANTS
    ProxyClients,  \* TCP clients of the proxy: raw_command, frames streamed out
    RpcCallers,    \* SendRawCommand and Reboot RPCs: raw_command, cancellable
    LibCallers,    \* pump, contact sync, tracker, ping, typed RPCs: command
    Stalling,      \* proxy clients that may stop reading without hanging up
    NoOne,         \* the slot is free
    MaxRequests,   \* bound: requests submitted in a behaviour
    MaxDrops,      \* bound: link outages, of either kind
    MaxPushes      \* bound: push frames the node emits

RawCallers == ProxyClients \cup RpcCallers
Callers    == RawCallers \cup LibCallers

ASSUME CallersAssumption ==
    /\ ProxyClients \cap RpcCallers = {}
    /\ RawCallers \cap LibCallers = {}
    /\ Stalling \subseteq ProxyClients
    /\ NoOne \notin Callers

ASSUME BoundsAssumption ==
    MaxRequests \in Nat /\ MaxDrops \in Nat /\ MaxPushes \in Nat

VARIABLES
    connected,   \* DeviceManager._connected
    epoch,       \* which MeshCore object self.mc is
    slot,        \* the holder of command_lock, or NoOne
    call,        \* per caller: its phase, command, request number and mc
    got,         \* per caller: `frames`, what its current or last command got
    rawOpen,     \* self._raw_queue is not None
    rawQueue,    \* the frames in self._raw_queue
    inbox,       \* requests on their way to the node or being executed
    wire,        \* frames on their way from the node
    nreq, drops, pushes,   \* counters, bounded
    abandoned    \* history: requests given up before their final answer

vars == <<connected, epoch, slot, call, got, rawOpen, rawQueue, inbox, wire,
          nreq, drops, pushes, abandoned>>

link == <<connected, epoch, drops>>
node == <<inbox, wire, pushes>>

-----------------------------------------------------------------------------
(* The companion protocol: "contacts" is the one multi-frame read, "set"    *)
(* stands for every command with a one-frame answer, "reboot" has none.     *)

Commands == {"contacts", "set", "reboot"}
Codes    == {"start", "contact", "end", "ok", "err", "push"}
Final    == {"end", "ok", "err"}
Frame    == [req : Nat, code : Codes]
RawFrame == [req : Nat, code : Codes \ {"push"}]
Request  == [req : Nat, cmd : Commands]

\* Mutated form: a contact record is forgotten and ends its list.
TerminalAtContact(cmd, code) == cmd = "contacts" => code # "start"

\* Mutated form: the frame behind a contact list is waited for.
TerminalTooLate(cmd, code) == cmd = "contacts" => code \notin {"start", "contact", "end"}

\* _is_terminal: a contact list ends at the first frame that continues none.
Terminal(cmd, code) == cmd = "contacts" => code \notin {"start", "contact"}

\* The answers the node may give to a request, in the order it sends them.
Answers(q) ==
    LET Resp(code) == [req |-> q.req, code |-> code]
    IN  CASE q.cmd = "contacts" -> {<<Resp("start"), Resp("contact"), Resp("end")>>,
                                    <<Resp("err")>>}
          [] q.cmd = "set"      -> {<<Resp("ok")>>, <<Resp("err")>>}
          [] q.cmd = "reboot"   -> {<<>>}

\* A library command waits for the events its command can end with.
LibAccepts(cmd, code) ==
    \/ code = "err"
    \/ cmd = "contacts" /\ code = "end"
    \/ cmd = "set" /\ code = "ok"

\* Mutated form: the push boundary is not tested.
AnyFrame(f) == TRUE

\* _dispatch_frame: pushes are never routed to a raw command's queue.
ForRaw(f) == f.code # "push"

-----------------------------------------------------------------------------
Holding  == {"send", "recv", "took"}
Call     == [phase : {"idle", "wait"} \cup Holding, cmd : Commands, req : Nat,
             epoch : Nat]

\* A caller without a command in flight.
Idle == [phase |-> "idle", cmd |-> "set", req |-> 0, epoch |-> 0]

Phase(c) == call[c].phase
Waiting  == {c \in Callers : Phase(c) = "wait"}

\* asyncio.Lock wakes its waiters in the order they queued, ...
First(c) == \A d \in Waiting : call[c].req <= call[d].req

\* Mutated form: an acquirer barges in whenever the lock is unlocked.
LockUnheld == slot = NoOne

\* ... and an acquirer queues up behind them even if the lock is unlocked.
LockFree == slot = NoOne /\ Waiting = {}

\* c has taken the last frame of the answer to its own request.
Answered(c) ==
    \E i \in DOMAIN got[c] : /\ got[c][i].req = call[c].req
                             /\ got[c][i].code \in Final

\* The lock is taken; a raw command installs its queue before it sends.
Enter(c, r) ==
    /\ slot' = c
    /\ rawOpen' = (c \in RawCallers)
    /\ rawQueue' = <<>>
    /\ call' = [call EXCEPT ![c] = [r EXCEPT !.phase = "send"]]

\* Mutated form: the queue is not dropped.
ReleaseLockOnly == slot' = NoOne /\ UNCHANGED <<rawOpen, rawQueue>>

\* The `finally` that drops the queue, and the release of the lock.
Release == slot' = NoOne /\ rawOpen' = FALSE /\ rawQueue' = <<>>

\* c leaves the slot and its command is over, with an answer or without.
Leave(c) ==
    /\ Release
    /\ call' = [call EXCEPT ![c] = Idle]
    /\ got' = [got EXCEPT ![c] = <<>>]
    /\ abandoned' = IF Answered(c) \/ call[c].cmd = "reboot" THEN abandoned
                    ELSE abandoned \cup {call[c].req}

\* A frame reaches the command in flight.
Take(c, f) ==
    /\ call' = [call EXCEPT ![c].phase = "took"]
    /\ got' = [got EXCEPT ![c] = Append(got[c], f)]

-----------------------------------------------------------------------------
Init ==
    /\ connected = TRUE
    /\ epoch = 1
    /\ slot = NoOne
    /\ call = [c \in Callers |-> Idle]
    /\ got = [c \in Callers |-> <<>>]
    /\ rawOpen = FALSE
    /\ rawQueue = <<>>
    /\ inbox = <<>>
    /\ wire = <<>>
    /\ nreq = 0
    /\ drops = 0
    /\ pushes = 0
    /\ abandoned = {}

\* Both entry points check the connection and take self.mc before they wait.
Submit(c, cmd) ==
    LET r == [phase |-> "wait", cmd |-> cmd, req |-> nreq + 1, epoch |-> epoch]
    IN  /\ connected
        /\ Phase(c) = "idle"
        /\ nreq < MaxRequests
        /\ c \in LibCallers => cmd # "reboot"
        /\ nreq' = nreq + 1
        /\ \/ LockFree /\ Enter(c, r)
           \/ /\ ~LockFree
              /\ call' = [call EXCEPT ![c] = r]
              /\ UNCHANGED <<slot, rawOpen, rawQueue>>
        /\ UNCHANGED <<link, node, got, abandoned>>

\* The first waiter is woken; self.mc is not looked at again.
Acquire(c) ==
    /\ slot = NoOne
    /\ Phase(c) = "wait"
    /\ First(c)
    /\ Enter(c, call[c])
    /\ UNCHANGED <<link, node, got, nreq, abandoned>>

\* The library reaches the node only through the object of this connection.
Reaches(c) == connected /\ call[c].epoch = epoch

\* Mutated form: the transport repeats what it has already sent.
DeliverTwice(c) ==
    LET q == [req |-> call[c].req, cmd |-> call[c].cmd]
    IN  inbox' = IF Reaches(c) THEN inbox \o <<q, q>> ELSE inbox

Deliver(c) ==
    inbox' = IF Reaches(c)
             THEN Append(inbox, [req |-> call[c].req, cmd |-> call[c].cmd])
             ELSE inbox

\* A raw REBOOT returns at once; any other command waits for its answer.
Send(c) ==
    /\ Phase(c) = "send"
    /\ Deliver(c)
    /\ \/ /\ call[c].cmd = "reboot"
          /\ Leave(c)
       \/ /\ call[c].cmd # "reboot"
          /\ call' = [call EXCEPT ![c].phase = "recv"]
          /\ UNCHANGED <<slot, rawOpen, rawQueue, got, abandoned>>
    /\ UNCHANGED <<link, wire, pushes, nreq>>

\* The transport raises and nothing is sent.
SendFails(c) ==
    /\ Phase(c) = "send"
    /\ Leave(c)
    /\ UNCHANGED <<link, node, nreq>>

\* The node executes its oldest request and emits the whole answer.
NodeAnswer ==
    /\ inbox # <<>>
    /\ \E a \in Answers(Head(inbox)) : wire' = wire \o a
    /\ inbox' = Tail(inbox)
    /\ UNCHANGED <<link, slot, call, got, rawOpen, rawQueue, nreq, pushes,
                   abandoned>>

NodePush ==
    /\ connected
    /\ pushes < MaxPushes
    /\ pushes' = pushes + 1
    /\ wire' = Append(wire, [req |-> 0, code |-> "push"])
    /\ UNCHANGED <<link, slot, call, got, rawOpen, rawQueue, inbox, nreq,
                   abandoned>>

\* _dispatch_frame, then the library's own reader: the frame goes to the raw
\* queue if one is installed, and may end the library command in flight.
Dispatch ==
    /\ wire # <<>>
    /\ wire' = Tail(wire)
    /\ LET f == Head(wire)
           ends == {c \in LibCallers : /\ Phase(c) = "recv"
                                       /\ LibAccepts(call[c].cmd, f.code)}
       IN  /\ rawQueue' = IF rawOpen /\ ForRaw(f) THEN Append(rawQueue, f)
                          ELSE rawQueue
           /\ \/ \E c \in ends : Take(c, f)
              \/ ends = {} /\ UNCHANGED <<call, got>>
    /\ UNCHANGED <<link, inbox, pushes, slot, rawOpen, nreq, abandoned>>

\* queue.get() returns: the frame is appended to `frames`.
RawReceive(c) ==
    /\ c \in RawCallers
    /\ Phase(c) = "recv"
    /\ rawQueue # <<>>
    /\ rawQueue' = Tail(rawQueue)
    /\ Take(c, Head(rawQueue))
    /\ UNCHANGED <<link, node, slot, rawOpen, nreq, abandoned>>

\* The frame has been written to the client's socket (on_frame, for a proxy
\* client); the frame that ends the answer ends the command.
Taken(c) ==
    /\ Phase(c) = "took"
    /\ IF Terminal(call[c].cmd, Last(got[c]).code)
       THEN Leave(c)
       ELSE /\ call' = [call EXCEPT ![c].phase = "recv"]
            /\ UNCHANGED <<slot, rawOpen, rawQueue, got, abandoned>>
    /\ UNCHANGED <<link, node, nreq>>

\* The client has hung up: on_frame raises through the read loop.
StreamFails(c) ==
    /\ c \in ProxyClients
    /\ Phase(c) = "took"
    /\ Leave(c)
    /\ UNCHANGED <<link, node, nreq>>

\* Mutated form: the deadline covers the first frame only.
MayExpireUnanswered(c) == Phase(c) = "recv" /\ got[c] = <<>>

\* The deadline covers every wait for a frame, the first as well as later ones.
MayExpire(c) == Phase(c) = "recv"

Timeout(c) ==
    /\ MayExpire(c)
    /\ Leave(c)
    /\ UNCHANGED <<link, node, nreq>>

\* The task is cancelled: an RPC whose client left, a ping past its deadline.
Cancel(c) ==
    /\ c \in RpcCallers \cup LibCallers
    /\ \/ Phase(c) \in Holding /\ Leave(c)
       \/ /\ Phase(c) = "wait"
          /\ call' = [call EXCEPT ![c] = Idle]
          /\ UNCHANGED <<slot, got, rawOpen, rawQueue, abandoned>>
    /\ UNCHANGED <<link, node, nreq>>

-----------------------------------------------------------------------------
(* The link.  The library hides an outage it repairs itself; only when it   *)
(* gives up does run() clear `connected` and build a new MeshCore object.   *)

LoseTraffic == inbox' = <<>> /\ wire' = <<>> /\ drops' = drops + 1

LinkDrop ==
    /\ connected
    /\ drops < MaxDrops
    /\ LoseTraffic
    /\ UNCHANGED <<connected, epoch, slot, call, got, rawOpen, rawQueue, nreq,
                   pushes, abandoned>>

ConnLost ==
    /\ connected
    /\ drops < MaxDrops
    /\ LoseTraffic
    /\ connected' = FALSE
    /\ UNCHANGED <<epoch, slot, call, got, rawOpen, rawQueue, nreq, pushes,
                   abandoned>>

Reconnect ==
    /\ ~connected
    /\ connected' = TRUE
    /\ epoch' = epoch + 1
    /\ UNCHANGED <<slot, call, got, rawOpen, rawQueue, node, nreq, drops,
                   abandoned>>

-----------------------------------------------------------------------------
CallerStep(c) ==
    \/ \E cmd \in Commands : Submit(c, cmd)
    \/ Acquire(c) \/ Send(c) \/ SendFails(c)
    \/ RawReceive(c) \/ Taken(c) \/ StreamFails(c)
    \/ Timeout(c) \/ Cancel(c)

Next ==
    \/ \E c \in Callers : CallerStep(c)
    \/ NodeAnswer \/ NodePush \/ Dispatch
    \/ LinkDrop \/ ConnLost \/ Reconnect

\* The event loop runs every ready task and every expired timer; a client that
\* is not among the stalling ones reads what is sent to it or hangs up.
Fairness ==
    /\ \A c \in Callers :
          /\ WF_vars(Acquire(c))
          /\ WF_vars(Send(c) \/ SendFails(c))
          /\ WF_vars(RawReceive(c) \/ Timeout(c))
    /\ \A c \in Callers \ Stalling : WF_vars(Taken(c) \/ StreamFails(c))

Spec     == Init /\ [][Next]_vars
FairSpec == Spec /\ Fairness

-----------------------------------------------------------------------------
\* The state is well typed; in particular no push frame is ever queued for a
\* raw command (raw_command's docstring).
TypeOK ==
    /\ connected \in BOOLEAN
    /\ epoch \in Nat
    /\ slot \in Callers \cup {NoOne}
    /\ call \in [Callers -> Call]
    /\ got \in [Callers -> Seq(Frame)]
    /\ rawOpen \in BOOLEAN
    /\ rawQueue \in Seq(RawFrame)
    /\ inbox \in Seq(Request)
    /\ wire \in Seq(Frame)
    /\ nreq \in Nat /\ drops \in Nat /\ pushes \in Nat
    /\ abandoned \in SUBSET Nat

\* One command at a time talks to the node, and frames are diverted to a raw
\* queue exactly while a raw command holds the slot: whatever way the holder
\* leaves (answer, timeout, cancellation, dead client), it takes both along.
SlotDiscipline ==
    /\ \A c \in Callers : Phase(c) \in Holding <=> slot = c
    /\ rawOpen <=> slot \in RawCallers
    /\ ~rawOpen => rawQueue = <<>>

\* Commands are served in the order they were submitted: the holder was
\* submitted before everyone who waits, although waiters may be cancelled and
\* newcomers may find the lock momentarily unlocked.
FirstComeFirstServed ==
    \A c \in Callers, w \in Waiting : slot = c => call[c].req < call[w].req

\* What a command is given that is not its own answer belongs to a request
\* whose caller had given up before its answer was complete: without timeouts,
\* cancellations and dead clients, attribution by order is exact.
StrayOnlyAfterAbandon ==
    \A c \in Callers : \A i \in DOMAIN got[c] :
        got[c][i].req \in {call[c].req} \cup abandoned

\* A command ends with its answer, neither short of it nor behind it: as long as
\* nothing was abandoned, one that returns has taken its whole answer, and one
\* that has taken its whole answer never goes on to wait for more (_is_terminal).
ReturnsWholeAnswer ==
    [][\A c \in Callers :
          /\ Taken(c) /\ abandoned = {} => abandoned' = {}
          /\ Answered(c) => Phase(c) # "recv"]_vars

\* Every command ends, by answer, error, timeout or cancellation, unless a
\* client that does not read what is streamed to it sits on the slot.
StalledOnlyByClient ==
    \A c \in Callers :
        (Phase(c) # "idle") ~>
            (Phase(c) = "idle" \/ (\E p \in Stalling : Phase(p) = "took"))

Lock == INSTANCE TicketLock WITH
    Users <- Callers, NoUser <- NoOne, holder <- slot,
    ticket <- [c \in Callers |-> IF Phase(c) = "wait" THEN call[c].req ELSE 0]

\* The slot is a lock that serves its callers in the order they asked, whichever
\* way the holder leaves, waiters are cancelled or newcomers meet a free lock
\* (command, raw_command and asyncio.Lock implement TicketLock).
ImplementsTicketLock == Lock!LockSpec

\* "Holds the command slot for the duration so responses are unambiguously
\* attributable" (raw_command's docstring): a raw command, and so the client
\* it streams to, receives only frames that answer that command.
Attributable ==
    \A c \in RawCallers : \A i \in DOMAIN got[c] :
        got[c][i].req = call[c].req
=============================================================================
