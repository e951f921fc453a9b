----------------------------- MODULE PushFanout -----------------------------
(***************************************************************************)
(* The broadcast of push frames to the proxy's clients (proxy.py), inside  *)
(* the frame tap between the transport and the meshcore library            *)
(* (device.py).                                                            *)
(*                                                                         *)
(* For every frame the node emits the transport calls handle_rx of the     *)
(* tap, which first serves the daemon's listeners and then the library.    *)
(* The proxy's listener writes a push to one client after the other, each  *)
(* under that client's write lock, and waits for its socket to drain; a    *)
(* response it ignores.  A task runs until it has to wait (`running`), so  *)
(* that a broadcast is left only at a client that does not read, or at the *)
(* lock of one.  Whether the transport waits for handle_rx or lets several *)
(* calls overlap is its own affair: Overlap is the number that may be      *)
(* under way.                                                              *)
(*                                                                         *)
(* What a command's handler writes to its own client takes the same lock;  *)
(* it can only wait for that client, and CommandSlot covers it.            *)
(***************************************************************************)
EXTENDS Naturals, FiniteSets, Sequences, SequencesExt

CONSTANTS
    Clients,     \* proxy clients; each connects once
    Stalling,    \* those that may stop reading
    HighWater,   \* unread frames above which writing to a client pauses
    Overlap,     \* calls of handle_rx that may be under way together
    MaxFrames,   \* bound: frames the node emits
    MaxDeaths    \* bound: connections that break

ASSUME FanoutAssumption ==
    /\ Stalling \subseteq Clients
    /\ HighWater \in Nat
    /\ Overlap \in Nat \ {0}
    /\ MaxFrames \in Nat /\ MaxDeaths \in Nat

VARIABLES
    clients,   \* MeshCoreProxy._clients, in the order the set iterates
    met,       \* clients that have connected so far
    dead,      \* clients whose connection is gone
    unread,    \* per client: frames in its socket that it has not read
    lock,      \* per client: who holds _write_lock, then who waits for it
    got,       \* history: per client, the frames written to it
    calls,     \* per frame emitted: its kind and how far handle_rx is
    running,   \* the frame whose handle_rx has the event loop, or 0
    lib,       \* history: the frames the library has been given, in order
    disturbed  \* history: frames in whose broadcast a client came or went

fanVars == <<clients, met, dead, unread, lock, got, calls, running, lib,
             disturbed>>

peers == <<clients, met, dead, disturbed>>

-----------------------------------------------------------------------------
Frames == 1..MaxFrames
Kinds  == {"push", "resp"}

\* Where handle_rx is (the field "at" of a call): not begun ("new"); in the
\* loop over `todo`, before the next client ("loop"); in send_frame, waiting
\* for the lock ("lock"), holding it ("write"), waiting for the socket to drain
\* ("drain"); behind the library's handle_rx ("done").
At(f)    == calls[f].at
Next1(f) == Head(calls[f].todo)
UnderWay == {f \in DOMAIN calls : At(f) \notin {"new", "done"}}

Idle == running = 0

\* Mutated form: who has left is still in the client set.
EveryoneMet(kind) == IF kind = "push" THEN SetToSeq(met) ELSE <<>>

\* Only pushes are broadcast, to a copy of the client set.
Recipients(kind) == IF kind = "push" THEN clients ELSE <<>>

\* Mutated form: an exception ends the broadcast.
NoMore(todo) == <<>>

\* The exception of one client is caught inside the loop.
AfterFailure(todo) == Tail(todo)

\* Mutated form: send_frame writes without the lock.
Unlocked(c) == TRUE

LockIsFree(c) == lock[c] = <<>>

\* Mutated form: a connection that is gone does not end the wait.
PausedThoughDead(c) == unread[c] > HighWater

\* drain() waits as long as the peer is there and has not read enough.
Paused(c) == unread[c] > HighWater /\ c \notin dead

Moves(f, at) == calls' = [calls EXCEPT ![f].at = at]

\* send_frame to the first client of todo is over: the lock goes to the next in line.
LeavesClient(f, todo) ==
    /\ lock' = [lock EXCEPT ![Next1(f)] = Tail(lock[Next1(f)])]
    /\ calls' = [calls EXCEPT ![f].at = "loop", ![f].todo = todo]

FanoutInit ==
    /\ clients = <<>>
    /\ met = {}
    /\ dead = {}
    /\ unread = [c \in Clients |-> 0]
    /\ lock = [c \in Clients |-> <<>>]
    /\ got = [c \in Clients |-> <<>>]
    /\ calls = <<>>
    /\ running = 0
    /\ lib = <<>>
    /\ disturbed = {}

-----------------------------------------------------------------------------
(* Clients and their sockets.  A client that leaves may still be written to *)
(* by a broadcast that has begun.                                           *)

\* A client joins; where it iterates, and whether the others change places,
\* is up to the set.
Connects(c) ==
    /\ Idle
    /\ c \notin met
    /\ met' = met \cup {c}
    /\ clients' \in SetToSeqs(ToSet(clients) \cup {c})
    /\ disturbed' = disturbed \cup UnderWay
    /\ UNCHANGED <<dead, unread, lock, got, calls, running, lib>>

\* The handler has read the end of the stream, or has failed.
Leaves(c) ==
    /\ Idle
    /\ \E i \in DOMAIN clients : clients[i] = c /\ clients' = RemoveAt(clients, i)
    /\ disturbed' = disturbed \cup UnderWay
    /\ UNCHANGED <<met, dead, unread, lock, got, calls, running, lib>>

\* The connection breaks.
Dies(c) ==
    /\ Idle
    /\ c \in met \ dead
    /\ Cardinality(dead) < MaxDeaths
    /\ dead' = dead \cup {c}
    /\ UNCHANGED <<clients, met, unread, lock, got, calls, running, lib, disturbed>>

Reads(c) ==
    /\ Idle
    /\ c \notin dead
    /\ unread[c] > 0
    /\ unread' = [unread EXCEPT ![c] = unread[c] - 1]
    /\ UNCHANGED <<peers, lock, got, calls, running, lib>>

-----------------------------------------------------------------------------
(* Frames.                                                                  *)

NodeEmits(kind) ==
    /\ Idle
    /\ Len(calls) < MaxFrames
    /\ calls' = Append(calls, [kind |-> kind, at |-> "new", todo |-> <<>>,
                               audience |-> {}])
    /\ UNCHANGED <<peers, unread, lock, got, running, lib>>

\* The transport calls handle_rx, in the order of the frames.
Begins(f) ==
    /\ Idle
    /\ At(f) = "new"
    /\ \A g \in 1..(f - 1) : At(g) # "new"
    /\ Cardinality(UnderWay) < Overlap
    /\ running' = f
    /\ LET to == Recipients(calls[f].kind)
       IN  calls' = [calls EXCEPT ![f].at = "loop", ![f].todo = to,
                                  ![f].audience = ToSet(to)]
    /\ UNCHANGED <<peers, unread, lock, got, lib>>

\* send_frame to the next client asks for its lock.
AsksForLock(f) ==
    /\ running = f
    /\ At(f) = "loop"
    /\ calls[f].todo # <<>>
    /\ lock' = [lock EXCEPT ![Next1(f)] = Append(lock[Next1(f)], f)]
    /\ \/ LockIsFree(Next1(f)) /\ Moves(f, "write") /\ UNCHANGED running
       \/ ~LockIsFree(Next1(f)) /\ Moves(f, "lock") /\ running' = 0
    /\ UNCHANGED <<peers, unread, got, lib>>

GetsLock(f) ==
    /\ Idle
    /\ At(f) = "lock"
    /\ Head(lock[Next1(f)]) = f
    /\ Moves(f, "write")
    /\ running' = f
    /\ UNCHANGED <<peers, unread, lock, got, lib>>

\* write() and drain(): the latter waits, returns at once or raises.
Writes(f) ==
    /\ running = f
    /\ At(f) = "write"
    /\ LET c == Next1(f)
       IN  \/ /\ c \in dead
              /\ LeavesClient(f, AfterFailure(calls[f].todo))
              /\ UNCHANGED <<unread, got, running>>
           \/ /\ c \notin dead
              /\ unread' = [unread EXCEPT ![c] = unread[c] + 1]
              /\ got' = [got EXCEPT ![c] = Append(got[c], f)]
              /\ IF unread[c] + 1 > HighWater
                 THEN Moves(f, "drain") /\ running' = 0 /\ UNCHANGED lock
                 ELSE LeavesClient(f, Tail(calls[f].todo)) /\ UNCHANGED running
    /\ UNCHANGED <<peers, lib>>

\* drain() returns, or raises because the client is gone.
Drains(f) ==
    /\ Idle
    /\ At(f) = "drain"
    /\ ~Paused(Next1(f))
    /\ LeavesClient(f, IF Next1(f) \in dead THEN AfterFailure(calls[f].todo)
                       ELSE Tail(calls[f].todo))
    /\ running' = f
    /\ UNCHANGED <<peers, unread, got, lib>>

\* The listeners are done: the library's own handle_rx.
ToLibrary(f) ==
    /\ running = f
    /\ At(f) = "loop"
    /\ calls[f].todo = <<>>
    /\ Moves(f, "done")
    /\ running' = 0
    /\ lib' = Append(lib, f)
    /\ UNCHANGED <<peers, unread, lock, got>>

-----------------------------------------------------------------------------
Handles(f) ==
    \/ Begins(f) \/ AsksForLock(f) \/ GetsLock(f) \/ Writes(f) \/ Drains(f)
    \/ ToLibrary(f)

FanoutNext ==
    \/ \E c \in Clients : Connects(c) \/ Leaves(c) \/ Dies(c) \/ Reads(c)
    \/ \E kind \in Kinds : NodeEmits(kind)
    \/ \E f \in DOMAIN calls : Handles(f)

FanoutSpec == FanoutInit /\ [][FanoutNext]_fanVars

\* The event loop runs what is ready, and clients read unless they stall.
FanoutFairSpec ==
    /\ FanoutSpec
    /\ \A f \in Frames : WF_fanVars(f \in DOMAIN calls /\ Handles(f))
    /\ \A c \in Clients \ Stalling : WF_fanVars(Reads(c))

-----------------------------------------------------------------------------
\* When a broadcast is over, everybody who was connected when it began and
\* still is has been sent the push, exactly once, whoever else stalled, died
\* or left in between; nobody is sent what was broadcast without him.
BroadcastComplete ==
    \A f \in DOMAIN calls, c \in Clients :
        LET times == {i \in DOMAIN got[c] : got[c][i] = f}
        IN  /\ At(f) = "done" /\ c \in calls[f].audience \ dead
               => Cardinality(times) = 1
            /\ Cardinality(times) <= 1
            /\ times # {} => c \in calls[f].audience

\* Pushes reach a client in the order of the node, although several broadcasts
\* may be held up at different clients: one overtakes another only if a client
\* came or went during the one that is overtaken.
InOrder ==
    \A c \in Clients : \A i, j \in DOMAIN got[c] :
        i < j /\ got[c][i] > got[c][j] => got[c][j] \in disturbed

\* What each client is still to be sent by the broadcasts under way.
Owed == [c \in Clients |->
            {f \in DOMAIN calls : c \in ToSet(calls[f].todo) /\ f \notin ToSet(got[c])}]

Mail == INSTANCE PushMail WITH
    members <- ToSet(clients), broken <- dead,
    pushes <- {f \in DOMAIN calls : calls[f].kind = "push"},
    box <- got, owed <- Owed, open <- UnderWay, late <- disturbed

\* The loop over a copy of the client set, with its locks, waits and failures, is a
\* mailbox per client: who comes during a broadcast is not owed it, who goes still is,
\* nobody is given a push twice or out of turn, a failure costs nobody else his, and
\* the library is given a frame when nobody is owed it any more (_ReaderTap.handle_rx,
\* _on_device_frame and send_frame implement PushMail).
ImplementsPushMail == Mail!MailSpec

\* Unless some client stops reading for good, every frame gets through to the
\* library, and so to the recorder, the pump and the commands that wait for it.
LibraryFed ==
    (\A c \in Stalling : []<>~Paused(c))
    => \A f \in Frames : (f \in DOMAIN calls) ~> (f \in ToSet(lib))

\* "Forwards every complete frame to the daemon *and* to the library, so library
\* state stays consistent" (docstring of _ReaderTap).
LibraryGetsEveryFrame ==
    \A f \in Frames : (f \in DOMAIN calls) ~> (f \in ToSet(lib))
=============================================================================
