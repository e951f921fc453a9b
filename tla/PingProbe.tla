------------------------------ MODULE PingProbe ------------------------------
(***************************************************************************)
(* PingManager (ping.py): a zero-hop TRACE is sent through the command     *)
(* slot, and the push that answers it is told from everybody else's by two *)
(* random values and the complete route.  Answers come at any time, also   *)
(* before the command's own reply, after the deadline, mangled or twice;   *)
(* the task that waits runs some time after its future was set.            *)
(***************************************************************************)
EXTENDS Naturals, FiniteSets

CONSTANTS Pings,     \* the calls of ping
          Tokens,    \* pairs of tag and auth
          NoToken,
          PingTime,  \* PING_TIMEOUT
          MaxTime,   \* bound: the loop's clock
          MaxTraces  \* bound: traces under way to the daemon

\* 64 random bits do not repeat: there is a token of its own for every call, and one
\* more for the traces of proxy clients.
ASSUME PingAssumption ==
  /\ IsFiniteSet(Pings) /\ IsFiniteSet(Tokens)
  /\ Cardinality(Tokens) > Cardinality(Pings)
  /\ NoToken \notin Tokens
  /\ PingTime \in Nat \ {0} /\ MaxTime \in Nat

VARIABLES
  loopTime, \* loop.time()
  ping,     \* the calls: how far they are, their token and their deadline
  pending,  \* the tokens in PingManager.pending
  answer,   \* the futures: the trace they were set to, NoTrace before
  onAir,    \* tokens of the trace commands the node has executed
  traces    \* PUSH_TRACE frames under way to the frame listener

pingVars == <<loopTime, ping, pending, answer, onAir, traces>>

\* route: whether lengths, flags and route are those of the command with the token.
Trace == [token : Tokens, route : BOOLEAN]
NoTrace == [token |-> NoToken, route |-> FALSE]
Unset == [trace |-> NoTrace, at |-> 0]

NotCalled == [at |-> "new", token |-> NoToken, deadline |-> 0]
Active(c) == ping[c].at \in {"lookup", "sending", "waiting"}
Foreign == onAir \ {ping[c].token : c \in Pings}
UsedTokens == {ping[c].token : c \in Pings} \union onAir

PingInit ==
  /\ loopTime = 0
  /\ ping = [c \in Pings |-> NotCalled]
  /\ pending = {} /\ answer = [c \in Pings |-> Unset]
  /\ onAir = {} /\ traces = {}

Goes(c, where) == ping' = [ping EXCEPT ![c].at = where]

\* The finally of ping: the entry goes, whatever ended the call.
Unregister(c) == pending' = pending \ {ping[c].token}

\* Mutated form: only a returning call removes its entry.
KeepEntry(c, where) ==
  Goes(c, where) /\ IF where = "returned" THEN Unregister(c) ELSE UNCHANGED pending

Ends(c, where) == Goes(c, where) /\ Unregister(c)

-----------------------------------------------------------------------------
(* ping.                                                                   *)

\* The call starts and looks the contact up: a query that is awaited.
CallPing(c) ==
  /\ ping[c].at = "new"
  /\ ping' = [ping EXCEPT ![c] = [at |-> "lookup", token |-> NoToken,
                                   deadline |-> loopTime + PingTime]]
  /\ UNCHANGED <<loopTime, pending, answer, onAir, traces>>

\* Not a full key, no such contact, not a repeater, or a bad width: ValueError.
InvalidPing(c) ==
  /\ ping[c].at = "lookup" /\ Goes(c, "failed")
  /\ UNCHANGED <<loopTime, pending, answer, onAir, traces>>

RegisterPing(c) ==
  /\ ping[c].at = "lookup"
  /\ \E t \in Tokens \ UsedTokens :
       /\ ping' = [ping EXCEPT ![c].at = "sending", ![c].token = t]
       /\ pending' = pending \union {t}
  /\ UNCHANGED <<loopTime, answer, onAir, traces>>

\* The node executes send_trace, perhaps after the call has given up.
TraceSent(c) ==
  /\ ping[c].token \notin onAir \union {NoToken}
  /\ onAir' = onAir \union {ping[c].token}
  /\ UNCHANGED <<loopTime, ping, pending, answer, traces>>

\* The command returns MSG_SENT, be it the answer to an earlier command (CommandSlot).
SendReplied(c) ==
  /\ ping[c].at = "sending"
  /\ Goes(c, "waiting")
  /\ UNCHANGED <<loopTime, pending, answer, onAir, traces>>

\* The command raises or is answered by something other than MSG_SENT.
SendRejected(c) ==
  /\ ping[c].at = "sending" /\ Ends(c, "failed")
  /\ UNCHANGED <<loopTime, answer, onAir, traces>>

\* The task runs again after its future was set, and looks at the time again.
PingResumes(c) ==
  /\ ping[c].at = "waiting" /\ answer[c] # Unset
  /\ Ends(c, IF loopTime < ping[c].deadline THEN "returned" ELSE "failed")
  /\ UNCHANGED <<loopTime, answer, onAir, traces>>

\* timeout_at: the timer of the deadline cancels the call wherever it is.
PingExpires(c) ==
  /\ Active(c) /\ loopTime >= ping[c].deadline
  /\ Ends(c, "failed")
  /\ UNCHANGED <<loopTime, answer, onAir, traces>>

\* The RPC's client has gone.
PingCancelled(c) ==
  /\ Active(c) /\ Ends(c, "failed")
  /\ UNCHANGED <<loopTime, answer, onAir, traces>>

-----------------------------------------------------------------------------
(* The mesh and the frame listener.                                        *)

\* A proxy client sends a trace of its own.
ForeignTrace(t) ==
  /\ t \notin UsedTokens /\ Foreign = {}
  /\ onAir' = onAir \union {t}
  /\ UNCHANGED <<loopTime, ping, pending, answer, traces>>

\* A trace comes back, any number of times; a mangled one has another route.
TraceHeard(t, route) ==
  /\ t \in onAir /\ Cardinality(traces) < MaxTraces
  /\ traces' = traces \union {[token |-> t, route |-> route]}
  /\ UNCHANGED <<loopTime, ping, pending, answer, onAir>>

\* Mutated form: the tag and auth are thought to be enough.
ByTokenOnly(c, f) ==
  /\ ping[c].token = f.token /\ f.token \in pending
  /\ answer[c] = Unset /\ loopTime < ping[c].deadline

Accepts(c, f) ==
  /\ ping[c].token = f.token /\ f.token \in pending
  /\ f.route
  /\ answer[c] = Unset /\ loopTime < ping[c].deadline

\* _on_frame
TraceArrives(f) ==
  /\ f \in traces
  /\ traces' = traces \ {f}
  /\ answer' = [c \in Pings |-> IF Accepts(c, f) THEN [trace |-> f, at |-> loopTime]
                                ELSE answer[c]]
  /\ UNCHANGED <<loopTime, ping, pending, onAir>>

TickPing ==
  /\ loopTime < MaxTime
  /\ loopTime' = loopTime + 1
  /\ UNCHANGED <<ping, pending, answer, onAir, traces>>

PingNext ==
  \/ \E c \in Pings :
       \/ CallPing(c) \/ InvalidPing(c) \/ RegisterPing(c) \/ TraceSent(c)
       \/ SendReplied(c) \/ SendRejected(c) \/ PingResumes(c)
       \/ PingExpires(c) \/ PingCancelled(c)
  \/ \E t \in Tokens : ForeignTrace(t) \/ \E route \in BOOLEAN : TraceHeard(t, route)
  \/ \E f \in traces : TraceArrives(f)
  \/ TickPing

PingSpec == PingInit /\ [][PingNext]_pingVars

-----------------------------------------------------------------------------
(* Properties.                                                             *)

\* A ping that returns has been answered by its own trace over the complete route,
\* which came before its deadline, although the traces of other pings and of proxy
\* clients are around, some mangled, late or repeated (ping, _on_frame).
PingHonest ==
  \A c \in Pings : ping[c].at = "returned" =>
    /\ answer[c].trace = [token |-> ping[c].token, route |-> TRUE]
    /\ answer[c].at < ping[c].deadline

\* The table of pending pings holds those under way and nothing else, whatever ends a
\* call and at whichever await: no entry outlives its call, none goes with another's.
PendingIsCurrent ==
  pending = {ping[c].token : c \in {d \in Pings : ping[d].at \in {"sending", "waiting"}}}
=============================================================================
