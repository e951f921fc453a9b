----------------------------- MODULE SentMessages -----------------------------
(***************************************************************************)
(* Outgoing messages and their acknowledgements: SendMessage                *)
(* (grpc_api/service.py), which sends and then stores a row with the code  *)
(* that the node expects in the ACK; the proxy, which stores a row before  *)
(* it sends and learns no code; and the recorder, which marks the rows of  *)
(* an ACK's code.  The command slot is taken from CommandSlot: one command *)
(* at a time, and a reply that comes after its command was given up is     *)
(* taken for the reply to the next one.                                    *)
(*                                                                         *)
(* The code of a message is the send it belongs to; the ghost field "send" *)
(* of a row is read by no action.                                          *)
(***************************************************************************)
EXTENDS Naturals, Sequences, FiniteSets

CONSTANTS DaemonSends,  \* SendMessage RPCs
          ProxySends,   \* SEND_TXT_MSG commands of proxy clients
          NoCode,       \* expected_ack is NULL
          MaxStops      \* bound: crashes and restarts

Sends == DaemonSends \union ProxySends

ASSUME SentAssumption ==
  DaemonSends \intersect ProxySends = {} /\ NoCode \notin Sends /\ MaxStops \in Nat

VARIABLES
  send,      \* the calls: how far they are, and the code of the reply
  executed,  \* messages the node has sent
  replies,   \* MSG_SENT frames under way, each with its code
  peerAcks,  \* messages whose recipient has acknowledged them
  acksComing,\* ACK events that are not handled yet
  sentRows,  \* outgoing rows of the table messages
  stops,
  givenUp,   \* history: sends that ended before their reply came
  early      \* history: messages whose ACK was lost, or handled before their row

sentVars == <<send, executed, replies, peerAcks, acksComing, sentRows, stops, givenUp, early>>

NotSent == [at |-> "new", code |-> NoCode]

SentInit ==
  /\ send = [c \in Sends |-> NotSent]
  /\ executed = {} /\ replies = <<>> /\ peerAcks = {} /\ acksComing = {}
  /\ sentRows = {} /\ stops = 0 /\ givenUp = {} /\ early = {}

At(c, where) == send[c].at = where
MovesTo(c, where) == send' = [send EXCEPT ![c].at = where]
SlotIsFree == \A c \in Sends : ~At(c, "sending")

SentRow(c, code) == [send |-> c, code |-> code, acked |-> FALSE]

-----------------------------------------------------------------------------
(* SendMessage and the proxy.                                              *)

\* The command gets the slot and is written to the node, which executes it later.
BeginsSend(c) ==
  /\ At(c, IF c \in DaemonSends THEN "new" ELSE "logged") /\ SlotIsFree
  /\ MovesTo(c, "sending")
  /\ UNCHANGED <<executed, replies, peerAcks, acksComing, sentRows, stops, givenUp, early>>

\* The node sends the message and replies with the code of its acknowledgement.
NodeSends(c) ==
  /\ send[c].at \in {"sending", "failed"} /\ c \notin executed
  /\ executed' = executed \union {c}
  /\ replies' = Append(replies, c)
  /\ UNCHANGED <<send, peerAcks, acksComing, sentRows, stops, givenUp, early>>

\* The oldest reply ends the command in the slot, whichever it answers; no command in
\* the slot, and it is ignored.
SendReplyArrives ==
  /\ replies # <<>>
  /\ replies' = Tail(replies)
  /\ send' = [c \in Sends |->
       IF ~At(c, "sending") THEN send[c]
       ELSE IF c \in DaemonSends THEN [at |-> "sent", code |-> Head(replies)]
       ELSE [at |-> "done", code |-> NoCode]]
  /\ UNCHANGED <<executed, peerAcks, acksComing, sentRows, stops, givenUp, early>>

\* An error reply, the timeout, a lost connection, a cancelled RPC: no row is stored.
SendGivesUp(c) ==
  /\ At(c, "sending")
  /\ MovesTo(c, "failed")
  /\ givenUp' = givenUp \union {c}
  /\ UNCHANGED <<executed, replies, peerAcks, acksComing, sentRows, stops, early>>

\* Mutated form: the code is stored as the bytes print, and matches no ACK.
CodePrinted(c) == NoCode

\* expected_ack in hex, as the ACK event has it.
CodeStored(c) == send[c].code

StoresSent(c) ==
  /\ At(c, "sent")
  /\ MovesTo(c, "done")
  /\ sentRows' = sentRows \union {SentRow(c, CodeStored(c))}
  /\ UNCHANGED <<executed, replies, peerAcks, acksComing, stops, givenUp, early>>

\* The RPC's client leaves, or the statement fails, before the row is stored.
StoreFails(c) ==
  /\ At(c, "sent")
  /\ MovesTo(c, "failed")
  /\ UNCHANGED <<executed, replies, peerAcks, acksComing, sentRows, stops, givenUp, early>>

\* _log_outgoing_message: at best, and before it is known whether the node will send it.
ProxyLogs(c) ==
  /\ c \in ProxySends /\ At(c, "new")
  /\ MovesTo(c, "logged")
  /\ \/ sentRows' = sentRows \union {SentRow(c, NoCode)}
     \/ UNCHANGED sentRows
  /\ UNCHANGED <<executed, replies, peerAcks, acksComing, stops, givenUp, early>>

-----------------------------------------------------------------------------
(* Acknowledgements, retention, crashes.                                   *)

\* The recipient's acknowledgement reaches the node, which pushes its code.
PeerAcknowledges(c) ==
  /\ c \in executed
  /\ peerAcks' = peerAcks \union {c}
  /\ acksComing' = acksComing \union {c}
  /\ UNCHANGED <<send, executed, replies, sentRows, stops, givenUp, early>>

\* Mutated form: messages that no row is known for are marked as well.
MarkedLoosely(code) ==
  {IF r.code \in {code, NoCode} THEN [r EXCEPT !.acked = TRUE] ELSE r : r \in sentRows}

\* mark_acked: every row with this code.
Marked(code) == {IF r.code = code THEN [r EXCEPT !.acked = TRUE] ELSE r : r \in sentRows}

AckArrives(code) ==
  /\ code \in acksComing
  /\ acksComing' = acksComing \ {code}
  /\ sentRows' = Marked(code)
  /\ early' = IF \E r \in sentRows : r.send = code THEN early ELSE early \union {code}
  /\ UNCHANGED <<send, executed, replies, peerAcks, stops, givenUp>>

\* The retention deletes rows that are old.
PrunesSent ==
  /\ \E r \in sentRows : sentRows' = sentRows \ {r}
  /\ UNCHANGED <<send, executed, replies, peerAcks, acksComing, stops, givenUp, early>>

InFlight == {c \in Sends : ~At(c, "new") /\ ~At(c, "done") /\ ~At(c, "failed")}

\* Calls, frames and events of the process are gone; the node starts afresh with the
\* next connection.
SenderCrash ==
  /\ stops < MaxStops /\ stops' = stops + 1
  /\ send' = [c \in Sends |-> IF c \in InFlight THEN [send[c] EXCEPT !.at = "failed"] ELSE send[c]]
  /\ givenUp' = givenUp \union InFlight
  /\ replies' = <<>> /\ early' = early \union acksComing /\ acksComing' = {}
  /\ UNCHANGED <<executed, peerAcks, sentRows>>

SentNext ==
  \/ \E c \in Sends :
       \/ BeginsSend(c) \/ NodeSends(c) \/ SendGivesUp(c) \/ StoresSent(c)
       \/ StoreFails(c) \/ ProxyLogs(c) \/ PeerAcknowledges(c) \/ AckArrives(c)
  \/ SendReplyArrives \/ PrunesSent \/ SenderCrash

SentSpec == SentInit /\ [][SentNext]_sentVars

-----------------------------------------------------------------------------
(* Properties.                                                             *)

\* A row is marked as acknowledged only if the recipient of its own message has
\* acknowledged it.  Once a send was given up, its late reply may have become that of
\* the next send, and so on: then the mark is another message's (SendMessage,
\* mark_acked; CommandSlot has the cause).
AcksAreTrue ==
  \A r \in sentRows : r.acked =>
    r.code \in peerAcks /\ (r.code = r.send \/ givenUp # {})

\* The row of an acknowledged message is marked, or will be when the ACK that is under
\* way is handled, unless the ACK was handled before the row was stored, which is after
\* the reply to the command, or the row has another message's code.
AcksArrive ==
  \A r \in sentRows :
    r.send \in peerAcks \intersect DaemonSends /\ ~r.acked =>
      \/ r.send \in acksComing
      \/ r.send \in early
      \/ r.code # r.send /\ givenUp # {}
=============================================================================
