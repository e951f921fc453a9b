------------------------------ MODULE Backfill ------------------------------
(***************************************************************************)
(* How a stored channel message gets its channel: MessageStore.add labels  *)
(* it with the channel in its slot, ChannelBackfill (channel_backfill.py)  *)
(* labels afterwards what add could not, by decrypting the packets that    *)
(* are still stored, or else by the slot.                                  *)
(*                                                                         *)
(* A message and its packet are recorded by two events, in any order; the  *)
(* packet may not be heard at all, or be a message for somebody else.  A   *)
(* backfill takes its snapshots of the messages, of the channels and, page *)
(* by page, of the packets one after the other, while the channel tracker  *)
(* moves channels between slots, more messages and packets arrive, old     *)
(* ones are pruned, callers give up and the daemon is restarted.           *)
(*                                                                         *)
(* The times that bound the scan are left out: all packets are within it.  *)
(***************************************************************************)
EXTENDS Naturals, FiniteSets, Sequences, FiniteSetsExt

CONSTANTS
    Channels,    \* secrets
    Slots,       \* slots of the node
    Nothing,     \* no channel, or no slot
    Texts,       \* what _same_send compares: texts and times
    Batch,       \* rows per page of iter_payloads
    MaxMessages, \* bound: group messages for one of the node's slots
    MaxForeign,  \* bound: group messages for others, within reach of the node
    MaxPackets,  \* bound: packets recorded
    MaxRuns,     \* bound: backfills started
    MaxMoves,    \* bound: changes of the node's slots
    MaxFaults    \* bound: cancelled RPCs, restarts

ASSUME BackfillAssumption ==
    /\ Nothing \notin Channels \cup Slots
    /\ Batch \in Nat \ {0}
    /\ MaxMessages \in Nat /\ MaxForeign \in Nat
    /\ MaxPackets \in Nat /\ MaxRuns \in Nat
    /\ MaxMoves \in Nat /\ MaxFaults \in Nat

VARIABLES
    node,     \* per slot of the node: its channel
    slots,    \* per slot: the row of the channels table that has it
    rows,     \* channels that have a row
    job,      \* what the tracker has read and is writing: a slot with its channel, or None
    sends,    \* what was sent: its channel, text, and the node's slot for it
    msg,      \* per send: its message row: "none", "looked" (add has looked its
              \* slot up), "stored" or "pruned"
    looked,   \* per send: what add found in the slot
    label,    \* messages.channel_id
    source,   \* messages.channel_source
    packets,  \* the packets table in the order of ids: a send each
    pruned,   \* packets up to this id are deleted
    at,       \* per runner of a backfill: "idle", "wait", "channels", "scan", "write"
    targets,  \* its candidates
    bySlot,   \* its snapshot of the slots
    known,    \* its snapshot of the channels
    last,     \* the last id it has scanned
    index,    \* the packets it could decrypt, as sends
    seen,     \* history: the number of packets when its scan began
    runs, moves, faults  \* counters, bounded

nodeVars == <<node, moves>>
tabVars  == <<slots, rows, job>>
msgVars  == <<msg, looked, label, source>>
pktVars  == <<packets, pruned>>
runVars  == <<at, targets, bySlot, known, last, index, seen, runs>>
bfVars   == <<nodeVars, tabVars, sends, msgVars, pktVars, runVars, faults>>

-----------------------------------------------------------------------------
None == [slot |-> Nothing, chan |-> Nothing]

\* The connect-time sync and the RPC, which includes inferred messages.
Runners == {"sync", "rpc"}

Sends == DOMAIN sends
Stored(n) == n \in Sends /\ msg[n] = "stored"

\* ChannelBackfill._lock
LockFor(r) == \A q \in Runners \ {r} : at[q] \in {"idle", "wait"}

\* Mutated form: the RPC takes up every message, proven ones too.
Everything(r) ==
    {n \in Sends : Stored(n) /\ (source[n] = "null" \/ r = "rpc")}

\* channel_backfill_candidates
Candidates(r) ==
    {n \in Sends : /\ Stored(n)
                   /\ \/ source[n] = "null"
                      \/ r = "rpc" /\ source[n] = "inferred"}

\* A page of iter_payloads: the next Batch ids that are still there.
Ids(r)  == {i \in DOMAIN packets : i > last[r] /\ i > pruned}
Page(r) == {i \in Ids(r) : Cardinality({j \in Ids(r) : j <= i}) <= Batch}

\* Mutated form: a full page is taken for the last one.
FullIsLast(page) == Cardinality(page) <= Batch

LastPage(page) == Cardinality(page) < Batch

\* The channels whose decrypted packets may be message n.
Matched(r, n) ==
    {sends[p].chan : p \in {q \in index[r] : sends[q].text = sends[n].text}}

\* Mutated form: whatever matches proves the slot's channel.
SlotIfAny(r, n) ==
    LET here == bySlot[r][sends[n].slot]
        m    == Matched(r, n)
    IN  IF m # {} THEN <<IF here # Nothing THEN here ELSE CHOOSE c \in m : TRUE, "decrypted">>
        ELSE IF here # Nothing THEN <<here, "inferred">>
        ELSE <<label[n], source[n]>>

\* What _run decides for a candidate: its channel and source, or what it has.
Verdict(r, n) ==
    LET here == bySlot[r][sends[n].slot]
        m    == Matched(r, n)
    IN  IF here \in m THEN <<here, "decrypted">>
        ELSE IF Cardinality(m) = 1 THEN <<CHOOSE c \in m : TRUE, "decrypted">>
        ELSE IF here # Nothing /\ m = {} THEN <<here, "inferred">>
        ELSE <<label[n], source[n]>>

\* set_channels for these messages; a row that is gone is not updated.
Update(r, these) ==
    LET hit(n) == n \in these /\ Stored(n)
    IN  /\ label' = [n \in Sends |-> IF hit(n) THEN Verdict(r, n)[1] ELSE label[n]]
        /\ source' = [n \in Sends |-> IF hit(n) THEN Verdict(r, n)[2] ELSE source[n]]

BackfillInit ==
    /\ node \in [Slots -> Channels \cup {Nothing}]
    /\ slots = [s \in Slots |-> Nothing]
    /\ rows = {} /\ job = None
    /\ sends = <<>> /\ msg = <<>> /\ looked = <<>>
    /\ label = <<>> /\ source = <<>>
    /\ packets = <<>> /\ pruned = 0
    /\ at = [r \in Runners |-> "idle"]
    /\ targets = [r \in Runners |-> {}]
    /\ bySlot = [r \in Runners |-> [s \in Slots |-> Nothing]]
    /\ known = [r \in Runners |-> {}]
    /\ last = [r \in Runners |-> 0]
    /\ index = [r \in Runners |-> {}]
    /\ seen = [r \in Runners |-> 0]
    /\ runs = 0 /\ moves = 0 /\ faults = 0

-----------------------------------------------------------------------------
(* The node's slots, and the tracker that follows them (see ChannelSync).   *)

NodeMoves(s, x) ==
    /\ moves < MaxMoves
    /\ moves' = moves + 1
    /\ node' = [node EXCEPT ![s] = x]
    /\ UNCHANGED <<tabVars, sends, msgVars, pktVars, runVars, faults>>

\* _read_slot; what is written then may be the slot's no more.  What the table shows
\* already needs no statement.
TrackerReads(s) ==
    /\ job = None
    /\ node[s] # slots[s]
    /\ job' = [slot |-> s, chan |-> node[s]]
    /\ UNCHANGED <<nodeVars, slots, rows, sends, msgVars, pktVars, runVars, faults>>

\* get_channel fails: the error is taken for an empty slot.
TrackerMisreads(s) ==
    /\ job = None
    /\ slots[s] # Nothing
    /\ faults < MaxFaults
    /\ faults' = faults + 1
    /\ job' = [slot |-> s, chan |-> Nothing]
    /\ UNCHANGED <<nodeVars, slots, rows, sends, msgVars, pktVars, runVars>>

\* assign_slot: its upsert ...
TrackerUpserts ==
    /\ job # None /\ job.chan \notin rows \cup {Nothing}
    /\ rows' = rows \cup {job.chan}
    /\ UNCHANGED <<nodeVars, slots, job, sends, msgVars, pktVars, runVars, faults>>

\* ... its second statement, or clear_slot, which is the only one ...
TrackerVacates ==
    /\ job # None /\ job.chan \in rows \cup {Nothing} /\ slots[job.slot] # Nothing
    /\ slots' = [slots EXCEPT ![job.slot] = Nothing]
    /\ job' = IF job.chan = Nothing THEN None ELSE job
    /\ UNCHANGED <<nodeVars, rows, sends, msgVars, pktVars, runVars, faults>>

\* ... and its third; the channel leaves its former slot.
TrackerOccupies ==
    /\ job # None /\ job.chan \in rows /\ slots[job.slot] = Nothing
    /\ slots' = [t \in Slots |-> IF t = job.slot THEN job.chan
                                 ELSE IF slots[t] = job.chan THEN Nothing
                                 ELSE slots[t]]
    /\ job' = None
    /\ UNCHANGED <<nodeVars, rows, sends, msgVars, pktVars, runVars, faults>>

\* A ListChannels that wrote is cancelled; what it has written stays.
TrackerStops ==
    /\ job # None
    /\ faults < MaxFaults
    /\ faults' = faults + 1
    /\ job' = None
    /\ UNCHANGED <<nodeVars, slots, rows, sends, msgVars, pktVars, runVars>>

-----------------------------------------------------------------------------
(* The recorder and the retention service.                                  *)

\* A group message is on the air; the node takes it for a slot that has its
\* channel, or it is nothing to the node.
Send(c, x, s) ==
    /\ s # Nothing => node[s] = c
    /\ Cardinality({n \in Sends : (sends[n].slot = Nothing) = (s = Nothing)})
          < IF s = Nothing THEN MaxForeign ELSE MaxMessages
    /\ sends' = Append(sends, [chan |-> c, text |-> x, slot |-> s])
    /\ msg' = Append(msg, "none")
    /\ looked' = Append(looked, Nothing)
    /\ label' = Append(label, Nothing)
    /\ source' = Append(source, "null")
    /\ UNCHANGED <<nodeVars, tabVars, pktVars, runVars, faults>>

\* _on_rx_log; a packet that is heard again adds nothing.
RecordsPacket(n) ==
    /\ Len(packets) < MaxPackets
    /\ \A i \in DOMAIN packets : packets[i] # n
    /\ packets' = Append(packets, n)
    /\ UNCHANGED <<nodeVars, tabVars, sends, msgVars, pruned, runVars, faults>>

\* _on_channel_msg: MessageStore.add reads the slot ...
AddLooks(n) ==
    /\ sends[n].slot # Nothing
    /\ msg[n] = "none"
    /\ msg' = [msg EXCEPT ![n] = "looked"]
    /\ looked' = [looked EXCEPT ![n] = slots[sends[n].slot]]
    /\ UNCHANGED <<nodeVars, tabVars, sends, label, source, pktVars, runVars, faults>>

\* ... and inserts the row.
AddInserts(n) ==
    /\ msg[n] = "looked"
    /\ msg' = [msg EXCEPT ![n] = "stored"]
    /\ label' = [label EXCEPT ![n] = looked[n]]
    /\ source' = [source EXCEPT ![n] = IF looked[n] = Nothing THEN "null" ELSE "slot"]
    /\ looked' = [looked EXCEPT ![n] = Nothing]
    /\ UNCHANGED <<nodeVars, tabVars, sends, pktVars, runVars, faults>>

\* PacketStore.prune
PrunesPackets ==
    /\ pruned' \in (pruned + 1)..Len(packets)
    /\ UNCHANGED <<nodeVars, tabVars, sends, msgVars, packets, runVars, faults>>

\* MessageStore.prune
PrunesMessage(n) ==
    /\ Stored(n)
    /\ msg' = [msg EXCEPT ![n] = "pruned"]
    /\ label' = [label EXCEPT ![n] = Nothing]
    /\ source' = [source EXCEPT ![n] = "null"]
    /\ UNCHANGED <<nodeVars, tabVars, sends, looked, pktVars, runVars, faults>>

-----------------------------------------------------------------------------
(* A backfill.                                                              *)

\* A refresh is over, or BackfillMessageChannels has stored its extra channels.
Starts(r, extra) ==
    /\ at[r] = "idle"
    /\ runs < MaxRuns
    /\ runs' = runs + 1
    /\ r = "sync" => extra = {}
    /\ rows' = rows \cup extra
    /\ at' = [at EXCEPT ![r] = "wait"]
    /\ UNCHANGED <<nodeVars, slots, job, sends, msgVars, pktVars, targets, bySlot, known,
                   last, index, seen, faults>>

\* The locals of a run that is over are gone.
Forget(r) ==
    /\ at' = [at EXCEPT ![r] = "idle"]
    /\ targets' = [targets EXCEPT ![r] = {}]
    /\ bySlot' = [bySlot EXCEPT ![r] = [s \in Slots |-> Nothing]]
    /\ known' = [known EXCEPT ![r] = {}]
    /\ last' = [last EXCEPT ![r] = 0]
    /\ index' = [index EXCEPT ![r] = {}]
    /\ seen' = [seen EXCEPT ![r] = 0]
    /\ UNCHANGED runs

ReadsTargets(r) ==
    /\ at[r] = "wait"
    /\ LockFor(r)
    /\ IF Candidates(r) = {} THEN Forget(r)
       ELSE /\ targets' = [targets EXCEPT ![r] = Candidates(r)]
            /\ at' = [at EXCEPT ![r] = "channels"]
            /\ UNCHANGED <<bySlot, known, last, index, seen, runs>>
    /\ UNCHANGED <<nodeVars, tabVars, sends, msgVars, pktVars, faults>>

ReadsChannels(r) ==
    /\ at[r] = "channels"
    /\ bySlot' = [bySlot EXCEPT ![r] = slots]
    /\ known' = [known EXCEPT ![r] = rows]
    /\ seen' = [seen EXCEPT ![r] = Len(packets)]
    /\ at' = [at EXCEPT ![r] = "scan"]
    /\ UNCHANGED <<nodeVars, tabVars, sends, msgVars, pktVars, targets, last, index,
                   runs, faults>>

\* The next page, and what decrypts of it.
Scans(r) ==
    /\ at[r] = "scan"
    /\ LET found == {packets[i] : i \in Page(r)}
       IN  index' = [index EXCEPT ![r] = @ \cup {p \in found : sends[p].chan \in known[r]}]
    /\ IF LastPage(Page(r)) THEN at' = [at EXCEPT ![r] = "write"] /\ UNCHANGED last
       ELSE last' = [last EXCEPT ![r] = Max(Page(r))] /\ UNCHANGED at
    /\ UNCHANGED <<nodeVars, tabVars, sends, msgVars, pktVars, targets, bySlot, known,
                   seen, runs, faults>>

Writes(r) ==
    /\ at[r] = "write"
    /\ Update(r, targets[r])
    /\ Forget(r)
    /\ UNCHANGED <<nodeVars, tabVars, sends, msg, looked, pktVars, faults>>

\* The RPC is cancelled; what it has written stays.
Cancelled ==
    /\ at["rpc"] # "idle"
    /\ faults < MaxFaults
    /\ faults' = faults + 1
    /\ Forget("rpc")
    /\ UNCHANGED <<nodeVars, tabVars, sends, msgVars, pktVars>>

\* The daemon is killed and started again, perhaps when some of the updates of
\* set_channels were committed; what add and the tracker have in hand is lost.
Restarts ==
    /\ faults < MaxFaults
    /\ faults' = faults + 1
    /\ \/ UNCHANGED <<label, source>>
       \/ \E r \in Runners : \E these \in SUBSET targets[r] :
              at[r] = "write" /\ Update(r, these)
    /\ msg' = [n \in Sends |-> IF msg[n] = "looked" THEN "pruned" ELSE msg[n]]
    /\ looked' = [n \in Sends |-> Nothing]
    /\ at' = [r \in Runners |-> "idle"]
    /\ targets' = [r \in Runners |-> {}]
    /\ bySlot' = [r \in Runners |-> [s \in Slots |-> Nothing]]
    /\ known' = [r \in Runners |-> {}]
    /\ last' = [r \in Runners |-> 0]
    /\ index' = [r \in Runners |-> {}]
    /\ seen' = [r \in Runners |-> 0]
    /\ job' = None
    /\ UNCHANGED <<nodeVars, slots, rows, sends, pktVars, runs>>

-----------------------------------------------------------------------------
Run(r) == ReadsTargets(r) \/ ReadsChannels(r) \/ Scans(r) \/ Writes(r)

BackfillNext ==
    \/ \E s \in Slots :
          \/ \E x \in Channels \cup {Nothing} : NodeMoves(s, x)
          \/ TrackerReads(s) \/ TrackerMisreads(s)
    \/ TrackerUpserts \/ TrackerVacates \/ TrackerOccupies \/ TrackerStops
    \/ \E c \in Channels, x \in Texts, s \in Slots \cup {Nothing} : Send(c, x, s)
    \/ \E n \in Sends : RecordsPacket(n) \/ AddLooks(n) \/ AddInserts(n) \/ PrunesMessage(n)
    \/ PrunesPackets
    \/ \E r \in Runners : Run(r) \/ \E extra \in {{}} \cup {{c} : c \in Channels} : Starts(r, extra)
    \/ Cancelled \/ Restarts

BackfillSpec == BackfillInit /\ [][BackfillNext]_bfVars

-----------------------------------------------------------------------------
\* Nothing that was sent could be confounded with n: what has the same text, at
\* the same time, was sent over the same channel.
Unmistakable(n) ==
    \A k \in Sends : sends[k].text = sends[n].text => sends[k].chan = sends[n].chan

Rank(s) == CASE s = "null" -> 0 [] s = "inferred" -> 1 [] s = "slot" -> 2 [] OTHER -> 3

\* "proven from raw packet": a message that can be told from all others is never
\* called decrypted with another channel than the one it was sent over, wherever
\* that channel has moved since.
DecryptedIsRight ==
    \A n \in Sends : source[n] = "decrypted" /\ Unmistakable(n) => label[n] = sends[n].chan

\* A label only gets better: a proven one stays as it is, one recorded with its slot
\* gives way to nothing but a proof, and an inferred one is not lost, whatever
\* backfills, restarts and cancellations come later.
LabelsImprove ==
    [][\A n \in Sends : Stored(n) /\ msg'[n] = "stored" =>
          /\ Rank(source'[n]) >= Rank(source[n])
          /\ \/ source[n] = "decrypted"
             \/ source[n] = "slot" /\ source'[n] = "slot"
             => label'[n] = label[n]]_bfVars

\* A backfill that is not interrupted leaves no candidate undecided, or inferred,
\* whose packet was there before its scan and still is, if it knew the channel.
NothingOverlooked ==
    [][\A r \in Runners : Writes(r) =>
          \A n \in targets[r] :
              /\ Stored(n) /\ Unmistakable(n)
              /\ sends[n].chan \in known[r]
              /\ \E i \in (pruned + 1)..seen[r] : packets[i] = n
              => source'[n] = "decrypted"]_bfVars

\* A packet that is still stored shows that n was sent over a channel that has a row.
Provable(n) ==
    /\ Unmistakable(n) /\ sends[n].chan \in rows
    /\ \E i \in DOMAIN packets : i > pruned /\ packets[i] = n

\* "Channel messages are attributed to the channel currently in their slot; the
\* backfill can later upgrade this to a decrypted match" (MessageStore.add): the
\* backfill that takes up the most, the RPC's, takes up a message whose slot had
\* another channel in the table than the one a stored packet proves.
SlotLabelsUpgraded ==
    [][ReadsTargets("rpc") =>
          \A n \in Sends :
              Stored(n) /\ source[n] = "slot" /\ label[n] # sends[n].chan /\ Provable(n)
              => n \in targets'["rpc"]]_bfVars
=============================================================================
