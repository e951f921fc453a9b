---------------------------- MODULE ChannelSync ----------------------------
(***************************************************************************)
(* ChannelTracker (channels.py) and ChannelStore (repositories.py): the    *)
(* database's picture of which group channel occupies which slot of the    *)
(* node.                                                                   *)
(*                                                                         *)
(* A new connection, and ListChannels, re-read every slot; a SET_CHANNEL   *)
(* that a raw command completed re-reads that slot.  These jobs take turns *)
(* under the tracker's lock.  Reading a slot is a command of its own, and  *)
(* writing what it said takes up to three statements, each committed by    *)
(* itself; the node may be changed, the connection lost or the daemon      *)
(* killed between any two of them.  A channel is its secret: it has one    *)
(* row in the table, whatever slots it is in.                              *)
(***************************************************************************)
EXTENDS Naturals, FiniteSets, Sequences, SequencesExt

CONSTANTS
    Channels,   \* secrets of channels
    NoChannel,  \* the content of an empty slot
    MaxSlots,   \* the number of slots the node reports
    MaxSets,    \* bound: changes of slots
    MaxFaults,  \* bound: failed commands, lost connections, crashes
    MaxReads    \* bound: ListChannels calls

ASSUME SyncAssumption ==
    /\ NoChannel \notin Channels
    /\ MaxSlots \in Nat \ {0}
    /\ MaxSets \in Nat /\ MaxFaults \in Nat /\ MaxReads \in Nat

VARIABLES
    node,       \* per slot of the node: its channel
    table,      \* channels.slot per channel: a slot, NoSlot, or NoRow
    connected,  \* DeviceManager.is_connected
    setting,    \* the slot a SET_CHANNEL in flight has changed, or NoSlot
    jobs,       \* who holds ChannelTracker._lock, then who waits for it
    at,         \* where the job that holds the lock is
    slot,       \* the slot it is at
    value,      \* what it has read from there
    sets, faults, reads,  \* counters, bounded
    excused,    \* history: a failure the tracker has not made good yet
    doubled     \* history: a channel was in two slots at once

syncVars == <<node, table, connected, setting, jobs, at, slot, value, sets,
              faults, reads, excused, doubled>>

outside == <<node, connected, setting, sets, faults, reads, excused, doubled>>

-----------------------------------------------------------------------------
Slots  == 0..(MaxSlots - 1)
NoSlot == MaxSlots
NoRow  == MaxSlots + 1

Places == {"idle", "query", "read", "upsert", "vacate", "occupy", "clear", "trim"}

\* refresh() reads every slot, for a new connection or for ListChannels;
\* _resync_slot reads one.
Refresh   == [kind |-> "refresh", slot |-> 0]
ListAll   == [kind |-> "list", slot |-> 0]
Resync(s) == [kind |-> "resync", slot |-> s]
Job       == [kind : {"refresh", "list", "resync"}, slot : Slots]

Distinct(n) == \A s, t \in Slots : n[s] = n[t] /\ n[s] # NoChannel => s = t

\* Mutated form: a slot that is queued, or being read, is not queued again.
SpawnOnce(job) ==
    jobs' = IF job \in ToSet(jobs) THEN jobs ELSE Append(jobs, job)

\* A task that asks for the lock.
Spawn(job) == jobs' = Append(jobs, job)

\* The lock is released and the job over.
Ends ==
    /\ jobs' = Tail(jobs)
    /\ at' = "idle"
    /\ slot' = 0
    /\ value' = NoChannel

Goto(place) == at' = place /\ UNCHANGED <<jobs, slot, value>>

\* _read_slot is over: the loop of refresh() goes on, the resync ends.
SlotDone ==
    IF Head(jobs).kind = "resync" THEN Ends
    ELSE /\ at' = IF slot + 1 < MaxSlots THEN "read" ELSE "trim"
         /\ slot' = slot + 1
         /\ value' = NoChannel
         /\ UNCHANGED jobs

SyncInit ==
    /\ node \in {n \in [Slots -> Channels \cup {NoChannel}] : Distinct(n)}
    /\ table = [c \in Channels |-> NoRow]
    /\ connected = FALSE
    /\ setting = NoSlot
    /\ jobs = <<>>
    /\ at = "idle"
    /\ slot = 0
    /\ value = NoChannel
    /\ sets = 0
    /\ faults = 0
    /\ reads = 0
    /\ excused = FALSE
    /\ doubled = FALSE

-----------------------------------------------------------------------------
(* The job that holds the lock.                                             *)

Starts ==
    /\ at = "idle"
    /\ jobs # <<>>
    /\ at' = IF Head(jobs).kind = "resync" THEN "read" ELSE "query"
    /\ slot' = Head(jobs).slot
    /\ UNCHANGED <<jobs, value, table, outside>>

\* send_device_query: how many slots there are.
Queries ==
    /\ at = "query"
    /\ connected /\ setting = NoSlot
    /\ Goto("read")
    /\ UNCHANGED <<table, outside>>

\* get_channel; the command slot is not shared with a SET_CHANNEL in flight.
ReadsSlot ==
    /\ at = "read"
    /\ connected /\ setting = NoSlot
    /\ value' = node[slot]
    /\ at' = IF node[slot] = NoChannel THEN "clear" ELSE "upsert"
    /\ UNCHANGED <<jobs, slot, table, outside>>

\* The node, or the library's timeout, answers with an error, perhaps when the
\* connection is gone: the job fails at the query; at a slot the error is taken
\* for an empty one.
CommandFails ==
    /\ setting = NoSlot
    /\ faults < MaxFaults
    /\ faults' = faults + 1
    /\ excused' = TRUE
    /\ \/ at = "query" /\ Ends
       \/ at = "read" /\ Goto("clear")
    /\ UNCHANGED <<node, table, connected, setting, sets, reads, doubled>>

\* DeviceUnavailable ends the job; a new connection will re-read everything.
Unavailable ==
    /\ at \in {"query", "read"}
    /\ ~connected
    /\ Ends
    /\ UNCHANGED <<table, outside>>

\* ChannelStore.upsert
Upserts ==
    /\ at = "upsert"
    /\ table' = [table EXCEPT ![value] = IF table[value] = NoRow THEN NoSlot
                                         ELSE table[value]]
    /\ Goto("vacate")
    /\ UNCHANGED outside

\* Mutated form: the slot's former channel keeps it.
VacateNobody(t, s, c) == t

\* UPDATE channels SET slot = NULL WHERE slot = s AND id != c
VacateOthers(t, s, c) ==
    [d \in Channels |-> IF t[d] = s /\ d # c THEN NoSlot ELSE t[d]]

Vacates ==
    /\ at = "vacate"
    /\ table' = VacateOthers(table, slot, value)
    /\ Goto("occupy")
    /\ UNCHANGED outside

\* UPDATE channels SET slot = s WHERE id = c
Occupies ==
    /\ at = "occupy"
    /\ table' = [table EXCEPT ![value] = slot]
    /\ SlotDone
    /\ UNCHANGED outside

\* ChannelStore.clear_slot
Clears ==
    /\ at = "clear"
    /\ table' = [d \in Channels |-> IF table[d] = slot THEN NoSlot ELSE table[d]]
    /\ SlotDone
    /\ UNCHANGED outside

\* ChannelStore.clear_slots_from: the node's slots are all below MaxSlots.
Trims ==
    /\ at = "trim"
    /\ Ends
    /\ UNCHANGED <<table, outside>>

-----------------------------------------------------------------------------
(* Everybody else.                                                          *)

\* The node executes a client's SET_CHANNEL.
SetChannel(s, x) ==
    /\ connected /\ setting = NoSlot
    /\ sets < MaxSets
    /\ sets' = sets + 1
    /\ node' = [node EXCEPT ![s] = x]
    /\ setting' = s
    /\ doubled' = (doubled \/ ~Distinct(node'))
    /\ UNCHANGED <<table, connected, jobs, at, slot, value, faults, reads, excused>>

\* While the daemon has no connection somebody else changes a slot.
SetElsewhere(s, x) ==
    /\ ~connected
    /\ sets < MaxSets
    /\ sets' = sets + 1
    /\ node' = [node EXCEPT ![s] = x]
    /\ doubled' = (doubled \/ ~Distinct(node'))
    /\ UNCHANGED <<table, connected, setting, jobs, at, slot, value, faults, reads,
                   excused>>

\* raw_command returns with OK: _on_command spawns the resync.
SetReturns ==
    /\ setting # NoSlot
    /\ Spawn(Resync(setting))
    /\ setting' = NoSlot
    /\ UNCHANGED <<node, table, connected, at, slot, value, sets, faults, reads,
                   excused, doubled>>

\* The answer is late or lost, or the client hangs up: nobody is told.
SetFails ==
    /\ setting # NoSlot
    /\ faults < MaxFaults
    /\ faults' = faults + 1
    /\ setting' = NoSlot
    /\ excused' = TRUE
    /\ UNCHANGED <<node, table, connected, jobs, at, slot, value, sets, reads,
                   doubled>>

\* ListChannels
ListChannels ==
    /\ reads < MaxReads
    /\ reads' = reads + 1
    /\ Spawn(ListAll)
    /\ UNCHANGED <<node, table, connected, setting, at, slot, value, sets, faults,
                   excused, doubled>>

\* The RPC is cancelled, while it waits for the lock or in the middle of its job;
\* what it has written stays.
ListCancelled(i) ==
    /\ jobs[i].kind = "list"
    /\ faults < MaxFaults
    /\ faults' = faults + 1
    /\ IF i = 1 THEN Ends
       ELSE jobs' = RemoveAt(jobs, i) /\ UNCHANGED <<at, slot, value>>
    /\ UNCHANGED <<node, table, connected, setting, sets, reads, excused, doubled>>

\* Mutated form: the first connection's picture is thought good enough.
SyncOnce == IF \E c \in Channels : table[c] # NoRow THEN UNCHANGED jobs ELSE Spawn(Refresh)

SyncOnConnect == Spawn(Refresh)

\* run() has a new connection and tells its listeners.
Connects ==
    /\ ~connected
    /\ connected' = TRUE
    /\ SyncOnConnect
    /\ excused' = FALSE
    /\ UNCHANGED <<node, table, setting, at, slot, value, sets, faults, reads,
                   doubled>>

\* The connection is lost, and with it the answer to a SET_CHANNEL.
Disconnects ==
    /\ connected
    /\ faults < MaxFaults
    /\ faults' = faults + 1
    /\ connected' = FALSE
    /\ setting' = NoSlot
    /\ UNCHANGED <<node, table, jobs, at, slot, value, sets, reads, excused, doubled>>

\* The daemon is killed and started again: the table is what was committed.
Restarts ==
    /\ faults < MaxFaults
    /\ faults' = faults + 1
    /\ connected' = FALSE
    /\ setting' = NoSlot
    /\ jobs' = <<>>
    /\ at' = "idle"
    /\ slot' = 0
    /\ value' = NoChannel
    /\ UNCHANGED <<node, table, sets, reads, excused, doubled>>

-----------------------------------------------------------------------------
JobStep ==
    \/ Starts \/ Queries \/ ReadsSlot \/ Unavailable \/ Upserts \/ Vacates
    \/ Occupies \/ Clears \/ Trims

SyncNext ==
    \/ JobStep
    \/ CommandFails
    \/ \E s \in Slots, x \in Channels \cup {NoChannel} :
          SetChannel(s, x) \/ SetElsewhere(s, x)
    \/ SetReturns \/ SetFails
    \/ ListChannels
    \/ \E i \in DOMAIN jobs : ListCancelled(i)
    \/ Connects \/ Disconnects \/ Restarts

SyncSpec == SyncInit /\ [][SyncNext]_syncVars

\* Tasks run, and a SET_CHANNEL returns or fails.
SyncFairSpec ==
    /\ SyncSpec
    /\ WF_syncVars(JobStep)
    /\ WF_syncVars(SetReturns \/ SetFails)

-----------------------------------------------------------------------------
\* The table shows the node: a channel has a slot if it is on the node, and
\* then one that it is in.
ShowsNode ==
    \A c \in Channels :
        LET on == {s \in Slots : node[s] = c}
        IN  IF on = {} THEN table[c] \in {NoSlot, NoRow} ELSE table[c] \in on

Quiet == connected /\ jobs = <<>> /\ setting = NoSlot

\* The state is well typed, and the UNIQUE constraint on channels.slot holds, so
\* that no statement of assign_slot fails on it.
SyncTypeOK ==
    /\ node \in [Slots -> Channels \cup {NoChannel}]
    /\ table \in [Channels -> Slots \cup {NoSlot, NoRow}]
    /\ \A c, d \in Channels : table[c] = table[d] /\ table[c] \in Slots => c = d
    /\ connected \in BOOLEAN
    /\ setting \in Slots \cup {NoSlot}
    /\ jobs \in Seq(Job)
    /\ at \in Places
    /\ slot \in 0..MaxSlots
    /\ value \in Channels \cup {NoChannel}
    /\ sets \in Nat /\ faults \in Nat /\ reads \in Nat
    /\ excused \in BOOLEAN /\ doubled \in BOOLEAN

\* Whatever the order in which slots were changed and re-read, when the tracker
\* has nothing left to do the table shows the node: a stale read is always
\* followed by a resync of the slot that changed under it.  (Unless a command
\* failed, or the node had the same channel in two slots.)
SyncedWhenQuiet == Quiet /\ ~excused /\ ~doubled => ShowsNode

\* Once nothing changes any more the table comes to show the node, and stays so.
SyncedInTheEnd == <>[](ShowsNode \/ ~connected \/ excused \/ doubled)
=============================================================================
