----------------------------- MODULE ContactSync -----------------------------
(***************************************************************************)
(* How the contacts table follows the node's contact list: the daemon's    *)
(* periodic pulls of what changed since _lastmod, the lists that others    *)
(* ask for and everybody receives, the pushes, and the recorder, which     *)
(* writes a list one contact after the other while newer events come in.   *)
(***************************************************************************)
EXTENDS Naturals, Sequences, FiniteSets

CONSTANTS Contacts,   \* public keys
          MaxMod,     \* bound: the node's clock runs from 1 to MaxMod
          MaxWire,    \* bound: events under way
          MaxJobs,    \* bound: lists being written
          MaxFaults   \* bound: outages, failed writes and restarts

ASSUME ContactAssumption == MaxMod \in Nat \ {0} /\ MaxFaults \in Nat

VARIABLES
  node,     \* the node's list: the lastmod of each contact, Absent if it has none
  wire,     \* events of the library that are not handled yet, in order
  lastmod,  \* _lastmod
  jobs,     \* calls of _on_contacts under way: what each has still to write
  row,      \* the contacts table: the lastmod stored, Absent without a row
  onDevice, \* the contacts whose row has on_device = 1
  faults,
  late,     \* history: contacts whose newest change is stamped too low for a pull,
            \* or whose list was lost, or overtaken by another, while being written
  skipped,  \* history: contacts that a list asked for by somebody else leaped over
  astray    \* history: contacts whose removal the daemon was not told in order

contactVars == <<node, wire, lastmod, jobs, row, onDevice, faults, late, skipped, astray>>

Absent == 0
Mods == 1..MaxMod
Greatest(S) == IF S = {} THEN 0 ELSE CHOOSE x \in S : \A y \in S : y <= x

\* A list holds the contacts changed after "since"; its end frame names the
\* newest of their times.
Listed(since) == {c \in Contacts : node[c] > since}
List(since) == [kind |-> "list", mods |-> [c \in Listed(since) |-> node[c]]]
EndMark(mods) == Greatest({mods[c] : c \in DOMAIN mods})
Lists == {i \in DOMAIN wire : wire[i].kind = "list"}

\* What _lastmod will be when every event under way has been handled.
Pulled == Greatest({lastmod} \union {EndMark(wire[i].mods) : i \in Lists})

\* Contacts of a list that the recorder has not written yet.
Unwritten(c) ==
  \/ \E i \in Lists : c \in DOMAIN wire[i].mods
  \/ \E j \in DOMAIN jobs : c \in DOMAIN jobs[j]

ContactInit ==
  /\ node \in [Contacts -> {Absent} \union Mods]
  /\ wire = <<>> /\ lastmod = 0 /\ jobs = <<>>
  /\ row = [c \in Contacts |-> Absent] /\ onDevice = {}
  /\ faults = 0 /\ late = {} /\ skipped = {} /\ astray = {}

-----------------------------------------------------------------------------
(* The node.                                                               *)

\* A change stamped above what was pulled will be in the next pull; one stamped
\* at the same second or, after the clock went back, below, never.
Stamped(c, t) ==
  /\ node' = [node EXCEPT ![c] = t]
  /\ late' = IF t > Pulled THEN late \ {c} ELSE late \union {c}
  /\ skipped' = skipped \ {c}

\* An advert: a known contact is only touched, a new one is pushed in full.
NodeHears(c, t) ==
  /\ Len(wire) < MaxWire
  /\ Stamped(c, t)
  /\ wire' = IF node[c] = Absent THEN Append(wire, [kind |-> "new", c |-> c, mod |-> t]) ELSE wire
  /\ UNCHANGED <<lastmod, jobs, row, onDevice, faults, astray>>

\* The list is full and a contact makes room.
NodeEvicts(c) ==
  /\ node[c] # Absent /\ Len(wire) < MaxWire
  /\ node' = [node EXCEPT ![c] = Absent]
  /\ wire' = Append(wire, [kind |-> "deleted", c |-> c])
  /\ UNCHANGED <<lastmod, jobs, row, onDevice, faults, late, skipped, astray>>

\* A proxied REMOVE_CONTACT is executed; no event follows it.
ClientRemoves(c) ==
  /\ node[c] # Absent
  /\ node' = [node EXCEPT ![c] = Absent]
  /\ astray' = astray \union {c}
  /\ UNCHANGED <<wire, lastmod, jobs, row, onDevice, faults, late, skipped>>

-----------------------------------------------------------------------------
(* Lists.                                                                  *)

\* GET_CONTACTS is answered to the end.
NodeLists(since) ==
  /\ Len(wire) < MaxWire
  /\ wire' = Append(wire, List(since))
  /\ UNCHANGED <<node, lastmod, jobs, row, onDevice, faults, late, astray>>

\* Mutated form: pulls start one second after the newest change seen.
Beyond == lastmod + 1

Since == lastmod

DaemonPulls == NodeLists(Since) /\ UNCHANGED skipped

SyncContacts == NodeLists(0) /\ UNCHANGED skipped

\* A proxy client asks for what changed since the time it knows.
ClientLists(since) ==
  /\ NodeLists(since)
  /\ skipped' = IF Listed(since) = {} THEN skipped
                ELSE skipped \union {c \in Contacts : Pulled < node[c] /\ node[c] <= since}

-----------------------------------------------------------------------------
(* The recorder and _on_contacts_event.                                    *)

Arriving == Head(wire)

\* Both subscribers of CONTACTS start: _lastmod is advanced at once, the loop
\* of the recorder begins.
ListArrives ==
  /\ wire # <<>> /\ Arriving.kind = "list" /\ Len(jobs) < MaxJobs
  /\ lastmod' = Greatest({lastmod, EndMark(Arriving.mods)})
  /\ jobs' = IF DOMAIN Arriving.mods = {} THEN jobs ELSE Append(jobs, Arriving.mods)
  /\ late' = late \union {c \in DOMAIN Arriving.mods : \E j \in DOMAIN jobs : c \in DOMAIN jobs[j]}
  /\ wire' = Tail(wire)
  /\ UNCHANGED <<node, row, onDevice, faults, skipped, astray>>

\* upsert(contact, on_device=True)
Upsert(c, mod) ==
  /\ row' = [row EXCEPT ![c] = mod]
  /\ onDevice' = onDevice \union {c}

\* Mutated form: the row of an evicted contact is left alone.
KeepFlag(c) == UNCHANGED onDevice

\* mark_removed_from_device
MarkRemoved(c) == onDevice' = onDevice \ {c}

NewContact ==
  /\ wire # <<>> /\ Arriving.kind = "new"
  /\ Upsert(Arriving.c, Arriving.mod)
  /\ wire' = Tail(wire)
  /\ UNCHANGED <<node, lastmod, jobs, faults, late, skipped, astray>>

ContactDeleted ==
  /\ wire # <<>> /\ Arriving.kind = "deleted"
  /\ MarkRemoved(Arriving.c)
  /\ wire' = Tail(wire)
  /\ astray' = IF \E j \in DOMAIN jobs : Arriving.c \in DOMAIN jobs[j]
               THEN astray \union {Arriving.c} ELSE astray
  /\ UNCHANGED <<node, lastmod, jobs, row, faults, late, skipped>>

Rest(j, c) == [d \in DOMAIN jobs[j] \ {c} |-> jobs[j][d]]
Without(j) == [i \in 1..(Len(jobs) - 1) |-> IF i < j THEN jobs[i] ELSE jobs[i + 1]]

\* One turn of the loop over a list.
WritesOne(j, c) ==
  /\ j \in DOMAIN jobs /\ c \in DOMAIN jobs[j]
  /\ Upsert(c, jobs[j][c])
  /\ jobs' = IF DOMAIN jobs[j] = {c} THEN Without(j) ELSE [jobs EXCEPT ![j] = Rest(j, c)]
  /\ UNCHANGED <<node, wire, lastmod, faults, late, skipped, astray>>

\* The database refuses a statement: the exception ends the loop.
WriteFails(j) ==
  /\ j \in DOMAIN jobs /\ faults < MaxFaults
  /\ jobs' = Without(j)
  /\ late' = late \union DOMAIN jobs[j]
  /\ faults' = faults + 1
  /\ UNCHANGED <<node, wire, lastmod, row, onDevice, skipped, astray>>

-----------------------------------------------------------------------------
(* RemoveContact, outages and restarts.                                    *)

\* remove_contact succeeds and the row is marked before anything else is handled;
\* a list taken before may still be on its way to the table.
RemoveContact(c) ==
  /\ node[c] # Absent
  /\ node' = [node EXCEPT ![c] = Absent]
  /\ MarkRemoved(c)
  /\ astray' = IF Unwritten(c) \/ (\E i \in DOMAIN wire : wire[i].kind = "new" /\ wire[i].c = c)
               THEN astray \union {c} ELSE astray
  /\ UNCHANGED <<wire, lastmod, jobs, row, faults, late, skipped>>

Evicted == {c \in Contacts : \E i \in DOMAIN wire : wire[i].kind = "deleted" /\ wire[i].c = c}

\* What is under way is lost.
ContactOutage ==
  /\ faults < MaxFaults
  /\ wire' = <<>> /\ astray' = astray \union Evicted
  /\ faults' = faults + 1
  /\ UNCHANGED <<node, lastmod, jobs, row, onDevice, late, skipped>>

\* A new process knows nothing of earlier pulls and starts with a whole list.
ContactRestart ==
  /\ faults < MaxFaults
  /\ wire' = <<>> /\ jobs' = <<>> /\ lastmod' = 0
  /\ astray' = astray \union Evicted
  /\ late' = {} /\ skipped' = {}
  /\ faults' = faults + 1
  /\ UNCHANGED <<node, row, onDevice>>

ContactNext ==
  \/ \E c \in Contacts, t \in Mods : NodeHears(c, t)
  \/ \E c \in Contacts : NodeEvicts(c) \/ ClientRemoves(c) \/ RemoveContact(c)
  \/ DaemonPulls \/ SyncContacts
  \/ \E since \in Mods : ClientLists(since)
  \/ ListArrives \/ NewContact \/ ContactDeleted
  \/ \E j \in 1..MaxJobs : WriteFails(j) \/ \E c \in Contacts : WritesOne(j, c)
  \/ ContactOutage \/ ContactRestart

ContactSpec == ContactInit /\ [][ContactNext]_contactVars

-----------------------------------------------------------------------------
(* Properties.                                                             *)

\* A list under way has what the node knows of a contact.
Brought(c) ==
  \/ \E i \in Lists : c \in DOMAIN wire[i].mods /\ wire[i].mods[c] = node[c]
  \/ \E j \in DOMAIN jobs : c \in DOMAIN jobs[j] /\ jobs[j][c] = node[c]

\* A contact of the node is in the table as it is, or will be: it is newer than
\* what was pulled, or the list that brings it is under way.
Followed(c) ==
  \/ row[c] = node[c] /\ c \in onDevice
  \/ node[c] > Pulled
  \/ Brought(c)

\* No change of the node's list is forgotten by the periodic pull (_contact_sync,
\* _on_contacts_event, _on_contacts), except one that the node stamped no later than
\* the last one pulled, one whose list could not be written or was overtaken by
\* another, and one that somebody else's list leaped over.
NoChangeForgotten ==
  \A c \in Contacts : node[c] # Absent /\ c \notin late \union skipped => Followed(c)

\* A contact that left the node is marked so (_on_contact_deleted, RemoveContact),
\* or the event that says it is under way, unless the daemon was not told or was
\* writing a list from before the removal.
RemovalsNoticed ==
  \A c \in onDevice : node[c] = Absent /\ c \notin astray => c \in Evicted

\* "Periodically pull contact deltas so the DB outgrows the device limit"
\* (device.py:357): only the node's clock and failing writes can keep a contact of the
\* node out of the table.
PullsAreComplete ==
  \A c \in Contacts : node[c] # Absent /\ c \notin late => Followed(c)
=============================================================================
