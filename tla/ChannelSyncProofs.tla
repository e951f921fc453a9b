------------------------- MODULE ChannelSyncProofs -------------------------
(***************************************************************************)
(* Proofs about ChannelSync, for any channels, any number of slots and any *)
(* bounds: the state stays well typed and no two channels ever share a     *)
(* slot in the table, wherever a job is interrupted; and when the tracker  *)
(* has nothing left to do, the table shows the node.                       *)
(***************************************************************************)
EXTENDS ChannelSync, SequenceTheorems, TLAPS

\* What the place of the job in progress says about it.
JobData ==
    /\ at # "idle" => jobs # <<>>
    /\ at \in {"query", "read", "upsert", "vacate", "occupy", "clear"} => slot \in Slots
    /\ at \in {"upsert", "vacate", "occupy"} => value \in Channels
    /\ at = "occupy" => \A d \in Channels : table[d] = slot => d = value

SyncInv == SyncTypeOK /\ JobData

-----------------------------------------------------------------------------
\* Slots are numbers, and 0 is one of them; the markers are none.
LEMMA SlotFacts ==
    /\ MaxSlots \in Nat /\ MaxSlots > 0
    /\ 0 \in Slots /\ NoSlot \notin Slots /\ NoRow \notin Slots
    /\ \A s \in Slots : s \in 0..MaxSlots
  BY SyncAssumption DEF Slots, NoSlot, NoRow

\* A job that is queued keeps the queue well typed and not empty.
LEMMA SpawnType ==
    ASSUME SyncTypeOK, NEW j \in Job, Spawn(j)
    PROVE  jobs' \in Seq(Job) /\ jobs' # <<>>
  BY DEF SyncTypeOK, Spawn

\* The jobs the program makes are jobs.
LEMMA Jobs ==
    Refresh \in Job /\ ListAll \in Job /\ \A s \in Slots : Resync(s) \in Job
  BY SlotFacts DEF Refresh, ListAll, Resync, Job

\* The end of a job.
LEMMA EndsType ==
    ASSUME SyncTypeOK, jobs # <<>>, Ends
    PROVE  /\ jobs' \in Seq(Job)
           /\ at' = "idle"
           /\ slot' \in 0..MaxSlots
           /\ value' \in Channels \cup {NoChannel}
  BY SlotFacts DEF SyncTypeOK, Ends

\* The end of one slot: the job is over, goes on to the next slot, or trims.
LEMMA SlotDoneType ==
    ASSUME SyncTypeOK, jobs # <<>>, slot \in Slots, SlotDone
    PROVE  /\ jobs' \in Seq(Job)
           /\ at' \in {"idle", "read", "trim"}
           /\ at' # "idle" => jobs' # <<>>
           /\ slot' \in 0..MaxSlots
           /\ at' = "read" => slot' \in Slots
           /\ value' \in Channels \cup {NoChannel}
  <1>1. CASE Head(jobs).kind = "resync"
    BY <1>1, EndsType DEF SlotDone
  <1>2. CASE Head(jobs).kind # "resync"
    <2>1. /\ at' = IF slot + 1 < MaxSlots THEN "read" ELSE "trim"
          /\ slot' = slot + 1
          /\ value' = NoChannel
          /\ UNCHANGED jobs
      BY <1>2 DEF SlotDone
    <2>2. slot + 1 \in 0..MaxSlots /\ (slot + 1 < MaxSlots => slot + 1 \in Slots)
      BY SlotFacts DEF Slots
    <2>3. QED
      BY <2>1, <2>2 DEF SyncTypeOK
  <1>3. QED
    BY <1>1, <1>2

\* The initial states satisfy the inductive invariant.
LEMMA SyncInitInv == SyncInit => SyncInv
  <1> SUFFICES ASSUME SyncInit PROVE SyncInv
    OBVIOUS
  <1>1. connected \in BOOLEAN /\ excused \in BOOLEAN /\ doubled \in BOOLEAN
    BY DEF SyncInit
  <1>2. jobs \in Seq(Job) /\ setting \in Slots \cup {NoSlot}
    BY DEF SyncInit
  <1>3. /\ table \in [Channels -> Slots \cup {NoSlot, NoRow}]
        /\ \A c \in Channels : table[c] \notin Slots
    BY SlotFacts DEF SyncInit
  <1>4. /\ node \in [Slots -> Channels \cup {NoChannel}]
        /\ at \in Places /\ slot \in 0..MaxSlots
        /\ value \in Channels \cup {NoChannel}
        /\ sets \in Nat /\ faults \in Nat /\ reads \in Nat
    BY SlotFacts DEF SyncInit, Places
  <1>5. JobData
    BY DEF SyncInit, JobData
  <1>6. QED
    BY <1>1, <1>2, <1>3, <1>4, <1>5 DEF SyncInv, SyncTypeOK

-----------------------------------------------------------------------------
\* The parts of SyncTypeOK that only the job or only the others change.
TableOK ==
    /\ table \in [Channels -> Slots \cup {NoSlot, NoRow}]
    /\ \A c, d \in Channels : table[c] = table[d] /\ table[c] \in Slots => c = d

JobOK ==
    /\ jobs \in Seq(Job)
    /\ at \in Places
    /\ slot \in 0..MaxSlots
    /\ value \in Channels \cup {NoChannel}

OutsideOK ==
    /\ node \in [Slots -> Channels \cup {NoChannel}]
    /\ connected \in BOOLEAN
    /\ setting \in Slots \cup {NoSlot}
    /\ sets \in Nat /\ faults \in Nat /\ reads \in Nat
    /\ excused \in BOOLEAN /\ doubled \in BOOLEAN

LEMMA Parts == SyncInv <=> TableOK /\ JobOK /\ OutsideOK /\ JobData
  BY DEF SyncInv, SyncTypeOK, TableOK, JobOK, OutsideOK

\* What the job leaves alone stays well typed.
LEMMA OutsideKept == OutsideOK /\ UNCHANGED outside => OutsideOK'
  <1> SUFFICES ASSUME OutsideOK, UNCHANGED outside PROVE OutsideOK'
    OBVIOUS
  <1>1. /\ node' = node /\ connected' = connected /\ setting' = setting
        /\ sets' = sets /\ faults' = faults /\ reads' = reads
        /\ excused' = excused /\ doubled' = doubled
    BY DEF outside
  <1>2. connected' \in BOOLEAN /\ excused' \in BOOLEAN /\ doubled' \in BOOLEAN
    BY <1>1 DEF OutsideOK
  <1>3. QED
    BY <1>1, <1>2 DEF OutsideOK

\* So does what the others leave alone, if all they do to the job is to queue
\* more.
LEMMA JobKept ==
    ASSUME TableOK, JobOK, JobData, jobs' \in Seq(Job),
           jobs # <<>> => jobs' # <<>>, UNCHANGED <<table, at, slot, value>>
    PROVE  TableOK' /\ JobOK' /\ JobData'
  BY DEF TableOK, JobOK, JobData

\* A job's steps that write the table: one lemma per statement.
LEMMA UpsertInv == SyncInv /\ Upserts => SyncInv'
  <1> SUFFICES ASSUME SyncInv, Upserts PROVE SyncInv'
    OBVIOUS
  <1> USE Parts
  <1>1. value \in Channels /\ slot \in Slots /\ jobs # <<>>
    BY DEF Upserts, JobData
  <1>2. TableOK'
    BY <1>1, SlotFacts DEF Upserts, TableOK
  <1>3. JobOK' /\ JobData'
    BY <1>1 DEF Upserts, Goto, JobOK, JobData, Places
  <1>4. OutsideOK'
    BY OutsideKept DEF Upserts
  <1>5. QED
    BY <1>2, <1>3, <1>4 DEF SyncInv, SyncTypeOK, TableOK, JobOK, OutsideOK

LEMMA VacateInv == SyncInv /\ Vacates => SyncInv'
  <1> SUFFICES ASSUME SyncInv, Vacates PROVE SyncInv'
    OBVIOUS
  <1> USE Parts
  <1>1. value \in Channels /\ slot \in Slots /\ jobs # <<>>
    BY DEF Vacates, JobData
  <1>2. table' = [d \in Channels |->
                    IF table[d] = slot /\ d # value THEN NoSlot ELSE table[d]]
    BY DEF Vacates, VacateOthers
  <1>3. TableOK'
    BY <1>2, SlotFacts DEF TableOK
  <1>4. JobOK' /\ slot' = slot /\ value' = value /\ jobs' = jobs /\ at' = "occupy"
    BY DEF Vacates, Goto, JobOK, Places
  <1>5. \A d \in Channels : table'[d] = slot => d = value
    BY <1>1, <1>2, SlotFacts
  <1>6. JobData'
    BY <1>1, <1>4, <1>5 DEF JobData
  <1>7. OutsideOK'
    BY OutsideKept DEF Vacates
  <1>8. QED
    BY <1>3, <1>4, <1>6, <1>7 DEF SyncInv, SyncTypeOK, TableOK, JobOK, OutsideOK

\* The job after the end of one slot.
LEMMA SlotDoneInv ==
    ASSUME SyncInv, jobs # <<>>, slot \in Slots, SlotDone
    PROVE  JobOK' /\ JobData'
  <1>1. JobOK'
    BY SlotDoneType DEF SyncInv, JobOK, Places
  <1>2. JobData'
    BY SlotDoneType DEF SyncInv, JobData
  <1>3. QED
    BY <1>1, <1>2

LEMMA OccupyInv == SyncInv /\ Occupies => SyncInv'
  <1> SUFFICES ASSUME SyncInv, Occupies PROVE SyncInv'
    OBVIOUS
  <1>1. /\ value \in Channels /\ slot \in Slots /\ jobs # <<>>
        /\ \A d \in Channels : table[d] = slot => d = value
    BY DEF SyncInv, Occupies, JobData
  <1>2. table' = [table EXCEPT ![value] = slot]
    BY DEF Occupies
  <1>3. TableOK'
    BY <1>1, <1>2, Parts DEF TableOK
  <1>4. JobOK' /\ JobData'
    BY <1>1, SlotDoneInv DEF Occupies
  <1>5. OutsideOK'
    BY OutsideKept, Parts DEF Occupies
  <1>6. QED
    BY <1>3, <1>4, <1>5 DEF SyncInv, SyncTypeOK, TableOK, JobOK, OutsideOK

LEMMA ClearInv == SyncInv /\ Clears => SyncInv'
  <1> SUFFICES ASSUME SyncInv, Clears PROVE SyncInv'
    OBVIOUS
  <1>1. slot \in Slots /\ jobs # <<>>
    BY DEF SyncInv, Clears, JobData
  <1>2. table' = [d \in Channels |-> IF table[d] = slot THEN NoSlot ELSE table[d]]
    BY DEF Clears
  <1>3. TableOK'
    BY <1>2, SlotFacts, Parts DEF TableOK
  <1>4. JobOK' /\ JobData'
    BY <1>1, SlotDoneInv DEF Clears
  <1>5. OutsideOK'
    BY OutsideKept, Parts DEF Clears
  <1>6. QED
    BY <1>3, <1>4, <1>5 DEF SyncInv, SyncTypeOK, TableOK, JobOK, OutsideOK

-----------------------------------------------------------------------------
\* A job that leaves the lock without writing anything more.
LEMMA LeaveInv ==
    ASSUME SyncInv, jobs # <<>>, Ends, UNCHANGED table
    PROVE  TableOK' /\ JobOK' /\ JobData'
  <1>1. TableOK'
    BY Parts DEF TableOK
  <1>2. JobOK'
    BY EndsType DEF SyncInv, JobOK, Places
  <1>3. JobData'
    BY EndsType DEF SyncInv, JobData
  <1>4. QED
    BY <1>1, <1>2, <1>3

\* A job that moves on without writing anything.
LEMMA GotoInv ==
    ASSUME SyncInv, jobs # <<>>, NEW place \in {"read", "clear"}, slot \in Slots,
           Goto(place), UNCHANGED table
    PROVE  TableOK' /\ JobOK' /\ JobData'
  BY Parts DEF Goto, TableOK, JobOK, JobData, Places

\* Steps of the job in progress that do not write the table.
LEMMA JobInv ==
    SyncInv /\ (Starts \/ Queries \/ ReadsSlot \/ Unavailable \/ Trims) => SyncInv'
  <1> SUFFICES ASSUME SyncInv, Starts \/ Queries \/ ReadsSlot \/ Unavailable \/ Trims
               PROVE  SyncInv'
    OBVIOUS
  <1>1. OutsideOK'
    BY OutsideKept, Parts DEF Starts, Queries, ReadsSlot, Unavailable, Trims
  <1>2. TableOK' /\ JobOK' /\ JobData'
    <2>1. CASE Starts
      <3>1. Head(jobs) \in Job
        <4>1. jobs \in Seq(Job) /\ jobs # <<>>
          BY <2>1, Parts DEF Starts, JobOK
        <4>2. QED
          BY <4>1
      <3>2. Head(jobs).slot \in Slots
        BY <3>1 DEF Job
      <3>3. QED
        BY <2>1, <3>2, SlotFacts, Parts
           DEF Starts, TableOK, JobOK, JobData, Places
    <2>2. CASE Queries
      <3>1. jobs # <<>> /\ at = "query"
        BY <2>2 DEF Queries, SyncInv, JobData
      <3>2. slot \in Slots
        BY <3>1 DEF SyncInv, JobData
      <3>3. QED
        BY <2>2, <3>1, <3>2, GotoInv DEF Queries
    <2>3. CASE ReadsSlot
      <3>1. slot \in Slots /\ jobs # <<>> /\ node[slot] \in Channels \cup {NoChannel}
        BY <2>3, Parts DEF ReadsSlot, JobData, OutsideOK
      <3>2. QED
        BY <2>3, <3>1, Parts DEF ReadsSlot, TableOK, JobOK, JobData, Places
    <2>4. CASE Unavailable
      BY <2>4, LeaveInv DEF Unavailable, SyncInv, JobData
    <2>5. CASE Trims
      BY <2>5, LeaveInv DEF Trims, SyncInv, JobData
    <2>6. QED
      BY <2>1, <2>2, <2>3, <2>4, <2>5
  <1>3. QED
    BY <1>1, <1>2 DEF SyncInv, SyncTypeOK, TableOK, JobOK, OutsideOK

\* A command of the job that ends in an error.
LEMMA CommandFailsInv == SyncInv /\ CommandFails => SyncInv'
  <1> SUFFICES ASSUME SyncInv, CommandFails PROVE SyncInv'
    OBVIOUS
  <1>1. TableOK' /\ JobOK' /\ JobData'
    <2>1. CASE at = "query" /\ Ends
      BY <2>1, LeaveInv DEF CommandFails, SyncInv, JobData
    <2>2. CASE at = "read" /\ Goto("clear")
      BY <2>2, GotoInv DEF CommandFails, SyncInv, JobData
    <2>3. QED
      BY <2>1, <2>2 DEF CommandFails
  <1>2. excused' \in BOOLEAN /\ connected' \in BOOLEAN /\ doubled' \in BOOLEAN
    BY Parts DEF CommandFails, OutsideOK
  <1>3. faults' \in Nat
    BY Parts DEF CommandFails, OutsideOK
  <1>4. OutsideOK'
    BY <1>2, <1>3, Parts DEF CommandFails, OutsideOK
  <1>5. QED
    BY <1>1, <1>4 DEF SyncInv, SyncTypeOK, TableOK, JobOK, OutsideOK

\* The jobs that clients and connections queue.
LEMMA SpawnInv ==
    ASSUME SyncInv, NEW j \in Job, Spawn(j), UNCHANGED <<table, at, slot, value>>
    PROVE  TableOK' /\ JobOK' /\ JobData'
  <1>1. jobs' \in Seq(Job) /\ jobs' # <<>>
    BY SpawnType DEF SyncInv
  <1>2. QED
    BY <1>1, JobKept, Parts

\* One job of the queue, which does not hold the lock, is cancelled.
LEMMA RemoveType ==
    ASSUME jobs \in Seq(Job), NEW i \in DOMAIN jobs, i # 1
    PROVE  RemoveAt(jobs, i) \in Seq(Job) /\ RemoveAt(jobs, i) # <<>>
  <1>1. i \in 2..Len(jobs)
    OBVIOUS
  <1>2. /\ SubSeq(jobs, 1, i - 1) \in Seq(Job)
        /\ Len(SubSeq(jobs, 1, i - 1)) = i - 1
    BY <1>1
  <1>3. SubSeq(jobs, i + 1, Len(jobs)) \in Seq(Job)
    BY <1>1
  <1>4. Len(RemoveAt(jobs, i)) >= 1 /\ RemoveAt(jobs, i) \in Seq(Job)
    BY <1>1, <1>2, <1>3 DEF RemoveAt
  <1>5. QED
    BY <1>4

\* What clients, connections and crashes do to the job and to the table.
Sets(s, x) == SetChannel(s, x) \/ SetElsewhere(s, x)

Others ==
    \/ \E s \in Slots, x \in Channels \cup {NoChannel} : Sets(s, x)
    \/ SetReturns \/ SetFails \/ ListChannels
    \/ \E i \in DOMAIN jobs : ListCancelled(i)
    \/ Connects \/ Disconnects \/ Restarts

LEMMA OthersJob == SyncInv /\ Others => TableOK' /\ JobOK' /\ JobData'
  <1> SUFFICES ASSUME SyncInv, Others PROVE TableOK' /\ JobOK' /\ JobData'
    OBVIOUS
  <1> USE Parts
  <1>1. CASE SetReturns
    <2>1. Resync(setting) \in Job
      BY <1>1, Jobs DEF SetReturns, OutsideOK
    <2>2. QED
      BY <1>1, <2>1, SpawnInv DEF SetReturns
  <1>2. CASE ListChannels
    BY <1>2, Jobs, SpawnInv DEF ListChannels
  <1>3. CASE Connects
    BY <1>3, Jobs, SpawnInv DEF Connects, SyncOnConnect
  <1>4. CASE Restarts
    BY <1>4, SlotFacts DEF Restarts, TableOK, JobOK, JobData, Places
  <1>5. ASSUME NEW s \in Slots, NEW x \in Channels \cup {NoChannel}, Sets(s, x)
        PROVE  TableOK' /\ JobOK' /\ JobData'
    BY <1>5, JobKept DEF Sets, SetChannel, SetElsewhere, JobOK
  <1>6. CASE SetFails \/ Disconnects
    BY <1>6, JobKept DEF SetFails, Disconnects, JobOK
  <1>7. ASSUME NEW i \in DOMAIN jobs, ListCancelled(i)
        PROVE  TableOK' /\ JobOK' /\ JobData'
    <2>1. jobs # <<>> /\ UNCHANGED table
      BY <1>7 DEF ListCancelled, JobOK
    <2>2. CASE i = 1
      BY <1>7, <2>1, <2>2, LeaveInv DEF ListCancelled
    <2>3. CASE i # 1
      BY <1>7, <2>3, RemoveType, JobKept DEF ListCancelled, JobOK
    <2>4. QED
      BY <2>2, <2>3
  <1>8. QED
    BY <1>1, <1>2, <1>3, <1>4, <1>5, <1>6, <1>7 DEF Others

LEMMA OthersOutside == SyncInv /\ Others => OutsideOK'
  <1> SUFFICES ASSUME SyncInv, Others PROVE OutsideOK'
    OBVIOUS
  <1> USE Parts
  <1>1. ASSUME NEW s \in Slots, NEW x \in Channels \cup {NoChannel}, Sets(s, x)
        PROVE  OutsideOK'
    <2>1. doubled' = (doubled \/ ~Distinct(node'))
      BY <1>1 DEF Sets, SetChannel, SetElsewhere
    <2>2. doubled' \in BOOLEAN
      BY <2>1
    <2>3. connected' \in BOOLEAN /\ excused' \in BOOLEAN
      BY <1>1 DEF Sets, SetChannel, SetElsewhere, OutsideOK
    <2>4. /\ sets' \in Nat /\ faults' \in Nat /\ reads' \in Nat
          /\ setting' \in Slots \cup {NoSlot}
          /\ node' \in [Slots -> Channels \cup {NoChannel}]
      BY <1>1 DEF Sets, SetChannel, SetElsewhere, OutsideOK
    <2>5. QED
      BY <2>2, <2>3, <2>4 DEF OutsideOK
  <1>2. ASSUME NEW i \in DOMAIN jobs, ListCancelled(i)
        PROVE  OutsideOK'
    <2>1. connected' \in BOOLEAN /\ excused' \in BOOLEAN /\ doubled' \in BOOLEAN
      BY <1>2 DEF ListCancelled, OutsideOK
    <2>2. faults' \in Nat
      BY <1>2 DEF ListCancelled, OutsideOK
    <2>3. QED
      BY <1>2, <2>1, <2>2 DEF ListCancelled, OutsideOK
  <1>3. CASE SetReturns \/ SetFails \/ ListChannels \/ Connects \/ Disconnects \/ Restarts
    <2>1. connected' \in BOOLEAN /\ excused' \in BOOLEAN /\ doubled' \in BOOLEAN
      BY <1>3 DEF SetReturns, SetFails, ListChannels, Connects, Disconnects,
                  Restarts, OutsideOK
    <2>2. sets' \in Nat /\ faults' \in Nat /\ reads' \in Nat
      BY <1>3 DEF SetReturns, SetFails, ListChannels, Connects, Disconnects,
                  Restarts, OutsideOK
    <2>3. /\ setting' \in Slots \cup {NoSlot}
          /\ node' \in [Slots -> Channels \cup {NoChannel}]
      BY <1>3 DEF SetReturns, SetFails, ListChannels, Connects, Disconnects,
                  Restarts, OutsideOK
    <2>4. QED
      BY <2>1, <2>2, <2>3 DEF OutsideOK
  <1>4. QED
    BY <1>1, <1>2, <1>3 DEF Others

\* Every step preserves the inductive invariant.
LEMMA SyncStepInv == SyncInv /\ [SyncNext]_syncVars => SyncInv'
  <1> SUFFICES ASSUME SyncInv, [SyncNext]_syncVars PROVE SyncInv'
    OBVIOUS
  <1>1. CASE JobStep
    BY <1>1, JobInv, UpsertInv, VacateInv, OccupyInv, ClearInv DEF JobStep
  <1>2. CASE CommandFails
    BY <1>2, CommandFailsInv
  <1>3. CASE Others
    BY <1>3, OthersJob, OthersOutside
       DEF SyncInv, SyncTypeOK, TableOK, JobOK, OutsideOK
  <1>4. CASE UNCHANGED syncVars
    <2>1. OutsideOK'
      BY <1>4, OutsideKept, Parts DEF syncVars, outside
    <2>2. TableOK' /\ JobOK' /\ JobData'
      BY <1>4, JobKept, Parts DEF syncVars, JobOK
    <2>3. QED
      BY <2>1, <2>2 DEF SyncInv, SyncTypeOK, TableOK, JobOK, OutsideOK
  <1>5. QED
    BY <1>1, <1>2, <1>3, <1>4 DEF SyncNext, Others, Sets

\* In every reachable state, whatever jobs were interrupted between the three
\* statements of assign_slot, no two channels have the same slot in the table:
\* the UNIQUE constraint never makes a statement fail.  (repositories.py)
THEOREM UniqueSlots == SyncSpec => []SyncTypeOK
  <1>1. SyncInv => SyncTypeOK
    BY DEF SyncInv
  <1>2. QED
    BY <1>1, SyncInitInv, SyncStepInv, PTL DEF SyncSpec

-----------------------------------------------------------------------------
(* The table follows the node: of every slot whose row is wrong there is a  *)
(* job ahead that reads it, or one about to write what it has read.         *)

\* The row of every channel says what slot s holds.
Shown(s) == \A c \in Channels : table[c] = s <=> node[s] = c

\* Jobs that nobody can cancel and that read slot s once they have the lock.
Covers(j, s) ==
    \/ j.kind = "refresh" /\ j.slot = 0
    \/ j.kind = "resync" /\ j.slot = s

Queued(s) == \E i \in 2..Len(jobs) : Covers(jobs[i], s)

Writing == at \in {"upsert", "vacate", "occupy", "clear"}

\* The job that holds the lock has not come to slot s yet.
Coming(s) ==
    /\ jobs # <<>>
    /\ \/ /\ Head(jobs).kind = "resync" /\ Head(jobs).slot = s
          /\ \/ at = "idle"
             \/ at = "read" /\ slot = s
       \/ /\ Head(jobs).kind = "refresh"
          /\ \/ at = "idle" /\ Head(jobs).slot = 0
             \/ at \in {"query", "read"} /\ slot <= s
             \/ Writing /\ slot < s

\* Slot s will be read again.
Ahead(s) == setting = s \/ Queued(s) \/ Coming(s)

\* What the job is about to write into the table for the slot it is at.
Known == IF at = "clear" THEN NoChannel ELSE value

\* Of every slot the table shows what it holds, or the job in progress is about to write
\* it, or it will be read again.
Followed(s) ==
    \/ Ahead(s)
    \/ Shown(s)
    \/ Writing /\ slot = s /\ Head(jobs).kind # "list"

\* What was read is true of this slot and, until it is read again, of the others.
ReadIsTrue == Writing =>
    /\ Ahead(slot) \/ node[slot] = Known
    /\ \A s \in Slots \ {slot} : node[s] = Known /\ Known \in Channels => Ahead(s)

Tracking == (\A s \in Slots : Followed(s)) /\ ReadIsTrue

TrackInv ==
    /\ SyncInv
    /\ ~doubled => Distinct(node)
    /\ connected /\ ~excused /\ ~doubled => Tracking

-----------------------------------------------------------------------------
\* What happens to the slots still to be read when a job is queued.
LEMMA AheadSpawn ==
    ASSUME SyncInv, NEW j \in Job, Spawn(j), UNCHANGED <<at, slot>>, NEW s \in Slots
    PROVE  /\ Queued(s) \/ Coming(s) => (Queued(s) \/ Coming(s))'
           /\ Covers(j, s) => (Queued(s) \/ Coming(s))'
  <1>1. /\ jobs \in Seq(Job) /\ jobs' = Append(jobs, j) /\ Len(jobs') = Len(jobs) + 1
        /\ jobs' \in Seq(Job) /\ jobs' # <<>>
        /\ \A i \in 1..Len(jobs) : jobs'[i] = jobs[i]
        /\ jobs'[Len(jobs) + 1] = j
    BY DEF SyncInv, SyncTypeOK, Spawn
  <1>2. jobs # <<>> => Head(jobs') = Head(jobs)
    BY <1>1
  <1>3. ASSUME Queued(s) PROVE Queued(s)'
    BY <1>1, <1>3 DEF Queued, Covers
  <1>4. ASSUME Coming(s) PROVE Coming(s)'
    BY <1>1, <1>2, <1>4 DEF Coming, Writing
  <1>5. ASSUME Covers(j, s) PROVE (Queued(s) \/ Coming(s))'
    <2>1. CASE jobs = <<>>
      <3>1. at' = "idle" /\ Head(jobs') = j
        BY <1>1, <2>1 DEF SyncInv, JobData
      <3>2. QED
        BY <1>1, <1>5, <3>1 DEF Coming, Covers
    <2>2. CASE jobs # <<>>
      <3>1. Len(jobs) + 1 \in 2..Len(jobs')
        BY <1>1, <2>2
      <3>2. QED
        BY <1>1, <1>5, <3>1 DEF Queued, Covers
    <2>3. QED
      BY <2>1, <2>2
  <1>6. QED
    BY <1>3, <1>4, <1>5

\* When a job ends, those behind it are still to come.
LEMMA AheadEnds ==
    ASSUME SyncInv, jobs # <<>>, Ends, NEW s \in Slots, Queued(s)
    PROVE  (Queued(s) \/ Coming(s))'
  <1>1. /\ jobs \in Seq(Job) /\ jobs' = Tail(jobs) /\ at' = "idle"
        /\ Len(jobs') = Len(jobs) - 1
        /\ \A i \in 1..Len(jobs') : jobs'[i] = jobs[i + 1]
    BY DEF SyncInv, SyncTypeOK, Ends
  <1>2. PICK i \in 2..Len(jobs) : Covers(jobs[i], s)
    BY DEF Queued
  <1>3. i - 1 \in 1..Len(jobs') /\ jobs'[i - 1] = jobs[i]
    BY <1>1, <1>2
  <1>4. CASE i = 2
    <2>1. jobs' # <<>> /\ Head(jobs') = jobs[2]
      BY <1>1, <1>3, <1>4
    <2>2. QED
      BY <1>1, <1>2, <1>4, <2>1 DEF Coming, Covers
  <1>5. CASE i # 2
    <2>1. i - 1 \in 2..Len(jobs')
      BY <1>3, <1>5
    <2>2. QED
      BY <1>2, <1>3, <2>1 DEF Queued
  <1>6. QED
    BY <1>4, <1>5

\* When the job has dealt with one slot, those above it are still to come.
LEMMA AheadDone ==
    ASSUME SyncInv, jobs # <<>>, slot \in Slots, Writing, SlotDone, UNCHANGED setting,
           NEW s \in Slots, Ahead(s)
    PROVE  Ahead(s)'
  <1>1. CASE setting = s
    BY <1>1 DEF Ahead
  <1>2. CASE Head(jobs).kind = "resync"
    <2>1. Ends /\ ~Coming(s)
      BY <1>2 DEF SlotDone, Coming, Writing
    <2>2. QED
      BY <1>1, <2>1, AheadEnds DEF Ahead
  <1>3. CASE Head(jobs).kind # "resync"
    <2>1. /\ at' = IF slot + 1 < MaxSlots THEN "read" ELSE "trim"
          /\ slot' = slot + 1 /\ jobs' = jobs
      BY <1>3 DEF SlotDone
    <2>2. ASSUME Queued(s) PROVE Queued(s)'
      BY <2>1, <2>2 DEF Queued
    <2>3. ASSUME Coming(s) PROVE Coming(s)'
      <3>1. Head(jobs).kind = "refresh" /\ slot < s
        BY <1>3, <2>3 DEF Coming, Writing
      <3>2. at' = "read" /\ slot' <= s
        BY <2>1, <3>1, SlotFacts DEF Slots
      <3>3. QED
        BY <2>1, <3>1, <3>2 DEF Coming
    <2>4. QED
      BY <1>1, <2>2, <2>3 DEF Ahead
  <1>4. QED
    BY <1>2, <1>3

\* A cancelled ListChannels takes nothing away.
LEMMA AheadRemove ==
    ASSUME SyncInv, NEW i \in DOMAIN jobs, i # 1, jobs[i].kind = "list",
           jobs' = RemoveAt(jobs, i), UNCHANGED <<at, slot>>, NEW s \in Slots,
           Queued(s) \/ Coming(s)
    PROVE  (Queued(s) \/ Coming(s))'
  <1>1. jobs \in Seq(Job) /\ i \in 2..Len(jobs)
    BY DEF SyncInv, SyncTypeOK
  <1>2. /\ Len(jobs') = Len(jobs) - 1
        /\ \A k \in 1..(i - 1) : jobs'[k] = jobs[k]
        /\ \A k \in i..(Len(jobs) - 1) : jobs'[k] = jobs[k + 1]
    <2> DEFINE front == SubSeq(jobs, 1, i - 1)
               back == SubSeq(jobs, i + 1, Len(jobs))
    <2>1. /\ front \in Seq(Job) /\ Len(front) = i - 1
          /\ \A k \in 1..(i - 1) : front[k] = jobs[k]
      BY <1>1
    <2>2. /\ back \in Seq(Job) /\ Len(back) = Len(jobs) - i
          /\ \A k \in 1..(Len(jobs) - i) : back[k] = jobs[i + k]
      BY <1>1
    <2>3. jobs' = front \o back
      BY DEF RemoveAt
    <2> HIDE DEF front, back
    <2>4. /\ Len(jobs') = Len(jobs) - 1
          /\ \A k \in 1..(i - 1) : jobs'[k] = front[k]
          /\ \A k \in i..(Len(jobs) - 1) : jobs'[k] = back[k - i + 1]
      <3>1. /\ Len(front \o back) = Len(front) + Len(back)
            /\ \A k \in 1..(Len(front) + Len(back)) :
                  (front \o back)[k] = IF k <= Len(front) THEN front[k] ELSE back[k - Len(front)]
        BY <2>1, <2>2, ConcatProperties
      <3>2. Len(jobs) \in Nat /\ i \in Nat /\ Len(front) + Len(back) = Len(jobs) - 1
        BY <1>1, <2>1, <2>2, SMTT(30)
      <3>3. \A k \in i..(Len(jobs) - 1) : k - Len(front) = k - i + 1 /\ ~(k <= Len(front))
        BY <1>1, <2>1
      <3>4. QED
        BY <1>1, <2>1, <2>3, <3>1, <3>2, <3>3
    <2>5. ASSUME NEW k \in i..(Len(jobs) - 1) PROVE jobs'[k] = jobs[k + 1]
      <3>1. k - i + 1 \in 1..(Len(jobs) - i) /\ i + (k - i + 1) = k + 1
        BY <1>1
      <3>2. QED
        BY <2>2, <2>4, <3>1
    <2>6. QED
      BY <2>1, <2>4, <2>5
  <1>3. jobs' \in Seq(Job) /\ jobs' # <<>> /\ Head(jobs') = Head(jobs)
    BY <1>1, <1>2, RemoveType
  <1>4. ASSUME Queued(s) PROVE Queued(s)'
    <2>1. PICK k \in 2..Len(jobs) : Covers(jobs[k], s)
      BY <1>4 DEF Queued
    <2>2. k # i
      BY <2>1 DEF Covers
    <2>3. CASE k < i
      <3>1. k \in 2..Len(jobs') /\ jobs'[k] = jobs[k]
        BY <1>1, <1>2, <2>1, <2>3
      <3>2. QED
        BY <2>1, <3>1 DEF Queued
    <2>4. CASE k > i
      <3>1. k - 1 \in 2..Len(jobs') /\ jobs'[k - 1] = jobs[k]
        BY <1>1, <1>2, <2>1, <2>4
      <3>2. QED
        BY <2>1, <3>1 DEF Queued
    <2>5. QED
      BY <1>1, <2>1, <2>2, <2>3, <2>4
  <1>5. ASSUME Coming(s) PROVE Coming(s)'
    BY <1>3, <1>5 DEF Coming, Writing
  <1>6. QED
    BY <1>4, <1>5


-----------------------------------------------------------------------------
\* The job's statements, one lemma each: what they write is what was read.
LEMMA UpsertTracks ==
    ASSUME SyncInv, Tracking, Upserts
    PROVE  Tracking'
  <1>1. /\ at = "upsert" /\ at' = "vacate" /\ value \in Channels
        /\ table' = [table EXCEPT ![value] = IF table[value] = NoRow THEN NoSlot
                                             ELSE table[value]]
        /\ UNCHANGED <<jobs, slot, value, node, setting>>
    BY DEF Upserts, Goto, outside, SyncInv, JobData
  <1>2. Writing /\ Writing' /\ Known = value /\ Known' = value
    BY <1>1 DEF Writing, Known
  <1>3. ASSUME NEW s \in Slots, Ahead(s) PROVE Ahead(s)'
    BY <1>1, <1>2, <1>3 DEF Ahead, Queued, Coming
  <1>4. ASSUME NEW s \in Slots, Shown(s) PROVE Shown(s)'
    <2>1. \A c \in Channels : table'[c] = s <=> table[c] = s
      BY <1>1, SlotFacts DEF SyncInv, SyncTypeOK
    <2>2. QED
      BY <1>1, <1>4, <2>1 DEF Shown
  <1>5. \A s \in Slots : Followed(s)'
    BY <1>1, <1>2, <1>3, <1>4 DEF Tracking, Followed
  <1>6. ReadIsTrue'
    BY <1>1, <1>2, <1>3 DEF Tracking, ReadIsTrue, SyncInv, JobData
  <1>7. QED
    BY <1>5, <1>6 DEF Tracking

LEMMA VacateTracks ==
    ASSUME SyncInv, Tracking, Vacates
    PROVE  Tracking'
  <1>1. /\ at = "vacate" /\ at' = "occupy" /\ value \in Channels /\ slot \in Slots
        /\ table' = [d \in Channels |-> IF table[d] = slot /\ d # value THEN NoSlot
                                        ELSE table[d]]
        /\ UNCHANGED <<jobs, slot, value, node, setting>>
    BY DEF Vacates, VacateOthers, Goto, outside, SyncInv, JobData
  <1>2. Writing /\ Writing' /\ Known = value /\ Known' = value
    BY <1>1 DEF Writing, Known
  <1>3. ASSUME NEW s \in Slots, Ahead(s) PROVE Ahead(s)'
    BY <1>1, <1>2, <1>3 DEF Ahead, Queued, Coming
  <1>4. ASSUME NEW s \in Slots, Shown(s) PROVE Ahead(s) \/ Shown(s)'
    <2>1. CASE s # slot
      <3>1. \A c \in Channels : table'[c] = s <=> table[c] = s
        BY <1>1, <2>1, SlotFacts
      <3>2. QED
        BY <1>1, <1>4, <3>1 DEF Shown
    <2>2. CASE s = slot /\ node[slot] = value
      <3>1. \A c \in Channels : table'[c] = table[c]
        BY <1>1, <1>4, <2>2 DEF Shown
      <3>2. QED
        BY <1>1, <1>4, <3>1 DEF Shown
    <2>3. CASE s = slot /\ node[slot] # value
      BY <1>2, <2>3 DEF Tracking, ReadIsTrue
    <2>4. QED
      BY <2>1, <2>2, <2>3
  <1>5. \A s \in Slots : Followed(s)'
    BY <1>1, <1>2, <1>3, <1>4 DEF Tracking, Followed
  <1>6. ReadIsTrue'
    BY <1>1, <1>2, <1>3 DEF Tracking, ReadIsTrue
  <1>7. QED
    BY <1>5, <1>6 DEF Tracking

\* A channel moves to the slot it was read from.  If the node has it in another slot too
\* by now, then it was put there since, and that slot will be read again.
LEMMA OccupyTracks ==
    ASSUME SyncInv, Tracking, Occupies
    PROVE  Tracking'
  <1>1. /\ at = "occupy" /\ value \in Channels /\ slot \in Slots /\ jobs # <<>>
        /\ \A d \in Channels : table[d] = slot => d = value
        /\ table' = [table EXCEPT ![value] = slot]
        /\ SlotDone /\ UNCHANGED <<node, setting>>
    BY DEF Occupies, outside, SyncInv, JobData
  <1>2. Writing /\ Known = value /\ table \in [Channels -> Slots \cup {NoSlot, NoRow}]
    BY <1>1 DEF Writing, Known, SyncInv, SyncTypeOK
  <1>3. ASSUME NEW s \in Slots, Ahead(s) PROVE Ahead(s)'
    BY <1>1, <1>2, <1>3, AheadDone
  <1>4. \A d \in Channels : table'[d] = IF d = value THEN slot ELSE table[d]
    BY <1>1, <1>2
  <1>5. ASSUME NEW s \in Slots, s = slot PROVE Ahead(s) \/ Shown(s)'
    <2>1. CASE node[slot] = value
      BY <1>1, <1>4, <1>5, <2>1 DEF Shown
    <2>2. CASE node[slot] # value
      BY <1>2, <1>5, <2>2 DEF Tracking, ReadIsTrue
    <2>3. QED
      BY <2>1, <2>2
  <1>6. ASSUME NEW s \in Slots, s # slot, Shown(s) PROVE Ahead(s) \/ Shown(s)'
    <2>1. CASE node[s] = value
      BY <1>1, <1>2, <1>6, <2>1 DEF Tracking, ReadIsTrue
    <2>2. CASE node[s] # value
      BY <1>1, <1>4, <1>6, <2>2 DEF Shown
    <2>3. QED
      BY <2>1, <2>2
  <1>7. \A s \in Slots : Followed(s)'
    BY <1>3, <1>5, <1>6 DEF Tracking, Followed
  <1>8. ~Writing'
    BY <1>1, SlotDoneType DEF Writing, SyncInv
  <1>9. QED
    BY <1>7, <1>8 DEF Tracking, ReadIsTrue

LEMMA ClearTracks ==
    ASSUME SyncInv, Tracking, Clears
    PROVE  Tracking'
  <1>1. /\ at = "clear" /\ slot \in Slots /\ jobs # <<>>
        /\ table' = [d \in Channels |-> IF table[d] = slot THEN NoSlot ELSE table[d]]
        /\ SlotDone /\ UNCHANGED <<node, setting>>
    BY DEF Clears, outside, SyncInv, JobData
  <1>2. Writing /\ Known = NoChannel
    BY <1>1 DEF Writing, Known
  <1>3. ASSUME NEW s \in Slots, Ahead(s) PROVE Ahead(s)'
    BY <1>1, <1>2, <1>3, AheadDone
  <1>4. ASSUME NEW s \in Slots, s = slot PROVE Ahead(s) \/ Shown(s)'
    <2>1. CASE node[slot] = NoChannel
      <3>1. \A d \in Channels : table'[d] # slot
        BY <1>1, SlotFacts
      <3>2. QED
        BY <1>1, <1>4, <2>1, <3>1, SyncAssumption DEF Shown
    <2>2. CASE node[slot] # NoChannel
      BY <1>2, <1>4, <2>2 DEF Tracking, ReadIsTrue
    <2>3. QED
      BY <2>1, <2>2
  <1>5. ASSUME NEW s \in Slots, s # slot, Shown(s) PROVE Shown(s)'
    <2>1. \A c \in Channels : table'[c] = s <=> table[c] = s
      BY <1>1, <1>5, SlotFacts
    <2>2. QED
      BY <1>1, <1>5, <2>1 DEF Shown
  <1>6. \A s \in Slots : Followed(s)'
    BY <1>3, <1>4, <1>5 DEF Tracking, Followed
  <1>7. ~Writing'
    BY <1>1, SlotDoneType DEF Writing, SyncInv
  <1>8. QED
    BY <1>6, <1>7 DEF Tracking, ReadIsTrue

\* A slot is read: what is read is true at this moment.
LEMMA ReadTracks ==
    ASSUME SyncInv, Tracking, Distinct(node), ReadsSlot
    PROVE  Tracking'
  <1>1. /\ at = "read" /\ slot \in Slots /\ jobs # <<>> /\ setting = NoSlot
        /\ value' = node[slot]
        /\ at' = IF node[slot] = NoChannel THEN "clear" ELSE "upsert"
        /\ UNCHANGED <<jobs, slot, table, node, setting>>
    BY DEF ReadsSlot, outside, SyncInv, JobData
  <1>2. ~Writing /\ Writing' /\ Known' = node[slot]
    BY <1>1 DEF Writing, Known
  <1>3. ASSUME NEW s \in Slots, Ahead(s), s # slot \/ Head(jobs).kind = "list"
        PROVE  Ahead(s)'
    <2>1. slot \in Nat /\ s \in Nat
      BY <1>1 DEF Slots
    <2>2. ASSUME Coming(s) PROVE Coming(s)'
      BY <1>1, <1>2, <1>3, <2>1, <2>2 DEF Coming
    <2>3. QED
      BY <1>1, <1>3, <2>2 DEF Ahead, Queued
  <1>4. ASSUME NEW s \in Slots PROVE Followed(s)'
    <2>1. Ahead(s) \/ Shown(s)
      BY <1>2 DEF Tracking, Followed
    <2>2. Shown(s) => Shown(s)'
      BY <1>1 DEF Shown
    <2>3. QED
      BY <1>1, <1>2, <1>3, <2>1, <2>2 DEF Followed
  <1>5. ReadIsTrue'
    <2>1. \A s \in Slots \ {slot} : node[s] # node[slot] \/ node[slot] = NoChannel
      BY <1>1 DEF Distinct
    <2>2. QED
      BY <1>1, <1>2, <2>1, SyncAssumption DEF ReadIsTrue
  <1>6. QED
    BY <1>4, <1>5 DEF Tracking

\* The job begins, asks how many slots there are, or is over.
LEMMA JobTracks ==
    ASSUME SyncInv, Tracking, Starts \/ Queries \/ Trims
    PROVE  Tracking'
  <1>1. /\ ~Writing /\ ~Writing' /\ jobs # <<>>
        /\ UNCHANGED <<table, node, setting>>
    BY DEF Starts, Queries, Trims, Goto, Ends, outside, Writing, SyncInv, JobData
  <1>2. ASSUME NEW s \in Slots, Ahead(s) PROVE Ahead(s)'
    <2>0. s \in Nat
      BY DEF Slots
    <2>1. CASE Starts
      <3>1. /\ at = "idle" /\ at' = IF Head(jobs).kind = "resync" THEN "read" ELSE "query"
            /\ slot' = Head(jobs).slot /\ jobs' = jobs
        BY <2>1 DEF Starts
      <3>2. Coming(s) => Coming(s)'
        BY <2>0, <3>1 DEF Coming, Writing
      <3>3. QED
        BY <1>1, <1>2, <3>1, <3>2 DEF Ahead, Queued
    <2>2. CASE Queries
      <3>1. at = "query" /\ at' = "read" /\ slot' = slot /\ jobs' = jobs
        BY <2>2 DEF Queries, Goto
      <3>2. Coming(s) => Coming(s)'
        BY <3>1 DEF Coming, Writing
      <3>3. QED
        BY <1>1, <1>2, <3>1, <3>2 DEF Ahead, Queued
    <2>3. CASE Trims
      <3>1. Ends /\ ~Coming(s)
        BY <2>3 DEF Trims, Coming, Writing
      <3>2. QED
        BY <1>1, <1>2, <3>1, AheadEnds DEF Ahead
    <2>4. QED
      BY <2>1, <2>2, <2>3
  <1>3. \A s \in Slots : Followed(s)'
    BY <1>1, <1>2 DEF Tracking, Followed, Shown
  <1>4. QED
    BY <1>1, <1>3 DEF Tracking, ReadIsTrue

-----------------------------------------------------------------------------
\* A job is queued: nothing else changes for the one in progress.
LEMMA SpawnTracks ==
    ASSUME SyncInv, Tracking, NEW j \in Job, Spawn(j),
           UNCHANGED <<node, table, at, slot, value>>,
           \A s \in Slots : setting = s => Covers(j, s) \/ setting' = s
    PROVE  Tracking'
  <1>1. ASSUME NEW s \in Slots, Ahead(s) PROVE Ahead(s)'
    BY <1>1, AheadSpawn DEF Ahead
  <1>2. jobs # <<>> => Head(jobs') = Head(jobs)
    BY DEF SyncInv, SyncTypeOK, Spawn
  <1>3. Writing' = Writing /\ Known' = Known /\ (Writing => jobs # <<>> /\ slot \in Slots)
    BY DEF Writing, Known, SyncInv, JobData
  <1>4. \A s \in Slots : Followed(s)'
    BY <1>1, <1>2, <1>3 DEF Tracking, Followed, Shown
  <1>5. ReadIsTrue'
    BY <1>1, <1>3 DEF Tracking, ReadIsTrue
  <1>6. QED
    BY <1>4, <1>5 DEF Tracking

\* A SET_CHANNEL makes its slot one that will be read again.
LEMMA SetTracks ==
    ASSUME SyncInv, Tracking, NEW t \in Slots, NEW x \in Channels \cup {NoChannel},
           SetChannel(t, x)
    PROVE  Tracking'
  <1>1. /\ setting = NoSlot /\ setting' = t /\ node' = [node EXCEPT ![t] = x]
        /\ UNCHANGED <<table, jobs, at, slot, value>>
    BY DEF SetChannel
  <1>2. \A s \in Slots \ {t} : node'[s] = node[s]
    BY <1>1 DEF SyncInv, SyncTypeOK
  <1>3. Ahead(t)'
    BY <1>1 DEF Ahead
  <1>4. ASSUME NEW s \in Slots, Ahead(s) PROVE Ahead(s)'
    BY <1>1, <1>4, SlotFacts DEF Ahead, Queued, Coming, Writing
  <1>5. /\ Writing' <=> Writing
        /\ Known' = Known /\ (Writing => slot \in Slots)
    BY <1>1 DEF Writing, Known, SyncInv, JobData
  <1>6. \A s \in Slots : Followed(s)'
    BY <1>1, <1>2, <1>3, <1>4, <1>5 DEF Tracking, Followed, Shown
  <1>7. ReadIsTrue'
    BY <1>1, <1>2, <1>3, <1>4, <1>5 DEF Tracking, ReadIsTrue
  <1>8. QED
    BY <1>6, <1>7 DEF Tracking

LEMMA CancelTracks ==
    ASSUME SyncInv, Tracking, NEW i \in DOMAIN jobs, ListCancelled(i)
    PROVE  Tracking'
  <1>1. /\ jobs[i].kind = "list" /\ jobs \in Seq(Job) /\ jobs # <<>>
        /\ UNCHANGED <<node, table, setting>>
    BY DEF ListCancelled, SyncInv, SyncTypeOK
  <1>2. CASE i = 1
    <2>1. Ends /\ Head(jobs).kind = "list" /\ at' = "idle"
      BY <1>1, <1>2 DEF ListCancelled, Ends
    <2>2. ASSUME NEW s \in Slots, Ahead(s) PROVE Ahead(s)'
      BY <1>1, <2>1, <2>2, AheadEnds DEF Ahead, Coming
    <2>3. \A s \in Slots : Followed(s)'
      BY <1>1, <2>1, <2>2 DEF Tracking, Followed, Shown
    <2>4. QED
      BY <2>1, <2>3 DEF Tracking, ReadIsTrue, Writing
  <1>3. CASE i # 1
    <2>1. jobs' = RemoveAt(jobs, i) /\ UNCHANGED <<at, slot, value>>
      BY <1>3 DEF ListCancelled
    <2>2. ASSUME NEW s \in Slots, Ahead(s) PROVE Ahead(s)'
      BY <1>1, <1>3, <2>1, <2>2, AheadRemove DEF Ahead
    <2>3. Head(jobs') = Head(jobs)
      <3>1. i \in 2..Len(jobs)
        BY <1>1, <1>3
      <3>2. /\ SubSeq(jobs, 1, i - 1) \in Seq(Job) /\ SubSeq(jobs, i + 1, Len(jobs)) \in Seq(Job)
            /\ Len(SubSeq(jobs, 1, i - 1)) = i - 1 /\ SubSeq(jobs, 1, i - 1)[1] = jobs[1]
        BY <1>1, <3>1
      <3>3. QED
        BY <1>1, <2>1, <3>1, <3>2 DEF RemoveAt
    <2>4. /\ Writing' <=> Writing
          /\ Known' = Known /\ (Writing => slot \in Slots)
      BY <2>1 DEF Writing, Known, SyncInv, JobData
    <2>5. \A s \in Slots : Followed(s)'
      BY <1>1, <2>1, <2>2, <2>3, <2>4 DEF Tracking, Followed, Shown
    <2>6. ReadIsTrue'
      BY <1>1, <2>1, <2>2, <2>4 DEF Tracking, ReadIsTrue
    <2>7. QED
      BY <2>5, <2>6 DEF Tracking
  <1>4. QED
    BY <1>2, <1>3

\* A new connection has every slot read, whatever was missed before.
LEMMA ConnectTracks == ASSUME SyncInv, Connects PROVE Tracking'
  <1>1. /\ Refresh \in Job /\ Spawn(Refresh) /\ UNCHANGED <<at, slot, setting>>
    BY Jobs DEF Connects, SyncOnConnect
  <1>2. \A s \in Slots : Covers(Refresh, s)
    BY DEF Covers, Refresh
  <1>3. \A s \in Slots : Ahead(s)'
    BY <1>1, <1>2, AheadSpawn DEF Ahead
  <1>4. Writing' => slot' \in Slots
    BY <1>1 DEF Writing, SyncInv, JobData
  <1>5. QED
    BY <1>3, <1>4 DEF Tracking, Followed, ReadIsTrue

-----------------------------------------------------------------------------
\* doubled remembers every time that a channel was in two slots.
LEMMA DistinctStep ==
    ASSUME ~doubled => Distinct(node), [SyncNext]_syncVars, ~doubled'
    PROVE  ~doubled /\ Distinct(node)'
  <1>1. ASSUME NEW s \in Slots, NEW x \in Channels \cup {NoChannel}, Sets(s, x)
        PROVE  ~doubled /\ Distinct(node)'
    <2>1. doubled' = (doubled \/ ~Distinct(node'))
      BY <1>1 DEF Sets, SetChannel, SetElsewhere
    <2>2. ~doubled /\ Distinct(node')
      BY <2>1
    <2>3. QED
      BY <2>2 DEF Distinct
  <1>2. CASE UNCHANGED <<node, doubled>>
    BY <1>2 DEF Distinct
  <1>3. CASE JobStep \/ CommandFails \/ UNCHANGED syncVars
    BY <1>2, <1>3 DEF JobStep, Starts, Queries, ReadsSlot, Unavailable, Upserts, Vacates, Occupies,
                Clears, Trims, CommandFails, outside, syncVars
  <1>4. CASE \/ SetReturns \/ SetFails \/ ListChannels \/ (\E i \in DOMAIN jobs : ListCancelled(i))
             \/ Connects \/ Disconnects \/ Restarts
    BY <1>2, <1>4 DEF SetReturns, SetFails, ListChannels, ListCancelled, Connects, Disconnects,
                      Restarts
  <1>5. QED
    BY <1>1, <1>3, <1>4 DEF SyncNext, Sets

\* Every step that leaves the connection up and nothing to be excused.
LEMMA TrackStep ==
    ASSUME SyncInv, ~doubled => Distinct(node), connected /\ ~excused /\ ~doubled => Tracking,
           [SyncNext]_syncVars, connected', ~excused', ~doubled'
    PROVE  Tracking'
  <1>1. ~doubled /\ Distinct(node)
    BY DistinctStep
  <1>2. CASE Connects
    BY <1>2, ConnectTracks
  <1>3. ASSUME connected, ~excused PROVE Tracking'
    <2>1. Tracking
      BY <1>1, <1>3
    <2>2. CASE JobStep
      BY <1>1, <1>3, <2>1, <2>2, JobTracks, ReadTracks, UpsertTracks, VacateTracks, OccupyTracks,
         ClearTracks DEF JobStep, Unavailable
    <2>3. ASSUME NEW s \in Slots, NEW x \in Channels \cup {NoChannel}, Sets(s, x)
          PROVE  Tracking'
      BY <1>3, <2>1, <2>3, SetTracks DEF Sets, SetElsewhere
    <2>4. CASE SetReturns
      <3>1. setting \in Slots /\ Resync(setting) \in Job
        BY <2>4, Jobs DEF SetReturns, SyncInv, SyncTypeOK
      <3>2. \A s \in Slots : setting = s => Covers(Resync(setting), s)
        BY DEF Covers, Resync
      <3>3. QED
        BY <2>1, <2>4, <3>1, <3>2, SpawnTracks DEF SetReturns
    <2>5. CASE ListChannels
      BY <2>1, <2>5, Jobs, SpawnTracks DEF ListChannels
    <2>6. ASSUME NEW i \in DOMAIN jobs, ListCancelled(i) PROVE Tracking'
      BY <2>1, <2>6, CancelTracks
    <2>7. CASE UNCHANGED syncVars
      BY <2>1, <2>7 DEF syncVars, Tracking, Followed, ReadIsTrue, Ahead, Queued, Coming, Shown,
                        Writing, Known
    <2>8. CASE CommandFails \/ SetFails \/ Connects \/ Disconnects \/ Restarts
      BY <1>3, <2>8 DEF CommandFails, SetFails, Connects, Disconnects, Restarts
    <2>9. QED
      BY <2>2, <2>3, <2>4, <2>5, <2>6, <2>7, <2>8 DEF SyncNext, Sets
  <1>4. ASSUME ~connected \/ excused, ~Connects PROVE FALSE
    <2>1. CASE JobStep \/ CommandFails \/ UNCHANGED syncVars
      BY <1>4, <2>1 DEF JobStep, Starts, Queries, ReadsSlot, Unavailable, Upserts, Vacates,
                        Occupies, Clears, Trims, CommandFails, outside, syncVars
    <2>2. CASE \/ \E s \in Slots, x \in Channels \cup {NoChannel} : Sets(s, x)
               \/ SetReturns \/ SetFails \/ ListChannels
               \/ (\E i \in DOMAIN jobs : ListCancelled(i)) \/ Disconnects \/ Restarts
      BY <1>4, <2>2 DEF Sets, SetChannel, SetElsewhere, SetReturns, SetFails, ListChannels,
                        ListCancelled, Disconnects, Restarts
    <2>3. QED
      BY <1>4, <2>1, <2>2 DEF SyncNext, Sets
  <1>5. QED
    BY <1>2, <1>3, <1>4

LEMMA TrackInvInit == SyncInit => TrackInv
  <1> SUFFICES ASSUME SyncInit PROVE TrackInv
    OBVIOUS
  <1>1. Distinct(node) /\ ~connected
    BY DEF SyncInit
  <1>2. QED
    BY <1>1, SyncInitInv DEF TrackInv

LEMMA TrackInvStep == TrackInv /\ [SyncNext]_syncVars => TrackInv'
  <1> SUFFICES ASSUME TrackInv, [SyncNext]_syncVars PROVE TrackInv'
    OBVIOUS
  <1>1. SyncInv'
    BY SyncStepInv DEF TrackInv
  <1>2. ~doubled' => Distinct(node)'
    BY DistinctStep DEF TrackInv
  <1>3. connected' /\ ~excused' /\ ~doubled' => Tracking'
    BY TrackStep DEF TrackInv
  <1>4. QED
    BY <1>1, <1>2, <1>3 DEF TrackInv

\* Whatever the order in which slots were changed, read and written, once the tracker has
\* nothing left to do the table shows the node (ChannelTracker, assign_slot, clear_slot).
THEOREM TableFollowsNode == SyncSpec => []SyncedWhenQuiet
  <1>1. TrackInv => SyncedWhenQuiet
    <2> SUFFICES ASSUME TrackInv, Quiet, ~excused, ~doubled, NEW c \in Channels
                 PROVE  LET on == {s \in Slots : node[s] = c}
                        IN  IF on = {} THEN table[c] \in {NoSlot, NoRow} ELSE table[c] \in on
      BY DEF SyncedWhenQuiet, ShowsNode
    <2>1. /\ SyncInv /\ Tracking /\ jobs = <<>> /\ setting = NoSlot /\ at = "idle"
          /\ table[c] \in Slots \cup {NoSlot, NoRow}
      BY DEF TrackInv, Quiet, SyncInv, JobData, SyncTypeOK
    <2>2. \A s \in Slots : Shown(s)
      <3>1. ASSUME NEW s \in Slots PROVE ~Ahead(s)
        BY <2>1, SlotFacts DEF Ahead, Queued, Coming
      <3>2. QED
        BY <2>1, <3>1 DEF Tracking, Followed, Writing
    <2>3. QED
      BY <2>1, <2>2 DEF Shown
  <1>2. QED
    BY <1>1, TrackInvInit, TrackInvStep, PTL DEF SyncSpec
=============================================================================
