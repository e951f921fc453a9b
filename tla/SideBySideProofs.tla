--------------------------- MODULE SideBySideProofs ---------------------------
(***************************************************************************)
(* Proofs about the components that keep records or answer on their own,   *)
(* for any constants: the contact rows and migrations, the messages sent,  *)
(* the pings, the contact synchronisation, the packet statistics, the      *)
(* listings and the frame parser.                                          *)
(***************************************************************************)
EXTENDS ContactSync, ContactRows, PacketStats, SentMessages, PingProbe, FrameParser,
        Paging, FiniteSetTheorems, SequenceTheorems, WellFoundedInduction, TLAPS

-----------------------------------------------------------------------------
(* ContactRows: migrations resume wherever they were cut, and last_seen    *)
(* stays honest.                                                           *)

\* A contents with proper rows: what is not there has no data.
Proper(content) ==
  /\ content \in Content
  /\ \A p \in Peers : ~content.rows[p].exists => content.rows[p] = NoRow

RowsTypeOK ==
  /\ now \in Nat /\ crashes \in Nat
  /\ Proper(disk) /\ Proper(work)
  /\ daemon \in {"down", "opening", "up", "stuck"}
  /\ step \in 1..4
  /\ live \in [Peers -> Nat] /\ told \in [Peers -> Nat]

\* How far the script of a migration has taken the connection ahead of the disk.
Progress ==
  /\ disk.version < Latest
  /\ step <= 2 => work = disk
  /\ work.version = IF step <= 3 THEN disk.version ELSE Target
  /\ work.channels <=> disk.version >= 2 \/ step >= 3

\* The rows have been rebuilt: by an earlier process, or in this transaction.
RowsRebuilt ==
  \/ work.version = Latest
  \/ daemon = "opening" /\ step >= 3 /\ Target = Latest

\* What last_seen says is the newest evidence, and none of it is in the future.
Honest(p) ==
  /\ live[p] <= now /\ told[p] <= now
  /\ work.rows[p].exists => work.rows[p].seen = Larger(live[p], told[p])
  /\ ~work.rows[p].exists => live[p] = 0 /\ told[p] = 0

RowsInv ==
  /\ RowsTypeOK
  /\ MigrationsResume
  /\ daemon = "down" => work = disk /\ step = 1
  /\ daemon = "opening" => Progress
  /\ RowsRebuilt => \A p \in Peers : Honest(p)

-----------------------------------------------------------------------------
\* The statements of both scripts, by number, and the transaction they are in.
LEMMA ScriptOrder ==
  ASSUME RowsTypeOK, disk.version < Latest
  PROVE  /\ Target \in 2..3
         /\ Statement = "begin" <=> step = 1
         /\ Statement = "create" <=> step = 2 /\ Target = 2
         /\ Statement = "rebuild" <=> step = 2 /\ Target = 3
         /\ Statement = "stamp" <=> step = 3
         /\ Statement = "commit" <=> step = 4
         /\ InTransaction <=> step >= 2
  <1>1. Target \in 2..3
    BY DEF RowsTypeOK, Proper, Content, Target, Latest
  <1>2. step \in {1, 2, 3, 4}
    BY DEF RowsTypeOK
  <1>3. /\ Script(Target)[1] = "begin" /\ Script(Target)[3] = "stamp"
        /\ Script(Target)[4] = "commit"
        /\ Script(Target)[2] = IF Target = 2 THEN "create" ELSE "rebuild"
    BY <1>1 DEF Script
  <1>4. InTransaction <=> step >= 2
    BY <1>2, <1>3 DEF InTransaction
  <1>5. QED
    BY <1>1, <1>2, <1>3, <1>4 DEF Statement

\* Times of two clocks: the credible ones are not in the future.
LEMMA CredibleTimes ==
  ASSUME now \in Nat, NEW a \in Nat, NEW m \in Nat
  PROVE  /\ ReportedLastHeard(a, m) \in Nat
         /\ ReportedLastHeard(a, m) <= now
  BY DEF ReportedLastHeard, Credible, Larger

LEMMA RowsInitInv == ContactRowsInit => RowsInv
  <1> SUFFICES ASSUME ContactRowsInit PROVE RowsInv
    OBVIOUS
  <1>1. PICK v \in 1..Latest - 1, r \in [Peers -> OldRows] :
          disk = [version |-> v, channels |-> v > 1, rows |-> r]
    BY DEF ContactRowsInit
  <1>2. \A q \in OldRows : q \in Row /\ (~q.exists => q = NoRow)
    <2> SUFFICES ASSUME NEW q \in OldRows PROVE q \in Row /\ (~q.exists => q = NoRow)
      OBVIOUS
    <2>1. CASE q = NoRow
      BY <2>1 DEF NoRow, Row
    <2>2. CASE q # NoRow
      <3>1. PICK s \in {0, now}, a \in {0, now + 1}, m \in {0, now} :
              q = [exists |-> TRUE, seen |-> s, advert |-> a, mod |-> m]
        BY <2>2 DEF OldRows
      <3>2. s \in Nat /\ a \in Nat /\ m \in Nat
        BY DEF ContactRowsInit
      <3>3. QED
        BY <3>1, <3>2 DEF Row
    <2>3. QED
      BY <2>1, <2>2
  <1>3. Proper(disk)
    BY <1>1, <1>2 DEF Proper, Content, Latest
  <1>4. /\ now = 1 /\ work = disk /\ daemon = "down" /\ step = 1 /\ crashes = 0
        /\ live = [p \in Peers |-> 0] /\ told = [p \in Peers |-> 0]
    BY DEF ContactRowsInit
  <1>5. RowsTypeOK
    <2>1. live \in [Peers -> Nat] /\ told \in [Peers -> Nat]
      BY <1>4
    <2>2. Proper(disk) /\ Proper(work)
      BY <1>3, <1>4
    <2>3. QED
      BY <1>4, <2>1, <2>2 DEF RowsTypeOK
  <1>6. MigrationsResume
    <2>1. v \in {1, 2} /\ disk.version = v
      BY <1>1 DEF Latest
    <2>2. disk.channels <=> disk.version >= 2
      <3>1. CASE v = 1
        <4>1. (v > 1) = FALSE
          BY <3>1
        <4>2. disk.channels = (v > 1)
          BY <1>1, Zenon
        <4>3. disk.channels = FALSE
          BY <4>1, <4>2, Zenon
        <4>4. QED
          BY <2>1, <3>1, <4>3
      <3>2. CASE v = 2
        <4>1. (v > 1) = TRUE
          BY <3>2
        <4>2. disk.channels = (v > 1)
          BY <1>1, Zenon
        <4>3. disk.channels = TRUE
          BY <4>1, <4>2, Zenon
        <4>4. QED
          BY <2>1, <3>2, <4>3
      <3>3. QED
        BY <2>1, <3>1, <3>2
    <2>3. QED
      BY <1>4, <2>2 DEF MigrationsResume
  <1>7. ~RowsRebuilt
    BY <1>1, <1>4 DEF RowsRebuilt, Latest
  <1>8. QED
    BY <1>4, <1>5, <1>6, <1>7 DEF RowsInv

-----------------------------------------------------------------------------
(* open and _migrate.                                                      *)

LEMMA OpenKeeps == RowsInv /\ OpenDatabase => RowsInv'
  <1> SUFFICES ASSUME RowsInv, OpenDatabase PROVE RowsInv'
    OBVIOUS
  <1>1. /\ daemon = "down" /\ work = disk /\ step = 1 /\ step' = 1
        /\ daemon' = IF disk.version = Latest THEN "up" ELSE "opening"
        /\ UNCHANGED <<now, disk, work, crashes, live, told>>
    BY DEF RowsInv, OpenDatabase
  <1>2. RowsTypeOK'
    BY <1>1 DEF RowsInv, RowsTypeOK, Proper
  <1>3. MigrationsResume'
    BY <1>1 DEF RowsInv, MigrationsResume
  <1>4. daemon' = "opening" => Progress'
    BY <1>1 DEF RowsInv, RowsTypeOK, Proper, Content, MigrationsResume, Progress, Latest
  <1>5. RowsRebuilt' => \A p \in Peers : Honest(p)'
    BY <1>1 DEF RowsInv, RowsRebuilt, Honest
  <1>6. QED
    BY <1>1, <1>2, <1>3, <1>4, <1>5 DEF RowsInv

LEMMA RowsBeginKeeps == RowsInv /\ Begin => RowsInv'
  <1> SUFFICES ASSUME RowsInv, Begin PROVE RowsInv'
    OBVIOUS
  <1>1. /\ daemon = "opening" /\ Progress /\ disk.version < Latest
        /\ UNCHANGED <<now, disk, work, daemon, crashes, live, told>>
    BY DEF RowsInv, Begin, Progress
  <1>2. step = 1 /\ step' = 2
    BY <1>1, ScriptOrder DEF RowsInv, Begin
  <1>3. RowsTypeOK'
    BY <1>1, <1>2 DEF RowsInv, RowsTypeOK, Proper
  <1>4. MigrationsResume'
    BY <1>1 DEF RowsInv, MigrationsResume
  <1>5. Progress'
    BY <1>1, <1>2 DEF Progress, Target
  <1>6. RowsRebuilt' => \A p \in Peers : Honest(p)'
    BY <1>1, <1>2 DEF RowsInv, RowsRebuilt, Honest
  <1>7. QED
    BY <1>1, <1>3, <1>4, <1>5, <1>6 DEF RowsInv

LEMMA CreateKeeps == RowsInv /\ CreateChannels => RowsInv'
  <1> SUFFICES ASSUME RowsInv, CreateChannels PROVE RowsInv'
    OBVIOUS
  <1>1. /\ daemon = "opening" /\ Progress /\ disk.version < Latest
        /\ UNCHANGED <<live, told>>
    BY DEF RowsInv, CreateChannels, Progress
  <1>2. step = 2 /\ Target = 2 /\ InTransaction
    BY <1>1, ScriptOrder DEF RowsInv, CreateChannels
  <1>3. work = disk /\ disk.version = 1 /\ ~work.channels
    BY <1>1, <1>2 DEF Progress, Target, RowsInv, RowsTypeOK, Proper, Content
  <1>4. /\ work' = [work EXCEPT !.channels = TRUE] /\ step' = 3
        /\ UNCHANGED <<now, disk, daemon, crashes>>
    BY <1>2, <1>3 DEF CreateChannels, Execute
  <1>5. /\ work'.channels /\ work'.version = 1 /\ work'.rows = work.rows
        /\ Proper(work')
    BY <1>3, <1>4 DEF RowsInv, RowsTypeOK, Proper, Content
  <1>6. RowsTypeOK'
    BY <1>1, <1>4, <1>5 DEF RowsInv, RowsTypeOK, Proper
  <1>7. MigrationsResume'
    BY <1>1, <1>4 DEF RowsInv, MigrationsResume
  <1>8. Progress'
    BY <1>1, <1>3, <1>4, <1>5 DEF Progress, Target
  <1>9. ~RowsRebuilt'
    BY <1>3, <1>4, <1>5 DEF RowsRebuilt, Target, Latest
  <1>10. QED
    BY <1>1, <1>4, <1>6, <1>7, <1>8, <1>9 DEF RowsInv

\* The rebuilt rows say what the node reported; nothing was heard live since.
LEMMA RebuildKeeps == RowsInv /\ RebuildLastSeen => RowsInv'
  <1> SUFFICES ASSUME RowsInv, RebuildLastSeen PROVE RowsInv'
    OBVIOUS
  <1>1. daemon = "opening" /\ Progress /\ disk.version < Latest
    BY DEF RowsInv, RebuildLastSeen, Progress
  <1>2. step = 2 /\ Target = 3 /\ InTransaction
    BY <1>1, ScriptOrder DEF RowsInv, RebuildLastSeen
  <1> DEFINE rebuilt == [p \in Peers |->
        IF work.rows[p].exists THEN [work.rows[p] EXCEPT !.seen = Rebuilt(work.rows[p])]
        ELSE NoRow]
  <1>3. /\ work' = [work EXCEPT !.rows = rebuilt] /\ step' = 3
        /\ UNCHANGED <<now, disk, daemon, crashes>>
        /\ live' = [p \in Peers |-> 0]
        /\ told' = [p \in Peers |->
                      ReportedLastHeard(work.rows[p].advert, work.rows[p].mod)]
    BY <1>2 DEF RebuildLastSeen, Execute
  <1>4. Proper(work) /\ now \in Nat /\ work = disk /\ disk.version = 2 /\ work.channels
    BY <1>1, <1>2 DEF RowsInv, RowsTypeOK, Progress, Target, Proper, Content
  <1>5. ASSUME NEW p \in Peers
        PROVE  /\ work.rows[p] \in Row
               /\ told'[p] \in Nat /\ told'[p] <= now
               /\ ~work.rows[p].exists => told'[p] = 0
               /\ rebuilt[p] \in Row
               /\ rebuilt[p].exists = work.rows[p].exists
               /\ rebuilt[p].exists => rebuilt[p].seen = told'[p]
               /\ ~rebuilt[p].exists => rebuilt[p] = NoRow
    <2>1. work.rows[p] \in Row
      BY <1>4 DEF Proper, Content
    <2>2. told'[p] = Rebuilt(work.rows[p])
      BY <1>3 DEF Rebuilt, ReportedLastHeard, Credible
    <2>3. told'[p] \in Nat /\ told'[p] <= now
      BY <1>3, <1>4, <2>1, CredibleTimes DEF Row
    <2>4. ~work.rows[p].exists => told'[p] = 0
      BY <1>4, <2>2 DEF Proper, NoRow, Rebuilt, Larger
    <2>5. QED
      BY <2>1, <2>2, <2>3, <2>4 DEF Row, NoRow
  <1>6. /\ work'.rows = rebuilt /\ work'.version = 2 /\ work'.channels
        /\ Proper(work')
    <2>1. rebuilt \in [Peers -> Row]
      BY <1>5
    <2>2. QED
      BY <1>3, <1>4, <1>5, <2>1 DEF Proper, Content
  <1>7. RowsTypeOK'
    <2>1. live' \in [Peers -> Nat] /\ told' \in [Peers -> Nat]
      BY <1>3, <1>5
    <2>2. QED
      BY <1>1, <1>3, <1>6, <2>1 DEF RowsInv, RowsTypeOK, Proper
  <1>8. MigrationsResume'
    BY <1>1, <1>3 DEF RowsInv, MigrationsResume
  <1>9. Progress'
    BY <1>1, <1>3, <1>4, <1>6 DEF Progress, Target
  <1>10. ASSUME NEW p \in Peers PROVE Honest(p)'
    <2>1. live'[p] = 0 /\ told'[p] \in Nat /\ told'[p] <= now' /\ 0 <= now'
      <3>1. live'[p] = 0 /\ now' = now /\ now \in Nat
        BY <1>3, <1>4
      <3>2. told'[p] \in Nat /\ told'[p] <= now
        BY <1>5
      <3>3. QED
        BY <3>1, <3>2
    <2>2. work'.rows[p] = rebuilt[p]
      BY <1>6
    <2>3. /\ work'.rows[p].exists => work'.rows[p].seen = told'[p]
          /\ ~work'.rows[p].exists => told'[p] = 0
      <3>1. /\ rebuilt[p].exists = work.rows[p].exists
            /\ rebuilt[p].exists => rebuilt[p].seen = told'[p]
            /\ ~work.rows[p].exists => told'[p] = 0
        BY <1>5
      <3>2. HIDE DEF rebuilt
      <3>3. QED
        BY <2>2, <3>1
    <2>4. Larger(live'[p], told'[p]) = told'[p]
      BY <2>1 DEF Larger
    <2>5. QED
      BY <2>1, <2>3, <2>4 DEF Honest
  <1>11. QED
    BY <1>1, <1>3, <1>7, <1>8, <1>9, <1>10 DEF RowsInv

LEMMA StampKeeps == RowsInv /\ StampVersion => RowsInv'
  <1> SUFFICES ASSUME RowsInv, StampVersion PROVE RowsInv'
    OBVIOUS
  <1>1. daemon = "opening" /\ Progress /\ disk.version < Latest
    BY DEF RowsInv, StampVersion, Progress
  <1>2. step = 3 /\ Target \in 2..3 /\ InTransaction
    BY <1>1, ScriptOrder DEF RowsInv, StampVersion
  <1>3. /\ work' = [work EXCEPT !.version = Target] /\ step' = 4
        /\ UNCHANGED <<now, disk, daemon, crashes, live, told>>
    BY <1>2 DEF StampVersion
  <1>4. /\ work'.version = Target /\ work'.channels = work.channels
        /\ work'.rows = work.rows /\ Proper(work')
    BY <1>2, <1>3 DEF RowsInv, RowsTypeOK, Proper, Content, Latest
  <1>5. RowsTypeOK'
    BY <1>1, <1>3, <1>4 DEF RowsInv, RowsTypeOK, Proper
  <1>6. MigrationsResume'
    BY <1>1, <1>3 DEF RowsInv, MigrationsResume
  <1>7. Progress'
    BY <1>1, <1>2, <1>3, <1>4 DEF Progress, Target
  <1>8. RowsRebuilt' => \A p \in Peers : Honest(p)'
    <2>1. RowsRebuilt' => RowsRebuilt
      BY <1>1, <1>2, <1>3, <1>4 DEF RowsRebuilt, Target
    <2>2. QED
      BY <1>3, <1>4, <2>1 DEF RowsInv, Honest
  <1>9. QED
    BY <1>1, <1>3, <1>5, <1>6, <1>7, <1>8 DEF RowsInv

LEMMA CommitKeeps == RowsInv /\ CommitScript => RowsInv'
  <1> SUFFICES ASSUME RowsInv, CommitScript PROVE RowsInv'
    OBVIOUS
  <1>1. daemon = "opening" /\ Progress /\ disk.version < Latest
    BY DEF RowsInv, CommitScript, Progress
  <1>2. step = 4 /\ Target \in 2..3
    BY <1>1, ScriptOrder DEF RowsInv, CommitScript
  <1>3. /\ disk' = work /\ step' = 1 /\ work' = work
        /\ daemon' = IF Target = Latest THEN "up" ELSE "opening"
        /\ UNCHANGED <<now, crashes, live, told>>
    BY DEF CommitScript
  <1>4. work.version = Target /\ work.channels
    BY <1>1, <1>2 DEF Progress
  <1>5. RowsTypeOK'
    BY <1>3 DEF RowsInv, RowsTypeOK, Proper
  <1>6. MigrationsResume'
    BY <1>2, <1>3, <1>4 DEF MigrationsResume, Latest
  <1>7. daemon' = "opening" => Progress'
    BY <1>2, <1>3, <1>4 DEF Progress, Latest
  <1>8. RowsRebuilt' => \A p \in Peers : Honest(p)'
    <2>1. RowsRebuilt' => RowsRebuilt
      BY <1>1, <1>2, <1>3, <1>4 DEF RowsRebuilt
    <2>2. QED
      BY <1>3, <2>1 DEF RowsInv, Honest
  <1>9. QED
    BY <1>3, <1>5, <1>6, <1>7, <1>8 DEF RowsInv

-----------------------------------------------------------------------------
(* ContactStore, crashes and the clock.                                    *)

\* A statement on one row of a database in use, with the evidence it stands for.
LEMMA RowsStoreKeeps ==
  ASSUME RowsInv, daemon = "up", NEW p \in Peers, NEW r \in Row, Store(p, r), r.exists,
         live' \in [Peers -> Nat], told' \in [Peers -> Nat],
         \A q \in Peers \ {p} : live'[q] = live[q] /\ told'[q] = told[q],
         live'[p] <= now, told'[p] <= now, r.seen = Larger(live'[p], told'[p])
  PROVE  RowsInv'
  <1>1. /\ work' = [work EXCEPT !.rows[p] = r] /\ disk' = work'
        /\ UNCHANGED <<now, daemon, step, crashes>>
    BY DEF Store
  <1>2. Proper(work) /\ disk = work /\ work.version = Latest
    BY DEF RowsInv, RowsTypeOK, MigrationsResume
  <1>3. /\ work'.version = Latest /\ work'.channels = work.channels
        /\ work'.rows = [work.rows EXCEPT ![p] = r]
        /\ work'.rows[p] = r
        /\ \A q \in Peers \ {p} : work'.rows[q] = work.rows[q]
    BY <1>1, <1>2 DEF Proper, Content
  <1>4. Proper(work')
    BY <1>1, <1>2, <1>3 DEF Proper, Content
  <1>5. RowsTypeOK'
    BY <1>1, <1>4 DEF RowsInv, RowsTypeOK, Proper
  <1>6. MigrationsResume'
    BY <1>1, <1>2, <1>3 DEF RowsInv, MigrationsResume
  <1>7. ASSUME NEW q \in Peers PROVE Honest(q)'
    <2>1. Honest(q)
      BY <1>2 DEF RowsInv, RowsRebuilt
    <2>2. CASE q = p
      BY <1>1, <1>3, <2>2 DEF Honest
    <2>3. CASE q # p
      BY <1>1, <1>3, <2>1, <2>3 DEF Honest
    <2>4. QED
      BY <2>2, <2>3
  <1>8. QED
    BY <1>1, <1>5, <1>6, <1>7 DEF RowsInv

LEMMA UpsertKeeps ==
  ASSUME RowsInv, NEW p \in Peers, NEW a \in Nat, NEW m \in Nat, NEW heard \in BOOLEAN,
         UpsertContact(p, a, m, heard)
  PROVE  RowsInv'
  <1> DEFINE old == work.rows[p]
             computed == IF heard THEN now ELSE ReportedLastHeard(a, m)
             r == [exists |-> TRUE, seen |-> SeenAfter(old, computed), advert |-> a, mod |-> m]
  <1>1. /\ daemon = "up" /\ Store(p, r)
        /\ live' = IF heard THEN [live EXCEPT ![p] = now] ELSE live
        /\ told' = IF heard THEN told
                   ELSE [told EXCEPT ![p] = Larger(told[p], ReportedLastHeard(a, m))]
    BY DEF UpsertContact
  <1>2. /\ now \in Nat /\ live \in [Peers -> Nat] /\ told \in [Peers -> Nat]
        /\ old \in Row /\ Honest(p)
    BY <1>1 DEF RowsInv, RowsTypeOK, Proper, Content, MigrationsResume, RowsRebuilt
  <1>3. /\ ReportedLastHeard(a, m) \in Nat /\ ReportedLastHeard(a, m) <= now
        /\ live[p] \in Nat /\ told[p] \in Nat /\ old.seen \in Nat /\ old.exists \in BOOLEAN
    BY <1>2, CredibleTimes DEF Row
  <1>4. /\ live' \in [Peers -> Nat] /\ told' \in [Peers -> Nat]
        /\ \A q \in Peers \ {p} : live'[q] = live[q] /\ told'[q] = told[q]
    BY <1>1, <1>2, <1>3 DEF Larger
  <1>5. /\ live'[p] <= now /\ told'[p] <= now
        /\ r.seen = Larger(live'[p], told'[p])
    <2>1. CASE heard
      BY <1>1, <1>2, <1>3, <2>1 DEF Larger, SeenAfter, Honest
    <2>2. CASE ~heard
      BY <1>1, <1>2, <1>3, <2>2 DEF Larger, SeenAfter, Honest
    <2>3. QED
      BY <2>1, <2>2
  <1>6. r \in Row /\ r.exists
    BY <1>2, <1>3 DEF Row, SeenAfter, Larger
  <1>7. QED
    BY <1>1, <1>4, <1>5, <1>6, RowsStoreKeeps

LEMMA TouchKeeps == ASSUME RowsInv, NEW p \in Peers, Touch(p) PROVE RowsInv'
  <1> DEFINE r == [work.rows[p] EXCEPT !.seen = now]
  <1>1. CASE work.rows[p].exists
    <2>1. /\ daemon = "up" /\ Store(p, r)
          /\ live' = [live EXCEPT ![p] = now] /\ told' = told
      BY <1>1 DEF Touch
    <2>2. /\ now \in Nat /\ live \in [Peers -> Nat] /\ told \in [Peers -> Nat]
          /\ work.rows[p] \in Row /\ Honest(p)
      BY <2>1 DEF RowsInv, RowsTypeOK, Proper, Content, MigrationsResume, RowsRebuilt
    <2>3. r \in Row /\ r.exists /\ r.seen = now
      BY <1>1, <2>2 DEF Row
    <2>4. r.seen = Larger(live'[p], told'[p]) /\ live'[p] = now /\ told'[p] <= now
      BY <2>1, <2>2, <2>3 DEF Larger, Honest
    <2>5. /\ live' \in [Peers -> Nat] /\ told' \in [Peers -> Nat]
          /\ \A q \in Peers \ {p} : live'[q] = live[q] /\ told'[q] = told[q]
      BY <2>1, <2>2
    <2>6. live'[p] <= now /\ told'[p] <= now
      BY <2>2, <2>4
    <2> HIDE DEF r
    <2>7. QED
      BY <2>1, <2>3, <2>4, <2>5, <2>6, RowsStoreKeeps
  <1>2. CASE ~work.rows[p].exists
    BY <1>2 DEF Touch, RowsInv, RowsTypeOK, Proper, MigrationsResume, Progress, Target,
                RowsRebuilt, Honest
  <1>3. QED
    BY <1>1, <1>2

LEMMA RowsCrashKeeps == RowsInv /\ CrashDatabase => RowsInv'
  <1> SUFFICES ASSUME RowsInv, CrashDatabase PROVE RowsInv'
    OBVIOUS
  <1>1. /\ daemon' = "down" /\ work' = disk /\ step' = 1
        /\ crashes' = crashes + 1 /\ UNCHANGED <<now, disk, live, told>>
    BY DEF CrashDatabase
  <1>2. RowsTypeOK'
    BY <1>1 DEF RowsInv, RowsTypeOK, Proper
  <1>3. MigrationsResume'
    BY <1>1 DEF RowsInv, MigrationsResume
  <1>4. RowsRebuilt' => \A p \in Peers : Honest(p)'
    <2>1. disk.version = Latest => work = disk
      BY DEF RowsInv, RowsTypeOK, MigrationsResume, Progress, Latest
    <2>2. QED
      BY <1>1, <2>1 DEF RowsInv, RowsRebuilt, Honest
  <1>5. QED
    BY <1>1, <1>2, <1>3, <1>4 DEF RowsInv

LEMMA TickKeeps == RowsInv /\ TickHost => RowsInv'
  <1> SUFFICES ASSUME RowsInv, TickHost PROVE RowsInv'
    OBVIOUS
  <1>1. now' = now + 1 /\ UNCHANGED <<disk, work, daemon, step, crashes, live, told>>
    BY DEF TickHost
  <1>2. RowsTypeOK'
    BY <1>1 DEF RowsInv, RowsTypeOK, Proper
  <1>3. MigrationsResume' /\ (daemon' = "opening" => Progress') /\ (RowsRebuilt' => RowsRebuilt)
    BY <1>1 DEF RowsInv, MigrationsResume, Progress, Target, RowsRebuilt
  <1>4. ASSUME NEW p \in Peers, Honest(p) PROVE Honest(p)'
    BY <1>1, <1>4 DEF Honest, RowsInv, RowsTypeOK
  <1>5. QED
    BY <1>1, <1>2, <1>3, <1>4 DEF RowsInv

LEMMA RowsStep == RowsInv /\ [ContactRowsNext]_rowVars => RowsInv'
  <1> SUFFICES ASSUME RowsInv, [ContactRowsNext]_rowVars PROVE RowsInv'
    OBVIOUS
  <1>1. ASSUME NEW p \in Peers, NEW a \in 0..MaxNow + 1, NEW m \in 0..MaxNow + 1,
               NEW heard \in BOOLEAN, UpsertContact(p, a, m, heard)
        PROVE  RowsInv'
    BY <1>1, UpsertKeeps, RowsAssumption
  <1>2. CASE UNCHANGED rowVars
    BY <1>2 DEF rowVars, RowsInv, RowsTypeOK, Proper, MigrationsResume, Progress, Target,
                RowsRebuilt, Honest
  <1>3. QED
    BY <1>1, <1>2, OpenKeeps, RowsBeginKeeps, CreateKeeps, RebuildKeeps, StampKeeps, CommitKeeps,
       TouchKeeps, RowsCrashKeeps, TickKeeps DEF ContactRowsNext

-----------------------------------------------------------------------------
\* From version 3 on, last_seen is exactly the newest credible evidence: what was heard
\* since the rebuilding statement of that migration, or a reported time that was not in
\* the future; it is never in the future itself, across crashes, syncs and adverts
\* (upsert, touch).  The rebuild may rewind it: older live times are not in the rows.
THEOREM HonestLastSeen == ContactRowsSpec => []SeenHonest
  <1>1. RowsInv => SeenHonest
    BY DEF RowsInv, RowsTypeOK, RowsRebuilt, Honest, SeenHonest, Larger
  <1>2. QED
    BY RowsInitInv, RowsStep, <1>1, PTL DEF ContactRowsSpec

\* Wherever a crash cuts a migration, the next open resumes it (_migrate).
THEOREM ResumedMigrations == ContactRowsSpec => []MigrationsResume
  <1>1. RowsInv => MigrationsResume
    BY DEF RowsInv
  <1>2. QED
    BY RowsInitInv, RowsStep, <1>1, PTL DEF ContactRowsSpec

-----------------------------------------------------------------------------
(* SentMessages: a row is marked for its own message's ACK, and no ACK is  *)
(* lost without a reason.                                                  *)

Steps == {"new", "logged", "sending", "sent", "done", "failed"}
Codes == Sends \union {NoCode}
SentRowSet == [send : Sends, code : Codes, acked : BOOLEAN]

SentTypeOK ==
  /\ send \in [Sends -> [at : Steps, code : Codes]]
  /\ replies \in Seq(Sends)
  /\ sentRows \subseteq SentRowSet
  /\ peerAcks \subseteq Sends /\ acksComing \subseteq peerAcks

\* One command at a time; only the daemon's own sends have a code to store.
OneSending ==
  /\ \A c, d \in Sends : At(c, "sending") /\ At(d, "sending") => c = d
  /\ \A c \in Sends : At(c, "sent") => c \in DaemonSends

\* Until a send is given up, the only reply under way is that of the send that waits for
\* it, and so every message is stored under its own code.
Orderly ==
  givenUp = {} =>
    /\ replies = <<>> \/ \E c \in Sends \intersect executed : replies = <<c>> /\ At(c, "sending")
    /\ \A c \in Sends : At(c, "sent") \/ At(c, "failed") => c \in executed
    /\ \A c \in Sends : At(c, "sent") => send[c].code = c
    /\ \A r \in sentRows : r.send \in DaemonSends => r.code = r.send

RowFine(r) ==
  /\ r.acked => r.code \in peerAcks
  /\ r.send \in ProxySends => r.code = NoCode
  /\ r.send \in DaemonSends => At(r.send, "done")
  /\ r.send \in DaemonSends \intersect peerAcks /\ ~r.acked /\ r.code = r.send =>
       r.send \in acksComing \union early

\* An ACK that was handled in time found the row: the call was over.
Handled ==
  \A c \in DaemonSends \intersect peerAcks : c \in acksComing \union early \/ At(c, "done")

SentInv ==
  /\ SentTypeOK /\ OneSending /\ Orderly
  /\ \A r \in sentRows : RowFine(r)
  /\ Handled

-----------------------------------------------------------------------------
LEMMA SentInitInv == SentInit => SentInv
  <1> SUFFICES ASSUME SentInit PROVE SentInv
    OBVIOUS
  <1>1. /\ send = [c \in Sends |-> NotSent] /\ executed = {} /\ replies = <<>>
        /\ peerAcks = {} /\ acksComing = {} /\ sentRows = {}
    BY DEF SentInit
  <1>2. \A c \in Sends : send[c] = NotSent /\ send[c].at = "new"
    BY <1>1 DEF NotSent
  <1>3. SentTypeOK
    <2>1. NotSent \in [at : Steps, code : Codes]
      BY DEF NotSent, Steps, Codes
    <2>2. replies \in Seq(Sends)
      BY <1>1
    <2>3. QED
      BY <1>1, <2>1, <2>2 DEF SentTypeOK
  <1>4. OneSending /\ Orderly /\ Handled
    BY <1>1, <1>2 DEF OneSending, Orderly, Handled, At
  <1>5. QED
    BY <1>1, <1>3, <1>4 DEF SentInv

\* What moving one call does to the table of calls.
LEMMA Moving ==
  ASSUME SentTypeOK, NEW c \in Sends, NEW where \in Steps, MovesTo(c, where)
  PROVE  /\ send' \in [Sends -> [at : Steps, code : Codes]]
         /\ send'[c].at = where /\ send'[c].code = send[c].code
         /\ \A d \in Sends \ {c} : send'[d] = send[d]
  BY DEF SentTypeOK, MovesTo

\* A row stays as it is while the calls and the ACKs of daemon sends only advance.
LEMMA RowsStay ==
  ASSUME SentInv,
         \A c \in Sends : At(c, "done") => At(c, "done")',
         acksComing \union early \subseteq acksComing' \union early',
         UNCHANGED <<sentRows, peerAcks>>
  PROVE  (\A r \in sentRows : RowFine(r))' /\ Handled'
  <1>1. ASSUME NEW r \in sentRows PROVE RowFine(r)'
    BY DEF SentInv, RowFine, Sends
  <1>2. Handled'
    BY DEF SentInv, Handled, Sends
  <1>3. QED
    BY <1>1, <1>2

-----------------------------------------------------------------------------
(* The calls.                                                              *)

LEMMA SentBeginKeeps == ASSUME SentInv, NEW c \in Sends, BeginsSend(c) PROVE SentInv'
  <1>1. /\ At(c, "new") \/ At(c, "logged")
        /\ SlotIsFree /\ MovesTo(c, "sending")
        /\ UNCHANGED <<executed, replies, peerAcks, acksComing, sentRows, givenUp, early>>
    BY DEF BeginsSend
  <1>2. /\ send' \in [Sends -> [at : Steps, code : Codes]]
        /\ send'[c].at = "sending"
        /\ \A d \in Sends \ {c} : send'[d] = send[d]
    BY <1>1, Moving DEF SentInv, Steps
  <1>3. SentTypeOK'
    BY <1>1, <1>2 DEF SentInv, SentTypeOK
  <1>4. OneSending'
    BY <1>1, <1>2 DEF SentInv, OneSending, SlotIsFree, At
  <1>5. Orderly'
    BY <1>1, <1>2 DEF SentInv, Orderly, SlotIsFree, At
  <1>6. \A d \in Sends : At(d, "done") => At(d, "done")'
    BY <1>1, <1>2 DEF At
  <1>7. QED
    BY <1>1, <1>3, <1>4, <1>5, <1>6, RowsStay DEF SentInv

LEMMA NodeKeeps == ASSUME SentInv, NEW c \in Sends, NodeSends(c) PROVE SentInv'
  <1>1. /\ At(c, "sending") \/ At(c, "failed")
        /\ c \notin executed /\ executed' = executed \union {c} /\ replies' = Append(replies, c)
        /\ UNCHANGED <<send, peerAcks, acksComing, sentRows, givenUp, early>>
    BY DEF NodeSends, At
  <1>2. SentTypeOK'
    BY <1>1 DEF SentInv, SentTypeOK
  <1>3. OneSending'
    BY <1>1 DEF SentInv, OneSending, At
  <1>4. Orderly'
    <2> SUFFICES ASSUME givenUp = {} PROVE Orderly'
      BY <1>1 DEF Orderly
    <2>1. At(c, "sending")
      BY <1>1 DEF SentInv, Orderly
    <2>2. replies = <<>>
      <3>1. ASSUME NEW d \in Sends \intersect executed, replies = <<d>>, At(d, "sending")
            PROVE  FALSE
        BY <1>1, <2>1, <3>1 DEF SentInv, OneSending
      <3>2. QED
        BY <3>1 DEF SentInv, Orderly
    <2>3. replies' = <<c>> /\ c \in executed' /\ At(c, "sending")'
      BY <1>1, <2>1, <2>2 DEF At
    <2>4. QED
      BY <1>1, <2>3 DEF SentInv, Orderly, At
  <1>5. QED
    BY <1>1, <1>2, <1>3, <1>4, RowsStay DEF SentInv, At

\* The code of the oldest reply is taken for that of the send in the slot.
LEMMA ReplyKeeps == SentInv /\ SendReplyArrives => SentInv'
  <1> SUFFICES ASSUME SentInv, SendReplyArrives PROVE SentInv'
    OBVIOUS
  <1>1. /\ replies # <<>> /\ replies' = Tail(replies)
        /\ send' = [c \in Sends |->
             IF ~At(c, "sending") THEN send[c]
             ELSE IF c \in DaemonSends THEN [at |-> "sent", code |-> Head(replies)]
             ELSE [at |-> "done", code |-> NoCode]]
        /\ UNCHANGED <<executed, peerAcks, acksComing, sentRows, givenUp, early>>
    BY DEF SendReplyArrives
  <1>2. /\ Head(replies) \in Sends /\ replies' \in Seq(Sends)
        /\ send \in [Sends -> [at : Steps, code : Codes]]
    BY <1>1, HeadTailProperties DEF SentInv, SentTypeOK
  <1>3. ASSUME NEW c \in Sends
        PROVE  /\ ~At(c, "sending") => send'[c] = send[c]
               /\ At(c, "sending") /\ c \in DaemonSends =>
                    send'[c].at = "sent" /\ send'[c].code = Head(replies)
               /\ At(c, "sending") /\ c \notin DaemonSends => send'[c].at = "done"
               /\ send'[c] \in [at : Steps, code : Codes]
    BY <1>1, <1>2 DEF Steps, Codes
  <1>4. SentTypeOK'
    <2>1. send' \in [Sends -> [at : Steps, code : Codes]]
      BY <1>1, <1>3
    <2>2. QED
      BY <1>1, <1>2, <2>1 DEF SentInv, SentTypeOK
  <1>5. \A c \in Sends : ~At(c, "sending")'
    BY <1>3 DEF At
  <1>6. OneSending'
    BY <1>3, <1>5 DEF SentInv, OneSending, At
  <1>7. Orderly'
    <2> SUFFICES ASSUME givenUp = {} PROVE Orderly'
      BY <1>1 DEF Orderly
    <2>1. PICK c \in Sends \intersect executed : replies = <<c>> /\ At(c, "sending")
      BY <1>1 DEF SentInv, Orderly
    <2>2. replies' = <<>> /\ Head(replies) = c
      BY <1>1, <2>1
    <2>3. \A d \in Sends \ {c} : send'[d] = send[d]
      BY <1>3, <2>1 DEF SentInv, OneSending
    <2>4. At(c, "sent")' => send'[c].code = c
      BY <1>3, <2>1, <2>2 DEF At
    <2>5. QED
      BY <1>1, <2>1, <2>2, <2>3, <2>4 DEF SentInv, Orderly, At
  <1>8. \A c \in Sends : At(c, "done") => At(c, "done")'
    BY <1>3 DEF At
  <1>9. QED
    BY <1>1, <1>4, <1>6, <1>7, <1>8, RowsStay DEF SentInv

LEMMA GiveUpKeeps == ASSUME SentInv, NEW c \in Sends, SendGivesUp(c) PROVE SentInv'
  <1>1. /\ At(c, "sending") /\ MovesTo(c, "failed") /\ givenUp' = givenUp \union {c}
        /\ UNCHANGED <<executed, replies, peerAcks, acksComing, sentRows, early>>
    BY DEF SendGivesUp
  <1>2. /\ send' \in [Sends -> [at : Steps, code : Codes]]
        /\ send'[c].at = "failed"
        /\ \A d \in Sends \ {c} : send'[d] = send[d]
    BY <1>1, Moving DEF SentInv, Steps
  <1>3. SentTypeOK' /\ OneSending'
    BY <1>1, <1>2 DEF SentInv, SentTypeOK, OneSending, At
  <1>4. givenUp' # {}
    BY <1>1
  <1>5. \A d \in Sends : At(d, "done") => At(d, "done")'
    BY <1>1, <1>2 DEF At
  <1>6. QED
    BY <1>1, <1>3, <1>4, <1>5, RowsStay DEF SentInv, Orderly

\* An ACK that came before the row was stored is known to be early.
LEMMA SentStoreKeeps ==
  ASSUME SentInv, NEW c \in Sends, StoresSent(c), c \in DaemonSends
  PROVE  SentInv'
  <1> DEFINE stored == SentRow(c, send[c].code)
  <1>1. /\ At(c, "sent") /\ MovesTo(c, "done") /\ sentRows' = sentRows \union {stored}
        /\ UNCHANGED <<executed, replies, peerAcks, acksComing, givenUp, early>>
    BY DEF StoresSent, CodeStored
  <1>2. /\ send' \in [Sends -> [at : Steps, code : Codes]]
        /\ send'[c].at = "done"
        /\ \A d \in Sends \ {c} : send'[d] = send[d]
    BY <1>1, Moving DEF SentInv, Steps
  <1>3. /\ stored \in SentRowSet /\ stored.send = c /\ stored.code = send[c].code /\ stored.acked = FALSE
    BY DEF SentRow, SentRowSet, SentInv, SentTypeOK
  <1> HIDE DEF stored
  <1>4. SentTypeOK'
    BY <1>1, <1>2, <1>3 DEF SentInv, SentTypeOK
  <1>5. OneSending'
    BY <1>1, <1>2 DEF SentInv, OneSending, At
  <1>6. Orderly'
    <2> SUFFICES ASSUME givenUp = {} PROVE Orderly'
      BY <1>1 DEF Orderly
    <2>1. stored.code = stored.send
      BY <1>1, <1>3 DEF SentInv, Orderly
    <2>2. \A d \in Sends : At(d, "sending") => At(d, "sending")'
      BY <1>1, <1>2 DEF At
    <2>3. \A d \in Sends : (At(d, "sent") \/ At(d, "failed"))' => send'[d] = send[d] /\ d # c
      BY <1>2 DEF At
    <2>4. QED
      BY <1>1, <2>1, <2>2, <2>3 DEF SentInv, Orderly, At
  <1>7. ASSUME NEW r \in sentRows' PROVE RowFine(r)'
    <2>1. CASE r = stored
      <3>1. c \notin ProxySends
        BY SentAssumption
      <3>2. c \in peerAcks => c \in acksComing \union early
        BY <1>1 DEF SentInv, Handled, At
      <3>3. QED
        BY <1>1, <1>2, <1>3, <2>1, <3>1, <3>2 DEF RowFine, At
    <2>2. CASE r \in sentRows
      BY <1>1, <1>2, <2>2 DEF SentInv, RowFine, At, Sends
    <2>3. QED
      BY <1>1, <2>1, <2>2
  <1>8. Handled'
    BY <1>1, <1>2 DEF SentInv, Handled, At, Sends
  <1>9. QED
    BY <1>4, <1>5, <1>6, <1>7, <1>8 DEF SentInv

LEMMA StoreFailsKeeps == ASSUME SentInv, NEW c \in Sends, StoreFails(c) PROVE SentInv'
  <1>1. /\ At(c, "sent") /\ MovesTo(c, "failed")
        /\ UNCHANGED <<executed, replies, peerAcks, acksComing, sentRows, givenUp, early>>
    BY DEF StoreFails
  <1>2. /\ send' \in [Sends -> [at : Steps, code : Codes]]
        /\ send'[c].at = "failed"
        /\ \A d \in Sends \ {c} : send'[d] = send[d]
    BY <1>1, Moving DEF SentInv, Steps
  <1>3. SentTypeOK' /\ OneSending'
    BY <1>1, <1>2 DEF SentInv, SentTypeOK, OneSending, At
  <1>4. Orderly'
    BY <1>1, <1>2 DEF SentInv, Orderly, At
  <1>5. \A d \in Sends : At(d, "done") => At(d, "done")'
    BY <1>1, <1>2 DEF At
  <1>6. QED
    BY <1>1, <1>3, <1>4, <1>5, RowsStay DEF SentInv

\* A row of the proxy has no code and is never marked.
LEMMA LogKeeps == ASSUME SentInv, NEW c \in Sends, ProxyLogs(c) PROVE SentInv'
  <1> DEFINE stored == SentRow(c, NoCode)
  <1>1. /\ c \in ProxySends /\ c \notin DaemonSends /\ At(c, "new") /\ MovesTo(c, "logged")
        /\ sentRows' \subseteq sentRows \union {stored} /\ sentRows \subseteq sentRows'
        /\ UNCHANGED <<executed, replies, peerAcks, acksComing, givenUp, early>>
    BY SentAssumption DEF ProxyLogs
  <1>2. /\ send' \in [Sends -> [at : Steps, code : Codes]]
        /\ send'[c].at = "logged"
        /\ \A d \in Sends \ {c} : send'[d] = send[d]
    BY <1>1, Moving DEF SentInv, Steps
  <1>3. /\ stored \in SentRowSet /\ stored.send = c /\ stored.code = NoCode /\ stored.acked = FALSE
    BY DEF SentRow, SentRowSet, Codes
  <1> HIDE DEF stored
  <1>4. SentTypeOK'
    BY <1>1, <1>2, <1>3 DEF SentInv, SentTypeOK
  <1>5. OneSending'
    BY <1>1, <1>2 DEF SentInv, OneSending, At
  <1>6. Orderly'
    BY <1>1, <1>2, <1>3 DEF SentInv, Orderly, At
  <1>7. ASSUME NEW r \in sentRows' PROVE RowFine(r)'
    BY <1>1, <1>2, <1>3 DEF SentInv, RowFine, At, Sends
  <1>8. Handled'
    BY <1>1, <1>2 DEF SentInv, Handled, At, Sends
  <1>9. QED
    BY <1>4, <1>5, <1>6, <1>7, <1>8 DEF SentInv

-----------------------------------------------------------------------------
(* Acknowledgements, retention, crashes.                                   *)

LEMMA PeerKeeps == ASSUME SentInv, NEW c \in Sends, PeerAcknowledges(c) PROVE SentInv'
  <1>1. /\ peerAcks' = peerAcks \union {c} /\ acksComing' = acksComing \union {c}
        /\ UNCHANGED <<send, executed, replies, sentRows, givenUp, early>>
    BY DEF PeerAcknowledges
  <1>2. SentTypeOK' /\ OneSending' /\ Orderly'
    BY <1>1 DEF SentInv, SentTypeOK, OneSending, Orderly, At
  <1>3. (\A r \in sentRows : RowFine(r))' /\ Handled'
    BY <1>1 DEF SentInv, RowFine, Handled, At
  <1>4. QED
    BY <1>2, <1>3 DEF SentInv

\* Every row of the code is marked; without a row of that send the ACK was early.
LEMMA AckKeeps == ASSUME SentInv, NEW c \in Sends, AckArrives(c) PROVE SentInv'
  <1>1. /\ c \in acksComing /\ acksComing' = acksComing \ {c} /\ sentRows' = Marked(c)
        /\ early' = IF \E r \in sentRows : r.send = c THEN early ELSE early \union {c}
        /\ UNCHANGED <<send, executed, replies, peerAcks, givenUp>>
    BY DEF AckArrives
  <1>2. \A q \in sentRows' : \E r \in sentRows :
          /\ q \in SentRowSet /\ r \in SentRowSet
          /\ q.send = r.send /\ q.code = r.code
          /\ IF r.code = c THEN q.acked = TRUE ELSE q = r
    <2> TAKE q \in sentRows'
    <2>1. PICK r \in sentRows : q = IF r.code = c THEN [r EXCEPT !.acked = TRUE] ELSE r
      BY <1>1 DEF Marked
    <2>2. r \in SentRowSet
      BY DEF SentInv, SentTypeOK
    <2>3. CASE r.code = c
      <3>1. q = [r EXCEPT !.acked = TRUE]
        BY <2>1, <2>3
      <3>2. /\ q \in SentRowSet /\ q.send = r.send /\ q.code = r.code /\ q.acked = TRUE
        BY <2>2, <3>1 DEF SentRowSet
      <3>3. QED
        BY <2>2, <2>3, <3>2
    <2>4. CASE r.code # c
      BY <2>1, <2>2, <2>4
    <2>5. QED
      BY <2>3, <2>4
  <1>3. SentTypeOK' /\ OneSending'
    BY <1>1, <1>2 DEF SentInv, SentTypeOK, OneSending, At
  <1>4. Orderly'
    BY <1>1, <1>2 DEF SentInv, Orderly, At
  <1>5. ASSUME NEW q \in sentRows' PROVE RowFine(q)'
    <2>1. PICK r \in sentRows :
            /\ q.send = r.send /\ q.code = r.code
            /\ IF r.code = c THEN q.acked = TRUE ELSE q = r
      BY <1>2
    <2>2. RowFine(r)
      BY DEF SentInv
    <2>3. CASE r.code = c
      BY <1>1, <2>1, <2>2, <2>3 DEF RowFine, At, SentInv, SentTypeOK
    <2>4. CASE r.code # c
      BY <1>1, <2>1, <2>2, <2>4 DEF RowFine, At
    <2>5. QED
      BY <2>3, <2>4
  <1>6. Handled'
    <2>1. ASSUME NEW d \in DaemonSends \intersect peerAcks
          PROVE  d \in acksComing' \union early' \/ At(d, "done")'
      <3>1. CASE d = c
        <4>1. CASE \E r \in sentRows : r.send = c
          BY <1>1, <3>1, <4>1 DEF SentInv, RowFine, At
        <4>2. CASE ~\E r \in sentRows : r.send = c
          BY <1>1, <3>1, <4>2
        <4>3. QED
          BY <4>1, <4>2
      <3>2. CASE d # c
        BY <1>1, <3>2 DEF SentInv, Handled, At
      <3>3. QED
        BY <3>1, <3>2
    <2>2. QED
      BY <1>1, <2>1 DEF Handled
  <1>7. QED
    BY <1>3, <1>4, <1>5, <1>6 DEF SentInv

LEMMA PruneKeeps == SentInv /\ PrunesSent => SentInv'
  <1> SUFFICES ASSUME SentInv, PrunesSent PROVE SentInv'
    OBVIOUS
  <1>1. /\ sentRows' \subseteq sentRows
        /\ UNCHANGED <<send, executed, replies, peerAcks, acksComing, givenUp, early>>
    BY DEF PrunesSent
  <1>2. SentTypeOK' /\ OneSending' /\ Orderly' /\ Handled'
    BY <1>1 DEF SentInv, SentTypeOK, OneSending, Orderly, Handled, At
  <1>3. (\A r \in sentRows : RowFine(r))'
    BY <1>1 DEF SentInv, RowFine, At
  <1>4. QED
    BY <1>2, <1>3 DEF SentInv

LEMMA SentCrashKeeps == SentInv /\ SenderCrash => SentInv'
  <1> SUFFICES ASSUME SentInv, SenderCrash PROVE SentInv'
    OBVIOUS
  <1>1. /\ send' = [c \in Sends |-> IF c \in InFlight THEN [send[c] EXCEPT !.at = "failed"]
                                    ELSE send[c]]
        /\ givenUp' = givenUp \union InFlight
        /\ replies' = <<>> /\ early' = early \union acksComing /\ acksComing' = {}
        /\ UNCHANGED <<executed, peerAcks, sentRows>>
    BY DEF SenderCrash
  <1>2. ASSUME NEW c \in Sends
        PROVE  /\ send'[c] \in [at : Steps, code : Codes]
               /\ c \in InFlight => send'[c].at = "failed"
               /\ c \notin InFlight => send'[c] = send[c]
    BY <1>1 DEF SentInv, SentTypeOK, Steps
  <1>3. SentTypeOK'
    <2>1. send' \in [Sends -> [at : Steps, code : Codes]]
      BY <1>1, <1>2
    <2>2. replies' \in Seq(Sends)
      BY <1>1
    <2>3. QED
      BY <1>1, <2>1, <2>2 DEF SentInv, SentTypeOK
  <1>4. \A c \in Sends : ~At(c, "sending")' /\ ~At(c, "sent")'
    BY <1>2 DEF At, InFlight
  <1>5. OneSending'
    BY <1>4 DEF OneSending
  <1>6. Orderly'
    <2> SUFFICES ASSUME givenUp' = {} PROVE Orderly'
      BY DEF Orderly
    <2>1. givenUp = {} /\ \A c \in Sends : send'[c] = send[c]
      BY <1>1, <1>2
    <2>2. QED
      BY <1>1, <2>1 DEF SentInv, Orderly, At
  <1>7. \A c \in Sends : At(c, "done") => At(c, "done")'
    BY <1>2 DEF At, InFlight
  <1>8. QED
    BY <1>1, <1>3, <1>5, <1>6, <1>7, RowsStay DEF SentInv

LEMMA SentStep == SentInv /\ [SentNext]_sentVars => SentInv'
  <1> SUFFICES ASSUME SentInv, [SentNext]_sentVars PROVE SentInv'
    OBVIOUS
  <1>1. ASSUME NEW c \in Sends, StoresSent(c) PROVE SentInv'
    <2>1. c \in DaemonSends
      BY <1>1 DEF StoresSent, SentInv, OneSending
    <2>2. QED
      BY <1>1, <2>1, SentStoreKeeps
  <1>2. CASE UNCHANGED sentVars
    BY <1>2 DEF sentVars, SentInv, SentTypeOK, OneSending, Orderly, RowFine, Handled, At
  <1>3. QED
    BY <1>1, <1>2, SentBeginKeeps, NodeKeeps, ReplyKeeps, GiveUpKeeps, StoreFailsKeeps, LogKeeps,
       PeerKeeps, AckKeeps, PruneKeeps, SentCrashKeeps DEF SentNext

-----------------------------------------------------------------------------
\* A row is marked only when a recipient has acknowledged its own message, unless a send
\* was given up and its late reply was another's (SendMessage, mark_acked).
THEOREM TrueAcks == SentSpec => []AcksAreTrue
  <1>1. SentInv => AcksAreTrue
    <2> SUFFICES ASSUME SentInv, NEW r \in sentRows, r.acked
                 PROVE  r.code \in peerAcks /\ (r.code = r.send \/ givenUp # {})
      BY DEF AcksAreTrue
    <2>1. r.code \in peerAcks /\ r.code # NoCode /\ r.send \in Sends
      BY SentAssumption DEF SentInv, RowFine, SentTypeOK, SentRowSet
    <2>2. r.send \in DaemonSends
      BY <2>1 DEF SentInv, RowFine, Sends
    <2>3. QED
      BY <2>1, <2>2 DEF SentInv, Orderly
  <1>2. QED
    BY SentInitInv, SentStep, <1>1, PTL DEF SentSpec

\* The row of an acknowledged message gets its mark, or the ACK came before the row, or
\* the row has another's code (the recorder's _on_ack).
THEOREM ArrivingAcks == SentSpec => []AcksArrive
  <1>1. SentInv => AcksArrive
    <2> SUFFICES ASSUME SentInv, NEW r \in sentRows,
                        r.send \in peerAcks \intersect DaemonSends, ~r.acked
                 PROVE  \/ r.send \in acksComing \/ r.send \in early
                        \/ r.code # r.send /\ givenUp # {}
      BY DEF AcksArrive
    <2>1. CASE r.code = r.send
      BY <2>1 DEF SentInv, RowFine
    <2>2. CASE r.code # r.send
      BY <2>2 DEF SentInv, Orderly
    <2>3. QED
      BY <2>1, <2>2
  <1>2. QED
    BY SentInitInv, SentStep, <1>1, PTL DEF SentSpec

-----------------------------------------------------------------------------
(* PingProbe: a ping returns with its own trace only, and the table of     *)
(* pending pings is exact.                                                 *)

Stages == {"new", "lookup", "sending", "waiting", "returned", "failed"}
Record == [at : Stages, token : Tokens \union {NoToken}, deadline : Nat]
Answer == [trace : Trace \union {NoTrace}, at : Nat]

PingTypeOK ==
  /\ loopTime \in Nat
  /\ ping \in [Pings -> Record]
  /\ pending \in SUBSET Tokens
  /\ answer \in [Pings -> Answer]
  /\ onAir \in SUBSET Tokens
  /\ traces \in SUBSET Trace

\* A call has a token from its registration on, and no two have the same.
TokensTold ==
  /\ \A c \in Pings : ping[c].at \in {"new", "lookup"} => ping[c].token = NoToken
  /\ \A c \in Pings : ping[c].at \in {"sending", "waiting", "returned"} => ping[c].token # NoToken
  /\ \A c, d \in Pings :
       ping[c].token = ping[d].token /\ ping[c].token # NoToken => c = d

\* A future is set to the trace of its own call, in time; a call that returns has one.
AnswersOwn ==
  /\ \A c \in Pings : answer[c] # Unset =>
       /\ answer[c].trace = [token |-> ping[c].token, route |-> TRUE]
       /\ answer[c].at < ping[c].deadline
       /\ ping[c].token # NoToken
  /\ \A c \in Pings : ping[c].at = "returned" => answer[c] # Unset

PingInv == PingTypeOK /\ TokensTold /\ AnswersOwn /\ PendingIsCurrent

-----------------------------------------------------------------------------
LEMMA PingInitInv == PingInit => PingInv
  <1> SUFFICES ASSUME PingInit PROVE PingInv
    OBVIOUS
  <1>1. PingTypeOK
    BY DEF PingInit, PingTypeOK, NotCalled, Unset, NoTrace, Record, Stages, Answer, Trace
  <1>2. TokensTold /\ AnswersOwn
    BY DEF PingInit, TokensTold, AnswersOwn, NotCalled
  <1>3. PendingIsCurrent
    BY DEF PingInit, PendingIsCurrent, NotCalled
  <1>4. QED
    BY <1>1, <1>2, <1>3 DEF PingInv

\* A call that changes its stage but keeps its token: the others, and the table, do not
\* notice, unless it ends, which takes its entry and no other.
LEMMA EndKeeps ==
  ASSUME PingInv, NEW c \in Pings, NEW where \in {"returned", "failed"}, Ends(c, where),
         Active(c), where = "returned" => answer[c] # Unset /\ ping[c].at = "waiting",
         UNCHANGED <<loopTime, answer, onAir, traces>>
  PROVE  PingInv'
  <1> USE DEF PingInv, Ends, Goes, Unregister
  <1>1. /\ ping' = [ping EXCEPT ![c].at = where]
        /\ pending' = pending \ {ping[c].token}
        /\ ping \in [Pings -> Record] /\ pending \subseteq Tokens
    BY DEF PingTypeOK
  <1>2. \A d \in Pings : /\ ping'[d].token = ping[d].token
                         /\ ping'[d].deadline = ping[d].deadline
                         /\ ping'[d].at = IF d = c THEN where ELSE ping[d].at
    BY <1>1 DEF Record
  <1>3. PingTypeOK'
    <2>1. ping' \in [Pings -> Record]
      BY <1>1 DEF Record, Stages
    <2>2. QED
      BY <1>1, <2>1 DEF PingTypeOK
  <1>4. TokensTold'
    BY <1>2 DEF TokensTold, Active
  <1>5. AnswersOwn'
    BY <1>2 DEF AnswersOwn, TokensTold, Unset
  <1>6. PendingIsCurrent'
    <2>1. NoToken \notin pending
      BY <1>1, PingAssumption
    <2>2. \A d \in Pings : ping'[d].at \in {"sending", "waiting"} <=>
                             d # c /\ ping[d].at \in {"sending", "waiting"}
      BY <1>2
    <2>3. ASSUME NEW d \in Pings, d # c, ping[d].at \in {"sending", "waiting"}
          PROVE  ping[d].token # ping[c].token
      BY <2>3 DEF TokensTold
    <2>4. QED
      BY <1>1, <1>2, <2>1, <2>2, <2>3 DEF PendingIsCurrent
  <1>7. QED
    BY <1>3, <1>4, <1>5, <1>6

\* What happens on the air and to the clock does not touch the calls.
LEMMA AirOnly ==
  ASSUME PingInv, UNCHANGED <<ping, pending, answer>>,
         loopTime' \in Nat, onAir' \in SUBSET Tokens, traces' \in SUBSET Trace
  PROVE  PingInv'
  <1>1. PingTypeOK'
    BY DEF PingInv, PingTypeOK
  <1>2. TokensTold' /\ PendingIsCurrent'
    BY DEF PingInv, TokensTold, PendingIsCurrent
  <1>3. AnswersOwn'
    BY DEF PingInv, AnswersOwn, Unset, NoTrace
  <1>4. QED
    BY <1>1, <1>2, <1>3 DEF PingInv

LEMMA PingStep == PingInv /\ [PingNext]_pingVars => PingInv'
  <1> SUFFICES ASSUME PingInv, [PingNext]_pingVars PROVE PingInv'
    OBVIOUS
  <1>0. PingTypeOK
    BY DEF PingInv
  <1>1. ASSUME NEW c \in Pings, CallPing(c) PROVE PingInv'
    <2>1. /\ ping' = [ping EXCEPT ![c] = [at |-> "lookup", token |-> NoToken,
                                           deadline |-> loopTime + PingTime]]
          /\ ping[c].at = "new" /\ ping[c].token = NoToken
          /\ UNCHANGED <<loopTime, pending, answer, onAir, traces>>
      BY <1>1 DEF CallPing, PingInv, TokensTold
    <2>2. loopTime + PingTime \in Nat
      BY <1>0, PingAssumption DEF PingTypeOK
    <2>3. \A d \in Pings : /\ ping'[d].token = ping[d].token
                           /\ d # c => ping'[d] = ping[d]
                           /\ ping'[c].at = "lookup"
      BY <2>1, <1>0 DEF PingTypeOK
    <2>4. PingTypeOK'
      BY <2>1, <2>2, <1>0 DEF PingTypeOK, Record, Stages
    <2>5. TokensTold'
      BY <2>1, <2>3 DEF PingInv, TokensTold
    <2>6. AnswersOwn'
      BY <2>1, <2>3 DEF PingInv, AnswersOwn, Unset
    <2>7. PendingIsCurrent'
      BY <2>1, <2>3 DEF PingInv, PendingIsCurrent
    <2>8. QED
      BY <2>4, <2>5, <2>6, <2>7 DEF PingInv
  <1>2. ASSUME NEW c \in Pings, InvalidPing(c) PROVE PingInv'
    <2>1. /\ ping' = [ping EXCEPT ![c].at = "failed"]
          /\ ping[c].at = "lookup" /\ ping[c].token = NoToken
          /\ UNCHANGED <<loopTime, pending, answer, onAir, traces>>
      BY <1>2 DEF InvalidPing, Goes, PingInv, TokensTold
    <2>2. Ends(c, "failed")
      BY <2>1, <1>0, PingAssumption DEF Ends, Goes, Unregister, PingTypeOK
    <2>3. QED
      BY <2>1, <2>2, EndKeeps DEF Active
  <1>3. ASSUME NEW c \in Pings, RegisterPing(c) PROVE PingInv'
    <2>1. PICK t \in Tokens \ UsedTokens :
            /\ ping' = [ping EXCEPT ![c].at = "sending", ![c].token = t]
            /\ pending' = pending \union {t}
      BY <1>3 DEF RegisterPing
    <2>2. /\ ping[c].at = "lookup" /\ ping[c].token = NoToken
          /\ UNCHANGED <<loopTime, answer, onAir, traces>>
      BY <1>3 DEF RegisterPing, PingInv, TokensTold
    <2>3. /\ t # NoToken
          /\ \A d \in Pings : ping[d].token # t
      BY <2>1, PingAssumption DEF UsedTokens
    <2>4. /\ ping'[c].at = "sending" /\ ping'[c].token = t
          /\ ping'[c].deadline = ping[c].deadline
          /\ \A d \in Pings \ {c} : ping'[d] = ping[d]
      BY <2>1, <1>0 DEF PingTypeOK, Record
    <2>5. PingTypeOK'
      BY <2>1, <2>2, <1>0, ZenonT(40) DEF PingTypeOK, Record, Stages
    <2>6. TokensTold'
      BY <2>3, <2>4 DEF PingInv, TokensTold
    <2>7. AnswersOwn'
      BY <2>2, <2>4 DEF PingInv, AnswersOwn, Unset
    <2>8. PendingIsCurrent'
      <3>1. \A d \in Pings : ping'[d].at \in {"sending", "waiting"} <=>
                               d = c \/ ping[d].at \in {"sending", "waiting"}
        BY <2>2, <2>4
      <3>2. \A d \in Pings \ {c} : ping'[d].token = ping[d].token
        BY <2>4
      <3>3. pending = {ping[d].token : d \in {e \in Pings \ {c} :
                                                ping[e].at \in {"sending", "waiting"}}}
        BY <2>2 DEF PingInv, PendingIsCurrent
      <3> DEFINE rest == {e \in Pings \ {c} : ping[e].at \in {"sending", "waiting"}}
                 those == {e \in Pings : ping'[e].at \in {"sending", "waiting"}}
      <3>4. those = rest \union {c}
        BY <3>1
      <3>5. {ping'[d].token : d \in those} = {ping[d].token : d \in rest} \union {t}
        BY <2>4, <3>2, <3>4
      <3>6. QED
        BY <2>1, <3>3, <3>5 DEF PendingIsCurrent
    <2>9. QED
      BY <2>5, <2>6, <2>7, <2>8 DEF PingInv
  <1>4. ASSUME NEW c \in Pings, TraceSent(c) PROVE PingInv'
    <2>1. ping[c].token \in Tokens
      BY <1>4, <1>0 DEF TraceSent, PingTypeOK, Record
    <2>2. QED
      BY <1>4, <2>1, <1>0, AirOnly DEF TraceSent, PingTypeOK
  <1>5. ASSUME NEW c \in Pings, SendReplied(c) PROVE PingInv'
    <2>1. /\ ping' = [ping EXCEPT ![c].at = "waiting"] /\ ping[c].at = "sending"
          /\ UNCHANGED <<loopTime, pending, answer, onAir, traces>>
      BY <1>5 DEF SendReplied, Goes
    <2>2. \A d \in Pings : /\ ping'[d].token = ping[d].token
                           /\ ping'[d].deadline = ping[d].deadline
                           /\ ping'[d].at = IF d = c THEN "waiting" ELSE ping[d].at
      BY <2>1, <1>0 DEF PingTypeOK, Record
    <2>3. PingTypeOK'
      BY <2>1, <1>0 DEF PingTypeOK, Record, Stages
    <2>4. TokensTold' /\ AnswersOwn'
      BY <2>1, <2>2 DEF PingInv, TokensTold, AnswersOwn, Unset
    <2>5. PendingIsCurrent'
      BY <2>1, <2>2 DEF PingInv, PendingIsCurrent
    <2>6. QED
      BY <2>3, <2>4, <2>5 DEF PingInv
  <1>6. ASSUME NEW c \in Pings, SendRejected(c) \/ PingExpires(c) \/ PingCancelled(c)
        PROVE  PingInv'
    BY <1>6, EndKeeps DEF SendRejected, PingExpires, PingCancelled, Active
  <1>7. ASSUME NEW c \in Pings, PingResumes(c) PROVE PingInv'
    BY <1>7, EndKeeps DEF PingResumes, Active
  <1>8. ASSUME NEW t \in Tokens, ForeignTrace(t) PROVE PingInv'
    BY <1>8, <1>0, AirOnly DEF ForeignTrace, PingTypeOK
  <1>9. ASSUME NEW t \in Tokens, NEW route \in BOOLEAN, TraceHeard(t, route) PROVE PingInv'
    <2>1. traces' \in SUBSET Trace
      BY <1>9, <1>0 DEF TraceHeard, PingTypeOK, Trace
    <2>2. QED
      BY <1>9, <2>1, <1>0, AirOnly DEF TraceHeard, PingTypeOK
  <1>10. ASSUME NEW f \in traces, TraceArrives(f) PROVE PingInv'
    <2>1. f \in Trace /\ UNCHANGED <<loopTime, ping, pending, onAir>> /\ traces' \subseteq traces
      BY <1>10, <1>0 DEF TraceArrives, PingTypeOK
    <2>2. answer' = [c \in Pings |-> IF Accepts(c, f) THEN [trace |-> f, at |-> loopTime]
                                     ELSE answer[c]]
      BY <1>10 DEF TraceArrives
    <2>3. PingTypeOK'
      BY <2>1, <2>2, <1>0 DEF PingTypeOK, Answer
    <2>4. ASSUME NEW c \in Pings, Accepts(c, f)
          PROVE  /\ f = [token |-> ping[c].token, route |-> TRUE]
                 /\ loopTime < ping[c].deadline /\ ping[c].token # NoToken
      BY <2>1, <2>4, PingAssumption DEF Accepts, Trace
    <2>5. AnswersOwn'
      <3>1. ASSUME NEW c \in Pings, answer'[c] # Unset
            PROVE  /\ answer'[c].trace = [token |-> ping[c].token, route |-> TRUE]
                   /\ answer'[c].at < ping[c].deadline
                   /\ ping[c].token # NoToken
        <4>1. CASE Accepts(c, f)
          BY <2>2, <2>4, <4>1
        <4>2. CASE ~Accepts(c, f)
          BY <2>2, <3>1, <4>2 DEF PingInv, AnswersOwn
        <4>3. QED
          BY <4>1, <4>2
      <3>2. ASSUME NEW c \in Pings, ping[c].at = "returned" PROVE answer'[c] # Unset
        BY <2>2, <3>2 DEF PingInv, AnswersOwn, Accepts
      <3>3. QED
        BY <2>1, <3>1, <3>2 DEF AnswersOwn, Unset, NoTrace
    <2>6. TokensTold' /\ PendingIsCurrent'
      BY <2>1 DEF PingInv, TokensTold, PendingIsCurrent
    <2>7. QED
      BY <2>3, <2>5, <2>6 DEF PingInv
  <1>11. ASSUME TickPing PROVE PingInv'
    BY <1>11, <1>0, AirOnly DEF TickPing, PingTypeOK
  <1>12. ASSUME UNCHANGED pingVars PROVE PingInv'
    BY <1>12, <1>0, AirOnly DEF pingVars, PingTypeOK
  <1>13. QED
    BY <1>1, <1>2, <1>3, <1>4, <1>5, <1>6, <1>7, <1>8, <1>9, <1>10, <1>11, <1>12
       DEF PingNext

-----------------------------------------------------------------------------
\* A ping that returns was answered by its own trace, over the complete route and
\* before its deadline, whatever other traces there are (ping, _on_frame).
THEOREM HonestPings == PingSpec => []PingHonest
  <1>1. PingInv => PingHonest
    BY DEF PingInv, AnswersOwn, PingHonest
  <1>2. QED
    BY PingInitInv, PingStep, <1>1, PTL DEF PingSpec

\* The table of pending pings holds those under way and nothing else (ping).
THEOREM ExactPending == PingSpec => []PendingIsCurrent
  <1>1. PingInv => PendingIsCurrent
    BY DEF PingInv
  <1>2. QED
    BY PingInitInv, PingStep, <1>1, PTL DEF PingSpec

-----------------------------------------------------------------------------
(* ContactSync: no change is forgotten and removals are noticed.           *)

\* The values of events and jobs.
ModSet == UNION {[S -> Mods] : S \in SUBSET Contacts}
Event ==
  [kind : {"list"}, mods : ModSet] \union [kind : {"new"}, c : Contacts, mod : Mods]
    \union [kind : {"deleted"}, c : Contacts]

ContactTypeOK ==
  /\ node \in [Contacts -> {Absent} \union Mods]
  /\ wire \in Seq(Event) /\ jobs \in Seq(ModSet)
  /\ lastmod \in {0} \union Mods
  /\ row \in [Contacts -> {Absent} \union Mods] /\ onDevice \subseteq Contacts

\* An event under way that is about a contact, and does not say what the node has.
Outdated(i, c) ==
  \/ wire[i].kind \in {"new", "deleted"} /\ wire[i].c = c
  \/ wire[i].kind = "list" /\ c \in DOMAIN wire[i].mods /\ wire[i].mods[c] # node[c]

\* Such an event comes before every list that advances _lastmod to the change.
Early(c) ==
  \A i \in DOMAIN wire : Outdated(i, c) =>
    /\ lastmod < node[c]
    /\ \A k \in Lists : k < i => EndMark(wire[k].mods) < node[c]

\* The first list that advances _lastmod to a change has it.
Coming(c) ==
  lastmod < node[c] =>
    \A i \in Lists : EndMark(wire[i].mods) >= node[c] =>
      \E k \in Lists : k <= i /\ c \in DOMAIN wire[k].mods /\ wire[k].mods[c] = node[c]

\* The values of a contact that jobs have still to write.
Held(c) == {jobs[j][c] : j \in {i \in DOMAIN jobs : c \in DOMAIN jobs[i]}}

\* Once it has arrived it is written, or will be, and nothing older is.
Arrived(c) ==
  node[c] <= lastmod =>
    /\ Held(c) \subseteq {node[c]}
    /\ (row[c] = node[c] /\ c \in onDevice) \/ Held(c) # {}

KeepsUp(c) ==
  node[c] # Absent /\ c \notin late \union skipped => Early(c) /\ Coming(c) /\ Arrived(c)

\* The event of an eviction comes after all that says the contact is there.
Brings(i, c) ==
  \/ wire[i].kind = "new" /\ wire[i].c = c
  \/ wire[i].kind = "list" /\ c \in DOMAIN wire[i].mods
Deletes(i, c) == wire[i].kind = "deleted" /\ wire[i].c = c

LetsGo(c) ==
  node[c] = Absent /\ c \notin astray =>
    /\ \A i \in DOMAIN wire : Brings(i, c) => \E k \in DOMAIN wire : i < k /\ Deletes(k, c)
    /\ c \in onDevice \/ Held(c) # {} =>
         \E k \in DOMAIN wire : Deletes(k, c)

ContactInv == ContactTypeOK /\ \A c \in Contacts : KeepsUp(c) /\ LetsGo(c)

\* A set of numbers below a bound has a greatest one.
LEMMA HasGreatest ==
  ASSUME NEW S \in SUBSET Nat, S # {}, NEW n \in Nat, \A x \in S : x <= n
  PROVE  \E x \in S : \A y \in S : y <= x
  <1> DEFINE Above(x) == {y \in S : y > x}
             T == {Above(x) : x \in S}
  <1>1. IsFiniteSet(S)
    BY FS_BoundedSetOfNaturals
  <1>2. T \subseteq FiniteSubsetsOf(S) /\ T # {}
    <2>1. \A x \in S : Above(x) \in SUBSET S
      OBVIOUS
    <2> HIDE DEF Above
    <2>2. \A x \in S : IsFiniteSet(Above(x))
      BY <1>1, <2>1, FS_Subset
    <2>3. QED
      BY <2>1, <2>2 DEF FiniteSubsetsOf
  <1>3. PICK t \in T : \A u \in T : ~(<<u, t>> \in StrictSubsetOrdering(S))
    <2> HIDE DEF T
    <2>1. QED
      BY <1>2, WFMin, FS_StrictSubsetOrderingWellFounded
  <1>4. PICK x \in S : t = Above(x)
    OBVIOUS
  <1>5. ASSUME NEW y \in S, y > x PROVE FALSE
    <2>1. /\ y \in t /\ y \notin Above(y)
      BY <1>4, <1>5
    <2>2. Above(y) \subseteq t
      <3>1. \A z \in S : z > y => z > x
        BY <1>5
      <3>2. QED
        BY <1>4, <3>1
    <2>3. t \subseteq S /\ Above(y) \subseteq S
      BY <1>4
    <2> HIDE DEF Above
    <2>4. <<Above(y), t>> \in StrictSubsetOrdering(S)
      BY <2>1, <2>2, <2>3 DEF StrictSubsetOrdering
    <2>5. QED
      BY <1>3, <2>4
  <1>6. QED
    BY <1>5

-----------------------------------------------------------------------------
(* Times and lists.                                                        *)

LEMMA GreatestIs ==
  ASSUME NEW S \in SUBSET (0..MaxMod), S # {}
  PROVE  Greatest(S) \in S /\ \A y \in S : y <= Greatest(S)
  <1>1. MaxMod \in Nat /\ S \in SUBSET Nat /\ \A x \in S : x <= MaxMod
    BY ContactAssumption
  <1>2. \E x \in S : \A y \in S : y <= x
    BY <1>1, HasGreatest
  <1>3. QED
    BY <1>2 DEF Greatest

LEMMA ModsOf ==
  ASSUME NEW m \in ModSet
  PROVE  /\ DOMAIN m \subseteq Contacts /\ \A c \in DOMAIN m : m[c] \in Mods
         /\ m \in [DOMAIN m -> Mods]
  BY DEF ModSet

\* The end frame names the newest change of a list.
LEMMA EndMarks ==
  ASSUME NEW m \in ModSet
  PROVE  /\ EndMark(m) \in 0..MaxMod
         /\ \A c \in DOMAIN m : m[c] <= EndMark(m)
         /\ EndMark(m) > 0 => DOMAIN m # {}
  <1> DEFINE S == {m[c] : c \in DOMAIN m}
  <1>1. S \in SUBSET (0..MaxMod)
    BY ModsOf, ContactAssumption DEF Mods
  <1>2. CASE S = {}
    BY <1>2, ContactAssumption DEF EndMark, Greatest
  <1>3. CASE S # {}
    <2>1. EndMark(m) \in S /\ \A y \in S : y <= EndMark(m)
      <3> HIDE DEF S
      <3>1. Greatest(S) \in S /\ \A y \in S : y <= Greatest(S)
        BY <1>1, <1>3, GreatestIs
      <3>2. QED
        BY <3>1 DEF EndMark, S
    <2>2. QED
      BY <1>1, <2>1
  <1>4. QED
    BY <1>2, <1>3

LEMMA WireEvent ==
  ASSUME ContactTypeOK, NEW i \in DOMAIN wire
  PROVE  /\ wire[i] \in Event /\ i \in Nat
         /\ wire[i].kind = "list" => wire[i].mods \in ModSet
  <1>1. wire[i] \in Event /\ i \in Nat
    BY DEF ContactTypeOK
  <1>2. QED
    BY <1>1 DEF Event

LEMMA PulledIs ==
  ASSUME ContactTypeOK
  PROVE  /\ Pulled \in 0..MaxMod /\ lastmod <= Pulled
         /\ \A i \in Lists : EndMark(wire[i].mods) <= Pulled
         /\ Pulled = lastmod \/ \E i \in Lists : Pulled = EndMark(wire[i].mods)
  <1> DEFINE S == {lastmod} \union {EndMark(wire[i].mods) : i \in Lists}
  <1>1. \A i \in Lists : EndMark(wire[i].mods) \in 0..MaxMod
    BY WireEvent, EndMarks DEF Lists
  <1>2. lastmod \in 0..MaxMod
    BY ContactAssumption DEF ContactTypeOK, Mods
  <1>3. S \in SUBSET (0..MaxMod) /\ S # {}
    BY <1>1, <1>2
  <1>4. Pulled = Greatest(S)
    BY DEF Pulled
  <1>5. Greatest(S) \in S /\ \A y \in S : y <= Greatest(S)
    <2> HIDE DEF S
    <2>1. QED
      BY <1>3, GreatestIs
  <1>6. QED
    BY <1>3, <1>4, <1>5

\* What the node answers to GET_CONTACTS.
LEMMA ListIs ==
  ASSUME ContactTypeOK, NEW since \in Nat
  PROVE  /\ List(since) \in Event /\ List(since).kind = "list" /\ List(since).mods \in ModSet
         /\ \A c \in Contacts : c \in DOMAIN List(since).mods <=> node[c] > since
         /\ \A c \in DOMAIN List(since).mods : List(since).mods[c] = node[c]
  <1> DEFINE m == [c \in Listed(since) |-> node[c]]
  <1>1. Listed(since) \in SUBSET Contacts /\ \A c \in Listed(since) : node[c] \in Mods
    BY DEF Listed, ContactTypeOK, Absent
  <1>2. m \in [Listed(since) -> Mods] /\ DOMAIN m = Listed(since)
    BY <1>1
  <1>3. m \in ModSet
    BY <1>1, <1>2 DEF ModSet
  <1>4. List(since) = [kind |-> "list", mods |-> m]
    BY DEF List
  <1> HIDE DEF m
  <1>5. List(since) \in Event /\ List(since).kind = "list" /\ List(since).mods = m
    BY <1>3, <1>4 DEF Event
  <1>6. QED
    BY <1>1, <1>2, <1>3, <1>5 DEF Listed, m

\* The two ends of the queue of events.
LEMMA WireGrows ==
  ASSUME ContactTypeOK, NEW e \in Event, wire' = Append(wire, e)
  PROVE  \E n \in Nat :
           /\ n = Len(wire) /\ DOMAIN wire = 1..n /\ DOMAIN wire' = 1..(n + 1)
           /\ wire'[n + 1] = e /\ wire' \in Seq(Event)
           /\ \A i \in 1..n : wire'[i] = wire[i]
  BY AppendProperties, LenProperties DEF ContactTypeOK

LEMMA WireShrinks ==
  ASSUME ContactTypeOK, wire # <<>>, wire' = Tail(wire)
  PROVE  /\ wire' \in Seq(Event) /\ 1 \in DOMAIN wire /\ Arriving = wire[1]
         /\ \A i \in DOMAIN wire' : i + 1 \in DOMAIN wire /\ wire'[i] = wire[i + 1]
         /\ \A i \in DOMAIN wire : i # 1 => i - 1 \in DOMAIN wire' /\ wire'[i - 1] = wire[i]
  <1>1. wire \in Seq(Event)
    BY DEF ContactTypeOK
  <1>2. /\ Len(wire) \in Nat /\ Len(wire) >= 1 /\ DOMAIN wire = 1..Len(wire) /\ Head(wire) = wire[1]
        /\ Tail(wire) \in Seq(Event) /\ DOMAIN Tail(wire) = 1..(Len(wire) - 1)
        /\ \A i \in 1..(Len(wire) - 1) : Tail(wire)[i] = wire[i + 1]
    BY <1>1, HeadTailProperties, LenProperties
  <1>3. QED
    BY <1>2 DEF Arriving

-----------------------------------------------------------------------------
(* What a step leaves alone.                                               *)

\* The times are numbers.
LEMMA TimesOf ==
  ASSUME ContactTypeOK, NEW c \in Contacts
  PROVE  /\ node[c] \in Nat /\ node[c] <= MaxMod /\ lastmod \in Nat /\ MaxMod \in Nat
         /\ row[c] \in Nat /\ Absent = 0
         /\ \A i \in Lists : EndMark(wire[i].mods) \in Nat
  <1>1. \A i \in Lists : EndMark(wire[i].mods) \in 0..MaxMod
    BY WireEvent, EndMarks DEF Lists
  <1>2. QED
    BY <1>1, ContactAssumption DEF ContactTypeOK, Mods, Absent

\* An event that says nothing wrong about a contact is appended.
LEMMA AppendKeeps ==
  ASSUME ContactInv, NEW c \in Contacts, NEW e \in Event, wire' = Append(wire, e),
         UNCHANGED <<lastmod, jobs, row, onDevice>>, node'[c] = node[c],
         c \notin late' \union skipped' => c \notin late \union skipped,
         c \notin astray' => c \notin astray,
         e.kind \in {"new", "deleted"} => e.c # c,
         e.kind = "list" /\ c \in DOMAIN e.mods => e.mods[c] = node[c] /\ node[c] # Absent,
         e.kind = "list" /\ c \notin DOMAIN e.mods /\ c \notin late' \union skipped'
           /\ lastmod < node[c] /\ EndMark(e.mods) >= node[c] => Pulled >= node[c]
  PROVE  KeepsUp(c)' /\ LetsGo(c)'
  <1>1. ContactTypeOK /\ KeepsUp(c) /\ LetsGo(c)
    BY DEF ContactInv
  <1>2. PICK n \in Nat :
           /\ n = Len(wire) /\ DOMAIN wire = 1..n /\ DOMAIN wire' = 1..(n + 1)
           /\ wire'[n + 1] = e /\ wire' \in Seq(Event)
           /\ \A i \in 1..n : wire'[i] = wire[i]
    BY <1>1, WireGrows
  <1>3. \A i \in DOMAIN wire' : i = n + 1 \/ i \in 1..n
    BY <1>2
  <1>4. \A i \in 1..n : i \in Lists' <=> i \in Lists
    BY <1>2 DEF Lists
  <1>5. \A i \in Lists' : i = n + 1 \/ i \in Lists
    BY <1>2, <1>3 DEF Lists
  <1>6. \A i \in Lists : i \in 1..n /\ i \in Lists' /\ wire'[i] = wire[i]
    BY <1>2 DEF Lists
  <1>7. Held(c)' = Held(c)
    BY DEF Held
  <1>8. ASSUME node[c] # Absent, c \notin late' \union skipped'
        PROVE  Early(c)' /\ Coming(c)' /\ Arrived(c)'
    <2>1. Early(c) /\ Coming(c) /\ Arrived(c)
      BY <1>1, <1>8 DEF KeepsUp
    <2>2. Early(c)'
      <3>1. ~Outdated(n + 1, c)'
        BY <1>2 DEF Outdated
      <3>2. ASSUME NEW i \in 1..n, Outdated(i, c)'
            PROVE  lastmod < node[c] /\ \A k \in Lists' : k < i => EndMark(wire'[k].mods) < node[c]
        <4>1. Outdated(i, c) /\ i \in DOMAIN wire
          BY <1>2, <3>2 DEF Outdated
        <4>2. \A k \in Lists' : k < i => k \in Lists /\ wire'[k] = wire[k]
          BY <1>2, <1>5, <1>6
        <4>3. QED
          BY <2>1, <4>1, <4>2 DEF Early
      <3>3. QED
        BY <1>3, <3>1, <3>2 DEF Early
    <2>3. Coming(c)'
      <3>1. ASSUME lastmod < node[c], NEW i \in Lists', EndMark(wire'[i].mods) >= node[c]
            PROVE  \E k \in Lists' : k <= i /\ c \in DOMAIN wire'[k].mods
                                     /\ wire'[k].mods[c] = node[c]
        <4>1. CASE \E h \in Lists : h <= i /\ EndMark(wire[h].mods) >= node[c]
          <5>1. PICK h \in Lists : h <= i /\ EndMark(wire[h].mods) >= node[c]
            BY <4>1
          <5>2. PICK k \in Lists : k <= h /\ c \in DOMAIN wire[k].mods /\ wire[k].mods[c] = node[c]
            BY <2>1, <3>1, <5>1 DEF Coming
          <5>3. k \in Lists' /\ wire'[k] = wire[k] /\ k <= i
            <6>1. h \in 1..n /\ k \in 1..n /\ i \in 1..(n + 1)
              BY <1>2, <1>6 DEF Lists
            <6>2. QED
              BY <1>2, <1>6, <5>1, <5>2, <6>1
          <5>4. QED
            BY <5>2, <5>3
        <4>2. CASE ~\E h \in Lists : h <= i /\ EndMark(wire[h].mods) >= node[c]
          <5>1. i = n + 1
            BY <1>2, <1>5, <1>6, <3>1, <4>2
          <5>2. \A h \in Lists : h <= i
            BY <1>2, <1>6, <5>1
          <5>3. ~(Pulled >= node[c])
            BY <1>1, <3>1, <4>2, <5>2, PulledIs, TimesOf
          <5>4. e.kind = "list" /\ EndMark(e.mods) >= node[c]
            BY <1>2, <3>1, <5>1 DEF Lists
          <5>5. c \in DOMAIN e.mods /\ e.mods[c] = node[c]
            BY <1>8, <3>1, <5>3, <5>4
          <5>6. QED
            BY <1>2, <3>1, <5>1, <5>5
        <4>3. QED
          BY <4>1, <4>2
      <3>2. QED
        BY <3>1 DEF Coming
    <2>4. Arrived(c)'
      BY <1>7, <2>1 DEF Arrived
    <2>5. QED
      BY <2>2, <2>3, <2>4
  <1>9. ASSUME node[c] = Absent, c \notin astray'
        PROVE  /\ \A i \in DOMAIN wire' : Brings(i, c)' =>
                     \E k \in DOMAIN wire' : i < k /\ Deletes(k, c)'
               /\ c \in onDevice \/ Held(c) # {} => \E k \in DOMAIN wire' : Deletes(k, c)'
    <2>1. /\ \A i \in 1..n : Brings(i, c) => \E k \in 1..n : i < k /\ Deletes(k, c)
          /\ c \in onDevice \/ Held(c) # {} => \E k \in 1..n : Deletes(k, c)
      BY <1>1, <1>2, <1>9 DEF LetsGo
    <2>2. \A i \in 1..n : (Brings(i, c)' <=> Brings(i, c)) /\ (Deletes(i, c)' <=> Deletes(i, c))
      BY <1>2 DEF Brings, Deletes
    <2>3. ~Brings(n + 1, c)'
      BY <1>2, <1>9 DEF Brings
    <2>4. \A i \in 1..n : i \in DOMAIN wire'
      BY <1>2
    <2>5. QED
      BY <1>3, <2>1, <2>2, <2>3, <2>4
  <1>10. KeepsUp(c)'
    BY <1>8 DEF KeepsUp
  <1>11. LetsGo(c)'
    BY <1>7, <1>9 DEF LetsGo
  <1>12. QED
    BY <1>10, <1>11

\* The events are the same: what counts is who holds the contact, and its row.
LEMMA WireStays ==
  ASSUME ContactInv, NEW c \in Contacts, UNCHANGED <<wire, lastmod>>, node'[c] = node[c],
         c \notin late' \union skipped' => c \notin late \union skipped,
         c \notin astray' => c \notin astray,
         \A v \in Held(c)' : v \in Held(c),
         \A v \in Held(c) : \/ v \in Held(c)'
                            \/ c \in late'
                            \/ row'[c] \in Held(c) /\ c \in onDevice',
         row'[c] = row[c] \/ (row'[c] \in Held(c) /\ c \in onDevice'),
         c \in onDevice' => c \in onDevice \/ row'[c] \in Held(c),
         c \in onDevice => c \in onDevice'
  PROVE  KeepsUp(c)' /\ LetsGo(c)'
  <1>1. KeepsUp(c) /\ LetsGo(c)
    BY DEF ContactInv
  <1>2. ASSUME node[c] # Absent, c \notin late' \union skipped'
        PROVE  Early(c)' /\ Coming(c)' /\ Arrived(c)'
    <2>1. Early(c) /\ Coming(c) /\ Arrived(c)
      BY <1>1, <1>2 DEF KeepsUp
    <2>2. Early(c)' /\ Coming(c)'
      BY <2>1 DEF Early, Coming, Outdated, Lists
    <2>3. Arrived(c)'
      <3>1. ASSUME node[c] <= lastmod
            PROVE  /\ Held(c)' \subseteq {node[c]}
                   /\ (row'[c] = node[c] /\ c \in onDevice') \/ Held(c)' # {}
        <4>1. /\ Held(c) \subseteq {node[c]}
              /\ (row[c] = node[c] /\ c \in onDevice) \/ Held(c) # {}
          BY <2>1, <3>1 DEF Arrived
        <4>2. QED
          BY <1>2, <4>1
      <3>2. QED
        BY <3>1 DEF Arrived
    <2>4. QED
      BY <2>2, <2>3
  <1>3. KeepsUp(c)'
    BY <1>2 DEF KeepsUp
  <1>4. LetsGo(c)'
    BY <1>1 DEF LetsGo, Brings, Deletes
  <1>5. QED
    BY <1>3, <1>4

\* The oldest event is handled, and it is not a list.
LEMMA TailKeeps ==
  ASSUME ContactInv, NEW c \in Contacts, wire # <<>>, wire' = Tail(wire),
         Arriving.kind # "list", UNCHANGED <<node, lastmod, jobs, late, skipped>>,
         astray \subseteq astray',
         ~(Arriving.c = c) => row'[c] = row[c] /\ (c \in onDevice' <=> c \in onDevice),
         Arriving.kind = "deleted" /\ Arriving.c = c =>
            c \notin onDevice' /\ (Held(c) = {} \/ c \in astray')
  PROVE  KeepsUp(c)' /\ LetsGo(c)'
  <1>1. ContactTypeOK /\ KeepsUp(c) /\ LetsGo(c)
    BY DEF ContactInv
  <1>2. /\ wire' \in Seq(Event) /\ 1 \in DOMAIN wire /\ Arriving = wire[1]
        /\ \A i \in DOMAIN wire' : i + 1 \in DOMAIN wire /\ wire'[i] = wire[i + 1]
        /\ \A i \in DOMAIN wire : i # 1 => i - 1 \in DOMAIN wire' /\ wire'[i - 1] = wire[i]
    BY <1>1, WireShrinks
  <1>3. /\ \A i \in DOMAIN wire' : i \in Nat /\ i >= 1
        /\ \A i \in DOMAIN wire : i \in Nat /\ i >= 1
    BY <1>1, <1>2, LenProperties DEF ContactTypeOK
  <1>4. Held(c)' = Held(c)
    BY DEF Held
  <1>5. wire[1].kind \in {"new", "deleted"} /\ wire[1].kind # "list" /\ 1 \notin Lists
    BY <1>1, <1>2, WireEvent DEF Event, Lists
  <1>6. ASSUME node[c] # Absent, c \notin late \union skipped
        PROVE  Early(c)' /\ Coming(c)' /\ Arrived(c)'
    <2>1. Early(c) /\ Coming(c) /\ Arrived(c)
      BY <1>1, <1>6 DEF KeepsUp
    <2>2. Early(c)'
      <3>1. ASSUME NEW i \in DOMAIN wire', Outdated(i, c)'
            PROVE  /\ lastmod < node[c]
                   /\ \A k \in Lists' : k < i => EndMark(wire'[k].mods) < node[c]
        <4>1. Outdated(i + 1, c) /\ i + 1 \in DOMAIN wire
          BY <1>2, <3>1 DEF Outdated
        <4>2. \A k \in Lists' : k < i =>
                k + 1 \in Lists /\ k + 1 < i + 1 /\ wire'[k] = wire[k + 1]
          BY <1>2, <1>3 DEF Lists
        <4>3. QED
          BY <2>1, <4>1, <4>2 DEF Early
      <3>2. QED
        BY <3>1 DEF Early
    <2>3. Coming(c)'
      <3>1. ASSUME lastmod < node[c], NEW i \in Lists', EndMark(wire'[i].mods) >= node[c]
            PROVE  \E k \in Lists' : k <= i /\ c \in DOMAIN wire'[k].mods
                                     /\ wire'[k].mods[c] = node[c]
        <4>1. i + 1 \in Lists /\ EndMark(wire[i + 1].mods) >= node[c] /\ i \in Nat
          BY <1>2, <1>3, <3>1 DEF Lists
        <4>2. PICK k \in Lists : k <= i + 1 /\ c \in DOMAIN wire[k].mods
                                 /\ wire[k].mods[c] = node[c]
          BY <2>1, <3>1, <4>1 DEF Coming
        <4>3. k - 1 \in Lists' /\ wire'[k - 1] = wire[k] /\ k - 1 <= i
          BY <1>2, <1>3, <1>5, <4>1, <4>2 DEF Lists
        <4>4. QED
          BY <4>2, <4>3
      <3>2. QED
        BY <3>1 DEF Coming
    <2>4. Arrived(c)'
      <3>1. CASE Arriving.c = c
        <4>1. Outdated(1, c)
          BY <1>2, <1>5, <3>1 DEF Outdated
        <4>2. lastmod < node[c]
          BY <1>2, <2>1, <4>1 DEF Early
        <4>3. QED
          BY <1>1, <4>2, TimesOf DEF Arrived
      <3>2. CASE Arriving.c # c
        BY <1>4, <2>1, <3>2 DEF Arrived
      <3>3. QED
        BY <3>1, <3>2
    <2>5. QED
      BY <2>2, <2>3, <2>4
  <1>7. ASSUME node[c] = Absent, c \notin astray'
        PROVE  /\ \A i \in DOMAIN wire' : Brings(i, c)' =>
                     \E k \in DOMAIN wire' : i < k /\ Deletes(k, c)'
               /\ c \in onDevice' \/ Held(c) # {} => \E k \in DOMAIN wire' : Deletes(k, c)'
    <2>1. /\ \A i \in DOMAIN wire : Brings(i, c) => \E k \in DOMAIN wire : i < k /\ Deletes(k, c)
          /\ c \in onDevice \/ Held(c) # {} => \E k \in DOMAIN wire : Deletes(k, c)
      BY <1>1, <1>7 DEF LetsGo
    <2>2. ASSUME NEW k \in DOMAIN wire, k # 1, Deletes(k, c)
          PROVE  k - 1 \in DOMAIN wire' /\ Deletes(k - 1, c)'
      BY <1>2, <2>2 DEF Deletes
    <2>3. ASSUME NEW i \in DOMAIN wire', Brings(i, c)'
          PROVE  \E k \in DOMAIN wire' : i < k /\ Deletes(k, c)'
      <3>1. Brings(i + 1, c) /\ i + 1 \in DOMAIN wire
        BY <1>2, <2>3 DEF Brings
      <3>2. PICK k \in DOMAIN wire : i + 1 < k /\ Deletes(k, c)
        BY <2>1, <3>1
      <3>3. k # 1 /\ i < k - 1
        BY <1>3, <3>2
      <3>4. QED
        BY <2>2, <3>2, <3>3
    <2>4. ASSUME c \in onDevice' \/ Held(c) # {}
          PROVE  \E k \in DOMAIN wire' : Deletes(k, c)'
      <3>1. CASE wire[1].kind = "deleted" /\ wire[1].c = c
        BY <1>2, <1>7, <2>4, <3>1
      <3>2. CASE wire[1].kind = "new" /\ wire[1].c = c
        <4>1. Brings(1, c)
          BY <3>2 DEF Brings
        <4>2. PICK k \in DOMAIN wire : 1 < k /\ Deletes(k, c)
          BY <1>2, <2>1, <4>1
        <4>3. QED
          BY <2>2, <4>2
      <3>3. CASE wire[1].c # c
        <4>1. c \in onDevice \/ Held(c) # {}
          BY <1>2, <2>4, <3>3
        <4>2. PICK k \in DOMAIN wire : Deletes(k, c)
          BY <2>1, <4>1
        <4>3. k # 1
          BY <3>3, <4>2 DEF Deletes
        <4>4. QED
          BY <2>2, <4>2, <4>3
      <3>4. QED
        BY <1>5, <3>1, <3>2, <3>3
    <2>5. QED
      BY <2>3, <2>4
  <1>8. KeepsUp(c)'
    BY <1>6 DEF KeepsUp
  <1>9. LetsGo(c)'
    BY <1>4, <1>7 DEF LetsGo
  <1>10. QED
    BY <1>8, <1>9

-----------------------------------------------------------------------------
(* Lists that are being written.                                           *)

\* A list joins the others.
LEMMA HeldGrows ==
  ASSUME ContactTypeOK, NEW m \in ModSet, NEW c \in Contacts,
         jobs' = IF DOMAIN m = {} THEN jobs ELSE Append(jobs, m)
  PROVE  /\ jobs' \in Seq(ModSet)
         /\ Held(c)' = Held(c) \union (IF c \in DOMAIN m THEN {m[c]} ELSE {})
  <1>1. jobs \in Seq(ModSet)
    BY DEF ContactTypeOK
  <1>2. CASE DOMAIN m = {}
    BY <1>1, <1>2 DEF Held
  <1>3. CASE DOMAIN m # {}
    <2>1. PICK n \in Nat :
             /\ n = Len(jobs) /\ DOMAIN jobs = 1..n /\ DOMAIN jobs' = 1..(n + 1)
             /\ jobs' \in Seq(ModSet) /\ jobs'[n + 1] = m
             /\ \A i \in 1..n : jobs'[i] = jobs[i]
      BY <1>1, <1>3, AppendProperties, LenProperties
    <2>2. \A i \in 1..(n + 1) : i \in 1..n \/ i = n + 1
      BY <2>1
    <2>3. \A i \in 1..n : i \in 1..(n + 1)
      BY <2>1
    <2>4. ASSUME NEW v PROVE v \in Held(c)' <=> v \in Held(c) \/ (c \in DOMAIN m /\ v = m[c])
      BY <2>1, <2>2, <2>3 DEF Held
    <2>5. QED
      BY <2>1, <2>4
  <1>4. QED
    BY <1>2, <1>3

\* A list is taken from the others.
LEMMA HeldWithout ==
  ASSUME ContactTypeOK, NEW j \in DOMAIN jobs, jobs' = Without(j), NEW c \in Contacts
  PROVE  /\ jobs' \in Seq(ModSet) /\ Held(c)' \subseteq Held(c)
         /\ \A v \in Held(c) : v \in Held(c)' \/ (c \in DOMAIN jobs[j] /\ v = jobs[j][c])
  <1>1. jobs \in Seq(ModSet)
    BY DEF ContactTypeOK
  <1>2. PICK n \in Nat : n = Len(jobs) /\ DOMAIN jobs = 1..n
    BY <1>1, LenProperties
  <1>3. j \in 1..n /\ n - 1 \in Nat
    BY <1>2
  <1>4. jobs' = [i \in 1..(n - 1) |-> IF i < j THEN jobs[i] ELSE jobs[i + 1]]
    BY <1>2 DEF Without
  <1>5. /\ DOMAIN jobs' = 1..(n - 1)
        /\ \A i \in 1..(n - 1) :
              /\ i < j => i \in 1..n /\ jobs'[i] = jobs[i]
              /\ ~(i < j) => i + 1 \in 1..n /\ jobs'[i] = jobs[i + 1]
    BY <1>3, <1>4
  <1>6. jobs' \in Seq(ModSet)
    <2>1. \A i \in 1..(n - 1) : jobs'[i] \in ModSet
      BY <1>1, <1>2, <1>5
    <2>2. QED
      BY <1>3, <1>4, <1>5, <2>1
  <1>7. \A i \in 1..n : i < j => i \in 1..(n - 1) /\ jobs'[i] = jobs[i]
    BY <1>3, <1>5
  <1>8. \A i \in 1..n : i > j => i - 1 \in 1..(n - 1) /\ jobs'[i - 1] = jobs[i]
    <2>1. TAKE i \in 1..n
    <2>2. HAVE i > j
    <2>3. i - 1 \in 1..(n - 1) /\ ~(i - 1 < j) /\ (i - 1) + 1 = i
      BY <1>3, <2>2
    <2>4. QED
      BY <1>5, <2>3
  <1>9. \A i \in 1..n : i < j \/ i > j \/ i = j
    BY <1>3
  <1>10. ASSUME NEW v \in Held(c)' PROVE v \in Held(c)
    <2>1. PICK i \in 1..(n - 1) : c \in DOMAIN jobs'[i] /\ v = jobs'[i][c]
      BY <1>5 DEF Held
    <2>2. CASE i < j
      BY <1>2, <1>5, <2>1, <2>2 DEF Held
    <2>3. CASE ~(i < j)
      BY <1>2, <1>5, <2>1, <2>3 DEF Held
    <2>4. QED
      BY <2>2, <2>3
  <1>11. ASSUME NEW v \in Held(c) PROVE v \in Held(c)' \/ (c \in DOMAIN jobs[j] /\ v = jobs[j][c])
    <2>1. PICK i \in 1..n : c \in DOMAIN jobs[i] /\ v = jobs[i][c]
      BY <1>2 DEF Held
    <2>2. CASE i < j
      BY <1>5, <1>7, <2>1, <2>2 DEF Held
    <2>3. CASE i > j
      BY <1>5, <1>8, <2>1, <2>3 DEF Held
    <2>4. CASE i = j
      BY <2>1, <2>4
    <2>5. QED
      BY <1>9, <2>2, <2>3, <2>4
  <1>12. QED
    BY <1>6, <1>10, <1>11

\* A contact is taken from a list.
LEMMA HeldRest ==
  ASSUME ContactTypeOK, NEW j \in DOMAIN jobs, NEW d \in DOMAIN jobs[j], NEW c \in Contacts,
         jobs' = IF DOMAIN jobs[j] = {d} THEN Without(j) ELSE [jobs EXCEPT ![j] = Rest(j, d)]
  PROVE  /\ jobs' \in Seq(ModSet) /\ Held(c)' \subseteq Held(c)
         /\ c # d => Held(c)' = Held(c)
  <1>1. jobs \in Seq(ModSet) /\ jobs[j] \in ModSet
    BY DEF ContactTypeOK
  <1>2. CASE DOMAIN jobs[j] = {d}
    <2>1. jobs' = Without(j)
      BY <1>2
    <2>2. QED
      BY <1>2, <2>1, HeldWithout
  <1>3. CASE DOMAIN jobs[j] # {d}
    <2>1. jobs' = [jobs EXCEPT ![j] = Rest(j, d)]
      BY <1>3
    <2>2. PICK m \in ModSet : m = Rest(j, d)
      <3>1. /\ DOMAIN jobs[j] \ {d} \in SUBSET Contacts
            /\ \A x \in DOMAIN jobs[j] \ {d} : jobs[j][x] \in Mods
        BY <1>1, ModsOf
      <3>2. Rest(j, d) \in [DOMAIN jobs[j] \ {d} -> Mods]
        BY <3>1 DEF Rest
      <3>3. QED
        BY <3>1, <3>2 DEF ModSet
    <2>3. /\ DOMAIN m = DOMAIN jobs[j] \ {d}
          /\ \A x \in DOMAIN m : m[x] = jobs[j][x]
      BY <2>2 DEF Rest
    <2>4. /\ jobs' \in Seq(ModSet) /\ DOMAIN jobs' = DOMAIN jobs /\ jobs'[j] = m
          /\ \A i \in DOMAIN jobs : i # j => jobs'[i] = jobs[i]
      BY <1>1, <2>1, <2>2
    <2>5. ASSUME NEW v \in Held(c)' PROVE v \in Held(c)
      <3>1. PICK i \in DOMAIN jobs : c \in DOMAIN jobs'[i] /\ v = jobs'[i][c]
        BY <2>4 DEF Held
      <3>2. c \in DOMAIN jobs[i] /\ v = jobs[i][c]
        BY <2>3, <2>4, <3>1
      <3>3. QED
        BY <3>2 DEF Held
    <2>6. ASSUME c # d, NEW v \in Held(c) PROVE v \in Held(c)'
      <3>1. PICK i \in DOMAIN jobs : c \in DOMAIN jobs[i] /\ v = jobs[i][c]
        BY DEF Held
      <3>2. i \in DOMAIN jobs' /\ c \in DOMAIN jobs'[i] /\ v = jobs'[i][c]
        BY <2>3, <2>4, <2>6, <3>1
      <3>3. QED
        BY <3>2 DEF Held
    <2>7. QED
      BY <2>4, <2>5, <2>6
  <1>4. QED
    BY <1>2, <1>3

\* Both subscribers of CONTACTS take a list from the events under way.
LEMMA ListArrivesKeeps ==
  ASSUME ContactInv, ListArrives, NEW c \in Contacts
  PROVE  KeepsUp(c)' /\ LetsGo(c)'
  <1> DEFINE m == Arriving.mods
  <1>1. ContactTypeOK /\ KeepsUp(c) /\ LetsGo(c)
    BY DEF ContactInv
  <1>2. /\ wire # <<>> /\ wire' = Tail(wire) /\ Arriving.kind = "list"
        /\ UNCHANGED <<node, row, onDevice, skipped, astray>>
        /\ late' = late \union {x \in DOMAIN m : \E j \in DOMAIN jobs : x \in DOMAIN jobs[j]}
        /\ lastmod' = Greatest({lastmod, EndMark(m)})
        /\ jobs' = IF DOMAIN m = {} THEN jobs ELSE Append(jobs, m)
    BY DEF ListArrives
  <1>3. /\ wire' \in Seq(Event) /\ 1 \in DOMAIN wire /\ Arriving = wire[1]
        /\ \A i \in DOMAIN wire' : i + 1 \in DOMAIN wire /\ wire'[i] = wire[i + 1]
        /\ \A i \in DOMAIN wire : i # 1 => i - 1 \in DOMAIN wire' /\ wire'[i - 1] = wire[i]
    BY <1>1, <1>2, WireShrinks
  <1>4. /\ \A i \in DOMAIN wire' : i \in Nat /\ i >= 1
        /\ \A i \in DOMAIN wire : i \in Nat /\ i >= 1
    BY <1>1, <1>3, LenProperties DEF ContactTypeOK
  <1>5. m \in ModSet /\ EndMark(m) \in 0..MaxMod /\ 1 \in Lists
    BY <1>1, <1>2, <1>3, WireEvent, EndMarks DEF Lists
  <1>6. /\ lastmod' \in Nat /\ lastmod <= lastmod' /\ EndMark(m) <= lastmod'
        /\ lastmod' = lastmod \/ lastmod' = EndMark(m)
    <2>1. lastmod \in 0..MaxMod
      BY <1>1, ContactAssumption DEF ContactTypeOK, Mods
    <2>2. {lastmod, EndMark(m)} \in SUBSET (0..MaxMod) /\ {lastmod, EndMark(m)} # {}
      <3> HIDE DEF m
      <3>1. QED
        BY <1>5, <2>1
    <2>3. /\ lastmod' \in {lastmod, EndMark(m)}
          /\ \A y \in {lastmod, EndMark(m)} : y <= lastmod'
      <3> HIDE DEF m
      <3>1. QED
        BY <1>2, <2>2, GreatestIs
    <2>4. QED
      BY <1>5, <2>1, <2>3
  <1>7. Held(c)' = Held(c) \union (IF c \in DOMAIN m THEN {m[c]} ELSE {})
    BY <1>1, <1>2, <1>5, HeldGrows
  <1>8. c \in DOMAIN m /\ Held(c) # {} => c \in late'
    BY <1>2 DEF Held
  <1>9. late \subseteq late'
    BY <1>2
  <1> HIDE DEF m
  <1>10. wire[1].mods = m
    BY <1>3 DEF m
  <1>11. ASSUME node[c] # Absent, c \notin late' \union skipped
         PROVE  Early(c)' /\ Coming(c)' /\ Arrived(c)'
    <2>1. Early(c) /\ Coming(c) /\ Arrived(c)
      BY <1>1, <1>9, <1>11 DEF KeepsUp
    <2>2. Early(c)'
      <3>1. ASSUME NEW i \in DOMAIN wire', Outdated(i, c)'
            PROVE  /\ lastmod' < node[c]
                   /\ \A k \in Lists' : k < i => EndMark(wire'[k].mods) < node[c]
        <4>1. Outdated(i + 1, c) /\ i + 1 \in DOMAIN wire /\ 1 < i + 1
          BY <1>2, <1>3, <1>4, <3>1 DEF Outdated
        <4>2. \A k \in Lists' : k < i =>
                k + 1 \in Lists /\ k + 1 < i + 1 /\ wire'[k] = wire[k + 1]
          BY <1>3, <1>4 DEF Lists
        <4>3. EndMark(m) < node[c] /\ lastmod < node[c]
          BY <1>5, <1>10, <2>1, <4>1 DEF Early
        <4>4. QED
          BY <1>6, <2>1, <4>1, <4>2, <4>3 DEF Early
      <3>2. QED
        BY <1>2, <3>1 DEF Early
    <2>3. Coming(c)'
      <3>1. ASSUME lastmod' < node[c], NEW i \in Lists', EndMark(wire'[i].mods) >= node[c]
            PROVE  \E k \in Lists' : k <= i /\ c \in DOMAIN wire'[k].mods
                                     /\ wire'[k].mods[c] = node[c]
        <4>1. i + 1 \in Lists /\ EndMark(wire[i + 1].mods) >= node[c] /\ i \in Nat
          BY <1>3, <1>4, <3>1 DEF Lists
        <4>2. lastmod < node[c]
          BY <1>1, <1>6, <3>1, TimesOf
        <4>3. PICK k \in Lists : k <= i + 1 /\ c \in DOMAIN wire[k].mods
                                 /\ wire[k].mods[c] = node[c]
          BY <2>1, <4>1, <4>2 DEF Coming
        <4>4. k # 1
          <5>1. c \in DOMAIN m => m[c] <= EndMark(m)
            BY <1>5, EndMarks
          <5>2. QED
            BY <1>1, <1>5, <1>6, <1>10, <3>1, <4>3, <5>1, TimesOf
        <4>5. k - 1 \in Lists' /\ wire'[k - 1] = wire[k] /\ k - 1 <= i
          BY <1>3, <1>4, <4>1, <4>3, <4>4 DEF Lists
        <4>6. QED
          BY <4>3, <4>5
      <3>2. QED
        BY <1>2, <3>1 DEF Coming
    <2>4. Arrived(c)'
      <3>1. CASE node[c] <= lastmod
        <4>1. ~Outdated(1, c)
          BY <1>1, <1>3, <2>1, <3>1, TimesOf DEF Early
        <4>2. c \in DOMAIN m => m[c] = node[c]
          BY <1>2, <1>3, <1>10, <4>1 DEF Outdated
        <4>3. QED
          BY <1>2, <1>7, <2>1, <3>1, <4>2 DEF Arrived
      <3>2. CASE lastmod < node[c] /\ node[c] <= lastmod'
        <4>1. EndMark(wire[1].mods) >= node[c]
          BY <1>1, <1>5, <1>6, <1>10, <3>2, TimesOf
        <4>2. PICK k \in Lists : k <= 1 /\ c \in DOMAIN wire[k].mods /\ wire[k].mods[c] = node[c]
          BY <1>5, <2>1, <3>2, <4>1 DEF Coming
        <4>3. k = 1
          BY <1>4, <4>2 DEF Lists
        <4>4. c \in DOMAIN m /\ m[c] = node[c] /\ Held(c) = {}
          BY <1>8, <1>10, <1>11, <4>2, <4>3
        <4>5. Held(c)' = {node[c]}
          BY <1>7, <4>4
        <4>6. QED
          BY <1>2, <4>5 DEF Arrived
      <3>3. CASE ~(node[c] <= lastmod')
        BY <1>2, <3>3 DEF Arrived
      <3>4. QED
        BY <1>1, <1>6, <3>1, <3>2, <3>3, TimesOf
    <2>5. QED
      BY <2>2, <2>3, <2>4
  <1>12. ASSUME node[c] = Absent, c \notin astray
         PROVE  /\ \A i \in DOMAIN wire' : Brings(i, c)' =>
                      \E k \in DOMAIN wire' : i < k /\ Deletes(k, c)'
                /\ c \in onDevice \/ Held(c)' # {} => \E k \in DOMAIN wire' : Deletes(k, c)'
    <2>1. /\ \A i \in DOMAIN wire : Brings(i, c) => \E k \in DOMAIN wire : i < k /\ Deletes(k, c)
          /\ c \in onDevice \/ Held(c) # {} => \E k \in DOMAIN wire : Deletes(k, c)
      BY <1>1, <1>12 DEF LetsGo
    <2>2. ASSUME NEW k \in DOMAIN wire, Deletes(k, c)
          PROVE  k # 1 /\ k - 1 \in DOMAIN wire' /\ Deletes(k - 1, c)'
      <3>1. k # 1
        BY <1>2, <1>3, <2>2 DEF Deletes
      <3>2. QED
        BY <1>3, <2>2, <3>1 DEF Deletes
    <2>3. ASSUME NEW i \in DOMAIN wire', Brings(i, c)'
          PROVE  \E k \in DOMAIN wire' : i < k /\ Deletes(k, c)'
      <3>1. Brings(i + 1, c) /\ i + 1 \in DOMAIN wire
        BY <1>3, <2>3 DEF Brings
      <3>2. PICK k \in DOMAIN wire : i + 1 < k /\ Deletes(k, c)
        BY <2>1, <3>1
      <3>3. i < k - 1
        BY <1>4, <3>2
      <3>4. QED
        BY <2>2, <3>2, <3>3
    <2>4. ASSUME c \in onDevice \/ Held(c)' # {}
          PROVE  \E k \in DOMAIN wire' : Deletes(k, c)'
      <3>1. CASE c \in DOMAIN m
        <4>1. Brings(1, c)
          BY <1>2, <1>3, <1>10, <3>1 DEF Brings
        <4>2. QED
          BY <1>3, <2>1, <2>2, <4>1
      <3>2. CASE c \notin DOMAIN m
        BY <1>7, <2>1, <2>2, <2>4, <3>2
      <3>3. QED
        BY <3>1, <3>2
    <2>5. QED
      BY <2>3, <2>4
  <1>13. KeepsUp(c)'
    BY <1>2, <1>11 DEF KeepsUp
  <1>14. LetsGo(c)'
    BY <1>2, <1>12 DEF LetsGo
  <1>15. QED
    BY <1>13, <1>14

-----------------------------------------------------------------------------
(* The steps.                                                              *)

\* An advert: what the node stamps above everything pulled is in the next pull.
LEMMA NodeHearsKeeps ==
  ASSUME ContactInv, NEW c \in Contacts, NEW t \in Mods, NodeHears(c, t)
  PROVE  ContactInv'
  <1> DEFINE e == [kind |-> "new", c |-> c, mod |-> t]
  <1>1. ContactTypeOK
    BY DEF ContactInv
  <1>2. /\ node' = [node EXCEPT ![c] = t]
        /\ late' = IF t > Pulled THEN late \ {c} ELSE late \union {c}
        /\ skipped' = skipped \ {c}
        /\ wire' = IF node[c] = Absent THEN Append(wire, e) ELSE wire
        /\ UNCHANGED <<lastmod, jobs, row, onDevice, faults, astray>>
    BY DEF NodeHears, Stamped
  <1>3. e \in Event /\ e.kind = "new" /\ e.c = c
    BY DEF Event
  <1> HIDE DEF e
  <1>4. wire' \in Seq(Event)
    BY <1>1, <1>2, <1>3, AppendProperties DEF ContactTypeOK
  <1>5. ContactTypeOK'
    BY <1>1, <1>2, <1>4 DEF ContactTypeOK
  <1>6. node'[c] = t /\ \A d \in Contacts : d # c => node'[d] = node[d]
    BY <1>1, <1>2 DEF ContactTypeOK
  <1>7. \A i \in Lists' : i \in Lists /\ wire'[i] = wire[i]
    <2>1. CASE node[c] = Absent
      <3>1. PICK n \in Nat :
               /\ n = Len(wire) /\ DOMAIN wire = 1..n /\ DOMAIN wire' = 1..(n + 1)
               /\ wire'[n + 1] = e /\ wire' \in Seq(Event)
               /\ \A i \in 1..n : wire'[i] = wire[i]
        BY <1>1, <1>2, <1>3, <2>1, WireGrows
      <3>2. \A i \in 1..(n + 1) : i = n + 1 \/ i \in 1..n
        BY <3>1
      <3>3. QED
        BY <1>3, <3>1, <3>2 DEF Lists
    <2>2. CASE node[c] # Absent
      BY <1>2, <2>2 DEF Lists
    <2>3. QED
      BY <2>1, <2>2
  <1>8. KeepsUp(c)' /\ LetsGo(c)'
    <2>1. LetsGo(c)'
      BY <1>6, ContactAssumption DEF LetsGo, Absent, Mods
    <2>2. ASSUME c \notin late'
          PROVE  Early(c)' /\ Coming(c)' /\ Arrived(c)'
      <3>1. t > Pulled
        BY <1>2, <2>2
      <3>2. /\ Pulled \in Nat /\ t \in Nat /\ lastmod \in Nat /\ lastmod <= Pulled
            /\ \A i \in Lists : EndMark(wire[i].mods) <= Pulled /\ EndMark(wire[i].mods) \in Nat
        BY <1>1, PulledIs, TimesOf, ContactAssumption DEF Mods
      <3>3. lastmod < t /\ ~(t <= lastmod)
        BY <3>1, <3>2
      <3>4. \A i \in Lists' : EndMark(wire'[i].mods) < t /\ ~(EndMark(wire'[i].mods) >= t)
        BY <1>7, <3>1, <3>2
      <3>5. QED
        BY <1>2, <1>6, <3>3, <3>4 DEF Early, Coming, Arrived
    <2>3. KeepsUp(c)'
      BY <2>2 DEF KeepsUp
    <2>4. QED
      BY <2>1, <2>3
  <1>9. ASSUME NEW d \in Contacts, d # c PROVE KeepsUp(d)' /\ LetsGo(d)'
    <2>1. node'[d] = node[d] /\ (d \in late' \union skipped' <=> d \in late \union skipped)
      BY <1>2, <1>6, <1>9
    <2>2. CASE node[c] = Absent
      BY <1>2, <1>3, <1>9, <2>1, <2>2, AppendKeeps
    <2>3. CASE node[c] # Absent
      <3>1. wire' = wire /\ Held(d)' = Held(d)
        BY <1>2, <2>3 DEF Held
      <3>2. QED
        BY <1>2, <2>1, <3>1, WireStays
    <2>4. QED
      BY <2>2, <2>3
  <1>10. QED
    BY <1>5, <1>8, <1>9 DEF ContactInv

\* An eviction: its event is the last one under way.
LEMMA NodeEvictsKeeps ==
  ASSUME ContactInv, NEW c \in Contacts, NodeEvicts(c)
  PROVE  ContactInv'
  <1> DEFINE e == [kind |-> "deleted", c |-> c]
  <1>1. ContactTypeOK
    BY DEF ContactInv
  <1>2. /\ node' = [node EXCEPT ![c] = Absent]
        /\ wire' = Append(wire, e)
        /\ UNCHANGED <<lastmod, jobs, row, onDevice, faults, late, skipped, astray>>
    BY DEF NodeEvicts
  <1>3. e \in Event /\ e.kind = "deleted" /\ e.c = c
    BY DEF Event
  <1> HIDE DEF e
  <1>4. PICK n \in Nat :
           /\ n = Len(wire) /\ DOMAIN wire = 1..n /\ DOMAIN wire' = 1..(n + 1)
           /\ wire'[n + 1] = e /\ wire' \in Seq(Event)
           /\ \A i \in 1..n : wire'[i] = wire[i]
    BY <1>1, <1>2, <1>3, WireGrows
  <1>5. ContactTypeOK'
    BY <1>1, <1>2, <1>4 DEF ContactTypeOK
  <1>6. node'[c] = Absent /\ \A d \in Contacts : d # c => node'[d] = node[d]
    BY <1>1, <1>2 DEF ContactTypeOK
  <1>7. KeepsUp(c)'
    BY <1>6 DEF KeepsUp
  <1>8. LetsGo(c)'
    <2>1. n + 1 \in DOMAIN wire' /\ Deletes(n + 1, c)' /\ ~Brings(n + 1, c)'
      BY <1>3, <1>4 DEF Deletes, Brings
    <2>2. \A i \in DOMAIN wire' : i = n + 1 \/ i < n + 1
      BY <1>4
    <2>3. QED
      BY <2>1, <2>2 DEF LetsGo
  <1>9. ASSUME NEW d \in Contacts, d # c PROVE KeepsUp(d)' /\ LetsGo(d)'
    BY <1>2, <1>3, <1>6, <1>9, AppendKeeps
  <1>10. QED
    BY <1>5, <1>7, <1>8, <1>9 DEF ContactInv

\* A removal that no event follows.
LEMMA ClientRemovesKeeps ==
  ASSUME ContactInv, NEW c \in Contacts, ClientRemoves(c)
  PROVE  ContactInv'
  <1>1. ContactTypeOK
    BY DEF ContactInv
  <1>2. /\ node' = [node EXCEPT ![c] = Absent] /\ astray' = astray \union {c}
        /\ UNCHANGED <<wire, lastmod, jobs, row, onDevice, faults, late, skipped>>
    BY DEF ClientRemoves
  <1>3. ContactTypeOK'
    BY <1>1, <1>2 DEF ContactTypeOK
  <1>4. node'[c] = Absent /\ \A d \in Contacts : d # c => node'[d] = node[d]
    BY <1>1, <1>2 DEF ContactTypeOK
  <1>5. KeepsUp(c)' /\ LetsGo(c)'
    BY <1>2, <1>4 DEF KeepsUp, LetsGo
  <1>6. ASSUME NEW d \in Contacts, d # c PROVE KeepsUp(d)' /\ LetsGo(d)'
    <2>1. Held(d)' = Held(d)
      BY <1>2 DEF Held
    <2>2. QED
      BY <1>2, <1>4, <1>6, <2>1, WireStays
  <1>7. QED
    BY <1>3, <1>5, <1>6 DEF ContactInv

LEMMA RemoveContactKeeps ==
  ASSUME ContactInv, NEW c \in Contacts, RemoveContact(c)
  PROVE  ContactInv'
  <1>1. ContactTypeOK
    BY DEF ContactInv
  <1>2. /\ node' = [node EXCEPT ![c] = Absent] /\ onDevice' = onDevice \ {c}
        /\ astray' = IF Unwritten(c) \/ (\E i \in DOMAIN wire : wire[i].kind = "new" /\ wire[i].c = c)
                     THEN astray \union {c} ELSE astray
        /\ UNCHANGED <<wire, lastmod, jobs, row, faults, late, skipped>>
    BY DEF RemoveContact, MarkRemoved
  <1>3. ContactTypeOK'
    BY <1>1, <1>2 DEF ContactTypeOK
  <1>4. node'[c] = Absent /\ \A d \in Contacts : d # c => node'[d] = node[d]
    BY <1>1, <1>2 DEF ContactTypeOK
  <1>5. KeepsUp(c)'
    BY <1>4 DEF KeepsUp
  <1>6. LetsGo(c)'
    <2>1. ASSUME c \notin astray'
          PROVE  Held(c)' = {} /\ \A i \in DOMAIN wire' : ~Brings(i, c)'
      <3>1. /\ ~Unwritten(c)
            /\ ~\E i \in DOMAIN wire : wire[i].kind = "new" /\ wire[i].c = c
        BY <1>2, <2>1
      <3>2. \A j \in DOMAIN jobs : c \notin DOMAIN jobs[j]
        BY <3>1 DEF Unwritten
      <3>3. Held(c)' = {}
        BY <1>2, <3>2 DEF Held
      <3>4. QED
        BY <1>2, <3>1, <3>3 DEF Unwritten, Lists, Brings
    <2>2. QED
      BY <1>2, <2>1 DEF LetsGo
  <1>7. ASSUME NEW d \in Contacts, d # c PROVE KeepsUp(d)' /\ LetsGo(d)'
    <2>1. Held(d)' = Held(d)
      BY <1>2 DEF Held
    <2>2. QED
      BY <1>2, <1>4, <1>7, <2>1, WireStays
  <1>8. QED
    BY <1>3, <1>5, <1>6, <1>7 DEF ContactInv

\* A list is answered: contacts it leaps over had been pulled, or are skipped.
LEMMA NodeListsKeeps ==
  ASSUME ContactInv, NEW since \in Nat, NodeLists(since), skipped \subseteq skipped',
         \A c \in Contacts :
            c \notin skipped' /\ lastmod < node[c] /\ ~(node[c] > since)
              /\ DOMAIN List(since).mods # {} => Pulled >= node[c]
  PROVE  ContactInv'
  <1>1. ContactTypeOK
    BY DEF ContactInv
  <1>2. /\ wire' = Append(wire, List(since))
        /\ UNCHANGED <<node, lastmod, jobs, row, onDevice, faults, late, astray>>
    BY DEF NodeLists
  <1>3. PICK e \in Event : e = List(since)
    BY <1>1, ListIs
  <1>4. /\ e.kind = "list" /\ e.mods \in ModSet
        /\ \A c \in Contacts : c \in DOMAIN e.mods <=> node[c] > since
        /\ \A c \in DOMAIN e.mods : e.mods[c] = node[c]
    BY <1>1, <1>3, ListIs
  <1>5. wire' \in Seq(Event)
    BY <1>1, <1>2, <1>3, AppendProperties DEF ContactTypeOK
  <1>6. ContactTypeOK'
    BY <1>1, <1>2, <1>5 DEF ContactTypeOK
  <1>7. ASSUME NEW c \in Contacts PROVE KeepsUp(c)' /\ LetsGo(c)'
    <2>1. c \in DOMAIN e.mods => e.mods[c] = node[c] /\ node[c] # Absent
      BY <1>1, <1>4, TimesOf
    <2>2. ASSUME c \notin DOMAIN e.mods, c \notin skipped', lastmod < node[c],
                 EndMark(e.mods) >= node[c]
          PROVE  Pulled >= node[c]
      <3>1. EndMark(e.mods) > 0
        BY <1>1, <1>4, <2>2, EndMarks, TimesOf
      <3>2. DOMAIN e.mods # {} /\ ~(node[c] > since)
        BY <1>4, <2>2, <3>1, EndMarks
      <3>3. QED
        BY <1>3, <2>2, <3>2
    <2>3. wire' = Append(wire, e)
      BY <1>2, <1>3
    <2>4. c \notin late' \union skipped' => c \notin late \union skipped
      BY <1>2
    <2>5. QED
      BY <1>2, <1>4, <2>1, <2>2, <2>3, <2>4, AppendKeeps
  <1>8. QED
    BY <1>6, <1>7 DEF ContactInv

\* A pull begins at _lastmod, a full one at 0: neither leaps over anything.
LEMMA PullsKeep ==
  ASSUME ContactInv, DaemonPulls \/ SyncContacts \/ \E since \in Mods : ClientLists(since)
  PROVE  ContactInv'
  <1>1. ContactTypeOK
    BY DEF ContactInv
  <1>2. lastmod \in Nat /\ \A c \in Contacts : node[c] \in Nat
    BY <1>1, TimesOf, ContactAssumption DEF ContactTypeOK, Mods
  <1>3. CASE DaemonPulls
    BY <1>2, <1>3, NodeListsKeeps DEF DaemonPulls, Since
  <1>4. CASE SyncContacts
    BY <1>2, <1>4, NodeListsKeeps DEF SyncContacts
  <1>5. ASSUME NEW since \in Mods, ClientLists(since) PROVE ContactInv'
    <2>1. since \in Nat /\ NodeLists(since) /\ skipped \subseteq skipped'
      BY <1>5, ContactAssumption DEF ClientLists, Mods
    <2>2. DOMAIN List(since).mods = Listed(since)
      BY DEF List
    <2>3. Pulled \in Nat
      BY <1>1, PulledIs, ContactAssumption
    <2>4. ASSUME NEW c \in Contacts, c \notin skipped', ~(node[c] > since),
                 DOMAIN List(since).mods # {}
          PROVE  Pulled >= node[c]
      BY <1>2, <1>5, <2>1, <2>2, <2>3, <2>4 DEF ClientLists
    <2>5. QED
      BY <2>1, <2>4, NodeListsKeeps
  <1>6. QED
    BY <1>3, <1>4, <1>5

LEMMA ListArrivesInv ==
  ASSUME ContactInv, ListArrives
  PROVE  ContactInv'
  <1>1. ContactTypeOK
    BY DEF ContactInv
  <1>2. /\ wire # <<>> /\ wire' = Tail(wire) /\ Arriving.kind = "list"
        /\ UNCHANGED <<node, row, onDevice>>
        /\ lastmod' = Greatest({lastmod, EndMark(Arriving.mods)})
        /\ jobs' = IF DOMAIN Arriving.mods = {} THEN jobs ELSE Append(jobs, Arriving.mods)
    BY DEF ListArrives
  <1>3. wire' \in Seq(Event) /\ 1 \in DOMAIN wire /\ Arriving = wire[1]
    BY <1>1, <1>2, WireShrinks
  <1>4. Arriving.mods \in ModSet
    BY <1>1, <1>2, <1>3, WireEvent
  <1>5. jobs' \in Seq(ModSet)
    BY <1>1, <1>2, <1>4, AppendProperties DEF ContactTypeOK
  <1>6. lastmod' \in {0} \union Mods
    <2>1. PICK k \in 0..MaxMod : k = EndMark(Arriving.mods)
      BY <1>4, EndMarks
    <2>2. lastmod \in 0..MaxMod
      BY <1>1, ContactAssumption DEF ContactTypeOK, Mods
    <2>3. Greatest({lastmod, k}) \in {lastmod, k}
      BY <2>2, GreatestIs
    <2>4. lastmod' \in 0..MaxMod
      BY <1>2, <2>1, <2>2, <2>3
    <2>5. QED
      BY <2>4, ContactAssumption DEF Mods
  <1>7. ContactTypeOK'
    BY <1>1, <1>2, <1>3, <1>5, <1>6 DEF ContactTypeOK
  <1>8. QED
    BY <1>7, ListArrivesKeeps DEF ContactInv

LEMMA PushesKeep ==
  ASSUME ContactInv, NewContact \/ ContactDeleted
  PROVE  ContactInv'
  <1>1. ContactTypeOK
    BY DEF ContactInv
  <1>2. /\ wire # <<>> /\ wire' = Tail(wire) /\ Arriving.kind # "list"
        /\ UNCHANGED <<node, lastmod, jobs, late, skipped>> /\ astray \subseteq astray'
    BY DEF NewContact, ContactDeleted
  <1>3. wire' \in Seq(Event) /\ 1 \in DOMAIN wire /\ Arriving = wire[1]
    BY <1>1, <1>2, WireShrinks
  <1>4. Arriving \in Event
    BY <1>1, <1>3, WireEvent
  <1>5. CASE NewContact
    <2>1. Arriving.kind = "new" /\ Arriving.c \in Contacts /\ Arriving.mod \in Mods
      BY <1>4, <1>5 DEF NewContact, Event
    <2>2. /\ row' = [row EXCEPT ![Arriving.c] = Arriving.mod]
          /\ onDevice' = onDevice \union {Arriving.c}
      BY <1>5 DEF NewContact, Upsert
    <2>3. ContactTypeOK'
      BY <1>1, <1>2, <1>3, <2>1, <2>2 DEF ContactTypeOK
    <2>4. ASSUME NEW c \in Contacts PROVE KeepsUp(c)' /\ LetsGo(c)'
      <3>1. ~(Arriving.c = c) => row'[c] = row[c] /\ (c \in onDevice' <=> c \in onDevice)
        BY <1>1, <2>2 DEF ContactTypeOK
      <3>2. QED
        BY <1>2, <2>1, <3>1, TailKeeps
    <2>5. QED
      BY <2>3, <2>4 DEF ContactInv
  <1>6. CASE ContactDeleted
    <2>1. Arriving.kind = "deleted" /\ Arriving.c \in Contacts
      BY <1>4, <1>6 DEF ContactDeleted, Event
    <2>2. /\ row' = row /\ onDevice' = onDevice \ {Arriving.c}
          /\ astray' = IF \E j \in DOMAIN jobs : Arriving.c \in DOMAIN jobs[j]
                       THEN astray \union {Arriving.c} ELSE astray
      BY <1>6 DEF ContactDeleted, MarkRemoved
    <2>3. ContactTypeOK'
      BY <1>1, <1>2, <1>3, <2>1, <2>2 DEF ContactTypeOK
    <2>4. ASSUME NEW c \in Contacts PROVE KeepsUp(c)' /\ LetsGo(c)'
      <3>1. ~(Arriving.c = c) => row'[c] = row[c] /\ (c \in onDevice' <=> c \in onDevice)
        BY <2>2
      <3>2. Arriving.c = c => c \notin onDevice' /\ (Held(c) = {} \/ c \in astray')
        BY <2>2 DEF Held
      <3>3. QED
        BY <1>2, <3>1, <3>2, TailKeeps
    <2>5. QED
      BY <2>3, <2>4 DEF ContactInv
  <1>7. QED
    BY <1>5, <1>6

LEMMA WritesOneKeeps ==
  ASSUME ContactInv, NEW j, NEW d \in Contacts, WritesOne(j, d)
  PROVE  ContactInv'
  <1>1. ContactTypeOK /\ j \in DOMAIN jobs /\ d \in DOMAIN jobs[j]
    BY DEF ContactInv, WritesOne
  <1>2. /\ row' = [row EXCEPT ![d] = jobs[j][d]] /\ onDevice' = onDevice \union {d}
        /\ jobs' = IF DOMAIN jobs[j] = {d} THEN Without(j) ELSE [jobs EXCEPT ![j] = Rest(j, d)]
        /\ UNCHANGED <<node, wire, lastmod, faults, late, skipped, astray>>
    BY DEF WritesOne, Upsert
  <1>3. jobs[j][d] \in Mods /\ jobs[j][d] \in Held(d)
    <2>1. jobs[j] \in ModSet
      BY <1>1 DEF ContactTypeOK
    <2>2. QED
      BY <1>1, <2>1, ModsOf DEF Held
  <1>4. ContactTypeOK'
    <2>1. jobs' \in Seq(ModSet)
      BY <1>1, <1>2, HeldRest
    <2>2. QED
      BY <1>1, <1>2, <1>3, <2>1 DEF ContactTypeOK
  <1>5. ASSUME NEW c \in Contacts PROVE KeepsUp(c)' /\ LetsGo(c)'
    <2>1. Held(c)' \subseteq Held(c) /\ (c # d => Held(c)' = Held(c))
      BY <1>1, <1>2, HeldRest
    <2>2. CASE c = d
      <3>1. row'[c] \in Held(c) /\ c \in onDevice'
        BY <1>1, <1>2, <1>3, <2>2 DEF ContactTypeOK
      <3>2. QED
        BY <1>2, <2>1, <3>1, WireStays
    <2>3. CASE c # d
      <3>1. row'[c] = row[c] /\ (c \in onDevice' <=> c \in onDevice) /\ Held(c)' = Held(c)
        BY <1>1, <1>2, <2>1, <2>3 DEF ContactTypeOK
      <3>2. QED
        <4>1. UNCHANGED <<wire, lastmod>> /\ node'[c] = node[c]
          BY <1>2
        <4>2. /\ c \notin late' \union skipped' => c \notin late \union skipped
              /\ c \notin astray' => c \notin astray
          BY <1>2
        <4>3. (\A v \in Held(c)' : v \in Held(c)) /\ (\A v \in Held(c) : v \in Held(c)')
          BY <3>1
        <4>4. /\ c \in onDevice' => c \in onDevice
              /\ c \in onDevice => c \in onDevice'
              /\ row'[c] = row[c]
          BY <3>1
        <4>5. QED
          BY ONLY ContactInv, c \in Contacts, <4>1, <4>2, <4>3, <4>4, WireStays
    <2>4. QED
      BY <2>2, <2>3
  <1>6. QED
    BY <1>4, <1>5 DEF ContactInv

LEMMA WriteFailsKeeps ==
  ASSUME ContactInv, NEW j, WriteFails(j)
  PROVE  ContactInv'
  <1>1. ContactTypeOK /\ j \in DOMAIN jobs
    BY DEF ContactInv, WriteFails
  <1>2. /\ jobs' = Without(j) /\ late' = late \union DOMAIN jobs[j]
        /\ UNCHANGED <<node, wire, lastmod, row, onDevice, skipped, astray>>
    BY DEF WriteFails
  <1>3. jobs' \in Seq(ModSet)
    <2>1. CASE Contacts = {}
      <3>1. jobs \in Seq(ModSet) /\ Len(jobs) \in Nat /\ DOMAIN jobs = 1..Len(jobs)
        BY <1>1, LenProperties DEF ContactTypeOK
      <3>2. /\ Len(jobs) - 1 \in Nat
            /\ \A i \in 1..(Len(jobs) - 1) : Without(j)[i] \in ModSet
        BY <1>1, <3>1 DEF Without
      <3>3. QED
        BY <1>2, <3>2 DEF Without
    <2>2. CASE Contacts # {}
      BY <1>1, <1>2, <2>2, HeldWithout
    <2>3. QED
      BY <2>1, <2>2
  <1>4. ContactTypeOK'
    BY <1>1, <1>2, <1>3 DEF ContactTypeOK
  <1>5. ASSUME NEW c \in Contacts PROVE KeepsUp(c)' /\ LetsGo(c)'
    <2>1. /\ Held(c)' \subseteq Held(c)
          /\ \A v \in Held(c) : v \in Held(c)' \/ (c \in DOMAIN jobs[j] /\ v = jobs[j][c])
      BY <1>1, <1>2, HeldWithout
    <2>2. Held(c) # {} => Held(c)' # {} \/ c \in late'
      BY <1>2, <2>1
    <2>3. c \notin late' \union skipped' => c \notin late \union skipped
      BY <1>2
    <2>4. QED
      BY <1>2, <2>1, <2>2, <2>3, WireStays
  <1>6. QED
    BY <1>4, <1>5 DEF ContactInv

\* What is lost with the events are pulls, which leave _lastmod where it was, and the
\* events of evictions.
LEMMA LossesKeep ==
  ASSUME ContactInv, ContactOutage \/ ContactRestart
  PROVE  ContactInv'
  <1>1. ContactTypeOK
    BY DEF ContactInv
  <1>2. /\ wire' = <<>> /\ astray' = astray \union Evicted
        /\ UNCHANGED <<node, row, onDevice>>
        /\ \/ UNCHANGED <<lastmod, jobs, late, skipped>>
           \/ jobs' = <<>> /\ lastmod' = 0
    BY DEF ContactOutage, ContactRestart
  <1>3. DOMAIN wire' = {} /\ Lists' = {}
    BY <1>2 DEF Lists
  <1>4. wire' \in Seq(Event) /\ jobs' \in Seq(ModSet) /\ lastmod' \in {0} \union Mods
    <2>1. <<>> \in Seq(Event) /\ <<>> \in Seq(ModSet)
      OBVIOUS
    <2>2. jobs \in Seq(ModSet) /\ lastmod \in {0} \union Mods
      BY <1>1 DEF ContactTypeOK
    <2>3. QED
      BY <1>2, <2>1, <2>2
  <1>5. ContactTypeOK'
    BY <1>1, <1>2, <1>4 DEF ContactTypeOK
  <1>6. ASSUME NEW c \in Contacts PROVE KeepsUp(c)' /\ LetsGo(c)'
    <2>1. Held(c)' \subseteq Held(c)
      BY <1>2 DEF Held
    <2>2. Early(c)' /\ Coming(c)'
      BY <1>3 DEF Early, Coming
    <2>3. CASE UNCHANGED <<lastmod, jobs, late, skipped>>
      <3>1. Held(c)' = Held(c)
        BY <2>3 DEF Held
      <3>2. KeepsUp(c)'
        BY <1>2, <2>2, <2>3, <3>1 DEF ContactInv, KeepsUp, Arrived
      <3>3. QED
        BY <1>2, <1>3, <3>1, <3>2 DEF ContactInv, LetsGo, Evicted, Deletes
    <2>4. CASE jobs' = <<>> /\ lastmod' = 0
      <3>1. node'[c] # Absent => ~(node'[c] <= lastmod')
        BY <1>1, <1>2, <2>4, TimesOf
      <3>2. KeepsUp(c)'
        BY <2>2, <3>1 DEF KeepsUp, Arrived
      <3>3. LetsGo(c)'
        BY <1>2, <1>3, <2>1 DEF ContactInv, LetsGo, Evicted, Deletes
      <3>4. QED
        BY <3>2, <3>3
    <2>5. QED
      BY <1>2, <2>3, <2>4
  <1>7. QED
    BY <1>5, <1>6 DEF ContactInv

LEMMA ContactInvInit == ContactInit => ContactInv
  <1> SUFFICES ASSUME ContactInit PROVE ContactInv
    OBVIOUS
  <1> USE DEF ContactInit
  <1>1. ContactTypeOK
    BY DEF ContactTypeOK, Absent
  <1>2. ASSUME NEW c \in Contacts PROVE KeepsUp(c) /\ LetsGo(c)
    <2>1. DOMAIN wire = {} /\ Lists = {} /\ Held(c) = {}
      BY DEF Lists, Held
    <2>2. node[c] # Absent => ~(node[c] <= lastmod)
      BY <1>1, TimesOf
    <2>3. KeepsUp(c)
      BY <2>1, <2>2 DEF KeepsUp, Early, Coming, Arrived
    <2>4. LetsGo(c)
      BY <2>1 DEF LetsGo
    <2>5. QED
      BY <2>3, <2>4
  <1>3. QED
    BY <1>1, <1>2 DEF ContactInv

LEMMA ContactInvStep == ContactInv /\ [ContactNext]_contactVars => ContactInv'
  <1> SUFFICES ASSUME ContactInv, [ContactNext]_contactVars PROVE ContactInv'
    OBVIOUS
  <1>1. ASSUME NEW c \in Contacts, NEW t \in Mods, NodeHears(c, t) PROVE ContactInv'
    BY <1>1, NodeHearsKeeps
  <1>2. ASSUME NEW c \in Contacts, NodeEvicts(c) PROVE ContactInv'
    BY <1>2, NodeEvictsKeeps
  <1>3. ASSUME NEW c \in Contacts, ClientRemoves(c) PROVE ContactInv'
    BY <1>3, ClientRemovesKeeps
  <1>4. ASSUME NEW c \in Contacts, RemoveContact(c) PROVE ContactInv'
    BY <1>4, RemoveContactKeeps
  <1>5. CASE DaemonPulls \/ SyncContacts \/ \E since \in Mods : ClientLists(since)
    BY <1>5, PullsKeep
  <1>6. CASE ListArrives
    BY <1>6, ListArrivesInv
  <1>7. CASE NewContact \/ ContactDeleted
    BY <1>7, PushesKeep
  <1>8. ASSUME NEW j, NEW c \in Contacts, WritesOne(j, c) PROVE ContactInv'
    BY <1>8, WritesOneKeeps
  <1>9. ASSUME NEW j, WriteFails(j) PROVE ContactInv'
    BY <1>9, WriteFailsKeeps
  <1>10. CASE ContactOutage \/ ContactRestart
    BY <1>10, LossesKeep
  <1>11. CASE UNCHANGED contactVars
    <2>1. /\ ContactTypeOK' <=> ContactTypeOK
          /\ Lists' = Lists /\ \A c \in Contacts : Held(c)' = Held(c)
      BY <1>11 DEF contactVars, ContactTypeOK, Lists, Held
    <2>2. ASSUME NEW c \in Contacts PROVE (KeepsUp(c)' <=> KeepsUp(c)) /\ (LetsGo(c)' <=> LetsGo(c))
      <3>1. /\ Early(c)' <=> Early(c)
            /\ Coming(c)' <=> Coming(c)
            /\ Arrived(c)' <=> Arrived(c)
        BY <1>11, <2>1 DEF contactVars, Early, Coming, Arrived, Outdated
      <3>2. LetsGo(c)' <=> LetsGo(c)
        BY <1>11, <2>1 DEF contactVars, LetsGo, Brings, Deletes
      <3>3. QED
        BY <1>11, <3>1, <3>2 DEF contactVars, KeepsUp
    <2>3. QED
      BY <2>1, <2>2 DEF ContactInv
  <1>12. QED
    BY <1>1, <1>2, <1>3, <1>4, <1>5, <1>6, <1>7, <1>8, <1>9, <1>10, <1>11 DEF ContactNext

LEMMA ContactInvAlways == ContactSpec => []ContactInv
  BY ContactInvInit, ContactInvStep, PTL DEF ContactSpec

\* A change of the node's list is in the table, or will be pulled, or is on its way,
\* except those the code gives up: for any number of contacts, seconds and lists.
THEOREM NothingForgotten == ContactSpec => []NoChangeForgotten
  <1>1. ContactInv => NoChangeForgotten
    <2> SUFFICES ASSUME ContactInv, NEW c \in Contacts, node[c] # Absent,
                        c \notin late \union skipped
                 PROVE  Followed(c)
      BY DEF NoChangeForgotten
    <2>1. ContactTypeOK /\ Coming(c) /\ Arrived(c)
      BY DEF ContactInv, KeepsUp
    <2>2. CASE node[c] <= lastmod
      <3>1. CASE Held(c) # {}
        <4>1. Held(c) = {node[c]}
          BY <2>1, <2>2, <3>1 DEF Arrived
        <4>2. QED
          BY <4>1 DEF Held, Followed, Brought
      <3>2. CASE Held(c) = {}
        BY <2>1, <2>2, <3>2 DEF Arrived, Followed
      <3>3. QED
        BY <3>1, <3>2
    <2>3. CASE ~(node[c] <= lastmod)
      <3>1. lastmod < node[c] /\ Pulled \in Nat /\ node[c] \in Nat
        BY <2>1, <2>3, PulledIs, TimesOf
      <3>2. CASE Pulled < node[c]
        BY <3>1, <3>2 DEF Followed
      <3>3. CASE Pulled >= node[c]
        <4>1. PICK i \in Lists : EndMark(wire[i].mods) >= node[c]
          BY <2>1, <2>3, <3>3, PulledIs
        <4>2. PICK k \in Lists : c \in DOMAIN wire[k].mods /\ wire[k].mods[c] = node[c]
          BY <2>1, <3>1, <4>1 DEF Coming
        <4>3. QED
          BY <4>2 DEF Followed, Brought
      <3>4. QED
        BY <3>1, <3>2, <3>3
    <2>4. QED
      BY <2>2, <2>3
  <1>2. QED
    BY <1>1, ContactInvAlways, PTL

\* A contact that left the node is marked so, or the event that says it left is on
\* its way, except where the daemon was not told in order.
THEOREM RemovalsAreNoticed == ContactSpec => []RemovalsNoticed
  <1>1. ContactInv => RemovalsNoticed
    BY DEF ContactInv, ContactTypeOK, LetsGo, RemovalsNoticed, Evicted, Deletes
  <1>2. QED
    BY <1>1, ContactInvAlways, PTL

-----------------------------------------------------------------------------
(* Sums over finite sets.  MapThenSumSet folds a set with a function that   *)
(* is recursive over its subsets; what holds of it for every set follows    *)
(* from a smallest set for which it would not hold.                         *)

\* The sum of the values of h over S, as the community modules fold it.
Total(h, S) == MapThenSumSet(LAMBDA x : h[x], S)
ChosenOf(s) == CHOOSE x \in s : TRUE
FoldStep(g, h, s) == IF s = {} THEN 0 ELSE h[ChosenOf(s)] + g[s \ {ChosenOf(s)}]
Sums(g, h, S) == g = [s \in SUBSET S |-> FoldStep(g, h, s)]

\* A set of subsets of a finite set has one without a smaller one in it.
LEMMA HasMinimal ==
  ASSUME NEW S, IsFiniteSet(S), NEW T \in SUBSET SUBSET S, T # {}
  PROVE  \E s \in T : \A u \in T : u \subseteq s => u = s
  <1>1. T \subseteq FiniteSubsetsOf(S)
    BY FS_Subset DEF FiniteSubsetsOf
  <1>2. PICK s \in T : \A u \in T : ~(<<u, s>> \in StrictSubsetOrdering(S))
    BY <1>1, WFMin, FS_StrictSubsetOrderingWellFounded
  <1>3. QED
    BY <1>2 DEF StrictSubsetOrdering

LEMMA SumsExist ==
  ASSUME NEW S, IsFiniteSet(S), NEW h, \A x \in S : h[x] \in Int
  PROVE  \E g \in [SUBSET S -> Int] : Sums(g, h, S)
  <1> DEFINE Upto(g, n) == \A s \in SUBSET S : Cardinality(s) <= n => g[s] = FoldStep(g, h, s)
             Good == {n \in 0..Cardinality(S) : \E g \in [SUBSET S -> Int] : Upto(g, n)}
  <1>1. /\ Cardinality(S) \in Nat
        /\ \A s \in SUBSET S : IsFiniteSet(s) /\ Cardinality(s) \in Nat /\ Cardinality(s) <= Cardinality(S)
    BY FS_Subset, FS_CardinalityType
  <1>2. \A s \in SUBSET S : s # {} =>
           /\ ChosenOf(s) \in s /\ s \ {ChosenOf(s)} \in SUBSET S
           /\ Cardinality(s \ {ChosenOf(s)}) = Cardinality(s) - 1
    BY <1>1, FS_RemoveElement DEF ChosenOf
  <1>3. ASSUME NEW g \in [SUBSET S -> Int], NEW s \in SUBSET S
        PROVE  FoldStep(g, h, s) \in Int
    <2>1. CASE s # {}
      <3>1. h[ChosenOf(s)] \in Int /\ g[s \ {ChosenOf(s)}] \in Int
        BY <1>2, <2>1
      <3>2. QED
        BY <2>1, <3>1 DEF FoldStep
    <2>2. QED
      BY <2>1 DEF FoldStep
  <1>4. 0 \in Good
    <2>1. PICK g \in [SUBSET S -> Int] : g = [s \in SUBSET S |-> 0]
      <3>1. [s \in SUBSET S |-> 0] \in [SUBSET S -> Int]
        OBVIOUS
      <3>2. QED
        BY <3>1
    <2>2. \A s \in SUBSET S : Cardinality(s) <= 0 => s = {}
      BY <1>1, FS_EmptySet
    <2>3. Upto(g, 0)
      BY <2>1, <2>2 DEF FoldStep
    <2>4. QED
      BY <1>1, <2>3
  <1>5. PICK n \in Good : \A k \in Good : k <= n
    <2>1. Good \subseteq 0..Cardinality(S)
      OBVIOUS
    <2> HIDE DEF Good
    <2>2. Good \in SUBSET Nat /\ Good # {} /\ \A k \in Good : k <= Cardinality(S)
      BY <1>1, <1>4, <2>1
    <2>3. QED
      BY <1>1, <2>2, HasGreatest
  <1>6. PICK g \in [SUBSET S -> Int] : Upto(g, n)
    OBVIOUS
  <1>7. CASE n = Cardinality(S)
    <2>1. \A s \in SUBSET S : g[s] = FoldStep(g, h, s)
      BY <1>1, <1>6, <1>7
    <2>2. g = [s \in SUBSET S |-> FoldStep(g, h, s)]
      BY <2>1
    <2>3. QED
      BY <2>2 DEF Sums
  <1>8. CASE n # Cardinality(S)
    <2>1. PICK g2 \in [SUBSET S -> Int] : \A s \in SUBSET S : g2[s] = FoldStep(g, h, s)
      <3>1. [s \in SUBSET S |-> FoldStep(g, h, s)] \in [SUBSET S -> Int]
        BY <1>3
      <3>2. QED
        BY <3>1
    <2>2. ASSUME NEW s \in SUBSET S, Cardinality(s) <= n + 1
          PROVE  g2[s] = FoldStep(g2, h, s)
      <3>1. CASE s = {}
        BY <2>1, <3>1 DEF FoldStep
      <3>2. CASE s # {}
        <4>1. PICK r \in SUBSET S : r = s \ {ChosenOf(s)} /\ Cardinality(r) = Cardinality(s) - 1
          BY <1>2, <3>2
        <4>2. Cardinality(r) <= n
          BY <1>1, <2>2, <4>1
        <4>3. g2[r] = g[r]
          BY <1>6, <2>1, <4>2
        <4>4. QED
          BY <2>1, <3>2, <4>1, <4>3 DEF FoldStep
      <3>3. QED
        BY <3>1, <3>2
    <2>3. n + 1 \in Good
      BY <1>1, <1>5, <1>8, <2>2
    <2>4. n \in Nat
      BY <1>1
    <2> HIDE DEF Good
    <2>5. QED
      BY <1>5, <2>3, <2>4
  <1>9. QED
    BY <1>7, <1>8

LEMMA SumsAgree ==
  ASSUME NEW S, IsFiniteSet(S), NEW T \in SUBSET S, NEW h, NEW h2,
         \A x \in T : h[x] = h2[x],
         NEW g, Sums(g, h, S), NEW g2, Sums(g2, h2, T)
  PROVE  \A s \in SUBSET T : g[s] = g2[s]
  <1> DEFINE Bad == {s \in SUBSET T : g[s] # g2[s]}
  <1> SUFFICES ASSUME Bad # {} PROVE FALSE
    OBVIOUS
  <1>1. PICK s \in Bad : \A u \in Bad : u \subseteq s => u = s
    <2>1. Bad \in SUBSET SUBSET S
      OBVIOUS
    <2> HIDE DEF Bad
    <2>2. QED
      BY <2>1, HasMinimal
  <1>2. g[s] = FoldStep(g, h, s) /\ g2[s] = FoldStep(g2, h2, s)
    BY DEF Sums
  <1>3. s # {}
    BY <1>2 DEF FoldStep
  <1>4. ChosenOf(s) \in s
    BY <1>3 DEF ChosenOf
  <1>5. s \ {ChosenOf(s)} \notin Bad
    BY <1>1, <1>4
  <1>6. g[s \ {ChosenOf(s)}] = g2[s \ {ChosenOf(s)}]
    BY <1>5
  <1>7. QED
    BY <1>2, <1>3, <1>4, <1>6 DEF FoldStep

LEMMA TotalSums ==
  ASSUME NEW S, IsFiniteSet(S), NEW h, \A x \in S : h[x] \in Int
  PROVE  \E g \in [SUBSET S -> Int] : Sums(g, h, S) /\ Total(h, S) = g[S]
  <1>1. PICK g \in [SUBSET S -> Int] : Sums(g, h, S)
    BY SumsExist
  <1>2. PICK g2 : g2 = CHOOSE f : Sums(f, h, S)
    OBVIOUS
  <1>3. Sums(g2, h, S)
    BY <1>1, <1>2
  <1>4. Total(h, S) = g2[S]
    <2>1. Total(h, S) =
            (CHOOSE f : f = [s \in SUBSET S |-> IF s = {} THEN 0
               ELSE h[CHOOSE x \in s : TRUE] + f[s \ {CHOOSE x \in s : TRUE}]])[S]
      BY DEF Total, MapThenSumSet, MapThenFoldSet
    <2>2. QED
      BY <1>2, <2>1 DEF Sums, FoldStep, ChosenOf
  <1>5. \A s \in SUBSET S : g[s] = g2[s]
    BY <1>1, <1>3, SumsAgree
  <1>6. QED
    BY <1>1, <1>4, <1>5

\* Two functions that agree on S have the same total there.
LEMMA TotalAgrees ==
  ASSUME NEW S, IsFiniteSet(S), NEW h, NEW h2, \A x \in S : h[x] \in Int /\ h2[x] = h[x]
  PROVE  Total(h, S) = Total(h2, S)
  <1>1. PICK g \in [SUBSET S -> Int] : Sums(g, h, S) /\ Total(h, S) = g[S]
    BY TotalSums
  <1>2. PICK g2 \in [SUBSET S -> Int] : Sums(g2, h2, S) /\ Total(h2, S) = g2[S]
    BY TotalSums
  <1>3. QED
    BY <1>1, <1>2, SumsAgree

LEMMA TotalUnfolds ==
  ASSUME NEW S, IsFiniteSet(S), NEW h, \A x \in S : h[x] \in Int
  PROVE  /\ Total(h, S) \in Int
         /\ S = {} => Total(h, S) = 0
         /\ S # {} => Total(h, S) = h[ChosenOf(S)] + Total(h, S \ {ChosenOf(S)})
  <1>1. PICK g \in [SUBSET S -> Int] : Sums(g, h, S) /\ Total(h, S) = g[S]
    BY TotalSums
  <1>2. g[S] = FoldStep(g, h, S)
    BY <1>1 DEF Sums
  <1>3. CASE S # {}
    <2>1. PICK R \in SUBSET S : R = S \ {ChosenOf(S)} /\ IsFiniteSet(R)
      <3>1. S \ {ChosenOf(S)} \in SUBSET S
        OBVIOUS
      <3>2. QED
        BY <3>1, FS_Subset
    <2>2. PICK g2 \in [SUBSET R -> Int] : Sums(g2, h, R) /\ Total(h, R) = g2[R]
      BY <2>1, TotalSums
    <2>3. g[R] = g2[R]
      BY <1>1, <2>1, <2>2, SumsAgree
    <2>4. QED
      BY <1>1, <1>2, <1>3, <2>1, <2>2, <2>3 DEF FoldStep
  <1>4. QED
    BY <1>1, <1>2, <1>3 DEF FoldStep

LEMMA TotalOfZeros ==
  ASSUME NEW S, IsFiniteSet(S), NEW h, \A x \in S : h[x] = 0
  PROVE  Total(h, S) = 0
  <1>1. PICK g \in [SUBSET S -> Int] : Sums(g, h, S) /\ Total(h, S) = g[S]
    <2>1. \A x \in S : h[x] \in Int
      OBVIOUS
    <2>2. QED
      BY <2>1, TotalSums
  <1> DEFINE Bad == {s \in SUBSET S : g[s] # 0}
  <1> SUFFICES ASSUME Bad # {} PROVE FALSE
    BY <1>1
  <1>2. PICK s \in Bad : \A u \in Bad : u \subseteq s => u = s
    <2>1. Bad \in SUBSET SUBSET S
      OBVIOUS
    <2> HIDE DEF Bad
    <2>2. QED
      BY <2>1, HasMinimal
  <1>3. g[s] = FoldStep(g, h, s)
    BY <1>1 DEF Sums
  <1>4. s # {}
    BY <1>3 DEF FoldStep
  <1>5. ChosenOf(s) \in s
    BY <1>4 DEF ChosenOf
  <1>6. g[s \ {ChosenOf(s)}] = 0
    BY <1>2, <1>5
  <1>7. QED
    BY <1>3, <1>4, <1>5, <1>6 DEF FoldStep

\* The order in which the elements are chosen does not matter.
LEMMA TotalSplits ==
  ASSUME NEW S, IsFiniteSet(S), NEW h, \A x \in S : h[x] \in Int, NEW e \in S
  PROVE  Total(h, S) = h[e] + Total(h, S \ {e})
  <1> DEFINE Bad == {s \in SUBSET S : \E x \in s : Total(h, s) # h[x] + Total(h, s \ {x})}
  <1> SUFFICES ASSUME Bad # {} PROVE FALSE
    OBVIOUS
  <1>1. PICK s \in Bad : \A u \in Bad : u \subseteq s => u = s
    <2>1. Bad \in SUBSET SUBSET S
      OBVIOUS
    <2> HIDE DEF Bad
    <2>2. QED
      BY <2>1, HasMinimal
  <1>2. PICK x \in s : Total(h, s) # h[x] + Total(h, s \ {x})
    OBVIOUS
  <1>3. PICK c \in s : c = ChosenOf(s)
    BY DEF ChosenOf
  <1>4. \A u \in SUBSET s : IsFiniteSet(u) /\ Total(h, u) \in Int
    <2>1. \A u \in SUBSET s : IsFiniteSet(u) /\ \A y \in u : h[y] \in Int
      BY FS_Subset
    <2>2. QED
      BY <2>1, TotalUnfolds
  <1>5. Total(h, s) = h[c] + Total(h, s \ {c})
    BY <1>3, <1>4, TotalUnfolds
  <1>6. c # x
    BY <1>2, <1>5
  <1>7. s \ {c} \notin Bad /\ s \ {x} \notin Bad
    BY <1>1
  <1>8. Total(h, s \ {c}) = h[x] + Total(h, (s \ {c}) \ {x})
    BY <1>2, <1>6, <1>7
  <1>9. Total(h, s \ {x}) = h[c] + Total(h, (s \ {x}) \ {c})
    BY <1>2, <1>6, <1>7
  <1>10. PICK r \in SUBSET s : r = (s \ {c}) \ {x} /\ r = (s \ {x}) \ {c}
    OBVIOUS
  <1>11. h[x] \in Int /\ h[c] \in Int /\ Total(h, r) \in Int
    BY <1>4
  <1>12. Total(h, s) = h[c] + (h[x] + Total(h, r))
    BY <1>5, <1>8, <1>10
  <1>13. h[x] + Total(h, s \ {x}) = h[x] + (h[c] + Total(h, r))
    BY <1>9, <1>10
  <1>14. h[c] + (h[x] + Total(h, r)) = h[x] + (h[c] + Total(h, r))
    BY <1>11
  <1>15. QED
    BY <1>2, <1>12, <1>13, <1>14

-----------------------------------------------------------------------------
(* PacketStats: hours count what was received, and a sweep clears the log. *)

SnrValues == Snrs \union {NoSnr}
StatsRow == [count : Nat, sum : Int, min : SnrValues, max : SnrValues]

StatsTypeOK ==
  /\ clock \in Nat
  /\ packet \in [Packets -> [ts : {-1} \union Nat, snr : SnrValues]]
  /\ logging \subseteq Packets /\ raw \subseteq Packets /\ counted \subseteq Packets
  /\ hourly \in [Buckets -> StatsRow]
  /\ sweep \in {"idle", "pruning"} /\ cutoff \in Nat

\* What was received is under way, counted or cut, and never two of them.
Accounted ==
  /\ Received = logging \union counted \union cut
  /\ logging \intersect counted = {} /\ logging \intersect cut = {}
  /\ counted \intersect cut = {}
  /\ raw \subseteq Received
  /\ \A p \in Received : packet[p].ts <= clock

HourCounts(b) ==
  /\ IsFiniteSet(In(b, counted))
  /\ hourly[b].count = Cardinality(In(b, counted))

\* The extremes of an hour without packets are NULL.
HourExtremes(b) ==
  /\ In(b, counted) = {} => hourly[b].min = NoSnr /\ hourly[b].max = NoSnr
  /\ In(b, counted) # {} /\ NoSnr \notin SnrsIn(b) =>
       /\ hourly[b].min \in SnrsIn(b) /\ \A x \in SnrsIn(b) : hourly[b].min <= x
       /\ hourly[b].max \in SnrsIn(b) /\ \A x \in SnrsIn(b) : hourly[b].max >= x

\* The sum of an hour is that of the SNRs of its packets.
SnrOf == [p \in Packets |-> OrZero(packet[p].snr)]
HourSums(b) == hourly[b].sum = Total(SnrOf, In(b, counted))

\* The counts of the hours of a day add up to the count of its packets.
Days == {DayOf(b) : b \in Buckets}
CountOf == [b \in Buckets |-> hourly[b].count]
HoursOf(day) == {b \in Buckets : DayOf(b) = day}
DayPackets(day) == {p \in counted : DayOf(BucketOf(packet[p].ts)) = day}
DayAdds(day) ==
  /\ IsFiniteSet(DayPackets(day))
  /\ Total(CountOf, HoursOf(day)) = Cardinality(DayPackets(day))

AggregatesOK ==
  /\ \A b \in Buckets : HourCounts(b) /\ HourExtremes(b) /\ HourSums(b)
  /\ \A day \in Days : DayAdds(day)

StatsInv ==
  /\ StatsTypeOK /\ Accounted /\ cutoff <= clock /\ clock <= MaxClock
  /\ sweep = "idle" => Old = {}
  /\ AggregatesOK

LEMMA ExtremesOf ==
  ASSUME NEW S \in SUBSET Int
  PROVE  /\ \A m \in S : (\A x \in S : m <= x) => Min(S) = m
         /\ \A m \in S : (\A x \in S : m >= x) => Max(S) = m
  <1>1. ASSUME NEW m \in S, \A x \in S : m <= x PROVE Min(S) = m
    <2>1. Min(S) \in S /\ \A y \in S : Min(S) <= y
      BY <1>1 DEF Min
    <2>2. Min(S) <= m /\ m <= Min(S) /\ m \in Int /\ Min(S) \in Int
      BY <1>1, <2>1
    <2>3. QED
      BY <2>2
  <1>2. ASSUME NEW m \in S, \A x \in S : m >= x PROVE Max(S) = m
    <2>1. Max(S) \in S /\ \A y \in S : Max(S) >= y
      BY <1>2 DEF Max
    <2>2. Max(S) >= m /\ m >= Max(S) /\ m \in Int /\ Max(S) \in Int
      BY <1>2, <2>1
    <2>3. QED
      BY <2>2
  <1>3. QED
    BY <1>1, <1>2

\* The scalar MIN and MAX of two SNRs.
LEMMA ScalarsAre ==
  ASSUME NEW a \in SnrValues, NEW b \in SnrValues
  PROVE  /\ ScalarMin(a, b) \in SnrValues /\ ScalarMax(a, b) \in SnrValues
         /\ a # NoSnr /\ b # NoSnr =>
              /\ ScalarMin(a, b) \in {a, b} /\ ScalarMin(a, b) <= a /\ ScalarMin(a, b) <= b
              /\ ScalarMax(a, b) \in {a, b} /\ ScalarMax(a, b) >= a /\ ScalarMax(a, b) >= b
  <1>1. CASE NoSnr \in {a, b}
    BY <1>1 DEF ScalarMin, ScalarMax, SnrValues
  <1>2. CASE NoSnr \notin {a, b}
    <2>1. a \in Int /\ b \in Int /\ {a, b} \in SUBSET Int
      BY <1>2, StatsAssumption DEF SnrValues
    <2>2. ScalarMin(a, b) = Min({a, b}) /\ ScalarMax(a, b) = Max({a, b})
      BY <1>2 DEF ScalarMin, ScalarMax
    <2>3. CASE a <= b
      <3>1. Min({a, b}) = a /\ Max({a, b}) = b
        <4>1. a \in {a, b} /\ (\A x \in {a, b} : a <= x)
          BY <2>1, <2>3
        <4>2. b \in {a, b} /\ (\A x \in {a, b} : b >= x)
          BY <2>1, <2>3
        <4>3. QED
          BY <2>1, <4>1, <4>2, ExtremesOf
      <3>2. QED
        BY <2>1, <2>2, <2>3, <3>1
    <2>4. CASE ~(a <= b)
      <3>1. Min({a, b}) = b /\ Max({a, b}) = a
        <4>1. b \in {a, b} /\ (\A x \in {a, b} : b <= x)
          BY <2>1, <2>4
        <4>2. a \in {a, b} /\ (\A x \in {a, b} : a >= x)
          BY <2>1, <2>4
        <4>3. QED
          BY <2>1, <4>1, <4>2, ExtremesOf
      <3>2. QED
        BY <2>1, <2>2, <2>4, <3>1
    <2>5. QED
      BY <2>3, <2>4
  <1>3. QED
    BY <1>1, <1>2

\* The upsert of the aggregate.
LEMMA AggregatedIs ==
  ASSUME NEW old \in StatsRow, NEW snr \in SnrValues
  PROVE  Aggregated(old, snr) \in StatsRow
  <1>1. Coalesce(old.min, snr) \in SnrValues /\ Coalesce(old.max, snr) \in SnrValues
    BY DEF Coalesce, StatsRow
  <1>2. /\ ScalarMin(Coalesce(old.min, snr), snr) \in SnrValues
        /\ ScalarMax(Coalesce(old.max, snr), snr) \in SnrValues
    BY <1>1, ScalarsAre
  <1>3. OrZero(snr) \in Int
    BY StatsAssumption DEF OrZero, SnrValues
  <1>4. old.count + 1 \in Nat /\ old.sum + OrZero(snr) \in Int
    BY <1>3 DEF StatsRow
  <1>5. QED
    BY <1>1, <1>2, <1>4 DEF Aggregated, StatsRow

LEMMA ZeroOr == \A snr \in SnrValues : OrZero(snr) \in Int
  BY StatsAssumption DEF OrZero, SnrValues

\* There are finitely many hours.
LEMMA HoursFinite == IsFiniteSet(Buckets)
  <1>1. PICK f : f = [t \in 0..MaxClock |-> BucketOf(t)]
    OBVIOUS
  <1>2. f \in Surjection(0..MaxClock, Buckets)
    BY <1>1 DEF Surjection, Buckets
  <1>3. IsFiniteSet(0..MaxClock)
    BY FS_Interval, StatsAssumption
  <1>4. QED
    BY <1>2, <1>3, FS_Surjection

-----------------------------------------------------------------------------
(* PacketStats: the steps.                                                 *)

\* What says nothing of the hours: only the sets of packets that are not counted.
LEMMA HoursStay ==
  ASSUME StatsInv, UNCHANGED <<hourly, counted>>,
         \A p \in counted : packet'[p] = packet[p]
  PROVE  AggregatesOK'
  <1>1. ASSUME NEW b \in Buckets PROVE HourCounts(b)' /\ HourExtremes(b)' /\ HourSums(b)'
    <2>1. In(b, counted)' = In(b, counted) /\ In(b, counted) \subseteq counted
      BY DEF In
    <2>2. SnrsIn(b)' = SnrsIn(b)
      BY <2>1 DEF SnrsIn
    <2>3. HourCounts(b) /\ HourExtremes(b) /\ HourSums(b)
      BY DEF StatsInv, AggregatesOK
    <2>4. \A p \in In(b, counted) : SnrOf[p] \in Int /\ SnrOf'[p] = SnrOf[p]
      <3>1. \A p \in counted : p \in Packets /\ packet[p].snr \in SnrValues
        BY DEF StatsInv, StatsTypeOK
      <3>2. QED
        BY <2>1, <3>1, ZeroOr DEF SnrOf
    <2>5. Total(SnrOf, In(b, counted)) = Total(SnrOf', In(b, counted))
      BY <2>3, <2>4, TotalAgrees DEF HourCounts
    <2>6. QED
      BY <2>1, <2>2, <2>3, <2>5 DEF HourCounts, HourExtremes, HourSums
  <1>2. ASSUME NEW day \in Days PROVE DayAdds(day)'
    <2>1. DayAdds(day)
      BY DEF StatsInv, AggregatesOK
    <2>2. DayPackets(day)' = DayPackets(day) /\ CountOf' = CountOf
      BY DEF DayPackets, CountOf
    <2>3. QED
      BY <2>1, <2>2 DEF DayAdds
  <1>3. QED
    BY <1>1, <1>2 DEF AggregatesOK

LEMMA LogsPacketKeeps ==
  ASSUME StatsInv, NEW p \in Packets, NEW snr \in SnrValues, LogsPacket(p, snr)
  PROVE  StatsInv'
  <1>1. StatsTypeOK /\ Accounted /\ cutoff <= clock /\ (sweep = "idle" => Old = {})
    BY DEF StatsInv
  <1>2. /\ p \notin Received
        /\ packet' = [packet EXCEPT ![p] = [ts |-> clock, snr |-> snr]]
        /\ raw' = raw \union {p} /\ logging' = logging \union {p}
        /\ UNCHANGED <<clock, hourly, sweep, cutoff, failures, counted, cut>>
    BY DEF LogsPacket
  <1>3. StatsTypeOK'
    BY <1>1, <1>2 DEF StatsTypeOK
  <1>4. /\ packet'[p].ts = clock
        /\ \A q \in Packets : q # p => packet'[q] = packet[q]
    BY <1>1, <1>2 DEF StatsTypeOK
  <1>5. Received' = Received \union {p}
    BY <1>1, <1>4 DEF Received, StatsTypeOK
  <1>6. Accounted'
    BY <1>1, <1>2, <1>4, <1>5 DEF Accounted, StatsTypeOK
  <1>7. sweep' = "idle" => Old' = {}
    BY <1>1, <1>2, <1>4 DEF Old, StatsTypeOK
  <1>8. \A q \in counted : packet'[q] = packet[q]
    BY <1>1, <1>2, <1>4 DEF Accounted, StatsTypeOK
  <1>9. QED
    BY <1>1, <1>2, <1>3, <1>6, <1>7, <1>8, HoursStay DEF StatsInv

\* The upsert adds the SNR of the packet to the sum of its hour.
LEMMA AggregatesSums ==
  ASSUME StatsInv, NEW p \in Packets, Aggregates(p), NEW b \in Buckets
  PROVE  HourSums(b)'
  <1>1. StatsTypeOK /\ Accounted /\ HourCounts(b) /\ HourSums(b)
    BY DEF StatsInv, AggregatesOK
  <1>2. /\ p \in logging
        /\ hourly' = [hourly EXCEPT ![HourOf(p)] = Aggregated(hourly[HourOf(p)], packet[p].snr)]
        /\ counted' = counted \union {p} /\ packet' = packet
    BY DEF Aggregates
  <1>3. SnrOf' = SnrOf /\ \A q \in Packets : SnrOf[q] \in Int
    BY <1>1, <1>2, ZeroOr DEF SnrOf, StatsTypeOK
  <1>4. CASE b # HourOf(p)
    <2>1. In(b, counted)' = In(b, counted)
      BY <1>2, <1>4 DEF In, HourOf
    <2>2. hourly'[b] = hourly[b]
      BY <1>1, <1>2, <1>4 DEF StatsTypeOK
    <2>3. QED
      BY <1>1, <1>3, <2>1, <2>2 DEF HourSums
  <1>5. CASE b = HourOf(p)
    <2>1. PICK S : S = In(b, counted) /\ IsFiniteSet(S) /\ S \subseteq Packets /\ p \notin S
      BY <1>1, <1>2 DEF In, HourCounts, Accounted, StatsTypeOK
    <2>2. In(b, counted)' = S \union {p}
      BY <1>2, <1>5, <2>1 DEF In, HourOf
    <2>3. IsFiniteSet(S \union {p}) /\ (S \union {p}) \ {p} = S
      BY <2>1, FS_AddElement
    <2>4. Total(SnrOf, S \union {p}) = SnrOf[p] + Total(SnrOf, S)
      <3>1. \A q \in S \union {p} : SnrOf[q] \in Int
        BY <1>3, <2>1
      <3>2. Total(SnrOf, S \union {p}) = SnrOf[p] + Total(SnrOf, (S \union {p}) \ {p})
        BY <2>3, <3>1, TotalSplits
      <3>3. QED
        BY <2>3, <3>2
    <2>5. hourly'[b].sum = hourly[b].sum + SnrOf[p]
      <3>1. hourly'[b] = Aggregated(hourly[b], packet[p].snr)
        BY <1>1, <1>2, <1>5 DEF StatsTypeOK
      <3>2. QED
        BY <3>1 DEF Aggregated, SnrOf
    <2>6. Total(SnrOf, S) \in Int /\ SnrOf[p] \in Int
      BY <1>3, <2>1, TotalUnfolds
    <2>7. QED
      BY <1>1, <1>3, <2>1, <2>2, <2>4, <2>5, <2>6 DEF HourSums
  <1>6. QED
    BY <1>4, <1>5

\* The upsert adds one to the day of the packet.
LEMMA AggregatesAdds ==
  ASSUME StatsInv, NEW p \in Packets, Aggregates(p), NEW day \in Days
  PROVE  DayAdds(day)'
  <1>1. StatsTypeOK /\ Accounted /\ clock <= MaxClock /\ DayAdds(day)
    BY DEF StatsInv, AggregatesOK
  <1>2. /\ p \in logging
        /\ hourly' = [hourly EXCEPT ![HourOf(p)] = Aggregated(hourly[HourOf(p)], packet[p].snr)]
        /\ counted' = counted \union {p} /\ packet' = packet
    BY DEF Aggregates
  <1>3. PICK h \in Buckets : h = HourOf(p)
    <2>1. packet[p].ts \in 0..MaxClock
      BY <1>1, <1>2, StatsAssumption DEF Accounted, Received, StatsTypeOK
    <2>2. QED
      BY <2>1 DEF HourOf, Buckets
  <1>4. /\ \A b \in Buckets : CountOf[b] \in Int /\ CountOf'[b] \in Int
        /\ \A b \in Buckets : b # h => CountOf'[b] = CountOf[b]
        /\ CountOf'[h] = CountOf[h] + 1
    <2>1. \A b \in Buckets : hourly[b] \in StatsRow /\ hourly[b].count \in Nat
      BY <1>1 DEF StatsTypeOK, StatsRow
    <2>2. \A b \in Buckets :
             hourly'[b] = IF b = h THEN Aggregated(hourly[h], packet[p].snr) ELSE hourly[b]
      BY <1>1, <1>2, <1>3 DEF StatsTypeOK
    <2>3. Aggregated(hourly[h], packet[p].snr).count = hourly[h].count + 1
      BY DEF Aggregated
    <2>4. \A b \in Buckets : CountOf[b] = hourly[b].count /\ CountOf'[b] = hourly'[b].count
      BY DEF CountOf
    <2>5. QED
      BY <2>1, <2>2, <2>3, <2>4
  <1>5. PICK H \in SUBSET Buckets : H = HoursOf(day) /\ IsFiniteSet(H)
    <2>1. HoursOf(day) \in SUBSET Buckets
      BY DEF HoursOf
    <2>2. QED
      BY <2>1, HoursFinite, FS_Subset
  <1>6. PICK D : D = DayPackets(day) /\ IsFiniteSet(D) /\ Total(CountOf, H) = Cardinality(D)
    BY <1>1, <1>5 DEF DayAdds
  <1>7. p \notin D
    BY <1>1, <1>2, <1>6 DEF DayPackets, Accounted
  <1>8. CASE h \notin H
    <2>1. DayPackets(day)' = D
      BY <1>2, <1>3, <1>5, <1>6, <1>8 DEF DayPackets, HoursOf, HourOf
    <2>2. Total(CountOf, H) = Total(CountOf', H)
      <3>1. \A b \in H : CountOf[b] \in Int /\ CountOf'[b] = CountOf[b]
        BY <1>4, <1>5, <1>8
      <3>2. QED
        BY <1>5, <3>1, TotalAgrees
    <2>3. QED
      BY <1>5, <1>6, <2>1, <2>2 DEF DayAdds
  <1>9. CASE h \in H
    <2>1. DayPackets(day)' = D \union {p}
      BY <1>2, <1>3, <1>5, <1>6, <1>9 DEF DayPackets, HoursOf, HourOf
    <2>2. IsFiniteSet(D \union {p}) /\ Cardinality(D \union {p}) = Cardinality(D) + 1
      BY <1>6, <1>7, FS_AddElement
    <2>3. PICK R \in SUBSET H : R = H \ {h} /\ IsFiniteSet(R)
      <3>1. H \ {h} \in SUBSET H
        OBVIOUS
      <3>2. QED
        BY <1>5, <3>1, FS_Subset
    <2>4. Total(CountOf, R) = Total(CountOf', R) /\ Total(CountOf, R) \in Int
      <3>1. \A b \in R : CountOf[b] \in Int /\ CountOf'[b] = CountOf[b]
        BY <1>4, <1>5, <2>3
      <3>2. QED
        BY <2>3, <3>1, TotalAgrees, TotalUnfolds
    <2>5. Total(CountOf, H) = CountOf[h] + Total(CountOf, R)
      <3>1. \A b \in H : CountOf[b] \in Int
        BY <1>4, <1>5
      <3>2. QED
        BY <1>5, <1>9, <2>3, <3>1, TotalSplits
    <2>6. Total(CountOf', H) = CountOf'[h] + Total(CountOf', R)
      <3>1. \A b \in H : CountOf'[b] \in Int
        BY <1>4, <1>5
      <3>2. QED
        BY <1>5, <1>9, <2>3, <3>1, TotalSplits
    <2>7. CountOf[h] \in Int
      BY <1>3, <1>4
    <2>8. Total(CountOf', H) = Total(CountOf, H) + 1
      BY <1>4, <2>4, <2>5, <2>6, <2>7
    <2>9. QED
      BY <1>5, <1>6, <2>1, <2>2, <2>8 DEF DayAdds
  <1>10. QED
    BY <1>8, <1>9

\* The upsert: the hour of the packet counts it once.
LEMMA AggregatesKeeps ==
  ASSUME StatsInv, NEW p \in Packets, Aggregates(p)
  PROVE  StatsInv'
  <1>1. /\ StatsTypeOK /\ Accounted /\ cutoff <= clock /\ clock <= MaxClock
        /\ sweep = "idle" => Old = {}
    BY DEF StatsInv
  <1>2. /\ p \in logging
        /\ hourly' = [hourly EXCEPT ![HourOf(p)] = Aggregated(hourly[HourOf(p)], packet[p].snr)]
        /\ logging' = logging \ {p} /\ counted' = counted \union {p}
        /\ UNCHANGED <<clock, packet, raw, sweep, cutoff, failures, cut>>
    BY DEF Aggregates
  <1>3. PICK snr \in SnrValues : snr = packet[p].snr
    BY <1>1 DEF StatsTypeOK
  <1>4. \A b \in Buckets :
           /\ hourly[b] \in StatsRow
           /\ hourly'[b] = IF b = HourOf(p) THEN Aggregated(hourly[b], snr) ELSE hourly[b]
    BY <1>1, <1>2, <1>3 DEF StatsTypeOK
  <1>5. StatsTypeOK'
    <2>1. \A b \in Buckets : hourly'[b] \in StatsRow
      BY <1>4, AggregatedIs
    <2>2. hourly' \in [Buckets -> StatsRow]
      BY <1>1, <1>2, <2>1 DEF StatsTypeOK
    <2>3. QED
      BY <1>1, <1>2, <2>2 DEF StatsTypeOK
  <1>6. Accounted' /\ Received' = Received
    BY <1>1, <1>2 DEF Accounted, Received
  <1>7. Old' = Old
    BY <1>2 DEF Old
  <1>8. ASSUME NEW b \in Buckets PROVE HourCounts(b)' /\ HourExtremes(b)'
    <2>1. HourCounts(b) /\ HourExtremes(b)
      BY DEF StatsInv, AggregatesOK
    <2>2. CASE b # HourOf(p)
      <3>1. In(b, counted)' = In(b, counted)
        BY <1>2, <2>2 DEF In, HourOf
      <3>2. SnrsIn(b)' = SnrsIn(b)
        BY <1>2, <3>1 DEF SnrsIn
      <3>3. hourly'[b] = hourly[b]
        BY <1>4, <2>2
      <3>4. QED
        BY <2>1, <3>1, <3>2, <3>3 DEF HourCounts, HourExtremes
    <2>3. CASE b = HourOf(p)
      <3>1. In(b, counted)' = In(b, counted) \union {p} /\ p \notin In(b, counted)
        BY <1>1, <1>2, <2>3 DEF In, HourOf, Accounted
      <3>2. SnrsIn(b)' = SnrsIn(b) \union {snr}
        BY <1>2, <1>3, <3>1 DEF SnrsIn
      <3>3. /\ hourly'[b].count = hourly[b].count + 1
            /\ hourly'[b].min = ScalarMin(Coalesce(hourly[b].min, snr), snr)
            /\ hourly'[b].max = ScalarMax(Coalesce(hourly[b].max, snr), snr)
        <4>1. PICK old \in StatsRow : old = hourly[b]
          BY <1>4
        <4>2. hourly'[b] = Aggregated(old, snr)
          BY <1>4, <2>3, <4>1
        <4>3. /\ Aggregated(old, snr).count = old.count + 1
              /\ Aggregated(old, snr).min = ScalarMin(Coalesce(old.min, snr), snr)
              /\ Aggregated(old, snr).max = ScalarMax(Coalesce(old.max, snr), snr)
          BY DEF Aggregated
        <4>4. QED
          BY <4>1, <4>2, <4>3
      <3>4. HourCounts(b)'
        BY <2>1, <3>1, <3>3, FS_AddElement DEF HourCounts
      <3>5. ASSUME NoSnr \notin SnrsIn(b) \union {snr}
            PROVE  /\ hourly'[b].min \in SnrsIn(b) \union {snr}
                   /\ \A x \in SnrsIn(b) \union {snr} : hourly'[b].min <= x
                   /\ hourly'[b].max \in SnrsIn(b) \union {snr}
                   /\ \A x \in SnrsIn(b) \union {snr} : hourly'[b].max >= x
        <4>1. SnrsIn(b) \subseteq Int /\ snr \in Int /\ snr # NoSnr
          <5>1. SnrsIn(b) \subseteq SnrValues
            BY <1>1 DEF SnrsIn, In, StatsTypeOK
          <5>2. QED
            BY <3>5, <5>1, StatsAssumption DEF SnrValues
        <4>2. CASE In(b, counted) = {}
          <5>1. SnrsIn(b) = {} /\ hourly[b].min = NoSnr /\ hourly[b].max = NoSnr
            BY <2>1, <4>2 DEF SnrsIn, HourExtremes
          <5>2. hourly'[b].min = snr /\ hourly'[b].max = snr
            <6>1. /\ hourly'[b].min = ScalarMin(snr, snr)
                  /\ hourly'[b].max = ScalarMax(snr, snr)
              BY <3>3, <5>1 DEF Coalesce
            <6>2. ScalarMin(snr, snr) \in {snr, snr} /\ ScalarMax(snr, snr) \in {snr, snr}
              BY <4>1, ScalarsAre
            <6>3. QED
              BY <6>1, <6>2
          <5>3. QED
            BY <4>1, <5>1, <5>2
        <4>3. CASE In(b, counted) # {}
          <5>1. PICK lo \in SnrsIn(b) : lo = hourly[b].min /\ \A x \in SnrsIn(b) : lo <= x
            BY <2>1, <3>5, <4>3 DEF HourExtremes
          <5>2. PICK hi \in SnrsIn(b) : hi = hourly[b].max /\ \A x \in SnrsIn(b) : hi >= x
            BY <2>1, <3>5, <4>3 DEF HourExtremes
          <5>3. lo \in SnrValues /\ hi \in SnrValues /\ lo # NoSnr /\ hi # NoSnr
            BY <1>4, <3>5, <5>1, <5>2 DEF StatsRow
          <5>4. hourly'[b].min = ScalarMin(lo, snr) /\ hourly'[b].max = ScalarMax(hi, snr)
            BY <3>3, <5>1, <5>2, <5>3 DEF Coalesce
          <5>5. PICK lo2 \in {lo, snr} : lo2 = hourly'[b].min /\ lo2 <= lo /\ lo2 <= snr
            BY <4>1, <5>3, <5>4, ScalarsAre
          <5>6. PICK hi2 \in {hi, snr} : hi2 = hourly'[b].max /\ hi2 >= hi /\ hi2 >= snr
            BY <4>1, <5>3, <5>4, ScalarsAre
          <5>7. \A x \in SnrsIn(b) : lo2 <= x /\ hi2 >= x
            BY <4>1, <5>1, <5>2, <5>5, <5>6
          <5>8. QED
            BY <5>5, <5>6, <5>7
        <4>4. QED
          BY <4>2, <4>3
      <3>6. HourExtremes(b)'
        BY <3>1, <3>2, <3>5 DEF HourExtremes
      <3>7. QED
        BY <3>4, <3>6
    <2>4. QED
      BY <2>2, <2>3
  <1>9. AggregatesOK'
    BY <1>8, AggregatesSums, AggregatesAdds DEF AggregatesOK
  <1>10. QED
    BY <1>1, <1>2, <1>5, <1>6, <1>7, <1>9 DEF StatsInv

\* A batch that is not full has taken all that was old.
LEMMA PrunesBatchKeeps ==
  ASSUME StatsInv, PrunesBatch
  PROVE  StatsInv'
  <1>1. StatsTypeOK /\ Accounted /\ cutoff <= clock /\ clock <= MaxClock
    BY DEF StatsInv
  <1>2. PICK deleted \in Deletable :
           /\ raw' = raw \ deleted
           /\ sweep' = IF Exhausted(deleted) THEN "idle" ELSE "pruning"
    BY DEF PrunesBatch
  <1>3. UNCHANGED <<clock, packet, logging, hourly, cutoff, failures, counted, cut>>
    BY DEF PrunesBatch
  <1>4. StatsTypeOK'
    BY <1>1, <1>2, <1>3 DEF StatsTypeOK
  <1>5. Accounted'
    BY <1>1, <1>2, <1>3 DEF Accounted, Received
  <1>6. sweep' = "idle" => Old' = {}
    <2>1. CASE Cardinality(Old) <= Batch
      BY <1>2, <1>3, <2>1 DEF Deletable, Old
    <2>2. CASE ~(Cardinality(Old) <= Batch)
      <3>1. Cardinality(deleted) = Batch
        BY <1>2, <2>2 DEF Deletable, kSubset
      <3>2. ~Exhausted(deleted)
        BY <3>1, StatsAssumption DEF Exhausted
      <3>3. QED
        BY <1>2, <3>2
    <2>3. QED
      BY <2>1, <2>2
  <1>7. QED
    BY <1>1, <1>3, <1>4, <1>5, <1>6, HoursStay DEF StatsInv

\* The other steps say nothing of the hours.
LEMMA OtherStatsKeep ==
  ASSUME StatsInv,
         \/ \E p \in Packets : AggregateFails(p)
         \/ SweepStarts \/ SweepFails \/ CrashStats \/ TickStats
  PROVE  StatsInv'
  <1>1. /\ StatsTypeOK /\ Accounted /\ cutoff <= clock /\ clock <= MaxClock
        /\ sweep = "idle" => Old = {}
    BY DEF StatsInv
  <1>2. /\ UNCHANGED <<packet, raw, hourly, counted>>
        /\ clock' \in Nat /\ clock <= clock' /\ clock' <= MaxClock
        /\ logging' \subseteq logging
        /\ logging' \union cut' = logging \union cut /\ logging' \intersect cut' = {}
        /\ sweep' \in {"idle", "pruning"} /\ cutoff' \in Nat /\ cutoff' <= clock'
        /\ sweep' = "idle" => cutoff' = 0 \/ (sweep = "idle" /\ cutoff' = cutoff)
    BY <1>1, StatsAssumption
       DEF AggregateFails, SweepStarts, SweepFails, CrashStats, TickStats, StatsTypeOK, Accounted
  <1>3. StatsTypeOK'
    BY <1>1, <1>2 DEF StatsTypeOK
  <1>4. Received' = Received
    BY <1>2 DEF Received
  <1>5. Accounted'
    <2>1. Received' = logging' \union counted' \union cut'
      BY <1>1, <1>2, <1>4 DEF Accounted
    <2>2. counted' \intersect (logging' \union cut') = {}
      BY <1>1, <1>2 DEF Accounted
    <2>3. \A p \in Received' : packet'[p].ts <= clock'
      BY <1>1, <1>2, <1>4 DEF Accounted, StatsTypeOK, Received
    <2>4. QED
      BY <1>1, <1>2, <1>4, <2>1, <2>2, <2>3 DEF Accounted
  <1>6. sweep' = "idle" => Old' = {}
    <2>1. CASE cutoff' = 0
      BY <1>1, <1>2, <2>1 DEF Old, Accounted, Received, StatsTypeOK
    <2>2. CASE sweep = "idle" /\ cutoff' = cutoff
      BY <1>1, <1>2, <2>2 DEF Old
    <2>3. QED
      BY <1>2, <2>1, <2>2
  <1>7. QED
    BY <1>2, <1>3, <1>5, <1>6, HoursStay DEF StatsInv

LEMMA StatsInvInit == PacketStatsInit => StatsInv
  <1> SUFFICES ASSUME PacketStatsInit PROVE StatsInv
    OBVIOUS
  <1> USE DEF PacketStatsInit
  <1>1. StatsTypeOK
    BY DEF StatsTypeOK, Unreceived, NoStats, StatsRow, SnrValues
  <1>2. Accounted
    BY DEF Accounted, Received, Unreceived
  <1>3. ASSUME NEW b \in Buckets PROVE HourCounts(b) /\ HourExtremes(b) /\ HourSums(b)
    <2>1. In(b, counted) = {} /\ IsFiniteSet({}) /\ Cardinality({}) = 0
      BY FS_EmptySet DEF In
    <2>2. hourly[b] = NoStats
      OBVIOUS
    <2>3. Total(SnrOf, {}) = 0
      BY <2>1, TotalUnfolds
    <2>4. QED
      BY <2>1, <2>2, <2>3 DEF HourCounts, HourExtremes, HourSums, NoStats
  <1>4. ASSUME NEW day \in Days PROVE DayAdds(day)
    <2>1. DayPackets(day) = {} /\ IsFiniteSet({}) /\ Cardinality({}) = 0
      BY FS_EmptySet DEF DayPackets
    <2>2. \A b \in Buckets : CountOf[b] = 0
      BY DEF CountOf, NoStats
    <2>3. IsFiniteSet(HoursOf(day)) /\ HoursOf(day) \subseteq Buckets
      BY HoursFinite, FS_Subset DEF HoursOf
    <2>4. Total(CountOf, HoursOf(day)) = 0
      BY <2>2, <2>3, TotalOfZeros
    <2>5. QED
      BY <2>1, <2>4 DEF DayAdds
  <1>5. AggregatesOK
    BY <1>3, <1>4 DEF AggregatesOK
  <1>6. QED
    BY <1>1, <1>2, <1>5, StatsAssumption DEF StatsInv, Old

LEMMA StatsInvStep == StatsInv /\ [PacketStatsNext]_statsVars => StatsInv'
  <1> SUFFICES ASSUME StatsInv, [PacketStatsNext]_statsVars PROVE StatsInv'
    OBVIOUS
  <1>1. ASSUME NEW p \in Packets, NEW snr \in Snrs \union {NoSnr}, LogsPacket(p, snr)
        PROVE  StatsInv'
    BY <1>1, LogsPacketKeeps DEF SnrValues
  <1>2. ASSUME NEW p \in Packets, Aggregates(p) PROVE StatsInv'
    BY <1>2, AggregatesKeeps
  <1>3. CASE PrunesBatch
    BY <1>3, PrunesBatchKeeps
  <1>4. CASE \/ \E p \in Packets : AggregateFails(p)
             \/ SweepStarts \/ SweepFails \/ CrashStats \/ TickStats
    BY <1>4, OtherStatsKeep
  <1>5. CASE UNCHANGED statsVars
    <2>1. /\ StatsTypeOK' <=> StatsTypeOK
          /\ Accounted' <=> Accounted
          /\ Old' = Old
      BY <1>5 DEF statsVars, StatsTypeOK, Accounted, Received, Old
    <2>2. AggregatesOK'
      BY <1>5, HoursStay DEF statsVars
    <2>3. QED
      BY <1>5, <2>1, <2>2 DEF statsVars, StatsInv
  <1>6. QED
    BY <1>1, <1>2, <1>3, <1>4, <1>5 DEF PacketStatsNext

LEMMA StatsInvAlways == PacketStatsSpec => []StatsInv
  BY StatsInvInit, StatsInvStep, PTL DEF PacketStatsSpec

\* The raw log may be pruned and calls of log cut anywhere: the hours count every
\* packet whose two statements were executed, for any retention, batch and SNRs.
LEMMA HoursCount == PacketStatsSpec => []HoursCountAll
  <1>1. StatsInv => HoursCountAll
    <2> SUFFICES ASSUME StatsInv PROVE HoursCountAll
      OBVIOUS
    <2>1. Received \ (logging \union cut) = counted
      BY DEF StatsInv, Accounted
    <2>2. QED
      BY <2>1 DEF StatsInv, AggregatesOK, HoursCountAll, HourCounts
  <1>2. QED
    BY <1>1, StatsInvAlways, PTL

\* Whatever a sweep deletes and wherever calls of log are cut, the hours keep the
\* count and the sum of the SNRs of the packets whose two statements were executed,
\* and the days that GetPacketStats adds up from them the count of theirs.
THEOREM StatsSurvive == PacketStatsSpec => []StatsSurvivePruning
  <1>1. ASSUME StatsInv, NEW b \in Buckets
        PROVE  hourly[b].sum = MapThenSumSet(LAMBDA p : OrZero(packet[p].snr), In(b, counted))
    <2>1. In(b, counted) \in SUBSET Packets
      BY <1>1 DEF StatsInv, StatsTypeOK, In
    <2>2. MapThenSumSet(LAMBDA p : OrZero(packet[p].snr), In(b, counted)) =
            Total(SnrOf, In(b, counted))
      BY <2>1 DEF Total, MapThenSumSet, MapThenFoldSet, SnrOf
    <2>3. QED
      BY <1>1, <2>2 DEF StatsInv, AggregatesOK, HourSums
  <1>2. ASSUME StatsInv, NEW day \in Days
        PROVE  DayCount(day) = Cardinality(DayPackets(day))
    <2>1. DayCount(day) = MapThenSumSet(LAMBDA b : hourly[b].count, HoursOf(day))
      BY DEF DayCount, HoursOf
    <2>2. HoursOf(day) \in SUBSET Buckets
      BY DEF HoursOf
    <2>3. MapThenSumSet(LAMBDA b : hourly[b].count, HoursOf(day)) = Total(CountOf, HoursOf(day))
      BY <2>2 DEF Total, MapThenSumSet, MapThenFoldSet, CountOf
    <2>4. QED
      BY <1>2, <2>1, <2>3 DEF StatsInv, AggregatesOK, DayAdds
  <1>3. StatsInv /\ HoursCountAll => StatsSurvivePruning
    BY <1>1, <1>2 DEF StatsSurvivePruning, Days, DayPackets
  <1>4. QED
    BY <1>3, StatsInvAlways, HoursCount, PTL

\* Interleaved upserts keep the extremes of an hour that lacks no SNR.
THEOREM ExtremesAreExact == PacketStatsSpec => []ExtremesExact
  <1>1. StatsInv => ExtremesExact
    <2> SUFFICES ASSUME StatsInv, NEW b \in Buckets, In(b, counted) # {}, NoSnr \notin SnrsIn(b)
                 PROVE  hourly[b].min = Min(SnrsIn(b)) /\ hourly[b].max = Max(SnrsIn(b))
      BY DEF ExtremesExact
    <2>1. SnrsIn(b) \in SUBSET Int
      <3>1. SnrsIn(b) \subseteq SnrValues
        BY DEF SnrsIn, In, StatsInv, StatsTypeOK
      <3>2. QED
        BY <3>1, StatsAssumption DEF SnrValues
    <2>2. HourExtremes(b)
      BY DEF StatsInv, AggregatesOK
    <2>3. QED
      BY <2>1, <2>2, ExtremesOf DEF HourExtremes
  <1>2. QED
    BY <1>1, StatsInvAlways, PTL

\* However many batches a sweep takes, it ends by itself only when nothing from
\* before its cutoff is left.
THEOREM SweepsClear == PacketStatsSpec => []SweepClears
  <1>1. StatsInv => SweepClears
    BY DEF StatsInv, SweepClears
  <1>2. QED
    BY <1>1, StatsInvAlways, PTL

-----------------------------------------------------------------------------
(* Paging: no row that stays where it is is skipped.                       *)

PagingTypeOK ==
  /\ time \in Nat /\ nrows \in 0..MaxRows
  /\ table \subseteq 1..nrows /\ steady \subseteq table
  /\ stamp \in [RowIds -> Nat]
  /\ reader \in {"idle", "reading", "done"}
  /\ offset \in Nat /\ asked \in {0} \union AskedFor

\* The rows that come before one.
Ahead(i) == {j \in table : Before(j, i)}

\* Everything steady that comes before the next page has been read.
ReadSoFar ==
  /\ reader = "reading" => \A i \in steady : Position(i) < offset => i \in seenIds
  /\ reader = "done" => steady \subseteq seenIds

PagingInv == PagingTypeOK /\ ReadSoFar

LEMMA PageSizes ==
  ASSUME NEW limit \in {0} \union AskedFor
  PROVE  PageSize(limit) \in Nat /\ PageSize(limit) > 0
  <1>1. limit \in Nat /\ MaxLimit \in Nat /\ MaxLimit > 0
    BY PagingAssumption
  <1>2. PICK k \in {limit, 1} : k >= limit /\ k >= 1
    BY <1>1
  <1>3. Max({limit, 1}) \in {limit, 1} /\ \A y \in {limit, 1} : Max({limit, 1}) >= y
    BY <1>2 DEF Max
  <1>4. PICK m \in Nat : m = Max({limit, 1}) /\ m >= 1
    BY <1>1, <1>3
  <1>5. PICK l \in {m, MaxLimit} : l <= m /\ l <= MaxLimit
    BY <1>1
  <1>6. Min({m, MaxLimit}) \in {m, MaxLimit}
    BY <1>5 DEF Min
  <1>7. QED
    BY <1>1, <1>4, <1>6 DEF PageSize

LEMMA TableRows ==
  ASSUME PagingTypeOK
  PROVE  /\ table \subseteq RowIds /\ nrows \in Nat
         /\ \A i \in table : i \in Nat /\ i <= nrows /\ stamp[i] \in Nat
  <1>1. nrows \in Nat /\ nrows <= MaxRows /\ MaxRows \in Nat
    BY PagingAssumption DEF PagingTypeOK
  <1>2. 1..nrows \subseteq RowIds
    BY <1>1 DEF RowIds
  <1>3. QED
    BY <1>1, <1>2 DEF PagingTypeOK, RowIds

LEMMA AheadIs ==
  ASSUME PagingTypeOK, NEW i \in table
  PROVE  /\ IsFiniteSet(table) /\ IsFiniteSet(Ahead(i)) /\ Ahead(i) \subseteq table
         /\ Position(i) = Cardinality(Ahead(i)) /\ Position(i) \in Nat
         /\ Position(i) < Cardinality(table) /\ Cardinality(table) \in Nat
  <1>1. IsFiniteSet(table)
    <2>1. IsFiniteSet(1..nrows)
      BY FS_Interval DEF PagingTypeOK
    <2>2. QED
      BY <2>1, FS_Subset DEF PagingTypeOK
  <1>2. Ahead(i) \subseteq table /\ i \notin Ahead(i)
    <2>1. stamp[i] \in Nat /\ i \in Nat
      BY TableRows
    <2>2. QED
      BY <2>1 DEF Ahead, Before
  <1>3. IsFiniteSet(Ahead(i)) /\ Cardinality(Ahead(i)) <= Cardinality(table)
        /\ Cardinality(Ahead(i)) # Cardinality(table)
    BY <1>1, <1>2, FS_Subset
  <1>4. Cardinality(Ahead(i)) \in Nat /\ Cardinality(table) \in Nat
    BY <1>1, <1>3, FS_CardinalityType
  <1>5. Position(i) = Cardinality(Ahead(i))
    BY DEF Position, Ahead
  <1>6. QED
    BY <1>1, <1>2, <1>3, <1>4, <1>5

\* The rows of the table have the positions from 0 on, each its own.
LEMMA PositionsGrow ==
  ASSUME PagingTypeOK, NEW i \in table, NEW j \in table, Before(i, j)
  PROVE  Position(i) < Position(j)
  <1>1. /\ \A k \in table : stamp[k] \in Nat /\ k \in Nat
        /\ Ahead(i) \subseteq table /\ Ahead(j) \subseteq table
    BY TableRows DEF Ahead
  <1>2. Ahead(i) \subseteq Ahead(j)
    BY <1>1 DEF Ahead, Before
  <1>3. i \in Ahead(j) /\ i \notin Ahead(i)
    BY <1>1 DEF Ahead, Before
  <1>4. /\ IsFiniteSet(Ahead(j)) /\ Position(i) = Cardinality(Ahead(i))
        /\ Position(j) = Cardinality(Ahead(j)) /\ Position(i) \in Nat /\ Position(j) \in Nat
    BY AheadIs
  <1>5. Cardinality(Ahead(i)) <= Cardinality(Ahead(j)) /\ Cardinality(Ahead(i)) # Cardinality(Ahead(j))
    BY <1>2, <1>3, <1>4, FS_Subset
  <1>6. QED
    BY <1>4, <1>5

LEMMA PositionsAreOwn ==
  ASSUME PagingTypeOK, NEW i \in table, NEW j \in table, i # j
  PROVE  Position(i) # Position(j)
  <1>1. Before(i, j) \/ Before(j, i)
    BY TableRows DEF Before
  <1>2. Position(i) \in Nat /\ Position(j) \in Nat
    BY AheadIs
  <1>3. QED
    BY <1>1, <1>2, PositionsGrow

LEMMA PositionsReached ==
  ASSUME PagingTypeOK, NEW k \in Nat, k < Cardinality(table)
  PROVE  \E i \in table : Position(i) = k
  <1> DEFINE f == [i \in table |-> Position(i)]
             N == Cardinality(table)
  <1>1. IsFiniteSet(table) /\ N \in Nat
    <2>1. IsFiniteSet(1..nrows)
      BY FS_Interval DEF PagingTypeOK
    <2>2. IsFiniteSet(table)
      BY <2>1, FS_Subset DEF PagingTypeOK
    <2>3. QED
      BY <2>2, FS_CardinalityType
  <1>2. f \in [table -> 0..(N - 1)]
    <2>1. \A i \in table : Position(i) \in 0..(N - 1)
      BY <1>1, AheadIs
    <2>2. QED
      BY <2>1
  <1>3. f \in Injection(table, 0..(N - 1))
    <2>1. \A i, j \in table : f[i] = f[j] => i = j
      BY PositionsAreOwn
    <2> HIDE DEF f, N
    <2>2. QED
      BY <1>2, <2>1 DEF Injection, IsInjective
  <1>4. IsFiniteSet(0..(N - 1)) /\ Cardinality(0..(N - 1)) = N
    <2> HIDE DEF N
    <2>1. 0 \in Int /\ N - 1 \in Int
      BY <1>1
    <2>2. IF 0 > N - 1 THEN N = 0 ELSE (N - 1) - 0 + 1 = N
      BY <1>1
    <2>3. QED
      BY <2>1, <2>2, FS_Interval
  <1>5. f \in Surjection(table, 0..(N - 1))
    <2> HIDE DEF f
    <2>1. QED
      BY <1>3, <1>4, FS_Injection
  <1>6. k \in 0..(N - 1)
    BY <1>1
  <1>7. PICK i \in table : f[i] = k
    <2> HIDE DEF f, N
    <2>1. QED
      BY <1>5, <1>6 DEF Surjection
  <1>8. QED
    BY <1>7

-----------------------------------------------------------------------------
(* Paging: the steps.                                                      *)

\* A page has no more rows than its size, and is shorter only at the end.
LEMMA PageIs ==
  ASSUME PagingTypeOK, NEW size \in Nat, size > 0
  PROVE  /\ Cardinality(Page(offset, size)) \in Nat
         /\ Cardinality(Page(offset, size)) <= size
         /\ Cardinality(Page(offset, size)) < size =>
              \A i \in table : Position(i) < offset + size
  <1> DEFINE P == Page(offset, size)
             R == offset..(offset + size - 1)
             f == [i \in P |-> Position(i)]
  <1>1. offset \in Nat /\ P \subseteq table /\ \A i \in table : Position(i) \in Nat
    BY AheadIs DEF PagingTypeOK, Page
  <1>2. f \in [P -> R]
    <2>1. \A i \in P : Position(i) \in R
      BY <1>1 DEF Page
    <2>2. QED
      BY <2>1
  <1>3. f \in Injection(P, R)
    <2>1. \A i, j \in P : f[i] = f[j] => i = j
      BY <1>1, PositionsAreOwn
    <2> HIDE DEF f, P, R
    <2>2. QED
      BY <1>2, <2>1 DEF Injection, IsInjective
  <1>4. IsFiniteSet(R) /\ Cardinality(R) = size
    <2>1. offset \in Int /\ offset + size - 1 \in Int /\ ~(offset > offset + size - 1)
      BY <1>1
    <2>2. (offset + size - 1) - offset + 1 = size
      BY <1>1
    <2>3. QED
      BY <2>1, <2>2, FS_Interval
  <1>5. /\ IsFiniteSet(P) /\ Cardinality(P) <= size
        /\ Cardinality(P) = size <=> f \in Surjection(P, R)
    <2> HIDE DEF f, P, R
    <2>1. QED
      BY <1>3, <1>4, FS_Injection
  <1>6. Cardinality(P) \in Nat
    BY <1>5, FS_CardinalityType
  <1>7. ASSUME NEW i \in table, ~(Position(i) < offset + size)
        PROVE  f \in Surjection(P, R)
    <2>1. ASSUME NEW k \in R PROVE \E j \in P : f[j] = k
      <3>1. k \in Nat /\ k < Cardinality(table)
        BY <1>1, <1>7, AheadIs
      <3>2. PICK j \in table : Position(j) = k
        BY <3>1, PositionsReached
      <3>3. j \in P
        BY <1>1, <3>2 DEF Page
      <3>4. QED
        BY <3>2, <3>3
    <2> HIDE DEF f, P, R
    <2>2. QED
      BY <1>2, <2>1 DEF Surjection
  <1>8. QED
    BY <1>5, <1>6, <1>7

\* A row that the others stay ahead of keeps its place, or comes later.
LEMMA PlacesKept ==
  ASSUME PagingInv, PagingTypeOK', UNCHANGED <<reader, offset, seenIds>>,
         steady' \subseteq steady, \A i \in steady' : Ahead(i) \subseteq Ahead(i)'
  PROVE  ReadSoFar'
  <1>1. ASSUME reader = "reading", NEW i \in steady', Position(i)' < offset
        PROVE  i \in seenIds
    <2>1. i \in table /\ i \in table' /\ i \in steady
      BY DEF PagingInv, PagingTypeOK
    <2>2. IsFiniteSet(Ahead(i)') /\ Position(i)' = Cardinality(Ahead(i)') /\ Position(i)' \in Nat
      <3>1. (PagingTypeOK /\ i \in table =>
               IsFiniteSet(Ahead(i)) /\ Position(i) = Cardinality(Ahead(i)) /\ Position(i) \in Nat)'
        BY AheadIs, PTL
      <3>2. QED
        BY <2>1, <3>1
    <2>3. Position(i) = Cardinality(Ahead(i)) /\ Position(i) \in Nat
      BY <2>1, AheadIs DEF PagingInv
    <2>4. Cardinality(Ahead(i)) <= Cardinality(Ahead(i)')
      BY <2>2, FS_Subset
    <2>5. Position(i) < offset
      BY <1>1, <2>2, <2>3, <2>4 DEF PagingInv, PagingTypeOK
    <2>6. QED
      BY <1>1, <2>1, <2>5 DEF PagingInv, ReadSoFar
  <1>2. reader = "done" => steady' \subseteq seenIds
    BY DEF PagingInv, ReadSoFar
  <1>3. QED
    BY <1>1, <1>2 DEF ReadSoFar

LEMMA RowsChangeKeeps ==
  ASSUME PagingInv,
         \/ \E t \in Nat : InsertRow(t) \/ DeletesOld(t) \/ \E i \in RowIds : MovesUp(i, t)
         \/ \E i \in RowIds : LeavesListing(i)
  PROVE  PagingInv'
  <1>1. PagingTypeOK
    BY DEF PagingInv
  <1>2. /\ table \subseteq RowIds /\ nrows \in Nat
        /\ \A i \in table : i \in Nat /\ i <= nrows /\ stamp[i] \in Nat
    BY <1>1, TableRows
  <1>3. ASSUME NEW t \in Nat, InsertRow(t) PROVE PagingInv'
    <2>1. /\ nrows < MaxRows /\ nrows' = nrows + 1 /\ table' = table \union {nrows + 1}
          /\ stamp' = [stamp EXCEPT ![nrows + 1] = t]
          /\ UNCHANGED <<time, reader, offset, asked, seenIds, steady>>
      BY <1>3 DEF InsertRow
    <2>2. nrows' \in 0..MaxRows /\ 1..nrows \subseteq 1..nrows' /\ nrows + 1 \in 1..nrows'
      BY <1>2, <2>1, PagingAssumption
    <2>3. PagingTypeOK'
      BY <1>1, <2>1, <2>2 DEF PagingTypeOK
    <2>4. \A i \in table : stamp'[i] = stamp[i]
      BY <1>1, <1>2, <2>1 DEF PagingTypeOK
    <2>5. \A i \in steady' : Ahead(i) \subseteq Ahead(i)'
      BY <1>1, <2>1, <2>4 DEF Ahead, Before, PagingTypeOK
    <2>6. QED
      BY <2>1, <2>3, <2>5, PlacesKept DEF PagingInv
  <1>4. ASSUME NEW t \in Nat, DeletesOld(t) PROVE PagingInv'
    <2>1. PICK gone \in SUBSET {i \in table : stamp[i] < t} : table' = table \ gone
      BY <1>4 DEF DeletesOld
    <2>2. /\ steady' = steady \ {i \in table : stamp[i] < t}
          /\ UNCHANGED <<time, stamp, nrows, reader, offset, asked, seenIds>>
      BY <1>4 DEF DeletesOld
    <2>3. PagingTypeOK'
      BY <1>1, <2>1, <2>2 DEF PagingTypeOK
    <2>4. ASSUME NEW i \in steady', NEW j \in Ahead(i) PROVE j \in Ahead(i)'
      <3>1. /\ i \in table /\ j \in table /\ ~(stamp[i] < t) /\ Before(j, i)
            /\ stamp[i] \in Nat /\ stamp[j] \in Nat
        BY <1>1, <1>2, <2>2, <2>4 DEF Ahead, PagingTypeOK
      <3>2. ~(stamp[j] < t)
        BY <3>1 DEF Before
      <3>3. QED
        BY <2>1, <2>2, <3>1, <3>2 DEF Ahead, Before
    <2>5. QED
      BY <2>2, <2>3, <2>4, PlacesKept DEF PagingInv
  <1>5. ASSUME NEW t \in Nat, NEW i \in RowIds, MovesUp(i, t) PROVE PagingInv'
    <2>1. /\ i \in table /\ stamp[i] < t
          /\ stamp' = [stamp EXCEPT ![i] = t] /\ steady' = steady \ {i}
          /\ UNCHANGED <<time, table, nrows, reader, offset, asked, seenIds>>
      BY <1>5 DEF MovesUp
    <2>2. PagingTypeOK'
      BY <1>1, <2>1 DEF PagingTypeOK
    <2>3. \A j \in table : stamp'[j] = IF j = i THEN t ELSE stamp[j]
      BY <1>1, <1>2, <2>1 DEF PagingTypeOK
    <2>4. ASSUME NEW k \in steady', NEW j \in Ahead(k) PROVE j \in Ahead(k)'
      <3>1. /\ k \in table /\ j \in table /\ k # i /\ Before(j, k)
            /\ stamp[k] \in Nat /\ stamp[j] \in Nat
        BY <1>1, <1>2, <2>1, <2>4 DEF Ahead, PagingTypeOK
      <3>2. Before(j, k)'
        BY <2>1, <2>3, <3>1 DEF Before
      <3>3. QED
        BY <2>1, <3>1, <3>2 DEF Ahead
    <2>5. QED
      BY <2>1, <2>2, <2>4, PlacesKept DEF PagingInv
  <1>6. ASSUME NEW i \in RowIds, LeavesListing(i) PROVE PagingInv'
    <2>1. /\ table' = table \ {i} /\ steady' = steady \ {j \in table : j = i \/ Before(i, j)}
          /\ UNCHANGED <<time, stamp, nrows, reader, offset, asked, seenIds>>
      BY <1>6 DEF LeavesListing
    <2>2. PagingTypeOK'
      BY <1>1, <2>1 DEF PagingTypeOK
    <2>3. \A k \in steady' : Ahead(k) \subseteq Ahead(k)'
      BY <1>1, <2>1 DEF Ahead, Before, PagingTypeOK
    <2>4. QED
      BY <2>1, <2>2, <2>3, PlacesKept DEF PagingInv
  <1>7. QED
    BY <1>3, <1>4, <1>5, <1>6

LEMMA ReadsPageKeeps ==
  ASSUME PagingInv, ReadsPage
  PROVE  PagingInv'
  <1> DEFINE size == PageSize(asked)
             page == Page(offset, size)
  <1>1. PagingTypeOK /\ reader = "reading"
    BY DEF PagingInv, ReadsPage
  <1>2. /\ seenIds' = seenIds \union page /\ offset' = offset + Cardinality(page)
        /\ reader' = IF Cardinality(page) < size THEN "done" ELSE "reading"
        /\ UNCHANGED <<time, table, stamp, nrows, asked, steady>>
    BY DEF ReadsPage
  <1>3. size \in Nat /\ size > 0
    BY <1>1, PageSizes DEF PagingTypeOK
  <1> HIDE DEF size
  <1>4. /\ Cardinality(page) \in Nat /\ Cardinality(page) <= size
        /\ Cardinality(page) < size => \A i \in table : Position(i) < offset + size
    BY <1>1, <1>3, PageIs
  <1>5. PICK k \in Nat : k = Cardinality(page)
    BY <1>4
  <1>6. \A i \in table : i \in page <=> offset <= Position(i) /\ Position(i) < offset + size
    BY DEF Page
  <1> HIDE DEF page
  <1>7. \A i \in table : Position(i)' = Position(i) /\ Position(i) \in Nat
    BY <1>1, <1>2, AheadIs DEF Position, Before
  <1>8. PagingTypeOK'
    BY <1>1, <1>2, <1>5 DEF PagingTypeOK
  <1>9. ASSUME NEW i \in steady, Position(i) < offset + size, reader' = "done" \/ Position(i) < offset + k
        PROVE  i \in seenIds'
    <2>1. i \in table /\ offset \in Nat
      BY <1>1 DEF PagingTypeOK
    <2>2. CASE Position(i) < offset
      BY <1>1, <1>2, <2>2 DEF PagingInv, ReadSoFar
    <2>3. CASE ~(Position(i) < offset)
      BY <1>2, <1>6, <1>7, <1>9, <2>1, <2>3
    <2>4. QED
      BY <2>2, <2>3
  <1>10. \A i \in steady : i \in table /\ offset \in Nat
    BY <1>1 DEF PagingTypeOK
  <1>11. ReadSoFar'
    <2>1. CASE k < size
      BY <1>2, <1>4, <1>5, <1>9, <1>10, <2>1 DEF ReadSoFar
    <2>2. CASE ~(k < size)
      <3>1. reader' = "reading" /\ k = size
        BY <1>2, <1>3, <1>4, <1>5, <2>2
      <3>2. \A i \in steady : Position(i)' < offset' => i \in seenIds'
        BY <1>2, <1>5, <1>7, <1>9, <1>10, <3>1
      <3>3. QED
        BY <1>2, <3>1, <3>2 DEF ReadSoFar
    <2>3. QED
      BY <2>1, <2>2
  <1>12. QED
    BY <1>8, <1>11 DEF PagingInv

\* Nothing comes before the first page.
LEMMA StartsReadingKeeps ==
  ASSUME PagingInv, NEW limit \in AskedFor, StartsReading(limit)
  PROVE  PagingInv'
  <1>1. PagingTypeOK
    BY DEF PagingInv
  <1>2. /\ reader' = "reading" /\ asked' = limit /\ offset' = 0 /\ steady' = table
        /\ UNCHANGED <<time, table, stamp, nrows>>
    BY DEF StartsReading
  <1>3. PagingTypeOK'
    BY <1>1, <1>2 DEF PagingTypeOK
  <1>4. \A i \in table : Position(i)' = Position(i) /\ Position(i) \in Nat
    BY <1>1, <1>2, AheadIs DEF Position, Before
  <1>5. \A i \in steady' : ~(Position(i)' < offset')
    BY <1>2, <1>4
  <1>6. QED
    BY <1>2, <1>3, <1>5 DEF PagingInv, ReadSoFar

LEMMA PagingInvStep == PagingInv /\ [PagingNext]_pagingVars => PagingInv'
  <1> SUFFICES ASSUME PagingInv, [PagingNext]_pagingVars PROVE PagingInv'
    OBVIOUS
  <1>1. PagingTypeOK
    BY DEF PagingInv
  <1>2. CASE \E t \in 0..time : InsertRow(t) \/ DeletesOld(t) \/ \E i \in RowIds : MovesUp(i, t)
    <2>1. \A t \in 0..time : t \in Nat
      BY <1>1 DEF PagingTypeOK
    <2>2. QED
      BY <1>2, <2>1, RowsChangeKeeps
  <1>3. CASE \E i \in RowIds : LeavesListing(i)
    BY <1>3, RowsChangeKeeps
  <1>4. ASSUME NEW limit \in AskedFor, StartsReading(limit) PROVE PagingInv'
    BY <1>4, StartsReadingKeeps
  <1>5. CASE ReadsPage
    BY <1>5, ReadsPageKeeps
  <1>6. CASE StopsReading
    BY <1>1, <1>6 DEF StopsReading, PagingInv, PagingTypeOK, ReadSoFar
  <1>7. CASE TickPaging \/ UNCHANGED pagingVars
    <2>1. /\ UNCHANGED <<table, stamp, nrows, reader, offset, asked, seenIds, steady>>
          /\ time' \in Nat
      BY <1>1, <1>7 DEF TickPaging, pagingVars, PagingTypeOK
    <2>2. PagingTypeOK'
      BY <1>1, <2>1 DEF PagingTypeOK
    <2>3. \A i \in steady' : Ahead(i) \subseteq Ahead(i)'
      BY <2>1 DEF Ahead, Before
    <2>4. QED
      BY <2>1, <2>2, <2>3, PlacesKept DEF PagingInv
  <1>8. QED
    BY <1>2, <1>3, <1>4, <1>5, <1>6, <1>7 DEF PagingNext

\* Pages asked for one after the other, of any size, skip no row that was there all
\* the while, whatever is inserted, moved to the top or pruned between them.
THEOREM PagesSkipNothingSteady == PagingSpec => []PagesSkipNothing
  <1>1. PagingInit => PagingInv
    BY PagingAssumption DEF PagingInit, PagingInv, PagingTypeOK, ReadSoFar, RowIds
  <1>2. PagingInv => PagesSkipNothing
    BY DEF PagingInv, ReadSoFar, PagesSkipNothing
  <1>3. QED
    BY <1>1, <1>2, PagingInvStep, PTL DEF PagingSpec

-----------------------------------------------------------------------------
(* FrameParser: the reading of a stream.                                   *)

LEMMA SizeIs == \A low, high \in Byte : Size(low, high) \in Nat
  <1> TAKE low, high \in Byte
  <1>1. low \in Nat /\ high \in Nat /\ Radix \in Nat
    BY ParserAssumption DEF Byte
  <1>2. Radix * high \in Nat
    BY <1>1
  <1>3. QED
    BY <1>1, <1>2 DEF Size

LEMMA FollowIs ==
  ASSUME NEW s \in Seq(Byte), NEW i \in 1..Len(s)
  PROVE  /\ Follow(s, i) \in Nat /\ Follow(s, i) > i
         /\ Header(s, i) => /\ EndAt(s, i) \in Nat /\ EndAt(s, i) >= i + 3
                            /\ Follow(s, i) = EndAt(s, i) + 1
         /\ ~Header(s, i) => Follow(s, i) = i + 1
  <1>1. CASE Header(s, i)
    <2>1. s[i + 1] \in Byte /\ s[i + 2] \in Byte
      BY <1>1 DEF Header
    <2>2. PICK size \in Nat : size = Size(s[i + 1], s[i + 2]) /\ size >= 1
      BY <1>1, <2>1, SizeIs, ParserAssumption DEF Header
    <2>3. EndAt(s, i) = i + 2 + size
      BY <2>2 DEF EndAt
    <2>4. QED
      BY <1>1, <2>2, <2>3 DEF Follow
  <1>2. QED
    BY <1>1 DEF Follow

\* The positions where the reading stands are the least set that holds the first one
\* and where the reading goes on from each.
LEMMA ReadingIs ==
  ASSUME NEW s \in Seq(Byte)
  PROVE  /\ Standing(s) \subseteq 1..Len(s)
         /\ Len(s) > 0 => 1 \in Standing(s)
         /\ \A i \in Standing(s) : Follow(s, i) <= Len(s) => Follow(s, i) \in Standing(s)
  <1>1. DOMAIN s = 1..Len(s) /\ Len(s) \in Nat
    OBVIOUS
  <1>2. \A i \in 1..Len(s) : Follow(s, i) \in Nat /\ Follow(s, i) > i
    BY FollowIs
  <1>3. QED
    BY <1>1, <1>2 DEF Standing, Readings

LEMMA ReadingIsLeast ==
  ASSUME NEW s \in Seq(Byte), NEW R \in SUBSET (1..Len(s)), Len(s) > 0 => 1 \in R,
         \A i \in Standing(s) : i \in R /\ Follow(s, i) <= Len(s) => Follow(s, i) \in R
  PROVE  Standing(s) \subseteq R
  <1>1. DOMAIN s = 1..Len(s) /\ Len(s) \in Nat
    OBVIOUS
  <1>2. PICK Q : Q = R \intersect Standing(s)
    OBVIOUS
  <1>3. Q \in Readings(s)
    BY <1>1, <1>2, ReadingIs DEF Readings
  <1>4. Standing(s) \subseteq Q
    BY <1>3 DEF Standing
  <1>5. QED
    BY <1>2, <1>4

\* What follows position i does not depend on bytes that have not come.
Decided(s, i) == s[i] = Start => i + 2 <= Len(s)

\* The reading comes to p, and what it has read before p is decided.
Settled(s, p) ==
  /\ p \in 1..Len(s) + 1
  /\ p = 1 \/ \E j \in Standing(s) : j < p /\ Follow(s, j) = p
  /\ \A j \in Standing(s) : j < p => Decided(s, j) /\ Follow(s, j) <= p

LEMMA SettledStands ==
  ASSUME NEW s \in Seq(Byte), NEW p, Settled(s, p), p <= Len(s)
  PROVE  p \in Standing(s)
  BY ReadingIs DEF Settled

LEMMA NothingBetween ==
  ASSUME NEW s \in Seq(Byte), NEW p, Settled(s, p), p <= Len(s)
  PROVE  \A j \in Standing(s) : j <= p \/ j >= Follow(s, p)
  <1>1. p \in Standing(s) /\ p \in 1..Len(s)
    BY SettledStands DEF Settled
  <1>2. PICK q \in Nat : q = Follow(s, p) /\ q > p
    BY <1>1, FollowIs
  <1>3. PICK R \in SUBSET (1..Len(s)) : R = {j \in 1..Len(s) : j <= p \/ j >= q}
    OBVIOUS
  <1>4. \A i \in Standing(s) :
           /\ i \in 1..Len(s) /\ Follow(s, i) \in Nat /\ Follow(s, i) > i
           /\ i < p => Follow(s, i) <= p
    BY ReadingIs, FollowIs DEF Settled
  <1>5. \A i \in Standing(s) : i \in R /\ Follow(s, i) <= Len(s) => Follow(s, i) \in R
    BY <1>1, <1>2, <1>3, <1>4
  <1>6. Standing(s) \subseteq R
    BY <1>1, <1>3, <1>5, ReadingIsLeast
  <1>7. QED
    BY <1>2, <1>3, <1>6

LEMMA SettledAdvances ==
  ASSUME NEW s \in Seq(Byte), NEW p, Settled(s, p), p <= Len(s), Decided(s, p),
         Follow(s, p) <= Len(s) + 1
  PROVE  Settled(s, Follow(s, p))
  <1>1. p \in Standing(s) /\ p \in 1..Len(s) /\ Standing(s) \subseteq 1..Len(s)
    BY SettledStands, ReadingIs DEF Settled
  <1>2. PICK q \in Nat : q = Follow(s, p) /\ q > p
    BY <1>1, FollowIs
  <1>3. \A j \in Standing(s) : j < q => j < p \/ j = p
    BY <1>1, <1>2, NothingBetween
  <1>4. \A j \in Standing(s) : j < q => Decided(s, j) /\ Follow(s, j) <= q
    <2> TAKE j \in Standing(s)
    <2>1. CASE j < p
      <3>1. Decided(s, j) /\ Follow(s, j) <= p /\ Follow(s, j) \in Nat
        BY <1>1, <2>1, FollowIs DEF Settled
      <3>2. QED
        BY <1>1, <1>2, <3>1
    <2>2. CASE j = p
      BY <1>2, <2>2
    <2>3. QED
      BY <1>3, <2>1, <2>2
  <1>5. q \in 1..Len(s) + 1
    BY <1>1, <1>2
  <1>6. QED
    BY <1>1, <1>2, <1>4, <1>5 DEF Settled

\* More bytes change nothing of what is settled.
LEMMA SettledExtends ==
  ASSUME NEW s \in Seq(Byte), NEW t \in Seq(Byte), Len(s) <= Len(t),
         \A i \in 1..Len(s) : t[i] = s[i], NEW p, Settled(s, p)
  PROVE  /\ Settled(t, p)
         /\ \A j \in Nat : j < p => (j \in Standing(t) <=> j \in Standing(s))
         /\ \A j \in Standing(s) : j < p =>
              /\ Header(t, j) <=> Header(s, j)
              /\ Header(s, j) => EndAt(t, j) = EndAt(s, j)
              /\ Follow(t, j) = Follow(s, j)
  <1>1. /\ Len(s) \in Nat /\ Len(t) \in Nat /\ p \in 1..Len(s) + 1
        /\ Standing(s) \subseteq 1..Len(s) /\ Standing(t) \subseteq 1..Len(t)
    BY ReadingIs DEF Settled
  <1>2. ASSUME NEW j \in Standing(s), j < p
        PROVE  /\ Header(t, j) <=> Header(s, j)
               /\ Header(s, j) => EndAt(t, j) = EndAt(s, j)
               /\ Follow(t, j) = Follow(s, j) /\ Decided(t, j)
    <2>1. Decided(s, j) /\ j \in 1..Len(s) /\ t[j] = s[j]
      BY <1>1, <1>2 DEF Settled
    <2>2. CASE s[j] # Start
      BY <2>1, <2>2 DEF Header, Follow, Decided
    <2>3. CASE j + 2 <= Len(s)
      <3>1. t[j + 1] = s[j + 1] /\ t[j + 2] = s[j + 2] /\ j + 2 <= Len(t)
        BY <1>1, <2>1, <2>3
      <3>2. QED
        BY <2>1, <2>3, <3>1 DEF Header, EndAt, Follow, Decided
    <2>4. QED
      BY <2>1, <2>2, <2>3 DEF Decided
  <1>3. \A j \in Standing(s) : j < p => j \in Standing(t)
    <2>1. PICK R \in SUBSET (1..Len(s)) : R = {j \in 1..Len(s) : j < p => j \in Standing(t)}
      OBVIOUS
    <2>2. ASSUME NEW i \in Standing(s), i \in R, Follow(s, i) <= Len(s) PROVE Follow(s, i) \in R
      <3>1. Follow(s, i) \in Nat /\ Follow(s, i) > i /\ i \in Nat
        BY <1>1, FollowIs
      <3>2. CASE Follow(s, i) < p
        <4>1. i \in Standing(t) /\ Follow(t, i) = Follow(s, i)
          BY <1>1, <1>2, <2>1, <2>2, <3>1, <3>2
        <4>2. QED
          BY <1>1, <2>1, <2>2, <3>1, <4>1, ReadingIs
      <3>3. QED
        BY <1>1, <2>1, <2>2, <3>1, <3>2
    <2>3. Len(s) > 0 => 1 \in R
      BY <1>1, <2>1, ReadingIs
    <2>4. QED
      BY <2>1, <2>2, <2>3, ReadingIsLeast
  <1>4. \A j \in Standing(t) : j < p => j \in Standing(s)
    <2>1. PICK R \in SUBSET (1..Len(t)) : R = {j \in 1..Len(t) : j < p => j \in Standing(s)}
      OBVIOUS
    <2>2. ASSUME NEW i \in Standing(t), i \in R, Follow(t, i) <= Len(t) PROVE Follow(t, i) \in R
      <3>1. Follow(t, i) \in Nat /\ Follow(t, i) > i /\ i \in Nat
        BY <1>1, FollowIs
      <3>2. CASE Follow(t, i) < p
        <4>1. i \in Standing(s) /\ Follow(t, i) = Follow(s, i)
          BY <1>1, <1>2, <2>1, <2>2, <3>1, <3>2
        <4>2. QED
          BY <1>1, <2>1, <2>2, <3>1, <3>2, <4>1, ReadingIs
      <3>3. QED
        BY <1>1, <2>1, <2>2, <3>1, <3>2
    <2>3. Len(t) > 0 => 1 \in R
      BY <1>1, <2>1, ReadingIs
    <2>4. QED
      BY <2>1, <2>2, <2>3, ReadingIsLeast
  <1>5. \A j \in Nat : j < p => (j \in Standing(t) <=> j \in Standing(s))
    BY <1>3, <1>4
  <1>6. Settled(t, p)
    <2>1. p = 1 \/ \E j \in Standing(t) : j < p /\ Follow(t, j) = p
      BY <1>2, <1>3 DEF Settled
    <2>2. \A j \in Standing(t) : j < p => Decided(t, j) /\ Follow(t, j) <= p
      BY <1>2, <1>4 DEF Settled
    <2>3. QED
      BY <1>1, <2>1, <2>2 DEF Settled
  <1>7. QED
    BY <1>2, <1>5, <1>6

\* Bytes that are no start byte are passed.
LEMMA SettledSkips ==
  ASSUME NEW s \in Seq(Byte), NEW p, Settled(s, p), NEW q \in 1..Len(s) + 1, p <= q,
         \A i \in p..q - 1 : s[i] # Start
  PROVE  Settled(s, q) /\ \A i \in Standing(s) : i >= p /\ Header(s, i) => i >= q
  <1>1. p \in 1..Len(s) + 1 /\ Len(s) \in Nat
    BY DEF Settled
  <1>2. PICK Good \in SUBSET (p..q) : Good = {r \in p..q : Settled(s, r)}
    OBVIOUS
  <1>3. PICK r \in Good : \A x \in Good : x <= r
    <2>1. /\ Good \in SUBSET Nat /\ Good # {} /\ q \in Nat
          /\ \A x \in Good : x <= q
      BY <1>1, <1>2
    <2>2. QED
      BY <2>1, HasGreatest
  <1>4. ASSUME r < q PROVE FALSE
    <2>1. r \in 1..Len(s) /\ s[r] # Start /\ r + 1 \in p..q
      BY <1>1, <1>2, <1>4
    <2>2. ~Header(s, r) /\ Decided(s, r)
      BY <2>1 DEF Header, Decided
    <2>3. Follow(s, r) = r + 1
      BY <2>2 DEF Follow
    <2>4. Settled(s, r + 1)
      BY <1>1, <1>2, <2>1, <2>2, <2>3, SettledAdvances
    <2>5. QED
      BY <1>2, <1>3, <2>1, <2>4
  <1>5. r = q
    <2>1. r <= q /\ r \in Nat /\ q \in Nat
      BY <1>1, <1>2
    <2>2. QED
      BY <1>4, <2>1
  <1>6. \A i \in Standing(s) : i >= p /\ Header(s, i) => i >= q
    BY <1>1, ReadingIs DEF Header
  <1>7. QED
    BY <1>2, <1>5, <1>6

-----------------------------------------------------------------------------
(* FrameParser: lists of frames.                                           *)

\* fr holds the frames of s that begin at the positions F, in their order.
Enumerates(fr, F, s) ==
  /\ fr \in Seq(Seq(Byte))
  /\ \E at \in [1..Len(fr) -> F] :
       /\ \A i \in F : \E n \in 1..Len(fr) : at[n] = i
       /\ \A n \in 1..Len(fr) : fr[n] = FrameAt(s, at[n])
       /\ \A m, n \in 1..Len(fr) : m < n => at[m] < at[n]

LEMMA NothingLists == \A s : Enumerates(<<>>, {}, s)
  <1> TAKE s
  <1>1. <<>> \in Seq(Seq(Byte)) /\ Len(<<>>) = 0
    OBVIOUS
  <1>2. <<>> \in [1..0 -> {}]
    OBVIOUS
  <1>3. QED
    BY <1>1, <1>2 DEF Enumerates

LEMMA OneLists ==
  ASSUME NEW s, NEW i \in Nat, FrameAt(s, i) \in Seq(Byte)
  PROVE  Enumerates(<<FrameAt(s, i)>>, {i}, s)
  <1>1. PICK fr \in Seq(Seq(Byte)) : fr = <<FrameAt(s, i)>> /\ Len(fr) = 1 /\ fr[1] = FrameAt(s, i)
    <2>1. PICK x \in Seq(Byte) : x = FrameAt(s, i)
      OBVIOUS
    <2>2. <<x>> \in Seq(Seq(Byte)) /\ Len(<<x>>) = 1 /\ <<x>>[1] = x
      OBVIOUS
    <2>3. QED
      BY <2>1, <2>2
  <1>2. PICK at : at = [n \in 1..1 |-> i]
    OBVIOUS
  <1>3. at \in [1..Len(fr) -> {i}] /\ at[1] = i
    BY <1>1, <1>2
  <1>4. QED
    BY <1>1, <1>3 DEF Enumerates

LEMMA BothList ==
  ASSUME NEW s, NEW F \in SUBSET Nat, NEW G \in SUBSET Nat, \A i \in F, j \in G : i < j,
         NEW fr, Enumerates(fr, F, s), NEW gr, Enumerates(gr, G, s)
  PROVE  Enumerates(fr \o gr, F \union G, s)
  <1>1. PICK a \in Nat : a = Len(fr)
    BY DEF Enumerates
  <1>2. PICK b \in Nat : b = Len(gr)
    BY DEF Enumerates
  <1>3. PICK at \in [1..a -> F] :
           /\ \A i \in F : \E n \in 1..a : at[n] = i
           /\ \A n \in 1..a : fr[n] = FrameAt(s, at[n])
           /\ \A m, n \in 1..a : m < n => at[m] < at[n]
    <2>1. \E t \in [1..Len(fr) -> F] :
             /\ \A i \in F : \E n \in 1..Len(fr) : t[n] = i
             /\ \A n \in 1..Len(fr) : fr[n] = FrameAt(s, t[n])
             /\ \A m, n \in 1..Len(fr) : m < n => t[m] < t[n]
      BY DEF Enumerates
    <2>2. QED
      BY <1>1, <2>1
  <1>4. PICK bt \in [1..b -> G] :
           /\ \A i \in G : \E n \in 1..b : bt[n] = i
           /\ \A n \in 1..b : gr[n] = FrameAt(s, bt[n])
           /\ \A m, n \in 1..b : m < n => bt[m] < bt[n]
    <2>1. \E t \in [1..Len(gr) -> G] :
             /\ \A i \in G : \E n \in 1..Len(gr) : t[n] = i
             /\ \A n \in 1..Len(gr) : gr[n] = FrameAt(s, t[n])
             /\ \A m, n \in 1..Len(gr) : m < n => t[m] < t[n]
      BY DEF Enumerates
    <2>2. QED
      BY <1>2, <2>1
  <1>5. PICK hr \in Seq(Seq(Byte)) :
           /\ hr = fr \o gr /\ Len(hr) = a + b
           /\ \A n \in 1..a + b : hr[n] = IF n <= a THEN fr[n] ELSE gr[n - a]
    <2>1. PICK T : T = Seq(Byte)
      OBVIOUS
    <2>2. fr \in Seq(T) /\ gr \in Seq(T)
      BY <2>1 DEF Enumerates
    <2>3. /\ fr \o gr \in Seq(T) /\ Len(fr \o gr) = Len(fr) + Len(gr)
          /\ \A n \in 1..Len(fr) + Len(gr) :
               (fr \o gr)[n] = IF n <= Len(fr) THEN fr[n] ELSE gr[n - Len(fr)]
      BY <2>2, ConcatProperties
    <2>4. QED
      BY <1>1, <1>2, <2>1, <2>3
  <1>6. PICK ct : ct = [n \in 1..a + b |-> IF n <= a THEN at[n] ELSE bt[n - a]]
    OBVIOUS
  <1>7. \A n \in 1..a : n \in 1..a + b /\ n <= a
    OBVIOUS
  <1>8. \A n \in 1..b : a + n \in 1..a + b /\ ~(a + n <= a) /\ (a + n) - a = n
    OBVIOUS
  <1>9. /\ \A n \in 1..a : ct[n] = at[n] /\ hr[n] = fr[n]
        /\ \A n \in 1..b : ct[a + n] = bt[n] /\ hr[a + n] = gr[n]
    BY <1>5, <1>6, <1>7, <1>8
  <1>10. \A n \in 1..a + b : \/ n \in 1..a
                             \/ \E m \in 1..b : n = a + m
    <2>1. ASSUME NEW n \in 1..a + b, n \notin 1..a PROVE \E m \in 1..b : n = a + m
      <3>1. n - a \in 1..b /\ n = a + (n - a)
        BY <2>1
      <3>2. QED
        BY <3>1
    <2>2. QED
      BY <2>1
  <1>11. ct \in [1..Len(hr) -> F \union G]
    <2>1. ASSUME NEW n \in 1..a + b PROVE ct[n] \in F \union G
      <3>1. CASE n \in 1..a
        BY <1>3, <1>9, <3>1
      <3>2. CASE n \notin 1..a
        <4>1. PICK m \in 1..b : n = a + m
          BY <1>10, <3>2
        <4>2. QED
          BY <1>4, <1>9, <4>1
      <3>3. QED
        BY <3>1, <3>2
    <2>2. QED
      BY <1>5, <1>6, <2>1
  <1>12. \A i \in F \union G : \E n \in 1..Len(hr) : ct[n] = i
    <2>1. ASSUME NEW i \in F PROVE \E n \in 1..Len(hr) : ct[n] = i
      <3>1. PICK n \in 1..a : at[n] = i
        BY <1>3, <2>1
      <3>2. n \in 1..Len(hr) /\ ct[n] = i
        BY <1>5, <1>7, <1>9, <3>1
      <3>3. QED
        BY <3>2
    <2>2. ASSUME NEW i \in G PROVE \E n \in 1..Len(hr) : ct[n] = i
      <3>1. PICK n \in 1..b : bt[n] = i
        BY <1>4, <2>2
      <3>2. a + n \in 1..Len(hr) /\ ct[a + n] = i
        BY <1>5, <1>8, <1>9, <3>1
      <3>3. QED
        BY <3>2
    <2>3. QED
      BY <2>1, <2>2
  <1>13. \A n \in 1..Len(hr) : hr[n] = FrameAt(s, ct[n])
    <2> TAKE n \in 1..Len(hr)
    <2>1. CASE n \in 1..a
      BY <1>3, <1>9, <2>1
    <2>2. CASE n \notin 1..a
      <3>1. PICK m \in 1..b : n = a + m
        BY <1>5, <1>10, <2>2
      <3>2. QED
        BY <1>4, <1>9, <3>1
    <2>3. QED
      BY <2>1, <2>2
  <1>14. ASSUME NEW m \in 1..Len(hr), NEW n \in 1..Len(hr), m < n PROVE ct[m] < ct[n]
    <2>1. CASE n \in 1..a
      <3>1. m \in 1..a
        BY <1>14, <2>1
      <3>2. QED
        BY <1>3, <1>9, <1>14, <2>1, <3>1
    <2>2. CASE n \notin 1..a
      <3>1. PICK n2 \in 1..b : n = a + n2
        BY <1>5, <1>10, <2>2
      <3>2. CASE m \in 1..a
        <4>1. at[m] \in F /\ bt[n2] \in G /\ ct[m] = at[m] /\ ct[a + n2] = bt[n2]
          BY <1>3, <1>4, <1>9, <3>1, <3>2
        <4>2. QED
          BY <3>1, <4>1
      <3>3. CASE m \notin 1..a
        <4>1. PICK m2 \in 1..b : m = a + m2
          BY <1>5, <1>10, <3>3
        <4>2. m2 < n2
          BY <1>14, <3>1, <4>1
        <4>3. QED
          BY <1>4, <1>9, <3>1, <4>1, <4>2
      <3>4. QED
        BY <3>2, <3>3
    <2>3. QED
      BY <2>1, <2>2
  <1>15. QED
    BY <1>5, <1>11, <1>12, <1>13, <1>14 DEF Enumerates

-----------------------------------------------------------------------------
(* FrameParser: the loop of feed.                                          *)

LEMMA HasLeast ==
  ASSUME NEW S \in SUBSET Nat, S # {}, NEW n \in Nat, \A x \in S : x <= n
  PROVE  \E x \in S : \A y \in S : x <= y
  <1> DEFINE T == {n - x : x \in S}
  <1>1. T \in SUBSET Nat /\ T # {} /\ \A t \in T : t <= n
    <2>1. \A x \in S : n - x \in Nat /\ n - x <= n
      OBVIOUS
    <2>2. QED
      BY <2>1
  <1>2. PICK t \in T : \A u \in T : u <= t
    <2> HIDE DEF T
    <2>1. QED
      BY <1>1, HasGreatest
  <1>3. PICK x \in S : t = n - x
    OBVIOUS
  <1>4. ASSUME NEW y \in S PROVE x <= y
    <2>1. n - y <= n - x
      BY <1>2, <1>3
    <2>2. QED
      BY <2>1
  <1>5. QED
    BY <1>4

\* A turn of the loop: no start byte is left, or the first one, at k, begins an
\* impossible header, a frame that is there, or what may become a frame.
NextStart(b, i, k) == k \in i..Len(b) /\ b[k] = Start /\ \A j \in i..k - 1 : b[j] # Start

LEMMA TurnIs ==
  ASSUME NEW b \in Seq(Byte), NEW i \in 1..Len(b) + 1, NEW later
  PROVE  \/ /\ \A j \in i..Len(b) : b[j] # Start
            /\ Turn(b, later, i) = [left |-> <<>>, found |-> <<>>]
         \/ \E k : /\ NextStart(b, i, k) /\ k + 2 <= Len(b) /\ ~Header(b, k)
                   /\ Turn(b, later, i) = later[k + 1]
         \/ \E k : /\ NextStart(b, i, k) /\ Header(b, k) /\ EndAt(b, k) <= Len(b)
                   /\ Turn(b, later, i) =
                        [left |-> later[EndAt(b, k) + 1].left,
                         found |-> <<FrameAt(b, k)>> \o later[EndAt(b, k) + 1].found]
         \/ \E k : /\ NextStart(b, i, k)
                   /\ k + 2 > Len(b) \/ (Header(b, k) /\ EndAt(b, k) > Len(b))
                   /\ Turn(b, later, i) = [left |-> SubSeq(b, k, Len(b)), found |-> <<>>]
  <1>1. PICK starts \in SUBSET (i..Len(b)) : starts = {k \in i..Len(b) : b[k] = Start}
    OBVIOUS
  <1>2. CASE starts = {}
    BY <1>1, <1>2 DEF Turn
  <1>3. CASE starts # {}
    <2>1. PICK k \in starts : \A j \in starts : k <= j
      <3>1. starts \in SUBSET Nat /\ Len(b) \in Nat /\ \A x \in starts : x <= Len(b)
        OBVIOUS
      <3>2. QED
        BY <1>3, <3>1, HasLeast
    <2>2. Min(starts) = k
      <3>1. starts \in SUBSET Int
        OBVIOUS
      <3>2. QED
        BY <2>1, <3>1, ExtremesOf
    <2>3. NextStart(b, i, k)
      <3>1. k \in i..Len(b) /\ b[k] = Start
        BY <1>1
      <3>2. ASSUME NEW j \in i..k - 1, b[j] = Start PROVE FALSE
        <4>1. j \in starts
          BY <1>1, <3>1, <3>2
        <4>2. QED
          BY <2>1, <3>1, <4>1
      <3>3. QED
        BY <3>1, <3>2 DEF NextStart
    <2>4. k \in Nat /\ Len(b) \in Nat
      OBVIOUS
    <2>5. CASE k + 2 <= Len(b) /\ Size(b[k + 1], b[k + 2]) \notin 1..MaxFrame
      <3>1. Turn(b, later, i) = later[k + 1]
        BY <1>1, <1>3, <2>2, <2>5 DEF Turn, Resync
      <3>2. QED
        BY <2>3, <2>5, <3>1 DEF Header
    <2>6. CASE /\ k + 2 <= Len(b) /\ Size(b[k + 1], b[k + 2]) \in 1..MaxFrame
               /\ EndAt(b, k) <= Len(b)
      <3>1. Turn(b, later, i) =
              [left |-> later[EndAt(b, k) + 1].left,
               found |-> <<FrameAt(b, k)>> \o later[EndAt(b, k) + 1].found]
        BY <1>1, <1>3, <2>2, <2>6 DEF Turn, EndAt, FrameAt
      <3>2. QED
        BY <2>3, <2>6, <3>1 DEF Header, NextStart
    <2>7. CASE \/ ~(k + 2 <= Len(b))
               \/ /\ k + 2 <= Len(b) /\ Size(b[k + 1], b[k + 2]) \in 1..MaxFrame
                  /\ ~(EndAt(b, k) <= Len(b))
      <3>1. Turn(b, later, i) = [left |-> SubSeq(b, k, Len(b)), found |-> <<>>]
        BY <1>1, <1>3, <2>2, <2>7 DEF Turn, EndAt
      <3>2. CASE ~(k + 2 <= Len(b))
        <4>1. k + 2 > Len(b)
          BY <2>4, <3>2
        <4>2. QED
          BY <2>3, <3>1, <4>1
      <3>3. CASE k + 2 <= Len(b)
        <4>1. Header(b, k)
          BY <2>3, <2>7, <3>3 DEF Header, NextStart
        <4>2. EndAt(b, k) > Len(b)
          BY <2>4, <2>7, <3>3, <4>1, FollowIs
        <4>3. QED
          BY <2>3, <3>1, <4>1, <4>2
      <3>4. QED
        BY <3>2, <3>3, SMTT(30)
    <2>8. QED
      BY <2>5, <2>6, <2>7
  <1>4. QED
    BY <1>2, <1>3

\* The recursive function of the loop is defined: each turn asks for later ones only.
LEMMA DrainTurns ==
  ASSUME NEW b \in Seq(Byte)
  PROVE  \E from : /\ Drain(b) = from[1]
                   /\ \A i \in 1..Len(b) + 1 : from[i] = Turn(b, from, i)
  <1> DEFINE Upto(g, n) == \A i \in 1..Len(b) + 1 : Len(b) + 1 - i < n => g[i] = Turn(b, g, i)
             Good == {n \in 0..Len(b) + 1 : \E g : Upto(g, n)}
  <1>1. Len(b) \in Nat
    OBVIOUS
  <1>2. ASSUME NEW g, NEW h, NEW i \in 1..Len(b) + 1,
               \A j \in 1..Len(b) + 1 : j > i => g[j] = h[j]
        PROVE  Turn(b, g, i) = Turn(b, h, i)
    <2>1. PICK starts \in SUBSET (i..Len(b)) : starts = {k \in i..Len(b) : b[k] = Start}
      OBVIOUS
    <2>2. CASE starts = {}
      BY <2>1, <2>2 DEF Turn
    <2>3. CASE starts # {}
      <3>1. PICK k \in starts : k = Min(starts)
        <4>1. \E k \in starts : \A j \in starts : k <= j
          <5>1. starts \in SUBSET Nat /\ \A x \in starts : x <= Len(b)
            OBVIOUS
          <5>2. QED
            BY <1>1, <2>3, <5>1, HasLeast
        <4>2. QED
          BY <4>1 DEF Min
      <3>2. k \in 1..Len(b) /\ k >= i
        OBVIOUS
      <3>3. g[k + 1] = h[k + 1]
        BY <1>1, <1>2, <3>2
      <3>4. CASE /\ k + 2 <= Len(b) /\ Size(b[k + 1], b[k + 2]) \in 1..MaxFrame
                 /\ k + 2 + Size(b[k + 1], b[k + 2]) <= Len(b)
        <4>1. PICK size \in Nat : size = Size(b[k + 1], b[k + 2])
          BY <3>4
        <4>2. g[k + 2 + size + 1] = h[k + 2 + size + 1]
          <5>1. k + 2 + size + 1 \in 1..Len(b) + 1 /\ k + 2 + size + 1 > i
            BY <1>1, <3>2, <3>4, <4>1
          <5>2. QED
            BY <1>2, <5>1
        <4>3. QED
          BY <2>1, <2>3, <3>1, <3>4, <4>1, <4>2 DEF Turn
      <3>5. CASE ~(/\ k + 2 <= Len(b) /\ Size(b[k + 1], b[k + 2]) \in 1..MaxFrame
                   /\ k + 2 + Size(b[k + 1], b[k + 2]) <= Len(b))
        BY <2>1, <2>3, <3>1, <3>3, <3>5 DEF Turn, Resync
      <3>6. QED
        BY <3>4, <3>5
    <2>4. QED
      BY <2>2, <2>3
  <1>3. 0 \in Good
    <2>1. Upto(<<>>, 0)
      BY <1>1
    <2>2. QED
      BY <1>1, <2>1
  <1>4. PICK n \in Good : \A k \in Good : k <= n
    <2>1. Good \subseteq 0..Len(b) + 1
      OBVIOUS
    <2> HIDE DEF Good
    <2>2. Good \in SUBSET Nat /\ Good # {} /\ Len(b) + 1 \in Nat /\ \A k \in Good : k <= Len(b) + 1
      BY <1>1, <1>3, <2>1
    <2>3. QED
      BY <2>2, HasGreatest
  <1>5. PICK g : Upto(g, n)
    OBVIOUS
  <1>6. PICK g2 : g2 = [i \in 1..Len(b) + 1 |-> Turn(b, g, i)]
    OBVIOUS
  <1>7. ASSUME NEW i \in 1..Len(b) + 1, Len(b) + 1 - i < n + 1
        PROVE  g2[i] = Turn(b, g2, i)
    <2>1. \A j \in 1..Len(b) + 1 : j > i => Len(b) + 1 - j < n
      BY <1>1, <1>7
    <2>2. \A j \in 1..Len(b) + 1 : j > i => g2[j] = g[j]
      BY <1>5, <1>6, <2>1
    <2>3. QED
      BY <1>2, <1>6, <2>2
  <1>8. n = Len(b) + 1
    <2>1. n \in 0..Len(b) + 1
      OBVIOUS
    <2>2. n < Len(b) + 1 => n + 1 \in Good
      BY <1>1, <1>7, <2>1
    <2> HIDE DEF Good
    <2>3. QED
      BY <1>1, <1>4, <2>1, <2>2
  <1>9. g2 = [i \in 1..Len(b) + 1 |-> Turn(b, g2, i)]
    <2>1. \A i \in 1..Len(b) + 1 : g2[i] = Turn(b, g2, i)
      BY <1>1, <1>7, <1>8
    <2>2. QED
      BY <1>6, <2>1
  <1>10. PICK f : f = CHOOSE h : h = [i \in 1..Len(b) + 1 |-> Turn(b, h, i)]
    OBVIOUS
  <1>11. f = [i \in 1..Len(b) + 1 |-> Turn(b, f, i)]
    BY <1>9, <1>10
  <1>12. Drain(b) = f[1]
    BY <1>10 DEF Drain
  <1>13. QED
    BY <1>11, <1>12, ZenonT(40)

\* The bytes of s from p on are those of b.
Remains(b, s, p) ==
  /\ b \in Seq(Byte) /\ p \in 1..Len(s) + 1 /\ Len(b) = Len(s) + 1 - p
  /\ \A i \in 1..Len(b) : b[i] = s[p + i - 1]

FramesFrom(s, q) == {j \in FrameStarts(s) : j >= q}

\* What the loop does with the bytes of s from q on.
Reads(result, s, q) ==
  /\ \E e \in q..Len(s) + 1 :
       Settled(s, e) /\ Remains(result.left, s, e) /\ FramesFrom(s, e) = {}
  /\ Enumerates(result.found, FramesFrom(s, q), s)

LEMMA SameSeq ==
  ASSUME NEW S, NEW x \in Seq(S), NEW y \in Seq(S), Len(x) = Len(y),
         \A i \in 1..Len(x) : x[i] = y[i]
  PROVE  x = y
  <1>1. x \in [1..Len(x) -> S] /\ y \in [1..Len(x) -> S]
    BY LenProperties
  <1>2. QED
    BY <1>1

LEMMA SubSeqSame ==
  ASSUME NEW b \in Seq(Byte), NEW s \in Seq(Byte), NEW p, Remains(b, s, p),
         NEW m \in 1..Len(b) + 1, NEW n \in 0..Len(b)
  PROVE  /\ SubSeq(b, m, n) \in Seq(Byte)
         /\ Len(SubSeq(b, m, n)) = IF m <= n THEN n - m + 1 ELSE 0
         /\ \A i \in 1..n - m + 1 : SubSeq(b, m, n)[i] = b[m + i - 1]
         /\ SubSeq(s, p + m - 1, p + n - 1) = SubSeq(b, m, n)
  <1>1. p \in 1..Len(s) + 1 /\ Len(b) = Len(s) + 1 - p /\ Len(s) \in Nat /\ Len(b) \in Nat
    BY DEF Remains
  <1>2. \A i \in m..n : b[i] \in Byte /\ b[i] = s[p + i - 1]
    BY <1>1 DEF Remains
  <1>3. /\ SubSeq(b, m, n) \in Seq(Byte)
        /\ Len(SubSeq(b, m, n)) = IF m <= n THEN n - m + 1 ELSE 0
        /\ \A i \in 1..n - m + 1 : SubSeq(b, m, n)[i] = b[m + i - 1]
    BY <1>1, <1>2, SubSeqProperties
  <1>4. PICK m2 \in Int : m2 = p + m - 1
    BY <1>1
  <1>5. PICK n2 \in Int : n2 = p + n - 1
    BY <1>1
  <1>6. n2 - m2 = n - m /\ (m2 <= n2 <=> m <= n)
    BY <1>1, <1>4, <1>5
  <1>7. \A i \in m2..n2 : s[i] \in Byte
    BY <1>1, <1>4, <1>5
  <1>8. /\ SubSeq(s, m2, n2) \in Seq(Byte)
        /\ Len(SubSeq(s, m2, n2)) = IF m2 <= n2 THEN n2 - m2 + 1 ELSE 0
        /\ \A i \in 1..n2 - m2 + 1 : SubSeq(s, m2, n2)[i] = s[m2 + i - 1]
    BY <1>7, SubSeqProperties
  <1>9. \A i \in 1..n - m + 1 : SubSeq(s, m2, n2)[i] = SubSeq(b, m, n)[i]
    <2> TAKE i \in 1..n - m + 1
    <2>1. m + i - 1 \in m..n /\ m2 + i - 1 = p + (m + i - 1) - 1
      BY <1>1, <1>4
    <2>2. b[m + i - 1] = s[m2 + i - 1]
      BY <1>2, <2>1
    <2>3. QED
      BY <1>3, <1>6, <1>8, <2>2
  <1>10. Len(SubSeq(s, m2, n2)) = Len(SubSeq(b, m, n))
    BY <1>3, <1>6, <1>8
  <1>11. \A i \in 1..Len(SubSeq(b, m, n)) : i \in 1..n - m + 1
    BY <1>3
  <1>12. SubSeq(s, m2, n2) = SubSeq(b, m, n)
    BY <1>3, <1>8, <1>9, <1>10, <1>11, SameSeq
  <1>13. QED
    BY <1>3, <1>4, <1>5, <1>12

LEMMA SubSeqOfPrefix ==
  ASSUME NEW s \in Seq(Byte), NEW t \in Seq(Byte), Len(s) <= Len(t),
         \A i \in 1..Len(s) : t[i] = s[i],
         NEW m \in 1..Len(s) + 1, NEW n \in 0..Len(s)
  PROVE  SubSeq(t, m, n) = SubSeq(s, m, n)
  <1>1. \A i \in m..n : s[i] \in Byte /\ t[i] \in Byte
    OBVIOUS
  <1>2. /\ SubSeq(s, m, n) \in Seq(Byte) /\ SubSeq(t, m, n) \in Seq(Byte)
        /\ Len(SubSeq(s, m, n)) = IF m <= n THEN n - m + 1 ELSE 0
        /\ Len(SubSeq(t, m, n)) = IF m <= n THEN n - m + 1 ELSE 0
        /\ \A i \in 1..n - m + 1 : SubSeq(s, m, n)[i] = s[m + i - 1]
        /\ \A i \in 1..n - m + 1 : SubSeq(t, m, n)[i] = t[m + i - 1]
    BY <1>1, SubSeqProperties
  <1>3. \A i \in 1..n - m + 1 : s[m + i - 1] = t[m + i - 1]
    OBVIOUS
  <1>4. \A i \in 1..Len(SubSeq(t, m, n)) : SubSeq(t, m, n)[i] = SubSeq(s, m, n)[i]
    BY <1>2, <1>3
  <1>5. QED
    BY <1>2, <1>4, SameSeq

\* A header and its frame are the same in what remains.
LEMMA RemainsSame ==
  ASSUME NEW b \in Seq(Byte), NEW s \in Seq(Byte), NEW p, Remains(b, s, p),
         NEW k \in 1..Len(b), NEW q, q = p + k - 1
  PROVE  /\ q \in 1..Len(s) /\ s[q] = b[k] /\ (k + 2 <= Len(b) <=> q + 2 <= Len(s))
         /\ Header(s, q) <=> Header(b, k)
         /\ Header(b, k) => /\ EndAt(s, q) = EndAt(b, k) + p - 1
                            /\ EndAt(b, k) <= Len(b) <=> EndAt(s, q) <= Len(s)
                            /\ EndAt(b, k) <= Len(b) => FrameAt(s, q) = FrameAt(b, k)
  <1>1. p \in 1..Len(s) + 1 /\ Len(b) = Len(s) + 1 - p /\ Len(s) \in Nat /\ Len(b) \in Nat
    BY DEF Remains
  <1>2. \A i \in 1..Len(b) : b[i] = s[p + i - 1]
    BY DEF Remains
  <1>3. q \in 1..Len(s) /\ s[q] = b[k] /\ (k + 2 <= Len(b) <=> q + 2 <= Len(s))
    BY <1>1, <1>2
  <1>4. ASSUME k + 2 <= Len(b) PROVE s[q + 1] = b[k + 1] /\ s[q + 2] = b[k + 2]
    <2>1. k + 1 \in 1..Len(b) /\ k + 2 \in 1..Len(b)
      BY <1>1, <1>4
    <2>2. p + (k + 1) - 1 = q + 1 /\ p + (k + 2) - 1 = q + 2
      BY <1>1
    <2>3. b[k + 1] = s[p + (k + 1) - 1] /\ b[k + 2] = s[p + (k + 2) - 1]
      BY <1>2, <2>1
    <2>4. QED
      BY <2>2, <2>3
  <1>5. Header(s, q) <=> Header(b, k)
    BY <1>3, <1>4 DEF Header
  <1>6. ASSUME Header(b, k)
        PROVE  /\ EndAt(s, q) = EndAt(b, k) + p - 1
               /\ EndAt(b, k) \in Nat /\ EndAt(b, k) >= k + 3
    <2>1. s[q + 1] = b[k + 1] /\ s[q + 2] = b[k + 2]
      BY <1>4, <1>6 DEF Header
    <2>2. Size(b[k + 1], b[k + 2]) \in Nat
      BY <1>6, ParserAssumption DEF Header
    <2>3. EndAt(s, q) = EndAt(b, k) + p - 1
      BY <1>1, <2>1, <2>2 DEF EndAt
    <2>4. QED
      BY <1>6, <2>3, FollowIs
  <1>7. ASSUME Header(b, k), EndAt(b, k) <= Len(b) PROVE FrameAt(s, q) = FrameAt(b, k)
    <2>1. PICK e \in 0..Len(b) : e = EndAt(b, k) /\ EndAt(s, q) = p + e - 1
      BY <1>1, <1>6, <1>7
    <2>2. PICK m \in 1..Len(b) + 1 : m = k + 3 /\ q + 3 = p + m - 1
      BY <1>1, <1>6, <1>7
    <2>3. SubSeq(s, p + m - 1, p + e - 1) = SubSeq(b, m, e)
      BY SubSeqSame
    <2>4. QED
      BY <2>1, <2>2, <2>3 DEF FrameAt
  <1>8. Header(b, k) => (EndAt(b, k) <= Len(b) <=> EndAt(s, q) <= Len(s))
    BY <1>1, <1>6
  <1>9. QED
    BY <1>3, <1>5, <1>6, <1>7, <1>8

LEMMA FrameStartsAre ==
  ASSUME NEW s \in Seq(Byte)
  PROVE  FrameStarts(s) \subseteq 1..Len(s) /\ \A j \in FrameStarts(s) : j + 2 <= Len(s)
  BY ReadingIs DEF FrameStarts, Header

LEMMA NoneRemains ==
  ASSUME NEW s \in Seq(Byte), NEW q, Settled(s, q), \A i \in q..Len(s) : s[i] # Start
  PROVE  Reads([left |-> <<>>, found |-> <<>>], s, q)
  <1>1. q \in 1..Len(s) + 1 /\ Len(s) \in Nat
    BY DEF Settled
  <1>2. PICK e \in 1..Len(s) + 1 : e = Len(s) + 1 /\ q <= e /\ q..e - 1 = q..Len(s)
    BY <1>1
  <1>3. Settled(s, e)
    BY <1>2, SettledSkips
  <1>4. FramesFrom(s, e) = {} /\ FramesFrom(s, q) = {}
    <2>1. \A j \in FrameStarts(s) : j \in 1..Len(s) /\ s[j] = Start
      BY FrameStartsAre DEF FrameStarts, Header
    <2>2. QED
      BY <1>1, <1>2, <2>1 DEF FramesFrom
  <1>5. Remains(<<>>, s, e)
    BY <1>1, <1>2 DEF Remains
  <1>6. QED
    BY <1>1, <1>2, <1>3, <1>4, <1>5, NothingLists DEF Reads

\* The turns of the loop, one by one, from the last.
LEMMA TurnReads ==
  ASSUME NEW s \in Seq(Byte), NEW b \in Seq(Byte), NEW p, Remains(b, s, p),
         NEW from, NEW i \in 1..Len(b) + 1, from[i] = Turn(b, from, i),
         NEW q, q = p + i - 1, Settled(s, q),
         \A j \in 1..Len(b) + 1 : j > i /\ Settled(s, p + j - 1) => Reads(from[j], s, p + j - 1)
  PROVE  Reads(from[i], s, q)
  <1>1. /\ p \in 1..Len(s) + 1 /\ Len(b) = Len(s) + 1 - p /\ Len(s) \in Nat /\ Len(b) \in Nat
        /\ q \in 1..Len(s) + 1
    BY DEF Remains
  <1>2. CASE (\A j \in i..Len(b) : b[j] # Start) /\ from[i] = [left |-> <<>>, found |-> <<>>]
    <2>1. \A j \in q..Len(s) : s[j] # Start
      <3> TAKE j \in q..Len(s)
      <3>1. PICK l \in 1..Len(b) : l >= i /\ j = p + l - 1
        <4>1. j - p + 1 \in 1..Len(b) /\ j - p + 1 >= i /\ j = p + (j - p + 1) - 1
          BY <1>1
        <4>2. QED
          BY <4>1
      <3>2. s[j] = b[l] /\ l \in i..Len(b)
        BY <1>1, <3>1 DEF Remains
      <3>3. QED
        BY <1>2, <3>2
    <2>2. QED
      BY <1>2, <2>1, NoneRemains
  <1>3. ASSUME NEW k, NextStart(b, i, k)
        PROVE  /\ k \in 1..Len(b) /\ k >= i /\ p + k - 1 \in 1..Len(s) /\ p + k - 1 >= q
               /\ Settled(s, p + k - 1) /\ s[p + k - 1] = Start
               /\ FramesFrom(s, q) = FramesFrom(s, p + k - 1)
    <2>1. k \in 1..Len(b) /\ k >= i /\ b[k] = Start
      BY <1>1, <1>3 DEF NextStart
    <2>2. PICK c \in 1..Len(s) : c = p + k - 1 /\ c >= q /\ s[c] = Start
      <3>1. PICK c \in Nat : c = p + k - 1 /\ c >= q
        BY <1>1, <2>1
      <3>2. c \in 1..Len(s) /\ s[c] = b[k]
        BY <2>1, <3>1, RemainsSame, SMTT(30)
      <3>3. QED
        BY <2>1, <3>1, <3>2
    <2>3. \A j \in q..c - 1 : s[j] # Start
      <3> TAKE j \in q..c - 1
      <3>1. PICK l \in 1..Len(b) : l >= i /\ l <= k - 1 /\ j = p + l - 1
        <4>1. /\ j - p + 1 \in 1..Len(b) /\ j - p + 1 >= i /\ j - p + 1 <= k - 1
              /\ j = p + (j - p + 1) - 1
          BY <1>1, <2>1, <2>2
        <4>2. QED
          BY <4>1
      <3>2. s[j] = b[l] /\ l \in i..k - 1
        BY <1>1, <2>1, <3>1 DEF Remains
      <3>3. QED
        BY <1>3, <3>2 DEF NextStart
    <2>4. c \in 1..Len(s) + 1 /\ q <= c
      BY <1>1, <2>2
    <2>5. Settled(s, c) /\ \A j \in Standing(s) : j >= q /\ Header(s, j) => j >= c
      BY <2>3, <2>4, SettledSkips
    <2>6. FramesFrom(s, q) = FramesFrom(s, c)
      BY <1>1, <2>4, <2>5, FrameStartsAre DEF FramesFrom, FrameStarts
    <2>7. QED
      BY <2>1, <2>2, <2>5, <2>6
  <1>4. ASSUME NEW k, NextStart(b, i, k), k + 2 <= Len(b), ~Header(b, k), from[i] = from[k + 1]
        PROVE  Reads(from[i], s, q)
    <2>1. k \in 1..Len(b) /\ k >= i /\ FramesFrom(s, q) = FramesFrom(s, p + k - 1)
      BY <1>3, <1>4
    <2>2. PICK c \in 1..Len(s) : c = p + k - 1 /\ c >= q /\ Settled(s, c)
      BY <1>3, <1>4
    <2>3. ~Header(s, c) /\ c + 2 <= Len(s)
      BY <1>4, <2>1, <2>2, RemainsSame
    <2>4. Follow(s, c) = c + 1 /\ Decided(s, c)
      BY <2>3 DEF Follow, Decided
    <2>5. Settled(s, c + 1)
      BY <1>1, <2>2, <2>3, <2>4, SettledAdvances
    <2>6. k + 1 \in 1..Len(b) + 1 /\ k + 1 > i /\ p + (k + 1) - 1 = c + 1
      BY <1>1, <2>1, <2>2
    <2>7. Reads(from[i], s, c + 1)
      BY <1>4, <2>5, <2>6
    <2>8. FramesFrom(s, q) = FramesFrom(s, c + 1)
      BY <2>1, <2>2, <2>3, FrameStartsAre DEF FramesFrom, FrameStarts
    <2>9. QED
      BY <1>1, <2>2, <2>7, <2>8 DEF Reads
  <1>5. ASSUME NEW k, NextStart(b, i, k), Header(b, k), EndAt(b, k) <= Len(b),
               from[i] = [left |-> from[EndAt(b, k) + 1].left,
                          found |-> <<FrameAt(b, k)>> \o from[EndAt(b, k) + 1].found]
        PROVE  Reads(from[i], s, q)
    <2>1. k \in 1..Len(b) /\ k >= i /\ FramesFrom(s, q) = FramesFrom(s, p + k - 1)
      BY <1>3, <1>5
    <2>2. PICK c \in 1..Len(s) : c = p + k - 1 /\ c >= q /\ Settled(s, c)
      BY <1>3, <1>5
    <2>3. /\ Header(s, c) /\ EndAt(s, c) = EndAt(b, k) + p - 1 /\ EndAt(s, c) <= Len(s)
          /\ FrameAt(s, c) = FrameAt(b, k)
      BY <1>5, <2>1, <2>2, RemainsSame
    <2>14. PICK d \in 0..Len(b) : d = EndAt(b, k) /\ d >= k + 3
      <3>1. EndAt(b, k) \in Nat /\ EndAt(b, k) >= k + 3
        BY <1>5, <2>1, FollowIs
      <3>2. QED
        BY <1>1, <1>5, <3>1
    <2>4. PICK e \in 1..Len(b) + 1 : e = d + 1 /\ e = EndAt(b, k) + 1 /\ e > i /\ e > k
      BY <1>1, <2>1, <2>14, SMTT(30)
    <2>5. PICK f \in Nat : f = p + e - 1 /\ f = EndAt(s, c) + 1 /\ f > c /\ f <= Len(s) + 1
      <3>1. EndAt(s, c) = d + p - 1
        BY <2>3, <2>14
      <3>2. QED
        BY <1>1, <2>1, <2>2, <2>4, <3>1
    <2>6. Follow(s, c) = f /\ Decided(s, c)
      BY <2>3, <2>5 DEF Follow, Decided, Header
    <2>7. Settled(s, f)
      BY <2>2, <2>5, <2>6, SettledAdvances
    <2>8. Reads(from[e], s, f)
      BY <2>4, <2>5, <2>7
    <2>9. from[i].left = from[e].left /\ from[i].found = <<FrameAt(s, c)>> \o from[e].found
      <3>1. from[i] = [left |-> from[e].left, found |-> <<FrameAt(s, c)>> \o from[e].found]
        BY <1>5, <2>3, <2>4
      <3>2. PICK found : found = <<FrameAt(s, c)>> \o from[e].found
        OBVIOUS
      <3>3. from[i] = [left |-> from[e].left, found |-> found]
        BY <3>1, <3>2, Zenon
      <3>4. from[i].left = from[e].left /\ from[i].found = found
        BY <3>3
      <3>5. QED
        BY <3>2, <3>4, Zenon
    <2>10. FramesFrom(s, q) = {c} \union FramesFrom(s, f)
      <3>1. c \in FrameStarts(s)
        BY <2>2, <2>3, SettledStands DEF FrameStarts
      <3>2. \A j \in Standing(s) : j <= c \/ j >= f
        BY <2>2, <2>6, NothingBetween
      <3>3. \A j \in FrameStarts(s) : j \in 1..Len(s) /\ (j <= c \/ j >= f)
        BY <3>2, FrameStartsAre DEF FrameStarts
      <3>4. FramesFrom(s, c) = {c} \union FramesFrom(s, f)
        <4>1. \A j \in FrameStarts(s) : j >= c <=> j = c \/ j >= f
          BY <2>2, <2>5, <3>3
        <4>2. QED
          BY <3>1, <4>1 DEF FramesFrom
      <3>5. QED
        BY <2>1, <2>2, <3>4
    <2>11. Enumerates(from[i].found, FramesFrom(s, q), s)
      <3>1. FrameAt(s, c) \in Seq(Byte)
        <4>1. PICK m \in 1..Len(b) + 1 : m = k + 3
          BY <1>1, <2>1, <2>14
        <4>2. SubSeq(b, m, d) \in Seq(Byte)
          BY SubSeqSame
        <4>3. QED
          BY <2>3, <2>14, <4>1, <4>2 DEF FrameAt
      <3>2. Enumerates(<<FrameAt(s, c)>>, {c}, s)
        BY <3>1, OneLists
      <3>3. Enumerates(from[e].found, FramesFrom(s, f), s)
        BY <2>8 DEF Reads
      <3>4. FramesFrom(s, f) \in SUBSET Nat /\ {c} \in SUBSET Nat
            /\ \A j \in {c}, l \in FramesFrom(s, f) : j < l
        BY <2>5, FrameStartsAre DEF FramesFrom
      <3>5. PICK F \in SUBSET Nat : F = {c}
        BY <3>4
      <3>6. PICK G \in SUBSET Nat : G = FramesFrom(s, f)
        BY <3>4
      <3>7. Enumerates(<<FrameAt(s, c)>> \o from[e].found, F \union G, s)
        BY <3>2, <3>3, <3>4, <3>5, <3>6, BothList
      <3>8. QED
        BY <2>9, <2>10, <3>5, <3>6, <3>7
    <2>12. \A x \in f..Len(s) + 1 : x \in q..Len(s) + 1
      BY <1>1, <2>2, <2>5
    <2>13. QED
      BY <2>8, <2>9, <2>11, <2>12 DEF Reads
  <1>6. ASSUME NEW k, NextStart(b, i, k),
               k + 2 > Len(b) \/ (Header(b, k) /\ EndAt(b, k) > Len(b)),
               from[i] = [left |-> SubSeq(b, k, Len(b)), found |-> <<>>]
        PROVE  Reads(from[i], s, q)
    <2>1. k \in 1..Len(b) /\ k >= i /\ FramesFrom(s, q) = FramesFrom(s, p + k - 1)
      BY <1>3, <1>6
    <2>2. PICK c \in 1..Len(s) : c = p + k - 1 /\ c >= q /\ Settled(s, c)
      BY <1>3, <1>6
    <2>3. FramesFrom(s, c) = {}
      <3>1. CASE k + 2 > Len(b)
        <4>1. c + 2 > Len(s)
          BY <1>1, <2>1, <2>2, <3>1
        <4>2. QED
          BY <1>1, <4>1, FrameStartsAre DEF FramesFrom
      <3>2. CASE Header(b, k) /\ EndAt(b, k) > Len(b)
        <4>1. Header(s, c) /\ ~(EndAt(b, k) <= Len(b))
          <5>1. EndAt(b, k) \in Nat
            BY <2>1, <3>2, FollowIs
          <5>2. ~(EndAt(b, k) <= Len(b))
            BY <1>1, <3>2, <5>1
          <5>3. Header(s, c)
            BY <2>1, <2>2, <3>2, RemainsSame
          <5>4. QED
            BY <5>2, <5>3
        <4>2. ~(EndAt(s, c) <= Len(s))
          BY <2>1, <2>2, <3>2, <4>1, RemainsSame
        <4>3. Follow(s, c) = EndAt(s, c) + 1 /\ EndAt(s, c) \in Nat
          BY <2>2, <4>1, FollowIs
        <4>4. \A j \in Standing(s) : j <= c \/ j >= EndAt(s, c) + 1
          BY <2>2, <4>3, NothingBetween
        <4>5. c \notin FrameStarts(s)
          BY <4>2 DEF FrameStarts
        <4>6. \A j \in FrameStarts(s) : j \in 1..Len(s) /\ j <= c
          BY <1>1, <4>2, <4>3, <4>4, FrameStartsAre DEF FrameStarts
        <4>7. QED
          BY <2>2, <4>5, <4>6 DEF FramesFrom
      <3>3. QED
        BY <1>6, <3>1, <3>2
    <2>4. PICK x \in Seq(Byte) : x = SubSeq(b, k, Len(b)) /\ Remains(x, s, c)
      <3>1. /\ SubSeq(b, k, Len(b)) \in Seq(Byte)
            /\ Len(SubSeq(b, k, Len(b))) = Len(b) - k + 1
            /\ \A j \in 1..Len(b) - k + 1 : SubSeq(b, k, Len(b))[j] = b[k + j - 1]
        <4>1. k \in 1..Len(b) + 1 /\ Len(b) \in 0..Len(b) /\ k <= Len(b)
          BY <1>1, <2>1
        <4>2. QED
          BY <4>1, SubSeqSame
      <3>2. \A j \in 1..Len(b) - k + 1 : b[k + j - 1] = s[c + j - 1]
        <4>1. \A j \in 1..Len(b) - k + 1 : k + j - 1 \in 1..Len(b) /\ p + (k + j - 1) - 1 = c + j - 1
          BY <1>1, <2>1, <2>2
        <4>2. QED
          BY <4>1 DEF Remains
      <3>3. Len(b) - k + 1 = Len(s) + 1 - c /\ c \in 1..Len(s) + 1
        BY <1>1, <2>1, <2>2
      <3>4. QED
        BY <3>1, <3>2, <3>3, ZenonT(40) DEF Remains
    <2>5. c \in q..Len(s) + 1
      BY <1>1, <2>2
    <2>6. from[i].left = x /\ from[i].found = <<>> /\ FramesFrom(s, q) = {}
      BY <1>6, <2>1, <2>2, <2>3, <2>4
    <2>7. QED
      BY <2>2, <2>3, <2>4, <2>5, <2>6, NothingLists DEF Reads
  <1>7. QED
    BY <1>2, <1>4, <1>5, <1>6, TurnIs

LEMMA DrainReads ==
  ASSUME NEW s \in Seq(Byte), NEW b \in Seq(Byte), NEW p, Remains(b, s, p), Settled(s, p)
  PROVE  Reads(Drain(b), s, p)
  <1>1. PICK from : /\ Drain(b) = from[1]
                    /\ \A i \in 1..Len(b) + 1 : from[i] = Turn(b, from, i)
    BY DrainTurns
  <1>2. PICK Bad \in SUBSET (1..Len(b) + 1) :
           Bad = {i \in 1..Len(b) + 1 : Settled(s, p + i - 1) /\ ~Reads(from[i], s, p + i - 1)}
    OBVIOUS
  <1>3. p \in Nat /\ Len(b) \in Nat /\ p + 1 - 1 = p
    BY DEF Settled
  <1>4. ASSUME Bad # {} PROVE FALSE
    <2>1. PICK i \in Bad : \A j \in Bad : j <= i
      <3>1. Bad \in SUBSET Nat /\ Len(b) + 1 \in Nat /\ \A j \in Bad : j <= Len(b) + 1
        BY <1>3
      <3>2. QED
        BY <1>4, <3>1, HasGreatest
    <2>2. i \in 1..Len(b) + 1 /\ Settled(s, p + i - 1) /\ ~Reads(from[i], s, p + i - 1)
      BY <1>2
    <2>3. ASSUME NEW j \in 1..Len(b) + 1, j > i, Settled(s, p + j - 1)
          PROVE  Reads(from[j], s, p + j - 1)
      <3>1. j \notin Bad
        BY <1>3, <2>1, <2>2, <2>3
      <3>2. QED
        BY <1>2, <2>3, <3>1
    <2>4. QED
      BY <1>1, <2>2, <2>3, TurnReads
  <1>5. 1 \in 1..Len(b) + 1
    BY <1>3
  <1>6. QED
    BY <1>1, <1>2, <1>3, <1>4, <1>5

-----------------------------------------------------------------------------
(* FrameParser: the steps.                                                 *)

\* What has been read has been returned, and the buffer is the rest.
ParserInv ==
  /\ stream \in Seq(Byte)
  /\ \E p : Settled(stream, p) /\ Remains(buf, stream, p) /\ FramesFrom(stream, p) = {}
  /\ Enumerates(frames, FrameStarts(stream), stream)

LEMMA ParserInvInit == ParserInit => ParserInv
  <1> SUFFICES ASSUME ParserInit PROVE ParserInv
    OBVIOUS
  <1>1. stream = <<>> /\ buf = <<>> /\ frames = <<>>
    BY DEF ParserInit
  <1>2. PICK s \in Seq(Byte) : s = <<>> /\ Len(s) = 0
    <2>1. <<>> \in Seq(Byte) /\ Len(<<>>) = 0
      OBVIOUS
    <2>2. QED
      BY <2>1
  <1>3. Standing(s) = {} /\ FrameStarts(s) = {}
    <2>1. Standing(s) \subseteq 1..0
      BY <1>2, ReadingIs
    <2>2. QED
      BY <2>1 DEF FrameStarts
  <1>4. Settled(s, 1) /\ Remains(<<>>, s, 1) /\ FramesFrom(s, 1) = {}
    BY <1>2, <1>3 DEF Settled, Remains, FramesFrom
  <1>5. QED
    BY <1>1, <1>2, <1>3, <1>4, NothingLists DEF ParserInv

\* Frames that were listed stay where they are when more bytes come.
LEMMA ListsExtends ==
  ASSUME NEW s \in Seq(Byte), NEW t \in Seq(Byte), Len(s) <= Len(t),
         \A i \in 1..Len(s) : t[i] = s[i], NEW p, Settled(s, p), FramesFrom(s, p) = {},
         NEW fr, Enumerates(fr, FrameStarts(s), s)
  PROVE  /\ FrameStarts(t) = FrameStarts(s) \union FramesFrom(t, p)
         /\ \A i \in FrameStarts(s) : i < p
         /\ Enumerates(fr, FrameStarts(s), t)
  <1>1. /\ Len(s) \in Nat /\ Len(t) \in Nat /\ p \in 1..Len(s) + 1
        /\ FrameStarts(s) \subseteq 1..Len(s) /\ FrameStarts(t) \subseteq 1..Len(t)
        /\ Standing(s) \subseteq 1..Len(s) /\ Standing(t) \subseteq 1..Len(t)
    BY FrameStartsAre, ReadingIs DEF Settled
  <1>2. \A i \in FrameStarts(s) : i < p
    BY <1>1 DEF FramesFrom
  <1>3. ASSUME NEW i \in Standing(s), i < p
        PROVE  /\ i \in Standing(t) /\ Follow(s, i) <= p /\ (Header(t, i) <=> Header(s, i))
               /\ Header(s, i) => /\ EndAt(t, i) = EndAt(s, i) /\ EndAt(s, i) \in Nat
                                  /\ EndAt(s, i) <= Len(s) /\ EndAt(s, i) >= i + 3
    <2>1. i \in 1..Len(s) /\ i \in Nat
      BY <1>1
    <2>2. /\ i \in Standing(t) /\ (Header(t, i) <=> Header(s, i))
          /\ Header(s, i) => EndAt(t, i) = EndAt(s, i)
      BY <1>3, <2>1, SettledExtends
    <2>3. Follow(s, i) <= p
      BY <1>3 DEF Settled
    <2>4. QED
      BY <1>1, <2>1, <2>2, <2>3, FollowIs
  <1>4. \A i \in Nat : i < p => (i \in Standing(t) <=> i \in Standing(s))
    BY SettledExtends
  <1>5. \A i \in 1..Len(t) : i < p => (i \in FrameStarts(t) <=> i \in FrameStarts(s))
    BY <1>1, <1>3, <1>4 DEF FrameStarts
  <1>6. FrameStarts(t) = FrameStarts(s) \union FramesFrom(t, p)
    <2>1. \A i \in FrameStarts(s) : i \in 1..Len(t)
      BY <1>1
    <2>2. QED
      BY <1>1, <1>2, <1>5, <2>1 DEF FramesFrom
  <1>7. ASSUME NEW i \in FrameStarts(s) PROVE FrameAt(t, i) = FrameAt(s, i)
    <2>1. i < p /\ i \in Standing(s) /\ Header(s, i) /\ i \in 1..Len(s)
      BY <1>1, <1>2, <1>7 DEF FrameStarts
    <2>2. PICK e \in 0..Len(s) : e = EndAt(s, i) /\ e = EndAt(t, i) /\ e >= i + 3
      BY <1>1, <1>3, <2>1
    <2>3. PICK m \in 1..Len(s) + 1 : m = i + 3
      BY <1>1, <2>1, <2>2
    <2>4. SubSeq(t, m, e) = SubSeq(s, m, e)
      BY <1>1, SubSeqOfPrefix
    <2>5. QED
      BY <2>2, <2>3, <2>4 DEF FrameAt
  <1>8. Enumerates(fr, FrameStarts(s), t)
    BY <1>7 DEF Enumerates
  <1>9. QED
    BY <1>2, <1>6, <1>8

LEMMA FeedKeeps ==
  ASSUME ParserInv, NEW chunk \in Chunk, Feed(chunk)
  PROVE  ParserInv'
  <1>1. PICK s \in Seq(Byte) : s = stream
    BY DEF ParserInv
  <1>2. PICK p : Settled(s, p) /\ Remains(buf, s, p) /\ FramesFrom(s, p) = {}
    BY <1>1 DEF ParserInv
  <1>3. chunk \in Seq(Byte)
    BY DEF Chunk
  <1>4. PICK t \in Seq(Byte) :
           /\ t = s \o chunk /\ Len(t) = Len(s) + Len(chunk)
           /\ \A i \in 1..Len(s) + Len(chunk) :
                t[i] = IF i <= Len(s) THEN s[i] ELSE chunk[i - Len(s)]
    <2>1. /\ s \o chunk \in Seq(Byte) /\ Len(s \o chunk) = Len(s) + Len(chunk)
          /\ \A i \in 1..Len(s) + Len(chunk) :
               (s \o chunk)[i] = IF i <= Len(s) THEN s[i] ELSE chunk[i - Len(s)]
      BY <1>3, ConcatProperties
    <2>2. QED
      BY <2>1
  <1>5. buf \in Seq(Byte)
    BY <1>2 DEF Remains
  <1>6. PICK b \in Seq(Byte) :
           /\ b = buf \o chunk /\ Len(b) = Len(buf) + Len(chunk)
           /\ \A i \in 1..Len(buf) + Len(chunk) :
                b[i] = IF i <= Len(buf) THEN buf[i] ELSE chunk[i - Len(buf)]
    <2>1. /\ buf \o chunk \in Seq(Byte) /\ Len(buf \o chunk) = Len(buf) + Len(chunk)
          /\ \A i \in 1..Len(buf) + Len(chunk) :
               (buf \o chunk)[i] = IF i <= Len(buf) THEN buf[i] ELSE chunk[i - Len(buf)]
      BY <1>3, <1>5, ConcatProperties
    <2>2. QED
      BY <2>1
  <1>7. /\ Len(s) \in Nat /\ Len(chunk) \in Nat /\ Len(buf) \in Nat /\ p \in 1..Len(s) + 1
        /\ Len(buf) = Len(s) + 1 - p
    BY <1>2, <1>3, <1>5 DEF Remains
  <1>8. Remains(b, t, p)
    <2>1. p \in 1..Len(t) + 1 /\ Len(b) = Len(t) + 1 - p
      BY <1>4, <1>6, <1>7
    <2>2. ASSUME NEW i \in 1..Len(b) PROVE b[i] = t[p + i - 1]
      <3>1. CASE i <= Len(buf)
        <4>1. i \in 1..Len(buf) /\ p + i - 1 \in 1..Len(s) + Len(chunk) /\ p + i - 1 <= Len(s)
          BY <1>7, <3>1
        <4>2. b[i] = buf[i] /\ t[p + i - 1] = s[p + i - 1]
          BY <1>4, <1>6, <2>2, <3>1, <4>1
        <4>3. QED
          BY <1>2, <4>1, <4>2 DEF Remains
      <3>2. CASE ~(i <= Len(buf))
        <4>1. /\ p + i - 1 \in 1..Len(s) + Len(chunk) /\ ~(p + i - 1 <= Len(s))
              /\ (p + i - 1) - Len(s) = i - Len(buf)
          BY <1>6, <1>7, <2>2, <3>2, SMTT(30)
        <4>2. QED
          BY <1>4, <1>6, <2>2, <3>2, <4>1
      <3>3. QED
        BY <3>1, <3>2
    <2>3. QED
      BY <2>1, <2>2 DEF Remains
  <1>9. Len(s) <= Len(t) /\ \A i \in 1..Len(s) : t[i] = s[i]
    BY <1>4, <1>7
  <1>10. Settled(t, p)
    BY <1>2, <1>9, SettledExtends
  <1>11. Reads(Drain(b), t, p)
    BY <1>8, <1>10, DrainReads
  <1>12. Enumerates(frames, FrameStarts(s), s)
    BY <1>1 DEF ParserInv
  <1>13. /\ FrameStarts(t) = FrameStarts(s) \union FramesFrom(t, p)
         /\ \A i \in FrameStarts(s) : i < p
         /\ Enumerates(frames, FrameStarts(s), t)
    BY <1>2, <1>9, <1>12, ListsExtends
  <1>14. stream' = t /\ buf' = Drain(b).left /\ frames' = frames \o Drain(b).found
    BY <1>1, <1>4, <1>6 DEF Feed
  <1>15. Enumerates(frames \o Drain(b).found, FrameStarts(t), t)
    <2>1. PICK F \in SUBSET Nat : F = FrameStarts(s) /\ \A i \in F : i < p
      BY <1>13, FrameStartsAre
    <2>2. PICK G \in SUBSET Nat : G = FramesFrom(t, p) /\ \A j \in G : j >= p
      <3>1. FramesFrom(t, p) \in SUBSET Nat /\ \A j \in FramesFrom(t, p) : j >= p
        BY FrameStartsAre DEF FramesFrom
      <3>2. QED
        BY <3>1
    <2>3. Enumerates(Drain(b).found, G, t)
      BY <1>11, <2>2 DEF Reads
    <2>4. \A i \in F, j \in G : i < j
      BY <1>7, <2>1, <2>2
    <2>5. Enumerates(frames \o Drain(b).found, F \union G, t)
      BY <1>13, <2>1, <2>3, <2>4, BothList
    <2>6. QED
      BY <1>13, <2>1, <2>2, <2>5
  <1>16. \E e : Settled(t, e) /\ Remains(Drain(b).left, t, e) /\ FramesFrom(t, e) = {}
    BY <1>11 DEF Reads
  <1>17. QED
    BY <1>14, <1>15, <1>16 DEF ParserInv

LEMMA ParserInvAlways == ParserSpec => []ParserInv
  <1>1. ParserInv /\ [ParserNext]_parserVars => ParserInv'
    <2> SUFFICES ASSUME ParserInv, [ParserNext]_parserVars PROVE ParserInv'
      OBVIOUS
    <2>1. ASSUME NEW chunk \in Chunk, Feed(chunk) PROVE ParserInv'
      BY <2>1, FeedKeeps
    <2>2. CASE UNCHANGED parserVars
      BY <2>2 DEF parserVars, ParserInv
    <2>3. QED
      BY <2>1, <2>2 DEF ParserNext
  <1>2. QED
    BY <1>1, ParserInvInit, PTL DEF ParserSpec

\* Whatever the sizes of a byte, a frame and a piece, and wherever the stream is cut:
\* the parser has returned the frames of the whole stream, each once and in order.
THEOREM ParsesAsWhole == ParserSpec => []ParsedAsWhole
  <1>1. ParserInv => ParsedAsWhole
    <2> SUFFICES ASSUME ParserInv PROVE ParsedAsWhole
      OBVIOUS
    <2>1. Enumerates(frames, FrameStarts(stream), stream)
      BY DEF ParserInv
    <2>2. DOMAIN frames = 1..Len(frames)
      BY <2>1 DEF Enumerates
    <2>3. PICK at \in [1..Len(frames) -> FrameStarts(stream)] :
             /\ \A i \in FrameStarts(stream) : \E n \in 1..Len(frames) : at[n] = i
             /\ \A n \in 1..Len(frames) : frames[n] = FrameAt(stream, at[n])
             /\ \A m, n \in 1..Len(frames) : m < n => at[m] < at[n]
      BY <2>1 DEF Enumerates
    <2>4. DOMAIN at = 1..Len(frames)
      OBVIOUS
    <2>5. QED
      BY <2>2, <2>3, <2>4 DEF ParsedAsWhole
  <1>2. QED
    BY <1>1, ParserInvAlways, PTL
=============================================================================
