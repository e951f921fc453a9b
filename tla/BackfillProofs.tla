--------------------------- MODULE BackfillProofs ---------------------------
(***************************************************************************)
(* Proofs about Backfill, for any channels, slots, texts, page size and    *)
(* bounds: what is called decrypted has the channel it was sent over,      *)
(* labels only improve, and a scan overlooks no packet.                    *)
(***************************************************************************)
EXTENDS Backfill, FiniteSetTheorems, SequenceTheorems, WellFoundedInduction, TLAPS

Holders == Channels \cup {Nothing}
Sent == [chan : Channels, text : Texts, slot : Slots \cup {Nothing}]
Places == {"idle", "wait", "channels", "scan", "write"}
Sources == {"null", "slot", "inferred", "decrypted"}

MessagesTypeOK ==
    /\ sends \in Seq(Sent)
    /\ msg \in [Sends -> {"none", "looked", "stored", "pruned"}]
    /\ looked \in [Sends -> Holders] /\ label \in [Sends -> Holders]
    /\ source \in [Sends -> Sources]
    /\ packets \in Seq(Sends) /\ pruned \in Nat

TablesTypeOK ==
    /\ node \in [Slots -> Holders] /\ slots \in [Slots -> Holders]
    /\ rows \subseteq Channels
    /\ job \in [slot : Slots, chan : Holders] \cup {None}

RunsTypeOK ==
    /\ at \in [Runners -> Places]
    /\ targets \in [Runners -> SUBSET Sends] /\ index \in [Runners -> SUBSET Sends]
    /\ bySlot \in [Runners -> [Slots -> Holders]] /\ known \in [Runners -> SUBSET Channels]
    /\ last \in [Runners -> Nat] /\ seen \in [Runners -> Nat]

\* Only what was sent to a slot of the node gets a row, and a label when it has one.
RowsOK ==
    /\ \A n \in Sends : msg[n] # "none" => sends[n].slot \in Slots
    /\ \A n \in Sends : msg[n] # "stored" => source[n] = "null"

\* One backfill at a time, and its candidates still need it.
OneRun ==
    /\ \A r \in Runners : at[r] \notin {"idle", "wait"} => LockFor(r)
    /\ \A r \in Runners : at[r] \in {"idle", "wait"} => targets[r] = {}
    /\ \A r \in Runners : \A n \in targets[r] :
          msg[n] \in {"stored", "pruned"} /\ source[n] \in {"null", "inferred"}

\* The packets up to an id that are still there are in the index, if they decrypt.
Indexed(r, id) ==
    \A i \in DOMAIN packets :
        pruned < i /\ i <= id /\ sends[packets[i]].chan \in known[r] => packets[i] \in index[r]

Scanned(r) ==
    /\ last[r] <= Len(packets) /\ seen[r] <= Len(packets)
    /\ at[r] \in {"idle", "wait", "channels"} => last[r] = 0
    /\ at[r] = "scan" => Indexed(r, last[r])
    /\ at[r] = "write" => Indexed(r, seen[r])

BackfillInv ==
    /\ MessagesTypeOK /\ TablesTypeOK /\ RunsTypeOK
    /\ RowsOK /\ OneRun /\ (\A r \in Runners : Scanned(r)) /\ DecryptedIsRight

-----------------------------------------------------------------------------
(* Numbers, sequences and pages.                                            *)

\* A set of numbers below a bound has a greatest one.
LEMMA HasGreatest ==
  ASSUME NEW S \in SUBSET Nat, S # {}, NEW n \in Nat, \A x \in S : x <= n
  PROVE  \E x \in S : \A y \in S : y <= x
  <1> DEFINE Above(x) == {y \in S : y > x}
             T == {Above(x) : x \in S}
  <1>1. IsFiniteSet(S)
    BY FS_BoundedSetOfNaturals
  <1>2. T \subseteq FiniteSubsetsOf(S) /\ T # {}
    <2>1. \A x \in S : Above(x) \in SUBSET S
      OBVIOUS
    <2> HIDE DEF Above
    <2>2. \A x \in S : IsFiniteSet(Above(x))
      BY <1>1, <2>1, FS_Subset
    <2>3. QED
      BY <2>1, <2>2 DEF FiniteSubsetsOf
  <1>3. PICK t \in T : \A u \in T : ~(<<u, t>> \in StrictSubsetOrdering(S))
    <2> HIDE DEF T
    <2>1. QED
      BY <1>2, WFMin, FS_StrictSubsetOrderingWellFounded
  <1>4. PICK x \in S : t = Above(x)
    OBVIOUS
  <1>5. ASSUME NEW y \in S, y > x PROVE FALSE
    <2>1. /\ y \in t /\ y \notin Above(y)
      BY <1>4, <1>5
    <2>2. Above(y) \subseteq t
      <3>1. \A z \in S : z > y => z > x
        BY <1>5
      <3>2. QED
        BY <1>4, <3>1
    <2>3. t \subseteq S /\ Above(y) \subseteq S
      BY <1>4
    <2> HIDE DEF Above
    <2>4. <<Above(y), t>> \in StrictSubsetOrdering(S)
      BY <2>1, <2>2, <2>3 DEF StrictSubsetOrdering
    <2>5. QED
      BY <1>3, <2>4
  <1>6. QED
    BY <1>5

LEMMA HasLeast ==
    ASSUME NEW S \in SUBSET Nat, S # {}, NEW n \in Nat, \A x \in S : x <= n
    PROVE  \E x \in S : \A y \in S : x <= y
  <1> DEFINE T == {n - x : x \in S}
  <1>1. T \in SUBSET Nat /\ T # {} /\ \A t \in T : t <= n
    <2>1. \A x \in S : n - x \in Nat /\ n - x <= n
      OBVIOUS
    <2>2. QED
      BY <2>1
  <1>2. PICK t \in T : \A u \in T : u <= t
    <2> HIDE DEF T
    <2>1. QED
      BY <1>1, HasGreatest
  <1>3. PICK x \in S : t = n - x
    OBVIOUS
  <1>4. ASSUME NEW y \in S PROVE x <= y
    <2>1. n - y <= n - x
      BY <1>2, <1>3
    <2>2. QED
      BY <2>1
  <1>5. QED
    BY <1>4

LEMMA SendsAre ==
    ASSUME MessagesTypeOK
    PROVE  \E n \in Nat : n = Len(sends) /\ Sends = 1..n
  BY LenProperties DEF MessagesTypeOK, Sends

LEMMA PacketIds ==
    ASSUME MessagesTypeOK
    PROVE  /\ Len(packets) \in Nat /\ DOMAIN packets = 1..Len(packets)
           /\ \A i \in DOMAIN packets : packets[i] \in Sends /\ i \in Nat /\ i <= Len(packets)
           /\ \A r \in Runners : Ids(r) \subseteq 1..Len(packets) /\ Page(r) \subseteq Ids(r)
           /\ \A r \in Runners : IsFiniteSet(Ids(r)) /\ IsFiniteSet(Page(r))
  <1>1. Len(packets) \in Nat /\ DOMAIN packets = 1..Len(packets)
    BY LenProperties DEF MessagesTypeOK
  <1>2. \A i \in DOMAIN packets : packets[i] \in Sends /\ i \in Nat /\ i <= Len(packets)
    BY <1>1 DEF MessagesTypeOK
  <1>3. \A r \in Runners : Ids(r) \subseteq 1..Len(packets) /\ Page(r) \subseteq Ids(r)
    BY <1>1 DEF Ids, Page
  <1>4. IsFiniteSet(1..Len(packets))
    BY <1>1, FS_Interval
  <1>5. \A r \in Runners : IsFiniteSet(Ids(r)) /\ IsFiniteSet(Page(r))
    BY <1>3, <1>4, FS_Subset
  <1>6. QED
    BY <1>1, <1>2, <1>3, <1>5

\* A page that is not full has all that is left; another ends at its highest id.
LEMMA LastPageIsAll ==
    ASSUME MessagesTypeOK, NEW r \in Runners, LastPage(Page(r))
    PROVE  Ids(r) \subseteq Page(r)
  <1> DEFINE Rest == Ids(r) \ Page(r)
  <1> SUFFICES ASSUME Rest # {} PROVE FALSE
    OBVIOUS
  <1>1. /\ Ids(r) \in SUBSET Nat /\ Len(packets) \in Nat /\ \A i \in Ids(r) : i <= Len(packets)
        /\ IsFiniteSet(Ids(r)) /\ IsFiniteSet(Page(r)) /\ Page(r) \subseteq Ids(r)
    BY PacketIds
  <1>2. PICK i \in Rest : \A j \in Rest : i <= j
    <2>1. Rest \in SUBSET Nat /\ \A j \in Rest : j <= Len(packets)
      BY <1>1
    <2> HIDE DEF Rest
    <2>2. QED
      BY <1>1, <2>1, HasLeast
  <1> DEFINE Upto == {j \in Ids(r) : j <= i}
  <1>3. Upto \subseteq Page(r) \cup {i}
    BY <1>1, <1>2
  <1>4. /\ IsFiniteSet(Page(r) \cup {i}) /\ Cardinality(Page(r) \cup {i}) = Cardinality(Page(r)) + 1
        /\ Cardinality(Page(r)) \in Nat
    BY <1>1, <1>2, FS_AddElement, FS_CardinalityType
  <1>5. Cardinality(Upto) <= Cardinality(Page(r)) + 1 /\ Cardinality(Upto) \in Nat
    <2> HIDE DEF Upto
    <2>1. IsFiniteSet(Upto) /\ Cardinality(Upto) <= Cardinality(Page(r) \cup {i})
      BY <1>3, <1>4, FS_Subset
    <2>2. QED
      BY <1>4, <2>1, FS_CardinalityType
  <1>6. Cardinality(Upto) <= Batch
    BY <1>4, <1>5, BackfillAssumption DEF LastPage
  <1>7. QED
    BY <1>2, <1>6 DEF Page

LEMMA FullPageIs ==
    ASSUME MessagesTypeOK, NEW r \in Runners, ~LastPage(Page(r))
    PROVE  /\ Max(Page(r)) \in Ids(r)
           /\ \A i \in Ids(r) : i <= Max(Page(r)) => i \in Page(r)
  <1>1. /\ Ids(r) \in SUBSET Nat /\ Len(packets) \in Nat /\ \A i \in Ids(r) : i <= Len(packets)
        /\ IsFiniteSet(Ids(r)) /\ Page(r) \subseteq Ids(r)
    BY PacketIds
  <1>2. Page(r) # {}
    BY FS_EmptySet, BackfillAssumption DEF LastPage
  <1>3. \E x \in Page(r) : \A y \in Page(r) : y <= x
    BY <1>1, <1>2, HasGreatest
  <1>4. PICK m \in Page(r) : m = Max(Page(r))
    <2>1. \E x \in Page(r) : \A y \in Page(r) : x >= y
      BY <1>1, <1>3
    <2>2. QED
      BY <2>1 DEF Max
  <1>5. ASSUME NEW i \in Ids(r), i <= m PROVE i \in Page(r)
    <2>1. {j \in Ids(r) : j <= i} \subseteq {j \in Ids(r) : j <= m}
      BY <1>1, <1>5
    <2>2. IsFiniteSet({j \in Ids(r) : j <= m})
      BY <1>1, FS_Subset
    <2>3. /\ Cardinality({j \in Ids(r) : j <= i}) <= Cardinality({j \in Ids(r) : j <= m})
          /\ IsFiniteSet({j \in Ids(r) : j <= i})
      BY <2>1, <2>2, FS_Subset
    <2>4. Cardinality({j \in Ids(r) : j <= m}) <= Batch
      BY <1>4 DEF Page
    <2>5. /\ Cardinality({j \in Ids(r) : j <= i}) \in Nat
          /\ Cardinality({j \in Ids(r) : j <= m}) \in Nat
      BY <2>2, <2>3, FS_CardinalityType
    <2>6. Cardinality({j \in Ids(r) : j <= i}) <= Batch
      BY <2>3, <2>4, <2>5, BackfillAssumption
    <2>7. QED
      BY <1>5, <2>6 DEF Page
  <1>6. QED
    BY <1>1, <1>4, <1>5

-----------------------------------------------------------------------------
(* Verdicts.                                                                *)

LEMMA MatchedIs ==
    ASSUME MessagesTypeOK, RunsTypeOK, NEW r \in Runners, NEW n \in Sends
    PROVE  /\ Matched(r, n) \subseteq Channels
           /\ IsFiniteSet(Matched(r, n))
           /\ \A c \in Matched(r, n) : \E q \in index[r] :
                 q \in Sends /\ c = sends[q].chan /\ sends[q].text = sends[n].text
  <1> DEFINE Q == {q \in index[r] : sends[q].text = sends[n].text}
             f == [q \in Q |-> sends[q].chan]
             M == {sends[p].chan : p \in Q}
  <1>1. Q \subseteq Sends /\ \A q \in Q : sends[q] \in Sent
    BY DEF RunsTypeOK, MessagesTypeOK, Sends
  <1>2. Matched(r, n) = M
    BY DEF Matched
  <1>3. IsFiniteSet(Q)
    <2>1. IsFiniteSet(Sends)
      BY SendsAre, FS_Interval
    <2> HIDE DEF Q
    <2>2. QED
      BY <1>1, <2>1, FS_Subset
  <1>4. f \in Surjection(Q, M)
    <2>1. f \in [Q -> M] /\ \A c \in M : \E q \in Q : f[q] = c
      OBVIOUS
    <2> HIDE DEF f, M, Q
    <2>2. QED
      BY <2>1 DEF Surjection
  <1>5. IsFiniteSet(M)
    <2> HIDE DEF f, M, Q
    <2>1. QED
      BY <1>3, <1>4, FS_Surjection
  <1>6. M \subseteq Channels
    BY <1>1 DEF Sent
  <1>7. \A c \in M : \E q \in index[r] :
           q \in Sends /\ c = sends[q].chan /\ sends[q].text = sends[n].text
    BY <1>1
  <1>8. QED
    BY <1>2, <1>5, <1>6, <1>7

\* What a verdict may say of a message that has a slot.
LEMMA VerdictIs ==
    ASSUME MessagesTypeOK, RunsTypeOK, NEW r \in Runners, NEW n \in Sends,
           sends[n].slot \in Slots
    PROVE  \/ Verdict(r, n)[2] = "decrypted" /\ Verdict(r, n)[1] \in Matched(r, n)
           \/ /\ Verdict(r, n)[2] = "inferred" /\ Verdict(r, n)[1] \in Channels
              /\ Matched(r, n) = {}
           \/ /\ Verdict(r, n) = <<label[n], source[n]>>
              /\ \A c : Matched(r, n) # {c}
  <1>1. PICK m \in SUBSET Channels : m = Matched(r, n) /\ IsFiniteSet(m)
    BY MatchedIs
  <1>2. PICK here \in Holders : here = bySlot[r][sends[n].slot]
    BY DEF RunsTypeOK
  <1>3. Verdict(r, n) =
           IF here \in m THEN <<here, "decrypted">>
           ELSE IF Cardinality(m) = 1 THEN <<CHOOSE c \in m : TRUE, "decrypted">>
           ELSE IF here # Nothing /\ m = {} THEN <<here, "inferred">>
           ELSE <<label[n], source[n]>>
    BY <1>1, <1>2 DEF Verdict
  <1>4. Cardinality(m) = 1 <=> \E c : m = {c}
    BY <1>1, FS_Singleton
  <1>5. CASE here \in m
    BY <1>1, <1>3, <1>5
  <1>6. CASE here \notin m /\ Cardinality(m) = 1
    <2>1. (CHOOSE c \in m : TRUE) \in m
      BY <1>4, <1>6
    <2>2. QED
      BY <1>1, <1>3, <1>6, <2>1
  <1>7. CASE here \notin m /\ Cardinality(m) # 1 /\ here # Nothing /\ m = {}
    BY <1>1, <1>2, <1>3, <1>7 DEF Holders
  <1>8. CASE here \notin m /\ Cardinality(m) # 1 /\ ~(here # Nothing /\ m = {})
    BY <1>1, <1>3, <1>4, <1>8
  <1>9. QED
    BY <1>5, <1>6, <1>7, <1>8

\* The updates of set_channels: only candidates change, what is decrypted is right.
LEMMA UpdateIs ==
    ASSUME BackfillInv, NEW r \in Runners, NEW these \in SUBSET targets[r], Update(r, these)
    PROVE  /\ label' \in [Sends -> Holders] /\ source' \in [Sends -> Sources]
           /\ \A n \in Sends :
                 \/ label'[n] = label[n] /\ source'[n] = source[n]
                 \/ n \in targets[r] /\ Stored(n) /\ source'[n] \in {"inferred", "decrypted"}
           /\ \A n \in Sends : source'[n] = "decrypted" /\ Unmistakable(n)
                                 => label'[n] = sends[n].chan
  <1>1. MessagesTypeOK /\ RunsTypeOK /\ RowsOK /\ OneRun /\ DecryptedIsRight
    BY DEF BackfillInv
  <1>2. /\ label' = [n \in Sends |-> IF n \in these /\ Stored(n) THEN Verdict(r, n)[1] ELSE label[n]]
        /\ source' = [n \in Sends |-> IF n \in these /\ Stored(n) THEN Verdict(r, n)[2] ELSE source[n]]
    BY DEF Update
  <1>3. ASSUME NEW n \in Sends
        PROVE  /\ label'[n] \in Holders /\ source'[n] \in Sources
               /\ \/ label'[n] = label[n] /\ source'[n] = source[n]
                  \/ n \in targets[r] /\ Stored(n) /\ source'[n] \in {"inferred", "decrypted"}
               /\ source'[n] = "decrypted" /\ Unmistakable(n) => label'[n] = sends[n].chan
    <2>1. /\ label[n] \in Holders /\ source[n] \in Sources
          /\ source[n] = "decrypted" /\ Unmistakable(n) => label[n] = sends[n].chan
      BY <1>1 DEF MessagesTypeOK, DecryptedIsRight
    <2>2. CASE ~(n \in these /\ Stored(n))
      BY <1>2, <2>1, <2>2
    <2>3. CASE n \in these /\ Stored(n)
      <3>1. /\ label'[n] = Verdict(r, n)[1] /\ source'[n] = Verdict(r, n)[2]
            /\ n \in targets[r] /\ sends[n].slot \in Slots
        BY <1>1, <1>2, <2>3 DEF RowsOK, Stored
      <3>2. CASE Verdict(r, n)[2] = "decrypted" /\ Verdict(r, n)[1] \in Matched(r, n)
        <4>1. PICK q \in Sends :
                 Verdict(r, n)[1] = sends[q].chan /\ sends[q].text = sends[n].text
          BY <1>1, <3>2, MatchedIs
        <4>2. Verdict(r, n)[1] \in Holders
          BY <1>1, <3>2, MatchedIs DEF Holders
        <4>3. QED
          BY <2>3, <3>1, <3>2, <4>1, <4>2 DEF Sources, Unmistakable
      <3>3. CASE Verdict(r, n)[2] = "inferred" /\ Verdict(r, n)[1] \in Channels
        BY <2>3, <3>1, <3>3 DEF Sources, Holders
      <3>4. CASE Verdict(r, n) = <<label[n], source[n]>>
        BY <2>1, <3>1, <3>4
      <3>5. QED
        BY <1>1, <3>1, <3>2, <3>3, <3>4, VerdictIs
    <2>4. QED
      BY <2>2, <2>3
  <1>4. label' \in [Sends -> Holders] /\ source' \in [Sends -> Sources]
    BY <1>2, <1>3
  <1>5. QED
    BY <1>3, <1>4

-----------------------------------------------------------------------------
(* The steps.                                                               *)

\* What changes no message, no packet and no snapshot; a backfill may be asked for.
LEMMA TablesKeep ==
    ASSUME BackfillInv, TablesTypeOK',
           UNCHANGED <<sends, msgVars, pktVars, targets, bySlot, known, last, index, seen>>,
           at' \in [Runners -> Places],
           \A r \in Runners : at'[r] = at[r] \/ (at[r] = "idle" /\ at'[r] = "wait")
    PROVE  BackfillInv'
  <1>1. MessagesTypeOK' /\ RunsTypeOK'
    BY DEF BackfillInv, MessagesTypeOK, RunsTypeOK, Sends, msgVars, pktVars
  <1>2. RowsOK' /\ DecryptedIsRight'
    BY DEF BackfillInv, RowsOK, DecryptedIsRight, Unmistakable, Sends, msgVars, pktVars
  <1>3. OneRun'
    BY DEF BackfillInv, OneRun, LockFor, msgVars
  <1>4. \A r \in Runners : Scanned(r)'
    <2> TAKE r \in Runners
    <2>1. Scanned(r)
      BY DEF BackfillInv
    <2>2. Indexed(r, last[r])' <=> Indexed(r, last[r])
      BY DEF Indexed, pktVars
    <2>3. Indexed(r, seen[r])' <=> Indexed(r, seen[r])
      BY DEF Indexed, pktVars
    <2>4. QED
      BY <2>1, <2>2, <2>3 DEF Scanned, pktVars
  <1>5. QED
    BY <1>1, <1>2, <1>3, <1>4 DEF BackfillInv

LEMMA TrackerKeeps ==
    ASSUME BackfillInv,
           \/ \E s \in Slots : \/ \E x \in Holders : NodeMoves(s, x)
                               \/ TrackerReads(s) \/ TrackerMisreads(s)
           \/ TrackerUpserts \/ TrackerVacates \/ TrackerOccupies \/ TrackerStops
    PROVE  BackfillInv'
  <1>1. TablesTypeOK
    BY DEF BackfillInv
  <1>2. UNCHANGED <<sends, msgVars, pktVars, runVars>>
    BY DEF NodeMoves, TrackerReads, TrackerMisreads, TrackerUpserts, TrackerVacates,
           TrackerOccupies, TrackerStops
  <1>3. job # None => job.slot \in Slots /\ job.chan \in Holders
    BY <1>1 DEF TablesTypeOK
  <1>4. TablesTypeOK'
    <2>1. ASSUME NEW s \in Slots, NEW x \in Holders, NodeMoves(s, x) PROVE TablesTypeOK'
      BY <1>1, <2>1 DEF TablesTypeOK, NodeMoves, tabVars
    <2>2. ASSUME NEW s \in Slots, TrackerReads(s) \/ TrackerMisreads(s) PROVE TablesTypeOK'
      <3>1. /\ UNCHANGED <<node, slots, rows>>
            /\ \E c \in {node[s], Nothing} : job' = [slot |-> s, chan |-> c]
        BY <2>2 DEF TrackerReads, TrackerMisreads, nodeVars
      <3>2. QED
        BY <1>1, <3>1 DEF TablesTypeOK, Holders
    <2>3. CASE TrackerUpserts
      <3>1. job.chan \in Channels /\ rows' = rows \cup {job.chan} /\ UNCHANGED <<node, slots, job>>
        BY <1>3, <2>3 DEF TrackerUpserts, nodeVars, Holders
      <3>2. QED
        BY <1>1, <3>1 DEF TablesTypeOK
    <2>4. CASE TrackerVacates
      <3>1. /\ slots' = [slots EXCEPT ![job.slot] = Nothing] /\ job' \in {job, None}
            /\ UNCHANGED <<node, rows>>
        BY <2>4 DEF TrackerVacates, nodeVars
      <3>2. QED
        BY <1>1, <3>1 DEF TablesTypeOK, Holders
    <2>5. CASE TrackerOccupies
      <3>1. /\ job.chan \in Channels /\ job' = None /\ UNCHANGED <<node, rows>>
            /\ slots' = [t \in Slots |-> IF t = job.slot THEN job.chan
                                         ELSE IF slots[t] = job.chan THEN Nothing
                                         ELSE slots[t]]
        BY <1>1, <2>5 DEF TablesTypeOK, TrackerOccupies, nodeVars
      <3>2. slots' \in [Slots -> Holders]
        BY <1>1, <3>1 DEF TablesTypeOK, Holders
      <3>3. QED
        BY <1>1, <3>1, <3>2 DEF TablesTypeOK
    <2>6. CASE TrackerStops
      BY <1>1, <2>6 DEF TablesTypeOK, TrackerStops, nodeVars
    <2>7. QED
      BY <2>1, <2>2, <2>3, <2>4, <2>5, <2>6
  <1>5. QED
    BY <1>2, <1>4, TablesKeep DEF runVars, BackfillInv, RunsTypeOK

LEMMA StartsKeeps ==
    ASSUME BackfillInv, NEW r \in Runners, NEW extra \in SUBSET Channels, Starts(r, extra)
    PROVE  BackfillInv'
  <1>1. /\ at[r] = "idle" /\ at' = [at EXCEPT ![r] = "wait"] /\ rows' = rows \cup extra
        /\ UNCHANGED <<nodeVars, slots, job, sends, msgVars, pktVars, targets, bySlot, known,
                       last, index, seen>>
    BY DEF Starts
  <1>2. TablesTypeOK'
    BY <1>1 DEF BackfillInv, TablesTypeOK, nodeVars
  <1>3. /\ at' \in [Runners -> Places]
        /\ \A q \in Runners : at'[q] = at[q] \/ (at[q] = "idle" /\ at'[q] = "wait")
    BY <1>1 DEF BackfillInv, RunsTypeOK, Places
  <1>4. QED
    BY <1>1, <1>2, <1>3, TablesKeep

\* A new send has neither a row nor a packet.
LEMMA SendKeeps ==
    ASSUME BackfillInv, NEW c \in Channels, NEW x \in Texts, NEW s \in Slots \cup {Nothing},
           Send(c, x, s)
    PROVE  BackfillInv'
  <1> DEFINE e == [chan |-> c, text |-> x, slot |-> s]
  <1>1. MessagesTypeOK /\ RunsTypeOK /\ RowsOK /\ OneRun /\ DecryptedIsRight
    BY DEF BackfillInv
  <1>2. /\ sends' = Append(sends, e) /\ msg' = Append(msg, "none")
        /\ looked' = Append(looked, Nothing) /\ label' = Append(label, Nothing)
        /\ source' = Append(source, "null")
        /\ UNCHANGED <<tabVars, nodeVars, pktVars, runVars>>
    BY DEF Send
  <1>3. e \in Sent
    BY DEF Sent
  <1> HIDE DEF e
  <1>4. PICK n \in Nat : n = Len(sends) /\ Sends = 1..n
    BY <1>1, SendsAre
  <1>5. /\ sends' \in Seq(Sent) /\ Sends' = 1..(n + 1)
        /\ \A i \in 1..n : sends'[i] = sends[i]
    BY <1>1, <1>2, <1>3, <1>4, AppendProperties, LenProperties DEF MessagesTypeOK, Sends
  <1>6. /\ msg' \in [1..(n + 1) -> {"none", "looked", "stored", "pruned"}]
        /\ msg'[n + 1] = "none" /\ \A i \in 1..n : msg'[i] = msg[i]
    <2>1. /\ msg \in [1..n -> {"none", "looked", "stored", "pruned"}]
          /\ "none" \in {"none", "looked", "stored", "pruned"}
      BY <1>1, <1>4 DEF MessagesTypeOK
    <2>2. msg \in Seq({"none", "looked", "stored", "pruned"}) /\ Len(msg) = n
      BY <2>1
    <2>3. /\ msg' \in Seq({"none", "looked", "stored", "pruned"}) /\ Len(msg') = n + 1
          /\ msg'[n + 1] = "none" /\ \A i \in 1..n : msg'[i] = msg[i]
      BY <1>2, <2>1, <2>2, AppendProperties
    <2>4. QED
      BY <2>3, LenProperties
  <1>7. looked' \in [1..(n + 1) -> Holders]
    <2>1. looked \in [1..n -> Holders] /\ Nothing \in Holders
      BY <1>1, <1>4 DEF MessagesTypeOK, Holders
    <2>2. looked \in Seq(Holders) /\ Len(looked) = n
      BY <2>1
    <2>3. looked' \in Seq(Holders) /\ Len(looked') = n + 1
      BY <1>2, <2>1, <2>2, AppendProperties
    <2>4. QED
      BY <2>3, LenProperties
  <1>8. label' \in [1..(n + 1) -> Holders] /\ \A i \in 1..n : label'[i] = label[i]
    <2>1. label \in [1..n -> Holders] /\ Nothing \in Holders
      BY <1>1, <1>4 DEF MessagesTypeOK, Holders
    <2>2. label \in Seq(Holders) /\ Len(label) = n
      BY <2>1
    <2>3. /\ label' \in Seq(Holders) /\ Len(label') = n + 1
          /\ label'[n + 1] = Nothing /\ \A i \in 1..n : label'[i] = label[i]
      BY <1>2, <2>1, <2>2, AppendProperties
    <2>4. QED
      BY <2>3, LenProperties
  <1>9. /\ source' \in [1..(n + 1) -> Sources]
        /\ source'[n + 1] = "null" /\ \A i \in 1..n : source'[i] = source[i]
    <2>1. source \in [1..n -> Sources] /\ "null" \in Sources
      BY <1>1, <1>4 DEF MessagesTypeOK, Sources
    <2>2. source \in Seq(Sources) /\ Len(source) = n
      BY <2>1
    <2>3. /\ source' \in Seq(Sources) /\ Len(source') = n + 1
          /\ source'[n + 1] = "null" /\ \A i \in 1..n : source'[i] = source[i]
      BY <1>2, <2>1, <2>2, AppendProperties
    <2>4. QED
      BY <2>3, LenProperties
  <1>10. \A i \in 1..(n + 1) : i \in 1..n \/ i = n + 1
    BY <1>4
  <1>11. \A i \in 1..n : i \in 1..(n + 1)
    BY <1>4
  <1>12. MessagesTypeOK'
    <2>1. Sends \subseteq Sends'
      BY <1>4, <1>5, <1>11
    <2>2. packets' \in Seq(Sends')
      <3>1. PICK m \in Nat : m = Len(packets) /\ packets \in [1..m -> Sends]
        BY <1>1, LenProperties DEF MessagesTypeOK
      <3>2. packets \in [1..m -> Sends']
        BY <2>1, <3>1
      <3>3. packets' = packets
        BY <1>2 DEF pktVars
      <3>4. QED
        BY <3>2, <3>3
    <2>3. QED
      BY <1>1, <1>2, <1>5, <1>6, <1>7, <1>8, <1>9, <2>2 DEF MessagesTypeOK, pktVars
  <1>13. RunsTypeOK'
    <2>1. SUBSET Sends \subseteq SUBSET Sends'
      BY <1>4, <1>5, <1>11
    <2>2. QED
      BY <1>1, <1>2, <2>1 DEF RunsTypeOK, runVars
  <1>14. RowsOK'
    BY <1>1, <1>4, <1>5, <1>6, <1>9, <1>10 DEF RowsOK
  <1>15. OneRun'
    <2>1. \A r \in Runners : \A i \in targets[r] : i \in 1..n
      BY <1>1, <1>4 DEF RunsTypeOK
    <2>2. QED
      BY <1>1, <1>2, <1>6, <1>9, <2>1 DEF OneRun, LockFor, runVars
  <1>16. \A r \in Runners : Scanned(r)'
    <2> TAKE r \in Runners
    <2>1. Scanned(r)
      BY DEF BackfillInv
    <2>2. \A i \in DOMAIN packets : sends'[packets[i]] = sends[packets[i]]
      BY <1>1, <1>4, <1>5, PacketIds
    <2>3. /\ Indexed(r, last[r])' <=> Indexed(r, last[r])
          /\ Indexed(r, seen[r])' <=> Indexed(r, seen[r])
      BY <1>2, <2>2 DEF Indexed, pktVars, runVars
    <2>4. QED
      BY <1>2, <2>1, <2>3 DEF Scanned, pktVars, runVars
  <1>17. DecryptedIsRight'
    <2> SUFFICES ASSUME NEW k \in Sends', source'[k] = "decrypted", Unmistakable(k)'
                 PROVE  label'[k] = sends'[k].chan
      BY DEF DecryptedIsRight
    <2>1. k \in 1..n
      BY <1>5, <1>9, <1>10
    <2>2. Unmistakable(k)
      BY <1>4, <1>5, <1>11, <2>1 DEF Unmistakable
    <2>3. QED
      BY <1>1, <1>4, <1>5, <1>8, <1>9, <2>1, <2>2 DEF DecryptedIsRight
  <1>18. QED
    BY <1>2, <1>12, <1>13, <1>14, <1>15, <1>16, <1>17
       DEF BackfillInv, TablesTypeOK, tabVars, nodeVars

\* A packet is recorded, beyond all that a scan has behind it, or old ones are pruned.
LEMMA PacketsKeep ==
    ASSUME BackfillInv, PrunesPackets \/ \E n \in Sends : RecordsPacket(n)
    PROVE  BackfillInv'
  <1>1. MessagesTypeOK /\ RunsTypeOK
    BY DEF BackfillInv
  <1>2. PICK m \in Nat : m = Len(packets) /\ DOMAIN packets = 1..m
    BY <1>1, PacketIds
  <1>3. /\ UNCHANGED <<nodeVars, tabVars, sends, msgVars, runVars>>
        /\ pruned' \in Nat /\ pruned <= pruned'
        /\ packets' \in Seq(Sends) /\ Len(packets') \in Nat /\ m <= Len(packets')
        /\ DOMAIN packets' = 1..Len(packets')
        /\ \A i \in 1..m : packets'[i] = packets[i]
    <2>1. CASE PrunesPackets
      <3>1. UNCHANGED <<nodeVars, tabVars, sends, msgVars, packets, runVars>>
        BY <2>1 DEF PrunesPackets
      <3>2. pruned' \in (pruned + 1)..m /\ pruned \in Nat
        BY <1>1, <1>2, <2>1 DEF PrunesPackets, MessagesTypeOK
      <3>3. QED
        BY <1>1, <1>2, <3>1, <3>2 DEF MessagesTypeOK
    <2>2. ASSUME NEW n \in Sends, RecordsPacket(n)
          PROVE  /\ UNCHANGED <<nodeVars, tabVars, sends, msgVars, runVars>>
                 /\ pruned' \in Nat /\ pruned <= pruned'
                 /\ packets' \in Seq(Sends) /\ Len(packets') \in Nat /\ m <= Len(packets')
                 /\ DOMAIN packets' = 1..Len(packets')
                 /\ \A i \in 1..m : packets'[i] = packets[i]
      <3>1. /\ packets' = Append(packets, n)
            /\ UNCHANGED <<nodeVars, tabVars, sends, msgVars, pruned, runVars>>
        BY <2>2 DEF RecordsPacket
      <3>2. packets \in Seq(Sends) /\ pruned \in Nat
        BY <1>1 DEF MessagesTypeOK
      <3>3. /\ packets' \in Seq(Sends) /\ Len(packets') = m + 1
            /\ \A i \in 1..m : packets'[i] = packets[i]
        BY <1>2, <3>1, <3>2, AppendProperties
      <3>4. QED
        BY <1>2, <3>1, <3>2, <3>3, LenProperties
    <2>3. QED
      BY <2>1, <2>2
  <1>4. Sends' = Sends
    BY <1>3 DEF Sends
  <1>5. MessagesTypeOK' /\ RunsTypeOK' /\ TablesTypeOK'
    BY <1>3, <1>4
       DEF BackfillInv, MessagesTypeOK, RunsTypeOK, TablesTypeOK, msgVars, runVars, nodeVars, tabVars
  <1>6. RowsOK' /\ DecryptedIsRight'
    BY <1>3, <1>4 DEF BackfillInv, RowsOK, DecryptedIsRight, Unmistakable, msgVars
  <1>7. OneRun'
    BY <1>3 DEF BackfillInv, OneRun, LockFor, msgVars, runVars
  <1>8. ASSUME NEW r \in Runners PROVE Scanned(r)'
    <2>1. Scanned(r) /\ last[r] \in Nat /\ seen[r] \in Nat
      BY <1>1 DEF BackfillInv, RunsTypeOK
    <2>2. ASSUME NEW id \in Nat, id <= m, Indexed(r, id)
          PROVE  \A i \in DOMAIN packets' :
                    pruned' < i /\ i <= id /\ sends'[packets'[i]].chan \in known'[r]
                       => packets'[i] \in index'[r]
      <3> TAKE i \in DOMAIN packets'
      <3> HAVE pruned' < i /\ i <= id /\ sends'[packets'[i]].chan \in known'[r]
      <3>1. i \in 1..m
        BY <1>3, <2>2
      <3>2. pruned < i
        BY <1>1, <1>3, <3>1 DEF MessagesTypeOK
      <3>3. QED
        BY <1>2, <1>3, <2>2, <3>1, <3>2 DEF Indexed, runVars
    <2>3. last[r] <= m /\ seen[r] <= m
      BY <1>2, <2>1 DEF Scanned
    <2>4. last'[r] <= Len(packets') /\ seen'[r] <= Len(packets')
      BY <1>3, <2>1, <2>3 DEF runVars
    <2>5. UNCHANGED <<at, last, seen>>
      BY <1>3 DEF runVars
    <2>6. QED
      BY <1>2, <2>1, <2>2, <2>3, <2>4, <2>5 DEF Scanned, Indexed
  <1>9. QED
    BY <1>5, <1>6, <1>7, <1>8 DEF BackfillInv

\* A message is added in two steps, or pruned.
LEMMA MessagesKeep ==
    ASSUME BackfillInv, NEW n \in Sends, AddLooks(n) \/ AddInserts(n) \/ PrunesMessage(n)
    PROVE  BackfillInv'
  <1>1. MessagesTypeOK /\ RunsTypeOK /\ TablesTypeOK /\ RowsOK /\ OneRun /\ DecryptedIsRight
    BY DEF BackfillInv
  <1>2. UNCHANGED <<nodeVars, tabVars, sends, pktVars, runVars>>
    BY DEF AddLooks, AddInserts, PrunesMessage
  <1>3. Sends' = Sends
    BY <1>2 DEF Sends
  <1>4. /\ msg' \in [Sends -> {"none", "looked", "stored", "pruned"}]
        /\ looked' \in [Sends -> Holders] /\ label' \in [Sends -> Holders]
        /\ source' \in [Sends -> Sources]
        /\ \A k \in Sends \ {n} : msg'[k] = msg[k] /\ label'[k] = label[k] /\ source'[k] = source[k]
        /\ source'[n] \in {"null", "slot"} /\ msg'[n] # "none" /\ sends[n].slot \in Slots
        /\ msg'[n] # "stored" => source'[n] = "null"
        /\ msg'[n] = "pruned" \/ msg[n] \in {"none", "looked"}
    <2>1. sends[n].slot \in Slots \cup {Nothing}
      <3>1. sends[n] \in Sent
        BY <1>1 DEF MessagesTypeOK, Sends
      <3>2. QED
        BY <3>1 DEF Sent
    <2>2. CASE AddLooks(n)
      <3>1. slots[sends[n].slot] \in Holders /\ sends[n].slot \in Slots
        BY <1>1, <2>1, <2>2 DEF AddLooks, TablesTypeOK
      <3>2. QED
        BY <1>1, <2>2, <3>1 DEF AddLooks, MessagesTypeOK, RowsOK, Sources
    <2>3. CASE AddInserts(n)
      <3>1. looked[n] \in Holders
        BY <1>1 DEF MessagesTypeOK
      <3>2. QED
        BY <1>1, <2>3, <3>1 DEF AddInserts, MessagesTypeOK, RowsOK, Sources, Holders
    <2>4. CASE PrunesMessage(n)
      BY <1>1, <2>4 DEF PrunesMessage, Stored, MessagesTypeOK, RowsOK, Sources, Holders
    <2>5. QED
      BY <2>2, <2>3, <2>4
  <1>5. MessagesTypeOK' /\ RunsTypeOK' /\ TablesTypeOK'
    BY <1>1, <1>2, <1>3, <1>4
       DEF MessagesTypeOK, RunsTypeOK, TablesTypeOK, pktVars, runVars, nodeVars, tabVars
  <1>6. RowsOK'
    BY <1>1, <1>2, <1>3, <1>4 DEF RowsOK
  <1>7. DecryptedIsRight'
    BY <1>1, <1>2, <1>3, <1>4 DEF DecryptedIsRight, Unmistakable
  <1>8. OneRun'
    <2>1. \A r \in Runners : \A k \in targets[r] : k \in Sends
      BY <1>1 DEF RunsTypeOK
    <2>2. \A r \in Runners : \A k \in targets[r] :
             msg'[k] \in {"stored", "pruned"} /\ source'[k] \in {"null", "inferred"}
      BY <1>1, <1>4, <2>1 DEF OneRun
    <2>3. QED
      BY <1>1, <1>2, <2>2 DEF OneRun, LockFor, runVars
  <1>9. \A r \in Runners : Scanned(r)'
    <2> TAKE r \in Runners
    <2>1. Scanned(r)
      BY DEF BackfillInv
    <2>2. /\ Indexed(r, last[r])' <=> Indexed(r, last[r])
          /\ Indexed(r, seen[r])' <=> Indexed(r, seen[r])
      BY <1>2 DEF Indexed, pktVars, runVars
    <2>3. QED
      BY <1>2, <2>1, <2>2 DEF Scanned, pktVars, runVars
  <1>10. QED
    BY <1>5, <1>6, <1>7, <1>8, <1>9 DEF BackfillInv

-----------------------------------------------------------------------------
(* The steps of a backfill.                                                 *)

\* A run that is over holds no lock and has no candidates; the labels may be updated.
LEMMA RunEnds ==
    ASSUME BackfillInv, NEW over \in SUBSET Runners,
           MessagesTypeOK', TablesTypeOK', RowsOK', DecryptedIsRight',
           UNCHANGED <<sends, pktVars>>,
           \A r \in Runners \ over : \A n \in targets[r] :
              msg'[n] \in {"stored", "pruned"} /\ source'[n] \in {"null", "inferred"},
           at' = [r \in Runners |-> IF r \in over THEN "idle" ELSE at[r]],
           targets' = [r \in Runners |-> IF r \in over THEN {} ELSE targets[r]],
           bySlot' = [r \in Runners |-> IF r \in over THEN [s \in Slots |-> Nothing] ELSE bySlot[r]],
           known' = [r \in Runners |-> IF r \in over THEN {} ELSE known[r]],
           last' = [r \in Runners |-> IF r \in over THEN 0 ELSE last[r]],
           index' = [r \in Runners |-> IF r \in over THEN {} ELSE index[r]],
           seen' = [r \in Runners |-> IF r \in over THEN 0 ELSE seen[r]]
    PROVE  BackfillInv'
  <1>1. MessagesTypeOK /\ RunsTypeOK /\ TablesTypeOK /\ OneRun
    BY DEF BackfillInv
  <1>2. Sends' = Sends
    BY DEF Sends
  <1>3. RunsTypeOK'
    BY <1>1, <1>2 DEF RunsTypeOK, Places, Holders
  <1>4. OneRun'
    <2>1. \A r \in Runners : at'[r] \notin {"idle", "wait"} => LockFor(r)'
      BY <1>1 DEF OneRun, LockFor
    <2>2. \A r \in Runners : at'[r] \in {"idle", "wait"} => targets'[r] = {}
      BY <1>1 DEF OneRun
    <2>3. \A r \in Runners : \A n \in targets'[r] :
             msg'[n] \in {"stored", "pruned"} /\ source'[n] \in {"null", "inferred"}
      OBVIOUS
    <2>4. QED
      BY <2>1, <2>2, <2>3 DEF OneRun
  <1>5. ASSUME NEW r \in Runners PROVE Scanned(r)'
    <2>1. Scanned(r) /\ Len(packets) \in Nat
      BY <1>1, PacketIds DEF BackfillInv
    <2>2. CASE r \in over
      <3>1. at'[r] = "idle" /\ last'[r] = 0 /\ seen'[r] = 0 /\ packets' = packets
        BY <2>2 DEF pktVars
      <3>2. QED
        BY <2>1, <3>1 DEF Scanned
    <2>3. CASE r \notin over
      <3>1. /\ at'[r] = at[r] /\ last'[r] = last[r] /\ seen'[r] = seen[r]
            /\ known'[r] = known[r] /\ index'[r] = index[r]
            /\ UNCHANGED <<packets, pruned, sends>>
        BY <2>3 DEF pktVars
      <3>2. /\ Indexed(r, last[r])' <=> Indexed(r, last[r])
            /\ Indexed(r, seen[r])' <=> Indexed(r, seen[r])
        BY <3>1 DEF Indexed
      <3>3. QED
        BY <2>1, <3>1, <3>2 DEF Scanned
    <2>4. QED
      BY <2>2, <2>3
  <1>6. QED
    BY <1>2, <1>3, <1>4, <1>5 DEF BackfillInv

LEMMA ForgetIs ==
    ASSUME RunsTypeOK, NEW q \in Runners, Forget(q)
    PROVE  /\ at' = [r \in Runners |-> IF r \in {q} THEN "idle" ELSE at[r]]
           /\ targets' = [r \in Runners |-> IF r \in {q} THEN {} ELSE targets[r]]
           /\ bySlot' = [r \in Runners |-> IF r \in {q} THEN [s \in Slots |-> Nothing] ELSE bySlot[r]]
           /\ known' = [r \in Runners |-> IF r \in {q} THEN {} ELSE known[r]]
           /\ last' = [r \in Runners |-> IF r \in {q} THEN 0 ELSE last[r]]
           /\ index' = [r \in Runners |-> IF r \in {q} THEN {} ELSE index[r]]
           /\ seen' = [r \in Runners |-> IF r \in {q} THEN 0 ELSE seen[r]]
  BY DEF RunsTypeOK, Forget

\* A run that ends alone.
LEMMA OneEnds ==
    ASSUME BackfillInv, NEW q \in Runners, Forget(q),
           MessagesTypeOK', RowsOK', DecryptedIsRight',
           UNCHANGED <<nodeVars, tabVars, sends, pktVars>>,
           \A r \in Runners \ {q} : \A n \in targets[r] :
              msg'[n] \in {"stored", "pruned"} /\ source'[n] \in {"null", "inferred"}
    PROVE  BackfillInv'
  <1>1. PICK over \in SUBSET Runners : over = {q}
    OBVIOUS
  <1>2. /\ at' = [r \in Runners |-> IF r \in over THEN "idle" ELSE at[r]]
        /\ targets' = [r \in Runners |-> IF r \in over THEN {} ELSE targets[r]]
        /\ bySlot' = [r \in Runners |-> IF r \in over THEN [s \in Slots |-> Nothing] ELSE bySlot[r]]
        /\ known' = [r \in Runners |-> IF r \in over THEN {} ELSE known[r]]
        /\ last' = [r \in Runners |-> IF r \in over THEN 0 ELSE last[r]]
        /\ index' = [r \in Runners |-> IF r \in over THEN {} ELSE index[r]]
        /\ seen' = [r \in Runners |-> IF r \in over THEN 0 ELSE seen[r]]
    BY <1>1, ForgetIs DEF BackfillInv
  <1>3. \A r \in Runners \ over : \A n \in targets[r] :
           msg'[n] \in {"stored", "pruned"} /\ source'[n] \in {"null", "inferred"}
    BY <1>1
  <1>4. TablesTypeOK'
    BY DEF BackfillInv, TablesTypeOK, nodeVars, tabVars
  <1>5. QED
    BY <1>2, <1>3, <1>4, RunEnds

\* What is true of the messages stays so when nothing or only labels change.
LEMMA LabelsKeep ==
    ASSUME BackfillInv, NEW r \in Runners, NEW these \in SUBSET targets[r],
           Update(r, these) \/ UNCHANGED <<label, source>>,
           UNCHANGED <<sends, pktVars>>,
           msg' \in [Sends -> {"none", "looked", "stored", "pruned"}],
           looked' \in [Sends -> Holders],
           \A n \in Sends : msg'[n] = msg[n] \/ (msg[n] = "looked" /\ msg'[n] = "pruned")
    PROVE  MessagesTypeOK' /\ RowsOK' /\ DecryptedIsRight'
  <1>1. MessagesTypeOK /\ RowsOK /\ OneRun /\ DecryptedIsRight
    BY DEF BackfillInv
  <1>2. Sends' = Sends
    BY DEF Sends
  <1>3. /\ label' \in [Sends -> Holders] /\ source' \in [Sends -> Sources]
        /\ \A n \in Sends : source'[n] = source[n] \/ Stored(n)
        /\ \A n \in Sends : source'[n] = "decrypted" /\ Unmistakable(n)
                              => label'[n] = sends[n].chan
    <2>1. CASE Update(r, these)
      BY <2>1, UpdateIs
    <2>2. CASE UNCHANGED <<label, source>>
      BY <1>1, <2>2 DEF MessagesTypeOK, DecryptedIsRight
    <2>3. QED
      BY <2>1, <2>2
  <1>4. MessagesTypeOK'
    BY <1>1, <1>2, <1>3 DEF MessagesTypeOK, pktVars
  <1>5. RowsOK'
    BY <1>1, <1>2, <1>3 DEF RowsOK, Stored
  <1>6. DecryptedIsRight'
    BY <1>2, <1>3 DEF DecryptedIsRight, Unmistakable
  <1>7. QED
    BY <1>4, <1>5, <1>6

\* The run that writes is the only one with candidates.
LEMMA WritesKeeps ==
    ASSUME BackfillInv, NEW r \in Runners, Writes(r)
    PROVE  BackfillInv'
  <1>1. MessagesTypeOK /\ RunsTypeOK /\ OneRun
    BY DEF BackfillInv
  <1>2. /\ at[r] = "write" /\ Update(r, targets[r]) /\ Forget(r)
        /\ UNCHANGED <<nodeVars, tabVars, sends, msg, looked, pktVars>>
    BY DEF Writes
  <1>3. MessagesTypeOK' /\ RowsOK' /\ DecryptedIsRight'
    BY <1>1, <1>2, LabelsKeep DEF MessagesTypeOK
  <1>4. \A q \in Runners \ {r} : targets[q] = {}
    BY <1>1, <1>2 DEF OneRun, LockFor
  <1>5. QED
    BY <1>1, <1>2, <1>3, <1>4, OneEnds

\* A run is cancelled, or its daemon killed, perhaps between two updates.
LEMMA CutKeeps ==
    ASSUME BackfillInv, Cancelled \/ Restarts
    PROVE  BackfillInv'
  <1>1. MessagesTypeOK /\ RunsTypeOK /\ OneRun
    BY DEF BackfillInv
  <1>2. CASE Cancelled
    <2>1. Forget("rpc") /\ UNCHANGED <<nodeVars, tabVars, sends, msgVars, pktVars>>
      BY <1>2 DEF Cancelled
    <2>2. "rpc" \in Runners
      BY DEF Runners
    <2>3. MessagesTypeOK' /\ RowsOK' /\ DecryptedIsRight'
      <3>1. /\ UNCHANGED <<label, source, sends, pktVars, msg, looked>>
            /\ {} \in SUBSET targets["rpc"]
        BY <2>1 DEF msgVars
      <3>2. QED
        BY <1>1, <2>2, <3>1, LabelsKeep DEF MessagesTypeOK
    <2>4. \A q \in Runners \ {"rpc"} : \A n \in targets[q] :
             msg'[n] \in {"stored", "pruned"} /\ source'[n] \in {"null", "inferred"}
      BY <1>1, <2>1 DEF OneRun, msgVars
    <2>5. QED
      BY <1>1, <2>1, <2>2, <2>3, <2>4, OneEnds
  <1>3. CASE Restarts
    <2>1. PICK r \in Runners : \E these \in SUBSET targets[r] :
             Update(r, these) \/ UNCHANGED <<label, source>>
      <3>1. {} \in SUBSET targets["rpc"] /\ "rpc" \in Runners
        BY DEF Runners
      <3>2. QED
        BY <1>3, <3>1 DEF Restarts
    <2> PICK these \in SUBSET targets[r] : Update(r, these) \/ UNCHANGED <<label, source>>
      BY <2>1
    <2>2. /\ msg' = [n \in Sends |-> IF msg[n] = "looked" THEN "pruned" ELSE msg[n]]
          /\ looked' = [n \in Sends |-> Nothing]
          /\ job' = None /\ UNCHANGED <<nodeVars, slots, rows, sends, pktVars>>
      BY <1>3 DEF Restarts
    <2>3. MessagesTypeOK' /\ RowsOK' /\ DecryptedIsRight'
      <3>1. /\ msg' \in [Sends -> {"none", "looked", "stored", "pruned"}]
            /\ looked' \in [Sends -> Holders]
            /\ \A n \in Sends : msg'[n] = msg[n] \/ (msg[n] = "looked" /\ msg'[n] = "pruned")
        BY <1>1, <2>2 DEF MessagesTypeOK, Holders
      <3>2. UNCHANGED <<sends, pktVars>>
        BY <2>2
      <3>3. QED
        BY <2>1, <3>1, <3>2, LabelsKeep
    <2>4. /\ at' = [r2 \in Runners |-> IF r2 \in Runners THEN "idle" ELSE at[r2]]
          /\ targets' = [r2 \in Runners |-> IF r2 \in Runners THEN {} ELSE targets[r2]]
          /\ bySlot' = [r2 \in Runners |-> IF r2 \in Runners THEN [s \in Slots |-> Nothing]
                                           ELSE bySlot[r2]]
          /\ known' = [r2 \in Runners |-> IF r2 \in Runners THEN {} ELSE known[r2]]
          /\ last' = [r2 \in Runners |-> IF r2 \in Runners THEN 0 ELSE last[r2]]
          /\ index' = [r2 \in Runners |-> IF r2 \in Runners THEN {} ELSE index[r2]]
          /\ seen' = [r2 \in Runners |-> IF r2 \in Runners THEN 0 ELSE seen[r2]]
      BY <1>3 DEF Restarts
    <2>5. TablesTypeOK'
      BY <2>2 DEF BackfillInv, TablesTypeOK, nodeVars
    <2>6. QED
      BY <2>2, <2>3, <2>4, <2>5, RunEnds
  <1>4. QED
    BY <1>2, <1>3

\* The lock is taken: nobody else has candidates, and these need a label.
LEMMA ReadsTargetsKeeps ==
    ASSUME BackfillInv, NEW r \in Runners, ReadsTargets(r)
    PROVE  BackfillInv'
  <1>1. /\ MessagesTypeOK /\ RunsTypeOK /\ TablesTypeOK /\ OneRun /\ RowsOK /\ DecryptedIsRight
        /\ Scanned(r)
    BY DEF BackfillInv
  <1>2. /\ at[r] = "wait" /\ LockFor(r)
        /\ UNCHANGED <<nodeVars, tabVars, sends, msgVars, pktVars>>
    BY DEF ReadsTargets
  <1>3. MessagesTypeOK' /\ TablesTypeOK' /\ RowsOK' /\ DecryptedIsRight' /\ Sends' = Sends
    BY <1>1, <1>2 DEF MessagesTypeOK, TablesTypeOK, RowsOK, DecryptedIsRight, Unmistakable, Sends,
                      nodeVars, tabVars, msgVars, pktVars
  <1>4. CASE Candidates(r) = {}
    <2>1. Forget(r)
      BY <1>4 DEF ReadsTargets
    <2>2. \A q \in Runners \ {r} : targets[q] = {}
      BY <1>1, <1>2 DEF OneRun, LockFor
    <2>3. QED
      BY <1>1, <1>2, <1>3, <2>1, <2>2, OneEnds
  <1>5. CASE Candidates(r) # {}
    <2>1. /\ targets' = [targets EXCEPT ![r] = Candidates(r)]
          /\ at' = [at EXCEPT ![r] = "channels"]
          /\ UNCHANGED <<bySlot, known, last, index, seen, runs>>
      BY <1>5 DEF ReadsTargets
    <2>2. /\ Candidates(r) \subseteq Sends
          /\ \A n \in Candidates(r) : msg[n] = "stored" /\ source[n] \in {"null", "inferred"}
      BY DEF Candidates, Stored
    <2>3. RunsTypeOK'
      BY <1>1, <1>3, <2>1, <2>2 DEF RunsTypeOK, Places
    <2>4. /\ \A q \in Runners : at'[q] = IF q = r THEN "channels" ELSE at[q]
          /\ \A q \in Runners : targets'[q] = IF q = r THEN Candidates(r) ELSE targets[q]
      BY <1>1, <2>1 DEF RunsTypeOK
    <2>5. OneRun'
      BY <1>1, <1>2, <2>2, <2>4 DEF OneRun, LockFor, msgVars
    <2>6. ASSUME NEW q \in Runners PROVE Scanned(q)'
      <3>1. Scanned(q) /\ UNCHANGED <<packets, pruned, sends, known, last, index, seen>>
        BY <1>2, <2>1 DEF BackfillInv, pktVars
      <3>2. /\ Indexed(q, last[q])' <=> Indexed(q, last[q])
            /\ Indexed(q, seen[q])' <=> Indexed(q, seen[q])
        BY <3>1 DEF Indexed
      <3>3. QED
        BY <1>1, <1>2, <2>4, <3>1, <3>2 DEF Scanned
    <2>7. QED
      BY <1>3, <2>3, <2>5, <2>6 DEF BackfillInv
  <1>6. QED
    BY <1>4, <1>5

\* Nothing has been scanned when the snapshots are taken.
LEMMA ReadsChannelsKeeps ==
    ASSUME BackfillInv, NEW r \in Runners, ReadsChannels(r)
    PROVE  BackfillInv'
  <1>1. /\ MessagesTypeOK /\ RunsTypeOK /\ TablesTypeOK /\ OneRun /\ RowsOK /\ DecryptedIsRight
    BY DEF BackfillInv
  <1>2. /\ at[r] = "channels" /\ bySlot' = [bySlot EXCEPT ![r] = slots]
        /\ known' = [known EXCEPT ![r] = rows] /\ seen' = [seen EXCEPT ![r] = Len(packets)]
        /\ at' = [at EXCEPT ![r] = "scan"]
        /\ UNCHANGED <<nodeVars, tabVars, sends, msgVars, pktVars, targets, last, index, runs>>
    BY DEF ReadsChannels
  <1>3. MessagesTypeOK' /\ TablesTypeOK' /\ RowsOK' /\ DecryptedIsRight' /\ Sends' = Sends
    BY <1>1, <1>2 DEF MessagesTypeOK, TablesTypeOK, RowsOK, DecryptedIsRight, Unmistakable, Sends,
                      nodeVars, tabVars, msgVars, pktVars
  <1>4. PICK m \in Nat : m = Len(packets) /\ DOMAIN packets = 1..m
    BY <1>1, PacketIds
  <1>5. RunsTypeOK'
    BY <1>1, <1>2, <1>3, <1>4 DEF RunsTypeOK, TablesTypeOK, Places
  <1>6. \A q \in Runners :
           /\ at'[q] = IF q = r THEN "scan" ELSE at[q]
           /\ known'[q] = IF q = r THEN rows ELSE known[q]
           /\ seen'[q] = IF q = r THEN m ELSE seen[q]
    BY <1>1, <1>2, <1>4 DEF RunsTypeOK
  <1>7. OneRun'
    BY <1>1, <1>2, <1>6 DEF OneRun, LockFor, msgVars
  <1>8. ASSUME NEW q \in Runners PROVE Scanned(q)'
    <2>1. Scanned(q) /\ UNCHANGED <<packets, pruned, sends, last, index>>
      BY <1>2 DEF BackfillInv, pktVars
    <2>2. CASE q = r
      <3>1. last'[r] = 0
        BY <1>2, <2>1, <2>2 DEF Scanned
      <3>2. Indexed(r, last[r])'
        BY <1>4, <2>1, <3>1 DEF Indexed
      <3>3. QED
        BY <1>4, <1>6, <2>1, <2>2, <3>1, <3>2 DEF Scanned
    <2>3. CASE q # r
      <3>1. at'[q] = at[q] /\ known'[q] = known[q] /\ seen'[q] = seen[q]
        BY <1>6, <2>3
      <3>2. /\ Indexed(q, last[q])' <=> Indexed(q, last[q])
            /\ Indexed(q, seen[q])' <=> Indexed(q, seen[q])
        BY <2>1, <3>1 DEF Indexed
      <3>3. QED
        BY <2>1, <3>1, <3>2 DEF Scanned
    <2>4. QED
      BY <2>2, <2>3
  <1>9. QED
    BY <1>3, <1>5, <1>7, <1>8 DEF BackfillInv

\* A page: the index has what decrypts up to its highest id, or up to the end.
LEMMA ScansKeeps ==
    ASSUME BackfillInv, NEW r \in Runners, Scans(r)
    PROVE  BackfillInv'
  <1>1. /\ MessagesTypeOK /\ RunsTypeOK /\ TablesTypeOK /\ OneRun /\ RowsOK /\ DecryptedIsRight
        /\ Scanned(r)
    BY DEF BackfillInv
  <1> DEFINE new == {p \in {packets[i] : i \in Page(r)} : sends[p].chan \in known[r]}
  <1>2. /\ at[r] = "scan" /\ index' = [index EXCEPT ![r] = index[r] \cup new]
        /\ IF LastPage(Page(r)) THEN at' = [at EXCEPT ![r] = "write"] /\ UNCHANGED last
           ELSE last' = [last EXCEPT ![r] = Max(Page(r))] /\ UNCHANGED at
        /\ UNCHANGED <<nodeVars, tabVars, sends, msgVars, pktVars, targets, bySlot, known,
                       seen, runs>>
    BY DEF Scans
  <1>3. MessagesTypeOK' /\ TablesTypeOK' /\ RowsOK' /\ DecryptedIsRight' /\ Sends' = Sends
    BY <1>1, <1>2 DEF MessagesTypeOK, TablesTypeOK, RowsOK, DecryptedIsRight, Unmistakable, Sends,
                      nodeVars, tabVars, msgVars, pktVars
  <1>4. PICK m \in Nat : m = Len(packets) /\ DOMAIN packets = 1..m
    BY <1>1, PacketIds
  <1>5. /\ Ids(r) \subseteq 1..m /\ Page(r) \subseteq Ids(r)
        /\ \A i \in 1..m : packets[i] \in Sends
    BY <1>1, <1>4, PacketIds
  <1>6. new \subseteq Sends
    BY <1>5
  <1>7. /\ \A i \in Page(r) : sends[packets[i]].chan \in known[r] => packets[i] \in new
        /\ \A i \in 1..m : i \in Ids(r) <=> last[r] < i /\ pruned < i
    BY <1>1, <1>4 DEF Ids, RunsTypeOK, MessagesTypeOK
  <1> HIDE DEF new
  <1>8. \A q \in Runners \ {r} :
           /\ at'[q] = at[q] /\ last'[q] = last[q] /\ index'[q] = index[q]
           /\ known'[q] = known[q] /\ seen'[q] = seen[q]
    BY <1>1, <1>2 DEF RunsTypeOK
  <1>9. /\ index'[r] = index[r] \cup new /\ UNCHANGED <<packets, pruned, sends, known, seen>>
    BY <1>1, <1>2 DEF RunsTypeOK, pktVars
  <1>10. Indexed(r, last[r]) /\ last[r] \in Nat /\ seen[r] \in Nat /\ seen[r] <= m /\ last[r] <= m
    BY <1>1, <1>2, <1>4 DEF Scanned, RunsTypeOK
  <1>11. /\ RunsTypeOK' /\ Scanned(r)'
         /\ at'[r] \in {"scan", "write"}
    <2>1. CASE LastPage(Page(r))
      <3>1. at'[r] = "write" /\ at' = [at EXCEPT ![r] = "write"] /\ UNCHANGED last
        BY <1>1, <1>2, <2>1 DEF RunsTypeOK
      <3>2. Ids(r) \subseteq Page(r)
        BY <1>1, <2>1, LastPageIsAll
      <3>3. \A i \in 1..m : pruned < i /\ i <= seen[r] /\ sends[packets[i]].chan \in known[r]
                              => packets[i] \in index[r] \cup new
        <4> TAKE i \in 1..m
        <4> HAVE pruned < i /\ i <= seen[r] /\ sends[packets[i]].chan \in known[r]
        <4>1. CASE i <= last[r]
          BY <1>4, <1>10, <4>1 DEF Indexed
        <4>2. CASE ~(i <= last[r])
          BY <1>7, <1>10, <3>2, <4>2
        <4>3. QED
          BY <4>1, <4>2
      <3>4. Indexed(r, seen[r])'
        BY <1>4, <1>9, <3>3 DEF Indexed
      <3>5. RunsTypeOK'
        BY <1>1, <1>2, <1>3, <1>6, <3>1 DEF RunsTypeOK, Places
      <3>6. QED
        BY <1>4, <1>9, <1>10, <3>1, <3>4, <3>5 DEF Scanned
    <2>2. CASE ~LastPage(Page(r))
      <3>1. PICK k \in Ids(r) : k = Max(Page(r)) /\ \A i \in Ids(r) : i <= k => i \in Page(r)
        BY <1>1, <2>2, FullPageIs
      <3>2. last' = [last EXCEPT ![r] = k] /\ last'[r] = k /\ UNCHANGED at
        BY <1>1, <1>2, <2>2, <3>1 DEF RunsTypeOK
      <3>3. k \in Nat /\ k <= m
        BY <1>5, <3>1
      <3>4. \A i \in 1..m : pruned < i /\ i <= k /\ sends[packets[i]].chan \in known[r]
                              => packets[i] \in index[r] \cup new
        <4> TAKE i \in 1..m
        <4> HAVE pruned < i /\ i <= k /\ sends[packets[i]].chan \in known[r]
        <4>1. CASE i <= last[r]
          BY <1>4, <1>10, <4>1 DEF Indexed
        <4>2. CASE ~(i <= last[r])
          BY <1>7, <1>10, <3>1, <4>2
        <4>3. QED
          BY <4>1, <4>2
      <3>5. Indexed(r, last[r])'
        BY <1>4, <1>9, <3>2, <3>4 DEF Indexed
      <3>6. RunsTypeOK'
        BY <1>1, <1>2, <1>3, <1>6, <3>2, <3>3 DEF RunsTypeOK
      <3>7. QED
        BY <1>2, <1>4, <1>9, <1>10, <3>2, <3>3, <3>5, <3>6 DEF Scanned
    <2>3. QED
      BY <2>1, <2>2
  <1>12. OneRun'
    BY <1>1, <1>2, <1>8, <1>11 DEF OneRun, LockFor, msgVars
  <1>13. ASSUME NEW q \in Runners, q # r PROVE Scanned(q)'
    <2>1. Scanned(q)
      BY DEF BackfillInv
    <2>2. /\ at'[q] = at[q] /\ last'[q] = last[q] /\ index'[q] = index[q]
          /\ known'[q] = known[q] /\ seen'[q] = seen[q]
      BY <1>8, <1>13
    <2>3. /\ Indexed(q, last[q])' <=> Indexed(q, last[q])
          /\ Indexed(q, seen[q])' <=> Indexed(q, seen[q])
      BY <1>9, <2>2 DEF Indexed
    <2>4. QED
      BY <1>9, <2>1, <2>2, <2>3 DEF Scanned
  <1>14. QED
    BY <1>3, <1>11, <1>12, <1>13 DEF BackfillInv

-----------------------------------------------------------------------------
(* The invariant, and what it gives.                                        *)

LEMMA BackfillInvInit ==
    ASSUME BackfillInit PROVE BackfillInv
  <1>1. /\ sends = <<>> /\ msg = <<>> /\ looked = <<>> /\ label = <<>> /\ source = <<>>
        /\ packets = <<>> /\ pruned = 0
    BY DEF BackfillInit
  <1>2. Sends = {}
    BY <1>1 DEF Sends
  <1>3. MessagesTypeOK
    BY <1>1, <1>2 DEF MessagesTypeOK
  <1>4. TablesTypeOK /\ RunsTypeOK
    BY <1>2 DEF BackfillInit, TablesTypeOK, RunsTypeOK, Holders, Places
  <1>5. RowsOK /\ DecryptedIsRight
    BY <1>2 DEF RowsOK, DecryptedIsRight
  <1>6. OneRun
    BY DEF BackfillInit, OneRun
  <1>7. \A r \in Runners : Scanned(r)
    BY <1>1, LenProperties DEF BackfillInit, Scanned
  <1>8. QED
    BY <1>3, <1>4, <1>5, <1>6, <1>7 DEF BackfillInv

LEMMA BackfillInvStep ==
    ASSUME BackfillInv, [BackfillNext]_bfVars PROVE BackfillInv'
  <1>1. ASSUME \/ \E s \in Slots : \/ \E x \in Holders : NodeMoves(s, x)
                                   \/ TrackerReads(s) \/ TrackerMisreads(s)
               \/ TrackerUpserts \/ TrackerVacates \/ TrackerOccupies \/ TrackerStops
        PROVE  BackfillInv'
    BY <1>1, TrackerKeeps
  <1>2. ASSUME NEW c \in Channels, NEW x \in Texts, NEW s \in Slots \cup {Nothing}, Send(c, x, s)
        PROVE  BackfillInv'
    BY <1>2, SendKeeps
  <1>3. CASE \E n \in Sends : RecordsPacket(n) \/ AddLooks(n) \/ AddInserts(n) \/ PrunesMessage(n)
    BY <1>3, PacketsKeep, MessagesKeep
  <1>4. CASE PrunesPackets
    BY <1>4, PacketsKeep
  <1>5. ASSUME NEW r \in Runners, Run(r) PROVE BackfillInv'
    BY <1>5, ReadsTargetsKeeps, ReadsChannelsKeeps, ScansKeeps, WritesKeeps DEF Run
  <1>6. ASSUME NEW r \in Runners, NEW extra \in {{}} \cup {{c} : c \in Channels}, Starts(r, extra)
        PROVE  BackfillInv'
    <2>1. extra \in SUBSET Channels
      OBVIOUS
    <2>2. QED
      BY <1>6, <2>1, StartsKeeps
  <1>7. CASE Cancelled \/ Restarts
    BY <1>7, CutKeeps
  <1>8. CASE UNCHANGED bfVars
    <2>1. /\ UNCHANGED <<sends, msgVars, pktVars, targets, bySlot, known, last, index, seen>>
          /\ UNCHANGED <<node, slots, rows, job, at>>
      BY <1>8 DEF bfVars, nodeVars, tabVars, runVars
    <2>2. TablesTypeOK' /\ at' \in [Runners -> Places]
      BY <2>1 DEF BackfillInv, TablesTypeOK, RunsTypeOK
    <2>3. QED
      BY <2>1, <2>2, TablesKeep
  <1>9. QED
    BY <1>1, <1>2, <1>3, <1>4, <1>5, <1>6, <1>7, <1>8 DEF BackfillNext, Holders

\* The inductive invariant of the backfill: types, which messages can have a
\* label, whose candidates a run has, and how far its index reaches.
THEOREM BackfillInvariant == BackfillSpec => []BackfillInv
  <1>1. BackfillInit => BackfillInv
    BY BackfillInvInit
  <1>2. BackfillInv /\ [BackfillNext]_bfVars => BackfillInv'
    BY BackfillInvStep
  <1>3. QED
    BY <1>1, <1>2, PTL DEF BackfillSpec

\* "proven from raw packet": what _run calls decrypted, and cannot be confounded
\* with another send, has the channel it was sent over, whatever the tracker has
\* moved between the snapshots.
THEOREM DecryptedRight == BackfillSpec => []DecryptedIsRight
  <1>1. BackfillInv => DecryptedIsRight
    BY DEF BackfillInv
  <1>2. QED
    BY <1>1, BackfillInvariant, PTL

\* Only the three writers of a label touch one: add, prune and set_channels.
LEMMA LabelWriters ==
    ASSUME BackfillInv, BackfillNext
    PROVE  \/ \A n \in Sends : label'[n] = label[n] /\ source'[n] = source[n]
           \/ \E r \in Runners : \E these \in SUBSET targets[r] : Update(r, these)
           \/ \E k \in Sends : /\ \A n \in Sends \ {k} : label'[n] = label[n] /\ source'[n] = source[n]
                               /\ msg[k] = "looked" \/ msg'[k] = "pruned"
  <1> DEFINE Same == \A n \in Sends : label'[n] = label[n] /\ source'[n] = source[n]
             Updated == \E r \in Runners : \E these \in SUBSET targets[r] : Update(r, these)
             One == \E k \in Sends :
                       /\ \A n \in Sends \ {k} : label'[n] = label[n] /\ source'[n] = source[n]
                       /\ msg[k] = "looked" \/ msg'[k] = "pruned"
  <1>1. MessagesTypeOK /\ RunsTypeOK
    BY DEF BackfillInv
  <1>2. UNCHANGED msgVars => Same
    BY DEF msgVars
  <1>3. ASSUME \/ \E s \in Slots : \/ \E x \in Channels \cup {Nothing} : NodeMoves(s, x)
                                   \/ TrackerReads(s) \/ TrackerMisreads(s)
               \/ TrackerUpserts \/ TrackerVacates \/ TrackerOccupies \/ TrackerStops
        PROVE  UNCHANGED msgVars
    BY <1>3 DEF NodeMoves, TrackerReads, TrackerMisreads, TrackerUpserts, TrackerVacates,
                TrackerOccupies, TrackerStops
  <1>4. ASSUME NEW c \in Channels, NEW x \in Texts, NEW s \in Slots \cup {Nothing}, Send(c, x, s)
        PROVE  Same
    <2>1. label' = Append(label, Nothing) /\ source' = Append(source, "null")
      BY <1>4 DEF Send
    <2>2. PICK m \in Nat : m = Len(sends) /\ Sends = 1..m
      BY <1>1, SendsAre
    <2>3. \A n \in Sends : label'[n] = label[n]
      <3>1. label \in [1..m -> Holders] /\ Nothing \in Holders
        BY <1>1, <2>2 DEF MessagesTypeOK, Holders
      <3>2. label \in Seq(Holders) /\ Len(label) = m
        BY <3>1
      <3>3. QED
        BY <2>1, <2>2, <3>1, <3>2, AppendProperties
    <2>4. \A n \in Sends : source'[n] = source[n]
      <3>1. source \in [1..m -> Sources] /\ "null" \in Sources
        BY <1>1, <2>2 DEF MessagesTypeOK, Sources
      <3>2. source \in Seq(Sources) /\ Len(source) = m
        BY <3>1
      <3>3. QED
        BY <2>1, <2>2, <3>1, <3>2, AppendProperties
    <2>5. QED
      BY <2>3, <2>4
  <1>5. ASSUME NEW k \in Sends,
               RecordsPacket(k) \/ AddLooks(k) \/ AddInserts(k) \/ PrunesMessage(k)
        PROVE  Same \/ One
    <2>1. CASE RecordsPacket(k)
      BY <1>2, <2>1 DEF RecordsPacket
    <2>2. CASE AddLooks(k)
      BY <1>1, <2>2 DEF AddLooks, MessagesTypeOK
    <2>3. CASE AddInserts(k)
      BY <1>1, <2>3 DEF AddInserts, MessagesTypeOK
    <2>4. CASE PrunesMessage(k)
      BY <1>1, <2>4 DEF PrunesMessage, MessagesTypeOK
    <2>5. QED
      BY <1>5, <2>1, <2>2, <2>3, <2>4
  <1>6. CASE PrunesPackets
    BY <1>2, <1>6 DEF PrunesPackets
  <1>7. ASSUME NEW r \in Runners, Run(r) PROVE Same \/ Updated
    <2>1. CASE Writes(r)
      <3>1. Update(r, targets[r]) /\ targets[r] \in SUBSET targets[r]
        BY <2>1 DEF Writes
      <3>2. QED
        BY <3>1
    <2>2. CASE ~Writes(r)
      BY <1>2, <1>7, <2>2 DEF Run, ReadsTargets, ReadsChannels, Scans
    <2>3. QED
      BY <2>1, <2>2
  <1>8. ASSUME NEW r \in Runners, NEW extra, Starts(r, extra) PROVE Same
    BY <1>2, <1>8 DEF Starts
  <1>9. CASE Cancelled
    BY <1>2, <1>9 DEF Cancelled
  <1>10. CASE Restarts
    <2>1. UNCHANGED <<label, source>> \/ Updated
      BY <1>10 DEF Restarts
    <2>2. QED
      BY <2>1
  <1>11. QED
    BY <1>2, <1>3, <1>4, <1>5, <1>6, <1>7, <1>8, <1>9, <1>10 DEF BackfillNext

\* What an update does to a rank: candidates have none, or an inferred label.
LEMMA UpdateImproves ==
    ASSUME BackfillInv, NEW r \in Runners, NEW these \in SUBSET targets[r], Update(r, these),
           NEW n \in Sends
    PROVE  /\ Rank(source'[n]) >= Rank(source[n])
           /\ \/ source[n] = "decrypted"
              \/ source[n] = "slot" /\ source'[n] = "slot"
              => label'[n] = label[n]
  <1>1. \/ label'[n] = label[n] /\ source'[n] = source[n]
        \/ n \in targets[r] /\ source'[n] \in {"inferred", "decrypted"}
    BY UpdateIs
  <1>2. Rank(source[n]) \in {0, 1, 2, 3}
    BY DEF Rank
  <1>3. n \in targets[r] => source[n] \in {"null", "inferred"}
    BY DEF BackfillInv, OneRun
  <1>4. QED
    BY <1>1, <1>2, <1>3 DEF Rank

\* A label is never replaced by a weaker one, a proven one never changes, and one
\* recorded with its slot changes only for a proven one.
THEOREM LabelsOnlyImprove == BackfillSpec => LabelsImprove
  <1> DEFINE Improves(n) ==
                /\ Rank(source'[n]) >= Rank(source[n])
                /\ \/ source[n] = "decrypted"
                   \/ source[n] = "slot" /\ source'[n] = "slot"
                   => label'[n] = label[n]
             Step == \A n \in Sends : Stored(n) /\ msg'[n] = "stored" => Improves(n)
  <1>1. ASSUME BackfillInv, BackfillNext PROVE Step
    <2> SUFFICES ASSUME NEW n \in Sends, Stored(n), msg'[n] = "stored" PROVE Improves(n)
      OBVIOUS
    <2>1. label'[n] = label[n] /\ source'[n] = source[n] => Improves(n)
      BY DEF Rank
    <2>2. (\E r \in Runners : \E these \in SUBSET targets[r] : Update(r, these)) => Improves(n)
      BY <1>1, UpdateImproves
    <2>3. msg[n] # "looked" /\ msg'[n] # "pruned"
      BY DEF Stored
    <2> HIDE DEF Improves
    <2>4. QED
      BY <1>1, <2>1, <2>2, <2>3, LabelWriters
  <1>2. BackfillInv /\ [BackfillNext]_bfVars => [Step]_bfVars
    BY <1>1
  <1>3. QED
    BY <1>2, BackfillInvariant, PTL DEF BackfillSpec, LabelsImprove

\* The index has the packet of the candidate, and nothing else can be confounded
\* with it, so the verdict is "decrypted".
LEMMA FoundIsDecrypted ==
    ASSUME BackfillInv, NEW r \in Runners, Writes(r), NEW n \in targets[r],
           Stored(n), Unmistakable(n), sends[n].chan \in known[r],
           NEW i \in (pruned + 1)..seen[r], packets[i] = n
    PROVE  source'[n] = "decrypted"
  <1>1. MessagesTypeOK /\ RunsTypeOK /\ RowsOK /\ OneRun /\ Scanned(r)
    BY DEF BackfillInv
  <1>2. at[r] = "write" /\ Update(r, targets[r])
    BY DEF Writes
  <1>3. n \in Sends /\ sends[n].slot \in Slots
    BY <1>1 DEF RunsTypeOK, RowsOK, Stored
  <1>4. n \in index[r]
    <2>1. Indexed(r, seen[r]) /\ seen[r] <= Len(packets) /\ seen[r] \in Nat /\ pruned \in Nat
      BY <1>1, <1>2 DEF Scanned, RunsTypeOK, MessagesTypeOK
    <2>2. i \in DOMAIN packets /\ pruned < i /\ i <= seen[r]
      BY <1>1, <2>1, PacketIds
    <2>3. QED
      BY <2>1, <2>2 DEF Indexed
  <1>5. Matched(r, n) = {sends[n].chan}
    <2>1. sends[n].chan \in Matched(r, n)
      BY <1>4 DEF Matched
    <2>2. \A c \in Matched(r, n) : c = sends[n].chan
      BY <1>1, <1>3, MatchedIs DEF Unmistakable
    <2>3. QED
      BY <2>1, <2>2
  <1>6. Verdict(r, n)[2] = "decrypted"
    BY <1>1, <1>3, <1>5, VerdictIs
  <1>7. QED
    BY <1>2, <1>3, <1>6 DEF Update

\* What iter_payloads pages through lacks no packet that was stored before the
\* scan and still is, so no message that a known channel decrypts is missed.
THEOREM NoPacketOverlooked == BackfillSpec => NothingOverlooked
  <1> DEFINE Step == \A r \in Runners : Writes(r) =>
                        \A n \in targets[r] :
                            /\ Stored(n) /\ Unmistakable(n)
                            /\ sends[n].chan \in known[r]
                            /\ \E i \in (pruned + 1)..seen[r] : packets[i] = n
                            => source'[n] = "decrypted"
  <1>1. BackfillInv => Step
    BY FoundIsDecrypted
  <1>2. BackfillInv /\ [BackfillNext]_bfVars => [Step]_bfVars
    BY <1>1
  <1>3. QED
    BY <1>2, BackfillInvariant, PTL DEF BackfillSpec, NothingOverlooked
=============================================================================
