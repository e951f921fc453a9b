------------------------- MODULE MessagePumpProofs -------------------------
(***************************************************************************)
(* Proofs about MessagePump, for any set of clients and any bounds: the    *)
(* state stays well typed and the client limit is kept, no wake-up of the  *)
(* pump is lost, and a client in mode "auto" loses at most one message.    *)
(***************************************************************************)
EXTENDS MessagePump, FiniteSetTheorems, TLAPS

\* A "no more messages" that the pump has yet to read is still true, or news
\* that it is not is under way.
EmptyAnswer ==
    pc = "fetch" /\ resp = "empty" => queue = 0 \/ pushed > 0 \/ hint \/ excused

\* A request that waits for the slot has no answer yet, and one that is not
\* lost was made over the connection there is.
WaitsUnanswered ==
    /\ pc = "wait" => resp \in {"pending", "lost"}
    /\ pc \in {"wait", "fetch"} /\ resp # "lost" => isConnected

\* What the pump took since clients are connected was asked for before.
StolenInv ==
    mode = "auto" /\ clients # {} =>
        /\ stolen <= 1
        /\ pc \in {"wait", "fetch"} => stolen = 0

PumpInv ==
    /\ PumpTypeOK
    /\ IsFiniteSet(clients)
    /\ NoLostHint
    /\ EmptyAnswer
    /\ WaitsUnanswered
    /\ StolenInv

-----------------------------------------------------------------------------
\* The initial states satisfy the inductive invariant.
LEMMA PumpInitInv == PumpInit => PumpInv
  <1> SUFFICES ASSUME PumpInit PROVE PumpInv
    OBVIOUS
  <1>1. clients = {} /\ Cardinality(clients) = 0 /\ IsFiniteSet(clients)
    BY FS_EmptySet DEF PumpInit
  <1>2. PumpTypeOK
    <2>1. isConnected \in BOOLEAN /\ hint \in BOOLEAN /\ excused \in BOOLEAN
      BY DEF PumpInit
    <2>2. QED
      BY <1>1, <2>1, PumpAssumption DEF PumpInit, PumpTypeOK
  <1>3. NoLostHint /\ EmptyAnswer /\ WaitsUnanswered /\ StolenInv
    BY DEF PumpInit, NoLostHint, EmptyAnswer, WaitsUnanswered, StolenInv,
           MayFetch
  <1>4. QED
    BY <1>1, <1>2, <1>3 DEF PumpInv

\* Only clients that come and go change the client set, within the limit.
LEMMA ClientStep ==
    ASSUME PumpInv, [PumpNext]_pumpVars
    PROVE  /\ clients' \in SUBSET Clients
           /\ IsFiniteSet(clients')
           /\ Cardinality(clients') <= MaxClients
  <1> USE DEF PumpInv, PumpTypeOK
  <1>1. Cardinality(clients) \in Nat
    BY FS_CardinalityType
  <1>2. ASSUME NEW c \in Clients, ClientConnects(c)
        PROVE  /\ clients' \in SUBSET Clients
               /\ IsFiniteSet(clients')
               /\ Cardinality(clients') <= MaxClients
    <2>1. clients' = clients \cup {c} /\ c \notin clients
      BY <1>2 DEF ClientConnects
    <2>2. IsFiniteSet(clients') /\ Cardinality(clients') = Cardinality(clients) + 1
      BY <2>1, FS_AddElement
    <2>3. QED
      BY <1>1, <1>2, <2>1, <2>2, PumpAssumption DEF ClientConnects, Accepted
  <1>3. ASSUME NEW c \in Clients, ClientLeaves(c)
        PROVE  /\ clients' \in SUBSET Clients
               /\ IsFiniteSet(clients')
               /\ Cardinality(clients') <= MaxClients
    <2>1. clients' = clients \ {c} /\ c \in clients
      BY <1>3 DEF ClientLeaves
    <2>2. IsFiniteSet(clients') /\ Cardinality(clients') = Cardinality(clients) - 1
      BY <2>1, FS_RemoveElement
    <2>3. QED
      BY <1>1, <2>1, <2>2, PumpAssumption
  <1>4. CASE UNCHANGED clients
    BY <1>4
  <1>5. QED
    BY <1>2, <1>3, <1>4
       DEF PumpNext, PumpStep, Wake, PumpAcquires, PumpReceives, PumpFails,
           NapEnds, NodeHandsOut, OtherTakes, OtherReleases, MessageArrives,
           PushDelivered, Outage, ConnectionLost, Connect, pumpVars

\* Every step preserves the inductive invariant.
LEMMA PumpStepInv == PumpInv /\ [PumpNext]_pumpVars => PumpInv'
  <1> SUFFICES ASSUME PumpInv, [PumpNext]_pumpVars PROVE PumpInv'
    OBVIOUS
  <1>0. /\ clients' \in SUBSET Clients
        /\ IsFiniteSet(clients')
        /\ Cardinality(clients') <= MaxClients
    BY ClientStep
  <1> USE DEF PumpInv, PumpTypeOK, NoLostHint, EmptyAnswer, WaitsUnanswered,
              StolenInv, MayFetch, FetchAllowed
  <1>1. CASE Wake
    <2>1. isConnected' \in BOOLEAN /\ hint' \in BOOLEAN /\ excused' \in BOOLEAN
      BY <1>1 DEF Wake
    <2>2. CASE MayFetch
      BY <1>0, <1>1, <2>1, <2>2 DEF Wake, Round, Ask
    <2>3. CASE ~MayFetch
      BY <1>0, <1>1, <2>1, <2>3 DEF Wake, Round, Park
    <2>4. QED
      BY <2>2, <2>3
  <1>2. CASE PumpAcquires
    <2>1. PumpTypeOK' /\ IsFiniteSet(clients)'
      BY <1>0, <1>2 DEF PumpAcquires
    <2>2. NoLostHint'
      BY <1>2 DEF PumpAcquires
    <2>3. EmptyAnswer' /\ WaitsUnanswered'
      BY <1>2 DEF PumpAcquires
    <2>4. StolenInv'
      BY <1>2 DEF PumpAcquires
    <2>5. QED
      BY <2>1, <2>2, <2>3, <2>4
  <1>3. CASE NodeHandsOut
    <2>1. PumpTypeOK' /\ IsFiniteSet(clients)'
      <3>1. CASE queue > 0
        BY <1>0, <1>3, <3>1 DEF NodeHandsOut
      <3>2. CASE ~(queue > 0)
        BY <1>0, <1>3, <3>2 DEF NodeHandsOut
      <3>3. QED
        BY <3>1, <3>2
    <2>2. NoLostHint' /\ StolenInv'
      BY <1>3 DEF NodeHandsOut
    <2>3. EmptyAnswer' /\ WaitsUnanswered'
      BY <1>3 DEF NodeHandsOut
    <2>4. QED
      BY <2>1, <2>2, <2>3
  <1>4. CASE PumpReceives
    BY <1>0, <1>4 DEF PumpReceives, Park
  <1>5. CASE PumpFails
    BY <1>0, <1>5 DEF PumpFails, Park
  <1>6. CASE NapEnds
    <2>1. CASE MayFetch
      BY <1>0, <1>6, <2>1 DEF NapEnds, Round, Ask
    <2>2. CASE ~MayFetch
      BY <1>0, <1>6, <2>2 DEF NapEnds, Round, Park
    <2>3. QED
      BY <2>1, <2>2
  <1>7. ASSUME NEW c \in Clients, ClientConnects(c) PROVE PumpInv'
    BY <1>0, <1>7 DEF ClientConnects
  <1>8. ASSUME NEW c \in Clients, ClientLeaves(c) PROVE PumpInv'
    BY <1>0, <1>8 DEF ClientLeaves, PokeIfLast
  <1>9. ASSUME NEW o \in Clients \cup {"daemon"}, OtherTakes(o) PROVE PumpInv'
    BY <1>0, <1>9 DEF OtherTakes
  <1>10. CASE OtherReleases
    BY <1>0, <1>10 DEF OtherReleases
  <1>11. CASE MessageArrives
    BY <1>0, <1>11 DEF MessageArrives
  <1>12. CASE PushDelivered
    BY <1>0, <1>12 DEF PushDelivered
  <1>13. CASE Outage
    <2>1. excused' \in BOOLEAN /\ isConnected' \in BOOLEAN /\ hint' \in BOOLEAN
      BY <1>13 DEF Outage
    <2>2. resp' \in {"pending", "msg", "empty", "lost"}
      BY <1>13 DEF Outage
    <2>3. PumpTypeOK' /\ IsFiniteSet(clients)'
      BY <1>0, <1>13, <2>1, <2>2 DEF Outage, LoseLink
    <2>4. NoLostHint'
      BY <1>13 DEF Outage, LoseLink
    <2>5. EmptyAnswer' /\ WaitsUnanswered' /\ StolenInv'
      BY <1>13 DEF Outage
    <2>6. QED
      BY <2>3, <2>4, <2>5
  <1>14. CASE ConnectionLost
    <2>1. excused' \in BOOLEAN /\ isConnected' \in BOOLEAN /\ hint' \in BOOLEAN
      BY <1>14 DEF ConnectionLost
    <2>2. resp' \in {"pending", "msg", "empty", "lost"}
      BY <1>14 DEF ConnectionLost
    <2>3. PumpTypeOK' /\ IsFiniteSet(clients)'
      BY <1>0, <1>14, <2>1, <2>2 DEF ConnectionLost, LoseLink
    <2>4. NoLostHint'
      BY <1>14 DEF ConnectionLost
    <2>5. EmptyAnswer' /\ WaitsUnanswered' /\ StolenInv'
      BY <1>14 DEF ConnectionLost
    <2>6. QED
      BY <2>3, <2>4, <2>5
  <1>15. CASE Connect
    BY <1>0, <1>15 DEF Connect, DrainNow
  <1>16. CASE UNCHANGED pumpVars
    BY <1>0, <1>16 DEF pumpVars
  <1>17. QED
    BY <1>1, <1>2, <1>3, <1>4, <1>5, <1>6, <1>7, <1>8, <1>9, <1>10, <1>11, <1>12,
       <1>13, <1>14, <1>15, <1>16
       DEF PumpNext, PumpStep

\* The proxy serves at most MaxClients, and the state is well typed.
THEOREM PumpTyping == PumpSpec => []PumpTypeOK
  <1>1. PumpInv => PumpTypeOK
    BY DEF PumpInv
  <1>2. QED
    BY PumpInitInv, PumpStepInv, <1>1, PTL DEF PumpSpec

\* Whenever the pump sleeps without a hint although it may fetch, the node has
\* nothing, or a push is under way, or a fault has intervened.
THEOREM NoHintIsLost == PumpSpec => []NoLostHint
  <1>1. PumpInv => NoLostHint
    BY DEF PumpInv
  <1>2. QED
    BY PumpInitInv, PumpStepInv, <1>1, PTL DEF PumpSpec

\* In mode "auto" the pump takes at most one message away from the clients.
THEOREM OneStolenAtMost == PumpSpec => []AtMostOneStolen
  <1>1. PumpInv => AtMostOneStolen
    BY DEF PumpInv, StolenInv, AtMostOneStolen
  <1>2. QED
    BY PumpInitInv, PumpStepInv, <1>1, PTL DEF PumpSpec
=============================================================================
