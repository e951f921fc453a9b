-------------------------- MODULE ProxyCacheProofs --------------------------
(***************************************************************************)
(* Proofs about ProxyCache, for any callers and any bounds: what is stored *)
(* is one whole answer, an entry reflects every mutation that has been     *)
(* reported to a client, and no client sees the contact list go back.      *)
(*                                                                         *)
(* Frames come in the order in which the node answered, so the versions of *)
(* the contact list they show never decrease along the pipeline: whatever  *)
(* is still under way is at least as new as what has been taken from it.   *)
(***************************************************************************)
EXTENDS ProxyCache, CommandSlotProofs

-----------------------------------------------------------------------------
(* Versions h of the answers whose frames are in the raw queue q and on the *)
(* wire w; pushes have none.                                                *)

Over(h, v, s)     == \A i \in DOMAIN s : s[i].code # "push" => v <= h[s[i].req]
Rising(h, s)      == \A i, j \in DOMAIN s :
                        i < j /\ s[i].code # "push" /\ s[j].code # "push"
                            => h[s[i].req] <= h[s[j].req]
Floor(h, v, q, w) == Over(h, v, q) /\ Over(h, v, w)
Ordered(h, q, w)  ==
    /\ Rising(h, q) /\ Rising(h, w)
    /\ \A i \in DOMAIN q : Over(h, h[q[i].req], w)

\* The node has answered request r, and will not be asked again.
Executed(r) == \A i \in DOMAIN inbox : inbox[i].req # r

CacheTyped ==
    /\ nreq <= MaxRequests
    /\ ver \in [1..MaxRequests -> Nat]
    /\ nodeVer \in Nat /\ completed \in Nat /\ shown \in Nat

\* Nothing is newer than the node's own list.
Past ==
    /\ \A r \in 1..MaxRequests : ver[r] <= nodeVer
    /\ completed <= nodeVer /\ shown <= nodeVer

\* An answer no older than what clients know, and no newer than what is under way.
Between(r) ==
    /\ Executed(r)
    /\ completed <= ver[r] /\ shown <= ver[r]
    /\ Floor(ver, ver[r], rawQueue, wire)

\* What a raw command has taken first is part of such an answer.
FirstTaken(c) ==
    c \in RawCallers /\ got[c] # <<>> =>
        \E r \in 1..nreq : r = got[c][1].req /\ Between(r)

\* An entry is the list that was shown last, and its number is used up.
Cached ==
    OneAnswer(cache) =>
        \E r \in 1..nreq :
            /\ r = cache[1].req /\ Executed(r)
            /\ \A c \in Callers : Active(c) => call[c].req # r
            /\ completed <= ver[r] /\ shown = ver[r]

Versions ==
    /\ Ordered(ver, rawQueue, wire)
    /\ Floor(ver, completed, rawQueue, wire)
    /\ Floor(ver, shown, rawQueue, wire)

CacheInv ==
    /\ WholeInv /\ CacheTyped /\ Past /\ Versions
    /\ \A c \in Callers : FirstTaken(c)
    /\ Cached

-----------------------------------------------------------------------------
(* The order of versions as frames move on.                                 *)

LEMMA OverTail ==
    ASSUME NEW s \in Seq(Frame), s # <<>>, NEW h, NEW v, Over(h, v, s)
    PROVE  Over(h, v, Tail(s))
  BY HeadElements DEF Over

LEMMA RisingTail ==
    ASSUME NEW s \in Seq(Frame), s # <<>>, NEW h, Rising(h, s)
    PROVE  /\ Rising(h, Tail(s))
           /\ Head(s).code # "push" => Over(h, h[Head(s).req], Tail(s))
  <1>1. /\ 1 \in DOMAIN s /\ Head(s) = s[1]
        /\ \A i \in DOMAIN Tail(s) : i \in Nat /\ i >= 1 /\ i + 1 \in DOMAIN s /\ Tail(s)[i] = s[i + 1]
    BY HeadElements
  <1>2. Rising(h, Tail(s))
    <2> SUFFICES ASSUME NEW i \in DOMAIN Tail(s), NEW j \in DOMAIN Tail(s), i < j,
                        Tail(s)[i].code # "push", Tail(s)[j].code # "push"
                 PROVE  h[Tail(s)[i].req] <= h[Tail(s)[j].req]
      BY DEF Rising
    <2>1. i + 1 < j + 1
      BY <1>1
    <2>2. QED
      BY <1>1, <2>1 DEF Rising
  <1>3. ASSUME Head(s).code # "push" PROVE Over(h, h[Head(s).req], Tail(s))
    BY <1>1, <1>3 DEF Over, Rising
  <1>4. QED
    BY <1>2, <1>3

LEMMA OverAppend ==
    ASSUME NEW s \in Seq(Frame), NEW f \in Frame, NEW h, NEW v, Over(h, v, s),
           f.code # "push" => v <= h[f.req]
    PROVE  Over(h, v, Append(s, f))
  BY AppendElements DEF Over

LEMMA RisingAppend ==
    ASSUME NEW s \in Seq(Frame), NEW f \in Frame, NEW h, Rising(h, s),
           f.code # "push" => \A i \in DOMAIN s : s[i].code # "push" => h[s[i].req] <= h[f.req]
    PROVE  Rising(h, Append(s, f))
  <1>1. /\ Len(s) \in Nat /\ DOMAIN s = 1..Len(s)
        /\ \A i \in DOMAIN Append(s, f) :
                \/ i \in DOMAIN s /\ Append(s, f)[i] = s[i]
                \/ i = Len(s) + 1 /\ Append(s, f)[i] = f
    BY AppendElements
  <1> SUFFICES ASSUME NEW i \in DOMAIN Append(s, f), NEW j \in DOMAIN Append(s, f), i < j,
                      Append(s, f)[i].code # "push", Append(s, f)[j].code # "push"
               PROVE  h[Append(s, f)[i].req] <= h[Append(s, f)[j].req]
    BY DEF Rising
  <1>2. i \in DOMAIN s /\ Append(s, f)[i] = s[i]
    <2>1. DOMAIN Append(s, f) = 1..(Len(s) + 1)
      BY AppendElements
    <2>2. QED
      BY <1>1, <2>1
  <1>3. CASE j \in DOMAIN s /\ Append(s, f)[j] = s[j]
    BY <1>2, <1>3 DEF Rising
  <1>4. CASE Append(s, f)[j] = f
    BY <1>2, <1>4
  <1>5. QED
    BY <1>1, <1>3, <1>4

\* The tap moves the oldest frame of the wire to the end of the queue.
LEMMA OrderedQueued ==
    ASSUME NEW q \in Seq(Frame), NEW w \in Seq(Frame), w # <<>>, NEW h,
           \A i \in DOMAIN q : q[i].code # "push", Head(w).code # "push",
           Ordered(h, q, w)
    PROVE  /\ Ordered(h, Append(q, Head(w)), Tail(w))
           /\ \A v : Floor(h, v, q, w) => Floor(h, v, Append(q, Head(w)), Tail(w))
  <1>1. Head(w) \in Frame /\ Head(w) = w[1] /\ 1 \in DOMAIN w
    BY HeadElements
  <1>2. \A v : Over(h, v, w) => v <= h[Head(w).req]
    BY <1>1 DEF Over
  <1>3. Rising(h, Append(q, Head(w)))
    BY <1>1, <1>2, RisingAppend DEF Ordered
  <1>4. Rising(h, Tail(w)) /\ Over(h, h[Head(w).req], Tail(w))
    BY RisingTail DEF Ordered
  <1>5. \A i \in DOMAIN Append(q, Head(w)) : Over(h, h[Append(q, Head(w))[i].req], Tail(w))
    <2>1. \A i \in DOMAIN q : Over(h, h[q[i].req], Tail(w))
      BY OverTail DEF Ordered
    <2>2. QED
      BY <1>1, <1>4, <2>1, AppendElements
  <1>6. ASSUME NEW v, Floor(h, v, q, w) PROVE Floor(h, v, Append(q, Head(w)), Tail(w))
    BY <1>1, <1>2, <1>6, OverTail, OverAppend DEF Floor
  <1>7. QED
    BY <1>3, <1>4, <1>5, <1>6 DEF Ordered

\* A raw command takes the oldest frame of the queue.
LEMMA OrderedTaken ==
    ASSUME NEW q \in Seq(Frame), NEW w \in Seq(Frame), q # <<>>, NEW h,
           \A i \in DOMAIN q : q[i].code # "push", Ordered(h, q, w)
    PROVE  /\ Ordered(h, Tail(q), w)
           /\ \A v : Floor(h, v, q, w) => Floor(h, v, Tail(q), w) /\ v <= h[Head(q).req]
           /\ Floor(h, h[Head(q).req], Tail(q), w)
  <1>1. /\ 1 \in DOMAIN q /\ Head(q) = q[1] /\ Head(q).code # "push"
        /\ \A i \in DOMAIN Tail(q) : i + 1 \in DOMAIN q /\ Tail(q)[i] = q[i + 1]
    BY HeadElements
  <1>2. Ordered(h, Tail(q), w)
    BY <1>1, RisingTail DEF Ordered
  <1>3. Floor(h, h[Head(q).req], Tail(q), w)
    BY <1>1, RisingTail DEF Ordered, Floor
  <1>4. ASSUME NEW v, Floor(h, v, q, w) PROVE Floor(h, v, Tail(q), w) /\ v <= h[Head(q).req]
    <2>1. Floor(h, v, Tail(q), w)
      BY <1>4, OverTail DEF Floor
    <2>2. QED
      BY <1>1, <1>4, <2>1 DEF Floor, Over
  <1>5. QED
    BY <1>2, <1>3, <1>4

\* A frame is dropped from the wire, or a push put on it, or everything on it lost.
LEMMA OrderedDropped ==
    ASSUME NEW q, NEW w \in Seq(Frame), w # <<>>, NEW h, Ordered(h, q, w)
    PROVE  /\ Ordered(h, q, Tail(w))
           /\ \A v : Floor(h, v, q, w) => Floor(h, v, q, Tail(w))
  BY OverTail, RisingTail DEF Ordered, Floor

LEMMA OrderedPushed ==
    ASSUME NEW q, NEW w \in Seq(Frame), NEW f \in Frame, f.code = "push", NEW h, Ordered(h, q, w)
    PROVE  /\ Ordered(h, q, Append(w, f))
           /\ \A v : Floor(h, v, q, w) => Floor(h, v, q, Append(w, f))
  <1>1. \A v : Over(h, v, w) => Over(h, v, Append(w, f))
    BY OverAppend
  <1>2. Rising(h, w) => Rising(h, Append(w, f))
    BY RisingAppend
  <1>3. QED
    BY <1>1, <1>2 DEF Ordered, Floor

LEMMA OrderedEmptied ==
    ASSUME NEW q, NEW w, NEW p, NEW u, p = q \/ p = <<>>, u = w \/ u = <<>>,
           NEW h, Ordered(h, q, w)
    PROVE  /\ Ordered(h, p, u)
           /\ \A v : Floor(h, v, q, w) => Floor(h, v, p, u)
  BY DEF Ordered, Floor, Rising, Over

-----------------------------------------------------------------------------
(* Steps of the proxy are steps of the slot.                                *)

LEMMA SlotSteps == [CacheNext]_allVars => [Next]_vars
  <1> SUFFICES ASSUME [CacheNext]_allVars PROVE Next \/ UNCHANGED vars
    OBVIOUS
  <1>1. ASSUME NEW c \in Callers, NEW cmd \in Commands, Miss(c, cmd) PROVE Next
    BY <1>1 DEF Miss, Next, CallerStep
  <1>2. ASSUME NEW c \in Callers, ReturnsToProxy(c) \/ CallerProceeds(c) PROVE Next
    BY <1>2 DEF ReturnsToProxy, CallerProceeds, Next, CallerStep
  <1>3. ASSUME NEW c \in Callers, CacheHit(c) PROVE UNCHANGED vars
    BY <1>3 DEF CacheHit
  <1>4. ASSUME Execute PROVE Next
    BY <1>4 DEF Execute, Next
  <1>5. ASSUME Expire PROVE UNCHANGED vars
    BY <1>5 DEF Expire
  <1>6. QED
    BY <1>1, <1>2, <1>3, <1>4, <1>5 DEF CacheNext, Next, allVars

\* The steps that are no answer of the node.
NoAnswer ==
    \/ \E c \in Callers : CallerStep(c)
    \/ NodePush \/ Dispatch \/ LinkDrop \/ ConnLost \/ Reconnect
    \/ UNCHANGED vars

\* No frame that moves overtakes another, except those of an answer being given.
LEMMA PipelineVersions ==
    ASSUME IInv, [Next]_vars, NoAnswer, NEW h, Ordered(h, rawQueue, wire)
    PROVE  /\ Ordered(h, rawQueue', wire')
           /\ \A v : Floor(h, v, rawQueue, wire) => Floor(h, v, rawQueue', wire')
  <1>0. /\ TypeOK /\ SlotInv /\ wire \in Seq(Frame) /\ rawQueue \in Seq(Frame)
        /\ \A i \in DOMAIN rawQueue : rawQueue[i].code # "push"
    <2>1. TypeOK /\ SlotInv /\ wire \in Seq(Frame) /\ rawQueue \in Seq(RawFrame)
      BY DEF IInv, SlotInv, TypeOK
    <2>2. rawQueue \in Seq(Frame)
      BY <2>1, Values, SeqDef
    <2>3. \A i \in DOMAIN rawQueue : rawQueue[i] \in RawFrame
      BY <2>1, LenProperties, ElementOfSeq
    <2>4. QED
      BY <2>1, <2>2, <2>3 DEF RawFrame
  <1> USE DEF link, node
  <1>1. CASE rawQueue' \in {rawQueue, <<>>} /\ wire' \in {wire, <<>>}
    BY <1>1, OrderedEmptied
  <1>2. ASSUME NEW c \in Callers, RawReceive(c)
        PROVE  rawQueue # <<>> /\ rawQueue' = Tail(rawQueue) /\ wire' = wire
    BY <1>2 DEF RawReceive
  <1>3. CASE rawQueue # <<>> /\ rawQueue' = Tail(rawQueue) /\ wire' = wire
    BY <1>0, <1>3, OrderedTaken
  <1>4. CASE NodePush
    <2>1. PICK f \in Frame : f = [req |-> 0, code |-> "push"]
      BY DEF Frame, Codes
    <2>2. wire' = Append(wire, f) /\ rawQueue' = rawQueue /\ f.code = "push"
      BY <1>4, <2>1 DEF NodePush
    <2>3. QED
      BY <1>0, <2>2, OrderedPushed
  <1>5. CASE Dispatch
    <2>1. wire # <<>> /\ wire' = Tail(wire)
      BY <1>5 DEF Dispatch
    <2>2. CASE rawQueue' = rawQueue
      BY <1>0, <2>1, <2>2, OrderedDropped
    <2>3. CASE rawQueue' = Append(rawQueue, Head(wire)) /\ Head(wire).code # "push"
      BY <1>0, <2>1, <2>3, OrderedQueued
    <2>4. QED
      BY <1>5, <2>2, <2>3 DEF Dispatch, ForRaw
  <1>6. ASSUME NEW c \in Callers, CallerStep(c), ~RawReceive(c)
        PROVE  rawQueue' \in {rawQueue, <<>>} /\ wire' \in {wire, <<>>}
    BY <1>6 DEF CallerStep, Submit, Acquire, Enter, Send, SendFails, Taken, StreamFails, Timeout,
                Cancel, Leave, Release
  <1>7. ASSUME LinkDrop \/ ConnLost \/ Reconnect \/ UNCHANGED vars
        PROVE  rawQueue' \in {rawQueue, <<>>} /\ wire' \in {wire, <<>>}
    BY <1>7 DEF LinkDrop, ConnLost, LoseTraffic, Reconnect, vars
  <1>8. QED
    BY <1>1, <1>2, <1>3, <1>4, <1>5, <1>6, <1>7 DEF NoAnswer

\* What the node has answered it has not been asked again, but by who sends it.
LEMMA ExecutedKept ==
    ASSUME TypeOK, [Next]_vars, NEW r, Executed(r),
           \A d \in Callers : Phase(d) = "send" => call[d].req # r
    PROVE  Executed(r)'
  BY InboxStep DEF Executed

\* The first frame of a raw command is the oldest of the queue, and stays.
LEMMA FirstStays ==
    ASSUME SlotInv, [Next]_vars, NEW c \in RawCallers, got'[c] # <<>>
    PROVE  \/ got[c] # <<>> /\ got'[c][1] = got[c][1]
           \/ RawReceive(c) /\ got[c] = <<>> /\ got'[c][1] = Head(rawQueue)
  <1>0. c \in Callers /\ c \notin LibCallers /\ got[c] \in Seq(Frame) /\ TypeOK
    BY CallersAssumption DEF Callers, SlotInv, TypeOK
  <1>1. CASE got'[c] = got[c]
    BY <1>1
  <1>2. CASE RawReceive(c)
    <2>1. Head(rawQueue) \in Frame /\ got'[c] = Append(got[c], Head(rawQueue))
      <3>1. Head(rawQueue) \in RawFrame
        BY <1>0, <1>2, HeadTailProperties DEF RawReceive, TypeOK
      <3>2. QED
        BY <1>0, <1>2, <3>1, Values DEF RawReceive, Take, TypeOK
    <2>2. CASE got[c] = <<>>
      BY <1>2, <2>1, <2>2
    <2>3. CASE got[c] # <<>>
      <3>1. 1 \in 1..Len(got[c])
        BY <1>0, <2>3, HeadElements, LenProperties
      <3>2. QED
        BY <1>0, <2>1, <2>3, <3>1, AppendProperties
    <2>4. QED
      BY <2>2, <2>3
  <1>3. ASSUME NEW d \in Callers, CallerStep(d), ~RawReceive(c)
        PROVE  got'[c] = got[c] \/ got'[c] = <<>>
    <2>1. \/ got' = got
          \/ got' = [got EXCEPT ![d] = <<>>]
          \/ RawReceive(d)
      BY <1>3 DEF CallerStep, Submit, Acquire, Send, SendFails, Taken, StreamFails, Timeout,
                  Cancel, Leave
    <2>2. CASE RawReceive(d)
      <3>1. d # c
        BY <1>3, <2>2
      <3>2. QED
        BY <1>0, <2>2, <3>1 DEF RawReceive, Take, TypeOK
    <2>3. QED
      BY <1>0, <2>1, <2>2 DEF TypeOK
  <1>4. ASSUME Dispatch PROVE got'[c] = got[c]
    <2>1. \/ got' = got
          \/ \E d \in LibCallers : got' = [got EXCEPT ![d] = Append(got[d], Head(wire))]
      BY <1>4 DEF Dispatch, Take
    <2>2. QED
      BY <1>0, <2>1 DEF TypeOK
  <1>5. ASSUME NodeAnswer \/ NodePush \/ LinkDrop \/ ConnLost \/ Reconnect \/ UNCHANGED vars
        PROVE  got'[c] = got[c]
    BY <1>5 DEF NodeAnswer, NodePush, LinkDrop, ConnLost, Reconnect, vars
  <1>6. QED
    BY <1>0, <1>1, <1>2, <1>3, <1>4, <1>5 DEF Next

-----------------------------------------------------------------------------
(* The invariant.                                                           *)

LEMMA CacheInvInit == CacheInit => CacheInv
  <1> SUFFICES ASSUME CacheInit PROVE CacheInv
    OBVIOUS
  <1>1. WholeInv
    BY WholeInit DEF CacheInit
  <1>2. CacheTyped /\ Past
    BY BoundsAssumption DEF CacheInit, Init, CacheTyped, Past
  <1>3. Versions
    BY DEF CacheInit, Init, Versions, Ordered, Floor, Rising, Over
  <1>4. \A c \in Callers : FirstTaken(c)
    BY DEF CacheInit, Init, FirstTaken
  <1>5. Cached
    BY DEF CacheInit, Cached, OneAnswer
  <1>6. QED
    BY <1>1, <1>2, <1>3, <1>4, <1>5 DEF CacheInv

LEMMA NumbersBounded ==
    ASSUME TypeOK, nreq <= MaxRequests, [Next]_vars
    PROVE  nreq' <= MaxRequests
  <1>1. nreq' = nreq \/ (nreq < MaxRequests /\ nreq' = nreq + 1)
    BY DEF Next, CallerStep, Submit, Acquire, Enter, Send, SendFails, RawReceive, Taken, StreamFails,
           Timeout, Cancel, Leave, Take, NodeAnswer, NodePush, Dispatch, LinkDrop, ConnLost,
           Reconnect, vars
  <1>2. QED
    BY <1>1, BoundsAssumption DEF TypeOK

\* Whoever has taken a frame holds the slot: no one sends meanwhile.
LEMMA HolderOfFirst ==
    ASSUME SlotInv, NEW c \in Callers, got[c] # <<>>
    PROVE  /\ slot = c /\ Phase(c) \in {"recv", "took"}
           /\ \A d \in Callers : Phase(d) # "send" /\ (d # c => got[d] = <<>>)
  BY DEF SlotInv, SlotDiscipline, PhaseData, Holding, TypeOK, Phase, Call

\* What clients know does not change.
KnownKept == completed' = completed /\ shown' = shown

LEMMA FirstTakenKept ==
    ASSUME CacheInv, [Next]_vars, NoAnswer, ver' = ver, KnownKept, NEW c \in Callers
    PROVE  FirstTaken(c)'
  <1>0. /\ IInv /\ SlotInv /\ TypeOK /\ nreq' >= nreq /\ nreq' \in Nat /\ nreq \in Nat
    BY ActiveStep DEF CacheInv, WholeInv, IInv, SlotInv, TypeOK
  <1> SUFFICES ASSUME c \in RawCallers, got'[c] # <<>>
               PROVE  \E r \in 1..nreq' : r = got'[c][1].req /\ Between(r)'
    BY DEF FirstTaken
  <1>1. CASE got[c] # <<>> /\ got'[c][1] = got[c][1]
    <2>1. PICK r \in 1..nreq : r = got[c][1].req /\ Between(r)
      BY <1>1 DEF CacheInv, FirstTaken
    <2>2. Executed(r)'
      BY <1>0, <1>1, <2>1, HolderOfFirst, ExecutedKept DEF Between
    <2>3. Floor(ver, ver[r], rawQueue', wire')
      BY <1>0, <2>1, PipelineVersions DEF CacheInv, Versions, Between
    <2>4. Between(r)'
      BY <2>1, <2>2, <2>3 DEF Between, KnownKept
    <2>5. QED
      BY <1>0, <1>1, <2>1, <2>4
  <1>2. CASE RawReceive(c) /\ got[c] = <<>> /\ got'[c][1] = Head(rawQueue)
    <2>1. /\ rawQueue # <<>> /\ rawQueue' = Tail(rawQueue) /\ wire' = wire /\ inbox' = inbox
          /\ rawQueue \in Seq(RawFrame) /\ wire \in Seq(Frame)
      BY <1>0, <1>2 DEF RawReceive, TypeOK, node
    <2>2. /\ rawQueue \in Seq(Frame) /\ Head(rawQueue) = rawQueue[1] /\ 1 \in DOMAIN rawQueue
          /\ \A i \in DOMAIN rawQueue : rawQueue[i].code # "push"
      <3>1. \A i \in DOMAIN rawQueue : rawQueue[i] \in RawFrame
        BY <2>1, LenProperties, ElementOfSeq
      <3>2. rawQueue \in Seq(Frame)
        BY <2>1, Values, SeqDef
      <3>3. QED
        BY <2>1, <3>1, <3>2, HeadElements DEF RawFrame
    <2>3. PICK r : r = Head(rawQueue).req
      OBVIOUS
    <2>4. r \in 1..nreq
      BY <1>0, <2>2, <2>3, OwedNumber DEF IInv, Pipeline, OwedQueue
    <2>5. Executed(r)
      BY <1>0, <2>2, <2>3 DEF IInv, Pipeline, Unexecuted, Executed
    <2>6. completed <= ver[r] /\ shown <= ver[r] /\ Floor(ver, ver[r], Tail(rawQueue), wire)
      BY <2>1, <2>2, <2>3, OrderedTaken DEF CacheInv, Versions
    <2>7. Between(r)'
      BY <2>1, <2>5, <2>6 DEF Between, Executed, KnownKept
    <2>8. QED
      BY <1>0, <1>2, <2>3, <2>4, <2>7
  <1>3. QED
    BY <1>0, <1>1, <1>2, FirstStays

\* The entry stays what it is, or is gone.
LEMMA CachedKept ==
    ASSUME CacheInv, [Next]_vars, cache' = cache \/ cache' = <<>>, KnownKept,
           \A r \in 1..nreq : Executed(r) => ver'[r] = ver[r]
    PROVE  Cached'
  <1>0. /\ SlotInv /\ TypeOK /\ nreq' >= nreq /\ nreq' \in Nat /\ nreq \in Nat
    BY ActiveStep DEF CacheInv, WholeInv, IInv, SlotInv, TypeOK
  <1>1. CASE cache' = <<>>
    BY <1>1 DEF Cached, OneAnswer
  <1>2. CASE cache' = cache /\ OneAnswer(cache)
    <2>1. PICK r \in 1..nreq :
            /\ r = cache[1].req /\ Executed(r)
            /\ \A c \in Callers : Active(c) => call[c].req # r
            /\ completed <= ver[r] /\ shown = ver[r]
      BY <1>2 DEF CacheInv, Cached
    <2>2. Executed(r)'
      BY <1>0, <2>1, ExecutedKept DEF Active
    <2>3. \A c \in Callers : Active(c)' => call'[c].req # r
      BY <1>0, <2>1, ActiveStep DEF SameCommand
    <2>4. ver'[r] = ver[r] /\ r \in 1..nreq'
      BY <1>0, <2>1
    <2>5. QED
      BY <1>2, <2>1, <2>2, <2>3, <2>4 DEF Cached, KnownKept
  <1>3. CASE cache' = cache /\ ~OneAnswer(cache)
    BY <1>3 DEF Cached, OneAnswer
  <1>4. QED
    BY <1>1, <1>2, <1>3

\* Neither the cache nor what clients know changes, and the node answers nothing.
LEMMA QuietStep ==
    ASSUME CacheInv, [Next]_vars, NoAnswer, UNCHANGED <<ver, nodeVer>>, KnownKept,
           cache' = cache \/ cache' = <<>>
    PROVE  CacheInv'
  <1>1. WholeInv' /\ IInv /\ TypeOK
    BY WholeStep DEF CacheInv, WholeInv, IInv, SlotInv
  <1>2. CacheTyped'
    BY <1>1, NumbersBounded DEF CacheInv, CacheTyped, KnownKept
  <1>3. Past'
    BY DEF CacheInv, Past, KnownKept
  <1>4. Versions'
    <2>1. /\ Ordered(ver, rawQueue', wire') /\ Floor(ver, completed, rawQueue', wire')
          /\ Floor(ver, shown, rawQueue', wire')
      BY <1>1, PipelineVersions DEF CacheInv, Versions
    <2>2. QED
      BY <2>1 DEF Versions, KnownKept
  <1>5. \A c \in Callers : FirstTaken(c)'
    BY FirstTakenKept
  <1>6. Cached'
    BY CachedKept
  <1>7. QED
    BY <1>1, <1>2, <1>3, <1>4, <1>5, <1>6 DEF CacheInv

\* The node answers: frames of a request that has none yet, at its newest version n.
LEMMA OrderedAnswered ==
    ASSUME NEW q \in Seq(Frame), NEW w \in Seq(Frame), NEW a \in Seq(Frame), NEW D,
           NEW h \in [D -> Nat], NEW r \in D, NEW n \in Nat, \A d \in D : h[d] <= n,
           \A i \in DOMAIN q : q[i].req \in D \ {r},
           \A i \in DOMAIN w : w[i].code # "push" => w[i].req \in D \ {r},
           \A i \in DOMAIN a : a[i].req = r,
           Ordered(h, q, w)
    PROVE  LET k == [h EXCEPT ![r] = n]
           IN  /\ Ordered(k, q, w \o a)
               /\ \A v : v <= n /\ Floor(h, v, q, w) => Floor(k, v, q, w \o a)
  <1>1. PICK k \in [D -> Nat] : k = [h EXCEPT ![r] = n]
    OBVIOUS
  <1>2. k[r] = n /\ \A d \in D \ {r} : k[d] = h[d]
    BY <1>1
  <1>3. PICK u \in Seq(Frame) : u = w \o a
    BY ConcatProperties
  <1>4. \A i \in DOMAIN u :
            \/ i \in DOMAIN w /\ u[i] = w[i]
            \/ i > Len(w) /\ u[i].req = r
    <2>1. \A i \in DOMAIN u :
            \/ i \in DOMAIN w /\ u[i] = w[i]
            \/ i > Len(w) /\ i - Len(w) \in 1..Len(a) /\ u[i] = a[i - Len(w)]
      BY <1>3, ConcatElements
    <2>2. DOMAIN a = 1..Len(a)
      BY LenProperties
    <2>3. QED
      BY <2>1, <2>2
  <1>5. ASSUME NEW v, v <= n, Over(h, v, w) PROVE Over(k, v, u)
    BY <1>2, <1>4, <1>5 DEF Over
  <1>6. ASSUME NEW v, Over(h, v, q) PROVE Over(k, v, q)
    BY <1>2, <1>6 DEF Over
  <1>7. Rising(k, q)
    BY <1>2 DEF Ordered, Rising
  <1>8. Rising(k, u)
    <2> SUFFICES ASSUME NEW i \in DOMAIN u, NEW j \in DOMAIN u, i < j,
                        u[i].code # "push", u[j].code # "push"
                 PROVE  k[u[i].req] <= k[u[j].req]
      BY DEF Rising
    <2>1. k[u[i].req] <= n
      BY <1>2, <1>4
    <2>2. CASE u[j].req = r
      BY <1>2, <2>1, <2>2
    <2>3. CASE j \in DOMAIN w /\ u[j] = w[j]
      <3>1. DOMAIN w = 1..Len(w) /\ Len(w) \in Nat /\ DOMAIN u = 1..Len(u) /\ Len(u) \in Nat
        BY LenProperties
      <3>2. i \in DOMAIN w /\ u[i] = w[i]
        BY <1>4, <2>3, <3>1
      <3>3. QED
        BY <1>2, <2>3, <3>2, SMTT(30) DEF Ordered, Rising
    <2>4. QED
      BY <1>4, <2>2, <2>3
  <1>9. \A i \in DOMAIN q : Over(k, k[q[i].req], u)
    BY <1>2, <1>5 DEF Ordered
  <1>10. QED
    BY <1>1, <1>3, <1>5, <1>6, <1>7, <1>8, <1>9 DEF Ordered, Floor

LEMMA ExecuteStep ==
    ASSUME CacheInv, Execute
    PROVE  CacheInv'
  <1>0. /\ IInv /\ SlotInv /\ TypeOK /\ [Next]_vars /\ nreq' = nreq /\ nreq \in Nat
        /\ nreq <= MaxRequests /\ MaxRequests \in Nat /\ KnownKept
        /\ wire \in Seq(Frame) /\ rawQueue \in Seq(RawFrame) /\ inbox \in Seq(Request)
        /\ inbox # <<>> /\ NodeAnswer /\ UNCHANGED <<slot, call, got, rawQueue, cache>>
        /\ ver \in [1..MaxRequests -> Nat] /\ nodeVer \in Nat
    BY BoundsAssumption DEF CacheInv, WholeInv, IInv, SlotInv, TypeOK, Execute, Next, NodeAnswer,
                            CacheTyped, KnownKept
  <1>1. PICK q \in Request : q = Head(inbox) /\ q = inbox[1] /\ 1 \in DOMAIN inbox
    BY <1>0, HeadElements
  <1>2. PICK a \in Answers(q) : wire' = wire \o a
    BY <1>0, <1>1 DEF NodeAnswer
  <1>3. PICK n \in Nat : /\ n = nodeVer' /\ nodeVer <= n
                         /\ ver' = [ver EXCEPT ![q.req] = n]
    <2>1. nodeVer' \in Nat /\ nodeVer <= nodeVer'
      BY <1>0 DEF Execute
    <2>2. ver' = [ver EXCEPT ![q.req] = nodeVer']
      BY <1>1 DEF Execute
    <2>3. QED
      BY <2>1, <2>2
  <1>4. a \in Seq(Frame) /\ \A i \in DOMAIN a : a[i].req = q.req
    BY AnswerFrames, LenProperties
  <1>5. q.req \in 1..nreq /\ q.req \in 1..MaxRequests /\ \A r : Executed(r) => r # q.req
    <2>1. q.req \in 1..nreq
      BY <1>0, <1>1, OwedNumber DEF IInv, Pipeline, OwedInbox, Silent
    <2>2. QED
      BY <1>0, <1>1, <2>1 DEF Executed
  <1>6. /\ rawQueue \in Seq(Frame)
        /\ \A i \in DOMAIN rawQueue : rawQueue[i].req \in (1..MaxRequests) \ {q.req}
        /\ \A i \in DOMAIN wire : wire[i].code # "push" =>
                wire[i].req \in (1..MaxRequests) \ {q.req}
    <2>1. rawQueue \in Seq(Frame)
      BY <1>0, Values, SeqDef
    <2>2. \A r \in 1..nreq : r \in 1..MaxRequests
      BY <1>0
    <2>3. /\ \A i \in DOMAIN rawQueue : rawQueue[i].req \in 1..nreq
          /\ \A i \in DOMAIN wire : wire[i].code # "push" => wire[i].req \in 1..nreq
      BY <1>0, OwedNumber DEF IInv, Pipeline, OwedQueue, OwedWire
    <2>4. /\ \A i \in DOMAIN rawQueue : rawQueue[i].req # q.req
          /\ \A i \in DOMAIN wire : wire[i].req # q.req
      BY <1>0, <1>1 DEF IInv, Pipeline, Unexecuted
    <2>5. QED
      BY <2>1, <2>2, <2>3, <2>4
  <1>7. \A r \in 1..MaxRequests : ver[r] <= n /\ ver[r] \in Nat
    BY <1>0, <1>3 DEF CacheInv, Past
  <1>8. /\ Ordered(ver', rawQueue, wire')
        /\ \A v : v <= n /\ Floor(ver, v, rawQueue, wire) => Floor(ver', v, rawQueue, wire')
    <2>1. Ordered(ver, rawQueue, wire)
      BY DEF CacheInv, Versions
    <2>2. QED
      BY <1>0, <1>2, <1>3, <1>4, <1>5, <1>6, <1>7, <2>1, OrderedAnswered
  <1>9. WholeInv'
    BY <1>0, WholeStep DEF CacheInv
  <1>10. CacheTyped' /\ Past'
    <2>1. ver' \in [1..MaxRequests -> Nat] /\ \A r \in 1..MaxRequests : ver'[r] <= n
      BY <1>0, <1>3, <1>5, <1>7
    <2>2. completed <= n /\ shown <= n
      BY <1>0, <1>3 DEF CacheInv, Past, CacheTyped
    <2>3. QED
      BY <1>0, <1>3, <2>1, <2>2 DEF CacheInv, CacheTyped, Past, KnownKept
  <1>11. Versions'
    <2>1. completed <= n /\ shown <= n
      BY <1>0, <1>3 DEF CacheInv, Past, CacheTyped
    <2>2. /\ Floor(ver', completed, rawQueue, wire') /\ Floor(ver', shown, rawQueue, wire')
      BY <1>8, <2>1 DEF CacheInv, Versions
    <2>3. QED
      BY <1>0, <1>8, <2>2 DEF Versions, KnownKept
  <1>12. \A r \in 1..nreq : Executed(r) => Executed(r)' /\ ver'[r] = ver[r]
    <2>1. inbox' = Tail(inbox)
      BY <1>0 DEF NodeAnswer
    <2>2. \A i \in DOMAIN inbox' : \E j \in DOMAIN inbox : inbox'[i] = inbox[j]
      BY <1>0, <2>1, HeadElements
    <2>3. \A r \in 1..nreq : r # q.req => ver'[r] = ver[r]
      BY <1>0, <1>3
    <2>4. QED
      BY <1>5, <2>2, <2>3 DEF Executed
  <1>13. ASSUME NEW c \in Callers PROVE FirstTaken(c)'
    <2> SUFFICES ASSUME c \in RawCallers, got[c] # <<>>
                 PROVE  \E r \in 1..nreq : r = got[c][1].req /\ Between(r)'
      BY <1>0 DEF FirstTaken
    <2>1. PICK r \in 1..nreq : r = got[c][1].req /\ Between(r)
      BY DEF CacheInv, FirstTaken
    <2>2. ver'[r] = ver[r] /\ Executed(r)' /\ ver[r] <= n
      BY <1>0, <1>7, <1>12, <2>1 DEF Between
    <2>3. Floor(ver', ver[r], rawQueue, wire')
      BY <1>8, <2>1, <2>2 DEF Between
    <2>4. QED
      BY <1>0, <2>1, <2>2, <2>3 DEF Between, KnownKept
  <1>14. Cached'
    BY <1>0, <1>12, CachedKept
  <1>15. QED
    BY <1>9, <1>10, <1>11, <1>13, <1>14 DEF CacheInv

\* raw_command returns to the proxy: the holder leaves, the cache is updated.
LEMMA ReturnStep ==
    ASSUME CacheInv, NEW c \in Callers, ReturnsToProxy(c)
    PROVE  CacheInv'
  <1>0. /\ IInv /\ SlotInv /\ TypeOK /\ Phase(c) \in Holding /\ Leave(c) /\ [Next]_vars
        /\ c \in RawCallers /\ slot = c /\ nreq' = nreq /\ nreq \in Nat
        /\ nreq <= MaxRequests /\ MaxRequests \in Nat
        /\ wire' = wire /\ rawQueue' = <<>> /\ UNCHANGED <<ver, nodeVer>>
        /\ ver \in [1..MaxRequests -> Nat]
    <2>1. IInv /\ SlotInv /\ TypeOK /\ c \in RawCallers /\ UNCHANGED <<ver, nodeVer>> /\ [Next]_vars
      BY DEF CacheInv, WholeInv, IInv, SlotInv, ReturnsToProxy, RawCallers, Next, CallerStep
    <2>2. Phase(c) \in Holding /\ Leave(c) /\ nreq' = nreq /\ wire' = wire
      BY DEF ReturnsToProxy, Taken, Send, Holding, node
    <2>3. QED
      BY <2>1, <2>2, BoundsAssumption
         DEF SlotInv, SlotDiscipline, TypeOK, CacheInv, CacheTyped, Leave, Release
  <1>1. \A d \in Callers : /\ got'[d] = <<>>
                           /\ Active(d)' => Active(d) /\ d # c /\ call'[d] = call[d]
    <2>1. \A d \in Callers \ {c} : got[d] = <<>>
      BY <1>0 DEF SlotInv, SlotDiscipline, PhaseData, Holding, TypeOK, Phase, Call
    <2>2. QED
      BY <1>0, <2>1 DEF Leave, TypeOK, Active, Phase, Idle
  <1>2. got[c] # <<>> => \E r \in 1..nreq : r = got[c][1].req /\ Between(r)
    BY <1>0 DEF CacheInv, FirstTaken
  <1> DEFINE Known(v) == v \in Nat /\ v <= nodeVer /\ Floor(ver, v, rawQueue, wire)
  <1>3. /\ Known(completed) /\ Known(shown)
        /\ \A r \in 1..nreq : Between(r) => Known(ver[r])
    <2>1. Known(completed) /\ Known(shown)
      BY DEF CacheInv, CacheTyped, Past, Versions
    <2>2. ASSUME NEW r \in 1..nreq, Between(r) PROVE Known(ver[r])
      <3>1. r \in 1..MaxRequests
        BY <1>0
      <3>2. QED
        BY <1>0, <2>2, <3>1 DEF Between, CacheInv, Past
    <2>3. QED
      BY <2>1, <2>2
  <1> HIDE DEF Known
  <1>4. ASSUME Mutating(call[c].cmd) PROVE Known(completed') /\ Known(shown') /\ Cached'
    <2>1. /\ cache' = <<>> /\ shown' = shown
          /\ \/ completed' = completed
             \/ /\ got[c] # <<>> /\ got[c][1].req = call[c].req
                /\ completed' = Max({completed, ver[call[c].req]})
      BY <1>4 DEF ReturnsToProxy, Returned, Clear
    <2>2. Known(completed')
      <3>1. CASE completed' = completed
        BY <1>3, <3>1
      <3>2. CASE /\ got[c] # <<>> /\ got[c][1].req = call[c].req
                 /\ completed' = Max({completed, ver[call[c].req]})
        <4>1. PICK r \in 1..nreq : r = call[c].req /\ Between(r)
          BY <1>2, <3>2
        <4>2. completed \in Nat /\ ver[r] \in Nat /\ completed <= ver[r]
          BY <1>3, <4>1 DEF Known, Between
        <4>3. Max({completed, ver[r]}) = ver[r]
          <5>1. PICK m \in Nat : m = ver[r]
            BY <4>2
          <5>2. \A x \in {completed, m} :
                    (\A y \in {completed, m} : x >= y) <=> x = m
            BY <4>2, <5>1
          <5>3. Max({completed, m}) = m
            BY <5>2 DEF Max
          <5>4. QED
            BY <5>1, <5>3
        <4>4. QED
          BY <1>3, <3>2, <4>1, <4>3
      <3>3. QED
        BY <2>1, <3>1, <3>2
    <2>3. Cached'
      BY <2>1 DEF Cached, OneAnswer
    <2>4. QED
      BY <1>3, <2>1, <2>2, <2>3
  <1>5. ASSUME ~Mutating(call[c].cmd) PROVE Known(completed') /\ Known(shown') /\ Cached'
    <2>1. cache' = got[c] /\ completed' = completed /\ shown' = Shows(got[c]) /\ inbox' = inbox
      BY <1>5 DEF ReturnsToProxy, Returned, Store, Mutating, Taken, node
    <2>2. CASE ~OneAnswer(got[c])
      <3>1. shown' = shown
        BY <2>1, <2>2 DEF Shows
      <3>2. Cached'
        BY <2>1, <2>2 DEF Cached, OneAnswer
      <3>3. QED
        BY <1>3, <2>1, <3>1, <3>2
    <2>3. CASE OneAnswer(got[c])
      <3>1. PICK r \in 1..nreq : r = got[c][1].req /\ Between(r) /\ got[c] # <<>>
        BY <1>2, <2>3 DEF OneAnswer
      <3>2. shown' = ver[r]
        BY <2>1, <2>3, <3>1 DEF Shows
      <3>3. \A d \in Callers : Active(d)' => call'[d].req # r
        <4>1. r \in {call[c].req} \cup abandoned
          <5>1. 1 \in DOMAIN got[c]
            BY <1>0, <3>1, HeadElements DEF TypeOK
          <5>2. QED
            BY <1>0, <3>1, <5>1 DEF IInv, StrayOnlyAfterAbandon
        <4>2. Active(c)
          BY <1>0 DEF Active, Holding
        <4>3. QED
          BY <1>0, <1>1, <4>1, <4>2 DEF SlotInv, Numbered
      <3>4. Cached'
        BY <1>0, <2>1, <3>1, <3>2, <3>3 DEF Cached, Between, Executed
      <3>5. QED
        BY <1>3, <2>1, <3>1, <3>2, <3>4
    <2>4. QED
      BY <2>2, <2>3
  <1>6. Known(completed') /\ Known(shown') /\ Cached'
    BY <1>4, <1>5
  <1>7. WholeInv'
    BY <1>0, WholeStep DEF CacheInv
  <1>8. CacheTyped' /\ Past'
    BY <1>0, <1>6 DEF CacheInv, CacheTyped, Past, Known
  <1>9. Versions'
    <2>1. /\ Ordered(ver, <<>>, wire)
          /\ Floor(ver, completed', <<>>, wire) /\ Floor(ver, shown', <<>>, wire)
      BY <1>6, OrderedEmptied DEF CacheInv, Versions, Known
    <2>2. QED
      BY <1>0, <2>1 DEF Versions
  <1>10. \A d \in Callers : FirstTaken(d)'
    BY <1>1 DEF FirstTaken
  <1>11. QED
    BY <1>6, <1>7, <1>8, <1>9, <1>10 DEF CacheInv

LEMMA CacheInvStep == CacheInv /\ [CacheNext]_allVars => CacheInv'
  <1> SUFFICES ASSUME CacheInv, [CacheNext]_allVars PROVE CacheInv'
    OBVIOUS
  <1>0. [Next]_vars
    BY SlotSteps
  <1>1. ASSUME NEW c \in Callers, CacheHit(c) PROVE CacheInv'
    <2>1. KnownKept /\ UNCHANGED <<ver, nodeVer, cache, vars>>
      BY <1>1 DEF CacheHit, Shows, KnownKept, CacheInv, Cached
    <2>2. QED
      BY <1>0, <2>1, QuietStep DEF NoAnswer
  <1>2. ASSUME NoAnswer, UNCHANGED cacheVars PROVE CacheInv'
    BY <1>0, <1>2, QuietStep DEF cacheVars, KnownKept
  <1>3. ASSUME NEW c \in Callers, NEW cmd \in Commands, Miss(c, cmd) PROVE CacheInv'
    BY <1>2, <1>3 DEF Miss, NoAnswer, CallerStep
  <1>4. ASSUME NEW c \in Callers, ReturnsToProxy(c) PROVE CacheInv'
    BY <1>4, ReturnStep
  <1>5. ASSUME NEW c \in Callers, CallerProceeds(c) PROVE CacheInv'
    BY <1>2, <1>5 DEF CallerProceeds, NoAnswer, CallerStep
  <1>6. ASSUME Execute PROVE CacheInv'
    BY <1>6, ExecuteStep
  <1>7. ASSUME Expire PROVE CacheInv'
    <2>1. NoAnswer /\ KnownKept /\ UNCHANGED <<ver, nodeVer>> /\ cache' = <<>>
      BY <1>7 DEF Expire, NoAnswer, KnownKept
    <2>2. QED
      BY <1>0, <2>1, QuietStep
  <1>8. ASSUME NodePush \/ Dispatch \/ LinkDrop \/ ConnLost \/ Reconnect, UNCHANGED cacheVars
        PROVE  CacheInv'
    BY <1>2, <1>8 DEF NoAnswer
  <1>9. ASSUME UNCHANGED allVars PROVE CacheInv'
    BY <1>2, <1>9 DEF NoAnswer, allVars
  <1>10. QED
    BY <1>1, <1>3, <1>4, <1>5, <1>6, <1>7, <1>8, <1>9 DEF CacheNext

\* An entry reflects every mutation that a client has been told about (ResponseCache.clear in
\* _handle_command), whatever else is under way or was given up.
THEOREM CacheIsFresh == CacheSpec => []CacheFresh
  <1>1. CacheInv => CacheFresh
    BY DEF CacheInv, Cached, CacheFresh
  <1>2. QED
    BY CacheInvInit, CacheInvStep, <1>1, PTL DEF CacheSpec

\* No client is shown an older contact list than any client was shown before it, from the
\* node or from the cache.
THEOREM ReadsAreMonotonic == CacheSpec => ReadsNeverGoBack
  <1>1. CacheInv /\ [CacheNext]_allVars => [shown' >= shown]_allVars
    <2> SUFFICES ASSUME CacheInv, [CacheNext]_allVars PROVE shown' >= shown
      OBVIOUS
    <2>0. shown \in Nat
      BY DEF CacheInv, CacheTyped
    <2>1. ASSUME NEW c \in Callers, CacheHit(c) PROVE shown' = shown
      BY <2>1 DEF CacheHit, Shows, CacheInv, Cached
    <2>2. ASSUME NEW c \in Callers, ReturnsToProxy(c) PROVE shown' >= shown
      <3>1. CASE shown' = shown
        BY <2>0, <3>1
      <3>2. CASE OneAnswer(got[c]) /\ shown' = ver[got[c][1].req]
        <4>1. c \in RawCallers /\ got[c] # <<>>
          BY <2>2, <3>2 DEF ReturnsToProxy, RawCallers, OneAnswer
        <4>2. PICK r \in 1..nreq : r = got[c][1].req /\ Between(r)
          BY <4>1 DEF CacheInv, FirstTaken
        <4>3. r \in 1..MaxRequests
          BY BoundsAssumption DEF CacheInv, WholeInv, IInv, SlotInv, TypeOK, CacheTyped
        <4>4. ver[r] \in Nat
          BY <4>3 DEF CacheInv, CacheTyped
        <4>5. QED
          BY <2>0, <3>2, <4>2, <4>4 DEF Between
      <3>3. QED
        BY <2>2, <3>1, <3>2 DEF ReturnsToProxy, Returned, Shows
    <2>3. ASSUME ~\E c \in Callers : CacheHit(c) \/ ReturnsToProxy(c) PROVE shown' = shown
      BY <2>3 DEF CacheNext, Miss, CallerProceeds, Execute, Expire, cacheVars, allVars
    <2>4. QED
      BY <2>0, <2>1, <2>2, <2>3
  <1>2. QED
    BY CacheInvInit, CacheInvStep, <1>1, PTL DEF CacheSpec, ReadsNeverGoBack

\* What is stored for a cacheable command is one answer from the first frame to the last, if
\* no frame of another request got into it.
THEOREM StoresWholeAnswers == CacheSpec => CacheWhole
  <1>1. CacheInv /\ [CacheNext]_allVars =>
          [\A c \in ProxyClients :
              /\ ReturnsToProxy(c)
              /\ cache' # <<>>
              /\ \A i \in DOMAIN got[c] : got[c][i].req = call[c].req
              => OneAnswer(cache')]_allVars
    <2> SUFFICES ASSUME CacheInv, NEW c \in ProxyClients, ReturnsToProxy(c), cache' # <<>>,
                        \A i \in DOMAIN got[c] : got[c][i].req = call[c].req
                 PROVE  OneAnswer(cache')
      OBVIOUS
    <2>1. /\ c \in Callers /\ c \in RawCallers /\ got[c] \in Seq(Frame)
          /\ call[c].cmd \in Commands /\ Unfinished(c) /\ SentFine(c)
      BY DEF Callers, RawCallers, CacheInv, WholeInv, IInv, SlotInv, TypeOK, Call
    <2>2. /\ call[c].cmd = "contacts" /\ cache' = got[c] /\ got[c] # <<>>
          /\ Phase(c) = "took" /\ Terminal(call[c].cmd, Last(got[c]).code)
      BY <2>1 DEF ReturnsToProxy, Returned, Clear, Store, Mutating, Commands, Taken
    <2>3. /\ 1 \in DOMAIN got[c] /\ Len(got[c]) \in DOMAIN got[c]
          /\ \A i \in DOMAIN got[c] : got[c][i] \in Frame /\ i \in Nat /\ i >= 1
      BY <2>1, <2>2, HeadElements, LenProperties, ElementOfSeq
    <2>4. ASSUME NEW i \in DOMAIN got[c] PROVE got[c][i].code \in Final <=> i = Len(got[c])
      <3>1. got[c][i].code \in Final => i = Len(got[c])
        BY <2>1, <2>2 DEF Unfinished, Terminal, Final
      <3>2. got[c][Len(got[c])].code \in Final
        <4>1. Last(got[c]) = got[c][Len(got[c])]
          BY DEF Last
        <4>2. got[c][Len(got[c])].code \in Codes \ {"push", "start", "contact"}
          BY <2>1, <2>2, <2>3, <4>1 DEF Frame, Unfinished, Terminal
        <4>3. QED
          BY <4>2 DEF Codes, Final
      <3>3. QED
        BY <3>1, <3>2
    <2>5. got[c][1].code \in {"start", "err"}
      <3>1. OpensFirst(call[c].req, got[c], FALSE)
        BY <2>1, <2>2 DEF SentFine, Sent, AnswerFine, FromTheStart
      <3>2. QED
        BY <2>3, <3>1 DEF OpensFirst, Opens
    <2>6. QED
      BY <2>2, <2>3, <2>4, <2>5 DEF OneAnswer
  <1>2. QED
    BY CacheInvInit, CacheInvStep, <1>1, PTL DEF CacheSpec, CacheWhole
=============================================================================
